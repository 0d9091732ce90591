------------------------------ MODULE Session ------------------------------
(***************************************************************************)
(* A conversation: the QueryEngine (engine/query_engine.py), which owns    *)
(* the history, the lines and commands of ui/runtime.py that work on it,   *)
(* and run_query, which is handed the history for every line.              *)
(*                                                                         *)
(* run_query and the engine share one list only as long as no compaction   *)
(* gives run_query another one: from then on what it appends is not in the *)
(* history of the session.  The turns of AgentLoop are reduced to what     *)
(* they do to the two lists; a line may be cancelled or fail anywhere.     *)
(***************************************************************************)
EXTENDS History

CONSTANTS
    MaxTurns,       \* QueryContext.max_turns
    MaxFailures,    \* MAX_CONSECUTIVE_AUTOCOMPACT_FAILURES
    MaxLines,       \* bound: lines of a session
    MaxAnswers      \* bound: answers of a session

ASSUME SessionAssumption ==
    /\ MaxTurns \in Nat /\ MaxFailures \in Nat
    /\ MaxLines \in Nat /\ MaxAnswers \in Nat

VARIABLES
    pc,          \* "idle", "answered", "turn", "model", "calls" or "summarising"
    lines,       \* lines submitted
    turn,        \* answers of the session, which number the messages
    answers,     \* answers of the line: turn_idx of run_query
    failures,    \* compact_state.consecutive_failures
    kept,        \* QueryEngine._messages
    sent,        \* `messages` of run_query
    aliased,     \* the two are one list
    cut          \* history variable: a line that shared the list was cut off in its calls

vars == <<pc, lines, turn, answers, failures, kept, sent, aliased, cut>>

Idle == pc \in {"idle", "answered"}

Init ==
    /\ pc = "idle"
    /\ lines = 0 /\ turn = 0 /\ answers = 0 /\ failures = 0
    /\ kept = <<>> /\ sent = <<>>
    /\ aliased = FALSE /\ cut = FALSE

----------------------------------------------------------------------------
(* A line *)

SubmitMessage ==
    /\ Idle
    /\ lines < MaxLines
    /\ pc' = "turn"
    /\ lines' = lines + 1
    /\ answers' = 0 /\ failures' = 0
    /\ kept' = Append(kept, Message("prompt", turn))
    /\ sent' = kept'
    /\ aliased' = TRUE
    /\ UNCHANGED <<turn, cut>>

\* The line is over: run_query has returned or raised, and its list is gone.
Leave(state) ==
    /\ pc' = state
    /\ sent' = <<>>
    /\ aliased' = FALSE
    /\ UNCHANGED <<lines, answers, failures>>

\* What run_query appends to its list.
Say(message) ==
    kept' = IF aliased THEN Append(kept, message) ELSE kept

ExhaustTurns ==
    /\ pc = "turn"
    /\ answers >= MaxTurns
    /\ Leave("idle")
    /\ UNCHANGED <<turn, kept, cut>>

\* The list is short enough, or clearing old results in place made it so.
SkipCompaction ==
    /\ pc = "turn"
    /\ answers < MaxTurns
    /\ pc' = "model"
    /\ UNCHANGED <<lines, turn, answers, failures, kept, sent, aliased, cut>>

\* A summary can be had of well-paired messages only.
Summarisable(h) == Len(h) > PreserveRecent /\ WellPaired(Older(h))

\* A short history is copied, a long one is replaced by a new list, and an
\* empty summary leaves the list as it is.
CompactInLine ==
    /\ pc = "turn"
    /\ answers < MaxTurns /\ failures < MaxFailures
    /\ pc' = "model"
    /\ failures' = 0
    /\ \/ Len(sent) <= PreserveRecent /\ sent' = sent /\ aliased' = FALSE
       \/ Summarisable(sent) /\ sent' = Compacted(sent) /\ aliased' = FALSE
       \/ Summarisable(sent) /\ UNCHANGED <<sent, aliased>>
    /\ UNCHANGED <<lines, turn, answers, kept, cut>>

FailCompaction ==
    /\ pc = "turn"
    /\ answers < MaxTurns /\ failures < MaxFailures
    /\ Len(sent) > PreserveRecent
    /\ pc' = "model"
    /\ failures' = failures + 1
    /\ UNCHANGED <<lines, turn, answers, kept, sent, aliased, cut>>

\* The last answer of a line.
Answer ==
    /\ pc = "model" /\ turn < MaxAnswers
    /\ WellPaired(sent)
    /\ Say(Message("answer", turn))
    /\ turn' = turn + 1
    /\ Leave("answered")
    /\ UNCHANGED cut

\* An answer that calls tools.
AnswerWithCalls ==
    /\ pc = "model" /\ turn < MaxAnswers
    /\ WellPaired(sent)
    /\ Say(Message("calls", turn))
    /\ sent' = Append(sent, Message("calls", turn))
    /\ turn' = turn + 1 /\ answers' = answers + 1
    /\ pc' = "calls"
    /\ UNCHANGED <<lines, failures, aliased, cut>>

\* Variant: `messages = messages + [results]`, which makes another list.
CollectInNewList ==
    /\ pc = "calls"
    /\ sent' = Append(sent, Message("results", turn - 1))
    /\ aliased' = FALSE
    /\ pc' = "turn"
    /\ UNCHANGED <<lines, turn, answers, failures, kept, cut>>

CollectResults ==
    /\ pc = "calls"
    /\ Say(Message("results", turn - 1))
    /\ sent' = Append(sent, Message("results", turn - 1))
    /\ pc' = "turn"
    /\ UNCHANGED <<lines, turn, answers, failures, aliased, cut>>

\* The line ends between calls and results: the user cancels it or a tool raises.
CutOff ==
    /\ pc = "calls"
    /\ Leave("idle")
    /\ cut' = (cut \/ aliased)
    /\ UNCHANGED <<turn, kept>>

\* The user cancels, or the request fails, which it does when it is not well paired.
EndLine ==
    /\ pc \in {"turn", "model", "summarising"}
    /\ Leave("idle")
    /\ UNCHANGED <<turn, kept, cut>>

----------------------------------------------------------------------------
(* Commands *)

Clear ==
    /\ Idle
    /\ kept' = <<>>
    /\ pc' = "idle" /\ cut' = FALSE
    /\ UNCHANGED <<lines, turn, answers, failures, sent, aliased>>

\* /compact works on a copy of the history.
StartCompact ==
    /\ Idle
    /\ Len(kept) > PreserveRecent
    /\ pc' = "summarising"
    /\ UNCHANGED <<lines, turn, answers, failures, kept, sent, aliased, cut>>

\* Variant: the recent messages are loaded also when no summary can be had.
LoadCompactedAnyway ==
    /\ pc = "summarising"
    /\ kept' \in {kept, Compacted(kept)}
    /\ Leave("idle")
    /\ UNCHANGED <<turn, cut>>

LoadCompacted ==
    /\ pc = "summarising"
    /\ Summarisable(kept)
    /\ kept' \in {kept, Compacted(kept)}
    /\ Leave("idle")
    /\ UNCHANGED <<turn, cut>>

----------------------------------------------------------------------------
\* The bounds stop the model where the session would go on.
Stopped == Idle /\ lines = MaxLines /\ UNCHANGED vars

Next ==
    \/ SubmitMessage \/ ExhaustTurns \/ SkipCompaction \/ CompactInLine
    \/ FailCompaction \/ Answer \/ AnswerWithCalls \/ CollectResults
    \/ CutOff \/ EndLine
    \/ Clear \/ StartCompact \/ LoadCompacted
    \/ Stopped

Spec == Init /\ [][Next]_vars

----------------------------------------------------------------------------
(* Properties *)

\* The type of the variables.
TypeOK ==
    /\ pc \in {"idle", "answered", "turn", "model", "calls", "summarising"}
    /\ lines \in 0..MaxLines /\ turn \in 0..MaxAnswers
    /\ answers \in 0..MaxTurns /\ failures \in 0..MaxFailures
    /\ kept \in Seq(Messages) /\ sent \in Seq(Messages)
    /\ aliased \in BOOLEAN /\ cut \in BOOLEAN

\* Only a line that was cut off in its calls leaves the history of a session
\* unfit for requests: no cancelled or failed request, no compaction and no
\* command parts a call from its results, neither in the list that is sent nor
\* in the one that is kept (query.py:110-145; query_engine.py:75-98).
PairedUnlessCut ==
    ~ cut =>
        /\ pc # "calls" \/ ~ aliased => WellPaired(kept)
        /\ pc # "calls" => WellPaired(sent)

\* A history that a line has broken stays broken: neither a later line nor
\* /compact repairs it, which both need an answer to the broken messages.  Only
\* /clear does (query_engine.py:46-49; runtime.py:368-408).
OnlyClearRepairs ==
    [][pc # "calls" /\ ~ WellPaired(kept) => ~ WellPaired(kept') \/ kept' = <<>>]_vars

\* "Return the current conversation history." (query_engine.py:43): after a
\* line has been answered the answer is the last message of the history.
HistoryIsCurrent ==
    pc = "answered" => kept # <<>> /\ kept[Len(kept)] = Message("answer", turn - 1)
=============================================================================
