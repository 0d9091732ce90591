----------------------------- MODULE AgentLoop -----------------------------
(***************************************************************************)
(* run_query and _execute_tool_call (engine/query.py), with the automatic  *)
(* compaction they call (services/compact) and the signal tool of a        *)
(* workflow node (workflow/signal_tool.py).                                *)
(*                                                                         *)
(* A turn begins with the budget warning, goes through the compaction      *)
(* check and asks the model.  The calls of one answer run concurrently:    *)
(* each is looked up, checked against the permissions, possibly confirmed  *)
(* by the user, and executed, in any order relative to the others.  An     *)
(* exception in one of them ends the loop and leaves the others running.   *)
(*                                                                         *)
(* Token counts are not modelled: whether the history is too long is       *)
(* chosen at every check.                                                  *)
(***************************************************************************)
EXTENDS History, FiniteSets, SequencesExt

CONSTANTS
    NoSignal, Tools, Texts, Silence,      \* see NodeRun
    SignalTool,       \* workflow_signal
    Registered,       \* tools of the scoped registry
    Permission,       \* [Tools -> "allow", "confirm" or "deny"], PermissionChecker.evaluate
    HasPrompt,        \* permission_prompt is not None
    OpenEnded,        \* tools that return when the user lets them: ask_user_question, and
                      \* workflow, whose nodes may ask
    Decisions,        \* decisions a model may pass to the signal tool
    ValidDecisions,   \* valid_decisions of the signal tool; {} accepts all
    MaxTurns, HasWarning,       \* max_turns; turn_budget_warning is not None
    MaxFailures,      \* MAX_CONSECUTIVE_AUTOCOMPACT_FAILURES
    Histories,        \* histories a run may start from
    MaxCalls          \* bound: calls in one answer

ASSUME LoopAssumption ==
    /\ SignalTool \in Tools /\ Registered \subseteq Tools
    /\ Permission \in [Tools -> {"allow", "confirm", "deny"}]
    /\ OpenEnded \subseteq Tools \ {SignalTool}
    /\ HasPrompt \in BOOLEAN /\ HasWarning \in BOOLEAN
    /\ NoSignal \notin Decisions /\ ValidDecisions \subseteq Decisions
    /\ MaxTurns \in Nat /\ MaxCalls \in Nat /\ MaxFailures \in Nat
    /\ PreserveRecent >= 3
    /\ Silence \in Texts
    /\ \A h \in Histories :
          /\ h \in Seq(Messages) /\ WellPaired(h)
          /\ \A i \in 1..Len(h) : h[i].kind # "warning"

VARIABLES
    pc,           \* "top", "compact", "model", "calls", "finished", "exhausted", "failed"
    answers,      \* AssistantTurnComplete events; turn_idx at the top of the loop
    warned,       \* _budget_warned
    history,      \* messages
    failures,     \* compact_state.consecutive_failures
    calls,        \* the calls of the last answer
    captured,     \* signal_tool._captured
    called,       \* tool names of the ToolExecutionCompleted events
    text,         \* final_text of the caller
    \* history variables
    confirmed,    \* tools the user has confirmed at least once
    executed,     \* tools that have been executed
    firstSignal   \* the first decision the signal tool accepted

turnVars == <<pc, answers, warned, history, failures>>
callVars == <<calls, captured, called, confirmed, executed, firstSignal>>
vars == <<turnVars, callVars, text>>

Accepted == IF ValidDecisions = {} THEN Decisions ELSE ValidDecisions

\* The decision is an argument of the signal tool alone.
Call == [tool : Tools, decision : Decisions \union {NoSignal},
         phase : {"start", "confirm", "run", "done", "raised"}]

Init ==
    /\ pc = "top" /\ answers = 0 /\ warned = FALSE /\ failures = 0
    /\ history \in Histories
    /\ calls = <<>>
    /\ captured = NoSignal /\ firstSignal = NoSignal
    /\ called = {} /\ confirmed = {} /\ executed = {}
    /\ text = Silence

----------------------------------------------------------------------------
(* A turn up to the model's answer *)

\* Variant: the warning may be repeated every turn.
WarningDueAgain == HasWarning /\ answers >= MaxTurns - 2

WarningDue == HasWarning /\ ~ warned /\ answers >= MaxTurns - 2

\* Variant: one turn more than max_turns.
BeginTurnOnceMore ==
    /\ pc = "top"
    /\ answers <= MaxTurns
    /\ pc' = "compact"
    /\ UNCHANGED <<answers, warned, history, failures, callVars, text>>

BeginTurn ==
    /\ pc = "top"
    /\ answers < MaxTurns
    /\ pc' = "compact"
    /\ warned' = (warned \/ WarningDue)
    /\ history' = IF WarningDue
                  THEN Append(history, Message("warning", answers)) ELSE history
    /\ UNCHANGED <<answers, failures, callVars, text>>

\* `raise RuntimeError`: every turn was used and the last answer called tools.
ExhaustTurns ==
    /\ pc = "top"
    /\ answers >= MaxTurns
    /\ pc' = "exhausted"
    /\ UNCHANGED <<answers, warned, history, failures, callVars, text>>

\* The history is short enough, clearing old tool results made it so, or
\* compaction has failed too often in a row.
SkipCompaction ==
    /\ pc = "compact"
    /\ pc' = "model"
    /\ UNCHANGED <<answers, warned, history, failures, callVars, text>>

\* Variant: the summary is asked for without looking at what it is made from.
CompactUnasked ==
    /\ pc = "compact"
    /\ failures < MaxFailures
    /\ pc' = "model"
    /\ failures' = 0
    /\ history' = IF Len(history) <= PreserveRecent THEN history ELSE Compacted(history)
    /\ UNCHANGED <<answers, warned, callVars, text>>

\* The older messages are sent to the model, which accepts them only when they
\* are well paired, and replaced by its summary.  A short history and an empty
\* summary leave everything as it is; both count as a success.
Compact ==
    /\ pc = "compact"
    /\ failures < MaxFailures
    /\ pc' = "model"
    /\ failures' = 0
    /\ \/ history' = history
       \/ /\ Len(history) > PreserveRecent
          /\ WellPaired(Older(history))
          /\ history' = Compacted(history)
    /\ UNCHANGED <<answers, warned, callVars, text>>

FailCompaction ==
    /\ pc = "compact"
    /\ failures < MaxFailures
    /\ Len(history) > PreserveRecent
    /\ pc' = "model"
    /\ failures' = failures + 1
    /\ UNCHANGED <<answers, warned, history, callVars, text>>

\* The model answers with a text and any number of calls; none ends the loop.
Answer ==
    /\ pc = "model"
    /\ WellPaired(history)
    /\ answers' = answers + 1
    /\ text' \in Texts
    /\ \E n \in 0..MaxCalls :
        \E tool \in [1..n -> Tools], decision \in [1..n -> Decisions \union {NoSignal}] :
            /\ \A i \in 1..n : tool[i] = SignalTool <=> decision[i] # NoSignal
            /\ calls' = [i \in 1..n |-> [tool     |-> tool[i],
                                         decision |-> decision[i],
                                         phase    |-> "start"]]
            /\ pc' = IF n = 0 THEN "finished" ELSE "calls"
            /\ history' = Append(history,
                                 Message(IF n = 0 THEN "answer" ELSE "calls", answers))
    /\ UNCHANGED <<warned, failures, captured, called, confirmed, executed, firstSignal>>

\* The request fails, or the stream ends without a message.
FailModel ==
    /\ pc = "model"
    /\ pc' = "failed"
    /\ UNCHANGED <<answers, warned, history, failures, callVars, text>>

----------------------------------------------------------------------------
(* The calls of one answer *)

\* A call moves from one phase to the next.  The calls of a failed turn were
\* started together with the one that raised, and nobody stops them.
MoveCall(i, from, to) ==
    /\ pc \in {"calls", "failed"}
    /\ calls[i].phase = from
    /\ calls' = [calls EXCEPT ![i].phase = to]

Asks(tool) == Permission[tool] = "confirm" /\ HasPrompt

\* The call is answered with an error: the tool is not registered, its input is
\* invalid, or it may not run and nobody can be asked.
RefuseCall(i) ==
    /\ MoveCall(i, "start", "done")
    /\ UNCHANGED <<turnVars, captured, called, confirmed, executed, firstSignal, text>>

AdmitCall(i) ==
    /\ calls[i].tool \in Registered
    /\ Permission[calls[i].tool] = "allow"
    /\ MoveCall(i, "start", "run")
    /\ UNCHANGED <<turnVars, captured, called, confirmed, executed, firstSignal, text>>

PromptUser(i) ==
    /\ calls[i].tool \in Registered
    /\ Asks(calls[i].tool)
    /\ MoveCall(i, "start", "confirm")
    /\ UNCHANGED <<turnVars, captured, called, confirmed, executed, firstSignal, text>>

Confirm(i) ==
    /\ MoveCall(i, "confirm", "run")
    /\ confirmed' = confirmed \union {calls[i].tool}
    /\ UNCHANGED <<turnVars, captured, called, executed, firstSignal, text>>

\* Variant: a call that is declined is put to the user again.
DeclineAsksAgain(i) ==
    /\ MoveCall(i, "confirm", "start")
    /\ UNCHANGED <<turnVars, captured, called, confirmed, executed, firstSignal, text>>

\* Variant: the user's answer is not looked at.
DeclineRuns(i) ==
    /\ MoveCall(i, "confirm", "run")
    /\ UNCHANGED <<turnVars, captured, called, confirmed, executed, firstSignal, text>>

Decline(i) ==
    /\ MoveCall(i, "confirm", "done")
    /\ UNCHANGED <<turnVars, captured, called, confirmed, executed, firstSignal, text>>

\* The signal tool keeps the decision of the latest accepted call.
Capture(decision) ==
    IF decision \in Accepted
    THEN /\ captured' = decision
         /\ firstSignal' = IF firstSignal = NoSignal THEN decision ELSE firstSignal
    ELSE UNCHANGED <<captured, firstSignal>>

\* The tool runs, with the hooks before and after it, which cannot fail.  It
\* returns a result; that the result may be an error makes no difference here.
ExecuteCall(i) ==
    /\ MoveCall(i, "run", "done")
    /\ executed' = executed \union {calls[i].tool}
    /\ IF calls[i].tool = SignalTool
       THEN Capture(calls[i].decision)
       ELSE UNCHANGED <<captured, firstSignal>>
    /\ UNCHANGED <<turnVars, called, confirmed, text>>

\* The tool raises: gather passes the exception on at once.
RaiseInCall(i) ==
    /\ calls[i].tool # SignalTool
    /\ MoveCall(i, "run", "raised")
    /\ pc' = "failed"
    /\ executed' = executed \union {calls[i].tool}
    /\ UNCHANGED <<answers, warned, history, failures,
                   captured, called, confirmed, firstSignal, text>>

\* Variant: the signal tool belongs to the engine and is not reported.
ReportedWork == {calls[i].tool : i \in DOMAIN calls} \ {SignalTool}

Reported == {calls[i].tool : i \in DOMAIN calls}

\* All calls are done: each is reported, and their results become one message.
CollectResults ==
    /\ pc = "calls"
    /\ \A i \in DOMAIN calls : calls[i].phase = "done"
    /\ pc' = "top"
    /\ called' = called \union Reported
    /\ history' = Append(history, Message("results", answers - 1))
    /\ calls' = <<>>
    /\ UNCHANGED <<answers, warned, failures, captured, confirmed, executed,
                   firstSignal, text>>

CallStep(i) ==
    \/ RefuseCall(i) \/ AdmitCall(i) \/ PromptUser(i)
    \/ Confirm(i) \/ Decline(i) \/ ExecuteCall(i) \/ RaiseInCall(i)

----------------------------------------------------------------------------
Ended == pc \in {"finished", "exhausted", "failed"}

Done == Ended /\ UNCHANGED vars

Next ==
    \/ BeginTurn \/ ExhaustTurns
    \/ SkipCompaction \/ Compact \/ FailCompaction
    \/ Answer \/ FailModel
    \/ \E i \in DOMAIN calls : CallStep(i)
    \/ CollectResults
    \/ Done

Spec == Init /\ [][Next]_vars

\* The loop resumes when what it awaits is there; the model answers or fails;
\* a call that need not wait for the user is settled, and a tool comes back that
\* does not wait for the user either.  Nothing is assumed of the user: neither a
\* confirmation nor the answer to a question has a timeout.
Fairness ==
    /\ WF_vars(BeginTurn \/ ExhaustTurns)
    /\ WF_vars(SkipCompaction \/ Compact \/ FailCompaction)
    /\ WF_vars(Answer \/ FailModel)
    /\ \A i \in 1..MaxCalls :
          WF_vars(/\ i \in DOMAIN calls
                  /\ \/ RefuseCall(i) \/ AdmitCall(i) \/ PromptUser(i)
                     \/ /\ calls[i].tool \notin OpenEnded
                        /\ ExecuteCall(i) \/ RaiseInCall(i))
    /\ WF_vars(CollectResults)

FairSpec == Spec /\ Fairness

----------------------------------------------------------------------------
(* Properties *)

\* The type of the variables.
TypeOK ==
    /\ pc \in {"top", "compact", "model", "calls", "finished", "exhausted", "failed"}
    /\ answers \in 0..MaxTurns
    /\ warned \in BOOLEAN
    /\ history \in Seq(Messages)
    /\ failures \in 0..MaxFailures
    /\ calls \in Seq(Call)
    /\ captured \in Accepted \union {NoSignal}
    /\ firstSignal \in Accepted \union {NoSignal}
    /\ called \subseteq Tools /\ confirmed \subseteq Tools /\ executed \subseteq Tools
    /\ text \in Texts

\* Every request of the loop is well paired: neither the warning, which is put
\* behind the last results, nor a compaction, which cuts the history at a fixed
\* distance from its end, ever parts an answer from its results
\* (query.py:67-84, 110, 145; compact/__init__.py:287-317).
RequestsWellPaired == pc = "model" => WellPaired(history)

\* In its last two turns the model has the warning in front of it, once: a
\* compaction that follows the warning preserves it (query.py:68-76;
\* docs/workflows.md:126, "injects an urgent reminder when 2 turns remain").
WarningInView ==
    pc = "model" /\ HasWarning /\ answers >= MaxTurns - 2 =>
        Cardinality({i \in 1..Len(history) : history[i].kind = "warning"}) = 1

\* A tool outside the registry, a denied one, and one that the user was to
\* confirm and has not, is never executed, whatever runs next to it
\* (query.py:156-196).
ExecutedWithConsent ==
    \A t \in executed :
        /\ t \in Registered
        /\ Permission[t] = "allow" \/ (Permission[t] = "confirm" /\ t \in confirmed)

\* A loop that finishes has reported every tool it executed to the edges that
\* read tool_was_called (engine.py:279-281, query.py:122-143).
FinishedReportsAll ==
    pc \in {"finished", "exhausted"} => executed \subseteq called

\* A call waits for the user: for a confirmation, or in the tool it runs.
Waiting ==
    \E i \in DOMAIN calls :
        \/ calls[i].phase = "confirm"
        \/ calls[i].phase = "run" /\ calls[i].tool \in OpenEnded

\* The loop implements the promise the workflow engine is built on.
Promise == INSTANCE NodeRun WITH
    status <- IF Ended THEN pc ELSE IF Waiting THEN "waiting" ELSE "running",
    turns <- answers

ImplementsNodeRun ==
    Promise!RunInit /\ [][Promise!RunNext(MaxTurns, Accepted)]_(Promise!runVars)

\* The loop ends within its turns, unless it waits for the user for ever: it
\* cannot wait again and again, and nothing but the user can hold it up
\* (query.py:66, 135; backend_host.py:270-287).
LoopEnds == <>(Ended \/ []Waiting)

\* "Captures the first successful call and uses it for edge selection when the
\* node finishes" (docs/workflows.md:154).
FirstSignalWins == pc = "finished" => captured = firstSignal

\* "A specific tool was used during the node" (docs/workflows.md:121): what
\* tool_was_called reads are tools that were used.
CalledWasUsed == called \subseteq executed
=============================================================================
