--------------------------- MODULE AgentLoopProofs ---------------------------
(***************************************************************************)
(* For every set of tools, budget and history: the requests of the agent   *)
(* loop are well paired and hold the warning when it matters, nothing runs *)
(* without consent, everything that ran is reported, and the loop          *)
(* implements the promise the workflow engine is built on.                 *)
(***************************************************************************)
EXTENDS AgentLoop, HistoryProofs, FiniteSetTheorems

\* The phases of a call say what has been checked before.
CallsChecked ==
    \A i \in DOMAIN calls :
        /\ calls[i].phase = "confirm" =>
               calls[i].tool \in Registered /\ Permission[calls[i].tool] = "confirm"
        /\ calls[i].phase = "run" =>
               /\ calls[i].tool \in Registered
               /\ \/ Permission[calls[i].tool] = "allow"
                  \/ Permission[calls[i].tool] = "confirm" /\ calls[i].tool \in confirmed

\* There are calls only in a turn, and after one that failed.
CallsInTurn ==
    /\ pc \notin {"calls", "failed"} => calls = <<>>
    /\ pc = "calls" => calls # <<>>
    /\ calls # <<>> => answers > 0

\* What has been executed is reported, or will be when the turn ends.
WorkIsReported == pc # "failed" => executed \subseteq called \union Reported

\* A turn that has begun is within the budget.
WithinBudget == pc \in {"compact", "model"} => answers < MaxTurns

\* The history is well paired, but for the calls that are under way.
HistoryPaired ==
    /\ pc \in {"top", "compact", "model"} => WellPaired(history)
    /\ pc = "calls" =>
          \E h \in Seq(Messages) :
              WellPaired(h) /\ history = Append(h, Message("calls", answers - 1))

WarningAt(h, p) == \A i \in 1..Len(h) : h[i].kind = "warning" <=> i = p

\* How far behind the end of the history the warning is: two messages for
\* every turn since.
Behind ==
    IF pc = "calls" THEN 2 * answers - 1 ELSE 2 * answers

WarningKept ==
    pc \in {"top", "compact", "model", "calls"} =>
        IF warned
        THEN \E p \in 1..Len(history) :
                /\ WarningAt(history, p)
                /\ history[p].turn >= MaxTurns - 2
                /\ Len(history) - p = Behind - 2 * history[p].turn
        ELSE \A i \in 1..Len(history) : history[i].kind # "warning"

WarningGiven ==
    pc \in {"compact", "model"} /\ HasWarning /\ answers >= MaxTurns - 2 => warned

IInv ==
    /\ TypeOK /\ CallsChecked /\ CallsInTurn /\ WorkIsReported /\ WithinBudget
    /\ ExecutedWithConsent
----------------------------------------------------------------------------
(* Calls *)

\* A call that moves stays a call, and the others stay where they are.
LEMMA MoveCallMoves ==
    ASSUME TypeOK, NEW i \in DOMAIN calls,
           NEW to \in {"start", "confirm", "run", "done", "raised"}, NEW from,
           MoveCall(i, from, to)
    PROVE  /\ calls' \in Seq(Call) /\ DOMAIN calls' = DOMAIN calls /\ calls' # <<>>
           /\ \A j \in DOMAIN calls : j # i => calls'[j] = calls[j]
           /\ calls[i].phase = from /\ calls'[i].phase = to
           /\ calls'[i].tool = calls[i].tool /\ calls'[i].decision = calls[i].decision
           /\ calls[i].tool \in Tools /\ calls[i].decision \in Decisions \union {NoSignal}
  <1>1. calls \in Seq(Call) /\ DOMAIN calls = 1..Len(calls) /\ i \in 1..Len(calls)
    BY LenProperties DEF TypeOK
  <1>2. calls[i] \in Call
    BY <1>1, ElementOfSeq
  <1> DEFINE moved == [calls[i] EXCEPT !.phase = to]
  <1>3. moved \in Call /\ moved.phase = to
        /\ moved.tool = calls[i].tool /\ moved.decision = calls[i].decision
    BY <1>2 DEF Call
  <1>4. calls' = [calls EXCEPT ![i] = moved] /\ calls[i].phase = from
    BY DEF MoveCall
  <1> HIDE DEF moved
  <1>5. calls' \in Seq(Call) /\ Len(calls') = Len(calls)
        /\ \A j \in 1..Len(calls) : calls'[j] = IF j = i THEN moved ELSE calls[j]
    BY <1>1, <1>3, <1>4, ExceptSeq
  <1>6. DOMAIN calls' = 1..Len(calls')
    BY <1>5, LenProperties
  <1>7. calls' # <<>>
    BY <1>1, <1>5, EmptySeq
  <1>8. calls[i].tool \in Tools /\ calls[i].decision \in Decisions \union {NoSignal}
    BY <1>2 DEF Call
  <1> QED
    BY <1>1, <1>3, <1>4, <1>5, <1>6, <1>7, <1>8

\* What the calls ask for does not change when one of them moves.
LEMMA ReportedStays ==
    ASSUME DOMAIN calls' = DOMAIN calls, \A j \in DOMAIN calls : calls'[j].tool = calls[j].tool
    PROVE  Reported' = Reported
  BY DEF Reported
----------------------------------------------------------------------------
(* Steps *)

LEMMA InitEstablishes == Init => IInv
  <1> SUFFICES ASSUME Init PROVE IInv
    OBVIOUS
  <1>1. calls = <<>> /\ calls \in Seq(Call) /\ DOMAIN calls = {}
    BY EmptySeq DEF Init
  <1>2. TypeOK
    <2>1. MaxTurns \in Nat /\ MaxFailures \in Nat /\ Silence \in Texts
          /\ Histories \subseteq Seq(Messages)
      BY LoopAssumption
    <2>2. answers \in 0..MaxTurns /\ failures \in 0..MaxFailures
      BY <2>1 DEF Init
    <2> QED
      BY <1>1, <2>1, <2>2 DEF Init, TypeOK
  <1>3. CallsChecked /\ CallsInTurn /\ WorkIsReported /\ WithinBudget /\ ExecutedWithConsent
    BY <1>1 DEF Init, CallsChecked, CallsInTurn, WorkIsReported, WithinBudget,
                ExecutedWithConsent
  <1> QED
    BY <1>2, <1>3 DEF IInv

\* The steps of a turn up to the request, and its failures, leave the calls alone.
LEMMA TurnStepsPreserve ==
    IInv /\ (\/ BeginTurn \/ ExhaustTurns \/ SkipCompaction \/ Compact \/ FailCompaction
             \/ FailModel \/ UNCHANGED vars) => IInv'
  <1> SUFFICES ASSUME IInv, \/ BeginTurn \/ ExhaustTurns \/ SkipCompaction \/ Compact
                            \/ FailCompaction \/ FailModel \/ UNCHANGED vars
               PROVE  IInv'
    OBVIOUS
  <1>1. UNCHANGED <<answers, calls, captured, called, confirmed, executed, firstSignal, text>>
    BY DEF BeginTurn, ExhaustTurns, SkipCompaction, Compact, FailCompaction, FailModel,
           vars, turnVars, callVars
  <1>2. /\ pc' \in {"top", "compact", "model", "calls", "finished", "exhausted", "failed"}
        /\ warned' \in BOOLEAN
        /\ pc' = pc \/ (pc \notin {"calls", "failed"} /\ pc' # "calls")
        /\ pc' = "compact" => answers < MaxTurns \/ pc = "compact"
        /\ pc' = "model" => pc \in {"compact", "model"}
        /\ pc' # "failed" => pc # "failed"
    BY DEF IInv, TypeOK, BeginTurn, ExhaustTurns, SkipCompaction, Compact, FailCompaction,
           FailModel, vars, turnVars, WarningDue
  <1>7. failures' \in 0..MaxFailures
    <2>1. failures \in 0..MaxFailures /\ MaxFailures \in Nat
      BY LoopAssumption DEF IInv, TypeOK
    <2>2. failures' \in {failures, 0} \/ (failures < MaxFailures /\ failures' = failures + 1)
      BY DEF BeginTurn, ExhaustTurns, SkipCompaction, Compact, FailCompaction, FailModel,
             vars, turnVars
    <2> QED
      BY <2>1, <2>2
  <1>3. history' \in Seq(Messages)
    <2>1. history \in Seq(Messages) /\ answers \in Int
      BY LoopAssumption DEF IInv, TypeOK
    <2>2. Append(history, Message("warning", answers)) \in Seq(Messages)
      BY <2>1, MessagesAre, AppendProperties
    <2> QED
      BY <2>1, <2>2, CompactedKeeps
      DEF BeginTurn, ExhaustTurns, SkipCompaction, Compact, FailCompaction, FailModel,
          vars, turnVars
  <1>4. TypeOK'
    BY <1>1, <1>2, <1>3, <1>7 DEF IInv, TypeOK
  <1>5. CallsChecked' /\ ExecutedWithConsent'
    BY <1>1 DEF IInv, CallsChecked, ExecutedWithConsent
  <1>6. CallsInTurn' /\ WorkIsReported' /\ WithinBudget'
    BY <1>1, <1>2 DEF IInv, CallsInTurn, WorkIsReported, WithinBudget, Reported
  <1> QED
    BY <1>4, <1>5, <1>6 DEF IInv

LEMMA AnswerPreserves == IInv /\ Answer => IInv'
  <1> SUFFICES ASSUME IInv, Answer PROVE IInv'
    OBVIOUS
  <1>0. PICK n \in 0..MaxCalls :
          \E tool \in [1..n -> Tools], decision \in [1..n -> Decisions \union {NoSignal}] :
            /\ calls' = [i \in 1..n |-> [tool     |-> tool[i],
                                         decision |-> decision[i],
                                         phase    |-> "start"]]
            /\ pc' = IF n = 0 THEN "finished" ELSE "calls"
            /\ history' = Append(history,
                                 Message(IF n = 0 THEN "answer" ELSE "calls", answers))
    BY DEF Answer
  <1>1. PICK tool \in [1..n -> Tools], decision \in [1..n -> Decisions \union {NoSignal}] :
          /\ calls' = [i \in 1..n |-> [tool     |-> tool[i],
                                       decision |-> decision[i],
                                       phase    |-> "start"]]
          /\ pc' = IF n = 0 THEN "finished" ELSE "calls"
          /\ history' = Append(history,
                               Message(IF n = 0 THEN "answer" ELSE "calls", answers))
    BY <1>0
  <1>2. /\ pc = "model" /\ answers' = answers + 1 /\ text' \in Texts
        /\ UNCHANGED <<warned, failures, captured, called, confirmed, executed, firstSignal>>
    BY DEF Answer
  <1>3. n \in Nat /\ answers \in Nat /\ answers < MaxTurns /\ MaxTurns \in Nat
    BY <1>2, LoopAssumption DEF IInv, TypeOK, WithinBudget
  <1>4. calls' \in Seq(Call) /\ DOMAIN calls' = 1..n /\ Len(calls') = n
    <2>1. \A i \in 1..n : [tool |-> tool[i], decision |-> decision[i], phase |-> "start"] \in Call
      BY DEF Call
    <2> QED
      BY <1>1, <1>3, <2>1
  <1>5. history' \in Seq(Messages)
    <2>1. Message(IF n = 0 THEN "answer" ELSE "calls", answers) \in Messages
      BY <1>3, MessagesAre
    <2> QED
      BY <1>1, <2>1, AppendProperties DEF IInv, TypeOK
  <1>6. answers' \in 0..MaxTurns /\ answers' > 0
    BY <1>2, <1>3
  <1>7. TypeOK'
    BY <1>1, <1>2, <1>4, <1>5, <1>6 DEF IInv, TypeOK
  <1>8. \A i \in DOMAIN calls' : calls'[i].phase = "start"
    BY <1>1, <1>4
  <1>9. CallsChecked' /\ ExecutedWithConsent' /\ WithinBudget'
    BY <1>1, <1>2, <1>8 DEF IInv, CallsChecked, ExecutedWithConsent, WithinBudget
  <1>10. CallsInTurn'
    <2>1. n = 0 <=> calls' = <<>>
      BY <1>4, EmptySeq
    <2> QED
      BY <1>1, <1>6, <2>1 DEF CallsInTurn
  <1>11. WorkIsReported'
    <2>1. executed \subseteq called
      <3>1. DOMAIN calls = {}
        BY <1>2, EmptySeq DEF IInv, CallsInTurn
      <3> QED
        BY <1>2, <3>1 DEF IInv, WorkIsReported, Reported
    <2> QED
      BY <1>2, <2>1 DEF WorkIsReported
  <1> QED
    BY <1>7, <1>9, <1>10, <1>11 DEF IInv

LEMMA CollectResultsPreserves == IInv /\ CollectResults => IInv'
  <1> SUFFICES ASSUME IInv, CollectResults PROVE IInv'
    OBVIOUS
  <1>1. /\ pc = "calls" /\ pc' = "top" /\ calls' = <<>>
        /\ called' = called \union Reported
        /\ history' = Append(history, Message("results", answers - 1))
        /\ UNCHANGED <<answers, warned, failures, captured, confirmed, executed,
                       firstSignal, text>>
    BY DEF CollectResults
  <1>2. \A i \in DOMAIN calls : calls[i].tool \in Tools
    <2>1. \A i \in DOMAIN calls : calls[i] \in Call
      BY LenProperties, ElementOfSeq DEF IInv, TypeOK
    <2> QED
      BY <2>1 DEF Call
  <1>3. TypeOK'
    <2>1. history' \in Seq(Messages)
      <3>1. answers - 1 \in Int /\ history \in Seq(Messages)
        BY LoopAssumption DEF IInv, TypeOK
      <3> QED
        BY <1>1, <3>1, MessagesAre, AppendProperties
    <2>2. calls' \in Seq(Call) /\ called' \subseteq Tools
      BY <1>1, <1>2, EmptySeq DEF IInv, TypeOK, Reported
    <2> QED
      BY <1>1, <2>1, <2>2 DEF IInv, TypeOK
  <1>4. DOMAIN calls' = {}
    BY <1>1, EmptySeq
  <1>5. CallsChecked' /\ CallsInTurn' /\ WithinBudget' /\ ExecutedWithConsent'
    BY <1>1, <1>4 DEF IInv, CallsChecked, CallsInTurn, WithinBudget, ExecutedWithConsent
  <1>6. WorkIsReported'
    BY <1>1 DEF IInv, WorkIsReported
  <1> QED
    BY <1>3, <1>5, <1>6 DEF IInv

\* A call moves through the checks to its execution; what it executes it has
\* been admitted to.
LEMMA CallStepPreserves == IInv /\ (\E i \in DOMAIN calls : CallStep(i)) => IInv'
  <1> SUFFICES ASSUME IInv, NEW i \in DOMAIN calls, CallStep(i) PROVE IInv'
    OBVIOUS
  <1>1. PICK from \in {"start", "confirm", "run"}, to \in {"confirm", "run", "done", "raised"} :
          MoveCall(i, from, to)
    BY DEF CallStep, RefuseCall, AdmitCall, PromptUser, Confirm, Decline, ExecuteCall,
           RaiseInCall
  <1>2. /\ calls' \in Seq(Call) /\ DOMAIN calls' = DOMAIN calls /\ calls' # <<>>
        /\ \A j \in DOMAIN calls : j # i => calls'[j] = calls[j]
        /\ calls[i].phase = from /\ calls'[i].phase = to
        /\ calls'[i].tool = calls[i].tool
        /\ calls[i].tool \in Tools /\ calls[i].decision \in Decisions \union {NoSignal}
    BY <1>1, MoveCallMoves DEF IInv
  <1>3. Reported' = Reported
    BY <1>2, ReportedStays
  <1>4. /\ pc \in {"calls", "failed"} /\ (pc' = pc \/ pc' = "failed")
        /\ UNCHANGED <<answers, warned, history, failures, called, text>>
        /\ confirmed \subseteq confirmed' /\ executed \subseteq executed'
    BY DEF CallStep, MoveCall, RefuseCall, AdmitCall, PromptUser, Confirm, Decline,
           ExecuteCall, RaiseInCall, turnVars
  <1>5. confirmed' \subseteq Tools /\ executed' \subseteq Tools
    BY <1>2 DEF IInv, TypeOK, CallStep, RefuseCall, AdmitCall, PromptUser, Confirm, Decline,
                ExecuteCall, RaiseInCall
  <1>6. /\ captured' \in Accepted \union {NoSignal}
        /\ firstSignal' \in Accepted \union {NoSignal}
    BY DEF IInv, TypeOK, CallStep, RefuseCall, AdmitCall, PromptUser, Confirm, Decline,
           ExecuteCall, RaiseInCall, Capture, Accepted
  <1>7. TypeOK'
    BY <1>2, <1>4, <1>5, <1>6 DEF IInv, TypeOK, Accepted
  <1>8. executed' = executed
        \/ (executed' = executed \union {calls[i].tool} /\ calls[i].phase = "run")
    BY DEF CallStep, MoveCall, RefuseCall, AdmitCall, PromptUser, Confirm, Decline,
           ExecuteCall, RaiseInCall
  <1>9. ExecutedWithConsent'
    BY <1>4, <1>8 DEF IInv, CallsChecked, ExecutedWithConsent
  <1>10. /\ to = "confirm" =>
               calls[i].tool \in Registered /\ Permission[calls[i].tool] = "confirm"
         /\ to = "run" =>
               /\ calls[i].tool \in Registered
               /\ \/ Permission[calls[i].tool] = "allow"
                  \/ Permission[calls[i].tool] = "confirm" /\ calls[i].tool \in confirmed'
    <2>1. CASE AdmitCall(i) \/ PromptUser(i)
      <3>1. \A p \in {"run", "confirm"} : MoveCall(i, "start", p) => to = p
        BY <1>2, MoveCallMoves DEF IInv
      <3> QED
        BY <2>1, <3>1 DEF AdmitCall, PromptUser, Asks
    <2>2. CASE Confirm(i)
      BY <1>2, <2>2 DEF Confirm, MoveCall, IInv, CallsChecked
    <2>3. CASE RefuseCall(i) \/ Decline(i) \/ ExecuteCall(i) \/ RaiseInCall(i)
      <3>1. calls'[i].phase \in {"done", "raised"}
        <4>1. \A last \in {"done", "raised"} :
                (MoveCall(i, "start", last) \/ MoveCall(i, "confirm", last)
                    \/ MoveCall(i, "run", last)) => calls'[i].phase = last
          BY MoveCallMoves DEF IInv
        <4> QED
          BY <2>3, <4>1 DEF RefuseCall, Decline, ExecuteCall, RaiseInCall
      <3> QED
        BY <1>2, <3>1
    <2> QED
      BY <2>1, <2>2, <2>3 DEF CallStep
  <1>11. CallsChecked'
    <2>1. ASSUME NEW j \in DOMAIN calls, j # i
          PROVE  /\ calls'[j].phase = "confirm" =>
                        calls'[j].tool \in Registered
                        /\ Permission[calls'[j].tool] = "confirm"
                 /\ calls'[j].phase = "run" =>
                        /\ calls'[j].tool \in Registered
                        /\ \/ Permission[calls'[j].tool] = "allow"
                           \/ Permission[calls'[j].tool] = "confirm"
                              /\ calls'[j].tool \in confirmed'
      BY <1>2, <1>4, <2>1 DEF IInv, CallsChecked
    <2> QED
      BY <1>2, <1>10, <2>1 DEF CallsChecked
  <1>12. CallsInTurn' /\ WithinBudget'
    <2>1. calls # <<>>
      BY EmptySeq
    <2> QED
      BY <1>2, <1>4, <2>1 DEF IInv, CallsInTurn, WithinBudget
  <1>13. WorkIsReported'
    BY <1>3, <1>4, <1>8 DEF IInv, WorkIsReported, Reported
  <1> QED
    BY <1>7, <1>9, <1>11, <1>12, <1>13 DEF IInv
----------------------------------------------------------------------------
(* The theorems *)

THEOREM LoopInvariant == Spec => []IInv
  <1>1. IInv /\ [Next]_vars => IInv'
    BY TurnStepsPreserve, AnswerPreserves, CallStepPreserves, CollectResultsPreserves
    DEF Next, Done
  <1> QED
    BY InitEstablishes, <1>1, PTL DEF Spec

\* The variables have their types for every set of tools, budget and history;
\* the model is asked at most max_turns times.
THEOREM LoopTypes == Spec => []TypeOK
  BY LoopInvariant, PTL DEF IInv

\* Whatever runs next to it, a tool is executed only if it is registered and
\* allowed, or confirmed by the user (query.py:156-196).
THEOREM ConsentHolds == Spec => []ExecutedWithConsent
  BY LoopInvariant, PTL DEF IInv

\* A run that finishes, or spends its budget, has reported every tool it
\* executed to its caller (engine.py:279-281).
THEOREM WorkReported == Spec => []FinishedReportsAll
  <1>1. IInv => FinishedReportsAll
    <2> SUFFICES ASSUME IInv, pc \in {"finished", "exhausted"} PROVE executed \subseteq called
      BY DEF FinishedReportsAll
    <2>1. DOMAIN calls = {}
      BY EmptySeq DEF IInv, CallsInTurn
    <2> QED
      BY <2>1 DEF IInv, WorkIsReported, Reported
  <1> QED
    BY LoopInvariant, <1>1, PTL
----------------------------------------------------------------------------
(* The history *)

HistoryInv == HistoryPaired /\ WarningKept /\ WarningGiven

\* A warning stays where it is when another message is appended.
LEMMA AppendKeepsWarning ==
    ASSUME NEW h \in Seq(Messages), NEW m \in Messages, m.kind # "warning",
           NEW p \in 1..Len(h), WarningAt(h, p)
    PROVE  /\ p \in 1..Len(Append(h, m)) /\ WarningAt(Append(h, m), p)
           /\ Append(h, m)[p] = h[p]
  BY AppendKeeps DEF WarningAt

\* A compaction keeps a warning that is near enough to the end.
LEMMA CompactedKeepsWarning ==
    ASSUME NEW h \in Seq(Messages), Len(h) > PreserveRecent,
           NEW p \in 1..Len(h), WarningAt(h, p), Len(h) - p < PreserveRecent
    PROVE  \E q \in 1..Len(Compacted(h)) :
              /\ WarningAt(Compacted(h), q)
              /\ Compacted(h)[q] = h[p]
              /\ Len(Compacted(h)) - q = Len(h) - p
  <1> DEFINE c == Compacted(h)
             cut == Len(h) - PreserveRecent
             q == p - cut + 1
  <1>1. PreserveRecent \in Nat /\ Len(h) \in Nat
    BY HistoryAssumption, LenProperties
  <1>2. /\ Len(c) = PreserveRecent + 1
        /\ c[1] = Message("summary", 0)
        /\ \A i \in 2..PreserveRecent + 1 : c[i] = h[cut - 1 + i]
    BY CompactedKeeps
  <1> HIDE DEF c
  <1>3. q \in 2..PreserveRecent + 1 /\ cut - 1 + q = p
    BY <1>1
  <1>4. c[q] = h[p] /\ Len(c) - q = Len(h) - p
    BY <1>1, <1>2, <1>3
  <1>5. ASSUME NEW i \in 1..Len(c) PROVE c[i].kind = "warning" <=> i = q
    <2>1. CASE i = 1
      BY <1>2, <1>3, <2>1 DEF Message
    <2>2. CASE i \in 2..PreserveRecent + 1
      <3>1. cut - 1 + i \in 1..Len(h) /\ (cut - 1 + i = p <=> i = q)
        BY <1>1, <2>2
      <3> QED
        BY <1>2, <2>2, <3>1 DEF WarningAt
    <2> QED
      BY <1>1, <1>2, <2>1, <2>2
  <1>6. q \in 1..Len(c)
    BY <1>1, <1>2, <1>3
  <1> HIDE DEF q
  <1> QED
    BY <1>4, <1>5, <1>6 DEF WarningAt, c

LEMMA InitHistory == Init => HistoryInv
  <1> SUFFICES ASSUME Init PROVE HistoryInv
    OBVIOUS
  <1>1. WellPaired(history) /\ \A i \in 1..Len(history) : history[i].kind # "warning"
    BY LoopAssumption DEF Init
  <1> QED
    BY <1>1 DEF Init, HistoryInv, HistoryPaired, WarningKept, WarningGiven

\* A step that keeps the history, and does not begin a turn.
LEMMA HistoryUntouched ==
    ASSUME IInv, HistoryInv, UNCHANGED <<history, answers, warned>>,
           \/ pc' = pc \/ pc' \in {"finished", "exhausted", "failed"}
           \/ pc = "compact" /\ pc' = "model"
    PROVE  HistoryInv'
  <1>1. HistoryPaired'
    BY DEF HistoryInv, HistoryPaired
  <1>2. WarningGiven'
    BY DEF HistoryInv, WarningGiven
  <1>3. WarningKept'
    <2>1. SUFFICES ASSUME pc' \in {"top", "compact", "model", "calls"} PROVE WarningKept'
      BY DEF WarningKept
    <2>2. pc \in {"top", "compact", "model", "calls"} /\ Behind' = Behind
      BY <2>1 DEF Behind
    <2> QED
      BY <2>1, <2>2 DEF HistoryInv, WarningKept, WarningAt
  <1> QED
    BY <1>1, <1>2, <1>3 DEF HistoryInv

LEMMA BeginTurnHistory == IInv /\ HistoryInv /\ BeginTurn => HistoryInv'
  <1> SUFFICES ASSUME IInv, HistoryInv, BeginTurn PROVE HistoryInv'
    OBVIOUS
  <1>1. /\ pc = "top" /\ pc' = "compact" /\ answers' = answers
        /\ warned' = (warned \/ WarningDue)
        /\ history' = IF WarningDue
                      THEN Append(history, Message("warning", answers)) ELSE history
    BY DEF BeginTurn
  <1>2. /\ history \in Seq(Messages) /\ answers \in Nat /\ MaxTurns \in Nat
        /\ warned \in BOOLEAN /\ Len(history) \in Nat
    BY LoopAssumption, LenProperties DEF IInv, TypeOK
  <1>3. WarningGiven'
    BY <1>1, <1>2 DEF WarningGiven, WarningDue
  <1> DEFINE m == Message("warning", answers)
  <1>4. m \in Messages /\ m.kind = "warning" /\ m.turn = answers
    <2>1. m \in Messages
      BY <1>2, MessagesAre
    <2>2. m.kind = "warning" /\ m.turn = answers
      BY DEF Message
    <2> QED
      BY <2>1, <2>2
  <1> HIDE DEF m
  <1>5. CASE WarningDue
    <2>1. history' = Append(history, m) /\ warned' /\ ~ warned /\ answers >= MaxTurns - 2
      BY <1>1, <1>5 DEF WarningDue, m
    <2>2. /\ Len(history') = Len(history) + 1
          /\ \A i \in 1..Len(history) : history'[i] = history[i]
          /\ history'[Len(history) + 1] = m
      BY <1>2, <1>4, <2>1, AppendKeeps
    <2>3. HistoryPaired'
      BY <1>1, <1>2, <1>4, <2>1, AppendStaysPaired DEF HistoryInv, HistoryPaired
    <2>4. \A i \in 1..Len(history) : history[i].kind # "warning"
      BY <1>1, <2>1 DEF HistoryInv, WarningKept
    <2>5. WarningAt(history', Len(history) + 1)
      BY <1>2, <1>4, <2>2, <2>4 DEF WarningAt
    <2>6. Len(history') - (Len(history) + 1) = 2 * answers - 2 * m.turn
      BY <1>2, <1>4, <2>2
    <2>7. Behind' = 2 * answers
      BY <1>1 DEF Behind
    <2>8. WarningKept'
      <3>1. Len(history) + 1 \in 1..Len(history')
        BY <1>2, <2>2
      <3> QED
        BY <1>1, <1>4, <2>1, <2>2, <2>5, <2>6, <2>7, <3>1 DEF WarningKept
    <2> QED
      BY <1>3, <2>3, <2>8 DEF HistoryInv
  <1>6. CASE ~ WarningDue
    <2>1. history' = history /\ warned' = warned
      BY <1>1, <1>2, <1>6
    <2>2. HistoryPaired'
      BY <1>1, <2>1 DEF HistoryInv, HistoryPaired
    <2>3. WarningKept'
      BY <1>1, <2>1 DEF HistoryInv, WarningKept, WarningAt, Behind
    <2> QED
      BY <1>3, <2>2, <2>3 DEF HistoryInv
  <1> QED
    BY <1>5, <1>6

LEMMA CompactHistory == IInv /\ HistoryInv /\ Compact => HistoryInv'
  <1> SUFFICES ASSUME IInv, HistoryInv, Compact PROVE HistoryInv'
    OBVIOUS
  <1>1. pc = "compact" /\ pc' = "model" /\ UNCHANGED <<answers, warned>>
    BY DEF Compact
  <1>2. /\ history \in Seq(Messages) /\ answers \in Nat /\ MaxTurns \in Nat
        /\ answers < MaxTurns /\ Len(history) \in Nat
        /\ PreserveRecent \in Nat /\ PreserveRecent >= 3
    BY <1>1, LoopAssumption, HistoryAssumption, LenProperties DEF IInv, TypeOK, WithinBudget
  <1>3. CASE history' = history
    BY <1>1, <1>3, HistoryUntouched
  <1>4. CASE /\ Len(history) > PreserveRecent /\ WellPaired(Older(history))
             /\ history' = Compacted(history)
    <2>1. WarningGiven'
      BY <1>1 DEF HistoryInv, WarningGiven
    <2>2. HistoryPaired'
      BY <1>1, <1>2, <1>4, CompactedStaysPaired DEF HistoryInv, HistoryPaired
    <2>3. Behind = 2 * answers /\ Behind' = Behind
      BY <1>1 DEF Behind
    <2>4. CASE warned
      <3>1. PICK p \in 1..Len(history) :
              /\ WarningAt(history, p)
              /\ history[p].turn >= MaxTurns - 2
              /\ Len(history) - p = Behind - 2 * history[p].turn
        BY <1>1, <2>4 DEF HistoryInv, WarningKept
      <3>2. history[p].turn \in Int
        <4>1. history[p] \in Messages
          BY <1>2, ElementOfSeq
        <4> QED
          BY <4>1 DEF Messages
      <3>3. Len(history) - p < PreserveRecent
        BY <1>2, <2>3, <3>1, <3>2
      <3>4. \E q \in 1..Len(history') :
              /\ WarningAt(history', q) /\ history'[q] = history[p]
              /\ Len(history') - q = Len(history) - p
        BY <1>2, <1>4, <3>1, <3>3, CompactedKeepsWarning
      <3>5. WarningKept'
        BY <1>1, <2>3, <2>4, <3>1, <3>4 DEF WarningKept
      <3> QED
        BY <2>1, <2>2, <3>5 DEF HistoryInv
    <2>5. CASE ~ warned
      <3>1. \A i \in 1..Len(history) : history[i].kind # "warning"
        BY <1>1, <2>5 DEF HistoryInv, WarningKept
      <3> DEFINE c == Compacted(history)
      <3>2. /\ Len(c) = PreserveRecent + 1
            /\ c[1] = Message("summary", 0)
            /\ \A i \in 2..PreserveRecent + 1 :
                  c[i] = history[Len(history) - PreserveRecent - 1 + i]
        BY <1>2, <1>4, CompactedKeeps
      <3> HIDE DEF c
      <3>3. \A i \in 1..Len(c) : c[i].kind # "warning"
        <4> SUFFICES ASSUME NEW i \in 1..Len(c) PROVE c[i].kind # "warning"
          OBVIOUS
        <4>1. CASE i = 1
          BY <3>2, <4>1 DEF Message
        <4>2. CASE i \in 2..PreserveRecent + 1
          <5>1. Len(history) - PreserveRecent - 1 + i \in 1..Len(history)
            BY <1>2, <1>4, <4>2
          <5> QED
            BY <3>1, <3>2, <4>2, <5>1
        <4> QED
          BY <1>2, <3>2, <4>1, <4>2
      <3>4. WarningKept'
        BY <1>1, <1>4, <2>5, <3>3 DEF WarningKept, c
      <3> QED
        BY <2>1, <2>2, <3>4 DEF HistoryInv
    <2> QED
      BY <2>4, <2>5
  <1> QED
    BY <1>3, <1>4 DEF Compact

\* Answers that call tools, and their results, push the warning back by one.
LEMMA AppendHistory ==
    ASSUME IInv, HistoryInv, pc \in {"model", "calls"}, pc' \in {"top", "calls"},
           NEW m \in Messages, m.kind # "warning", history' = Append(history, m),
           answers' \in Nat, Behind \in Int, Behind' = Behind + 1, warned' = warned
    PROVE  WarningKept'
  <1>1. history \in Seq(Messages) /\ Len(history) \in Nat
    BY LenProperties DEF IInv, TypeOK
  <1>2. CASE warned
    <2>1. PICK p \in 1..Len(history) :
            /\ WarningAt(history, p)
            /\ history[p].turn >= MaxTurns - 2
            /\ Len(history) - p = Behind - 2 * history[p].turn
      BY <1>2 DEF HistoryInv, WarningKept
    <2>2. /\ p \in 1..Len(history') /\ WarningAt(history', p) /\ history'[p] = history[p]
          /\ Len(history') = Len(history) + 1
      BY <1>1, <2>1, AppendKeepsWarning, AppendKeeps
    <2>3. history[p].turn \in Int
      <3>1. history[p] \in Messages
        BY <1>1, ElementOfSeq
      <3> QED
        BY <3>1 DEF Messages
    <2>4. Len(history') - p = Behind' - 2 * history'[p].turn
      <3> DEFINE turn == history[p].turn
      <3>1. turn \in Int /\ Len(history) - p = Behind - 2 * turn /\ history'[p].turn = turn
        BY <2>1, <2>2, <2>3
      <3> HIDE DEF turn
      <3>2. Len(history) + 1 - p = Behind + 1 - 2 * turn
        BY <1>1, <3>1
      <3> QED
        BY <2>2, <3>1, <3>2
    <2> QED
      BY <1>2, <2>1, <2>2, <2>4 DEF WarningKept
  <1>3. CASE ~ warned
    <2>1. \A i \in 1..Len(history) : history[i].kind # "warning"
      BY <1>3 DEF HistoryInv, WarningKept
    <2>2. \A i \in 1..Len(history') : history'[i].kind # "warning"
      BY <1>1, <2>1, AppendKeeps
    <2> QED
      BY <1>3, <2>2 DEF WarningKept
  <1> QED
    BY <1>2, <1>3

LEMMA AnswerHistory == IInv /\ HistoryInv /\ Answer => HistoryInv'
  <1> SUFFICES ASSUME IInv, HistoryInv, Answer PROVE HistoryInv'
    OBVIOUS
  <1>1. /\ pc = "model" /\ answers' = answers + 1 /\ warned' = warned
        /\ \/ pc' = "finished"
           \/ pc' = "calls" /\ history' = Append(history, Message("calls", answers))
    BY DEF Answer
  <1>2. answers \in Nat /\ history \in Seq(Messages) /\ WellPaired(history)
    BY <1>1, LoopAssumption DEF IInv, TypeOK, HistoryInv, HistoryPaired
  <1>3. WarningGiven'
    BY <1>1 DEF WarningGiven
  <1>4. CASE pc' = "finished"
    BY <1>3, <1>4 DEF HistoryInv, HistoryPaired, WarningKept
  <1>5. CASE pc' = "calls" /\ history' = Append(history, Message("calls", answers))
    <2>1. answers' - 1 = answers
      BY <1>1, <1>2
    <2>2. HistoryPaired'
      BY <1>2, <1>5, <2>1 DEF HistoryPaired
    <2>3. /\ Behind = 2 * answers /\ Behind' = 2 * answers' - 1
      BY <1>1, <1>5 DEF Behind
    <2>4. Behind \in Int /\ Behind' = Behind + 1 /\ answers' \in Nat
      BY <1>1, <1>2, <2>3
    <2>5. Message("calls", answers) \in Messages
      BY <1>2, MessagesAre
    <2>6. Message("calls", answers).kind # "warning"
      BY DEF Message
    <2>7. WarningKept'
      BY <1>1, <1>5, <2>4, <2>5, <2>6, AppendHistory
    <2> QED
      BY <1>3, <2>2, <2>7 DEF HistoryInv
  <1> QED
    BY <1>1, <1>4, <1>5

LEMMA CollectResultsHistory == IInv /\ HistoryInv /\ CollectResults => HistoryInv'
  <1> SUFFICES ASSUME IInv, HistoryInv, CollectResults PROVE HistoryInv'
    OBVIOUS
  <1>1. /\ pc = "calls" /\ pc' = "top" /\ UNCHANGED <<answers, warned>>
        /\ history' = Append(history, Message("results", answers - 1))
    BY DEF CollectResults
  <1>2. answers \in Nat /\ answers - 1 \in Int
    BY LoopAssumption DEF IInv, TypeOK
  <1>3. WarningGiven'
    BY <1>1 DEF WarningGiven
  <1>4. HistoryPaired'
    <2>1. PICK h \in Seq(Messages) :
            WellPaired(h) /\ history = Append(h, Message("calls", answers - 1))
      BY <1>1 DEF HistoryInv, HistoryPaired
    <2> QED
      BY <1>1, <1>2, <2>1, AppendPairStaysPaired DEF HistoryPaired
  <1>5. Behind = 2 * answers - 1 /\ Behind' = 2 * answers
    BY <1>1 DEF Behind
  <1>6. Behind \in Int /\ Behind' = Behind + 1
    BY <1>2, <1>5
  <1>7. Message("results", answers - 1) \in Messages
    BY <1>2, MessagesAre
  <1>8. Message("results", answers - 1).kind # "warning"
    BY DEF Message
  <1>9. WarningKept'
    BY <1>1, <1>2, <1>6, <1>7, <1>8, AppendHistory
  <1> QED
    BY <1>3, <1>4, <1>9 DEF HistoryInv

\* In every reachable state the history is well paired and holds the warning.
THEOREM HistoryInvariant == Spec => []HistoryInv
  <1>1. IInv /\ HistoryInv /\ [Next]_vars => HistoryInv'
    <2> SUFFICES ASSUME IInv, HistoryInv, [Next]_vars PROVE HistoryInv'
      OBVIOUS
    <2>1. CASE \/ ExhaustTurns \/ SkipCompaction \/ FailCompaction \/ FailModel
               \/ Done \/ UNCHANGED vars
      <3>1. /\ UNCHANGED <<history, answers, warned>>
            /\ \/ pc' = pc \/ pc' \in {"finished", "exhausted", "failed"}
               \/ pc = "compact" /\ pc' = "model"
        BY <2>1 DEF ExhaustTurns, SkipCompaction, FailCompaction, FailModel, Done,
                    vars, turnVars
      <3> QED
        BY <3>1, HistoryUntouched
    <2>2. CASE \E i \in DOMAIN calls : CallStep(i)
      <3>1. UNCHANGED <<history, answers, warned>> /\ (pc' = pc \/ pc' = "failed")
        BY <2>2 DEF CallStep, MoveCall, RefuseCall, AdmitCall, PromptUser, Confirm, Decline,
                    ExecuteCall, RaiseInCall, turnVars
      <3> QED
        BY <3>1, HistoryUntouched
    <2> QED
      BY <2>1, <2>2, BeginTurnHistory, CompactHistory, AnswerHistory, CollectResultsHistory
      DEF Next
  <1> QED
    BY InitHistory, <1>1, LoopInvariant, PTL DEF Spec

\* No request ever parts an answer from the results of its calls, whatever is
\* compacted when, from every well paired history (query.py:67-84, 110, 145;
\* compact/__init__.py:287-317).
THEOREM RequestsArePaired == Spec => []RequestsWellPaired
  <1>1. HistoryInv => RequestsWellPaired
    BY DEF HistoryInv, HistoryPaired, RequestsWellPaired
  <1> QED
    BY HistoryInvariant, <1>1, PTL

\* The urgent reminder is in front of the model, once, in its last two turns:
\* a compaction preserves it if it preserves three messages (query.py:68-76).
THEOREM WarningIsSeen == Spec => []WarningInView
  <1>1. HistoryInv => WarningInView
    <2> SUFFICES ASSUME HistoryInv, pc = "model", HasWarning, answers >= MaxTurns - 2
                 PROVE  Cardinality({i \in 1..Len(history) :
                                        history[i].kind = "warning"}) = 1
      BY DEF WarningInView
    <2>1. PICK p \in 1..Len(history) : WarningAt(history, p)
      BY DEF HistoryInv, WarningGiven, WarningKept
    <2>2. {i \in 1..Len(history) : history[i].kind = "warning"} = {p}
      BY <2>1 DEF WarningAt
    <2> QED
      BY <2>2, FS_Singleton
  <1> QED
    BY HistoryInvariant, <1>1, PTL
----------------------------------------------------------------------------
(* The refinement *)

\* The loop implements the promise the workflow engine walks its graph over
\* (engine.py:271-284).
THEOREM LoopImplementsNodeRun == Spec => ImplementsNodeRun
  <1>1. Init => Promise!RunInit
    <2> SUFFICES ASSUME Init PROVE Promise!RunInit
      OBVIOUS
    <2>1. ~ Waiting
      BY EmptySeq DEF Init, Waiting
    <2> QED
      BY <2>1 DEF Init, Promise!RunInit, Ended
  <1>2. IInv /\ IInv' /\ [Next]_vars =>
            [Promise!RunNext(MaxTurns, Accepted)]_(Promise!runVars)
    <2> SUFFICES ASSUME IInv, IInv', [Next]_vars
                 PROVE  [Promise!RunNext(MaxTurns, Accepted)]_(Promise!runVars)
      OBVIOUS
    <2> DEFINE status == IF Ended THEN pc ELSE IF Waiting THEN "waiting" ELSE "running"
    <2>0. /\ pc \notin {"calls", "failed"} => ~ Waiting
          /\ pc' \notin {"calls", "failed"} => ~ Waiting'
      BY EmptySeq DEF IInv, CallsInTurn, Waiting
    <2>1. answers \in Nat /\ MaxTurns \in Nat /\ answers <= MaxTurns
      BY LoopAssumption DEF IInv, TypeOK
    <2>2. ASSUME UNCHANGED <<answers, captured, called, text>>, status' = status
          PROVE  UNCHANGED Promise!runVars
      BY <2>2 DEF Promise!runVars
    <2>3. CASE BeginTurn \/ SkipCompaction \/ Compact \/ FailCompaction \/ Done
               \/ UNCHANGED vars
      <3>1. UNCHANGED <<answers, captured, called, text, calls>> /\ Ended' = Ended
            /\ (Ended => pc' = pc)
        BY <2>3 DEF BeginTurn, SkipCompaction, Compact, FailCompaction, Done, vars,
                    turnVars, callVars, Ended
      <3>2. Waiting' = Waiting
        BY <3>1 DEF Waiting
      <3> QED
        BY <2>2, <3>1, <3>2
    <2>4. CASE ExhaustTurns
      <3>1. answers = MaxTurns
        BY <2>1, <2>4 DEF ExhaustTurns
      <3> QED
        BY <2>0, <2>4, <3>1 DEF ExhaustTurns, callVars, Ended, Promise!Exhaust,
                          Promise!RunProgress, Promise!RunNext
    <2>5. CASE FailModel
      BY <2>0, <2>5 DEF FailModel, callVars, Ended, Promise!Fail, Promise!RunProgress,
                  Promise!RunNext
    <2>6. CASE Answer
      <3>1. answers < MaxTurns
        BY <2>6 DEF Answer, IInv, WithinBudget
      <3>2. pc' \in {"finished", "calls"}
        BY <2>6 DEF Answer
      <3>3. ~ Waiting'
        <4>1. pc' = "calls" => \A i \in DOMAIN calls' : calls'[i].phase = "start"
          BY <2>6 DEF Answer
        <4> QED
          BY <2>0, <3>2, <4>1 DEF Waiting
      <3> QED
        BY <2>0, <2>6, <3>1, <3>2, <3>3 DEF Answer, Ended, Promise!Ask, Promise!Finish,
                                Promise!RunProgress, Promise!RunNext
    <2>7. CASE CollectResults
      <3>1. Reported \in SUBSET Tools /\ Reported # {}
        <4>1. calls \in Seq(Call) /\ calls # <<>>
          BY <2>7 DEF CollectResults, IInv, TypeOK, CallsInTurn
        <4>2. DOMAIN calls = 1..Len(calls) /\ Len(calls) \in Nat \ {0}
          BY <4>1, LenProperties, EmptySeq
        <4>3. \A i \in DOMAIN calls : calls[i] \in Call
          BY <4>1, <4>2, ElementOfSeq
        <4>4. 1 \in DOMAIN calls
          BY <4>2
        <4> QED
          BY <4>3, <4>4 DEF Call, Reported
      <3>2. answers > 0
        BY <2>7 DEF CollectResults, IInv, CallsInTurn
      <3>3. /\ called' = called \union Reported
            /\ UNCHANGED <<answers, captured, text>>
            /\ status = "running" /\ status' = "running"
        BY <2>0, <2>7 DEF CollectResults, Ended, Waiting
      <3>4. Promise!Report
        <4>1. \E T \in (SUBSET Tools) \ {{}} : called' = called \union T
          BY <3>1, <3>3
        <4> QED
          BY <3>2, <3>3, <4>1 DEF Promise!Report
      <3> QED
        BY <3>4 DEF Promise!CallProgress, Promise!RunNext
    <2>8. ASSUME NEW i \in DOMAIN calls, CallStep(i)
          PROVE  [Promise!RunNext(MaxTurns, Accepted)]_(Promise!runVars)
      <3>1. pc \in {"calls", "failed"} /\ answers > 0 /\ UNCHANGED <<answers, called, text>>
        <4>1. calls # <<>>
          BY EmptySeq
        <4> QED
          BY <2>8, <4>1 DEF CallStep, MoveCall, RefuseCall, AdmitCall, PromptUser, Confirm,
                      Decline, ExecuteCall, RaiseInCall, turnVars, IInv, CallsInTurn
      <3>2. \/ pc' = pc /\ captured' = captured
            \/ pc' = pc /\ captured' \in Accepted /\ ExecuteCall(i) /\ calls[i].tool = SignalTool
            \/ pc' = "failed" /\ captured' = captured
        BY <2>8 DEF CallStep, RefuseCall, AdmitCall, PromptUser, Confirm, Decline,
                    ExecuteCall, RaiseInCall, Capture, turnVars
      <3>3. /\ pc = "failed" => status = "failed"
            /\ pc = "calls" => status \in {"running", "waiting"}
            /\ pc' = "failed" => status' = "failed"
            /\ pc' = "calls" => status' \in {"running", "waiting"}
        BY DEF Ended
      <3> HIDE DEF status
      <3>4. CASE pc' = pc /\ captured' = captured
        <4>1. \/ status' = status
              \/ status = "running" /\ status' = "waiting"
              \/ status = "waiting" /\ status' = "running"
          BY <3>1, <3>3, <3>4
        <4>2. CASE status' = status
          BY <2>2, <3>1, <3>4, <4>2
        <4>3. CASE status = "running" /\ status' = "waiting"
          BY <3>1, <3>4, <4>3 DEF status, Promise!Wait, Promise!CallProgress, Promise!RunNext
        <4>4. CASE status = "waiting" /\ status' = "running"
          BY <3>1, <3>4, <4>4 DEF status, Promise!Resume, Promise!CallProgress, Promise!RunNext
        <4> QED
          BY <4>1, <4>2, <4>3, <4>4
      <3>5. CASE pc' = pc /\ captured' \in Accepted /\ ExecuteCall(i) /\ calls[i].tool = SignalTool
        <4>1. MoveCall(i, "run", "done") /\ TypeOK
          BY <3>5 DEF ExecuteCall, IInv
        <4>2. /\ DOMAIN calls' = DOMAIN calls
              /\ \A j \in DOMAIN calls : j # i => calls'[j] = calls[j]
              /\ calls'[i].phase = "done" /\ calls[i].phase = "run"
          BY <4>1, MoveCallMoves
        <4>3. Waiting' = Waiting
          BY <3>5, <4>2, LoopAssumption DEF Waiting
        <4>4. status' = status
          BY <3>5, <4>3 DEF status, Ended
        <4>5. status \in {"running", "waiting", "failed"}
          BY <3>1, <3>3
        <4> QED
          BY <3>1, <3>5, <4>4, <4>5 DEF status, Promise!Signal, Promise!CallProgress, Promise!RunNext
      <3>6. CASE pc' = "failed" /\ captured' = captured
        <4>1. status \in {"running", "waiting", "failed"} /\ status' = "failed"
          BY <3>1, <3>3, <3>6
        <4>2. CASE status = "failed"
          BY <2>2, <3>1, <3>6, <4>1, <4>2
        <4>3. CASE status = "running"
          BY <3>1, <3>6, <4>1, <4>3 DEF status, Promise!Fail, Promise!RunProgress, Promise!RunNext
        <4>4. CASE status = "waiting"
          BY <3>1, <3>6, <4>1, <4>4 DEF status, Promise!FailWaiting, Promise!CallProgress, Promise!RunNext
        <4> QED
          BY <4>1, <4>2, <4>3, <4>4
      <3> QED
        BY <3>2, <3>4, <3>5, <3>6
    <2> QED
      BY <2>3, <2>4, <2>5, <2>6, <2>7, <2>8 DEF Next
  <1> QED
    BY <1>1, <1>2, LoopInvariant, PTL DEF Spec, ImplementsNodeRun
=============================================================================
