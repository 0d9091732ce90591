---------------------------- MODULE ParallelNode ----------------------------
(***************************************************************************)
(* WorkflowEngine._execute_parallel_node and _execute_branch               *)
(* (workflow/engine.py:498-706) over the HitlBroker (workflow/hitl.py).    *)
(*                                                                         *)
(* The engine's coroutine walks through the gates, starts one task per     *)
(* branch, waits for all of them or the timeout, cancels what is left and  *)
(* collects the results.  Meanwhile every branch runs its own agent loop,  *)
(* whose concurrent calls execute tools, put questions to the user under   *)
(* the broker's lock, and ask for permissions past it.  The user answers   *)
(* whenever it pleases, and may cancel the whole workflow.                 *)
(*                                                                         *)
(* A step is what happens between two awaits.  The agent loop of a branch  *)
(* is reduced to its calls; which of them run together is left open.       *)
(***************************************************************************)
EXTENDS Naturals, Sequences, SequencesExt

CONSTANTS
    Branches,
    Order,            \* the branches as the definition lists them
    Gated,            \* branches with requires_approval
    Slots,            \* bound: calls of one branch at a time
    Interactive,      \* node.interactive
    HasAsk,           \* ask_user_prompt is not None
    HasPrompt,        \* permission_prompt is not None
    Gate, Nobody

Calls == Branches \X Slots

ASSUME NodeAssumption ==
    /\ Order \in Seq(Branches)
    /\ \A b \in Branches : \E i \in 1..Len(Order) : Order[i] = b
    /\ \A i, j \in 1..Len(Order) : Order[i] = Order[j] => i = j
    /\ Gated \subseteq Branches
    /\ Interactive \in BOOLEAN /\ HasAsk \in BOOLEAN /\ HasPrompt \in BOOLEAN
    /\ Gate \notin Calls /\ Nobody \notin Calls /\ Gate # Nobody

VARIABLES
    phase,        \* "gates", "spawn", "wait", "collect", "returned", "raised", "cancelled"
    next,         \* position in Order of the loop the engine is in
    triggered,    \* branches whose condition is met
    toRun,        \* branches_to_run
    done,         \* tasks asyncio.wait returned as done
    result,       \* outcome recorded for each branch
    task,         \* state of each branch's task
    cancelling,   \* tasks whose cancellation has not been delivered
    call,         \* state of each call of each branch
    holder,       \* owner of the broker's lock
    queue         \* calls waiting for the lock, first come first served

nodeVars == <<phase, next, triggered, toRun, done, result>>
branchVars == <<task, cancelling, call, holder, queue>>
parallelVars == <<nodeVars, branchVars>>

\* HitlBroker(upstream_ask = ask_user_prompt if node.interactive else None).
HasUpstream == HasAsk /\ Interactive

\* Variant: `results` does not start from the skipped branches.
InitForgetsSkipped ==
    /\ phase = "gates" /\ next = 1
    /\ triggered \in SUBSET Branches
    /\ toRun = {} /\ done = {}
    /\ result = [b \in Branches |-> "none"]
    /\ task = [b \in Branches |-> "none"]
    /\ cancelling = {}
    /\ call = [c \in Calls |-> "idle"]
    /\ holder = Nobody /\ queue = <<>>

ParallelInit ==
    /\ phase = "gates" /\ next = 1
    /\ triggered \in SUBSET Branches
    /\ toRun = {} /\ done = {}
    /\ result = [b \in Branches |-> IF b \in triggered THEN "none" ELSE "skipped"]
    /\ task = [b \in Branches |-> "none"]
    /\ cancelling = {}
    /\ call = [c \in Calls |-> "idle"]
    /\ holder = Nobody /\ queue = <<>>

----------------------------------------------------------------------------
(* The engine's coroutine *)

Listed(b) == next <= Len(Order) /\ b = Order[next]

\* A branch that is not triggered is passed over; an ungated one is taken on,
\* and so is a gated one when there is no user to ask.
PassGate ==
    /\ phase = "gates"
    /\ \E b \in Branches :
        /\ Listed(b)
        /\ b \notin triggered \/ b \notin Gated \/ ~ HasUpstream
        /\ toRun' = toRun \union ({b} \cap triggered)
    /\ next' = next + 1
    /\ UNCHANGED <<phase, triggered, done, result, branchVars>>

AskGate ==
    /\ phase = "gates"
    /\ holder = Nobody
    /\ \E b \in triggered \cap Gated : Listed(b)
    /\ HasUpstream
    /\ holder' = Gate
    /\ UNCHANGED <<nodeVars, task, cancelling, call, queue>>

\* Variant: a denied branch is recorded and taken on all the same.
AnswerGateFallsThrough ==
    /\ phase = "gates"
    /\ holder = Gate
    /\ \E b \in Branches, approved \in BOOLEAN :
        /\ Listed(b)
        /\ toRun' = toRun \union {b}
        /\ result' = IF approved THEN result ELSE [result EXCEPT ![b] = "denied"]
    /\ next' = next + 1
    /\ holder' = Nobody
    /\ UNCHANGED <<phase, triggered, done, task, cancelling, call, queue>>

AnswerGate ==
    /\ phase = "gates"
    /\ holder = Gate
    /\ \E b \in Branches, approved \in BOOLEAN :
        /\ Listed(b)
        /\ toRun' = IF approved THEN toRun \union {b} ELSE toRun
        /\ result' = IF approved THEN result ELSE [result EXCEPT ![b] = "denied"]
    /\ next' = next + 1
    /\ holder' = Nobody
    /\ UNCHANGED <<phase, triggered, done, task, cancelling, call, queue>>

\* The prompt itself fails: the lock is released, the node and the workflow end.
RaiseAtGate ==
    /\ phase = "gates"
    /\ holder = Gate
    /\ phase' = "raised"
    /\ holder' = Nobody
    /\ UNCHANGED <<next, triggered, toRun, done, result, task, cancelling, call, queue>>

\* All gates are behind: without a branch to run the node returns at once.
EndGates ==
    /\ phase = "gates"
    /\ next > Len(Order)
    /\ phase' = IF toRun = {} THEN "returned" ELSE "spawn"
    /\ next' = 1
    /\ UNCHANGED <<triggered, toRun, done, result, branchVars>>

\* Tasks are created one by one with an await in between, so an early branch
\* may have come far before a late one starts.
SpawnBranch ==
    /\ phase = "spawn"
    /\ \E b \in Branches :
        /\ Listed(b)
        /\ task' = IF b \in toRun THEN [task EXCEPT ![b] = "running"] ELSE task
    /\ next' = next + 1
    /\ UNCHANGED <<phase, triggered, toRun, done, result, cancelling, call, holder, queue>>

StartWaiting ==
    /\ phase = "spawn"
    /\ next > Len(Order)
    /\ phase' = "wait"
    /\ UNCHANGED <<next, triggered, toRun, done, result, branchVars>>

TaskEnded(b) == task[b] \in {"succeeded", "failed", "cancelled"}

\* Variant: the wait has no timeout.
WaitReturnsWhenAllEnded ==
    /\ phase = "wait"
    /\ done' = {b \in toRun : TaskEnded(b)}
    /\ done' = toRun
    /\ cancelling' = {}
    /\ phase' = "collect"
    /\ next' = 1
    /\ UNCHANGED <<triggered, toRun, result, task, call, holder, queue>>

\* Variant: the pending tasks are not cancelled.
WaitReturnsOnly ==
    /\ phase = "wait"
    /\ done' = {b \in toRun : TaskEnded(b)}
    /\ cancelling' = {}
    /\ phase' = "collect"
    /\ next' = 1
    /\ UNCHANGED <<triggered, toRun, result, task, call, holder, queue>>

\* asyncio.wait returns: every task has ended, or the timeout has passed and
\* the others are cancelled.  Their cancellation is not awaited.
WaitReturns ==
    /\ phase = "wait"
    /\ done' = {b \in toRun : TaskEnded(b)}
    /\ cancelling' = toRun \ done'
    /\ phase' = "collect"
    /\ next' = 1
    /\ UNCHANGED <<triggered, toRun, result, task, call, holder, queue>>

\* Variant: what is recorded is the state the task has come to by now.
OutcomeNow(b) ==
    CASE task[b] = "succeeded" -> "ok"
      [] task[b] = "failed"    -> "failed"
      [] task[b] = "running" -> "timed out"
      [] OTHER -> "none"

Outcome(b) ==
    IF b \notin done THEN "timed out"
    ELSE IF task[b] = "succeeded" THEN "ok" ELSE "failed"

CollectResult ==
    /\ phase = "collect"
    /\ \E b \in Branches :
        /\ Listed(b)
        /\ result' = IF b \in toRun THEN [result EXCEPT ![b] = Outcome(b)] ELSE result
    /\ next' = next + 1
    /\ UNCHANGED <<phase, triggered, toRun, done, branchVars>>

Return ==
    /\ phase = "collect"
    /\ next > Len(Order)
    /\ phase' = "returned"
    /\ UNCHANGED <<next, triggered, toRun, done, result, branchVars>>

\* The user cancels the workflow: the exception is raised at the await the
\* engine is in.  An open gate gives the lock back; asyncio.wait leaves the
\* tasks it was waiting for as they are.
CancelNode ==
    /\ phase \in {"gates", "spawn", "wait", "collect"}
    /\ phase' = "cancelled"
    /\ holder' = IF holder = Gate THEN Nobody ELSE holder
    /\ UNCHANGED <<next, triggered, toRun, done, result, task, cancelling, call, queue>>

----------------------------------------------------------------------------
(* The calls of the branches *)

\* A call moves as long as nobody has asked its branch to stop.  That includes
\* the calls left over when another call of the branch raised.
MoveCall(c, from, to) ==
    /\ task[c[1]] # "none"
    /\ c[1] \notin cancelling
    /\ call[c] = from
    /\ call' = [call EXCEPT ![c] = to]

StartCall(c) ==
    /\ task[c[1]] = "running"
    /\ MoveCall(c, "idle", "busy")
    /\ UNCHANGED <<nodeVars, task, cancelling, holder, queue>>

\* Variant: the lock is tested without regard to who waits for it.
AskUserBarging(c) ==
    /\ HasUpstream
    /\ MoveCall(c, "busy", "asking")
    /\ holder' = c
    /\ UNCHANGED <<nodeVars, task, cancelling, queue>>

\* A question: the lock is free and nobody waits for it, or the call queues up.
AskUser(c) ==
    /\ HasUpstream
    /\ \/ /\ holder = Nobody /\ queue = <<>>
          /\ MoveCall(c, "busy", "asking")
          /\ holder' = c
          /\ queue' = queue
       \/ /\ holder # Nobody \/ queue # <<>>
          /\ MoveCall(c, "busy", "queued")
          /\ queue' = Append(queue, c)
          /\ holder' = holder
    /\ UNCHANGED <<nodeVars, task, cancelling>>

AcquireLock(c) ==
    /\ holder = Nobody
    /\ queue # <<>> /\ Head(queue) = c
    /\ MoveCall(c, "queued", "asking")
    /\ holder' = c
    /\ queue' = Tail(queue)
    /\ UNCHANGED <<nodeVars, task, cancelling>>

AnswerUser(c) ==
    /\ MoveCall(c, "asking", "busy")
    /\ holder' = Nobody
    /\ UNCHANGED <<nodeVars, task, cancelling, queue>>

\* The permission prompt of a branch does not go through the broker.
AskPermission(c) ==
    /\ HasPrompt
    /\ MoveCall(c, "busy", "permission")
    /\ UNCHANGED <<nodeVars, task, cancelling, holder, queue>>

AnswerPermission(c) ==
    /\ MoveCall(c, "permission", "busy")
    /\ UNCHANGED <<nodeVars, task, cancelling, holder, queue>>

EndCall(c) ==
    /\ MoveCall(c, "busy", "idle")
    /\ UNCHANGED <<nodeVars, task, cancelling, holder, queue>>

\* A tool, or the prompt it waits for, raises: the branch has failed, and its
\* other calls go on.
RaiseInCall(c) ==
    /\ \/ MoveCall(c, "busy", "idle") /\ UNCHANGED holder
       \/ MoveCall(c, "asking", "idle") /\ holder' = Nobody
    /\ task' = [task EXCEPT ![c[1]] = "failed"]
    /\ UNCHANGED <<nodeVars, cancelling, queue>>

\* The loop of a branch ends: it finishes, runs out of turns or loses the API.
EndBranch(b) ==
    /\ task[b] = "running"
    /\ b \notin cancelling
    /\ \A s \in Slots : call[<<b, s>>] = "idle"
    /\ \E end \in {"succeeded", "failed"} : task' = [task EXCEPT ![b] = end]
    /\ UNCHANGED <<nodeVars, cancelling, call, holder, queue>>

HeldBy(b) == \E s \in Slots : holder = <<b, s>>

\* Variant: the lock is not given back by a task that is cancelled.
DeliverCancelKeepsLock(b) ==
    /\ b \in cancelling
    /\ cancelling' = cancelling \ {b}
    /\ task' = [task EXCEPT ![b] = "cancelled"]
    /\ call' = [c \in Calls |-> IF c[1] = b THEN "idle" ELSE call[c]]
    /\ queue' = SelectSeq(queue, LAMBDA c : c[1] # b)
    /\ UNCHANGED <<nodeVars, holder>>

\* The cancellation reaches the task: its calls unwind, the lock is released
\* and their places in the queue are given up.
DeliverCancel(b) ==
    /\ b \in cancelling
    /\ cancelling' = cancelling \ {b}
    /\ task' = [task EXCEPT ![b] = "cancelled"]
    /\ call' = [c \in Calls |-> IF c[1] = b THEN "idle" ELSE call[c]]
    /\ holder' = IF HeldBy(b) THEN Nobody ELSE holder
    /\ queue' = SelectSeq(queue, LAMBDA c : c[1] # b)
    /\ UNCHANGED nodeVars

----------------------------------------------------------------------------
\* What the engine does by itself, without the user.
EngineStep ==
    \/ PassGate \/ AskGate \/ EndGates \/ SpawnBranch \/ StartWaiting
    \/ WaitReturns \/ CollectResult \/ Return

CallStep(c) ==
    \/ StartCall(c) \/ AskUser(c) \/ AcquireLock(c) \/ AnswerUser(c)
    \/ AskPermission(c) \/ AnswerPermission(c) \/ EndCall(c) \/ RaiseInCall(c)

\* The node has been left and its branches are at rest.
Settled ==
    /\ phase \in {"returned", "raised", "cancelled"}
    /\ UNCHANGED parallelVars

ParallelNext ==
    \/ EngineStep \/ AnswerGate \/ RaiseAtGate \/ CancelNode
    \/ \E c \in Calls : CallStep(c)
    \/ \E b \in Branches : EndBranch(b) \/ DeliverCancel(b)
    \/ Settled

ParallelSpec == ParallelInit /\ [][ParallelNext]_parallelVars

\* The event loop resumes what is ready: the engine, whose wait ends with the
\* timeout at the latest, a task that is cancelled, and the first in the queue
\* of a free lock.  Users, tools and models may take for ever.
ParallelFairness ==
    /\ WF_parallelVars(EngineStep)
    /\ \A b \in Branches : WF_parallelVars(DeliverCancel(b))
    /\ \A c \in Calls : WF_parallelVars(AcquireLock(c))

ParallelFairSpec == ParallelSpec /\ ParallelFairness

----------------------------------------------------------------------------
(* Properties *)

\* The type of the variables.
ParallelTypeOK ==
    /\ phase \in {"gates", "spawn", "wait", "collect", "returned", "raised", "cancelled"}
    /\ next \in 1..Len(Order) + 1
    /\ triggered \subseteq Branches /\ toRun \subseteq triggered /\ done \subseteq toRun
    /\ result \in [Branches -> {"none", "skipped", "denied", "ok", "failed", "timed out"}]
    /\ task \in [Branches -> {"none", "running", "succeeded", "failed", "cancelled"}]
    /\ cancelling \subseteq toRun
    /\ call \in [Calls -> {"idle", "busy", "queued", "asking", "permission"}]
    /\ holder \in Calls \union {Gate, Nobody}
    /\ queue \in Seq(Calls)

\* At most one question of the broker is before the user: "only one branch can
\* talk to the user at a time" (hitl.py:14-15), gates included, whatever is
\* cancelled or raises while it waits.
OneQuestionAtATime ==
    /\ \A c, d \in Calls : call[c] = "asking" /\ call[d] = "asking" => c = d
    /\ \A c \in Calls : call[c] = "asking" => holder # Gate

\* The lock is held by the call whose question is open, or by the open gate.
HolderTalks ==
    /\ \A c \in Calls : call[c] = "asking" <=> holder = c
    /\ holder = Gate => phase = "gates"

\* A branch works only after every gate is answered: no task exists while a
\* gate is open, and a branch that was denied never gets one
\* (engine.py:548-566 before 575-580).
GatesComeFirst ==
    /\ phase = "gates" => \A b \in Branches : task[b] = "none"
    /\ \A b \in Branches : result[b] = "denied" => b \notin toRun /\ task[b] = "none"

\* The report of a node that returned is true: every branch is accounted for,
\* and as what its task came to, also when that came after the timeout
\* (engine.py:583-617).
ReportIsTrue ==
    phase = "returned" =>
        \A b \in Branches :
            /\ result[b] # "none"
            /\ result[b] = "ok" <=> task[b] = "succeeded"
            /\ result[b] = "failed" <=> task[b] = "failed"
            /\ result[b] = "timed out" <=> b \in cancelling \/ task[b] = "cancelled"

\* Every branch gets one outcome, which stays, before the node returns.
Join == INSTANCE ForkJoin WITH
    Outcomes <- {"skipped", "denied", "ok", "failed", "timed out"},
    NoOutcome <- "none",
    outcome <- result,
    state <- CASE phase = "returned" -> "returned"
               [] phase \in {"raised", "cancelled"} -> "abandoned"
               [] OTHER -> "open"

ImplementsForkJoin == Join!Spec

\* Once its branches are started the node is left, whatever the user, the
\* tools and the models do: the timeout sees to it (engine.py:583-589).
NodeReturns == phase = "spawn" ~> phase \in {"returned", "cancelled"}

\* A branch that is reported as timed out stops working, and the user sees no
\* question of it any more (engine.py:588-589, 610-613).
TimedOutBranchesStop ==
    \A b \in Branches :
        result[b] = "timed out" ~>
            [](task[b] = "cancelled" /\ \A s \in Slots : call[<<b, s>>] = "idle")

\* If every question is eventually answered, withdrawn or cancelled, every call
\* that waits for the lock gets it or is cancelled (hitl.py:15-16, "block on
\* the lock until the current interaction completes").
NoCallStarves ==
    (\A c \in Calls : []<>(call[c] # "asking")) =>
        \A c \in Calls : call[c] = "queued" ~> call[c] # "queued"

Talking(b) == \E s \in Slots : call[<<b, s>>] \in {"asking", "permission"}

\* "When false, the node runs fully automatically. User prompts are suppressed"
\* (docs/workflows.md:108).
SilentUnlessInteractive == ~ Interactive => \A b \in Branches : ~ Talking(b)

\* "All triggered branches must complete before transitioning."
\* (docs/workflows.md:71): a branch that is reported as run to its end does
\* nothing any more.
ReportedBranchesRest ==
    phase = "returned" =>
        \A b \in Branches :
            result[b] \in {"ok", "failed"} => \A s \in Slots : call[<<b, s>>] = "idle"

\* "Generation cancelled." (ui/backend_host.py:101): after the cancellation of
\* the workflow no branch begins another call.
NothingStartsAfterCancel ==
    [][phase = "cancelled" => \A c \in Calls : call[c] = "idle" => call'[c] = "idle"]_parallelVars
=============================================================================
