--------------------------- MODULE TriggerServer ---------------------------
(***************************************************************************)
(* Webhook triggers: the server (triggers/server.py), whose connections    *)
(* run concurrently and start tasks through the TaskManager, and the       *)
(* registry (triggers/registry.py) that the session's remote_trigger tool  *)
(* changes meanwhile.  The task a request starts has the request's name;   *)
(* the names no request uses are tasks of the session's task_create tool.  *)
(***************************************************************************)
EXTENDS TaskManager, Functions, FiniteSets

CONSTANTS
    Triggers,
    MaxUses       \* bound: operations of the session's tool

ASSUME TriggerAssumption == MaxUses \in Nat

VARIABLES
    registry,    \* trigger -> [enabled, count] of its record
    target,      \* the trigger a request has found, with its record
    status,      \* "none", or its answer: "ok" (200), "refused" (4xx) or "error" (500)
    removed,     \* history: triggers that were deleted
    uses

serverVars == <<registry, target, status, removed, uses>>
triggerVars == <<taskVars, serverVars>>

Unknown == [trigger |-> "none", enabled |-> FALSE, count |-> 0]

TriggerInit ==
    /\ TaskInit
    /\ \E known \in SUBSET Triggers :
         registry \in [known -> [enabled : BOOLEAN, count : {0}]]
    /\ target = [r \in Tasks |-> Unknown]
    /\ status = [r \in Tasks |-> "none"]
    /\ removed = {} /\ uses = 0

----------------------------------------------------------------------------
(* A connection: read, check, fire, count, answer *)

Waits(r) == up /\ status[r] = "none" /\ record[r] = "none"

Respond(r, s) == status' = [status EXCEPT ![r] = s]

\* A request that is malformed, too large, cut short or for another path, and
\* the health check.
Answer(r) ==
    /\ Waits(r)
    /\ \E s \in {"ok", "refused", "error"} : Respond(r, s)
    /\ UNCHANGED <<taskVars, registry, target, removed, uses>>

\* The trigger is unknown or disabled, or the secret is wrong.
Refuse(r) ==
    /\ Waits(r)
    /\ Respond(r, "refused")
    /\ UNCHANGED <<taskVars, registry, target, removed, uses>>

\* The trigger is enabled and the secret is right: the action starts.  The
\* remote_trigger tool creates triggers that start a task, and no others.
Accept(r, t) ==
    /\ Waits(r) /\ t \in DOMAIN registry /\ registry[t].enabled
    /\ target' = [target EXCEPT ![r] =
                    [trigger |-> t, enabled |-> TRUE, count |-> registry[t].count]]
    /\ Create(r)
    /\ UNCHANGED <<registry, status, removed, uses>>

\* Variant: what the action raises is not looked at.
CountAnyway(r) ==
    LET t == target[r].trigger IN
    /\ up /\ status[r] = "none" /\ target[r] # Unknown
    /\ r \notin spawning
    /\ registry' = [u \in DOMAIN registry \union {t} |->
                      IF u = t THEN [enabled |-> TRUE, count |-> target[r].count + 1]
                      ELSE registry[u]]
    /\ Respond(r, "ok")
    /\ UNCHANGED <<taskVars, target, removed, uses>>

\* What is saved is the record as it was before the action started.
Count(r) ==
    LET t == target[r].trigger IN
    /\ up /\ status[r] = "none" /\ target[r] # Unknown
    /\ proc[r] # "none"
    /\ registry' = [u \in DOMAIN registry \union {t} |->
                      IF u = t THEN [enabled |-> TRUE, count |-> target[r].count + 1]
                      ELSE registry[u]]
    /\ Respond(r, "ok")
    /\ UNCHANGED <<taskVars, target, removed, uses>>

\* Starting the action raised.
Fail(r) ==
    /\ up /\ status[r] = "none" /\ target[r] # Unknown
    /\ proc[r] = "none" /\ r \notin spawning
    /\ Respond(r, "error")
    /\ UNCHANGED <<taskVars, registry, target, removed, uses>>

----------------------------------------------------------------------------
(* The remote_trigger tool *)

CreateTrigger(t) ==
    /\ up /\ uses < MaxUses /\ t \notin DOMAIN registry \union removed
    /\ registry' = [u \in DOMAIN registry \union {t} |->
                      IF u = t THEN [enabled |-> TRUE, count |-> 0] ELSE registry[u]]
    /\ uses' = uses + 1
    /\ UNCHANGED <<taskVars, target, status, removed>>

DeleteTrigger(t) ==
    /\ up /\ uses < MaxUses /\ t \in DOMAIN registry
    /\ registry' = Restrict(registry, DOMAIN registry \ {t})
    /\ removed' = removed \union {t}
    /\ uses' = uses + 1
    /\ UNCHANGED <<taskVars, target, status>>
----------------------------------------------------------------------------
\* task_create.
CreateTask(t) == status[t] = "none" /\ Create(t) /\ UNCHANGED serverVars

Serve(r) == Count(r) \/ Fail(r)

TriggerNext ==
    \/ TaskNext /\ UNCHANGED serverVars
    \/ \E r \in Tasks : CreateTask(r) \/ Answer(r) \/ Refuse(r) \/ Serve(r)
    \/ \E r \in Tasks, t \in Triggers : Accept(r, t)
    \/ \E t \in Triggers : CreateTrigger(t) \/ DeleteTrigger(t)

TriggerSpec ==
    /\ TriggerInit /\ [][TriggerNext]_triggerVars
    /\ TaskFairness

----------------------------------------------------------------------------
(* Properties *)

\* The type of the variables.
TriggerTypeOK ==
    /\ TaskTypeOK
    /\ DOMAIN registry \subseteq Triggers
    /\ \A t \in DOMAIN registry : registry[t] \in [enabled : BOOLEAN, count : Nat]
    /\ target \in [Tasks -> {Unknown} \union [trigger : Triggers, enabled : {TRUE}, count : Nat]]
    /\ status \in [Tasks -> {"none", "ok", "refused", "error"}]
    /\ removed \subseteq Triggers /\ uses \in 0..MaxUses

\* Whatever requests and tool calls run side by side: a request that is refused
\* has started nothing, one that is accepted has; a trigger never counts more
\* firings than it had; and one that was deleted is there again only for a
\* request it had accepted before (server.py:111-166).
TriggersAnswerTruly ==
    /\ \A r \in Tasks :
         /\ status[r] = "refused" => record[r] = "none"
         /\ status[r] = "ok" /\ target[r] # Unknown => proc[r] # "none"
    /\ \A t \in DOMAIN registry :
         LET firings == {r \in Tasks : target[r].trigger = t /\ proc[r] # "none"} IN
         /\ registry[t].count <= Cardinality(firings)
         /\ t \in removed => \E r \in firings : status[r] = "ok"
=============================================================================
