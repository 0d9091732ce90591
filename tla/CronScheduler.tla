--------------------------- MODULE CronScheduler ---------------------------
(***************************************************************************)
(* Scheduled jobs: the store (cron/store.py), a JSON file that every       *)
(* process loads, changes and writes back; the scheduler (cron/scheduler.py)*)
(* in its process; and the tools of a session that create, delete and      *)
(* toggle jobs (tools/cron_*_tool.py).                                     *)
(*                                                                         *)
(* Processes share the file and nothing else.  A process may be killed     *)
(* between any two steps, and starts anew with what the file holds.  Two   *)
(* schedulers may serve together: when, is the module SchedulerDaemon's    *)
(* subject.  What a job does when it fires (a command, a workflow, a    *)
(* request) is left out; only that it was fired, and for which due time.   *)
(***************************************************************************)
EXTENDS Integers, FiniteSets, Functions

CONSTANTS
    Jobs,
    Schedule,      \* job -> "once", "interval", "cron" or "invalid" (a bad expression)
    At,            \* time of the one-shot jobs
    Period,        \* seconds of an interval, and of the expressions
    Daemons,       \* process ids of schedulers
    MaxTime,       \* bound: the last moment of the clock
    MaxOps,        \* bound: operations of the session
    MaxEnds        \* bound: schedulers stopped or killed

Times == 0..MaxTime + Period
Never == -1
Session == "session"
None == "none"
Processes == Daemons \union {Session}

ASSUME CronAssumption ==
    /\ Schedule \in [Jobs -> {"once", "interval", "cron", "invalid"}]
    /\ MaxTime \in Nat /\ Period \in Nat \ {0} /\ At \in 0..MaxTime
    /\ MaxOps \in Nat /\ MaxEnds \in Nat
    /\ Session \notin Daemons /\ Jobs \intersect Daemons = {}

VARIABLES
    clock,
    file,        \* the records in the store's file
    op,          \* the store operation each process is in
    dpc,         \* "off", "asleep", "tick" or "fired"
    stopping,    \* schedulers whose _running is False
    todo,        \* the jobs of the tick a scheduler has still to look at
    now,         \* `now` of its tick
    job,         \* the job it fires, or None
    held,        \* the record the session is about to toggle, by job
    created,     \* jobs created and, of them, deleted
    deleted,
    fired,       \* history: firings of each job by due time while `clean`, up to 2
    clean,       \* history: no kill, no two schedulers, and no two operations on
                 \* the file at the same time
    ops, ends

daemonVars == <<dpc, stopping, todo, now, job>>
toolVars == <<held, created, deleted, ops>>
historyVars == <<fired, clean, ends>>
vars == <<clock, file, op, daemonVars, toolVars, historyVars>>

Records == [enabled : BOOLEAN, last : Times \union {Never},
            next : Times \union {Never}, runs : 0..2]
Stores == UNION {[known -> Records] : known \in SUBSET Jobs}
Empty == [j \in {} |-> Never]
Idle == [stage |-> "idle", data |-> Empty]

Put(records, j, r) == [i \in DOMAIN records \union {j} |-> IF i = j THEN r ELSE records[i]]
Without(records, j) == Restrict(records, DOMAIN records \ {j})

Init ==
    /\ clock = 0
    /\ file = Empty /\ op = [p \in Processes |-> Idle]
    /\ dpc = [d \in Daemons |-> "off"] /\ stopping = {}
    /\ todo = [d \in Daemons |-> Empty] /\ now = [d \in Daemons |-> 0]
    /\ job = [d \in Daemons |-> None]
    /\ held = Empty /\ created = {} /\ deleted = {}
    /\ fired = [j \in Jobs |-> [t \in Times |-> 0]]
    /\ clean = TRUE
    /\ ops = 0 /\ ends = 0

----------------------------------------------------------------------------
(* When a job is due *)

NextRun(j, r) ==
    CASE Schedule[j] = "once" -> IF r.runs = 0 /\ At > clock THEN At ELSE Never
      [] Schedule[j] = "interval" -> IF r.last = Never THEN clock ELSE r.last + Period
      [] Schedule[j] = "cron" ->
            LET base == IF r.last = Never THEN clock ELSE r.last
            IN  (base \div Period + 1) * Period
      [] Schedule[j] = "invalid" -> Never

----------------------------------------------------------------------------
(* The store: load, truncate, write *)

\* No other process is in an operation that it has loaded the file for.
Alone(p) == (\A q \in Processes \ {p} : op[q] = Idle) /\ (p = Session \/ held = Empty)

Begin(p, records) ==
    /\ op' = [op EXCEPT ![p] = [stage |-> "loaded", data |-> records]]
    /\ clean' = (clean /\ Alone(p))

\* Variant: the records of the tick are written instead of those of the file.
SaveTick(p, j, r) ==
    Begin(p, Put(IF p = Session THEN file ELSE todo[p], j, r))

Save(p, j, r) == Begin(p, Put(file, j, r))

\* write_text empties the file before it writes, and _load_all takes a file
\* that is missing or cannot be parsed for one without records.
Truncate(p) ==
    /\ op[p].stage = "loaded"
    /\ file' = Empty
    /\ op' = [op EXCEPT ![p].stage = "truncated"]
    /\ UNCHANGED <<clock, daemonVars, toolVars, historyVars>>

Write(p) ==
    /\ op[p].stage = "truncated"
    /\ file' = op[p].data
    /\ op' = [op EXCEPT ![p] = Idle]
    /\ UNCHANGED <<clock, daemonVars, toolVars, historyVars>>

----------------------------------------------------------------------------
(* The daemon *)

Running == {d \in Daemons : dpc[d] # "off"}

Start(d) ==
    /\ dpc[d] = "off"
    /\ dpc' = [dpc EXCEPT ![d] = "asleep"]
    /\ clean' = (clean /\ Running = {})
    /\ UNCHANGED <<clock, file, op, stopping, todo, now, job, toolVars, fired, ends>>

\* SIGTERM: _running is cleared.
Stop(d) ==
    /\ d \in Running /\ ends < MaxEnds
    /\ stopping' = stopping \union {d}
    /\ ends' = ends + 1
    /\ UNCHANGED <<clock, file, op, dpc, todo, now, job, toolVars, fired, clean>>

\* run() returns after the tick it is in.
Leave(d) ==
    /\ dpc[d] = "asleep" /\ d \in stopping
    /\ dpc' = [dpc EXCEPT ![d] = "off"]
    /\ stopping' = stopping \ {d}
    /\ UNCHANGED <<clock, file, op, todo, now, job, toolVars, historyVars>>

Kill(d) ==
    /\ d \in Running /\ ends < MaxEnds
    /\ dpc' = [dpc EXCEPT ![d] = "off"]
    /\ stopping' = stopping \ {d}
    /\ todo' = [todo EXCEPT ![d] = Empty]
    /\ op' = [op EXCEPT ![d] = Idle]
    /\ now' = [now EXCEPT ![d] = 0] /\ job' = [job EXCEPT ![d] = None]
    /\ ends' = ends + 1 /\ clean' = FALSE
    /\ UNCHANGED <<clock, file, toolVars, fired>>

----------------------------------------------------------------------------
(* The scheduler: a tick looks at the jobs that were enabled when it began *)

Tick(d) ==
    /\ dpc[d] = "asleep" /\ d \notin stopping
    /\ dpc' = [dpc EXCEPT ![d] = "tick"]
    /\ todo' = [todo EXCEPT ![d] = Restrict(file, {j \in DOMAIN file : file[j].enabled})]
    /\ now' = [now EXCEPT ![d] = clock]
    /\ clean' = (clean /\ \A p \in Processes : op[p].stage # "truncated")
    /\ UNCHANGED <<clock, file, op, stopping, job, toolVars, fired, ends>>

\* The due time of a job, computed and saved when the record has none.
Plan(d, j) ==
    LET r == [todo[d][j] EXCEPT !.next = NextRun(j, todo[d][j])] IN
    /\ todo[d][j].next = Never
    /\ IF r.next = Never
         THEN todo' = [todo EXCEPT ![d] = Without(@, j)] /\ UNCHANGED <<op, clean>>
         ELSE todo' = [todo EXCEPT ![d][j] = r] /\ Save(d, j, r)
    /\ UNCHANGED <<dpc, job, fired>>

Skip(d, j) ==
    /\ todo[d][j].next > now[d]
    /\ todo' = [todo EXCEPT ![d] = Without(@, j)]
    /\ UNCHANGED <<op, dpc, job, fired, clean>>

\* The action runs, or raises before it has done anything.
Fire(d, j) ==
    /\ todo[d][j].next \in 0..now[d]
    /\ dpc' = [dpc EXCEPT ![d] = "fired"]
    /\ job' = [job EXCEPT ![d] = j]
    /\ \/ clean /\ fired' = [fired EXCEPT ![j][todo[d][j].next] = IF @ = 2 THEN 2 ELSE @ + 1]
       \/ UNCHANGED fired
    /\ UNCHANGED <<op, todo, clean>>

Look(d) ==
    /\ dpc[d] = "tick" /\ op[d] = Idle
    /\ \E j \in DOMAIN todo[d] : Plan(d, j) \/ Skip(d, j) \/ Fire(d, j)
    /\ UNCHANGED <<clock, file, stopping, now, toolVars, ends>>

\* Variant: the run is recorded in memory only.
ForgetRun(d) ==
    /\ dpc[d] = "fired"
    /\ todo' = [todo EXCEPT ![d] = Without(@, job[d])]
    /\ dpc' = [dpc EXCEPT ![d] = "tick"] /\ job' = [job EXCEPT ![d] = None]
    /\ UNCHANGED <<clock, file, op, stopping, now, toolVars, historyVars>>

\* What is saved is the record as it was when the tick began.
RecordRun(d) ==
    LET j == job[d]
        ran == [todo[d][j] EXCEPT !.last = clock, !.runs = IF @ = 2 THEN 2 ELSE @ + 1]
    IN
    /\ dpc[d] = "fired"
    /\ Save(d, j, [ran EXCEPT !.next = NextRun(j, ran)])
    /\ todo' = [todo EXCEPT ![d] = Without(@, j)]
    /\ job' = [job EXCEPT ![d] = None]
    /\ dpc' = [dpc EXCEPT ![d] = "tick"]
    /\ UNCHANGED <<clock, file, stopping, now, toolVars, fired, ends>>

EndTick(d) ==
    /\ dpc[d] = "tick" /\ op[d] = Idle /\ todo[d] = Empty
    /\ dpc' = [dpc EXCEPT ![d] = "asleep"]
    /\ now' = [now EXCEPT ![d] = 0]
    /\ UNCHANGED <<clock, file, op, stopping, todo, job, toolVars, historyVars>>

----------------------------------------------------------------------------
(* The tools of the session *)

Call == ops < MaxOps /\ op[Session] = Idle /\ held = Empty /\ ops' = ops + 1

CreateJob(j) ==
    LET new == [enabled |-> TRUE, last |-> Never, next |-> Never, runs |-> 0] IN
    /\ Call /\ j \notin created
    /\ Save(Session, j, [new EXCEPT !.next = NextRun(j, new)])
    /\ created' = created \union {j}
    /\ UNCHANGED <<clock, file, daemonVars, held, deleted, fired, ends>>

DeleteJob(j) ==
    /\ Call /\ j \in DOMAIN file
    /\ Begin(Session, Without(file, j))
    /\ deleted' = deleted \union {j}
    /\ UNCHANGED <<clock, file, daemonVars, held, created, fired, ends>>

GetJob(j) ==
    /\ Call /\ j \in DOMAIN file
    /\ held' = [i \in {j} |-> file[j]]
    /\ clean' = (clean /\ Alone(Session))
    /\ UNCHANGED <<clock, file, op, daemonVars, created, deleted, fired, ends>>

ToggleJob ==
    /\ \E j \in DOMAIN held, enabled \in BOOLEAN :
         Save(Session, j, [held[j] EXCEPT !.enabled = enabled])
    /\ held' = Empty
    /\ UNCHANGED <<clock, file, daemonVars, created, deleted, ops, fired, ends>>

----------------------------------------------------------------------------
Pass ==
    /\ clock < MaxTime
    /\ clock' = clock + 1
    /\ UNCHANGED <<file, op, daemonVars, toolVars, historyVars>>

Run(d) ==
    \/ Leave(d) \/ Tick(d) \/ Look(d) \/ RecordRun(d) \/ EndTick(d)
    \/ Truncate(d) \/ Write(d)

Next ==
    \/ \E d \in Daemons : Start(d) \/ Run(d) \/ Stop(d) \/ Kill(d)
    \/ Truncate(Session) \/ Write(Session) \/ ToggleJob
    \/ \E j \in Jobs : CreateJob(j) \/ DeleteJob(j) \/ GetJob(j)
    \/ Pass

\* A scheduler that runs goes on: its sleeps end, and so do the actions it
\* awaits, which start a process or end with a timeout.
Spec ==
    /\ Init /\ [][Next]_vars
    /\ \A d \in Daemons : WF_vars(Run(d))
    /\ WF_vars(Truncate(Session) \/ Write(Session) \/ ToggleJob)

----------------------------------------------------------------------------
(* Properties *)

\* The type of the variables.
TypeOK ==
    /\ clock \in 0..MaxTime
    /\ file \in Stores /\ held \in Stores
    /\ op \in [Processes -> [stage : {"idle", "loaded", "truncated"}, data : Stores]]
    /\ dpc \in [Daemons -> {"off", "asleep", "tick", "fired"}]
    /\ stopping \subseteq Running
    /\ todo \in [Daemons -> Stores] /\ now \in [Daemons -> 0..MaxTime]
    /\ job \in [Daemons -> Jobs \union {None}]
    /\ created \subseteq Jobs /\ deleted \subseteq Jobs
    /\ fired \in [Jobs -> [Times -> 0..2]]
    /\ clean \in BOOLEAN
    /\ ops \in 0..MaxOps /\ ends \in 0..MaxEnds

\* A job fires at most once for each time it is due: a one-shot once, whatever
\* is created, deleted and toggled while it fires.  Only a scheduler that is
\* killed before it has saved the run, a second scheduler, or two processes that
\* work on the file at the same time, make it fire again (scheduler.py:74-137).
FiresOncePerDueTime ==
    clean => \A j \in Jobs, t \in Times : fired[j][t] <= 1

\* A job is in the file from its creation to its deletion, unless two
\* processes work on the file at the same time, two schedulers serve, or one is
\* killed (store.py:19-51).
JobsPersist ==
    clean /\ (\A p \in Processes : op[p] = Idle) =>
        created \ deleted \subseteq DOMAIN file

\* A job that is due is fired, or at least tried, as long as a scheduler runs
\* (scheduler.py:60-101).
Due(j) == j \in DOMAIN file /\ file[j].enabled /\ file[j].next \in 0..clock

DueJobsFire ==
    \A j \in Jobs : Due(j) ~> ~ Due(j) \/ Running \subseteq stopping

\* "Delete a scheduled cron job by its ID." (cron_delete_tool.py:20): a deleted
\* job is gone.  The scheduler that fires it meanwhile saves it again
\* (scheduler.py:137).
DeletedStayDeleted ==
    clean /\ (\A p \in Processes : op[p] = Idle) => deleted \intersect DOMAIN file = {}

\* "Run once at a specific time" (docs/scheduling.md:22): a one-shot is not fired
\* a second time.  It is, by the next scheduler, when one is killed before it has
\* saved the run (scheduler.py:109, 137).
OneShotsRunOnce ==
    [][\A d \in Daemons, j \in Jobs :
         Schedule[j] = "once" /\ job[d] # j /\ job'[d] = j =>
            \A t \in Times : fired[j][t] = 0]_vars
=============================================================================
