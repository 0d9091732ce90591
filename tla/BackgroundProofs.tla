-------------------------- MODULE BackgroundProofs --------------------------
(***************************************************************************)
(* What runs beside a session: background tasks and the webhooks that      *)
(* start them (TriggerServer, with its TaskManager), the scheduler with    *)
(* its store (CronScheduler), and the processes around its pid file        *)
(* (SchedulerDaemon).  They share no state; each has an inductive          *)
(* invariant of its own.                                                   *)
(*                                                                         *)
(* The theorems hold for every set of tasks, triggers, jobs and schedulers *)
(* and for any number of operations.  No set of them need be finite: what  *)
(* is counted are the tasks that were started, of which there is always a  *)
(* finite number.                                                          *)
(***************************************************************************)
EXTENDS TriggerServer, CronScheduler, SchedulerDaemon, FiniteSetTheorems, TLAPS

----------------------------------------------------------------------------
(* The life of a task *)

\* What the record of a task owes to its process.
RecordIsTrue(t) ==
    /\ record[t] = "running" /\ proc[t] # "none" /\ up => t \in tracked
    /\ record[t] = "completed" => proc[t] = "exited" /\ code[t] = 0 /\ exitCode[t] = 0
    /\ record[t] = "failed" => proc[t] = "exited" /\ code[t] = 1 /\ exitCode[t] = 1
    /\ record[t] = "killed" =>
         \/ proc[t] = "exited" /\ (code[t] = Signalled \/ signals[t] # "none")
         \/ proc[t] = "alive" /\ signals[t] = "kill"

\* The coroutines of a task exist with its process, and a signal before them.
LifeIsInOrder(t) ==
    /\ t \in spawning => up /\ record[t] = "running" /\ proc[t] = "none"
    /\ record[t] = "none" => proc[t] = "none"
    /\ proc[t] = "none" =>
         /\ record[t] \in {"none", "running"}
         /\ t \notin tracked /\ monitor[t] = "none" /\ signals[t] = "none"
    /\ proc[t] = "exited" => code[t] \in {0, 1, Signalled}
    /\ monitor[t] \in {"reading", "reaping"} => up
    /\ t \in tracked => record[t] = "running"
    /\ stopper[t] = "waiting" => signals[t] # "none"

TasksAreTrue ==
    \A t \in Tasks : LifeIsInOrder(t) /\ (t \notin torn => RecordIsTrue(t))

TaskInv == TaskTypeOK /\ TasksAreTrue

LEMMA TaskInitEstablishes == TaskInit => TaskInv
  BY DEF TaskInit, TaskInv, TaskTypeOK, TasksAreTrue, LifeIsInOrder, RecordIsTrue,
         Codes, NoCode, Final, Signalled

LEMMA TaskStutterPreserves == TaskInv /\ UNCHANGED taskVars => TaskInv'
  BY DEF taskVars, procVars, TaskInv, TaskTypeOK, TasksAreTrue, LifeIsInOrder, RecordIsTrue

\* The start of a task, whoever starts it.
LEMMA CreatePreserves ==
    ASSUME TaskInv, NEW t \in Tasks, Create(t)
    PROVE  TaskInv'
  <1> USE DEF TaskInv, Create, procVars
  <1>1. TaskTypeOK'
    BY DEF TaskTypeOK
  <1>2. TasksAreTrue'
    BY DEF TaskTypeOK, TasksAreTrue, LifeIsInOrder, RecordIsTrue
  <1> QED
    BY <1>1, <1>2

LEMMA SpawnPreserves ==
    ASSUME TaskInv, NEW t \in Tasks, Spawn(t) \/ FailSpawn(t)
    PROVE  TaskInv'
  <1> USE DEF TaskInv, procVars
  <1>1. CASE Spawn(t)
    <2>1. TaskTypeOK'
      BY <1>1 DEF Spawn, TaskTypeOK
    <2>2. TasksAreTrue'
      BY <1>1 DEF Spawn, TaskTypeOK, TasksAreTrue, LifeIsInOrder, RecordIsTrue
    <2> QED
      BY <2>1, <2>2
  <1>2. CASE FailSpawn(t)
    BY <1>2 DEF FailSpawn, TaskTypeOK, TasksAreTrue, LifeIsInOrder, RecordIsTrue
  <1> QED
    BY <1>1, <1>2

\* The monitor writes what the process returned, unless it meets a line that
\* is too long.
LEMMA MonitorPreserves ==
    ASSUME TaskInv, NEW t \in Tasks, Manage(t) \/ MonitorOverlong(t)
    PROVE  TaskInv'
  <1> USE DEF TaskInv, procVars
  <1>1. CASE MonitorEof(t)
    BY <1>1 DEF MonitorEof, TaskTypeOK, TasksAreTrue, LifeIsInOrder, RecordIsTrue
  <1>v. Verdict(t) \in Final
    BY DEF Verdict, Final
  <1>2. CASE MonitorReap(t)
    <2>1. TaskTypeOK'
      BY <1>2, <1>v DEF MonitorReap, Conclude, TaskTypeOK
    <2>2. ASSUME NEW u \in Tasks
          PROVE  LifeIsInOrder(u)' /\ (u \notin torn' => RecordIsTrue(u)')
      <3>1. CASE u = t
        <4>1. code[t] \in {0, 1, Signalled}
          BY <1>2 DEF MonitorReap, TasksAreTrue, LifeIsInOrder
        <4>2. record'[t] = Verdict(t) /\ exitCode'[t] = code[t]
          BY <1>2 DEF MonitorReap, Conclude, TaskTypeOK
        <4>3. CASE code[t] = 0
          BY <1>2, <3>1, <4>2, <4>3
             DEF Verdict, MonitorReap, Conclude, TaskTypeOK, TasksAreTrue, LifeIsInOrder,
                 RecordIsTrue, Signalled
        <4>4. CASE code[t] = 1
          BY <1>2, <3>1, <4>2, <4>4
             DEF Verdict, MonitorReap, Conclude, TaskTypeOK, TasksAreTrue, LifeIsInOrder,
                 RecordIsTrue, Signalled
        <4>5. CASE code[t] = Signalled
          BY <1>2, <3>1, <4>1, <4>2, <4>5
             DEF Verdict, MonitorReap, Conclude, TaskTypeOK, TasksAreTrue, LifeIsInOrder,
                 RecordIsTrue, Signalled
        <4> QED
          BY <4>1, <4>3, <4>4, <4>5
      <3>2. CASE u # t
        BY <1>2, <3>2 DEF MonitorReap, Conclude, TaskTypeOK, TasksAreTrue, LifeIsInOrder, RecordIsTrue
      <3> QED
        BY <3>1, <3>2
    <2> QED
      BY <2>1, <2>2 DEF TasksAreTrue
  <1>3. CASE MonitorOverlong(t)
    <2>1. TaskTypeOK'
      BY <1>3, <1>v DEF MonitorOverlong, Conclude, TaskTypeOK
    <2>2. TasksAreTrue'
      BY <1>3, <1>v DEF MonitorOverlong, Conclude, TaskTypeOK, TasksAreTrue, LifeIsInOrder,
          RecordIsTrue, Final
    <2> QED
      BY <2>1, <2>2
  <1> QED
    BY <1>1, <1>2, <1>3 DEF Manage

\* A process that is stopped has ended or is killed when the record says so.
LEMMA StopPreserves ==
    ASSUME TaskInv, NEW t \in Tasks, StopTask(t) \/ FinishStop(t)
    PROVE  TaskInv'
  <1> USE DEF TaskInv, procVars
  <1>1. CASE StopTask(t)
    <2>1. TaskTypeOK'
      BY <1>1 DEF StopTask, TaskTypeOK
    <2>2. TasksAreTrue'
      BY <1>1 DEF StopTask, TaskTypeOK, TasksAreTrue, LifeIsInOrder, RecordIsTrue
    <2> QED
      BY <2>1, <2>2
  <1>2. CASE FinishStop(t)
    <2>1. TaskTypeOK'
      BY <1>2 DEF FinishStop, TaskTypeOK, Final
    <2>2. TasksAreTrue'
      BY <1>2 DEF FinishStop, TaskTypeOK, TasksAreTrue, LifeIsInOrder, RecordIsTrue
    <2> QED
      BY <2>1, <2>2
  <1> QED
    BY <1>1, <1>2

LEMMA ProcessPreserves ==
    ASSUME TaskInv, NEW t \in Tasks, Exit(t) \/ CloseOutput(t)
    PROVE  TaskInv'
  <1> USE DEF TaskInv, procVars
  <1>1. CASE Exit(t)
    <2>1. PICK c \in {0, 1, Signalled} : code' = [code EXCEPT ![t] = c]
      BY <1>1 DEF Exit
    <2>2. piped' \in [Tasks -> BOOLEAN]
      BY <1>1 DEF Exit, TaskTypeOK
    <2>3. TaskTypeOK'
      BY <1>1, <2>1, <2>2 DEF Exit, TaskTypeOK, Codes, Signalled
    <2>4. TasksAreTrue'
      BY <1>1, <2>1 DEF Exit, TaskTypeOK, TasksAreTrue, LifeIsInOrder, RecordIsTrue
    <2> QED
      BY <2>3, <2>4
  <1>2. CASE CloseOutput(t)
    BY <1>2 DEF CloseOutput, TaskTypeOK, TasksAreTrue, LifeIsInOrder, RecordIsTrue
  <1> QED
    BY <1>1, <1>2

LEMMA EndManagerPreserves == ASSUME TaskInv, EndManager PROVE TaskInv'
  <1> USE DEF TaskInv, procVars
  <1>1. TaskTypeOK'
    BY DEF EndManager, TaskTypeOK
  <1>2. TasksAreTrue'
    BY DEF EndManager, TaskTypeOK, TasksAreTrue, LifeIsInOrder, RecordIsTrue
  <1> QED
    BY <1>1, <1>2

LEMMA TaskStepPreserves == ASSUME TaskInv, TaskNext PROVE TaskInv'
  <1>1. CASE EndManager
    BY <1>1, EndManagerPreserves
  <1>2. ASSUME NEW t \in Tasks, Spawn(t) \/ FailSpawn(t)
        PROVE  TaskInv'
    BY <1>2, SpawnPreserves
  <1>3. ASSUME NEW t \in Followed,
               \/ Manage(t) \/ MonitorOverlong(t) \/ StopTask(t) \/ FinishStop(t)
               \/ Exit(t) \/ CloseOutput(t)
        PROVE  TaskInv'
    <2>1. t \in Tasks
      BY FollowedAssumption
    <2> QED
      BY <1>3, <2>1, MonitorPreserves, StopPreserves, ProcessPreserves
  <1> QED
    BY <1>1, <1>2, <1>3 DEF TaskNext

\* A record that exists goes on to exist, a process that has started has
\* started for good, and of those there is a finite number.
StartedIn(P) == {t \in Tasks : P[t] # "none"}

Started == StartedIn(proc)

LEMMA TaskStepKeeps ==
    ASSUME TaskInv, TaskNext
    PROVE  /\ \A r \in Tasks : record[r] = "none" <=> record'[r] = "none"
           /\ Started \subseteq Started'
           /\ IsFiniteSet(Started) => IsFiniteSet(Started')
  <1>1. ASSUME NEW t \in Tasks, Spawn(t)
        PROVE  UNCHANGED record /\ Started' = Started \union {t}
    BY <1>1 DEF TaskInv, TaskTypeOK, Spawn, Started, StartedIn
  <1>2. ASSUME NEW t \in Tasks, FailSpawn(t)
        PROVE  UNCHANGED record /\ Started' = Started
    BY <1>2 DEF FailSpawn, procVars, Started, StartedIn
  <1>3. ASSUME NEW t \in Followed, Manage(t) \/ MonitorOverlong(t)
        PROVE  /\ Started' = Started
               /\ \A r \in Tasks : record[r] = "none" <=> record'[r] = "none"
    <2>1. /\ t \in Tasks /\ monitor[t] \in {"reading", "reaping"}
          /\ UNCHANGED proc
          /\ record' = record \/ record' = [record EXCEPT ![t] = Verdict(t)]
      BY <1>3, FollowedAssumption
         DEF Manage, MonitorEof, MonitorReap, MonitorOverlong, Conclude, procVars
    <2>2. record[t] # "none" /\ Verdict(t) # "none"
      BY <2>1 DEF TaskInv, TasksAreTrue, LifeIsInOrder, Verdict
    <2> QED
      BY <2>1, <2>2 DEF TaskInv, TaskTypeOK, Started, StartedIn
  <1>4. ASSUME NEW t \in Followed, StopTask(t) \/ FinishStop(t)
        PROVE  /\ Started' = Started
               /\ \A r \in Tasks : record[r] = "none" <=> record'[r] = "none"
    <2>1. /\ t \in Tasks /\ UNCHANGED proc
          /\ \/ record' = record
             \/ stopper[t] = "waiting" /\ record' = [record EXCEPT ![t] = "killed"]
      BY <1>4, FollowedAssumption DEF StopTask, FinishStop, procVars
    <2>2. stopper[t] = "waiting" => record[t] # "none"
      BY <2>1 DEF TaskInv, TasksAreTrue, LifeIsInOrder
    <2> QED
      BY <2>1, <2>2 DEF TaskInv, TaskTypeOK, Started, StartedIn
  <1>5. ASSUME NEW t \in Followed, Exit(t) \/ CloseOutput(t)
        PROVE  UNCHANGED record /\ Started' = Started
    BY <1>5, FollowedAssumption DEF TaskInv, TaskTypeOK, Exit, CloseOutput, Started, StartedIn
  <1>6. ASSUME EndManager PROVE UNCHANGED record /\ Started' = Started
    BY <1>6 DEF EndManager, procVars, Started
  <1>7. \/ \E t \in Tasks : UNCHANGED record /\ Started' = Started \union {t}
        \/ Started' = Started /\ \A r \in Tasks : record[r] = "none" <=> record'[r] = "none"
    BY <1>1, <1>2, <1>3, <1>4, <1>5, <1>6 DEF TaskNext
  <1> QED
    BY <1>7, FS_AddElement

----------------------------------------------------------------------------
(* Requests and what they count *)

\* The firings of trigger u, where P are the processes and T the targets.
FiringsOf(P, T, u) == {r \in Tasks : T[r].trigger = u /\ P[r] # "none"}

Firings(u) == FiringsOf(proc, target, u)

RequestsAreTrue ==
    \A r \in Tasks :
        /\ record[r] = "none" => target[r] = Unknown
        /\ status[r] = "refused" => record[r] = "none"
        /\ status[r] = "ok" /\ target[r] # Unknown => proc[r] # "none"

\* A request counts itself: what it has read counts the others at most.
CountsAreTrue ==
    /\ \A u \in DOMAIN registry :
         /\ registry[u].count <= Cardinality(Firings(u))
         /\ u \in removed => \E r \in Firings(u) : status[r] = "ok"
    /\ \A r \in Tasks :
         target[r] # Unknown =>
             target[r].count <= Cardinality(Firings(target[r].trigger) \ {r})

TriggerInv ==
    /\ TaskInv /\ TriggerTypeOK
    /\ RequestsAreTrue /\ CountsAreTrue /\ IsFiniteSet(Started)

LEMMA FiringsAreFinite ==
    ASSUME NEW P, NEW T, NEW u, IsFiniteSet(StartedIn(P))
    PROVE  /\ IsFiniteSet(FiringsOf(P, T, u))
           /\ \A r : IsFiniteSet(FiringsOf(P, T, u) \ {r})
  <1>1. FiringsOf(P, T, u) \subseteq StartedIn(P)
    BY DEF FiringsOf, StartedIn
  <1>2. IsFiniteSet(FiringsOf(P, T, u))
    BY <1>1, FS_Subset
  <1>3. ASSUME NEW r PROVE IsFiniteSet(FiringsOf(P, T, u) \ {r})
    BY <1>2, FS_Subset
  <1> QED
    BY <1>2, <1>3

\* Firings are never fewer: what has started keeps its target.
Kept(P, Q, T, U) ==
    \A r \in Tasks : P[r] # "none" => Q[r] # "none" /\ U[r] = T[r]

LEMMA FiringsGrow ==
    ASSUME NEW P, NEW Q, NEW T, NEW U, NEW u,
           IsFiniteSet(StartedIn(Q)),
           Kept(P, Q, T, U)
    PROVE  /\ FiringsOf(P, T, u) \subseteq FiringsOf(Q, U, u)
           /\ Cardinality(FiringsOf(P, T, u)) \in Nat
           /\ Cardinality(FiringsOf(Q, U, u)) \in Nat
           /\ Cardinality(FiringsOf(P, T, u)) <= Cardinality(FiringsOf(Q, U, u))
           /\ \A r : /\ Cardinality(FiringsOf(P, T, u) \ {r}) \in Nat
                     /\ Cardinality(FiringsOf(Q, U, u) \ {r}) \in Nat
                     /\ Cardinality(FiringsOf(P, T, u) \ {r})
                          <= Cardinality(FiringsOf(Q, U, u) \ {r})
  <1>1. FiringsOf(P, T, u) \subseteq FiringsOf(Q, U, u)
    BY DEF FiringsOf, Kept
  <1>2. /\ IsFiniteSet(FiringsOf(Q, U, u))
        /\ \A r : IsFiniteSet(FiringsOf(Q, U, u) \ {r})
    BY FiringsAreFinite
  <1>3. /\ IsFiniteSet(FiringsOf(P, T, u))
        /\ Cardinality(FiringsOf(P, T, u)) <= Cardinality(FiringsOf(Q, U, u))
    BY <1>1, <1>2, FS_Subset
  <1>4. ASSUME NEW r
        PROVE  /\ Cardinality(FiringsOf(P, T, u) \ {r}) \in Nat
               /\ Cardinality(FiringsOf(Q, U, u) \ {r}) \in Nat
               /\ Cardinality(FiringsOf(P, T, u) \ {r})
                    <= Cardinality(FiringsOf(Q, U, u) \ {r})
    <2>1. FiringsOf(P, T, u) \ {r} \subseteq FiringsOf(Q, U, u) \ {r}
      BY <1>1
    <2> QED
      BY <1>2, <2>1, FS_Subset, FS_CardinalityType
  <1> QED
    BY <1>1, <1>2, <1>3, <1>4, FS_CardinalityType

\* What a step may do to the counts when it neither counts nor changes the
\* registry, but may start processes and find triggers.
LEMMA CountsPreserved ==
    ASSUME TriggerInv, TaskInv', TriggerTypeOK', IsFiniteSet(Started'),
           Started \subseteq Started',
           \A r \in Tasks : proc[r] # "none" => target'[r] = target[r],
           \A r \in Tasks :
               \/ target'[r] = target[r]
               \/ /\ target'[r].trigger \in DOMAIN registry /\ proc[r] = "none"
                  /\ target'[r].count = registry[target'[r].trigger].count,
           \A r \in Tasks : status[r] = "ok" => status'[r] = "ok",
           \A u \in DOMAIN registry' :
               /\ registry'[u].count = 0 \/ (u \in DOMAIN registry /\ registry'[u] = registry[u])
               /\ u \in removed' => u \in DOMAIN registry /\ u \in removed
    PROVE  CountsAreTrue'
  <1>1. /\ Started = StartedIn(proc) /\ Started' = StartedIn(proc')
    BY DEF Started, StartedIn
  <1>2. Kept(proc, proc', target, target')
    BY <1>1 DEF StartedIn, Kept
  <1>3. ASSUME NEW u
        PROVE  /\ Firings(u) \subseteq Firings(u)'
               /\ Cardinality(Firings(u)) \in Nat /\ Cardinality(Firings(u)') \in Nat
               /\ Cardinality(Firings(u)) <= Cardinality(Firings(u)')
               /\ \A r : /\ Cardinality(Firings(u) \ {r}) \in Nat
                         /\ Cardinality(Firings(u)' \ {r}) \in Nat
                         /\ Cardinality(Firings(u) \ {r}) <= Cardinality(Firings(u)' \ {r})
    <2>1. IsFiniteSet(StartedIn(proc'))
      BY <1>1
    <2>2. Firings(u) = FiringsOf(proc, target, u) /\ Firings(u)' = FiringsOf(proc', target', u)
      BY DEF Firings, FiringsOf
    <2> DEFINE now_ == FiringsOf(proc, target, u)
               next_ == FiringsOf(proc', target', u)
    <2>3. /\ now_ \subseteq next_
          /\ Cardinality(now_) \in Nat /\ Cardinality(next_) \in Nat
          /\ Cardinality(now_) <= Cardinality(next_)
          /\ \A r : /\ Cardinality(now_ \ {r}) \in Nat
                    /\ Cardinality(next_ \ {r}) \in Nat
                    /\ Cardinality(now_ \ {r}) <= Cardinality(next_ \ {r})
      BY <1>2, <2>1, FiringsGrow
    <2> HIDE DEF now_, next_
    <2>4. Firings(u) = now_ /\ Firings(u)' = next_
      BY <2>2 DEF now_, next_
    <2> QED
      BY <2>3, <2>4
  <1>4. ASSUME NEW u \in DOMAIN registry'
        PROVE  /\ registry'[u].count <= Cardinality(Firings(u)')
               /\ u \in removed' => \E r \in Firings(u)' : status'[r] = "ok"
    <2>1. registry'[u].count <= Cardinality(Firings(u)')
      <3>1. CASE registry'[u].count = 0
        BY <1>3, <3>1
      <3>2. CASE u \in DOMAIN registry /\ registry'[u] = registry[u]
        <4>1. registry[u].count <= Cardinality(Firings(u)) /\ registry[u].count \in Nat
          BY <3>2 DEF TriggerInv, CountsAreTrue, TriggerTypeOK
        <4> QED
          BY <1>3, <3>2, <4>1
      <3> QED
        BY <3>1, <3>2
    <2>2. ASSUME u \in removed'
          PROVE  \E r \in Firings(u)' : status'[r] = "ok"
      <3>1. PICK r \in Firings(u) : status[r] = "ok"
        BY <2>2 DEF TriggerInv, CountsAreTrue
      <3>2. r \in Tasks /\ r \in Firings(u)'
        BY <1>3 DEF Firings, FiringsOf
      <3> QED
        BY <3>1, <3>2
    <2> QED
      BY <2>1, <2>2
  <1>5. ASSUME NEW r \in Tasks, NEW u, target'[r] # Unknown, target'[r].trigger = u
        PROVE  target'[r].count <= Cardinality(Firings(u)' \ {r})
    <2>1. CASE target'[r] = target[r]
      <3>1. target[r].count <= Cardinality(Firings(u) \ {r}) /\ target[r].count \in Nat
        BY <1>5, <2>1 DEF TriggerInv, CountsAreTrue, TriggerTypeOK, Unknown
      <3>2. /\ Cardinality(Firings(u) \ {r}) \in Nat /\ Cardinality(Firings(u)' \ {r}) \in Nat
            /\ Cardinality(Firings(u) \ {r}) <= Cardinality(Firings(u)' \ {r})
        BY <1>3
      <3> QED
        BY <2>1, <3>1, <3>2
    <2>2. CASE /\ u \in DOMAIN registry /\ proc[r] = "none"
               /\ target'[r].count = registry[u].count
      <3>1. registry[u].count <= Cardinality(Firings(u)) /\ registry[u].count \in Nat
        BY <2>2 DEF TriggerInv, CountsAreTrue, TriggerTypeOK
      <3>2. Firings(u) \ {r} = Firings(u)
        BY <2>2 DEF Firings, FiringsOf
      <3>3. /\ Cardinality(Firings(u) \ {r}) \in Nat /\ Cardinality(Firings(u)' \ {r}) \in Nat
            /\ Cardinality(Firings(u) \ {r}) <= Cardinality(Firings(u)' \ {r})
        BY <1>3
      <3>4. Cardinality(Firings(u) \ {r}) = Cardinality(Firings(u))
        BY <3>2, Zenon
      <3> QED
        BY <2>2, <3>1, <3>3, <3>4
    <2> QED
      BY <1>5, <2>1, <2>2
  <1> QED
    BY <1>4, <1>5 DEF CountsAreTrue, Firings

----------------------------------------------------------------------------
(* The invariant of the server is inductive *)

LEMMA TriggerInitEstablishes == TriggerInit => TriggerInv
  <1> SUFFICES ASSUME TriggerInit PROVE TriggerInv
    OBVIOUS
  <1>1. TaskInv
    BY TaskInitEstablishes DEF TriggerInit
  <1>2. PICK known \in SUBSET Triggers : registry \in [known -> [enabled : BOOLEAN, count : {0}]]
    BY DEF TriggerInit
  <1>3. DOMAIN registry = known /\ \A u \in known : registry[u].count = 0
    BY <1>2
  <1>4. TriggerTypeOK
    BY <1>1, <1>2, TriggerAssumption DEF TriggerInit, TriggerTypeOK, TaskInv
  <1>5. RequestsAreTrue
    BY DEF TriggerInit, RequestsAreTrue
  <1>6. Started = {} /\ IsFiniteSet(Started)
    BY FS_EmptySet DEF TriggerInit, TaskInit, Started, StartedIn
  <1>7. ASSUME NEW u PROVE Cardinality(Firings(u)) = 0
    <2>1. Firings(u) = {}
      BY DEF TriggerInit, TaskInit, Firings, FiringsOf
    <2> QED
      BY <2>1, FS_EmptySet
  <1>8. CountsAreTrue
    BY <1>3, <1>7 DEF CountsAreTrue, TriggerInit
  <1> QED
    BY <1>1, <1>4, <1>5, <1>6, <1>8 DEF TriggerInv

LEMMA TriggerStutterPreserves == TriggerInv /\ UNCHANGED triggerVars => TriggerInv'
  <1> SUFFICES ASSUME TriggerInv, UNCHANGED triggerVars PROVE TriggerInv'
    OBVIOUS
  <1>1. TaskInv'
    BY TaskStutterPreserves DEF TriggerInv, triggerVars
  <1>2. UNCHANGED <<record, proc, registry, target, status, removed, uses>>
    BY DEF triggerVars, taskVars, procVars, serverVars
  <1>3. Started' = Started /\ RequestsAreTrue' /\ CountsAreTrue'
    BY <1>2 DEF TriggerInv, RequestsAreTrue, CountsAreTrue, Firings, FiringsOf, Started, StartedIn
  <1> QED
    BY <1>1, <1>2, <1>3 DEF TriggerInv, TriggerTypeOK, TaskInv

\* A step of the tasks, or the start of one that is no request.
LEMMA TaskActionPreserves ==
    ASSUME TriggerInv, TaskNext \/ (\E r \in Tasks : Create(r) /\ status[r] = "none"),
           UNCHANGED serverVars
    PROVE  TriggerInv'
  <1>1. UNCHANGED <<registry, target, status, removed, uses>>
    BY DEF serverVars
  <1>2. /\ TaskInv' /\ Started \subseteq Started' /\ IsFiniteSet(Started')
        /\ \A r \in Tasks : record'[r] = "none" => record[r] = "none"
        /\ \A r \in Tasks : status[r] = "refused" /\ record[r] = "none" => record'[r] = "none"
    <2>1. CASE TaskNext
      BY <2>1, TaskStepPreserves, TaskStepKeeps DEF TriggerInv
    <2>2. ASSUME NEW r \in Tasks, Create(r), status[r] = "none"
          PROVE  /\ TaskInv' /\ Started' = Started
                 /\ \A q \in Tasks : record'[q] = "none" => record[q] = "none"
                 /\ \A q \in Tasks : status[q] = "refused" /\ record[q] = "none" => record'[q] = "none"
      <3>1. TaskInv'
        BY <2>2, CreatePreserves DEF TriggerInv
      <3> QED
        BY <2>2, <3>1 DEF Create, procVars, TriggerInv, TaskInv, TaskTypeOK, Started, StartedIn
    <2> QED
      BY <2>1, <2>2 DEF TriggerInv
  <1>3. \A r \in Tasks : proc[r] # "none" => proc'[r] # "none"
    BY <1>2 DEF Started, StartedIn
  <1>4. TriggerTypeOK'
    BY <1>1, <1>2 DEF TriggerInv, TriggerTypeOK, TaskInv
  <1>5. RequestsAreTrue'
    BY <1>1, <1>2, <1>3 DEF TriggerInv, RequestsAreTrue
  <1>6. CountsAreTrue'
    BY <1>1, <1>2, <1>4, CountsPreserved
  <1> QED
    BY <1>2, <1>4, <1>5, <1>6 DEF TriggerInv

\* Steps of the server that leave the tasks alone.
LEMMA ServerKeepsTasks ==
    ASSUME TriggerInv, UNCHANGED taskVars
    PROVE  /\ TaskInv' /\ Started' = Started /\ IsFiniteSet(Started')
           /\ UNCHANGED <<record, proc>>
  <1>1. TaskInv'
    BY TaskStutterPreserves DEF TriggerInv
  <1> QED
    BY <1>1 DEF TriggerInv, taskVars, procVars, Started, StartedIn

\* An answer that says nothing of a trigger.
LEMMA AnswerPreserves ==
    ASSUME TriggerInv, NEW r \in Tasks, Answer(r) \/ Refuse(r) \/ Fail(r)
    PROVE  TriggerInv'
  <1>1. /\ UNCHANGED <<taskVars, registry, target, removed, uses>> /\ status[r] = "none"
        /\ \E s \in {"ok", "refused", "error"} :
             /\ status' = [status EXCEPT ![r] = s]
             /\ s = "refused" => record[r] = "none"
             /\ s = "ok" => target[r] = Unknown
    BY DEF Answer, Refuse, Fail, Respond, Waits, TriggerInv, RequestsAreTrue
  <1>2. /\ TaskInv' /\ Started' = Started /\ IsFiniteSet(Started')
        /\ UNCHANGED <<record, proc>>
    BY <1>1, ServerKeepsTasks
  <1>3. TriggerTypeOK'
    BY <1>1, <1>2 DEF TriggerInv, TriggerTypeOK, TaskInv
  <1>4. RequestsAreTrue'
    BY <1>1, <1>2, <1>3 DEF TriggerInv, TriggerTypeOK, RequestsAreTrue
  <1>5. \A q \in Tasks : status[q] = "ok" => status'[q] = "ok"
    BY <1>1 DEF TriggerInv, TriggerTypeOK
  <1>6. CountsAreTrue'
    BY <1>1, <1>2, <1>3, <1>5, CountsPreserved
  <1> QED
    BY <1>2, <1>3, <1>4, <1>6 DEF TriggerInv

\* A request finds its trigger, and the task it starts has no process yet.
LEMMA AcceptPreserves ==
    ASSUME TriggerInv, NEW r \in Tasks, NEW u \in Triggers, Accept(r, u)
    PROVE  TriggerInv'
  <1> DEFINE found == [trigger |-> u, enabled |-> TRUE, count |-> registry[u].count]
  <1>1. /\ u \in DOMAIN registry /\ target' = [target EXCEPT ![r] = found]
        /\ Create(r) /\ record[r] = "none" /\ proc[r] = "none" /\ status[r] = "none"
        /\ UNCHANGED <<registry, status, removed, uses, proc>>
    BY DEF Accept, Create, procVars, Waits, TriggerInv, TaskInv, TasksAreTrue, LifeIsInOrder
  <1>2. TaskInv' /\ Started' = Started /\ IsFiniteSet(Started')
    BY <1>1, CreatePreserves DEF TriggerInv, Started, StartedIn
  <1>3. /\ found \in [trigger : Triggers, enabled : {TRUE}, count : Nat]
        /\ found.trigger = u /\ found.count = registry[u].count
    BY <1>1 DEF TriggerInv, TriggerTypeOK
  <1> HIDE DEF found
  <1>4. \A q \in Tasks : target'[q] = IF q = r THEN found ELSE target[q]
    BY <1>1 DEF TriggerInv, TriggerTypeOK
  <1>5. TriggerTypeOK'
    BY <1>1, <1>2, <1>3 DEF TriggerInv, TriggerTypeOK, TaskInv
  <1>6. RequestsAreTrue'
    BY <1>1, <1>2, <1>4 DEF TriggerInv, RequestsAreTrue, Create, TaskInv, TaskTypeOK
  <1>7. /\ \A q \in Tasks : proc[q] # "none" => target'[q] = target[q]
        /\ \A q \in Tasks :
               \/ target'[q] = target[q]
               \/ /\ target'[q].trigger \in DOMAIN registry /\ proc[q] = "none"
                  /\ target'[q].count = registry[target'[q].trigger].count
    BY <1>1, <1>3, <1>4
  <1>8. CountsAreTrue'
    BY <1>1, <1>2, <1>5, <1>7, CountsPreserved
  <1> QED
    BY <1>2, <1>5, <1>6, <1>8 DEF TriggerInv

\* A request that counts is one of the firings, and what it read counted the
\* others at most.
LEMMA CountPreserves ==
    ASSUME TriggerInv, NEW r \in Tasks, Count(r)
    PROVE  TriggerInv'
  <1> DEFINE u == target[r].trigger
             counted == [enabled |-> TRUE, count |-> target[r].count + 1]
  <1>1. /\ UNCHANGED <<taskVars, target, removed, uses>>
        /\ status[r] = "none" /\ target[r] # Unknown /\ proc[r] # "none"
        /\ status' = [status EXCEPT ![r] = "ok"]
        /\ DOMAIN registry' = DOMAIN registry \union {u}
        /\ \A v \in DOMAIN registry' : registry'[v] = IF v = u THEN counted ELSE registry[v]
    BY DEF Count, Respond
  <1>2. /\ TaskInv' /\ Started' = Started /\ IsFiniteSet(Started')
        /\ UNCHANGED <<record, proc>>
    BY <1>1, ServerKeepsTasks
  <1>3. u \in Triggers /\ target[r].count \in Nat
    BY <1>1 DEF TriggerInv, TriggerTypeOK
  <1>4. counted \in [enabled : BOOLEAN, count : Nat] /\ counted.count = target[r].count + 1
    BY <1>3
  <1>5. \A q \in Tasks : status'[q] = IF q = r THEN "ok" ELSE status[q]
    BY <1>1 DEF TriggerInv, TriggerTypeOK
  <1>6. /\ r \in Firings(u)
        /\ target[r].count <= Cardinality(Firings(u) \ {r})
    BY <1>1 DEF Firings, FiringsOf, TriggerInv, CountsAreTrue
  <1> HIDE DEF u, counted
  <1>7. TriggerTypeOK'
    BY <1>1, <1>2, <1>3, <1>4 DEF TriggerInv, TriggerTypeOK, TaskInv
  <1>8. RequestsAreTrue'
    BY <1>1, <1>2, <1>5 DEF TriggerInv, RequestsAreTrue
  <1>9. target[r].count + 1 <= Cardinality(Firings(u))
    <2>1. IsFiniteSet(Firings(u))
      BY FiringsAreFinite DEF TriggerInv, Firings, Started
    <2>2. /\ Cardinality(Firings(u)) \in Nat
          /\ Cardinality(Firings(u) \ {r}) = Cardinality(Firings(u)) - 1
      BY <1>6, <2>1, FS_RemoveElement, FS_CardinalityType
    <2> QED
      BY <1>3, <1>6, <2>2
  <1>10. \A v : Firings(v)' = Firings(v)
    BY <1>1, <1>2 DEF Firings, FiringsOf
  <1>11. ASSUME NEW v \in DOMAIN registry'
         PROVE  /\ registry'[v].count <= Cardinality(Firings(v)')
                /\ v \in removed' => \E q \in Firings(v)' : status'[q] = "ok"
    <2>1. CASE v = u
      <3>1. registry'[v].count <= Cardinality(Firings(v))
        BY <1>1, <1>4, <1>9, <2>1
      <3>2. \E q \in Firings(v) : status'[q] = "ok"
        BY <1>5, <1>6, <2>1
      <3> QED
        BY <1>10, <3>1, <3>2
    <2>2. CASE v # u
      <3>1. v \in DOMAIN registry /\ registry'[v] = registry[v]
        BY <1>1, <2>2
      <3>2. /\ registry[v].count <= Cardinality(Firings(v))
            /\ v \in removed => \E q \in Firings(v) : status[q] = "ok"
        BY <3>1 DEF TriggerInv, CountsAreTrue
      <3>3. v \in removed' => \E q \in Firings(v) : status'[q] = "ok"
        BY <1>1, <1>5, <3>2 DEF Firings, FiringsOf
      <3> QED
        BY <1>10, <3>1, <3>2, <3>3
    <2> QED
      BY <2>1, <2>2
  <1>12. ASSUME NEW q \in Tasks, NEW v, target'[q] # Unknown, target'[q].trigger = v
         PROVE  target'[q].count <= Cardinality(Firings(v)' \ {q})
    <2>1. target[q].count <= Cardinality(Firings(v) \ {q})
      BY <1>1, <1>12 DEF TriggerInv, CountsAreTrue
    <2> QED
      BY <1>1, <1>10, <2>1
  <1>13. CountsAreTrue'
    BY <1>11, <1>12 DEF CountsAreTrue, Firings
  <1> QED
    BY <1>2, <1>7, <1>8, <1>13 DEF TriggerInv

\* The session's tool: a new trigger counts nothing, and none has the name of
\* one that was deleted.
LEMMA ToolPreserves ==
    ASSUME TriggerInv, NEW u \in Triggers, CreateTrigger(u) \/ DeleteTrigger(u)
    PROVE  TriggerInv'
  <1>1. UNCHANGED <<taskVars, target, status>> /\ uses < MaxUses /\ uses' = uses + 1
    BY DEF CreateTrigger, DeleteTrigger
  <1>2. /\ TaskInv' /\ Started' = Started /\ IsFiniteSet(Started')
        /\ UNCHANGED <<record, proc>>
    BY <1>1, ServerKeepsTasks
  <1>3. /\ DOMAIN registry' \subseteq Triggers /\ removed' \subseteq Triggers
        /\ \A v \in DOMAIN registry' :
               /\ registry'[v] \in [enabled : BOOLEAN, count : Nat]
               /\ registry'[v].count = 0 \/ (v \in DOMAIN registry /\ registry'[v] = registry[v])
               /\ v \in removed' => v \in DOMAIN registry /\ v \in removed
    <2>1. CASE CreateTrigger(u)
      <3> DEFINE new == [enabled |-> TRUE, count |-> 0]
      <3>1. /\ u \notin DOMAIN registry /\ u \notin removed /\ removed' = removed
            /\ DOMAIN registry' = DOMAIN registry \union {u}
            /\ \A v \in DOMAIN registry' : registry'[v] = IF v = u THEN new ELSE registry[v]
        BY <2>1 DEF CreateTrigger
      <3>2. new \in [enabled : BOOLEAN, count : Nat] /\ new.count = 0
        OBVIOUS
      <3> HIDE DEF new
      <3> QED
        BY <3>1, <3>2 DEF TriggerInv, TriggerTypeOK
    <2>2. CASE DeleteTrigger(u)
      <3>1. /\ DOMAIN registry' = DOMAIN registry \ {u} /\ removed' = removed \union {u}
            /\ \A v \in DOMAIN registry' : registry'[v] = registry[v]
        BY <2>2 DEF DeleteTrigger, Restrict
      <3> QED
        BY <3>1 DEF TriggerInv, TriggerTypeOK
    <2> QED
      BY <2>1, <2>2
  <1>4. uses' \in 0..MaxUses
    BY <1>1, TriggerAssumption DEF TriggerInv, TriggerTypeOK
  <1>5. TriggerTypeOK'
    BY <1>1, <1>2, <1>3, <1>4 DEF TriggerInv, TriggerTypeOK, TaskInv
  <1>6. RequestsAreTrue'
    BY <1>1, <1>2 DEF TriggerInv, RequestsAreTrue
  <1>7. CountsAreTrue'
    BY <1>1, <1>2, <1>3, <1>5, CountsPreserved
  <1> QED
    BY <1>2, <1>5, <1>6, <1>7 DEF TriggerInv

LEMMA TriggerStepPreserves == TriggerInv /\ [TriggerNext]_triggerVars => TriggerInv'
  <1> SUFFICES ASSUME TriggerInv, [TriggerNext]_triggerVars PROVE TriggerInv'
    OBVIOUS
  <1>1. CASE TaskNext /\ UNCHANGED serverVars
    BY <1>1, TaskActionPreserves
  <1>2. ASSUME NEW r \in Tasks, CreateTask(r) PROVE TriggerInv'
    BY <1>2, TaskActionPreserves DEF CreateTask
  <1>3. ASSUME NEW r \in Tasks, Answer(r) \/ Refuse(r) \/ Serve(r) PROVE TriggerInv'
    BY <1>3, AnswerPreserves, CountPreserves DEF Serve
  <1>4. ASSUME NEW r \in Tasks, NEW u \in Triggers, Accept(r, u) PROVE TriggerInv'
    BY <1>4, AcceptPreserves
  <1>5. ASSUME NEW u \in Triggers, CreateTrigger(u) \/ DeleteTrigger(u) PROVE TriggerInv'
    BY <1>5, ToolPreserves
  <1>6. CASE UNCHANGED triggerVars
    BY <1>6, TriggerStutterPreserves
  <1> QED
    BY <1>1, <1>2, <1>3, <1>4, <1>5, <1>6 DEF TriggerNext

----------------------------------------------------------------------------
(* The theorems of the server *)

\* The inductive invariant holds of every behaviour.
THEOREM TriggerInvariant == TriggerSpec => []TriggerInv
  <1>1. TriggerInit => TriggerInv
    BY TriggerInitEstablishes
  <1>2. TriggerInv /\ [TriggerNext]_triggerVars => TriggerInv'
    BY TriggerStepPreserves
  <1> QED
    BY <1>1, <1>2, PTL DEF TriggerSpec

\* The variables of the server and of the task manager have their types.
THEOREM TriggerTypes == TriggerSpec => []TriggerTypeOK
  <1>1. TriggerInv => TriggerTypeOK
    BY DEF TriggerInv
  <1> QED
    BY <1>1, TriggerInvariant, PTL

\* A task's record says what became of its process, in whatever order its
\* process ends, its output is closed, its monitor reads and it is stopped
\* (tasks/manager.py:122-201).
THEOREM RecordsTellTheTruth == TriggerSpec => []RecordsAreTrue
  <1>1. TriggerInv => RecordsAreTrue
    BY DEF TriggerInv, TaskInv, TasksAreTrue, RecordIsTrue, RecordsAreTrue
  <1> QED
    BY <1>1, TriggerInvariant, PTL

\* A request is answered by what it did, and no trigger counts a firing it did
\* not have, whatever other requests and tool calls do meanwhile
\* (triggers/server.py:111-166).
THEOREM RequestsAreAnsweredTruly == TriggerSpec => []TriggersAnswerTruly
  <1>1. TriggerInv => TriggersAnswerTruly
    BY DEF TriggerInv, RequestsAreTrue, CountsAreTrue, TriggersAnswerTruly, Firings, FiringsOf
  <1> QED
    BY <1>1, TriggerInvariant, PTL

----------------------------------------------------------------------------
(* What the scheduler, the store and the session agree on                  *)
(*                                                                         *)
(* A record is somewhere on its way from the file through the list of a    *)
(* tick, or through the hands of the session, back to the file.  Wherever  *)
(* it is, it must not become due again for a time it was fired for.        *)

OneRuns == \A d, e \in Running : d = e

\* At time c, a record without a due time will not get one.
IsPlanned(c, j, r) ==
    r.next = Never =>
        \/ Schedule[j] = "invalid"
        \/ Schedule[j] = "once" /\ (r.runs # 0 \/ At <= c)

StoreIsPlanned(C, c, R) == DOMAIN R \subseteq C /\ \A j \in DOMAIN R : IsPlanned(c, j, R[j])

StoresArePlanned ==
    /\ StoreIsPlanned(created, clock, file) /\ StoreIsPlanned(created, clock, held)
    /\ \A p \in Processes : StoreIsPlanned(created, clock, op[p].data)
    /\ \A d \in Daemons : StoreIsPlanned(created, clock, todo[d])

\* Where a scheduler is, and what it holds there.
StagesAgree ==
    /\ \A p \in Processes : op[p].stage = "idle" => op[p] = Idle
    /\ \A d \in Daemons :
         /\ dpc[d] # "tick" => op[d] = Idle
         /\ dpc[d] \notin {"tick", "fired"} => todo[d] = Empty
         /\ dpc[d] = "fired" => job[d] \in DOMAIN todo[d] /\ todo[d][job[d]].next \in 0..now[d]
         /\ now[d] <= clock

FiringsAreKnown ==
    \A j \in Jobs, t \in Times : fired[j][t] # 0 => j \in created /\ t <= clock

\* The jobs that have fired and not been recorded.
InFire == {job[d] : d \in {e \in Daemons : dpc[e] = "fired"}}

\* With the firings F, none of the records R is due again, those of the jobs X
\* left aside.
IsFresh(F, j, r) == \A t \in Times : F[j][t] # 0 => r.next = Never \/ r.next > t

StoreIsFresh(F, X, R) == \A j \in DOMAIN R : j \in X \/ IsFresh(F, j, R[j])

\* Nobody else is in an operation while a process is, or the session holds a
\* record.
OneWrites ==
    /\ \A p, q \in Processes : op[p] # Idle /\ op[q] # Idle => p = q
    /\ held # Empty => \A p \in Processes : op[p] = Idle

NoneIsLost ==
    /\ (\A p \in Processes : op[p] = Idle) => created \ deleted \subseteq DOMAIN file
    /\ \A p \in Processes : op[p] # Idle => created \ deleted \subseteq DOMAIN op[p].data

NoneIsDueAgain ==
    /\ (\A d \in Daemons : op[d] = Idle) => StoreIsFresh(fired, InFire, file)
    /\ StoreIsFresh(fired, InFire, held)
    /\ \A p \in Processes : StoreIsFresh(fired, InFire, op[p].data)
    /\ \A d \in Daemons : StoreIsFresh(fired, InFire, todo[d])
    /\ \A j \in Jobs, t \in Times : fired[j][t] <= 1

CronInv ==
    /\ TypeOK /\ StoresArePlanned /\ StagesAgree /\ FiringsAreKnown
    /\ clean => OneRuns /\ OneWrites /\ NoneIsLost /\ NoneIsDueAgain

----------------------------------------------------------------------------
(* Stores *)

LEMMA StoreElements ==
    ASSUME NEW R \in Stores
    PROVE  /\ DOMAIN R \subseteq Jobs
           /\ \A j \in DOMAIN R : R[j] \in Records
           /\ R = [j \in DOMAIN R |-> R[j]]
  BY DEF Stores

LEMMA FunctionIsStore ==
    ASSUME NEW S \in SUBSET Jobs, NEW R \in [S -> Records]
    PROVE  R \in Stores
  BY DEF Stores

LEMMA EmptyStore ==
    /\ Empty \in Stores /\ DOMAIN Empty = {}
    /\ \A C, c : StoreIsPlanned(C, c, Empty)
    /\ \A F, X : StoreIsFresh(F, X, Empty)
  <1>1. Empty \in [{} -> Records] /\ DOMAIN Empty = {}
    BY DEF Empty
  <1>2. Empty \in Stores
    BY <1>1, FunctionIsStore
  <1> QED
    BY <1>1, <1>2 DEF StoreIsPlanned, StoreIsFresh

LEMMA EmptyIsAlone == ASSUME NEW R \in Stores, DOMAIN R = {} PROVE R = Empty
  <1>1. R = [j \in {} |-> R[j]]
    BY StoreElements
  <1> QED
    BY <1>1 DEF Empty

\* Every restriction of a store is one, and as good as the whole.
LEMMA RestrictedStore ==
    ASSUME NEW R \in Stores, NEW S \in SUBSET DOMAIN R
    PROVE  /\ Restrict(R, S) \in Stores /\ DOMAIN Restrict(R, S) = S
           /\ \A j \in S : Restrict(R, S)[j] = R[j]
           /\ \A C, c : StoreIsPlanned(C, c, R) => StoreIsPlanned(C, c, Restrict(R, S))
           /\ \A F, X : StoreIsFresh(F, X, R) => StoreIsFresh(F, X, Restrict(R, S))
  <1>1. /\ DOMAIN Restrict(R, S) = S /\ \A j \in S : Restrict(R, S)[j] = R[j]
        /\ Restrict(R, S) \in [S -> Records] /\ S \in SUBSET Jobs
    BY StoreElements DEF Restrict
  <1>2. Restrict(R, S) \in Stores
    BY <1>1, FunctionIsStore
  <1> QED
    BY <1>1, <1>2 DEF StoreIsPlanned, StoreIsFresh

LEMMA StoreWithout ==
    ASSUME NEW R \in Stores, NEW j
    PROVE  /\ Without(R, j) \in Stores /\ DOMAIN Without(R, j) = DOMAIN R \ {j}
           /\ \A i \in DOMAIN R \ {j} : Without(R, j)[i] = R[i]
           /\ \A C, c : StoreIsPlanned(C, c, R) => StoreIsPlanned(C, c, Without(R, j))
           /\ \A F, X : StoreIsFresh(F, X, R) => StoreIsFresh(F, X, Without(R, j))
  BY RestrictedStore DEF Without

LEMMA StoreWith ==
    ASSUME NEW R \in Stores, NEW j \in Jobs, NEW r \in Records
    PROVE  /\ Put(R, j, r) \in Stores /\ DOMAIN Put(R, j, r) = DOMAIN R \union {j}
           /\ Put(R, j, r)[j] = r
           /\ \A i \in DOMAIN R \ {j} : Put(R, j, r)[i] = R[i]
           /\ \A C, c : StoreIsPlanned(C, c, R) /\ j \in C /\ IsPlanned(c, j, r) =>
                           StoreIsPlanned(C, c, Put(R, j, r))
           /\ \A F, X : StoreIsFresh(F, X, R) /\ (j \in X \/ IsFresh(F, j, r)) =>
                           StoreIsFresh(F, X, Put(R, j, r))
           /\ \A F : StoreIsFresh(F, {j}, R) /\ IsFresh(F, j, r) =>
                           StoreIsFresh(F, {}, Put(R, j, r))
  <1>1. /\ DOMAIN Put(R, j, r) = DOMAIN R \union {j}
        /\ Put(R, j, r)[j] = r
        /\ \A i \in DOMAIN R \ {j} : Put(R, j, r)[i] = R[i]
    BY DEF Put
  <1>2. DOMAIN R \union {j} \in SUBSET Jobs
        /\ Put(R, j, r) \in [DOMAIN R \union {j} -> Records]
    BY StoreElements DEF Put
  <1>3. Put(R, j, r) \in Stores
    BY <1>2, FunctionIsStore
  <1> HIDE DEF Put
  <1> QED
    BY <1>1, <1>3 DEF StoreIsPlanned, StoreIsFresh

\* Plans hold on, and so does what is said of more jobs.
LEMMA PlansHold ==
    ASSUME NEW C, NEW D, NEW c \in Int, NEW e \in Int, NEW R,
           C \subseteq D, c <= e, StoreIsPlanned(C, c, R)
    PROVE  StoreIsPlanned(D, e, R)
  <1>1. At \in Int
    BY CronAssumption
  <1> QED
    BY <1>1 DEF StoreIsPlanned, IsPlanned

----------------------------------------------------------------------------
(* When a job is due *)

\* The first multiple of a period after a time.
LEMMA NextMultiple ==
    ASSUME NEW b \in Nat, NEW k \in Nat \ {0}
    PROVE  (b \div k + 1) * k \in Nat /\ (b \div k + 1) * k > b /\ (b \div k + 1) * k <= b + k
  OBVIOUS

\* A record that is new, or of a run that ends now, is planned for a time to
\* come; only that of a run is sure to be due later.
LEMMA NextRunIsKnown ==
    ASSUME TypeOK, NEW j \in Jobs, NEW r \in Records, r.last \in {Never, clock}
    PROVE  /\ NextRun(j, r) \in Times \union {Never}
           /\ IsPlanned(clock, j, [r EXCEPT !.next = NextRun(j, r)])
           /\ r.last = clock /\ r.runs # 0 => NextRun(j, r) = Never \/ NextRun(j, r) > clock
  <1>1. /\ clock \in Nat /\ clock <= MaxTime /\ MaxTime \in Nat /\ Period \in Nat \ {0}
        /\ At \in 0..MaxTime /\ Schedule[j] \in {"once", "interval", "cron", "invalid"}
        /\ Never = -1 /\ Times = 0..MaxTime + Period
    BY CronAssumption DEF TypeOK, Never, Times
  <1>2. /\ (clock \div Period + 1) * Period \in Nat
        /\ (clock \div Period + 1) * Period > clock
        /\ (clock \div Period + 1) * Period <= clock + Period
    BY <1>1, NextMultiple
  <1> DEFINE m == (clock \div Period + 1) * Period
  <1>3. NextRun(j, r) =
          CASE Schedule[j] = "once" -> IF r.runs = 0 /\ At > clock THEN At ELSE Never
            [] Schedule[j] = "interval" -> IF r.last = Never THEN clock ELSE clock + Period
            [] Schedule[j] = "cron" -> m
            [] Schedule[j] = "invalid" -> Never
    BY <1>1 DEF NextRun
  <1> HIDE DEF m
  <1>4. r.runs \in 0..2 /\ [r EXCEPT !.next = NextRun(j, r)].next = NextRun(j, r)
        /\ [r EXCEPT !.next = NextRun(j, r)].runs = r.runs
    BY DEF Records
  <1>5. m \in Nat /\ m > clock /\ m <= clock + Period
    BY <1>2 DEF m
  <1>6. CASE Schedule[j] = "once"
    BY <1>1, <1>3, <1>4, <1>6 DEF IsPlanned
  <1>7. CASE Schedule[j] = "interval"
    BY <1>1, <1>3, <1>4, <1>7 DEF IsPlanned
  <1>8. CASE Schedule[j] = "cron"
    BY <1>1, <1>3, <1>4, <1>5, <1>8 DEF IsPlanned
  <1>9. CASE Schedule[j] = "invalid"
    BY <1>1, <1>3, <1>4, <1>9 DEF IsPlanned
  <1> QED
    BY <1>1, <1>6, <1>7, <1>8, <1>9

----------------------------------------------------------------------------
(* The invariant of the scheduler is inductive *)

CleanIsTrue == OneRuns /\ OneWrites /\ NoneIsLost /\ NoneIsDueAgain

LEMMA CronInitEstablishes == Init => CronInv
  <1> SUFFICES ASSUME Init PROVE CronInv
    OBVIOUS
  <1>0. /\ Empty \in Stores /\ DOMAIN Empty = {}
        /\ \A C, c : StoreIsPlanned(C, c, Empty)
        /\ \A F, X : StoreIsFresh(F, X, Empty)
    BY EmptyStore
  <1>1. /\ clock = 0 /\ file = Empty /\ held = Empty /\ op = [p \in Processes |-> Idle]
        /\ dpc = [d \in Daemons |-> "off"] /\ stopping = {}
        /\ todo = [d \in Daemons |-> Empty] /\ now = [d \in Daemons |-> 0]
        /\ job = [d \in Daemons |-> None] /\ created = {} /\ deleted = {}
        /\ fired = [j \in Jobs |-> [t \in Times |-> 0]]
        /\ clean = TRUE /\ ops = 0 /\ ends = 0
    BY DEF Init
  <1>2. Running = {} /\ InFire = {}
    BY <1>1 DEF Running, InFire
  <1>3. Idle.stage = "idle" /\ Idle.data = Empty
    BY DEF Idle
  <1> HIDE DEF Empty
  <1>4. Idle \in [stage : {"idle", "loaded", "truncated"}, data : Stores]
    BY <1>0 DEF Idle
  <1> HIDE DEF Idle
  <1>5. TypeOK
    <2>1. 0 \in 0..MaxTime /\ 0 \in 0..MaxOps /\ 0 \in 0..MaxEnds /\ 0 \in 0..2
      BY CronAssumption
    <2>2. fired \in [Jobs -> [Times -> 0..2]]
      BY <1>1, <2>1
    <2> QED
      BY <1>0, <1>1, <1>2, <1>4, <2>1, <2>2 DEF TypeOK
  <1>6. StoresArePlanned
    BY <1>0, <1>1, <1>3 DEF StoresArePlanned
  <1>7. StagesAgree /\ FiringsAreKnown
    <2>1. Daemons \subseteq Processes
      BY DEF Processes
    <2> QED
      BY <1>1, <2>1 DEF StagesAgree, FiringsAreKnown
  <1>8. OneRuns /\ OneWrites /\ NoneIsLost /\ NoneIsDueAgain
    BY <1>0, <1>1, <1>2, <1>3 DEF OneRuns, OneWrites, NoneIsLost, NoneIsDueAgain
  <1> QED
    BY <1>5, <1>6, <1>7, <1>8 DEF CronInv

LEMMA CronStutterPreserves == CronInv /\ UNCHANGED vars => CronInv'
  <1> SUFFICES ASSUME CronInv, UNCHANGED vars PROVE CronInv'
    OBVIOUS
  <1>1. UNCHANGED <<clock, file, op, dpc, stopping, todo, now, job, held, created,
                    deleted, ops, fired, clean, ends>>
    BY DEF vars, daemonVars, toolVars, historyVars
  <1>2. Running' = Running /\ InFire' = InFire
    BY <1>1 DEF Running, InFire
  <1>3. TypeOK' /\ StoresArePlanned' /\ StagesAgree' /\ FiringsAreKnown'
    BY <1>1, <1>2 DEF CronInv, TypeOK, StoresArePlanned, StagesAgree, FiringsAreKnown
  <1>4. ASSUME clean' PROVE OneRuns' /\ OneWrites' /\ NoneIsLost' /\ NoneIsDueAgain'
    BY <1>1, <1>2, <1>4 DEF CronInv, OneRuns, OneWrites, NoneIsLost, NoneIsDueAgain
  <1> QED
    BY <1>3, <1>4 DEF CronInv

LEMMA PassPreserves == ASSUME CronInv, Pass PROVE CronInv'
  <1>1. /\ UNCHANGED <<file, op, daemonVars, toolVars, historyVars>>
        /\ clock' = clock + 1 /\ clock < MaxTime /\ clock \in Nat /\ clock' \in 0..MaxTime
    BY CronAssumption DEF Pass, CronInv, TypeOK
  <1>2. TypeOK'
    BY <1>1 DEF CronInv, TypeOK, Running, daemonVars, toolVars, historyVars
  <1>3. StoresArePlanned'
    BY <1>1, PlansHold DEF CronInv, StoresArePlanned, daemonVars, toolVars
  <1>4. StagesAgree' /\ FiringsAreKnown'
    BY <1>1 DEF CronInv, TypeOK, StagesAgree, FiringsAreKnown, daemonVars, toolVars, historyVars, Times
  <1>5. (clean => CleanIsTrue)'
    BY <1>1 DEF CronInv, CleanIsTrue, OneRuns, Running, OneWrites, NoneIsLost, NoneIsDueAgain,
                InFire, daemonVars, toolVars, historyVars
  <1> QED
    BY <1>2, <1>3, <1>4, <1>5 DEF CronInv, CleanIsTrue

\* A scheduler comes or goes, with nothing in its hands.
LEMMA ComeAndGoPreserves ==
    ASSUME CronInv, TypeOK', UNCHANGED <<clock, file, op, todo, now, job, toolVars, fired>>,
           \A d \in Daemons :
               dpc'[d] = dpc[d] \/ {dpc[d], dpc'[d]} \subseteq {"off", "asleep"},
           clean' => clean /\ OneRuns'
    PROVE  CronInv'
  <1>1. UNCHANGED <<held, created, deleted>>
    BY DEF toolVars
  <1>2. InFire' = InFire
    BY DEF InFire
  <1>3. StoresArePlanned' /\ FiringsAreKnown'
    BY <1>1 DEF CronInv, StoresArePlanned, FiringsAreKnown
  <1>4. StagesAgree'
    BY DEF CronInv, StagesAgree
  <1>5. ASSUME clean' PROVE OneWrites' /\ NoneIsLost' /\ NoneIsDueAgain'
    BY <1>1, <1>2, <1>5 DEF CronInv, OneWrites, NoneIsLost, NoneIsDueAgain
  <1> QED
    BY <1>3, <1>4, <1>5 DEF CronInv

LEMMA LifecyclePreserves ==
    ASSUME CronInv, NEW d \in Daemons, Start(d) \/ Leave(d) \/ Stop(d)
    PROVE  CronInv'
  <1>1. CASE Start(d)
    <2>1. /\ dpc[d] = "off" /\ dpc' = [dpc EXCEPT ![d] = "asleep"]
          /\ clean' = (clean /\ Running = {})
          /\ UNCHANGED <<clock, file, op, stopping, todo, now, job, toolVars, fired, ends>>
      BY <1>1 DEF Start
    <2>2. Running' = Running \union {d}
      BY <2>1 DEF Running, CronInv, TypeOK
    <2>3. TypeOK'
      BY <2>1, <2>2 DEF CronInv, TypeOK, toolVars
    <2>4. clean' => clean /\ OneRuns'
      BY <2>1, <2>2 DEF OneRuns
    <2> QED
      BY <2>1, <2>3, <2>4, ComeAndGoPreserves DEF CronInv, TypeOK
  <1>2. CASE Leave(d)
    <2>1. /\ dpc[d] = "asleep" /\ stopping' = stopping \ {d}
          /\ dpc' = [dpc EXCEPT ![d] = "off"]
          /\ UNCHANGED <<clock, file, op, todo, now, job, toolVars, historyVars>>
      BY <1>2 DEF Leave
    <2>2. Running' = Running \ {d}
      BY <2>1 DEF Running, CronInv, TypeOK
    <2>3. TypeOK'
      BY <2>1, <2>2 DEF CronInv, TypeOK, toolVars, historyVars
    <2>4. clean' => clean /\ OneRuns'
      BY <2>1, <2>2 DEF OneRuns, CronInv, historyVars
    <2> QED
      BY <2>1, <2>3, <2>4, ComeAndGoPreserves DEF CronInv, TypeOK, historyVars
  <1>3. CASE Stop(d)
    <2>1. /\ ends < MaxEnds /\ ends' = ends + 1
          /\ d \in Running /\ stopping' = stopping \union {d}
          /\ UNCHANGED <<clock, file, op, dpc, todo, now, job, toolVars, fired, clean>>
      BY <1>3 DEF Stop
    <2>2. Running' = Running /\ ends' \in 0..MaxEnds
      BY <2>1, CronAssumption DEF Running, CronInv, TypeOK
    <2>3. TypeOK'
      BY <2>1, <2>2 DEF CronInv, TypeOK, toolVars
    <2>4. clean' => clean /\ OneRuns'
      BY <2>1, <2>2 DEF OneRuns, CronInv
    <2> QED
      BY <2>1, <2>3, <2>4, ComeAndGoPreserves DEF CronInv, TypeOK
  <1> QED
    BY <1>1, <1>2, <1>3

\* A kill is no longer a clean history, and leaves its files as they are.
LEMMA KillPreserves == ASSUME CronInv, NEW d \in Daemons, Kill(d) PROVE CronInv'
  <1>1. /\ d \in Running /\ ends < MaxEnds /\ ends' = ends + 1
        /\ dpc' = [dpc EXCEPT ![d] = "off"] /\ stopping' = stopping \ {d}
        /\ todo' = [todo EXCEPT ![d] = Empty] /\ op' = [op EXCEPT ![d] = Idle]
        /\ now' = [now EXCEPT ![d] = 0] /\ job' = [job EXCEPT ![d] = None]
        /\ clean' = FALSE
        /\ UNCHANGED <<clock, file, held, created, deleted, ops, fired>>
    BY DEF Kill, toolVars
  <1>2. /\ Empty \in Stores /\ DOMAIN Empty = {}
        /\ \A C, c : StoreIsPlanned(C, c, Empty)
        /\ Idle.stage = "idle" /\ Idle.data = Empty
        /\ Idle \in [stage : {"idle", "loaded", "truncated"}, data : Stores]
    BY EmptyStore DEF Idle
  <1>3. Running' = Running \ {d} /\ d \in Processes
    BY <1>1 DEF Running, CronInv, TypeOK, Processes
  <1>4. ends' \in 0..MaxEnds /\ 0 \in 0..MaxTime
    BY <1>1, CronAssumption DEF CronInv, TypeOK
  <1> HIDE DEF Empty, Idle
  <1>5. TypeOK'
    BY <1>1, <1>2, <1>3, <1>4 DEF CronInv, TypeOK
  <1>6. StoresArePlanned'
    BY <1>1, <1>2 DEF CronInv, TypeOK, StoresArePlanned
  <1>7. StagesAgree'
    BY <1>1, <1>2, <1>3 DEF CronInv, TypeOK, StagesAgree
  <1>8. FiringsAreKnown'
    BY <1>1, <1>3 DEF CronInv, TypeOK, FiringsAreKnown
  <1> QED
    BY <1>1, <1>5, <1>6, <1>7, <1>8 DEF CronInv

----------------------------------------------------------------------------
(* Operations on the file *)

\* Truncating and writing lose nothing of what is being written.
LEMMA TruncatePreserves == ASSUME CronInv, NEW p \in Processes, Truncate(p) PROVE CronInv'
  <1>1. /\ op[p].stage = "loaded" /\ file' = Empty
        /\ op' = [op EXCEPT ![p].stage = "truncated"]
        /\ UNCHANGED <<clock, dpc, stopping, todo, now, job, held, created, deleted,
                       ops, fired, clean, ends>>
    BY DEF Truncate, daemonVars, toolVars, historyVars
  <1>2. /\ Empty \in Stores /\ DOMAIN Empty = {}
        /\ \A C, c : StoreIsPlanned(C, c, Empty)
        /\ \A F, X : StoreIsFresh(F, X, Empty)
        /\ Idle.stage = "idle" /\ Idle.data = Empty
    BY EmptyStore DEF Idle
  <1>3. /\ DOMAIN op = Processes /\ op[p] # Idle /\ op'[p] # Idle
        /\ \A q \in Processes : op'[q].data = op[q].data
        /\ \A q \in Processes \ {p} : op'[q] = op[q]
        /\ op' \in [Processes -> [stage : {"idle", "loaded", "truncated"}, data : Stores]]
        /\ op'[p].stage = "truncated"
    BY <1>1, <1>2 DEF CronInv, TypeOK
  <1>4. \A q \in Processes : op'[q] = Idle <=> op[q] = Idle
    BY <1>3
  <1> HIDE DEF Empty, Idle
  <1>5. TypeOK'
    BY <1>1, <1>2, <1>3 DEF CronInv, TypeOK, Running
  <1>6. StoresArePlanned'
    BY <1>1, <1>2, <1>3 DEF CronInv, StoresArePlanned
  <1>7. Daemons \subseteq Processes
    BY DEF Processes
  <1>8. StagesAgree'
    BY <1>1, <1>3, <1>4, <1>7 DEF CronInv, StagesAgree
  <1>9. FiringsAreKnown' /\ (OneRuns => OneRuns') /\ InFire' = InFire
    BY <1>1 DEF CronInv, FiringsAreKnown, OneRuns, Running, InFire
  <1>10. (clean => CleanIsTrue)'
    BY <1>1, <1>2, <1>3, <1>4, <1>9
       DEF CronInv, CleanIsTrue, OneWrites, NoneIsLost, NoneIsDueAgain
  <1> QED
    BY <1>5, <1>6, <1>8, <1>9, <1>10 DEF CronInv, CleanIsTrue

LEMMA WritePreserves == ASSUME CronInv, NEW p \in Processes, Write(p) PROVE CronInv'
  <1>1. /\ op[p].stage = "truncated" /\ file' = op[p].data
        /\ op' = [op EXCEPT ![p] = Idle]
        /\ UNCHANGED <<clock, dpc, stopping, todo, now, job, held, created, deleted,
                       ops, fired, clean, ends>>
    BY DEF Write, daemonVars, toolVars, historyVars
  <1>2. /\ Empty \in Stores /\ DOMAIN Empty = {}
        /\ \A C, c : StoreIsPlanned(C, c, Empty)
        /\ \A F, X : StoreIsFresh(F, X, Empty)
        /\ Idle.stage = "idle" /\ Idle.data = Empty
        /\ Idle \in [stage : {"idle", "loaded", "truncated"}, data : Stores]
    BY EmptyStore DEF Idle
  <1>3. /\ op[p] # Idle /\ op[p].data \in Stores
        /\ \A q \in Processes : op'[q] = IF q = p THEN Idle ELSE op[q]
        /\ op' \in [Processes -> [stage : {"idle", "loaded", "truncated"}, data : Stores]]
    BY <1>1, <1>2 DEF CronInv, TypeOK
  <1> HIDE DEF Empty, Idle
  <1>5. TypeOK'
    BY <1>1, <1>3 DEF CronInv, TypeOK, Running
  <1>6. StoresArePlanned'
    BY <1>1, <1>2, <1>3 DEF CronInv, StoresArePlanned
  <1>7. Daemons \subseteq Processes
    BY DEF Processes
  <1>8. StagesAgree'
    BY <1>1, <1>2, <1>3, <1>7 DEF CronInv, StagesAgree
  <1>9. FiringsAreKnown' /\ (OneRuns => OneRuns') /\ InFire' = InFire
    BY <1>1 DEF CronInv, FiringsAreKnown, OneRuns, Running, InFire
  <1>10. ASSUME clean'
         PROVE  OneRuns' /\ OneWrites' /\ NoneIsLost' /\ NoneIsDueAgain'
    <2>1. OneRuns' /\ OneWrites /\ NoneIsLost /\ NoneIsDueAgain
      BY <1>1, <1>9, <1>10 DEF CronInv
    <2>2. OneWrites'
      BY <1>1, <1>3, <2>1 DEF OneWrites
    <2>3. NoneIsLost'
      BY <1>1, <1>3, <2>1 DEF OneWrites, NoneIsLost
    <2>4. NoneIsDueAgain'
      BY <1>1, <1>2, <1>3, <1>9, <2>1 DEF NoneIsDueAgain
    <2> QED
      BY <2>1, <2>2, <2>3, <2>4
  <1> QED
    BY <1>5, <1>6, <1>8, <1>9, <1>10 DEF CronInv

\* A process that finds itself alone finds a file without an operation on it.
LEMMA AloneIsSafe ==
    ASSUME CronInv, clean, NEW p \in Processes, Alone(p),
           op[p] = Idle \/ (p = Session /\ held # Empty)
    PROVE  /\ \A q \in Processes : op[q] = Idle
           /\ OneRuns /\ OneWrites
           /\ created \ deleted \subseteq DOMAIN file
           /\ StoreIsFresh(fired, InFire, file)
           /\ p = Session \/ held = Empty
  <1>1. OneRuns /\ OneWrites /\ NoneIsLost /\ NoneIsDueAgain
    BY DEF CronInv
  <1>2. \A q \in Processes : op[q] = Idle
    BY <1>1 DEF Alone, OneWrites
  <1>3. Daemons \subseteq Processes
    BY DEF Processes
  <1> QED
    BY <1>1, <1>2, <1>3 DEF NoneIsLost, NoneIsDueAgain, Alone

LEMMA BeginKeeps ==
    ASSUME CronInv, NEW p \in Processes, NEW R \in Stores, Begin(p, R)
    PROVE  /\ op' \in [Processes -> [stage : {"idle", "loaded", "truncated"}, data : Stores]]
           /\ \A q \in Processes \ {p} : op'[q] = op[q]
           /\ op'[p].stage = "loaded" /\ op'[p].data = R /\ op'[p] # Idle
           /\ clean' \in BOOLEAN /\ (clean' => clean /\ Alone(p))
  <1>1. /\ op' = [op EXCEPT ![p] = [stage |-> "loaded", data |-> R]]
        /\ clean' = (clean /\ Alone(p))
    BY DEF Begin
  <1>2. Idle.stage = "idle"
    BY DEF Idle
  <1>3. /\ op \in [Processes -> [stage : {"idle", "loaded", "truncated"}, data : Stores]]
        /\ clean \in BOOLEAN
    BY DEF CronInv, TypeOK
  <1> HIDE DEF Idle
  <1>4. op' \in [Processes -> [stage : {"idle", "loaded", "truncated"}, data : Stores]]
    BY <1>1, <1>3
  <1>5. /\ \A q \in Processes \ {p} : op'[q] = op[q]
        /\ op'[p].stage = "loaded" /\ op'[p].data = R /\ op'[p] # Idle
    BY <1>1, <1>2, <1>3
  <1> QED
    BY <1>1, <1>3, <1>4, <1>5

\* The session begins an operation: it writes the file as it has found it, but
\* for the job it is about.
LEMMA SessionSavePreserves ==
    ASSUME CronInv, NEW R \in Stores, Begin(Session, R),
           UNCHANGED <<clock, file, daemonVars, fired, ends>>,
           op[Session] = Idle \/ held # Empty,
           held' = Empty, ops' \in 0..MaxOps,
           created \subseteq created', created' \subseteq Jobs, deleted' \subseteq Jobs,
           StoreIsPlanned(created', clock, R),
           created \ deleted \subseteq DOMAIN file => created' \ deleted' \subseteq DOMAIN R,
           clean /\ StoreIsFresh(fired, InFire, file) => StoreIsFresh(fired, InFire, R)
    PROVE  CronInv'
  <1>1. Session \in Processes /\ Session \notin Daemons /\ Daemons \subseteq Processes
    BY CronAssumption DEF Processes
  <1>2. /\ op' \in [Processes -> [stage : {"idle", "loaded", "truncated"}, data : Stores]]
        /\ \A q \in Processes \ {Session} : op'[q] = op[q]
        /\ op'[Session].stage = "loaded" /\ op'[Session].data = R /\ op'[Session] # Idle
        /\ clean' \in BOOLEAN /\ (clean' => clean /\ Alone(Session))
    BY <1>1, BeginKeeps
  <1>3. UNCHANGED <<dpc, stopping, todo, now, job>> /\ Running' = Running /\ InFire' = InFire
    BY DEF daemonVars, Running, InFire
  <1>4. /\ Empty \in Stores
        /\ \A C, c : StoreIsPlanned(C, c, Empty)
        /\ \A F, X : StoreIsFresh(F, X, Empty)
    BY EmptyStore
  <1> HIDE DEF Empty, Idle
  <1>5. TypeOK'
    BY <1>2, <1>3, <1>4 DEF CronInv, TypeOK
  <1>6. StoresArePlanned'
    <2>1. \A S : StoreIsPlanned(created, clock, S) => StoreIsPlanned(created', clock, S)
      BY PlansHold, CronAssumption DEF CronInv, TypeOK
    <2> QED
      BY <1>1, <1>2, <1>3, <1>4, <2>1 DEF CronInv, StoresArePlanned
  <1>7. StagesAgree'
    BY <1>1, <1>2, <1>3 DEF CronInv, StagesAgree
  <1>8. FiringsAreKnown' /\ (OneRuns => OneRuns')
    BY <1>3 DEF CronInv, FiringsAreKnown, OneRuns
  <1>9. ASSUME clean'
        PROVE  OneRuns' /\ OneWrites' /\ NoneIsLost' /\ NoneIsDueAgain'
    <2>1. /\ \A q \in Processes : op[q] = Idle
          /\ OneRuns /\ created \ deleted \subseteq DOMAIN file
          /\ StoreIsFresh(fired, InFire, file)
      BY <1>1, <1>2, <1>9, AloneIsSafe
    <2>2. NoneIsDueAgain
      BY <1>2, <1>9 DEF CronInv
    <2>3. OneWrites' /\ NoneIsLost'
      BY <1>1, <1>2, <2>1 DEF OneWrites, NoneIsLost
    <2>4. NoneIsDueAgain'
      BY <1>1, <1>2, <1>3, <1>4, <1>9, <2>1, <2>2 DEF NoneIsDueAgain
    <2> QED
      BY <1>8, <2>1, <2>3, <2>4
  <1> QED
    BY <1>5, <1>6, <1>7, <1>8, <1>9 DEF CronInv

LEMMA CreateJobPreserves == ASSUME CronInv, NEW j \in Jobs, CreateJob(j) PROVE CronInv'
  <1> DEFINE new == [enabled |-> TRUE, last |-> Never, next |-> Never, runs |-> 0]
             planned == [new EXCEPT !.next = NextRun(j, new)]
             R == Put(file, j, planned)
  <1>1. /\ op[Session] = Idle /\ held = Empty /\ ops < MaxOps /\ ops' = ops + 1
        /\ j \notin created /\ Begin(Session, R) /\ created' = created \union {j}
        /\ UNCHANGED <<clock, file, daemonVars, held, deleted, fired, ends>>
    BY DEF CreateJob, Call, Save
  <1>2. new \in Records /\ new.last = Never
    BY DEF Records
  <1>3. NextRun(j, new) \in Times \union {Never} /\ IsPlanned(clock, j, planned)
    BY <1>2, NextRunIsKnown DEF CronInv
  <1>4. planned \in Records
    BY <1>2, <1>3 DEF Records
  <1>5. ops' \in 0..MaxOps
    BY <1>1, CronAssumption DEF CronInv, TypeOK
  <1> HIDE DEF planned
  <1>6. /\ R \in Stores /\ DOMAIN R = DOMAIN file \union {j}
        /\ \A C, c : StoreIsPlanned(C, c, file) /\ j \in C /\ IsPlanned(c, j, planned) =>
                        StoreIsPlanned(C, c, R)
        /\ \A F, X : StoreIsFresh(F, X, file) /\ (j \in X \/ IsFresh(F, j, planned)) =>
                        StoreIsFresh(F, X, R)
    BY <1>4, StoreWith DEF CronInv, TypeOK
  <1> HIDE DEF R
  <1>7. StoreIsPlanned(created', clock, R)
    <2>1. StoreIsPlanned(created', clock, file)
      BY <1>1, PlansHold, CronAssumption DEF CronInv, TypeOK, StoresArePlanned
    <2> QED
      BY <1>1, <1>3, <1>6, <2>1
  <1>8. IsFresh(fired, j, planned)
    BY <1>1 DEF CronInv, FiringsAreKnown, IsFresh
  <1>9. held' = Empty /\ created' \subseteq Jobs /\ deleted' \subseteq Jobs
        /\ (created \ deleted \subseteq DOMAIN file => created' \ deleted' \subseteq DOMAIN R)
    BY <1>1, <1>6 DEF CronInv, TypeOK
  <1> QED
    BY <1>1, <1>5, <1>6, <1>7, <1>8, <1>9, SessionSavePreserves

LEMMA DeleteJobPreserves == ASSUME CronInv, NEW j \in Jobs, DeleteJob(j) PROVE CronInv'
  <1> DEFINE R == Without(file, j)
  <1>1. /\ op[Session] = Idle /\ held = Empty /\ ops < MaxOps /\ ops' = ops + 1
        /\ Begin(Session, R) /\ deleted' = deleted \union {j}
        /\ UNCHANGED <<clock, file, daemonVars, held, created, fired, ends>>
    BY DEF DeleteJob, Call
  <1>2. ops' \in 0..MaxOps
    BY <1>1, CronAssumption DEF CronInv, TypeOK
  <1>3. /\ R \in Stores /\ DOMAIN R = DOMAIN file \ {j}
        /\ \A C, c : StoreIsPlanned(C, c, file) => StoreIsPlanned(C, c, R)
        /\ \A F, X : StoreIsFresh(F, X, file) => StoreIsFresh(F, X, R)
    BY StoreWithout DEF CronInv, TypeOK
  <1> HIDE DEF R
  <1>4. StoreIsPlanned(created', clock, R)
    BY <1>1, <1>3 DEF CronInv, StoresArePlanned
  <1>5. held' = Empty /\ created' \subseteq Jobs /\ deleted' \subseteq Jobs
        /\ (created \ deleted \subseteq DOMAIN file => created' \ deleted' \subseteq DOMAIN R)
    BY <1>1, <1>3 DEF CronInv, TypeOK
  <1> QED
    BY <1>1, <1>2, <1>3, <1>4, <1>5, SessionSavePreserves

\* The record the session writes is the one it has read, and nobody else has
\* written meanwhile, unless the history is not clean.
LEMMA ToggleJobPreserves == ASSUME CronInv, ToggleJob PROVE CronInv'
  <1>1. PICK j \in DOMAIN held, enabled \in BOOLEAN :
          Save(Session, j, [held[j] EXCEPT !.enabled = enabled])
    BY DEF ToggleJob
  <1> DEFINE r == [held[j] EXCEPT !.enabled = enabled]
             R == Put(file, j, r)
  <1>2. /\ Begin(Session, R) /\ held' = Empty
        /\ UNCHANGED <<clock, file, daemonVars, created, deleted, ops, fired, ends>>
    BY <1>1 DEF ToggleJob, Save
  <1>3. j \in Jobs /\ held[j] \in Records /\ held # Empty
    BY StoreElements, EmptyStore DEF CronInv, TypeOK
  <1>4. r \in Records /\ r.next = held[j].next /\ r.runs = held[j].runs
    BY <1>3 DEF Records
  <1> HIDE DEF r
  <1>5. /\ R \in Stores /\ DOMAIN R = DOMAIN file \union {j}
        /\ \A C, c : StoreIsPlanned(C, c, file) /\ j \in C /\ IsPlanned(c, j, r) =>
                        StoreIsPlanned(C, c, R)
        /\ \A F, X : StoreIsFresh(F, X, file) /\ (j \in X \/ IsFresh(F, j, r)) =>
                        StoreIsFresh(F, X, R)
    BY <1>3, <1>4, StoreWith DEF CronInv, TypeOK
  <1> HIDE DEF R
  <1>6. StoreIsPlanned(created', clock, R)
    <2>1. j \in created /\ IsPlanned(clock, j, held[j])
      BY DEF CronInv, StoresArePlanned, StoreIsPlanned
    <2> QED
      BY <1>2, <1>4, <1>5, <2>1 DEF CronInv, StoresArePlanned, IsPlanned
  <1>7. clean => j \in InFire \/ IsFresh(fired, j, r)
    <2>1. clean => StoreIsFresh(fired, InFire, held)
      BY DEF CronInv, NoneIsDueAgain
    <2> QED
      BY <1>4, <2>1 DEF StoreIsFresh, IsFresh
  <1> QED
    BY <1>2, <1>3, <1>5, <1>6, <1>7, SessionSavePreserves DEF CronInv, TypeOK

LEMMA GetJobPreserves == ASSUME CronInv, NEW j \in Jobs, GetJob(j) PROVE CronInv'
  <1> DEFINE R == [i \in {j} |-> file[j]]
  <1>1. /\ op[Session] = Idle /\ held = Empty /\ ops < MaxOps /\ ops' = ops + 1
        /\ j \in DOMAIN file /\ held' = R /\ clean' = (clean /\ Alone(Session))
        /\ UNCHANGED <<clock, file, op, dpc, stopping, todo, now, job, created, deleted,
                       fired, ends>>
    BY DEF GetJob, Call, daemonVars
  <1>2. ops' \in 0..MaxOps
    BY <1>1, CronAssumption DEF CronInv, TypeOK
  <1>3. /\ R \in Stores
        /\ \A C, c : StoreIsPlanned(C, c, file) => StoreIsPlanned(C, c, R)
        /\ \A F, X : StoreIsFresh(F, X, file) => StoreIsFresh(F, X, R)
    <2>1. file[j] \in Records
      BY <1>1, StoreElements DEF CronInv, TypeOK
    <2>2. R \in [{j} -> Records] /\ {j} \in SUBSET Jobs
      BY <2>1
    <2>3. R \in Stores
      BY <2>2, FunctionIsStore
    <2> QED
      BY <1>1, <2>3 DEF StoreIsPlanned, StoreIsFresh
  <1> HIDE DEF R, Idle, Empty
  <1>4. Running' = Running /\ InFire' = InFire
    BY <1>1 DEF Running, InFire
  <1>5. TypeOK'
    BY <1>1, <1>2, <1>3, <1>4 DEF CronInv, TypeOK
  <1>6. StoresArePlanned' /\ StagesAgree' /\ FiringsAreKnown' /\ (OneRuns => OneRuns')
    BY <1>1, <1>3, <1>4 DEF CronInv, StoresArePlanned, StagesAgree, FiringsAreKnown, OneRuns
  <1>7. ASSUME clean'
        PROVE  OneRuns' /\ OneWrites' /\ NoneIsLost' /\ NoneIsDueAgain'
    <2>1. /\ \A q \in Processes : op[q] = Idle
          /\ OneRuns /\ StoreIsFresh(fired, InFire, file)
      BY <1>1, <1>7, AloneIsSafe DEF Processes
    <2>2. NoneIsLost /\ NoneIsDueAgain
      BY <1>1, <1>7 DEF CronInv
    <2> QED
      BY <1>1, <1>3, <1>4, <1>6, <2>1, <2>2 DEF OneWrites, NoneIsLost, NoneIsDueAgain
  <1> QED
    BY <1>5, <1>6, <1>7 DEF CronInv

----------------------------------------------------------------------------
(* The tick *)

\* Without a race, what the other schedulers hold is nothing.
LEMMA OthersAreOff ==
    ASSUME CronInv, OneRuns, NEW d \in Daemons, dpc[d] # "off"
    PROVE  /\ \A e \in Daemons \ {d} : dpc[e] = "off" /\ op[e] = Idle /\ todo[e] = Empty
           /\ InFire \subseteq {job[d]}
           /\ dpc[d] # "fired" => InFire = {}
           /\ op[d] = Idle => \A e \in Daemons : op[e] = Idle
  BY DEF CronInv, OneRuns, Running, StagesAgree, InFire

\* A step of a scheduler that is not about the file and does not fire.
LEMMA QuietStepPreserves ==
    ASSUME CronInv, NEW d \in Daemons, TypeOK',
           UNCHANGED <<clock, file, op, stopping, job, toolVars, fired, ends>>,
           \A e \in Daemons \ {d} : dpc'[e] = dpc[e] /\ todo'[e] = todo[e] /\ now'[e] = now[e],
           dpc[d] \in {"asleep", "tick"}, dpc'[d] \in {"asleep", "tick"},
           now'[d] <= clock, clean' => clean,
           StoreIsPlanned(created, clock, todo'[d]),
           clean' /\ NoneIsDueAgain => StoreIsFresh(fired, InFire, todo'[d]),
           dpc'[d] = "asleep" => todo'[d] = Empty /\ op[d] = Idle
    PROVE  CronInv'
  <1>1. UNCHANGED <<held, created, deleted, ops>>
    BY DEF toolVars
  <1>2. Running' = Running /\ InFire' = InFire
    BY DEF Running, InFire
  <1>3. StoresArePlanned' /\ FiringsAreKnown'
    BY <1>1 DEF CronInv, StoresArePlanned, FiringsAreKnown
  <1>4. StagesAgree'
    BY DEF CronInv, StagesAgree
  <1>5. OneRuns => OneRuns'
    BY <1>2 DEF CronInv, OneRuns, Running
  <1>6. ASSUME clean'
        PROVE  OneRuns' /\ OneWrites' /\ NoneIsLost' /\ NoneIsDueAgain'
    <2>1. OneRuns /\ OneWrites /\ NoneIsLost /\ NoneIsDueAgain
      BY <1>6 DEF CronInv
    <2> QED
      BY <1>1, <1>2, <1>5, <1>6, <2>1 DEF OneWrites, NoneIsLost, NoneIsDueAgain
  <1> QED
    BY <1>3, <1>4, <1>5, <1>6 DEF CronInv

\* A tick begins with the file: nobody who could make it stale is about.
LEMMA TickPreserves == ASSUME CronInv, NEW d \in Daemons, Tick(d) PROVE CronInv'
  <1> DEFINE enabled == {j \in DOMAIN file : file[j].enabled}
             R == Restrict(file, enabled)
  <1>1. /\ dpc[d] = "asleep" /\ dpc' = [dpc EXCEPT ![d] = "tick"]
        /\ todo' = [todo EXCEPT ![d] = R] /\ now' = [now EXCEPT ![d] = clock]
        /\ clean' = (clean /\ \A p \in Processes : op[p].stage # "truncated")
        /\ UNCHANGED <<clock, file, op, stopping, job, toolVars, fired, ends>>
    BY DEF Tick
  <1>2. /\ R \in Stores
        /\ \A C, c : StoreIsPlanned(C, c, file) => StoreIsPlanned(C, c, R)
        /\ \A F, X : StoreIsFresh(F, X, file) => StoreIsFresh(F, X, R)
    BY RestrictedStore DEF CronInv, TypeOK
  <1> HIDE DEF R, Idle, Empty
  <1>3. Running' = Running /\ clock <= clock
    BY <1>1, CronAssumption DEF Running, CronInv, TypeOK
  <1>4. TypeOK'
    BY <1>1, <1>2, <1>3 DEF CronInv, TypeOK, toolVars
  <1>5. clean' /\ NoneIsDueAgain => StoreIsFresh(fired, InFire, R)
    <2>1. SUFFICES ASSUME clean', NoneIsDueAgain PROVE StoreIsFresh(fired, InFire, R)
      OBVIOUS
    <2>2. OneRuns /\ op[d] = Idle
      BY <1>1, <2>1 DEF CronInv, StagesAgree
    <2>3. \A e \in Daemons : op[e] = Idle
      BY <1>1, <2>2, OthersAreOff
    <2> QED
      BY <1>2, <2>1, <2>3 DEF NoneIsDueAgain
  <1>6. /\ \A e \in Daemons \ {d} : dpc'[e] = dpc[e] /\ todo'[e] = todo[e] /\ now'[e] = now[e]
        /\ dpc'[d] = "tick" /\ todo'[d] = R /\ now'[d] = clock
    BY <1>1 DEF CronInv, TypeOK
  <1>7. StoreIsPlanned(created, clock, R)
    BY <1>2 DEF CronInv, StoresArePlanned
  <1> QED
    BY <1>1, <1>3, <1>4, <1>5, <1>6, <1>7, QuietStepPreserves

\* A job that has no due time gets none, and one that is not due is left.
LEMMA PlanIsDrop ==
    ASSUME CronInv, NEW d \in Daemons, NEW j \in DOMAIN todo[d], Plan(d, j)
    PROVE  todo' = [todo EXCEPT ![d] = Without(@, j)] /\ UNCHANGED <<op, dpc, job, fired, clean>>
  <1> DEFINE r == todo[d][j]
  <1>1. r \in Records /\ j \in Jobs
    BY StoreElements DEF CronInv, TypeOK
  <1>2. IsPlanned(clock, j, r) /\ r.next = Never
    BY DEF CronInv, StoresArePlanned, StoreIsPlanned, Plan
  <1>3. NextRun(j, r) = Never
    <2>1. At \in Int /\ clock \in Int /\ Schedule[j] \in {"once", "interval", "cron", "invalid"}
      BY <1>1, CronAssumption DEF CronInv, TypeOK
    <2> HIDE DEF r
    <2>2. CASE Schedule[j] = "invalid"
      BY <2>2 DEF NextRun
    <2>3. CASE Schedule[j] = "once"
      BY <1>2, <2>1, <2>3 DEF NextRun, IsPlanned
    <2> QED
      BY <1>2, <2>2, <2>3 DEF IsPlanned
  <1>4. [r EXCEPT !.next = NextRun(j, r)].next = Never
    BY <1>1, <1>3 DEF Records
  <1> QED
    BY <1>4 DEF Plan

LEMMA DropPreserves ==
    ASSUME CronInv, NEW d \in Daemons, NEW j \in DOMAIN todo[d], dpc[d] = "tick",
           todo' = [todo EXCEPT ![d] = Without(@, j)],
           UNCHANGED <<clock, file, op, dpc, stopping, now, job, toolVars, fired, clean,
                       ends>>
    PROVE  CronInv'
  <1>1. /\ Without(todo[d], j) \in Stores
        /\ \A C, c : StoreIsPlanned(C, c, todo[d]) => StoreIsPlanned(C, c, Without(todo[d], j))
        /\ \A F, X : StoreIsFresh(F, X, todo[d]) => StoreIsFresh(F, X, Without(todo[d], j))
    BY StoreWithout DEF CronInv, TypeOK
  <1>2. /\ \A e \in Daemons \ {d} : todo'[e] = todo[e]
        /\ todo'[d] = Without(todo[d], j)
    BY DEF CronInv, TypeOK
  <1> HIDE DEF Without
  <1>3. Running' = Running
    BY DEF Running
  <1>4. TypeOK'
    BY <1>1, <1>3 DEF CronInv, TypeOK, toolVars
  <1>5. StoreIsPlanned(created, clock, todo'[d])
    BY <1>1, <1>2 DEF CronInv, StoresArePlanned
  <1>6. NoneIsDueAgain => StoreIsFresh(fired, InFire, todo'[d])
    BY <1>1, <1>2 DEF NoneIsDueAgain
  <1>7. now'[d] <= clock
    BY DEF CronInv, StagesAgree
  <1> QED
    BY <1>2, <1>4, <1>5, <1>6, <1>7, QuietStepPreserves

LEMMA EndTickPreserves == ASSUME CronInv, NEW d \in Daemons, EndTick(d) PROVE CronInv'
  <1>1. /\ dpc[d] = "tick" /\ op[d] = Idle /\ todo[d] = Empty
        /\ dpc' = [dpc EXCEPT ![d] = "asleep"] /\ now' = [now EXCEPT ![d] = 0]
        /\ UNCHANGED <<clock, file, op, stopping, todo, job, toolVars, fired, clean,
                       ends>>
    BY DEF EndTick, historyVars
  <1>2. Running' = Running /\ 0 \in 0..MaxTime /\ 0 <= clock
    BY <1>1, CronAssumption DEF Running, CronInv, TypeOK
  <1>3. TypeOK'
    BY <1>1, <1>2 DEF CronInv, TypeOK, toolVars
  <1>4. /\ \A e \in Daemons \ {d} : dpc'[e] = dpc[e] /\ todo'[e] = todo[e] /\ now'[e] = now[e]
        /\ dpc'[d] = "asleep" /\ now'[d] = 0
    BY <1>1 DEF CronInv, TypeOK
  <1>5. StoreIsPlanned(created, clock, todo'[d])
    BY <1>1 DEF CronInv, StoresArePlanned
  <1>6. NoneIsDueAgain => StoreIsFresh(fired, InFire, todo'[d])
    BY <1>1 DEF NoneIsDueAgain
  <1> HIDE DEF Idle, Empty
  <1> QED
    BY <1>1, <1>2, <1>3, <1>4, <1>5, <1>6, QuietStepPreserves

\* What fires was not fired before for that time: its record is a fresh one.
LEMMA FirePreserves ==
    ASSUME CronInv, NEW d \in Daemons, NEW j \in DOMAIN todo[d],
           dpc[d] = "tick", op[d] = Idle, Fire(d, j),
           UNCHANGED <<clock, file, stopping, now, toolVars, ends>>
    PROVE  CronInv'
  <1> DEFINE n == todo[d][j].next
  <1>1. /\ n \in 0..now[d] /\ dpc' = [dpc EXCEPT ![d] = "fired"]
        /\ job' = [job EXCEPT ![d] = j]
        /\ \/ clean /\ fired' = [fired EXCEPT ![j][n] = IF @ = 2 THEN 2 ELSE @ + 1]
           \/ fired' = fired
        /\ UNCHANGED <<op, todo, clean, held, created, deleted, ops>>
    BY DEF Fire, toolVars
  <1>2. j \in Jobs /\ j \in created
    BY StoreElements DEF CronInv, TypeOK, StoresArePlanned, StoreIsPlanned
  <1>3. n \in Times /\ n <= clock /\ n \in Nat /\ clock \in Nat
    BY <1>1, CronAssumption DEF CronInv, TypeOK, StagesAgree, Times
  <1> HIDE DEF n
  <1>4. /\ \A i \in Jobs, t \in Times :
             fired'[i][t] = fired[i][t] \/ (clean /\ i = j /\ t = n /\ fired'[i][t] = 
                                                IF fired[i][t] = 2 THEN 2 ELSE fired[i][t] + 1)
        /\ fired' \in [Jobs -> [Times -> 0..2]]
    BY <1>1, <1>2, <1>3 DEF CronInv, TypeOK
  <1>5. Running' = Running
    BY <1>1 DEF Running, CronInv, TypeOK
  <1>6. TypeOK'
    BY <1>1, <1>2, <1>4, <1>5 DEF CronInv, TypeOK
  <1>7. StoresArePlanned'
    BY <1>1 DEF CronInv, StoresArePlanned
  <1>8. StagesAgree'
    <2>1. /\ \A e \in Daemons \ {d} : dpc'[e] = dpc[e] /\ job'[e] = job[e]
          /\ dpc'[d] = "fired" /\ job'[d] = j
      BY <1>1 DEF CronInv, TypeOK
    <2> HIDE DEF Idle, Empty
    <2> QED
      BY <1>1, <2>1 DEF CronInv, StagesAgree, n
  <1>9. FiringsAreKnown'
    BY <1>1, <1>2, <1>3, <1>4 DEF CronInv, FiringsAreKnown
  <1>10. OneRuns => OneRuns'
    BY <1>1, <1>5 DEF CronInv, TypeOK, OneRuns, Running
  <1>11. ASSUME clean'
         PROVE  OneRuns' /\ OneWrites' /\ NoneIsLost' /\ NoneIsDueAgain'
    <2>1. clean /\ OneRuns /\ OneWrites /\ NoneIsLost /\ NoneIsDueAgain
      BY <1>1, <1>11 DEF CronInv
    <2>2. OneWrites' /\ NoneIsLost'
      BY <1>1, <2>1 DEF OneWrites, NoneIsLost
    <2>3. InFire = {} /\ InFire' = {j}
      <3>1. \A e \in Daemons \ {d} : dpc[e] = "off"
        BY <2>1, OthersAreOff
      <3>2. /\ \A e \in Daemons \ {d} : dpc'[e] = "off"
            /\ dpc'[d] = "fired" /\ job'[d] = j
        BY <1>1, <3>1 DEF CronInv, TypeOK
      <3> QED
        BY <3>1, <3>2 DEF InFire
    <2>4. ASSUME NEW R, StoreIsFresh(fired, {}, R), DOMAIN R \subseteq Jobs
          PROVE  StoreIsFresh(fired', {j}, R)
      BY <1>4, <2>4 DEF StoreIsFresh, IsFresh
    <2>5. fired[j][n] = 0
      <3>1. IsFresh(fired, j, todo[d][j])
        BY <2>1, <2>3 DEF NoneIsDueAgain, StoreIsFresh
      <3> QED
        BY <1>3, <3>1 DEF IsFresh, n, Never
    <2>6. \A i \in Jobs, t \in Times : fired'[i][t] <= 1
      BY <1>4, <2>1, <2>5 DEF NoneIsDueAgain
    <2>7. /\ DOMAIN file \subseteq Jobs /\ DOMAIN held \subseteq Jobs
          /\ \A p \in Processes : DOMAIN op[p].data \subseteq Jobs
          /\ \A e \in Daemons : DOMAIN todo[e] \subseteq Jobs
      BY StoreElements DEF CronInv, TypeOK
    <2>8. NoneIsDueAgain'
      BY <1>1, <2>1, <2>3, <2>4, <2>6, <2>7 DEF NoneIsDueAgain
    <2> QED
      BY <1>1, <1>10, <2>1, <2>2, <2>8
  <1> QED
    BY <1>6, <1>7, <1>8, <1>9, <1>10, <1>11 DEF CronInv

LEMMA LookPreserves == ASSUME CronInv, NEW d \in Daemons, Look(d) PROVE CronInv'
  <1>1. PICK j \in DOMAIN todo[d] : Plan(d, j) \/ Skip(d, j) \/ Fire(d, j)
    BY DEF Look
  <1>2. /\ dpc[d] = "tick" /\ op[d] = Idle
        /\ UNCHANGED <<clock, file, stopping, now, toolVars, ends>>
    BY DEF Look
  <1>3. CASE Plan(d, j)
    BY <1>2, <1>3, PlanIsDrop, DropPreserves
  <1>4. CASE Skip(d, j)
    BY <1>2, <1>4, DropPreserves DEF Skip
  <1>5. CASE Fire(d, j)
    BY <1>2, <1>5, FirePreserves
  <1> QED
    BY <1>1, <1>3, <1>4, <1>5

LEMMA RunIsRecorded ==
    ASSUME NEW c \in Times, NEW r \in Records
    PROVE  LET ran == [r EXCEPT !.last = c, !.runs = IF @ = 2 THEN 2 ELSE @ + 1]
           IN  ran \in Records /\ ran.last = c /\ ran.runs # 0
  <1> DEFINE more == IF r.runs = 2 THEN 2 ELSE r.runs + 1
  <1>1. more \in 0..2 /\ more # 0
    BY DEF Records
  <1>2. [r EXCEPT !.last = c, !.runs = IF @ = 2 THEN 2 ELSE @ + 1]
          = [r EXCEPT !.last = c, !.runs = more]
    BY DEF Records
  <1> HIDE DEF more
  <1>3. LET ran == [r EXCEPT !.last = c, !.runs = more]
        IN  ran \in Records /\ ran.last = c /\ ran.runs = more
    BY <1>1 DEF Records
  <1> QED
    BY <1>1, <1>2, <1>3

\* What is saved of a run is due after the time of the run, or never.
LEMMA RecordRunPreserves == ASSUME CronInv, NEW d \in Daemons, RecordRun(d) PROVE CronInv'
  <1> DEFINE j == job[d]
             ran == [todo[d][j] EXCEPT !.last = clock, !.runs = IF @ = 2 THEN 2 ELSE @ + 1]
             saved == [ran EXCEPT !.next = NextRun(j, ran)]
             R == Put(file, j, saved)
             S == Without(todo[d], j)
  <1>1. /\ dpc[d] = "fired" /\ Begin(d, R)
        /\ todo' = [todo EXCEPT ![d] = S] /\ job' = [job EXCEPT ![d] = None]
        /\ dpc' = [dpc EXCEPT ![d] = "tick"]
        /\ UNCHANGED <<clock, file, stopping, now, toolVars, fired, ends>>
    BY DEF RecordRun, Save
  <1>2. UNCHANGED <<held, created, deleted, ops>>
    BY <1>1 DEF toolVars
  <1>3. d \in Processes /\ Daemons \subseteq Processes
    BY DEF Processes
  <1>4. /\ j \in DOMAIN todo[d] /\ op[d] = Idle
        /\ j \in Jobs /\ todo[d][j] \in Records /\ j \in created
    <2>1. j \in DOMAIN todo[d] /\ op[d] = Idle
      BY <1>1 DEF CronInv, StagesAgree
    <2> QED
      BY <2>1, StoreElements DEF CronInv, TypeOK, StoresArePlanned, StoreIsPlanned
  <1>5. /\ ran \in Records /\ ran.last = clock /\ ran.runs # 0
        /\ clock \in Times
    <2>1. clock \in Times
      BY CronAssumption DEF CronInv, TypeOK, Times
    <2> QED
      BY <1>4, <2>1, RunIsRecorded
  <1> HIDE DEF ran
  <1>6. /\ NextRun(j, ran) \in Times \union {Never}
        /\ IsPlanned(clock, j, saved)
        /\ NextRun(j, ran) = Never \/ NextRun(j, ran) > clock
    BY <1>4, <1>5, NextRunIsKnown DEF CronInv
  <1>7. saved \in Records /\ saved.next = NextRun(j, ran)
    BY <1>5, <1>6 DEF Records
  <1>8. IsFresh(fired, j, saved)
    <2>1. \A t \in Times : fired[j][t] # 0 => t <= clock
      BY <1>4 DEF CronInv, FiringsAreKnown
    <2>2. clock \in Int /\ \A t \in Times : t \in Int
      BY CronAssumption DEF CronInv, TypeOK, Times
    <2> HIDE DEF saved, j
    <2> QED
      BY <1>6, <1>7, <2>1, <2>2 DEF IsFresh, Times, Never
  <1> HIDE DEF saved
  <1>9. /\ R \in Stores /\ DOMAIN R = DOMAIN file \union {j}
        /\ \A C, c : StoreIsPlanned(C, c, file) /\ j \in C /\ IsPlanned(c, j, saved) =>
                        StoreIsPlanned(C, c, R)
        /\ \A F : StoreIsFresh(F, {j}, file) /\ IsFresh(F, j, saved) => StoreIsFresh(F, {}, R)
    BY <1>4, <1>7, StoreWith DEF CronInv, TypeOK
  <1>10. /\ S \in Stores /\ DOMAIN S = DOMAIN todo[d] \ {j}
         /\ \A i \in DOMAIN todo[d] \ {j} : S[i] = todo[d][i]
         /\ \A C, c : StoreIsPlanned(C, c, todo[d]) => StoreIsPlanned(C, c, S)
    BY StoreWithout DEF CronInv, TypeOK
  <1> HIDE DEF R, S
  <1>11. /\ op' \in [Processes -> [stage : {"idle", "loaded", "truncated"}, data : Stores]]
         /\ \A q \in Processes \ {d} : op'[q] = op[q]
         /\ op'[d].stage = "loaded" /\ op'[d].data = R /\ op'[d] # Idle
         /\ clean' \in BOOLEAN /\ (clean' => clean /\ Alone(d))
    BY <1>1, <1>3, <1>9, BeginKeeps
  <1>12. /\ \A e \in Daemons \ {d} : dpc'[e] = dpc[e] /\ todo'[e] = todo[e] /\ job'[e] = job[e]
         /\ dpc'[d] = "tick" /\ todo'[d] = S
    BY <1>1 DEF CronInv, TypeOK
  <1>13. Running' = Running
    BY <1>1, <1>12 DEF Running
  <1> HIDE DEF Idle, Empty
  <1>14. TypeOK'
    BY <1>1, <1>2, <1>10, <1>11, <1>13 DEF CronInv, TypeOK
  <1>15. StoresArePlanned'
    BY <1>1, <1>2, <1>3, <1>4, <1>6, <1>9, <1>10, <1>11, <1>12 DEF CronInv, StoresArePlanned
  <1>16. StagesAgree'
    BY <1>1, <1>3, <1>11, <1>12 DEF CronInv, StagesAgree
  <1>17. FiringsAreKnown' /\ (OneRuns => OneRuns')
    BY <1>1, <1>2, <1>12, <1>13 DEF CronInv, FiringsAreKnown, OneRuns, Running
  <1>18. ASSUME clean'
         PROVE  OneRuns' /\ OneWrites' /\ NoneIsLost' /\ NoneIsDueAgain'
    <2>1. /\ \A q \in Processes : op[q] = Idle
          /\ OneRuns /\ created \ deleted \subseteq DOMAIN file
          /\ StoreIsFresh(fired, InFire, file) /\ held = Empty
      <3>1. Session \notin Daemons
        BY CronAssumption
      <3> QED
        BY <1>3, <1>4, <1>11, <1>18, <3>1, AloneIsSafe
    <2>2. OneWrites' /\ NoneIsLost'
      BY <1>1, <1>2, <1>3, <1>9, <1>11, <2>1 DEF OneWrites, NoneIsLost
    <2>3. /\ \A e \in Daemons \ {d} : dpc[e] = "off" /\ todo[e] = Empty
          /\ InFire \subseteq {j}
      BY <1>1, <2>1, OthersAreOff
    <2>4. InFire' = {}
      BY <1>12, <2>3 DEF InFire
    <2>5. NoneIsDueAgain
      BY <1>11, <1>18 DEF CronInv
    <2>6. StoreIsFresh(fired, {}, R)
      BY <1>8, <1>9, <2>1, <2>3 DEF StoreIsFresh
    <2>7. StoreIsFresh(fired, {}, S)
      BY <1>10, <2>3, <2>5 DEF NoneIsDueAgain, StoreIsFresh
    <2>8. /\ \A F, X : StoreIsFresh(F, X, Empty)
          /\ Idle.data = Empty
      BY EmptyStore DEF Idle
    <2>9. NoneIsDueAgain'
      BY <1>1, <1>2, <1>3, <1>11, <1>12, <2>1, <2>3, <2>4, <2>5, <2>6, <2>7, <2>8
         DEF NoneIsDueAgain
    <2> QED
      BY <1>1, <1>17, <2>1, <2>2, <2>9
  <1> QED
    BY <1>14, <1>15, <1>16, <1>17, <1>18 DEF CronInv

LEMMA CronStepPreserves == CronInv /\ [Next]_vars => CronInv'
  <1> SUFFICES ASSUME CronInv, [Next]_vars PROVE CronInv'
    OBVIOUS
  <1>1. ASSUME NEW d \in Daemons, Start(d) \/ Run(d) \/ Stop(d) \/ Kill(d) PROVE CronInv'
    <2>1. d \in Processes
      BY DEF Processes
    <2>2. CASE Start(d) \/ Leave(d) \/ Stop(d)
      BY <2>2, LifecyclePreserves
    <2>3. CASE Tick(d) \/ Look(d) \/ RecordRun(d) \/ EndTick(d)
      BY <2>3, TickPreserves, LookPreserves, RecordRunPreserves, EndTickPreserves
    <2>4. CASE Truncate(d) \/ Write(d)
      BY <2>1, <2>4, TruncatePreserves, WritePreserves
    <2>5. CASE Kill(d)
      BY <2>5, KillPreserves
    <2> QED
      BY <1>1, <2>2, <2>3, <2>4, <2>5 DEF Run
  <1>3. CASE Truncate(Session) \/ Write(Session) \/ ToggleJob
    BY <1>3, TruncatePreserves, WritePreserves, ToggleJobPreserves DEF Processes
  <1>4. ASSUME NEW j \in Jobs, CreateJob(j) \/ DeleteJob(j) \/ GetJob(j) PROVE CronInv'
    BY <1>4, CreateJobPreserves, DeleteJobPreserves, GetJobPreserves
  <1>5. CASE Pass
    BY <1>5, PassPreserves
  <1>6. CASE UNCHANGED vars
    BY <1>6, CronStutterPreserves
  <1> QED
    BY <1>1, <1>3, <1>4, <1>5, <1>6 DEF Next

----------------------------------------------------------------------------
(* The theorems of the scheduler *)

\* The inductive invariant holds of every behaviour.
THEOREM CronInvariant == Spec => []CronInv
  <1>1. Init => CronInv
    BY CronInitEstablishes
  <1>2. CronInv /\ [Next]_vars => CronInv'
    BY CronStepPreserves
  <1> QED
    BY <1>1, <1>2, PTL DEF Spec

\* The variables of the store, of the schedulers and of the tools have their
\* types: no due time leaves the range of the clock by more than a period.
THEOREM CronTypes == Spec => []TypeOK
  <1>1. CronInv => TypeOK
    BY DEF CronInv
  <1> QED
    BY <1>1, CronInvariant, PTL

\* A job fires once at most for each time it is due, unless a scheduler is
\* killed or two processes work on the file (cron/scheduler.py:74-137).
THEOREM JobsFireOnce == Spec => []FiresOncePerDueTime
  <1>1. CronInv => FiresOncePerDueTime
    BY DEF CronInv, NoneIsDueAgain, FiresOncePerDueTime
  <1> QED
    BY <1>1, CronInvariant, PTL

\* A job that was created and not deleted is in the file, unless a process was
\* killed or two worked on the file (cron/store.py:19-51).
THEOREM JobsAreKept == Spec => []JobsPersist
  <1>1. CronInv => JobsPersist
    BY DEF CronInv, NoneIsLost, JobsPersist
  <1> QED
    BY <1>1, CronInvariant, PTL

----------------------------------------------------------------------------
(* Who serves, and what the pid file holds                                 *)

\* What each process is there for, and how far it may come.
TasksAgree ==
    \A p \in Launched :
        /\ phase[p] \in {"open", "write"} \union Named => p \in Schedulers
        /\ phase[p] = "probe" => seen[p] \in Schedulers
        /\ p \in Schedulers /\ phase[p] # "off" => task[p] = "start"
        /\ p \in Commands => task[p] # "start"

\* A start has no other process beside it.
StartsAreAlone ==
    \A p, q \in Busy : "start" \in {task[p], task[q]} => p = q

\* The file names the scheduler that is set up; what a process has read of it
\* has not been replaced, and who is about to remove or to write it has no
\* scheduler before it.
FileIsKept ==
    /\ \A d \in Holders : pidFile = d
    /\ \A p \in Busy :
         /\ phase[p] = "probe" => pidFile \in {seen[p], NoPid}
         /\ phase[p] \in {"unlink", "open", "write"} => Holders = {}
         /\ phase[p] = "write" => p \in opened

DaemonInv ==
    /\ DaemonTypeOK /\ TasksAgree
    /\ ~ crossed /\ ~ refused => StartsAreAlone /\ FileIsKept

LEMMA DaemonInitEstablishes == DaemonInit => DaemonInv
  <1> SUFFICES ASSUME DaemonInit PROVE DaemonInv
    OBVIOUS
  <1>1. Busy = {} /\ Holders = {}
    BY DEF DaemonInit, Busy, Holders, Launched, Undecided, Named
  <1>2. DaemonTypeOK
    <2>1. 0 \in 0..MaxLaunches
      BY DaemonAssumption
    <2>2. /\ phase \in [Launched -> {"off"} \union Undecided \union Named]
          /\ task \in [Launched -> {"start", "stop", "status"}]
          /\ seen \in [Launched -> Schedulers \union {NoPid, Torn}]
      BY DEF DaemonInit
    <2> QED
      BY <2>1, <2>2 DEF DaemonInit, DaemonTypeOK
  <1>3. TasksAgree
    BY DEF DaemonInit, TasksAgree, Launched, Named
  <1> QED
    BY <1>1, <1>2, <1>3 DEF DaemonInv, StartsAreAlone, FileIsKept

LEMMA DaemonStutterPreserves == DaemonInv /\ UNCHANGED daemonVarsAll => DaemonInv'
  BY DEF daemonVarsAll, daemonHistory, DaemonInv, DaemonTypeOK, TasksAgree, StartsAreAlone,
         FileIsKept, Launched, Busy, Holders, Serving

\* A new process is the only one, or the history is crossed.
LEMMA LaunchPreserves ==
    ASSUME DaemonInv, NEW p \in Launched, NEW t \in {"start", "stop", "status"}, Launch(p, t),
           p \in Schedulers <=> t = "start"
    PROVE  DaemonInv'
  <1>1. DaemonTypeOK'
    BY DaemonAssumption DEF DaemonInv, DaemonTypeOK, Launch, Serving, Undecided
  <1>2. TasksAgree'
    BY DaemonAssumption DEF DaemonInv, DaemonTypeOK, TasksAgree, Launch, Launched, Named
  <1>3. Busy' = Busy \union {p} /\ Holders' = Holders /\ p \notin Busy
    BY DaemonAssumption
       DEF DaemonInv, DaemonTypeOK, Launch, Launched, Busy, Holders, Undecided, Named
  <1>4. ASSUME ~ crossed', ~ refused' PROVE StartsAreAlone' /\ FileIsKept'
    BY <1>3, <1>4
       DEF DaemonInv, DaemonTypeOK, StartsAreAlone, FileIsKept, Launch, Busy
  <1> QED
    BY <1>1, <1>2, <1>4 DEF DaemonInv

\* Looking decides on the file as it is, or as it was when it was read.
LEMMA ConsultPreserves ==
    ASSUME DaemonInv, NEW p \in Launched, Consult(p)
    PROVE  DaemonInv'
  <1> USE DEF daemonHistory
  <1>1. CASE CheckExists(p)
    <2>1. DaemonTypeOK' /\ TasksAgree'
      BY <1>1, DaemonAssumption
         DEF CheckExists, Unserved, DaemonInv, DaemonTypeOK, TasksAgree, Launched, Serving,
             Undecided, Named
    <2>2. /\ Busy' \subseteq Busy /\ Holders' = Holders
          /\ \A q \in Busy' : q # p => phase'[q] = phase[q]
      BY <1>1, DaemonAssumption
         DEF CheckExists, Unserved, DaemonInv, DaemonTypeOK, Launched, Busy, Holders,
             Undecided, Named
    <2>3. phase'[p] \in {"open", "off", "read"} /\ (phase'[p] = "open" => pidFile = NoPid)
      BY <1>1 DEF CheckExists, Unserved, DaemonInv, DaemonTypeOK
    <2>4. ASSUME ~ crossed', ~ refused' PROVE StartsAreAlone' /\ FileIsKept'
      BY <1>1, <2>2, <2>3, <2>4, DaemonAssumption
         DEF CheckExists, DaemonInv, StartsAreAlone, FileIsKept, Holders
    <2> QED
      BY <2>1, <2>4 DEF DaemonInv
  <1>2. CASE ReadPid(p)
    <2>1. DaemonTypeOK' /\ TasksAgree'
      BY <1>2, DaemonAssumption
         DEF ReadPid, DaemonInv, DaemonTypeOK, TasksAgree, Launched, Serving, Undecided, Named
    <2>2. /\ Busy' \subseteq Busy /\ Holders' = Holders
          /\ \A q \in Busy' : q # p => phase'[q] = phase[q] /\ seen'[q] = seen[q]
      BY <1>2, DaemonAssumption
         DEF ReadPid, DaemonInv, DaemonTypeOK, Launched, Busy, Holders, Undecided, Named
    <2>3. /\ phase'[p] \in {"off", "unlink", "probe"} /\ seen'[p] = pidFile
          /\ phase'[p] = "unlink" => pidFile = Torn
      BY <1>2 DEF ReadPid, DaemonInv, DaemonTypeOK
    <2>4. ASSUME ~ crossed', ~ refused' PROVE StartsAreAlone' /\ FileIsKept'
      BY <1>2, <2>2, <2>3, <2>4, DaemonAssumption
         DEF ReadPid, DaemonInv, StartsAreAlone, FileIsKept, Holders
    <2> QED
      BY <2>1, <2>4 DEF DaemonInv
  <1>3. CASE FindGone(p)
    <2>1. DaemonTypeOK' /\ TasksAgree'
      BY <1>3, DaemonAssumption
         DEF FindGone, DaemonInv, DaemonTypeOK, TasksAgree, Launched, Serving, Undecided, Named
    <2>2. /\ Busy' \subseteq Busy /\ Holders' = Holders
          /\ phase'[p] = "unlink" /\ \A q \in Busy' : q # p => phase'[q] = phase[q]
      BY <1>3, DaemonAssumption
         DEF FindGone, DaemonInv, DaemonTypeOK, Launched, Busy, Holders, Undecided, Named
    <2>3. p \in Busy /\ seen[p] \notin Holders
      BY <1>3 DEF FindGone, Alive, Busy, Holders, Undecided, Named
    <2>4. ASSUME ~ crossed', ~ refused' PROVE StartsAreAlone' /\ FileIsKept'
      BY <1>3, <2>2, <2>3, <2>4, DaemonAssumption
         DEF FindGone, DaemonInv, StartsAreAlone, FileIsKept, Holders
    <2> QED
      BY <2>1, <2>4 DEF DaemonInv
  <1>4. CASE FindForbidden(p)
    BY <1>4, DaemonAssumption
       DEF FindForbidden, DaemonInv, DaemonTypeOK, TasksAgree, Launched, Serving, Undecided, Named
  <1>5. CASE FindAlive(p)
    <2>1. DaemonTypeOK' /\ TasksAgree'
      BY <1>5, DaemonAssumption
         DEF FindAlive, DaemonInv, DaemonTypeOK, TasksAgree, Launched, Serving, Undecided, Named
    <2>2. /\ Busy' \subseteq Busy /\ Holders' = Holders
          /\ \A q \in Busy' : phase'[q] = phase[q]
      BY <1>5, DaemonAssumption
         DEF FindAlive, DaemonInv, DaemonTypeOK, Launched, Busy, Holders, Undecided, Named
    <2>3. ASSUME ~ crossed', ~ refused' PROVE StartsAreAlone' /\ FileIsKept'
      BY <1>5, <2>2, <2>3 DEF FindAlive, DaemonInv, StartsAreAlone, FileIsKept
    <2> QED
      BY <2>1, <2>3 DEF DaemonInv
  <1>6. CASE UnlinkStale(p)
    <2>1. DaemonTypeOK' /\ TasksAgree'
      BY <1>6, DaemonAssumption
         DEF UnlinkStale, RemoveFile, Unserved, DaemonInv, DaemonTypeOK, TasksAgree, Launched,
             Serving, Undecided, Named
    <2>2. /\ Busy' \subseteq Busy /\ Holders' = Holders /\ p \in Busy
          /\ phase'[p] \in {"open", "off"}
          /\ \A q \in Busy' : q # p => phase'[q] = phase[q]
      BY <1>6, DaemonAssumption
         DEF UnlinkStale, Unserved, DaemonInv, DaemonTypeOK, Launched, Busy, Holders,
             Undecided, Named
    <2>3. \A q \in Busy : phase[q] = "write" => task[q] = "start"
      BY DEF DaemonInv, TasksAgree, Busy
    <2>4. ASSUME ~ crossed', ~ refused' PROVE StartsAreAlone' /\ FileIsKept'
      BY <1>6, <2>2, <2>3, <2>4
         DEF UnlinkStale, RemoveFile, DaemonInv, StartsAreAlone, FileIsKept
    <2> QED
      BY <2>1, <2>4 DEF DaemonInv
  <1> QED
    BY <1>1, <1>2, <1>3, <1>4, <1>5, <1>6 DEF Consult

\* Processes that end, or serve no longer, leave less to be said of.
LEMMA EndingPreserves ==
    ASSUME DaemonInv, DaemonTypeOK', UNCHANGED <<pidFile, task, seen, crossed, refused>>,
           \A p \in Launched :
               \/ phase'[p] \in {phase[p], "off"}
               \/ phase[p] \in Named /\ phase'[p] \in Named,
           \A p \in Schedulers : phase'[p] = "write" /\ p \in opened => p \in opened'
    PROVE  DaemonInv'
  <1>1. TasksAgree'
    BY DaemonAssumption DEF DaemonInv, TasksAgree, Launched, Named
  <1>2. /\ Busy' \subseteq Busy /\ Holders' \subseteq Holders
        /\ \A q \in Busy' : phase'[q] = phase[q]
    BY DEF Busy, Holders, Launched, Undecided, Named
  <1>3. \A q \in Busy : phase[q] = "write" => q \in Schedulers
    BY DEF DaemonInv, TasksAgree, Busy
  <1>4. ASSUME ~ crossed', ~ refused' PROVE StartsAreAlone' /\ FileIsKept'
    BY <1>2, <1>3, <1>4 DEF DaemonInv, StartsAreAlone, FileIsKept
  <1> QED
    BY <1>1, <1>4 DEF DaemonInv

LEMMA SignalPreserves ==
    ASSUME DaemonInv, NEW d \in Schedulers, NEW stops \in SUBSET Commands, Signal(d, stops),
           UNCHANGED <<pidFile, task, seen, daemonHistory>>
    PROVE  DaemonInv'
  <1> DEFINE dies == phase[d] \in Undecided \union {"setup"}
             gone == IF dies THEN stops \union {d} ELSE stops
  <1>1. /\ phase' = [p \in Launched |-> IF p \in gone THEN "off" ELSE phase[p]]
        /\ stopped' = IF phase[d] = "serving" THEN stopped \union {d} ELSE stopped
        /\ told' = IF dies THEN told \ {d} ELSE IF stops # {} THEN told \union {d} ELSE told
        /\ opened' = opened \ gone
    BY DEF Signal
  <1>2. gone \subseteq Launched /\ (d \in gone <=> dies)
        /\ \A e \in Schedulers : e \in gone => e = d
    BY DaemonAssumption DEF Launched
  <1>3. dies => d \notin Serving
    BY DEF Serving, Undecided
  <1> HIDE DEF gone, dies
  <1>4. DaemonTypeOK'
    <2>1. phase' \in [Launched -> {"off"} \union Undecided \union Named]
      BY <1>1 DEF DaemonInv, DaemonTypeOK
    <2>2. Serving' = Serving
      BY <1>1, <1>2, <1>3 DEF Serving, Launched
    <2> QED
      BY <1>1, <2>1, <2>2 DEF DaemonInv, DaemonTypeOK, Serving, daemonHistory
  <1>5. \A p \in Launched : phase'[p] \in {phase[p], "off"}
    BY <1>1
  <1>6. \A p \in Schedulers : phase'[p] = "write" /\ p \in opened => p \in opened'
    BY <1>1 DEF Launched
  <1> QED
    BY <1>4, <1>5, <1>6, EndingPreserves DEF daemonHistory

LEMMA KillProcessPreserves ==
    ASSUME DaemonInv, NEW p \in Launched, KillProcess(p)
    PROVE  DaemonInv'
  <1>1. DaemonTypeOK'
    BY DEF KillProcess, DaemonInv, DaemonTypeOK, Serving, Launched, daemonHistory
  <1> QED
    BY <1>1, EndingPreserves DEF KillProcess, DaemonInv, DaemonTypeOK, daemonHistory

\* A scheduler opens and writes the file alone, and has it for itself from then
\* on.
LEMMA SchedulerPreserves ==
    ASSUME DaemonInv, NEW d \in Schedulers, RunScheduler(d) \/ Raise(d)
    PROVE  DaemonInv'
  <1> USE DEF daemonHistory
  <1>0. d \in Launched /\ DOMAIN phase = Launched
    BY DEF Launched, DaemonInv, DaemonTypeOK
  <1>1. CASE OpenFile(d)
    <2>1. DaemonTypeOK' /\ TasksAgree'
      BY <1>1, DaemonAssumption
         DEF OpenFile, DaemonInv, DaemonTypeOK, TasksAgree, Launched, Serving, Undecided, Named
    <2>2. /\ Busy' = Busy /\ Holders' = Holders /\ d \in Busy /\ task[d] = "start"
          /\ phase'[d] = "write" /\ \A q \in Busy : q # d => phase'[q] = phase[q]
      BY <1>0, <1>1
         DEF OpenFile, DaemonInv, TasksAgree, Busy, Holders, Undecided, Named
    <2>3. ASSUME ~ crossed', ~ refused' PROVE StartsAreAlone' /\ FileIsKept'
      BY <1>1, <2>2, <2>3 DEF OpenFile, DaemonInv, StartsAreAlone, FileIsKept
    <2> QED
      BY <2>1, <2>3 DEF DaemonInv
  <1>2. CASE WriteOwnPid(d)
    <2>1. DaemonTypeOK' /\ TasksAgree'
      BY <1>2, DaemonAssumption
         DEF WriteOwnPid, DaemonInv, DaemonTypeOK, TasksAgree, Launched, Serving, Undecided, Named
    <2>2. /\ Busy' = Busy \ {d} /\ Holders' = Holders \union {d}
          /\ d \in Busy /\ task[d] = "start"
      BY <1>0, <1>2
         DEF WriteOwnPid, DaemonInv, TasksAgree, Busy, Holders, Undecided, Named
    <2>3. ASSUME ~ crossed', ~ refused' PROVE StartsAreAlone' /\ FileIsKept'
      <3>1. StartsAreAlone /\ FileIsKept
        BY <1>2, <2>3 DEF WriteOwnPid, DaemonInv
      <3>2. Busy' = {} /\ Holders' = {d} /\ pidFile' = d
        BY <1>2, <2>2, <3>1 DEF WriteOwnPid, StartsAreAlone, FileIsKept
      <3> QED
        BY <3>2 DEF StartsAreAlone, FileIsKept
    <2> QED
      BY <2>1, <2>3 DEF DaemonInv
  <1>3. CASE InstallHandlers(d) \/ BeginServing(d)
    <2>1. PICK x \in {"ready", "serving"} :
            /\ phase[d] \in Named /\ phase[d] # "serving" /\ phase' = [phase EXCEPT ![d] = x]
            /\ UNCHANGED <<pidFile, task, seen, opened, stopped, told, daemonHistory>>
      BY <1>3 DEF InstallHandlers, BeginServing, Named
    <2>2. /\ phase' \in [Launched -> {"off"} \union Undecided \union Named]
          /\ Serving \subseteq Serving'
      BY <1>0, <2>1 DEF DaemonInv, DaemonTypeOK, Serving, Named
    <2>3. DaemonTypeOK'
      BY <2>1, <2>2 DEF DaemonInv, DaemonTypeOK
    <2>4. \A p \in Launched : phase'[p] = phase[p] \/ (p = d /\ phase'[p] \in Named)
      BY <1>0, <2>1 DEF Named
    <2> QED
      BY <1>0, <2>1, <2>3, <2>4, EndingPreserves
  <1>4. CASE Return(d) \/ Raise(d)
    <2>1. /\ phase[d] = "serving" /\ phase' = [phase EXCEPT ![d] = "leaving"]
          /\ stopped' = stopped \ {d}
          /\ UNCHANGED <<pidFile, task, seen, opened, told, daemonHistory>>
      BY <1>4 DEF Return, Raise
    <2>2. /\ phase' \in [Launched -> {"off"} \union Undecided \union Named]
          /\ Serving' = Serving \ {d}
      BY <1>0, <2>1 DEF DaemonInv, DaemonTypeOK, Serving, Named
    <2>3. DaemonTypeOK'
      BY <2>1, <2>2 DEF DaemonInv, DaemonTypeOK
    <2>4. \A p \in Launched :
            phase'[p] = phase[p] \/ (phase[p] \in Named /\ phase'[p] \in Named)
      BY <1>0, <2>1 DEF Named
    <2> QED
      BY <1>0, <2>1, <2>3, <2>4, EndingPreserves
  <1>5. CASE Quit(d)
    <2>1. DaemonTypeOK' /\ TasksAgree'
      BY <1>5, DaemonAssumption
         DEF Quit, RemoveFile, DaemonInv, DaemonTypeOK, TasksAgree, Launched, Serving,
             Undecided, Named
    <2>2. /\ Busy' = Busy /\ Holders' = Holders \ {d} /\ d \in Holders
          /\ \A q \in Busy : phase'[q] = phase[q]
      BY <1>0, <1>5 DEF Quit, Busy, Holders, Undecided, Named
    <2>3. ASSUME ~ crossed', ~ refused' PROVE StartsAreAlone' /\ FileIsKept'
      <3>1. StartsAreAlone /\ FileIsKept
        BY <1>5, <2>3 DEF Quit, DaemonInv
      <3>2. Holders' = {} /\ pidFile' = NoPid
        BY <1>5, <2>2, <3>1 DEF Quit, RemoveFile, FileIsKept
      <3> QED
        BY <1>5, <2>2, <3>1, <3>2 DEF Quit, StartsAreAlone, FileIsKept
    <2> QED
      BY <2>1, <2>3 DEF DaemonInv
  <1> QED
    BY <1>1, <1>2, <1>3, <1>4, <1>5 DEF RunScheduler

LEMMA DaemonStepPreserves == DaemonInv /\ [DaemonNext]_daemonVarsAll => DaemonInv'
  <1> SUFFICES ASSUME DaemonInv, [DaemonNext]_daemonVarsAll PROVE DaemonInv'
    OBVIOUS
  <1>1. ASSUME NEW d \in Schedulers,
               Launch(d, "start") \/ RunScheduler(d) \/ Raise(d) \/ Interrupt(d)
        PROVE  DaemonInv'
    BY <1>1, LaunchPreserves, SchedulerPreserves, SignalPreserves DEF Interrupt, Launched
  <1>2. ASSUME NEW c \in Commands, Launch(c, "stop") \/ Launch(c, "status")
        PROVE  DaemonInv'
    BY <1>2, LaunchPreserves, DaemonAssumption DEF Launched
  <1>3. ASSUME NEW c \in Commands, Terminate(c) PROVE DaemonInv'
    <2>1. seen[c] \in Schedulers
      BY <1>3 DEF Terminate, DaemonInv, TasksAgree, Launched
    <2> QED
      BY <1>3, <2>1, SignalPreserves DEF Terminate
  <1>4. ASSUME NEW p \in Launched, Consult(p) \/ KillProcess(p) PROVE DaemonInv'
    BY <1>4, ConsultPreserves, KillProcessPreserves
  <1>5. CASE UNCHANGED daemonVarsAll
    BY <1>5, DaemonStutterPreserves
  <1> QED
    BY <1>1, <1>2, <1>3, <1>4, <1>5 DEF DaemonNext

\* The inductive invariant holds of every behaviour.
THEOREM DaemonInvariant == DaemonSpec => []DaemonInv
  <1>1. DaemonInit => DaemonInv
    BY DaemonInitEstablishes
  <1>2. DaemonInv /\ [DaemonNext]_daemonVarsAll => DaemonInv'
    BY DaemonStepPreserves
  <1> QED
    BY <1>1, <1>2, PTL DEF DaemonSpec

\* One scheduler serves at most, and the pid file names it, unless a start was
\* under way together with another start, a stop or a question for the status,
\* or a live scheduler refused the signal (cron/daemon.py:22-75).
THEOREM OneSchedulerRuns == DaemonSpec => []OneScheduler
  <1>1. DaemonInv => OneScheduler
    BY DEF DaemonInv, FileIsKept, OneScheduler, Holders, Serving, Named
  <1> QED
    BY <1>1, DaemonInvariant, PTL

=============================================================================
