---------------------------- MODULE TaskManager ----------------------------
(***************************************************************************)
(* Background tasks (tasks/manager.py): a task is a record in the store    *)
(* and a process of the operating system.  The coroutine that creates it,  *)
(* the one that monitors its output and the one that stops it all write    *)
(* the record; the process ends, and lets go of its output, when it likes. *)
(* A store operation is one step: CronScheduler is about its parts.        *)
(***************************************************************************)
EXTENDS Integers

CONSTANTS
    Tasks,
    Followed       \* bound: tasks whose life is explored after they have started

ASSUME FollowedAssumption == Followed \subseteq Tasks

VARIABLES
    record,      \* the state in the record of each task, "none" if there is none
    exitCode,    \* exit_code in the record
    proc,        \* the process: "none", "alive" or "exited"
    code,        \* its returncode; any negative one is Signalled
    piped,       \* somebody holds its output open: itself or a child of its own
    signals,     \* the last signal it was sent: "none", "term" or "kill"
    tracked,     \* _processes
    monitor,     \* _monitor_process: "none", "reading", "reaping" or "over"
    stopper,     \* stop_task: "none" or "waiting"
    spawning,    \* tasks in an await of create_subprocess
    torn,        \* history: tasks whose monitor met a line that is too long
    up           \* the session, or daemon, of the manager is alive

procVars == <<proc, code, piped>>
taskVars == <<record, exitCode, procVars, signals, tracked, monitor, stopper, spawning, torn, up>>

NoCode == 99
Signalled == -1
Codes == {0, 1, Signalled, NoCode}
Final == {"completed", "failed", "killed"}

TaskInit ==
    /\ record = [t \in Tasks |-> "none"] /\ exitCode = [t \in Tasks |-> NoCode]
    /\ proc = [t \in Tasks |-> "none"] /\ code = [t \in Tasks |-> NoCode]
    /\ piped = [t \in Tasks |-> FALSE] /\ signals = [t \in Tasks |-> "none"]
    /\ tracked = {} /\ spawning = {} /\ torn = {}
    /\ monitor = [t \in Tasks |-> "none"] /\ stopper = [t \in Tasks |-> "none"]
    /\ up = TRUE

----------------------------------------------------------------------------
(* The manager *)

\* The record says running before there is a process.
Create(t) ==
    /\ up /\ record[t] = "none"
    /\ record' = [record EXCEPT ![t] = "running"]
    /\ spawning' = spawning \union {t}
    /\ UNCHANGED <<exitCode, procVars, signals, tracked, monitor, stopper, torn, up>>

Spawn(t) ==
    /\ t \in spawning
    /\ spawning' = spawning \ {t}
    /\ proc' = [proc EXCEPT ![t] = "alive"]
    /\ piped' = [piped EXCEPT ![t] = TRUE]
    /\ tracked' = tracked \union {t}
    /\ monitor' = [monitor EXCEPT ![t] = "reading"]
    /\ UNCHANGED <<record, exitCode, code, signals, stopper, torn, up>>

\* create_subprocess raises, or its caller is cancelled: the record stays.
FailSpawn(t) ==
    /\ t \in spawning
    /\ spawning' = spawning \ {t}
    /\ UNCHANGED <<record, exitCode, procVars, signals, tracked, monitor, stopper, torn, up>>

Verdict(t) ==
    CASE code[t] = 0 -> "completed"
      [] code[t] = Signalled -> "killed"
      [] OTHER -> "failed"

\* The end of _monitor_process.
Conclude(t) ==
    /\ monitor' = [monitor EXCEPT ![t] = "over"]
    /\ tracked' = tracked \ {t}
    /\ record' = [record EXCEPT ![t] = Verdict(t)]
    /\ exitCode' = [exitCode EXCEPT ![t] = code[t]]

\* Variant: the process is taken from _processes before it is waited for.
UntrackAtEndOfOutput(t) ==
    /\ monitor[t] = "reading" /\ ~ piped[t]
    /\ monitor' = [monitor EXCEPT ![t] = "reaping"]
    /\ tracked' = tracked \ {t}
    /\ UNCHANGED <<record, exitCode, procVars, signals, stopper, spawning, torn, up>>

MonitorEof(t) ==
    /\ monitor[t] = "reading" /\ ~ piped[t]
    /\ monitor' = [monitor EXCEPT ![t] = "reaping"]
    /\ UNCHANGED <<record, exitCode, procVars, signals, tracked, stopper, spawning, torn, up>>

\* Variant: nobody is left to write the record.
ReapOnly(t) ==
    /\ monitor[t] = "reaping" /\ proc[t] = "exited"
    /\ monitor' = [monitor EXCEPT ![t] = "over"]
    /\ tracked' = tracked \ {t}
    /\ UNCHANGED <<record, exitCode, procVars, signals, stopper, spawning, torn, up>>

MonitorReap(t) ==
    /\ monitor[t] = "reaping" /\ proc[t] = "exited"
    /\ Conclude(t)
    /\ UNCHANGED <<procVars, signals, stopper, spawning, torn, up>>

\* A line longer than the limit of the stream raises; the exception is dropped
\* and the record written as if the process had ended.
MonitorOverlong(t) ==
    /\ monitor[t] = "reading" /\ piped[t]
    /\ Conclude(t)
    /\ torn' = torn \union {t}
    /\ UNCHANGED <<procVars, signals, stopper, spawning, up>>

\* stop_task refuses a task it does not track, or whose process has ended.
StopTask(t) ==
    /\ up /\ t \in tracked /\ stopper[t] = "none" /\ proc[t] = "alive"
    /\ signals' = [signals EXCEPT ![t] = "term"]
    /\ stopper' = [stopper EXCEPT ![t] = "waiting"]
    /\ UNCHANGED <<record, exitCode, procVars, tracked, monitor, spawning, torn, up>>

\* The process has ended, or is killed after five seconds; the record is
\* written without waiting for that.
FinishStop(t) ==
    /\ stopper[t] = "waiting"
    /\ stopper' = [stopper EXCEPT ![t] = "none"]
    /\ signals' = [signals EXCEPT ![t] = IF proc[t] = "alive" THEN "kill" ELSE @]
    /\ record' = [record EXCEPT ![t] = "killed"]
    /\ tracked' = tracked \ {t}
    /\ UNCHANGED <<exitCode, procVars, monitor, spawning, torn, up>>

\* The session ends; its coroutines are gone, the processes are not.
EndManager ==
    /\ up /\ up' = FALSE
    /\ tracked' = {} /\ spawning' = {}
    /\ monitor' = [t \in Tasks |-> IF monitor[t] = "none" THEN "none" ELSE "over"]
    /\ stopper' = [t \in Tasks |-> "none"]
    /\ UNCHANGED <<record, exitCode, procVars, signals, torn>>

Manage(t) == MonitorEof(t) \/ MonitorReap(t)

----------------------------------------------------------------------------
(* The processes *)

\* SIGTERM may be handled or ignored, SIGKILL may not; a process may also crash,
\* or be killed by somebody else.
Exit(t) ==
    /\ proc[t] = "alive"
    /\ proc' = [proc EXCEPT ![t] = "exited"]
    /\ \E c \in {0, 1, Signalled} : code' = [code EXCEPT ![t] = c]
    /\ \E open \in {piped[t], FALSE} : piped' = [piped EXCEPT ![t] = open]
    /\ UNCHANGED <<record, exitCode, signals, tracked, monitor, stopper, spawning, torn, up>>

\* The last holder of the output closes it.
CloseOutput(t) ==
    /\ piped[t]
    /\ piped' = [piped EXCEPT ![t] = FALSE]
    /\ UNCHANGED <<record, exitCode, proc, code, signals, tracked, monitor, stopper, spawning, torn, up>>

TaskNext ==
    \/ EndManager
    \/ \E t \in Tasks : Spawn(t) \/ FailSpawn(t)
    \/ \E t \in Followed :
         \/ Manage(t) \/ MonitorOverlong(t) \/ StopTask(t) \/ FinishStop(t)
         \/ Exit(t) \/ CloseOutput(t)

\* Reads and waits return once they can, and a stop after five seconds at most.
TaskFairness ==
    \A t \in Tasks :
        /\ WF_taskVars(Spawn(t) \/ FailSpawn(t))
        /\ WF_taskVars(Manage(t)) /\ WF_taskVars(FinishStop(t))
        /\ WF_taskVars(Exit(t) /\ signals[t] = "kill")

----------------------------------------------------------------------------
(* Properties *)

\* The type of the variables.
TaskTypeOK ==
    /\ record \in [Tasks -> {"none", "running"} \union Final]
    /\ exitCode \in [Tasks -> Codes] /\ code \in [Tasks -> Codes]
    /\ proc \in [Tasks -> {"none", "alive", "exited"}] /\ piped \in [Tasks -> BOOLEAN]
    /\ signals \in [Tasks -> {"none", "term", "kill"}]
    /\ tracked \subseteq Tasks /\ spawning \subseteq Tasks /\ torn \subseteq Tasks
    /\ monitor \in [Tasks -> {"none", "reading", "reaping", "over"}]
    /\ stopper \in [Tasks -> {"none", "waiting"}] /\ up \in BOOLEAN

\* A record says what became of the process: one that says running can still
\* be stopped, one that says completed or failed has the exit code of a process
\* that ended so, one that says killed is of a process that died of a signal,
\* ended after SIGTERM or cannot survive SIGKILL.  Only
\* a line that is too long makes a record final before its time, and only the
\* end of the session leaves a process nobody can stop (manager.py:122-201).
RecordsAreTrue ==
    \A t \in Tasks \ torn :
        /\ record[t] = "running" /\ proc[t] = "alive" /\ up => t \in tracked
        /\ record[t] = "completed" => proc[t] = "exited" /\ code[t] = 0 /\ exitCode[t] = 0
        /\ record[t] = "failed" => proc[t] = "exited" /\ code[t] = 1 /\ exitCode[t] = 1
        /\ record[t] = "killed" =>
             \/ proc[t] = "exited" /\ (code[t] = Signalled \/ signals[t] # "none")
             \/ proc[t] = "alive" /\ signals[t] = "kill"

\* The record of a process that has ended and let go of its output becomes
\* final, and so does that of a task that is being stopped, as long as the
\* session lives (manager.py:122-153, 175-201).
RecordsSettle ==
    \A t \in Tasks :
        (proc[t] = "exited" /\ ~ piped[t]) \/ stopper[t] = "waiting" ~>
            record[t] \in Final \/ ~ up
=============================================================================
