-------------------------- MODULE SchedulerDaemon --------------------------
(***************************************************************************)
(* The processes around the pid file of the scheduler (cron/daemon.py): the*)
(* schedulers that are started, and the commands that stop one or ask for  *)
(* its status.  Every one of them looks at the file, reads it, sends a     *)
(* signal to the process it names, and may remove it, in separate steps    *)
(* between which the others go on, and may be killed between any two.      *)
(*                                                                         *)
(* What a scheduler does while it serves is the module CronScheduler's.    *)
(***************************************************************************)
EXTENDS Naturals

CONSTANTS
    Schedulers,    \* process ids of schedulers; an id may be used again
    Commands,      \* the processes of `stop` and `status`
    Refuses,       \* <<process, scheduler>>: the first may not signal the second
    MaxLaunches    \* bound: processes launched

NoPid == "no pid"      \* there is no pid file
Torn == "torn"         \* the file is empty: opened, and not yet written
Launched == Schedulers \union Commands

ASSUME DaemonAssumption ==
    /\ Schedulers \intersect Commands = {}
    /\ NoPid \notin Schedulers /\ Torn \notin Schedulers
    /\ Refuses \subseteq Launched \X Schedulers
    /\ MaxLaunches \in Nat

VARIABLES
    pidFile,     \* what the pid file holds
    phase,       \* where each process is
    task,        \* what it was launched for
    seen,        \* the id it has read
    opened,      \* the schedulers that have the present file open
    stopped,     \* those that serve with _running False
    told,        \* history: those alive that a `stop` has sent the signal
    crossed,     \* history: a start was under way together with another process
    refused,     \* history: the signal to a live scheduler was not permitted
    launches

daemonHistory == <<crossed, refused, launches>>
daemonVarsAll == <<pidFile, phase, task, seen, opened, stopped, told, daemonHistory>>

\* The phases of a process until it has looked at the file, or written it; and
\* those of a scheduler that the file is to name from then on.
Undecided == {"exists", "read", "probe", "unlink", "open", "write"}
Named == {"setup", "ready", "serving", "leaving"}

Busy == {p \in Launched : phase[p] \in Undecided}
Holders == {d \in Schedulers : phase[d] \in Named}
Serving == {d \in Schedulers : phase[d] = "serving"}

DaemonInit ==
    /\ pidFile = NoPid /\ opened = {} /\ stopped = {} /\ told = {}
    /\ phase = [p \in Launched |-> "off"]
    /\ task = [p \in Launched |-> "status"]
    /\ seen = [p \in Launched |-> NoPid]
    /\ crossed = FALSE /\ refused = FALSE /\ launches = 0

Launch(p, t) ==
    /\ phase[p] = "off" /\ launches < MaxLaunches
    /\ launches' = launches + 1
    /\ phase' = [phase EXCEPT ![p] = "exists"]
    /\ task' = [task EXCEPT ![p] = t]
    /\ crossed' = (crossed \/ \E q \in Busy : "start" \in {t, task[q]})
    /\ UNCHANGED <<pidFile, seen, opened, stopped, told, refused>>

----------------------------------------------------------------------------
(* Looking at the pid file *)

\* Where a process goes on that has found no scheduler.
Unserved(p) == IF task[p] = "start" THEN "open" ELSE "off"

CheckExists(p) ==
    /\ phase[p] = "exists"
    /\ phase' = [phase EXCEPT ![p] = IF pidFile = NoPid THEN Unserved(p) ELSE "read"]
    /\ UNCHANGED <<pidFile, task, seen, opened, stopped, told, daemonHistory>>

\* A file that was removed meanwhile ends the process with an exception.
ReadPid(p) ==
    /\ phase[p] = "read"
    /\ phase' = [phase EXCEPT ![p] = CASE pidFile = NoPid -> "off"
                                       [] pidFile = Torn -> "unlink"
                                       [] OTHER -> "probe"]
    /\ seen' = [seen EXCEPT ![p] = pidFile]
    /\ UNCHANGED <<pidFile, task, opened, stopped, told, daemonHistory>>

Alive(d) == phase[d] # "off"

\* The process that was read is gone.
FindGone(p) ==
    /\ phase[p] = "probe" /\ ~ Alive(seen[p])
    /\ phase' = [phase EXCEPT ![p] = "unlink"]
    /\ UNCHANGED <<pidFile, task, seen, opened, stopped, told, daemonHistory>>

\* A process that may not be signalled counts as gone, except for `stop`, which
\* ends with the exception.
FindForbidden(p) ==
    /\ phase[p] = "probe" /\ Alive(seen[p]) /\ <<p, seen[p]>> \in Refuses
    /\ phase' = [phase EXCEPT ![p] = IF task[p] = "stop" THEN "off" ELSE "unlink"]
    /\ refused' = TRUE
    /\ UNCHANGED <<pidFile, task, seen, opened, stopped, told, crossed, launches>>

FindAlive(p) ==
    /\ phase[p] = "probe" /\ Alive(seen[p]) /\ <<p, seen[p]>> \notin Refuses
    /\ task[p] # "stop"
    /\ phase' = [phase EXCEPT ![p] = "off"]
    /\ UNCHANGED <<pidFile, task, seen, opened, stopped, told, daemonHistory>>

\* SIGTERM, or SIGINT, reaches scheduler d: without the handler it dies and
\* leaves the file; the handler clears _running, which run() sets when it begins.
\* The `stop` that sent it, if any, ends.
Signal(d, stops) ==
    LET dies == phase[d] \in Undecided \union {"setup"}
        gone == IF dies THEN stops \union {d} ELSE stops
    IN
    /\ phase' = [p \in Launched |-> IF p \in gone THEN "off" ELSE phase[p]]
    /\ stopped' = IF phase[d] = "serving" THEN stopped \union {d} ELSE stopped
    /\ told' = IF dies THEN told \ {d} ELSE IF stops # {} THEN told \union {d} ELSE told
    /\ opened' = opened \ gone

\* Variant: stopping a scheduler removes the pid file at once.
TerminateAndForget(c) ==
    /\ phase[c] = "probe" /\ task[c] = "stop"
    /\ Alive(seen[c]) /\ <<c, seen[c]>> \notin Refuses
    /\ Signal(seen[c], {c})
    /\ pidFile' = NoPid
    /\ UNCHANGED <<task, seen, daemonHistory>>

Terminate(c) ==
    /\ phase[c] = "probe" /\ task[c] = "stop"
    /\ Alive(seen[c]) /\ <<c, seen[c]>> \notin Refuses
    /\ Signal(seen[c], {c})
    /\ UNCHANGED <<pidFile, task, seen, daemonHistory>>

\* The file is removed whoever it names by now; one that is being written goes
\* on without a name.
RemoveFile == pidFile' = NoPid /\ opened' = {}

UnlinkStale(p) ==
    /\ phase[p] = "unlink"
    /\ RemoveFile
    /\ phase' = [phase EXCEPT ![p] = Unserved(p)]
    /\ UNCHANGED <<task, seen, stopped, told, daemonHistory>>

----------------------------------------------------------------------------
(* A scheduler *)

\* write_text empties the file before it writes.
OpenFile(d) ==
    /\ phase[d] = "open"
    /\ pidFile' = Torn
    /\ opened' = opened \union {d}
    /\ phase' = [phase EXCEPT ![d] = "write"]
    /\ UNCHANGED <<task, seen, stopped, told, daemonHistory>>

WriteOwnPid(d) ==
    /\ phase[d] = "write"
    /\ pidFile' = IF d \in opened THEN d ELSE pidFile
    /\ opened' = opened \ {d}
    /\ phase' = [phase EXCEPT ![d] = "setup"]
    /\ UNCHANGED <<task, seen, stopped, told, daemonHistory>>

\* The store, the scheduler and the handlers are set up; then run() begins.
InstallHandlers(d) ==
    /\ phase[d] = "setup"
    /\ phase' = [phase EXCEPT ![d] = "ready"]
    /\ UNCHANGED <<pidFile, task, seen, opened, stopped, told, daemonHistory>>

BeginServing(d) ==
    /\ phase[d] = "ready"
    /\ phase' = [phase EXCEPT ![d] = "serving"]
    /\ UNCHANGED <<pidFile, task, seen, opened, stopped, told, daemonHistory>>

\* run() returns after the tick it is in, or with an exception of it.
Return(d) ==
    /\ phase[d] = "serving" /\ d \in stopped
    /\ phase' = [phase EXCEPT ![d] = "leaving"]
    /\ stopped' = stopped \ {d}
    /\ UNCHANGED <<pidFile, task, seen, opened, told, daemonHistory>>

Raise(d) ==
    /\ phase[d] = "serving"
    /\ phase' = [phase EXCEPT ![d] = "leaving"]
    /\ stopped' = stopped \ {d}
    /\ UNCHANGED <<pidFile, task, seen, opened, told, daemonHistory>>

Quit(d) ==
    /\ phase[d] = "leaving"
    /\ RemoveFile
    /\ phase' = [phase EXCEPT ![d] = "off"]
    /\ told' = told \ {d}
    /\ UNCHANGED <<task, seen, stopped, daemonHistory>>

----------------------------------------------------------------------------
(* The surroundings *)

Interrupt(d) ==
    /\ Alive(d)
    /\ Signal(d, {})
    /\ UNCHANGED <<pidFile, task, seen, daemonHistory>>

KillProcess(p) ==
    /\ phase[p] # "off"
    /\ phase' = [phase EXCEPT ![p] = "off"]
    /\ opened' = opened \ {p} /\ stopped' = stopped \ {p} /\ told' = told \ {p}
    /\ UNCHANGED <<pidFile, task, seen, daemonHistory>>

Consult(p) ==
    \/ CheckExists(p) \/ ReadPid(p)
    \/ FindGone(p) \/ FindForbidden(p) \/ FindAlive(p) \/ UnlinkStale(p)

RunScheduler(d) ==
    \/ OpenFile(d) \/ WriteOwnPid(d) \/ InstallHandlers(d) \/ BeginServing(d)
    \/ Return(d) \/ Quit(d)

DaemonNext ==
    \/ \E d \in Schedulers :
         Launch(d, "start") \/ RunScheduler(d) \/ Raise(d) \/ Interrupt(d)
    \/ \E c \in Commands : Launch(c, "stop") \/ Launch(c, "status") \/ Terminate(c)
    \/ \E p \in Launched : Consult(p) \/ KillProcess(p)

\* A process that runs goes on; nobody has to stop it.
DaemonSpec ==
    /\ DaemonInit /\ [][DaemonNext]_daemonVarsAll
    /\ \A d \in Schedulers : WF_daemonVarsAll(Consult(d) \/ RunScheduler(d))
    /\ \A c \in Commands : WF_daemonVarsAll(Consult(c) \/ Terminate(c))

----------------------------------------------------------------------------
(* Properties *)

\* The type of the variables.
DaemonTypeOK ==
    /\ pidFile \in Schedulers \union {NoPid, Torn}
    /\ phase \in [Launched -> {"off"} \union Undecided \union Named]
    /\ task \in [Launched -> {"start", "stop", "status"}]
    /\ seen \in [Launched -> Schedulers \union {NoPid, Torn}]
    /\ opened \subseteq Schedulers /\ stopped \subseteq Serving /\ told \subseteq Schedulers
    /\ crossed \in BOOLEAN /\ refused \in BOOLEAN /\ launches \in 0..MaxLaunches

\* However schedulers are started, stopped, asked for and killed, one serves at
\* most, and the pid file names it, as long as no start was under way together
\* with another start, a stop or a question for the status (each of which may
\* act on what it read before the other wrote: daemon.py:24-32, 43, 70-75), and
\* no live scheduler refused the signal it was tested with (daemon.py:31).
OneScheduler ==
    ~ crossed /\ ~ refused =>
        \A d, e \in Serving : d = e /\ pidFile = d

\* "Stop the running scheduler daemon." (daemon.py:64): one that `stop` has sent
\* the signal ends.  A signal between the handlers and run() is lost
\* (daemon.py:51-58, scheduler.py:76).
StopEnds == \A d \in Schedulers : d \in told ~> d \notin told
=============================================================================
