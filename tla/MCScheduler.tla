---------------------------- MODULE MCScheduler ----------------------------
(* The two machines of the scheduler, each in its own instance and from its   *)
(* own initial states: the processes around the job file, for which a daemon  *)
(* is there or not, and the processes around the pid file, for which a daemon *)
(* serves or not.  They share no variable and part says which of them moves.  *)
EXTENDS MCCronScheduler, MCSchedulerDaemon

VARIABLE part

schedulerVars == <<part, vars, daemonVarsAll>>

SchedulerInit == part \in {"job file", "pid file"} /\ Init /\ DaemonInit

SchedulerNext ==
    \/ part = "job file" /\ Next /\ UNCHANGED <<part, daemonVarsAll>>
    \/ part = "pid file" /\ DaemonNext /\ UNCHANGED <<part, vars>>

\* The fairness of Spec; what is asked of the pid file is safety.
SchedulerSpec ==
    /\ SchedulerInit /\ [][SchedulerNext]_schedulerVars
    /\ \A d \in Daemons : WF_vars(Run(d))
    /\ WF_vars(Truncate(Session) \/ Write(Session) \/ ToggleJob)
=============================================================================
