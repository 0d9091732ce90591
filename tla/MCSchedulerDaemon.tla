------------------------- MODULE MCSchedulerDaemon -------------------------
(* An instance of SchedulerDaemon in which the commands of another user, and *)
(* one scheduler of the other, are refused.                                  *)
EXTENDS SchedulerDaemon

CONSTANTS d1, d2, own, other

Foreign == ({other} \X Schedulers) \union {<<d2, d1>>}
=============================================================================
