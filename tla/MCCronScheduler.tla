-------------------------- MODULE MCCronScheduler --------------------------
\* An instance of CronScheduler: a one-shot job and an interval job.
EXTENDS CronScheduler

CONSTANTS once, every

Kinds == [j \in {once, every} |-> IF j = once THEN "once" ELSE "interval"]
=============================================================================
