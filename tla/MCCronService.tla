---------------------------- MODULE MCCronService ----------------------------
(* CronService on small instances. *)
EXTENDS CronService

OneShotAndInterval == {[j \in Jobs |-> IF j = "once" THEN "at" ELSE "every"]}
OneShotAndCron == {[j \in Jobs |-> IF j = "once" THEN "at" ELSE "cron"]}

OnceOrBoth == {{"once"}, {"once", "again"}}

=============================================================================
