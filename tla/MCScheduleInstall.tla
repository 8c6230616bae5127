-------------------------- MODULE MCScheduleInstall --------------------------
(* Two jobs on one machine, with cron and three commands; or one job, with  *)
(* one command and a crontab that holds a line of its owner.                *)
EXTENDS ScheduleInstall

CONSTANTS c1, c2, c3

OnePlan == {<<c1, c2, c3>>}
OneCommand == {<<c1>>}
OneSetting == {[scheduler |-> "cron", root |-> FALSE, expressible |-> TRUE, systemd |-> FALSE]}
=============================================================================
