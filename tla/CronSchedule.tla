---------------------------- MODULE CronSchedule ----------------------------
(***************************************************************************)
(* The cron backend of --schedule (internal/ssh/schedule.go): which        *)
(* intervals cronExpression accepts, the two fields it writes for one, and *)
(* the minutes at which a cron daemon runs the command. The daemon itself  *)
(* is not in the repository: every minute it compares the local time with  *)
(* the fields. Intervals are in seconds.                                   *)
(***************************************************************************)
EXTENDS Naturals

CONSTANTS Intervals,     \* what --interval is given, in seconds
          Starts         \* the minutes of a day at which a command may be installed

Hour == 3600
Day == 24 * Hour

\* parseScheduleInterval refuses anything below a second.
ASSUME IntervalsAssumption == Intervals \subseteq Nat \ {0}
ASSUME StartsAssumption == Starts \subseteq 0 .. 1439

VARIABLES interval,  \* --interval
          entry,     \* the crontab line: "absent", "refused", "installed" or "running"
          minute,    \* the minute of the day
          since,     \* minutes since the command last ran, or since the install
          gap        \* minutes between its last two runs, 0 before the second

cronVars == <<interval, entry, minute, since, gap>>

-----------------------------------------------------------------------------
(* cronExpression.                                                         *)

Accepted(s) == /\ s >= 60 /\ s <= Day
               /\ s % 60 = 0
               /\ Day % s = 0
               /\ ~(s >= Hour /\ s % Hour # 0)

\* Mistake: the list starts at 1, without minute 0 and hour 0.
Steps_FromOne(last, step) == {v \in 1 .. last : v % step = 0}

\* cronNumberList(first, last, step), for first = 0.
Steps(last, step) == {v \in 0 .. last : v % step = 0}

MinuteField(s) == IF s < Hour THEN Steps(59, s \div 60) ELSE {0}

\* Minutes below an hour leave the hour as "*".
HourField(s) == IF s < Hour THEN 0 .. 23 ELSE Steps(23, s \div Hour)

Matches(s, m) == m % 60 \in MinuteField(s) /\ m \div 60 \in HourField(s)

-----------------------------------------------------------------------------
CronInit ==
    /\ interval \in Intervals
    /\ entry = "absent"
    /\ minute \in Starts
    /\ since = 0 /\ gap = 0

\* selectScheduler checks the expression, installScheduledCommand builds it again.
PutEntry == /\ entry = "absent"
            /\ entry' = IF Accepted(interval) THEN "installed" ELSE "refused"
            /\ UNCHANGED <<interval, minute, since, gap>>

Due == Matches(interval, (minute + 1) % 1440)

\* The daemon's next minute. The first run has none before it.
Tick == /\ entry \in {"installed", "running"}
        /\ minute' = (minute + 1) % 1440
        /\ IF Due THEN /\ since' = 0 /\ entry' = "running"
                        /\ gap' = IF entry = "running" THEN since + 1 ELSE 0
                   ELSE since' = since + 1 /\ UNCHANGED <<entry, gap>>
        /\ UNCHANGED interval

CronNext == PutEntry \/ Tick

CronSpec == CronInit /\ [][CronNext]_cronVars

-----------------------------------------------------------------------------
\* No gap between two runs is longer than the interval, the one over midnight
\* included, and the first run comes within one interval of the installation. "accepts
\* only portable whole-minute/hour intervals that divide evenly into 24 hours"
\* (README.md:274): where the interval divides an hour or is whole hours, every gap is
\* the interval. The minutes that divide a day only (45, 40) run unevenly.
RunsAreOnTime ==
    /\ entry \in {"installed", "running"} => since * 60 < interval
    /\ gap # 0 /\ (Hour % interval = 0 \/ interval % Hour = 0) => gap * 60 = interval
=============================================================================
