------------------------------- MODULE MCParts -------------------------------
(* Six parts that share no state: three run before or after the hosts are   *)
(* worked on, three are parts of the work on one host. A behaviour is a    *)
(* behaviour of one of them, with the others at rest.                      *)
EXTENDS AuthMatrix, Targets, Extraction, ScheduleInstall, CronSchedule, Upload, TLC

\* Two octets with two values each and four IPv6 addresses.
One(a) == [form |-> "one", first |-> a, last |-> a]
Range(a, b) == [form |-> "range", first |-> a, last |-> b]
OctetRange(h, l) == [form |-> "octets", high |-> h, low |-> l]
Name(s) == [form |-> "name", found |-> s]
AllTokens ==
    {One(a) : a \in {0, 3, 4, 7}} \union
    {Range(a, b) : a, b \in {0, 1, 3, 4, 6, 7}} \union
    {OctetRange(h, l) : h, l \in {{0}, {1}, {0, 1}}} \union
    {[form |-> "prefix", first |-> a, last |-> b] : <<a, b>> \in {<<0, 3>>, <<2, 3>>, <<4, 7>>}} \union
    {Name({}), Name({1, 4}), Name({3}), [form |-> "bad"]}
AllLists == UNION {[1 .. n -> AllTokens] : n \in 0 .. 2}

\* Two names that differ in case only, two levels, three entries: directories that
\* are sent or implied, in any order, once or twice.
CONSTANTS docs, Docs
Lower(n) == IF n = Docs THEN docs ELSE n
TwoLevels == {<<>>} \union {<<m>> : m \in {docs, Docs}} \union ({docs, Docs} \X {docs, Docs})
Sendable == [path : TwoLevels, kind : {"dir", "file"}] \union
            [path : {<<>>, <<docs>>}, kind : {"link", "special"}] \union
            {[path |-> <<>>, kind |-> "escaping"]}
Sendings == UNION {[1 .. n -> Sendable] : n \in 0 .. 3}

\* Two jobs on one machine and its owner, with two commands or one given twice.
CONSTANTS i1, i2, c1, c2
Setup(s, r, e, d) == [scheduler |-> s, root |-> r, expressible |-> e, systemd |-> d]
SomeSettings == {Setup("auto", TRUE, TRUE, TRUE), Setup("systemd", TRUE, FALSE, TRUE),
                 Setup("systemd", FALSE, FALSE, TRUE), Setup("auto", FALSE, TRUE, FALSE),
                 Setup("cron", TRUE, FALSE, TRUE)}
TwoPlans == {<<c1, c2>>, <<c1, c1>>}
Either == Permutations({i1, i2})

\* Bound: where both schedulers can be selected a command is not given twice, and an
\* earlier run installed the first of the two only, with either backend or both.
Bounded == setting = Setup("auto", TRUE, TRUE, TRUE) =>
              /\ commands = <<c1, c2>>
              /\ timer[c2] = "none" /\ Line(c2, "before") \notin table

\* Divisors of an hour, whole hours that divide a day; minutes that divide a day only;
\* and the refused: below a minute, no whole minutes, no divisor of a day, above an hour
\* but no whole hours, longer than a day.
SomeIntervals == {60, 300, 900, 1800, 3600, 7200, 21600, 43200, 86400} \union
                 {1920, 2160, 2400, 2700, 2880} \union
                 {30, 90, 420, 5400, 18000, 172800}

-----------------------------------------------------------------------------
AuthRests == /\ accepts = {} /\ empty = 1 .. Words /\ wantKey = FALSE /\ key = "unloaded"
             /\ user = 1 /\ word = 1 /\ at = "done" /\ outcome = "none" /\ tried = {}
TargetsRest == /\ given = <<>> /\ todo = <<>> /\ limit = 1 /\ builder = {} /\ ranges = {}
               /\ total = 0 /\ cursor = Nowhere /\ list = <<>> /\ strings = <<>> /\ answer = "ok"
TreeRests == /\ method = "tar" /\ hasTar = TRUE /\ archive = <<>> /\ done = 0 /\ keys = {} /\ dirs = {}
             /\ file = [p \in Paths |-> 0] /\ partial = {} /\ temp = "absent" /\ stage = "ok"
SchedRests == /\ setting = Setup("cron", TRUE, FALSE, TRUE) /\ commands = <<c1, c2>>
              /\ phase = [j \in Installers |-> "over"] /\ nth = [j \in Installers |-> 1]
              /\ backend = [j \in Installers |-> "refused"]
              /\ bad = [j \in Installers |-> TRUE]
              /\ orphan = [j \in Installers |-> FALSE] /\ gone = orphan
              /\ edited = [j \in Installers |-> {}]
              /\ table = {Line(o, "owner") : o \in Others} /\ safe = {}
              /\ unread = FALSE /\ signalled = FALSE /\ overlap = FALSE /\ scripts = {}
              /\ timer = [c \in Commands |-> "none"] /\ loaded = timer /\ running = timer
CronRests == interval = 30 /\ entry = "refused" /\ minute = 0 /\ since = 0 /\ gap = 0
UploadRests == /\ usesRsync = FALSE /\ asksPass = FALSE /\ client = "closed"
               /\ doing = [u \in Uploads |-> "over"]
               /\ elapsed = [u \in Uploads |-> FALSE] /\ child = elapsed
               /\ helper = [u \in Uploads |-> "none"] /\ server = helper
               /\ rsynced = helper /\ dest = [u \in Uploads |-> "old"]
               /\ uploaded = [u \in Uploads |-> "error"]

Init ==
    \/ AuthInit /\ TargetsRest /\ TreeRests /\ SchedRests /\ CronRests /\ UploadRests
    \/ TargetsInit /\ AuthRests /\ TreeRests /\ SchedRests /\ CronRests /\ UploadRests
    \/ TreeInit /\ AuthRests /\ TargetsRest /\ SchedRests /\ CronRests /\ UploadRests
    \/ SchedInit /\ Bounded /\ AuthRests /\ TargetsRest /\ TreeRests /\ CronRests /\ UploadRests
    \/ CronInit /\ AuthRests /\ TargetsRest /\ TreeRests /\ SchedRests /\ UploadRests
    \/ UploadInit /\ AuthRests /\ TargetsRest /\ TreeRests /\ SchedRests /\ CronRests

vars == <<authVars, targetVars, treeVars, schedVars, cronVars, uploadVars>>

Over == /\ at = "done" /\ answer \in {"ok", "too_many", "invalid"} /\ stage \in {"ok", "failed"}
        /\ \A j \in Installers : phase[j] = "over"
        /\ entry = "refused"
        /\ \A u \in Uploads : doing[u] = "over"
        /\ UNCHANGED vars

Next ==
    \/ AuthNext /\ UNCHANGED <<targetVars, treeVars, schedVars, cronVars, uploadVars>>
    \/ TargetsNext /\ UNCHANGED <<authVars, treeVars, schedVars, cronVars, uploadVars>>
    \/ TreeNext /\ UNCHANGED <<authVars, targetVars, schedVars, cronVars, uploadVars>>
    \/ SchedNext /\ UNCHANGED <<authVars, targetVars, treeVars, cronVars, uploadVars>>
    \/ CronNext /\ UNCHANGED <<authVars, targetVars, treeVars, schedVars, uploadVars>>
    \/ UploadNext /\ UNCHANGED <<authVars, targetVars, treeVars, schedVars, cronVars>>
    \/ Over

Spec == Init /\ [][Next]_vars
=============================================================================
