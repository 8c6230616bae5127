-------------------------- MODULE Schedule_proofs --------------------------
(***************************************************************************)
(* Theorems about ScheduleInstall and CronSchedule.                        *)
(*                                                                         *)
(* 1. ScheduleInstall, for any number of jobs on one machine, any lists of *)
(*    commands and any lines of the crontab's owner: no installation loses *)
(*    a line that was written while nobody was editing, however the edits  *)
(*    overlap; and where they do not, what is reported as installed is.    *)
(* 2. CronSchedule, for every interval and minute: what is accepted runs   *)
(*    on time.                                                             *)
(***************************************************************************)
EXTENDS ScheduleInstall, CronSchedule, TLAPS

-----------------------------------------------------------------------------
(* 1. The installation.                                                    *)

\* A job that installs is at one of its commands, and in the script of its backend;
\* it begins with the first command.
PlaceInv == \A j \in Installers :
    /\ phase[j] = "select" => nth[j] = 1
    /\ phase[j] \in Working => nth[j] \in DOMAIN commands /\ backend[j] \in {"cron", "systemd"}
    /\ phase[j] \in Editing \union {"list"} => backend[j] = "cron"
    /\ phase[j] \in {"unit", "reload", "enable", "restart"} => backend[j] = "systemd"

\* The owner's lines are in the table and in every edit of it.
KeepInv ==
    ~excused =>
        /\ OthersAreKept
        /\ \A j \in Installers : /\ gone[j] => phase[j] \in {"filter", "install"}
                                 /\ phase[j] \in Editing =>
                                      \A o \in safe : Line(o, "owner") \in edited[j]

-----------------------------------------------------------------------------
\* Every list of commands consists of commands.
LEMMA CommandType ==
    ASSUME SchedTypeOK, PlaceInv, NEW j \in Installers, phase[j] \in Working
    PROVE  Command(j) \in Commands
<1>1. commands \in Seq(Commands) /\ nth[j] \in DOMAIN commands
  BY PlansAssumption DEF SchedTypeOK, PlaceInv
<1> QED BY <1>1 DEF Command

\* Types and places in an initial state.
LEMMA InitPlace == SchedInit => SchedTypeOK /\ PlaceInv
<1> SUFFICES ASSUME SchedInit PROVE SchedTypeOK /\ PlaceInv
    OBVIOUS
<1>1. PICK byCron \in SUBSET Commands, theirs \in SUBSET Others, byTimer \in SUBSET Commands :
        /\ table = {Line(c, "before") : c \in byCron} \union {Line(o, "owner") : o \in theirs}
        /\ safe = theirs
        /\ scripts = ({"cron"} \X byCron) \union ({"systemd"} \X byTimer)
        /\ timer = [c \in Commands |-> IF c \in byTimer THEN "old" ELSE "none"]
  BY DEF SchedInit
<1>2. table \subseteq TableLines
  BY <1>1 DEF TableLines, Line
<1>3. scripts \subseteq {"cron", "systemd"} \X Commands
  BY <1>1
<1>4. \A u \in {timer, loaded, running} : u \in [Commands -> {"none", "old", "new"}]
  BY <1>1 DEF SchedInit
<1>5. SchedTypeOK
  <2>1. /\ setting \in Settings /\ commands \in Plans
        /\ phase \in [Installers -> Working \union {"select", "over"}]
        /\ nth \in [Installers -> Nat \ {0}]
        /\ backend \in [Installers -> {"none", "cron", "systemd", "refused"}]
    BY DEF SchedInit
  <2>2. /\ bad \in [Installers -> BOOLEAN] /\ orphan \in [Installers -> BOOLEAN]
        /\ gone \in [Installers -> BOOLEAN]
        /\ unread \in BOOLEAN /\ signalled \in BOOLEAN /\ overlap \in BOOLEAN
    BY DEF SchedInit
  <2>3. edited \in [Installers -> SUBSET TableLines] /\ safe \subseteq Others
    BY <1>1 DEF SchedInit
  <2> QED  BY <1>2, <1>3, <1>4, <2>1, <2>2, <2>3 DEF SchedTypeOK
<1>6. PlaceInv
  BY DEF SchedInit, PlaceInv, Working, Editing
<1> QED  BY <1>5, <1>6

\* A step keeps the types and the places.
LEMMA StepPlace ==
    ASSUME SchedTypeOK, PlaceInv, [SchedNext]_schedVars
    PROVE  SchedTypeOK' /\ PlaceInv'
<1> USE DEF SchedTypeOK, PlaceInv, Working, Editing, orders, crontab, units, edit, progress
<1>a. commands \in Seq(Commands) /\ (commands # <<>> => 1 \in DOMAIN commands)
  BY PlansAssumption
<1>b. \A j \in Installers, ok \in BOOLEAN : phase[j] \in Working /\ ScriptEnds(j, ok) =>
          /\ phase' \in [Installers -> Working \union {"select", "over"}]
          /\ nth' \in [Installers -> Nat \ {0}]
          /\ bad' \in [Installers -> BOOLEAN] /\ orphan' \in [Installers -> BOOLEAN]
          /\ gone' \in [Installers -> BOOLEAN]
          /\ edited' \in [Installers -> SUBSET TableLines]
          /\ UNCHANGED <<commands, backend>> => PlaceInv'
  <2> SUFFICES ASSUME NEW j \in Installers, NEW ok \in BOOLEAN, phase[j] \in Working,
                      ScriptEnds(j, ok)
               PROVE  /\ phase' \in [Installers -> Working \union {"select", "over"}]
                      /\ nth' \in [Installers -> Nat \ {0}]
                      /\ bad' \in [Installers -> BOOLEAN] /\ orphan' \in [Installers -> BOOLEAN]
                      /\ gone' \in [Installers -> BOOLEAN]
                      /\ edited' \in [Installers -> SUBSET TableLines]
                      /\ UNCHANGED <<commands, backend>> => PlaceInv'
      OBVIOUS
  <2> DEFINE last == nth[j] = Len(commands) \/ orphan[j]
  <2>1. /\ phase' = [phase EXCEPT ![j] = IF last THEN "over" ELSE "script"]
        /\ nth' = [nth EXCEPT ![j] = IF last THEN nth[j] ELSE nth[j] + 1]
        /\ bad' = [bad EXCEPT ![j] = bad[j] \/ ~ok]
        /\ edited' = [edited EXCEPT ![j] = {}]
        /\ gone' = [gone EXCEPT ![j] = FALSE]
        /\ orphan' = orphan
    BY DEF ScriptEnds, GoTo
  <2>2. nth[j] \in 1 .. Len(commands) /\ DOMAIN commands = 1 .. Len(commands)
        /\ Len(commands) \in Nat
    BY <1>a
  <2>3. CASE last
    <3>1. phase' = [phase EXCEPT ![j] = "over"] /\ nth' = nth
      BY <2>1, <2>3
    <3> QED  BY <2>1, <2>3, <3>1
  <2>4. CASE ~last
    <3>1. /\ phase' = [phase EXCEPT ![j] = "script"] /\ nth' = [nth EXCEPT ![j] = nth[j] + 1]
          /\ nth[j] + 1 \in 1 .. Len(commands)
      BY <2>1, <2>2, <2>4
    <3> QED  BY <2>1, <2>2, <2>4, <3>1
  <2> QED  BY <2>3, <2>4
<1>c. \A j \in Installers : phase[j] \in Working => Command(j) \in Commands
  BY CommandType
<1>0. CASE UNCHANGED schedVars
  BY <1>0 DEF schedVars
<1>1. ASSUME NEW j \in Installers, Select(j) PROVE SchedTypeOK' /\ PlaceInv'
  <2>1. PICK b \in Backends :
          /\ backend' = [backend EXCEPT ![j] = b]
          /\ bad' = [bad EXCEPT ![j] = b = "refused"]
          /\ GoTo(j, IF b = "refused" \/ commands = <<>> THEN "over" ELSE "script")
    BY <1>1 DEF Select
  <2>2. b \in {"cron", "systemd", "refused"}
    BY SettingsAssumption DEF Backends, Setting
  <2>3. CASE b = "refused" \/ commands = <<>>
    BY <1>1, <2>1, <2>2, <2>3 DEF Select, GoTo
  <2>4. CASE ~(b = "refused" \/ commands = <<>>)
    BY <1>1, <1>a, <2>1, <2>2, <2>4 DEF Select, GoTo
  <2> QED  BY <2>3, <2>4
<1>2. ASSUME NEW j \in Installers, Fail(j) PROVE SchedTypeOK' /\ PlaceInv'
  BY <1>2, <1>b DEF Fail
<1>3. ASSUME NEW j \in Installers, GiveUp(j) PROVE SchedTypeOK' /\ PlaceInv'
  BY <1>3 DEF GiveUp
<1>4. ASSUME NEW j \in Installers, PutScript(j) PROVE SchedTypeOK' /\ PlaceInv'
  <2>1. <<backend[j], Command(j)>> \in {"cron", "systemd"} \X Commands
    BY <1>4, <1>c DEF PutScript
  <2> QED  BY <1>4, <2>1 DEF PutScript, Proceed, GoTo
<1>5. ASSUME NEW j \in Installers, List(j) PROVE SchedTypeOK' /\ PlaceInv'
  <2>1. overlap' \in BOOLEAN
    BY <1>5, Zenon DEF List
  <2>2. CASE edited' = [edited EXCEPT ![j] = table] /\ Proceed(j, "filter") /\ UNCHANGED unread
    BY <1>5, <2>1, <2>2 DEF List, Proceed, GoTo
  <2>3. CASE /\ edited' = [edited EXCEPT ![j] = {}] /\ Proceed(j, "append")
             /\ unread' = (unread \/ table # {})
    <3>1. unread' \in BOOLEAN
      BY <2>3, Zenon
    <3>2. /\ UNCHANGED <<orders, backend, gone, table, safe, signalled, scripts, units>>
          /\ phase[j] = "list"
      BY <1>5 DEF List
    <3>3. /\ edited' = [edited EXCEPT ![j] = {}] /\ phase' = [phase EXCEPT ![j] = "append"]
          /\ UNCHANGED <<nth, bad, orphan>>
      BY <2>3 DEF Proceed, GoTo
    <3> QED  BY <2>1, <3>1, <3>2, <3>3
  <2> QED  BY <1>5, <2>2, <2>3 DEF List
<1>6. ASSUME NEW j \in Installers, Signal(j) PROVE SchedTypeOK' /\ PlaceInv'
  <2>1. signalled' \in BOOLEAN
    BY <1>6, Zenon DEF Signal
  <2> QED  BY <1>6, <2>1 DEF Signal
<1>7. ASSUME NEW j \in Installers, Filter(j) PROVE SchedTypeOK' /\ PlaceInv'
  <2>1. Kept(edited[j], Command(j)) \subseteq TableLines
    BY DEF Kept
  <2> QED  BY <1>7, <2>1 DEF Filter, Proceed, GoTo
<1>8. ASSUME NEW j \in Installers, AddEntry(j) PROVE SchedTypeOK' /\ PlaceInv'
  <2>1. Line(Command(j), j) \in TableLines
    BY <1>8, <1>c DEF AddEntry, Line, TableLines
  <2> QED  BY <1>8, <2>1 DEF AddEntry, Proceed, GoTo
<1>9. ASSUME NEW j \in Installers, PutTable(j) PROVE SchedTypeOK' /\ PlaceInv'
  BY <1>9, <1>b DEF PutTable
<1>10. ASSUME NEW j \in Installers, PutUnit(j) PROVE SchedTypeOK' /\ PlaceInv'
  BY <1>10, <1>c DEF PutUnit, Proceed, GoTo
<1>11. ASSUME NEW j \in Installers, Reload(j) PROVE SchedTypeOK' /\ PlaceInv'
  BY <1>11 DEF Reload, Proceed, GoTo
<1>12. ASSUME NEW j \in Installers, Enable(j) PROVE SchedTypeOK' /\ PlaceInv'
  BY <1>12 DEF Enable, Proceed, GoTo
<1>13. ASSUME NEW j \in Installers, Restart(j) PROVE SchedTypeOK' /\ PlaceInv'
  <2>1. loaded[Command(j)] \in {"none", "old", "new"}
    BY <1>13, <1>c DEF Restart
  <2>2. running' \in [Commands -> {"none", "old", "new"}]
    BY <1>13, <2>1 DEF Restart
  <2>3. /\ phase' \in [Installers -> Working \union {"select", "over"}]
        /\ nth' \in [Installers -> Nat \ {0}]
        /\ bad' \in [Installers -> BOOLEAN] /\ orphan' \in [Installers -> BOOLEAN]
        /\ gone' \in [Installers -> BOOLEAN]
        /\ edited' \in [Installers -> SUBSET TableLines]
        /\ PlaceInv'
    BY <1>13, <1>b DEF Restart
  <2>4. UNCHANGED <<setting, commands, backend, table, safe, unread, signalled, overlap,
                    scripts, timer, loaded>>
    BY <1>13 DEF Restart
  <2> HIDE DEF PlaceInv
  <2> QED  BY <2>2, <2>3, <2>4
<1>14. CASE Edit
  <2>1. \A o \in Others : Line(o, "owner") \in TableLines
    BY DEF Line, TableLines
  <2> QED  BY <1>14, <2>1 DEF Edit
<1> QED
  BY <1>0, <1>1, <1>2, <1>3, <1>4, <1>5, <1>6, <1>7, <1>8, <1>9, <1>10, <1>11, <1>12,
     <1>13, <1>14 DEF SchedNext

-----------------------------------------------------------------------------
\* Nobody has edited anything in an initial state.
LEMMA InitKeep == SchedInit => KeepInv
  BY DEF SchedInit, KeepInv, OthersAreKept, Editing

\* A step keeps the owner's lines, in the table and in every edit.
LEMMA StepKeep ==
    ASSUME SchedTypeOK, PlaceInv, KeepInv, [SchedNext]_schedVars
    PROVE  KeepInv'
<1> SUFFICES ASSUME ~excused' PROVE KeepInv'
  BY DEF KeepInv
<1> USE DEF KeepInv, OthersAreKept, Editing, excused, orders, crontab, units, edit, progress
<1>a. \A j \in Installers, ok \in BOOLEAN : ScriptEnds(j, ok) =>
          /\ \A k \in Installers : phase'[k] \in Editing => phase[k] \in Editing /\ edited'[k] = edited[k]
          /\ \A k \in Installers : gone'[k] => gone[k] /\ phase'[k] = phase[k]
  <2> SUFFICES ASSUME NEW j \in Installers, NEW ok \in BOOLEAN, ScriptEnds(j, ok)
               PROVE  /\ \A k \in Installers : phase'[k] \in Editing =>
                                               phase[k] \in Editing /\ edited'[k] = edited[k]
                      /\ \A k \in Installers : gone'[k] => gone[k] /\ phase'[k] = phase[k]
      OBVIOUS
  <2>1. PICK p \in {"over", "script"} : phase' = [phase EXCEPT ![j] = p]
    BY DEF ScriptEnds, GoTo
  <2> QED  BY <2>1 DEF ScriptEnds, SchedTypeOK
<1>0. CASE UNCHANGED schedVars
  BY <1>0 DEF schedVars
<1>1. ASSUME NEW j \in Installers, Select(j) PROVE KeepInv'
  <2>1. PICK p \in {"over", "script"} : phase' = [phase EXCEPT ![j] = p]
    BY <1>1 DEF Select, GoTo
  <2> QED  BY <1>1, <2>1 DEF Select, SchedTypeOK
<1>2. ASSUME NEW j \in Installers, Fail(j) PROVE KeepInv'
  BY <1>2, <1>a DEF Fail
<1>3. ASSUME NEW j \in Installers, GiveUp(j) PROVE KeepInv'
  BY <1>3 DEF GiveUp
<1>4. ASSUME NEW j \in Installers, PutScript(j) PROVE KeepInv'
  BY <1>4 DEF PutScript, Proceed, GoTo, SchedTypeOK
<1>5. ASSUME NEW j \in Installers, List(j) PROVE KeepInv'
  <2>1. ~excused /\ UNCHANGED <<table, safe, gone>>
    <3>1. (UNCHANGED unread \/ unread' = (unread \/ table # {})) /\ UNCHANGED signalled
      BY <1>5 DEF List
    <3>2. ~excused
      BY <3>1, Zenon
    <3> QED  BY <1>5, <3>2 DEF List
  <2>2. CASE edited' = [edited EXCEPT ![j] = table]
    BY <1>5, <2>1, <2>2 DEF List, Proceed, GoTo, SchedTypeOK
  <2>3. CASE edited' = [edited EXCEPT ![j] = {}] /\ unread' = (unread \/ table # {})
    <3>1. table = {}
      BY <2>3, Zenon
    <3> QED  BY <1>5, <2>1, <2>3, <3>1 DEF List, Proceed, GoTo, SchedTypeOK
  <2> QED  BY <1>5, <2>2, <2>3 DEF List
<1>6. ASSUME NEW j \in Installers, Signal(j) PROVE KeepInv'
  <2>1. /\ signalled' = (signalled \/ phase[j] = "append") /\ phase[j] \in Editing
        /\ UNCHANGED <<unread, table, safe, edited, phase>> /\ gone' = [gone EXCEPT ![j] = TRUE]
    BY <1>6 DEF Signal
  <2>2. ~excused /\ phase[j] # "append"
    BY <2>1, Zenon
  <2> QED  BY <2>1, <2>2 DEF SchedTypeOK
<1>7. ASSUME NEW j \in Installers, Filter(j) PROVE KeepInv'
  <2>1. Command(j) \in Commands
    BY <1>7, CommandType DEF Filter, Working
  <2>2. \A o \in safe : Line(o, "owner") \in edited[j] => Line(o, "owner") \in Kept(edited[j], Command(j))
    BY <2>1, OthersAssumption DEF Kept, Line, SchedTypeOK
  <2> QED  BY <1>7, <2>2 DEF Filter, Proceed, GoTo, SchedTypeOK
<1>8. ASSUME NEW j \in Installers, AddEntry(j) PROVE KeepInv'
  BY <1>8 DEF AddEntry, Proceed, GoTo, SchedTypeOK
<1>9. ASSUME NEW j \in Installers, PutTable(j) PROVE KeepInv'
  BY <1>9, <1>a DEF PutTable
<1>10. ASSUME NEW j \in Installers, PutUnit(j) PROVE KeepInv'
  BY <1>10 DEF PutUnit, Proceed, GoTo, SchedTypeOK
<1>11. ASSUME NEW j \in Installers, Reload(j) PROVE KeepInv'
  BY <1>11 DEF Reload, Proceed, GoTo, SchedTypeOK
<1>12. ASSUME NEW j \in Installers, Enable(j) PROVE KeepInv'
  BY <1>12 DEF Enable, Proceed, GoTo, SchedTypeOK
<1>13. ASSUME NEW j \in Installers, Restart(j) PROVE KeepInv'
  BY <1>13, <1>a DEF Restart
<1>14. CASE Edit
  BY <1>14 DEF Edit
<1> QED
  BY <1>0, <1>1, <1>2, <1>3, <1>4, <1>5, <1>6, <1>7, <1>8, <1>9, <1>10, <1>11, <1>12,
     <1>13, <1>14 DEF SchedNext

-----------------------------------------------------------------------------
SystemdSteps == {"unit", "reload", "enable", "restart"}

\* Whatever is scheduled, or about to be, has its script.
ScriptInv ==
    /\ \A l \in table : l.id \in Commands => <<"cron", l.id>> \in scripts
    /\ \A j \in Installers : \A l \in edited[j] : l.id \in Commands => <<"cron", l.id>> \in scripts
    /\ \A j \in Installers :
         /\ phase[j] \in Editing \union {"list"} => <<"cron", Command(j)>> \in scripts
         /\ phase[j] \in SystemdSteps => <<"systemd", Command(j)>> \in scripts
    /\ \A c \in Commands : /\ timer[c] # "none" => <<"systemd", c>> \in scripts
                           /\ loaded[c] # "none" => <<"systemd", c>> \in scripts
                           /\ running[c] # "none" => <<"systemd", c>> \in scripts

\* A new timer stays new, in each of the three places.
UnitInv ==
    /\ \A c \in Commands : /\ running[c] = "new" => loaded[c] = "new"
                           /\ loaded[c] = "new" => timer[c] = "new"
    /\ \A j \in Installers :
         /\ phase[j] \in {"reload", "enable", "restart"} => timer[Command(j)] = "new"
         /\ phase[j] \in {"enable", "restart"} => loaded[Command(j)] = "new"

\* A crontab has one line for a command, and a job that adds it has removed the other.
OnePerCommand(t) == \A l, m \in t : l.id = m.id /\ l.id \in Commands => l = m
UniqueInv ==
    /\ OnePerCommand(table)
    /\ \A j \in Installers : /\ OnePerCommand(edited[j])
                             /\ phase[j] = "append" => \A l \in edited[j] : l.id # Command(j)

\* A job that edits alone has all the commands of the table, and its own to replace.
EditInv ==
    ~overlap =>
        /\ \A j, k \in Installers : phase[j] \in Editing /\ phase[k] \in Editing => j = k
        /\ ~excused => \A j \in Installers :
             /\ phase[j] \in Editing =>
                  \A l \in table : \/ l.id \notin Commands
                                   \/ l \in edited[j]
                                   \/ phase[j] # "filter" /\ l.id = Command(j)
             /\ phase[j] = "install" => Line(Command(j), j) \in edited[j]

\* What a job without an error has been through is installed.
Dealt(j) == {n \in DOMAIN commands : phase[j] = "over" \/ n < nth[j]}
HasEntry(c) == \E l \in table : l.id = c /\ l.by \in Installers
InPlace(b, c) == IF b = "systemd" THEN running[c] = "new" ELSE HasEntry(c)
DoneInv ==
    /\ \A j \in Installers : /\ orphan[j] \/ backend[j] = "refused" => bad[j]
                             /\ phase[j] = "select" => ~orphan[j]
    /\ ~overlap /\ ~excused =>
         \A j \in Installers : ~bad[j] => \A n \in Dealt(j) : InPlace(backend[j], commands[n])

\* What the program has scheduled is an earlier run's, or some job selected its backend.
Selected(b) == \E j \in Installers : backend[j] = b
Sourced(t) == \A l \in t : l.id \in Commands => l.by = "before" \/ Selected("cron")
SourceInv ==
    /\ \A j \in Installers : phase[j] = "select" => backend[j] = "none"
    /\ Sourced(table) /\ \A j \in Installers : Sourced(edited[j])
    /\ \A c \in Commands : /\ timer[c] = "new" => Selected("systemd")
                           /\ loaded[c] = "new" => Selected("systemd")
                           /\ running[c] = "new" => Selected("systemd")

StrongInv == /\ SchedTypeOK /\ PlaceInv /\ KeepInv /\ ScriptInv /\ UnitInv /\ UniqueInv
             /\ EditInv /\ DoneInv /\ SourceInv

-----------------------------------------------------------------------------
\* What the end of a job's script changes, and what it leaves to the other jobs.
LEMMA EndShape ==
    ASSUME SchedTypeOK, NEW j \in Installers, NEW ok \in BOOLEAN, ScriptEnds(j, ok)
    PROVE  /\ \A k \in Installers \ {j} :
                /\ phase'[k] = phase[k] /\ nth'[k] = nth[k] /\ edited'[k] = edited[k]
                /\ bad'[k] = bad[k] /\ gone'[k] = gone[k]
           /\ orphan' = orphan /\ edited'[j] = {}
           /\ phase'[j] \in {"over", "script"}
           /\ bad[j] \/ ~ok => bad'[j]
           /\ phase'[j] = "script" => nth'[j] = nth[j] + 1
           /\ phase'[j] = "over" => nth[j] = Len(commands) \/ orphan[j]
<1> DEFINE last == nth[j] = Len(commands) \/ orphan[j]
<1>1. /\ phase' = [phase EXCEPT ![j] = IF last THEN "over" ELSE "script"]
      /\ nth' = [nth EXCEPT ![j] = IF last THEN nth[j] ELSE nth[j] + 1]
      /\ bad' = [bad EXCEPT ![j] = bad[j] \/ ~ok]
      /\ edited' = [edited EXCEPT ![j] = {}]
      /\ gone' = [gone EXCEPT ![j] = FALSE]
      /\ orphan' = orphan
  BY DEF ScriptEnds, GoTo
<1>2. \A k \in Installers \ {j} :
        /\ phase'[k] = phase[k] /\ nth'[k] = nth[k] /\ edited'[k] = edited[k]
        /\ bad'[k] = bad[k] /\ gone'[k] = gone[k]
  BY <1>1 DEF SchedTypeOK
<1>3. phase'[j] = (IF last THEN "over" ELSE "script")
      /\ nth'[j] = (IF last THEN nth[j] ELSE nth[j] + 1)
      /\ bad'[j] = (bad[j] \/ ~ok) /\ edited'[j] = {}
  BY <1>1 DEF SchedTypeOK
<1>4. bad[j] \/ ~ok => bad'[j]
  BY <1>3, Zenon
<1>5. /\ phase'[j] \in {"over", "script"}
      /\ phase'[j] = "script" => nth'[j] = nth[j] + 1
      /\ phase'[j] = "over" => nth[j] = Len(commands) \/ orphan[j]
  BY <1>3
<1> QED  BY <1>1, <1>2, <1>3, <1>4, <1>5

\* What any other step of a job's script changes.
LEMMA ProceedShape ==
    ASSUME SchedTypeOK, NEW j \in Installers, NEW s, Proceed(j, s)
    PROVE  /\ \A k \in Installers \ {j} : phase'[k] = phase[k]
           /\ phase'[j] = s
           /\ nth' = nth /\ bad' = bad /\ orphan' = orphan
  BY DEF Proceed, GoTo, SchedTypeOK

\* The selection of a backend.
LEMMA SelectShape ==
    ASSUME SchedTypeOK, PlaceInv, NEW j \in Installers, Select(j)
    PROVE  /\ \A k \in Installers \ {j} : phase'[k] = phase[k] /\ backend'[k] = backend[k]
                                          /\ bad'[k] = bad[k]
           /\ phase'[j] \in {"over", "script"} /\ nth[j] = 1
           /\ backend'[j] = "refused" => bad'[j]
           /\ phase'[j] = "over" => bad'[j] \/ commands = <<>>
           /\ phase[j] = "select"
           /\ UNCHANGED <<orders, nth, orphan, edit, crontab, scripts, units>>
<1>1. PICK b \in Backends :
        /\ backend' = [backend EXCEPT ![j] = b]
        /\ bad' = [bad EXCEPT ![j] = b = "refused"]
        /\ GoTo(j, IF b = "refused" \/ commands = <<>> THEN "over" ELSE "script")
  BY DEF Select
<1>2. backend'[j] = b /\ bad'[j] = (b = "refused")
      /\ phase'[j] = (IF b = "refused" \/ commands = <<>> THEN "over" ELSE "script")
  BY <1>1 DEF GoTo, SchedTypeOK
<1>3. \A k \in Installers \ {j} : phase'[k] = phase[k] /\ backend'[k] = backend[k]
                                  /\ bad'[k] = bad[k]
  BY <1>1 DEF GoTo, SchedTypeOK
<1> QED  BY <1>2, <1>3 DEF Select, PlaceInv

-----------------------------------------------------------------------------
\* What an earlier run scheduled has its script.
LEMMA InitScript == SchedInit => ScriptInv
<1> SUFFICES ASSUME SchedInit PROVE ScriptInv
    OBVIOUS
<1>1. PICK byCron \in SUBSET Commands, theirs \in SUBSET Others, byTimer \in SUBSET Commands :
        /\ table = {Line(c, "before") : c \in byCron} \union {Line(o, "owner") : o \in theirs}
        /\ safe = theirs
        /\ scripts = ({"cron"} \X byCron) \union ({"systemd"} \X byTimer)
        /\ timer = [c \in Commands |-> IF c \in byTimer THEN "old" ELSE "none"]
  BY DEF SchedInit
<1>2. \A l \in table : l.id \in Commands => l.id \in byCron
  BY <1>1, OthersAssumption DEF Line
<1>3. \A c \in byCron : <<"cron", c>> \in scripts
  BY <1>1
<1>4. \A c \in Commands : timer[c] # "none" => <<"systemd", c>> \in scripts
  BY <1>1
<1> QED  BY <1>2, <1>3, <1>4 DEF SchedInit, ScriptInv, Editing, SystemdSteps

\* A step schedules nothing without its script.
LEMMA StepScript ==
    ASSUME SchedTypeOK, PlaceInv, ScriptInv, [SchedNext]_schedVars
    PROVE  ScriptInv'
<1> USE DEF ScriptInv, Editing, SystemdSteps, orders, crontab, units, edit, progress, Command
<1>c. \A j \in Installers : phase[j] \in Working => Command(j) \in Commands
  BY CommandType
<1>e. ASSUME NEW j \in Installers, NEW ok \in BOOLEAN, ScriptEnds(j, ok),
             UNCHANGED <<orders, scripts>>
      PROVE  /\ \A k \in Installers : \A l \in edited'[k] :
                  l.id \in Commands => <<"cron", l.id>> \in scripts'
             /\ \A k \in Installers :
                  /\ phase'[k] \in Editing \union {"list"} => <<"cron", Command(k)'>> \in scripts'
                  /\ phase'[k] \in SystemdSteps => <<"systemd", Command(k)'>> \in scripts'
  BY <1>e, EndShape
<1>0. CASE UNCHANGED schedVars
  BY <1>0 DEF schedVars
<1>1. ASSUME NEW j \in Installers, Select(j) PROVE ScriptInv'
  BY <1>1, SelectShape
<1>2. ASSUME NEW j \in Installers, Fail(j) PROVE ScriptInv'
  BY <1>2, <1>e DEF Fail
<1>3. ASSUME NEW j \in Installers, GiveUp(j) PROVE ScriptInv'
  BY <1>3 DEF GiveUp
<1>4. ASSUME NEW j \in Installers, PutScript(j) PROVE ScriptInv'
  <2>1. scripts \subseteq scripts' /\ <<backend[j], Command(j)>> \in scripts'
    BY <1>4 DEF PutScript
  <2>2. backend[j] \in {"cron", "systemd"}
    BY <1>4 DEF PutScript, PlaceInv, Working
  <2>3. /\ \A k \in Installers \ {j} : phase'[k] = phase[k]
        /\ phase'[j] = (IF backend[j] = "cron" THEN "list" ELSE "unit")
        /\ nth' = nth
    BY <1>4, ProceedShape DEF PutScript
  <2> QED  BY <1>4, <2>1, <2>2, <2>3 DEF PutScript
<1>5. ASSUME NEW j \in Installers, List(j) PROVE ScriptInv'
  <2>1. /\ \A k \in Installers \ {j} : phase'[k] = phase[k]
        /\ phase'[j] \in {"filter", "append"} /\ phase[j] = "list"
        /\ nth' = nth
    BY <1>5, ProceedShape DEF List
  <2>2. edited' = [edited EXCEPT ![j] = table] \/ edited' = [edited EXCEPT ![j] = {}]
    BY <1>5 DEF List
  <2>3. \A k \in Installers : \A l \in edited'[k] : l \in edited[k] \/ l \in table
    BY <2>2 DEF SchedTypeOK
  <2>4. UNCHANGED <<orders, backend, gone, table, safe, scripts, units>>
    BY <1>5 DEF List
  <2> QED  BY <2>1, <2>3, <2>4
<1>6. ASSUME NEW j \in Installers, Signal(j) PROVE ScriptInv'
  BY <1>6 DEF Signal
<1>7. ASSUME NEW j \in Installers, Filter(j) PROVE ScriptInv'
  <2>1. \A k \in Installers : edited'[k] \subseteq edited[k]
    BY <1>7 DEF Filter, Kept, SchedTypeOK
  <2>2. /\ \A k \in Installers \ {j} : phase'[k] = phase[k]
        /\ phase'[j] = "append" /\ nth' = nth
    BY <1>7, ProceedShape DEF Filter
  <2> QED  BY <1>7, <2>1, <2>2 DEF Filter
<1>8. ASSUME NEW j \in Installers, AddEntry(j) PROVE ScriptInv'
  <2>1. \A k \in Installers : \A l \in edited'[k] :
            l \in edited[k] \/ (k = j /\ l = Line(Command(j), j))
    BY <1>8 DEF AddEntry, SchedTypeOK
  <2>2. /\ \A k \in Installers \ {j} : phase'[k] = phase[k]
        /\ phase'[j] = "install" /\ nth' = nth
    BY <1>8, ProceedShape DEF AddEntry
  <2>3. Line(Command(j), j).id = Command(j)
    BY DEF Line
  <2> QED  BY <1>8, <2>1, <2>2, <2>3 DEF AddEntry
<1>9. ASSUME NEW j \in Installers, PutTable(j) PROVE ScriptInv'
  <2>1. ScriptEnds(j, TRUE) /\ table' = edited[j] /\ UNCHANGED <<orders, scripts, units>>
    BY <1>9 DEF PutTable
  <2>2. /\ \A k \in Installers : \A l \in edited'[k] :
             l.id \in Commands => <<"cron", l.id>> \in scripts'
        /\ \A k \in Installers :
             /\ phase'[k] \in Editing \union {"list"} => <<"cron", Command(k)'>> \in scripts'
             /\ phase'[k] \in SystemdSteps => <<"systemd", Command(k)'>> \in scripts'
    BY <1>e, <2>1
  <2> QED  BY <2>1, <2>2
<1>10. ASSUME NEW j \in Installers, PutUnit(j) PROVE ScriptInv'
  <2>1. /\ \A k \in Installers \ {j} : phase'[k] = phase[k]
        /\ phase'[j] = "reload" /\ nth' = nth
    BY <1>10, ProceedShape DEF PutUnit
  <2>2. \A c \in Commands : timer'[c] = timer[c] \/ c = Command(j)
    BY <1>10 DEF PutUnit, SchedTypeOK
  <2> QED  BY <1>10, <2>1, <2>2 DEF PutUnit
<1>11. ASSUME NEW j \in Installers, Reload(j) PROVE ScriptInv'
  BY <1>11, ProceedShape DEF Reload
<1>12. ASSUME NEW j \in Installers, Enable(j) PROVE ScriptInv'
  BY <1>12, ProceedShape DEF Enable
<1>13. ASSUME NEW j \in Installers, Restart(j) PROVE ScriptInv'
  <2>1. ScriptEnds(j, TRUE) /\ UNCHANGED <<orders, table, scripts, timer, loaded>>
    BY <1>13 DEF Restart
  <2>2. \A c \in Commands : running'[c] = running[c] \/ running'[c] = loaded[c]
    BY <1>13 DEF Restart, SchedTypeOK
  <2>3. /\ \A k \in Installers : \A l \in edited'[k] :
             l.id \in Commands => <<"cron", l.id>> \in scripts'
        /\ \A k \in Installers :
             /\ phase'[k] \in Editing \union {"list"} => <<"cron", Command(k)'>> \in scripts'
             /\ phase'[k] \in SystemdSteps => <<"systemd", Command(k)'>> \in scripts'
    BY <1>e, <2>1
  <2> QED  BY <2>1, <2>2, <2>3
<1>14. CASE Edit
  <2>1. \A o \in Others : Line(o, "owner").id \notin Commands
    BY OthersAssumption DEF Line
  <2> QED  BY <1>14, <2>1 DEF Edit
<1> QED
  BY <1>0, <1>1, <1>2, <1>3, <1>4, <1>5, <1>6, <1>7, <1>8, <1>9, <1>10, <1>11, <1>12,
     <1>13, <1>14 DEF SchedNext

-----------------------------------------------------------------------------
\* No timer is new at the start.
LEMMA InitUnit == SchedInit => UnitInv
  BY DEF SchedInit, UnitInv

\* A step makes no new timer old again, and each of the three follows the one before.
LEMMA StepUnit ==
    ASSUME SchedTypeOK, PlaceInv, UnitInv, [SchedNext]_schedVars
    PROVE  UnitInv'
<1> USE DEF UnitInv, orders, crontab, units, edit, progress, Command
<1>c. \A j \in Installers : phase[j] \in Working => Command(j) \in Commands
  BY CommandType
<1>e. ASSUME NEW j \in Installers, NEW ok \in BOOLEAN, ScriptEnds(j, ok),
             UNCHANGED <<orders, timer, loaded>>
      PROVE  \A k \in Installers :
                  /\ phase'[k] \in {"reload", "enable", "restart"} => timer'[Command(k)'] = "new"
                  /\ phase'[k] \in {"enable", "restart"} => loaded'[Command(k)'] = "new"
  BY <1>e, EndShape
<1>0. CASE UNCHANGED schedVars
  BY <1>0 DEF schedVars
<1>1. ASSUME NEW j \in Installers, Select(j) PROVE UnitInv'
  BY <1>1, SelectShape
<1>2. ASSUME NEW j \in Installers, Fail(j) PROVE UnitInv'
  BY <1>2, <1>e DEF Fail
<1>3. ASSUME NEW j \in Installers, GiveUp(j) PROVE UnitInv'
  BY <1>3 DEF GiveUp
<1>4. ASSUME NEW j \in Installers, PutScript(j) PROVE UnitInv'
  <2>1. \E s \in {"list", "unit"} : Proceed(j, s)
    BY <1>4 DEF PutScript
  <2> QED  BY <1>4, <2>1, ProceedShape DEF PutScript
<1>5. ASSUME NEW j \in Installers, List(j) PROVE UnitInv'
  BY <1>5, ProceedShape DEF List
<1>6. ASSUME NEW j \in Installers, Signal(j) PROVE UnitInv'
  BY <1>6 DEF Signal
<1>7. ASSUME NEW j \in Installers, Filter(j) PROVE UnitInv'
  BY <1>7, ProceedShape DEF Filter
<1>8. ASSUME NEW j \in Installers, AddEntry(j) PROVE UnitInv'
  BY <1>8, ProceedShape DEF AddEntry
<1>9. ASSUME NEW j \in Installers, PutTable(j) PROVE UnitInv'
  BY <1>9, <1>e DEF PutTable
<1>10. ASSUME NEW j \in Installers, PutUnit(j) PROVE UnitInv'
  <2>1. /\ \A k \in Installers \ {j} : phase'[k] = phase[k]
        /\ phase'[j] = "reload" /\ nth' = nth
    BY <1>10, ProceedShape DEF PutUnit
  <2>2. /\ \A c \in Commands : timer'[c] = timer[c] \/ timer'[c] = "new"
        /\ timer'[Command(j)] = "new"
    BY <1>10, <1>c DEF PutUnit, SchedTypeOK, Working
  <2>3. \A k \in Installers : phase[k] \in {"reload", "enable", "restart"} => Command(k) \in Commands
    BY <1>c DEF Working
  <2> QED  BY <1>10, <2>1, <2>2, <2>3 DEF PutUnit
<1>11. ASSUME NEW j \in Installers, Reload(j) PROVE UnitInv'
  <2>1. \A k \in Installers : phase[k] \in {"reload", "enable", "restart"} => Command(k) \in Commands
    BY <1>c DEF Working
  <2> QED  BY <1>11, <2>1, ProceedShape DEF Reload
<1>12. ASSUME NEW j \in Installers, Enable(j) PROVE UnitInv'
  BY <1>12, ProceedShape DEF Enable
<1>13. ASSUME NEW j \in Installers, Restart(j) PROVE UnitInv'
  <2>1. \A c \in Commands : running'[c] = "new" => running[c] = "new" \/ loaded[c] = "new"
    BY <1>13 DEF Restart, SchedTypeOK
  <2> QED  BY <1>13, <1>e, <2>1 DEF Restart
<1>14. CASE Edit
  BY <1>14 DEF Edit
<1> QED
  BY <1>0, <1>1, <1>2, <1>3, <1>4, <1>5, <1>6, <1>7, <1>8, <1>9, <1>10, <1>11, <1>12,
     <1>13, <1>14 DEF SchedNext

-----------------------------------------------------------------------------
\* An earlier run left one line for a command.
LEMMA InitUnique == SchedInit => UniqueInv
<1> SUFFICES ASSUME SchedInit PROVE UniqueInv
    OBVIOUS
<1>1. PICK byCron \in SUBSET Commands, theirs \in SUBSET Others :
        table = {Line(c, "before") : c \in byCron} \union {Line(o, "owner") : o \in theirs}
  BY DEF SchedInit
<1>2. OnePerCommand(table)
  BY <1>1, OthersAssumption DEF OnePerCommand, Line
<1> QED  BY <1>2 DEF SchedInit, UniqueInv, OnePerCommand

\* A step puts no second line for a command.
LEMMA StepUnique ==
    ASSUME SchedTypeOK, PlaceInv, UniqueInv, [SchedNext]_schedVars
    PROVE  UniqueInv'
<1> USE DEF UniqueInv, orders, crontab, units, edit, progress, Command
<1>c. OnePerCommand({})
  BY DEF OnePerCommand
<1>e. ASSUME NEW j \in Installers, NEW ok \in BOOLEAN, ScriptEnds(j, ok), UNCHANGED orders
      PROVE  \A k \in Installers :
                /\ OnePerCommand(edited'[k])
                /\ phase'[k] = "append" => \A l \in edited'[k] : l.id # Command(k)'
  <2>1. /\ \A k \in Installers \ {j} : phase'[k] = phase[k] /\ nth'[k] = nth[k]
                                      /\ edited'[k] = edited[k]
        /\ edited'[j] = {} /\ phase'[j] # "append" /\ commands' = commands
    BY <1>e, EndShape
  <2>2. TAKE k \in Installers
  <2>3. OnePerCommand(edited'[k])
    BY <1>c, <2>1
  <2>4. ASSUME phase'[k] = "append" PROVE \A l \in edited'[k] : l.id # Command(k)'
    BY <2>1, <2>4
  <2> QED  BY <2>3, <2>4
<1>0. CASE UNCHANGED schedVars
  BY <1>0 DEF schedVars
<1>1. ASSUME NEW j \in Installers, Select(j) PROVE UniqueInv'
  BY <1>1, SelectShape
<1>2. ASSUME NEW j \in Installers, Fail(j) PROVE UniqueInv'
  BY <1>2, <1>e DEF Fail
<1>3. ASSUME NEW j \in Installers, GiveUp(j) PROVE UniqueInv'
  BY <1>3 DEF GiveUp
<1>4. ASSUME NEW j \in Installers, PutScript(j) PROVE UniqueInv'
  <2>1. \E s \in {"list", "unit"} : Proceed(j, s)
    BY <1>4 DEF PutScript
  <2> QED  BY <1>4, <2>1, ProceedShape DEF PutScript
<1>5. ASSUME NEW j \in Installers, List(j) PROVE UniqueInv'
  <2>1. \/ edited' = [edited EXCEPT ![j] = table] /\ Proceed(j, "filter")
        \/ edited' = [edited EXCEPT ![j] = {}] /\ Proceed(j, "append")
    BY <1>5 DEF List
  <2>2. /\ \A k \in Installers \ {j} : phase'[k] = phase[k] /\ edited'[k] = edited[k]
        /\ nth' = nth
        /\ (edited'[j] = table /\ phase'[j] = "filter") \/ edited'[j] = {}
    BY <2>1, ProceedShape DEF SchedTypeOK
  <2>3. UNCHANGED <<orders, backend, gone, table, safe, scripts, units>>
    BY <1>5 DEF List
  <2> QED  BY <1>c, <2>2, <2>3
<1>6. ASSUME NEW j \in Installers, Signal(j) PROVE UniqueInv'
  BY <1>6 DEF Signal
<1>7. ASSUME NEW j \in Installers, Filter(j) PROVE UniqueInv'
  <2>1. /\ \A k \in Installers \ {j} : phase'[k] = phase[k] /\ edited'[k] = edited[k]
        /\ phase'[j] = "append" /\ nth' = nth
        /\ edited'[j] = Kept(edited[j], Command(j))
    BY <1>7, ProceedShape DEF Filter, SchedTypeOK
  <2>2. /\ OnePerCommand(edited'[j])
        /\ \A l \in edited'[j] : l.id # Command(j)
    BY <2>1 DEF Kept, OnePerCommand
  <2> QED  BY <1>7, <2>1, <2>2 DEF Filter
<1>8. ASSUME NEW j \in Installers, AddEntry(j) PROVE UniqueInv'
  <2>1. /\ \A k \in Installers \ {j} : phase'[k] = phase[k] /\ edited'[k] = edited[k]
        /\ phase'[j] = "install" /\ nth' = nth
        /\ edited'[j] = (IF gone[j] THEN {} ELSE edited[j]) \union {Line(Command(j), j)}
    BY <1>8, ProceedShape DEF AddEntry, SchedTypeOK
  <2>2. OnePerCommand(edited'[j])
    BY <1>8, <2>1 DEF AddEntry, OnePerCommand, Line
  <2> QED  BY <1>8, <2>1, <2>2 DEF AddEntry
<1>9. ASSUME NEW j \in Installers, PutTable(j) PROVE UniqueInv'
  BY <1>9, <1>e DEF PutTable
<1>10. ASSUME NEW j \in Installers, PutUnit(j) PROVE UniqueInv'
  BY <1>10, ProceedShape DEF PutUnit
<1>11. ASSUME NEW j \in Installers, Reload(j) PROVE UniqueInv'
  BY <1>11, ProceedShape DEF Reload
<1>12. ASSUME NEW j \in Installers, Enable(j) PROVE UniqueInv'
  BY <1>12, ProceedShape DEF Enable
<1>13. ASSUME NEW j \in Installers, Restart(j) PROVE UniqueInv'
  BY <1>13, <1>e DEF Restart
<1>14. CASE Edit
  <2>1. PICK o \in Others : table' = table \union {Line(o, "owner")}
    BY <1>14 DEF Edit
  <2>2. Line(o, "owner").id \notin Commands
    BY OthersAssumption DEF Line
  <2>3. OnePerCommand(table')
    BY <2>1, <2>2 DEF OnePerCommand
  <2> QED  BY <1>14, <2>3 DEF Edit
<1> QED
  BY <1>0, <1>1, <1>2, <1>3, <1>4, <1>5, <1>6, <1>7, <1>8, <1>9, <1>10, <1>11, <1>12,
     <1>13, <1>14 DEF SchedNext

-----------------------------------------------------------------------------
\* Nobody edits at the start.
LEMMA InitEdit == SchedInit => EditInv
  BY DEF SchedInit, EditInv, Editing

\* A job that edits alone goes on doing so.
LEMMA StepEdit ==
    ASSUME SchedTypeOK, PlaceInv, KeepInv, EditInv, [SchedNext]_schedVars
    PROVE  EditInv'
<1> USE DEF EditInv, Editing, excused, orders, crontab, units, edit, progress, Command
<1>e. ASSUME NEW j \in Installers, NEW ok \in BOOLEAN, ScriptEnds(j, ok),
             UNCHANGED <<orders, table, excused, overlap>>
      PROVE  EditInv'
  <2>1. /\ \A k \in Installers \ {j} : phase'[k] = phase[k] /\ nth'[k] = nth[k]
                                      /\ edited'[k] = edited[k]
        /\ phase'[j] \in {"over", "script"}
    BY <1>e, EndShape
  <2> QED  BY <1>e, <2>1
<1>p. ASSUME NEW j \in Installers, NEW s \in {"list", "unit", "reload", "enable", "restart"},
             Proceed(j, s), UNCHANGED <<orders, edited, table, excused, overlap>>
      PROVE  EditInv'
  BY <1>p, ProceedShape
<1>0. CASE UNCHANGED schedVars
  BY <1>0 DEF schedVars
<1>1. ASSUME NEW j \in Installers, Select(j) PROVE EditInv'
  BY <1>1, SelectShape
<1>2. ASSUME NEW j \in Installers, Fail(j) PROVE EditInv'
  BY <1>2, <1>e DEF Fail
<1>3. ASSUME NEW j \in Installers, GiveUp(j) PROVE EditInv'
  BY <1>3 DEF GiveUp
<1>4. ASSUME NEW j \in Installers, PutScript(j) PROVE EditInv'
  BY <1>4, <1>p DEF PutScript
<1>5. ASSUME NEW j \in Installers, List(j) PROVE EditInv'
  <2>1. /\ \A k \in Installers \ {j} : phase'[k] = phase[k]
        /\ phase'[j] \in {"filter", "append"} /\ nth' = nth
    BY <1>5, ProceedShape DEF List
  <2>2. overlap' = (overlap \/ \E k \in Installers : phase[k] \in Editing)
        /\ UNCHANGED <<orders, table>>
    BY <1>5 DEF List
  <2>3. ASSUME ~overlap' PROVE \A k \in Installers : phase[k] \notin Editing
    BY <2>2, <2>3, Zenon
  <2>4. ASSUME ~overlap', ~excused' PROVE ~excused /\ (edited'[j] = table \/ table = {})
    <3>1. /\ \/ edited' = [edited EXCEPT ![j] = table] /\ UNCHANGED unread
             \/ unread' = (unread \/ table # {})
          /\ UNCHANGED signalled
      BY <1>5 DEF List
    <3>2. ~unread' /\ ~signalled'
      BY <2>4
    <3>3. CASE edited' = [edited EXCEPT ![j] = table] /\ UNCHANGED unread
      BY <3>1, <3>2, <3>3 DEF SchedTypeOK
    <3>4. CASE unread' = (unread \/ table # {})
      <4>1. ~unread /\ table = {}
        BY <3>2, <3>4, Zenon
      <4> QED  BY <3>1, <3>2, <4>1
    <3> QED  BY <3>1, <3>3, <3>4
  <2> QED  BY <2>1, <2>2, <2>3, <2>4
<1>6. ASSUME NEW j \in Installers, Signal(j) PROVE EditInv'
  <2>1. /\ signalled' = (signalled \/ phase[j] = "append")
        /\ UNCHANGED <<orders, progress, edited, table, unread, overlap>>
    BY <1>6 DEF Signal
  <2>2. ~excused' => ~excused
    BY <2>1, Zenon
  <2> QED  BY <2>1, <2>2
<1>7. ASSUME NEW j \in Installers, Filter(j) PROVE EditInv'
  <2>1. /\ \A k \in Installers \ {j} : phase'[k] = phase[k] /\ edited'[k] = edited[k]
        /\ phase[j] = "filter" /\ phase'[j] = "append" /\ nth' = nth
        /\ edited'[j] = {l \in edited[j] : l.id # Command(j)}
        /\ UNCHANGED <<orders, crontab>>
    BY <1>7, ProceedShape DEF Filter, SchedTypeOK, Kept
  <2> QED  BY <2>1
<1>8. ASSUME NEW j \in Installers, AddEntry(j) PROVE EditInv'
  <2>1. /\ \A k \in Installers \ {j} : phase'[k] = phase[k] /\ edited'[k] = edited[k]
        /\ phase[j] = "append" /\ phase'[j] = "install" /\ nth' = nth
        /\ edited'[j] = (IF gone[j] THEN {} ELSE edited[j]) \union {Line(Command(j), j)}
        /\ UNCHANGED <<orders, crontab>>
    BY <1>8, ProceedShape DEF AddEntry, SchedTypeOK
  <2>2. ~excused => ~gone[j]
    BY <2>1 DEF KeepInv
  <2> QED  BY <2>1, <2>2
<1>9. ASSUME NEW j \in Installers, PutTable(j) PROVE EditInv'
  <2>1. /\ \A k \in Installers \ {j} : phase'[k] = phase[k]
        /\ phase[j] = "install" /\ phase'[j] \in {"over", "script"}
        /\ UNCHANGED <<overlap, excused>>
    BY <1>9, EndShape DEF PutTable
  <2>2. ~overlap => \A k \in Installers : phase'[k] \notin Editing
    BY <2>1
  <2> QED  BY <2>1, <2>2
<1>10. ASSUME NEW j \in Installers, PutUnit(j) PROVE EditInv'
  BY <1>10, <1>p DEF PutUnit
<1>11. ASSUME NEW j \in Installers, Reload(j) PROVE EditInv'
  BY <1>11, <1>p DEF Reload
<1>12. ASSUME NEW j \in Installers, Enable(j) PROVE EditInv'
  BY <1>12, <1>p DEF Enable
<1>13. ASSUME NEW j \in Installers, Restart(j) PROVE EditInv'
  BY <1>13, <1>e DEF Restart
<1>14. CASE Edit
  <2>1. PICK o \in Others : table' = table \union {Line(o, "owner")}
    BY <1>14 DEF Edit
  <2>2. Line(o, "owner").id \notin Commands
    BY OthersAssumption DEF Line
  <2>3. UNCHANGED <<orders, progress, edit, excused, overlap>>
    BY <1>14 DEF Edit
  <2> QED  BY <2>1, <2>2, <2>3
<1> QED
  BY <1>0, <1>1, <1>2, <1>3, <1>4, <1>5, <1>6, <1>7, <1>8, <1>9, <1>10, <1>11, <1>12,
     <1>13, <1>14 DEF SchedNext

-----------------------------------------------------------------------------
\* Nothing has been dealt with at the start.
LEMMA InitDone == SchedInit => DoneInv
<1> SUFFICES ASSUME SchedInit PROVE DoneInv
    OBVIOUS
<1>1. commands \in Seq(Commands)
  BY PlansAssumption DEF SchedInit
<1>2. \A j \in Installers : phase[j] = "select" /\ nth[j] = 1 /\ bad[j] = FALSE
                            /\ orphan[j] = FALSE /\ backend[j] = "none"
  BY DEF SchedInit
<1>3. \A n \in DOMAIN commands : n \in Nat /\ ~(n < 1)
  BY <1>1
<1>4. \A j \in Installers : \A n \in Dealt(j) : FALSE
  BY <1>2, <1>3 DEF Dealt
<1> QED  BY <1>2, <1>4 DEF DoneInv

\* DoneInv outlives a step after which a job without an error has dealt with no more,
\* and that loses no entry.
LEMMA DoneKept ==
    ASSUME DoneInv, NEW J, J \subseteq Installers, commands' = commands,
           \A k \in J : /\ backend'[k] = backend[k] /\ (bad[k] => bad'[k])
                        /\ phase'[k] = phase[k] \/ (phase'[k] # "over" /\ phase[k] # "over")
                        /\ nth'[k] = nth[k],
           ~overlap, ~excused,
           \A c \in Commands : /\ HasEntry(c) => HasEntry(c)'
                               /\ running[c] = "new" => running'[c] = "new",
           commands \in Seq(Commands)
    PROVE  \A k \in J : ~bad'[k] => \A n \in Dealt(k)' : InPlace(backend[k], commands[n])'
<1> SUFFICES ASSUME NEW k \in J, ~bad'[k], NEW n \in Dealt(k)'
             PROVE  InPlace(backend[k], commands[n])'
    OBVIOUS
<1>1. n \in Dealt(k) /\ n \in DOMAIN commands /\ ~bad[k]
  BY DEF Dealt
<1>2. commands[n] \in Commands
  BY <1>1
<1>3. InPlace(backend[k], commands[n])
  BY <1>1 DEF DoneInv
<1> QED  BY <1>2, <1>3 DEF InPlace

\* No step takes an entry away where the edits are apart.
LEMMA EntriesLast ==
    ASSUME SchedTypeOK, PlaceInv, UnitInv, EditInv, ~overlap, ~excused, [SchedNext]_schedVars
    PROVE  \A c \in Commands : /\ HasEntry(c) => HasEntry(c)'
                               /\ running[c] = "new" => running'[c] = "new"
<1> USE DEF HasEntry, crontab, units
<1>c. \A j \in Installers : phase[j] \in Working => Command(j) \in Commands
  BY CommandType
<1>0. CASE UNCHANGED <<table, running>>
  BY <1>0
<1>1. ASSUME NEW j \in Installers, PutTable(j)
      PROVE  \A c \in Commands : /\ HasEntry(c) => HasEntry(c)'
                                 /\ running[c] = "new" => running'[c] = "new"
  <2>1. table' = edited[j] /\ phase[j] = "install" /\ running' = running
    BY <1>1 DEF PutTable
  <2>2. /\ \A l \in table : l.id \notin Commands \/ l \in edited[j] \/ l.id = Command(j)
        /\ Line(Command(j), j) \in edited[j]
    BY <2>1 DEF EditInv, Editing
  <2>3. Line(Command(j), j).id = Command(j) /\ Line(Command(j), j).by = j
    BY DEF Line
  <2> QED  BY <2>1, <2>2, <2>3
<1>2. ASSUME NEW j \in Installers, Restart(j)
      PROVE  \A c \in Commands : /\ HasEntry(c) => HasEntry(c)'
                                 /\ running[c] = "new" => running'[c] = "new"
  <2>1. /\ phase[j] = "restart" /\ table' = table
        /\ running' = [running EXCEPT ![Command(j)] = loaded[Command(j)]]
    BY <1>2 DEF Restart
  <2>2. loaded[Command(j)] = "new"
    BY <2>1 DEF UnitInv
  <2> QED  BY <2>1, <2>2 DEF SchedTypeOK
<1>3. CASE Edit
  BY <1>3 DEF Edit
<1>4. ASSUME NEW j \in Installers,
             \/ Select(j) \/ Fail(j) \/ GiveUp(j) \/ PutScript(j) \/ List(j) \/ Signal(j)
             \/ Filter(j) \/ AddEntry(j) \/ PutUnit(j) \/ Reload(j) \/ Enable(j)
      PROVE  UNCHANGED <<table, running>>
  BY <1>4 DEF Select, Fail, GiveUp, PutScript, List, Signal, Filter, AddEntry, PutUnit, Reload, Enable
<1> QED  BY <1>0, <1>1, <1>2, <1>3, <1>4 DEF SchedNext, schedVars

\* The crontab's troubles do not end.
LEMMA TroublesStay ==
    ASSUME SchedTypeOK, [SchedNext]_schedVars, ~overlap', ~excused'
    PROVE  ~overlap /\ ~excused
<1> USE DEF crontab, excused
<1>1. ASSUME NEW j \in Installers, List(j) PROVE ~overlap /\ ~excused
  <2>1. overlap' = (overlap \/ \E k \in Installers : phase[k] \in Editing)
    BY <1>1 DEF List
  <2>2. (unread' = unread \/ unread' = (unread \/ table # {})) /\ UNCHANGED signalled
    BY <1>1 DEF List
  <2>3. ~overlap
    BY <2>1, Zenon
  <2>4. ~excused
    BY <2>2, Zenon
  <2> QED  BY <2>3, <2>4
<1>2. ASSUME NEW j \in Installers,
             \/ Select(j) \/ Fail(j) \/ GiveUp(j) \/ PutScript(j) \/ Filter(j) \/ AddEntry(j)
             \/ PutTable(j) \/ PutUnit(j) \/ Reload(j) \/ Enable(j) \/ Restart(j)
      PROVE  UNCHANGED <<overlap, unread, signalled>>
  BY <1>2 DEF Select, Fail, GiveUp, PutScript, Filter, AddEntry, PutTable, PutUnit, Reload,
              Enable, Restart
<1>3. ASSUME NEW j \in Installers, Signal(j) PROVE ~overlap /\ ~excused
  <2>1. signalled' = (signalled \/ phase[j] = "append") /\ UNCHANGED <<unread, overlap>>
    BY <1>3 DEF Signal
  <2> QED  BY <2>1, Zenon
<1>4. CASE Edit \/ UNCHANGED schedVars
  BY <1>4 DEF Edit, schedVars
<1>5. CASE \E j \in Installers : List(j)
  BY <1>5, <1>1
<1>6. CASE \E j \in Installers : Signal(j)
  BY <1>6, <1>3
<1>7. CASE UNCHANGED <<overlap, unread, signalled>>
  BY <1>7
<1> QED  BY <1>2, <1>4, <1>5, <1>6, <1>7 DEF SchedNext

\* A step deals with a command only by installing it, or by an error.
LEMMA StepDone ==
    ASSUME SchedTypeOK, PlaceInv, UnitInv, EditInv, DoneInv, [SchedNext]_schedVars
    PROVE  DoneInv'
<1> USE DEF orders, crontab, units, edit, progress
<1> DEFINE Cause(k) == /\ orphan[k] \/ backend[k] = "refused" => bad[k]
                       /\ phase[k] = "select" => ~orphan[k]
           DoneBy(k) == ~bad[k] => \A n \in Dealt(k) : InPlace(backend[k], commands[n])
           Apart == ~overlap /\ ~excused
<1>a. \A k \in Installers : Cause(k)
  BY DEF DoneInv
<1>b. commands \in Seq(Commands)
  BY PlansAssumption DEF SchedTypeOK
<1>c. ASSUME Apart'
      PROVE  /\ ~overlap /\ ~excused
             /\ \A c \in Commands : /\ HasEntry(c) => HasEntry(c)'
                                    /\ running[c] = "new" => running'[c] = "new"
  BY <1>c, TroublesStay, EntriesLast
<1>k. ASSUME Apart', commands' = commands, NEW J \in SUBSET Installers,
             \A k \in J : /\ backend'[k] = backend[k] /\ (bad[k] => bad'[k])
                          /\ phase'[k] = phase[k] \/ (phase'[k] # "over" /\ phase[k] # "over")
                          /\ nth'[k] = nth[k]
      PROVE  \A k \in J : DoneBy(k)'
  <2>1. \A k \in J : ~bad'[k] => \A n \in Dealt(k)' : InPlace(backend[k], commands[n])'
    BY <1>b, <1>c, <1>k, DoneKept
  <2> QED  BY <2>1, <1>k DEF InPlace
<1>q. ASSUME NEW j \in Installers, commands' = commands, nth' = nth, backend' = backend, bad' = bad,
             orphan' = orphan, \A k \in Installers \ {j} : phase'[k] = phase[k],
             phase[j] \notin {"over", "select"}, phase'[j] \notin {"over", "select"}
      PROVE  DoneInv'
  <2>1. \A k \in Installers : Cause(k)'
    BY <1>a, <1>q
  <2>2. ASSUME Apart' PROVE \A k \in Installers : DoneBy(k)'
    BY <1>k, <1>q, <2>2
  <2> QED  BY <2>1, <2>2 DEF DoneInv
<1>p. ASSUME NEW j \in Installers, NEW s \in Working, Proceed(j, s), phase[j] \in Working,
             commands' = commands, backend' = backend
      PROVE  DoneInv'
  <2>1. /\ \A k \in Installers \ {j} : phase'[k] = phase[k]
        /\ phase'[j] = s /\ nth' = nth /\ bad' = bad /\ orphan' = orphan
    BY <1>p, ProceedShape
  <2> QED  BY <1>p, <1>q, <2>1 DEF Working, Editing
<1>e. ASSUME NEW j \in Installers, NEW ok \in BOOLEAN, ScriptEnds(j, ok), phase[j] \in Working,
             commands' = commands, backend' = backend,
             NEW c, c = Command(j), Apart' /\ ok => InPlace(backend[j], c)'
      PROVE  DoneInv'
  <2>1. /\ \A k \in Installers \ {j} : phase'[k] = phase[k] /\ nth'[k] = nth[k] /\ bad'[k] = bad[k]
        /\ orphan' = orphan /\ phase'[j] \in {"over", "script"}
        /\ bad[j] \/ ~ok => bad'[j]
        /\ phase'[j] = "script" => nth'[j] = nth[j] + 1
        /\ phase'[j] = "over" => nth[j] = Len(commands) \/ orphan[j]
    BY <1>e, EndShape
  <2>2. \A k \in Installers : Cause(k)'
    BY <1>a, <1>e, <2>1
  <2>3. ASSUME Apart' PROVE \A k \in Installers \ {j} : DoneBy(k)'
    BY <1>k, <1>e, <2>1, <2>3
  <2>4. ASSUME Apart', ~bad'[j], NEW n \in Dealt(j)' PROVE InPlace(backend[j], commands[n])'
    <3>1. ok /\ ~bad[j] /\ ~orphan[j]
      BY <1>a, <2>1, <2>4
    <3>2. n \in DOMAIN commands /\ nth[j] \in Nat \ {0} /\ nth[j] \in DOMAIN commands
      BY <1>e, <2>4 DEF Dealt, SchedTypeOK, PlaceInv
    <3>3. phase[j] # "over"
      BY <1>e DEF Working, Editing
    <3>4. n < nth[j] \/ n = nth[j]
      BY <1>b, <1>e, <2>1, <2>4, <3>1, <3>2 DEF Dealt
    <3>5. CASE n = nth[j]
      BY <1>e, <2>4, <3>1, <3>5 DEF Command
    <3>6. CASE n < nth[j]
      <4>1. n \in Dealt(j)
        BY <3>2, <3>6 DEF Dealt
      <4>2. InPlace(backend[j], commands[n]) /\ commands[n] \in Commands
        BY <1>b, <1>c, <2>4, <3>1, <3>2, <4>1 DEF DoneInv
      <4> QED  BY <1>c, <1>e, <2>4, <4>2 DEF InPlace
    <3> QED  BY <3>4, <3>5, <3>6
  <2>5. ASSUME Apart' PROVE DoneBy(j)'
    BY <1>e, <2>4, <2>5 DEF InPlace
  <2> QED  BY <2>2, <2>3, <2>5 DEF DoneInv
<1>0. CASE UNCHANGED schedVars
  BY <1>0 DEF schedVars, DoneInv, Dealt, InPlace, HasEntry, excused
<1>1. ASSUME NEW j \in Installers, Select(j) PROVE DoneInv'
  <2>1. /\ \A k \in Installers \ {j} : phase'[k] = phase[k] /\ backend'[k] = backend[k]
                                       /\ bad'[k] = bad[k]
        /\ phase'[j] \in {"over", "script"} /\ nth[j] = 1
        /\ backend'[j] = "refused" => bad'[j]
        /\ phase'[j] = "over" => bad'[j] \/ commands = <<>>
        /\ phase[j] = "select" /\ nth' = nth /\ orphan' = orphan /\ commands' = commands
    BY <1>1, SelectShape
  <2>2. \A k \in Installers : Cause(k)'
    BY <1>a, <2>1
  <2>3. ASSUME Apart' PROVE \A k \in Installers \ {j} : DoneBy(k)'
    BY <1>k, <2>1, <2>3
  <2>4. ~bad'[j] => \A n \in Dealt(j)' : FALSE
    BY <1>b, <2>1 DEF Dealt
  <2> QED  BY <2>2, <2>3, <2>4 DEF DoneInv
<1>2. ASSUME NEW j \in Installers, Fail(j) PROVE DoneInv'
  <2>1. /\ phase[j] \in Working /\ ScriptEnds(j, FALSE)
        /\ UNCHANGED <<orders, backend>>
    BY <1>2 DEF Fail
  <2>2. PICK c : c = Command(j)
    OBVIOUS
  <2> QED  BY <1>e, <2>1, <2>2
<1>3. ASSUME NEW j \in Installers, GiveUp(j) PROVE DoneInv'
  <2>1. /\ phase[j] \in Working /\ UNCHANGED <<orders, phase, nth, backend>>
        /\ orphan' = [orphan EXCEPT ![j] = TRUE]
        /\ bad' = [bad EXCEPT ![j] = TRUE]
    BY <1>3 DEF GiveUp
  <2>2. /\ \A k \in Installers \ {j} : orphan'[k] = orphan[k] /\ bad'[k] = bad[k]
        /\ bad'[j] /\ phase[j] # "select"
    BY <2>1 DEF SchedTypeOK, Working, Editing
  <2>3. \A k \in Installers : Cause(k)'
    BY <1>a, <2>1, <2>2
  <2>4. ASSUME Apart' PROVE \A k \in Installers : DoneBy(k)'
    BY <1>k, <2>1, <2>2, <2>4
  <2> QED  BY <2>3, <2>4 DEF DoneInv
<1>4. ASSUME NEW j \in Installers, PutScript(j) PROVE DoneInv'
  BY <1>4, <1>p DEF PutScript, Working
<1>5. ASSUME NEW j \in Installers, List(j) PROVE DoneInv'
  BY <1>5, <1>p DEF List, Working, Editing
<1>6. ASSUME NEW j \in Installers, Signal(j) PROVE DoneInv'
  BY <1>6, <1>q DEF Signal, Editing
<1>7. ASSUME NEW j \in Installers, Filter(j) PROVE DoneInv'
  BY <1>7, <1>p DEF Filter, Working, Editing
<1>8. ASSUME NEW j \in Installers, AddEntry(j) PROVE DoneInv'
  BY <1>8, <1>p DEF AddEntry, Working, Editing
<1>9. ASSUME NEW j \in Installers, PutTable(j) PROVE DoneInv'
  <2>1. /\ phase[j] = "install" /\ table' = edited[j] /\ ScriptEnds(j, TRUE)
        /\ UNCHANGED <<orders, backend>>
    BY <1>9 DEF PutTable
  <2>2. backend[j] = "cron" /\ phase[j] \in Working
    BY <2>1 DEF PlaceInv, Editing, Working
  <2>3. PICK c : c = Command(j)
    OBVIOUS
  <2>4. ASSUME Apart' PROVE HasEntry(c)'
    <3>1. Line(c, j) \in table'
      BY <1>c, <2>1, <2>3, <2>4 DEF EditInv, Editing
    <3>2. Line(c, j).id = c /\ Line(c, j).by = j
      BY DEF Line
    <3> QED  BY <3>1, <3>2 DEF HasEntry
  <2>5. Apart' => InPlace(backend[j], c)'
    BY <2>1, <2>2, <2>4 DEF InPlace
  <2> QED  BY <1>e, <2>1, <2>2, <2>3, <2>5
<1>10. ASSUME NEW j \in Installers, PutUnit(j) PROVE DoneInv'
  BY <1>10, <1>p DEF PutUnit, Working
<1>11. ASSUME NEW j \in Installers, Reload(j) PROVE DoneInv'
  BY <1>11, <1>p DEF Reload, Working
<1>12. ASSUME NEW j \in Installers, Enable(j) PROVE DoneInv'
  BY <1>12, <1>p DEF Enable, Working
<1>13. ASSUME NEW j \in Installers, Restart(j) PROVE DoneInv'
  <2>1. /\ phase[j] = "restart" /\ ScriptEnds(j, TRUE) /\ UNCHANGED <<orders, backend>>
        /\ running' = [running EXCEPT ![Command(j)] = loaded[Command(j)]]
    BY <1>13 DEF Restart
  <2>2. backend[j] = "systemd" /\ phase[j] \in Working /\ loaded[Command(j)] = "new"
    BY <2>1 DEF PlaceInv, UnitInv, Working
  <2>3. PICK c : c = Command(j)
    OBVIOUS
  <2>4. c \in Commands
    BY <2>2, <2>3, CommandType
  <2>5. running'[c] = "new"
    BY <2>1, <2>2, <2>3, <2>4 DEF SchedTypeOK
  <2>6. InPlace(backend[j], c)'
    BY <2>1, <2>2, <2>5 DEF InPlace
  <2> QED  BY <1>e, <2>1, <2>2, <2>3, <2>6
<1>14. CASE Edit
  <2>1. UNCHANGED <<orders, progress, backend>>
    BY <1>14 DEF Edit
  <2>2. \A k \in Installers : Cause(k)'
    BY <1>a, <2>1
  <2>3. ASSUME Apart' PROVE \A k \in Installers : DoneBy(k)'
    BY <1>k, <2>1, <2>3
  <2> QED  BY <2>2, <2>3 DEF DoneInv
<1> QED
  BY <1>0, <1>1, <1>2, <1>3, <1>4, <1>5, <1>6, <1>7, <1>8, <1>9, <1>10, <1>11, <1>12,
     <1>13, <1>14 DEF SchedNext

-----------------------------------------------------------------------------
\* What is scheduled at the start is an earlier run's.
LEMMA InitSource == SchedInit => SourceInv
<1> SUFFICES ASSUME SchedInit PROVE SourceInv
    OBVIOUS
<1>1. PICK byCron \in SUBSET Commands, theirs \in SUBSET Others, byTimer \in SUBSET Commands :
        /\ table = {Line(c, "before") : c \in byCron} \union {Line(o, "owner") : o \in theirs}
        /\ safe = theirs
        /\ scripts = ({"cron"} \X byCron) \union ({"systemd"} \X byTimer)
        /\ timer = [c \in Commands |-> IF c \in byTimer THEN "old" ELSE "none"]
  BY DEF SchedInit
<1>2. Sourced(table)
  BY <1>1, OthersAssumption DEF Sourced, Line
<1>3. \A c \in Commands : timer[c] # "new"
  BY <1>1
<1> QED  BY <1>2, <1>3 DEF SchedInit, SourceInv, Sourced

\* A job schedules with the backend it selected, and selects once.
LEMMA StepSource ==
    ASSUME SchedTypeOK, PlaceInv, SourceInv, [SchedNext]_schedVars
    PROVE  SourceInv'
<1> USE DEF orders, crontab, units, edit, progress
<1> DEFINE Timers == \A c \in Commands : /\ timer[c] = "new" => Selected("systemd")
                                         /\ loaded[c] = "new" => Selected("systemd")
                                         /\ running[c] = "new" => Selected("systemd")
<1>a. /\ \A j \in Installers : phase[j] = "select" => backend[j] = "none"
      /\ Sourced(table) /\ (\A j \in Installers : Sourced(edited[j])) /\ Timers
  BY DEF SourceInv
<1>t. ASSUME backend' = backend, Sourced(table), UNCHANGED table PROVE Sourced(table)'
  BY <1>t DEF Sourced, Selected
<1>u. ASSUME backend' = backend, UNCHANGED edited PROVE \A k \in Installers : Sourced(edited[k])'
  BY <1>a, <1>u DEF Sourced, Selected
<1>v. ASSUME backend' = backend, UNCHANGED units PROVE Timers'
  BY <1>a, <1>v DEF Selected
<1>p. ASSUME backend' = backend, NEW j \in Installers, phase[j] # "select", phase'[j] # "select",
             \A k \in Installers \ {j} : phase'[k] = phase[k]
      PROVE  \A k \in Installers : phase'[k] = "select" => backend'[k] = "none"
  BY <1>a, <1>p
<1>e. ASSUME backend' = backend, NEW j \in Installers, NEW ok \in BOOLEAN, ScriptEnds(j, ok),
             phase[j] # "select"
      PROVE  /\ \A k \in Installers : phase'[k] = "select" => backend'[k] = "none"
             /\ \A k \in Installers : Sourced(edited[k])'
  <2>1. /\ \A k \in Installers \ {j} : phase'[k] = phase[k] /\ edited'[k] = edited[k]
        /\ edited'[j] = {} /\ phase'[j] \in {"over", "script"}
    BY <1>e, EndShape
  <2>2. \A k \in Installers : phase'[k] = "select" => backend'[k] = "none"
    BY <1>e, <1>p, <2>1
  <2>3. \A k \in Installers : Sourced(edited[k])'
    BY <1>a, <1>e, <2>1 DEF Sourced, Selected
  <2> QED  BY <2>2, <2>3
<1>w. \A j \in Installers : /\ phase[j] \in Working => phase[j] # "select"
                            /\ phase[j] \in Editing \union {"list"} => Selected("cron")
                            /\ phase[j] \in {"unit", "reload", "enable", "restart"} => Selected("systemd")
  BY DEF PlaceInv, Selected, Working, Editing
<1>s. ASSUME NEW j \in Installers, NEW s \in Working, Proceed(j, s), phase[j] \in Working,
             backend' = backend
      PROVE  \A k \in Installers : phase'[k] = "select" => backend'[k] = "none"
  <2>1. phase'[j] = s /\ \A k \in Installers \ {j} : phase'[k] = phase[k]
    BY <1>s, ProceedShape
  <2> QED  BY <1>p, <1>s, <2>1 DEF Working, Editing
<1>0. CASE UNCHANGED schedVars
  BY <1>0 DEF schedVars, SourceInv, Sourced, Selected
<1>1. ASSUME NEW j \in Installers, Select(j) PROVE SourceInv'
  <2>1. /\ \A k \in Installers \ {j} : phase'[k] = phase[k] /\ backend'[k] = backend[k]
        /\ phase'[j] \in {"over", "script"} /\ phase[j] = "select"
        /\ UNCHANGED <<edit, crontab, units>>
    BY <1>1, SelectShape
  <2>2. backend[j] = "none"
    BY <1>a, <2>1
  <2>3. /\ Selected("cron") => Selected("cron")'
        /\ Selected("systemd") => Selected("systemd")'
    BY <2>1, <2>2 DEF Selected
  <2>4. \A k \in Installers : phase'[k] = "select" => backend'[k] = "none"
    BY <1>a, <2>1
  <2>5. Sourced(table)' /\ \A k \in Installers : Sourced(edited[k])'
    BY <1>a, <2>1, <2>3 DEF Sourced
  <2>6. Timers'
    BY <1>a, <2>1, <2>3
  <2> QED  BY <2>4, <2>5, <2>6 DEF SourceInv
<1>2. ASSUME NEW j \in Installers, Fail(j) PROVE SourceInv'
  <2>1. phase[j] \in Working /\ ScriptEnds(j, FALSE) /\ UNCHANGED <<backend, crontab, units>>
    BY <1>2 DEF Fail
  <2> QED  BY <1>a, <1>e, <1>t, <1>v, <1>w, <2>1 DEF SourceInv
<1>3. ASSUME NEW j \in Installers, GiveUp(j) PROVE SourceInv'
  BY <1>3 DEF GiveUp, SourceInv, Sourced, Selected
<1>4. ASSUME NEW j \in Installers, PutScript(j) PROVE SourceInv'
  <2>1. /\ \E s \in {"list", "unit"} : Proceed(j, s)
        /\ phase[j] = "script" /\ UNCHANGED <<backend, edit, crontab, units>>
    BY <1>4 DEF PutScript
  <2>2. \A k \in Installers : phase'[k] = "select" => backend'[k] = "none"
    BY <1>s, <2>1 DEF Working
  <2> QED  BY <1>a, <1>t, <1>u, <1>v, <2>1, <2>2 DEF SourceInv
<1>5. ASSUME NEW j \in Installers, List(j) PROVE SourceInv'
  <2>1. /\ \E s \in {"filter", "append"} : Proceed(j, s)
        /\ phase[j] = "list" /\ UNCHANGED <<backend, table, units>>
        /\ edited' = [edited EXCEPT ![j] = table] \/ edited' = [edited EXCEPT ![j] = {}]
    BY <1>5 DEF List
  <2>2. \A k \in Installers : phase'[k] = "select" => backend'[k] = "none"
    BY <1>s, <2>1 DEF Working, Editing
  <2>3. \A k \in Installers : edited'[k] \in {edited[k], table, {}}
    BY <2>1 DEF SchedTypeOK
  <2>4. \A k \in Installers : Sourced(edited[k])'
    BY <1>a, <2>1, <2>3 DEF Sourced, Selected
  <2> QED  BY <1>a, <1>t, <1>v, <2>1, <2>2, <2>4 DEF SourceInv
<1>6. ASSUME NEW j \in Installers, Signal(j) PROVE SourceInv'
  BY <1>6 DEF Signal, SourceInv, Sourced, Selected
<1>7. ASSUME NEW j \in Installers, Filter(j) PROVE SourceInv'
  <2>1. /\ Proceed(j, "append") /\ phase[j] = "filter" /\ UNCHANGED <<backend, crontab, units>>
        /\ \A k \in Installers : edited'[k] \subseteq edited[k]
    BY <1>7 DEF Filter, Kept, SchedTypeOK
  <2>2. \A k \in Installers : phase'[k] = "select" => backend'[k] = "none"
    BY <1>s, <2>1 DEF Working, Editing
  <2>3. \A k \in Installers : Sourced(edited[k])'
    BY <1>a, <2>1 DEF Sourced, Selected
  <2> QED  BY <1>a, <1>t, <1>v, <2>1, <2>2, <2>3 DEF SourceInv
<1>8. ASSUME NEW j \in Installers, AddEntry(j) PROVE SourceInv'
  <2>1. /\ Proceed(j, "install") /\ phase[j] = "append" /\ UNCHANGED <<backend, crontab, units>>
        /\ \A k \in Installers \ {j} : edited'[k] = edited[k]
    BY <1>8 DEF AddEntry, SchedTypeOK
  <2>2. \A k \in Installers : phase'[k] = "select" => backend'[k] = "none"
    BY <1>s, <2>1 DEF Working, Editing
  <2>3. Selected("cron")
    BY <1>w, <2>1 DEF Editing
  <2>4. \A k \in Installers : Sourced(edited[k])'
    BY <2>1, <2>3 DEF Sourced, Selected
  <2> QED  BY <1>a, <1>t, <1>v, <2>1, <2>2, <2>4 DEF SourceInv
<1>9. ASSUME NEW j \in Installers, PutTable(j) PROVE SourceInv'
  <2>1. /\ phase[j] = "install" /\ table' = edited[j] /\ ScriptEnds(j, TRUE)
        /\ UNCHANGED <<backend, units>>
    BY <1>9 DEF PutTable
  <2>2. Sourced(table)'
    BY <1>a, <2>1 DEF Sourced, Selected
  <2> QED  BY <1>e, <1>v, <2>1, <2>2 DEF SourceInv
<1>10. ASSUME NEW j \in Installers, PutUnit(j) PROVE SourceInv'
  <2>1. /\ Proceed(j, "reload") /\ phase[j] = "unit" /\ UNCHANGED <<backend, edit, crontab>>
    BY <1>10 DEF PutUnit
  <2>2. \A k \in Installers : phase'[k] = "select" => backend'[k] = "none"
    BY <1>s, <2>1 DEF Working
  <2>3. Selected("systemd")'
    BY <1>w, <2>1 DEF Selected
  <2> QED  BY <1>a, <1>t, <1>u, <2>1, <2>2, <2>3 DEF SourceInv
<1>11. ASSUME NEW j \in Installers, Reload(j) PROVE SourceInv'
  <2>1. /\ Proceed(j, "enable") /\ phase[j] = "reload" /\ UNCHANGED <<backend, edit, crontab>>
    BY <1>11 DEF Reload
  <2>2. \A k \in Installers : phase'[k] = "select" => backend'[k] = "none"
    BY <1>s, <2>1 DEF Working
  <2>3. Selected("systemd")'
    BY <1>w, <2>1 DEF Selected
  <2> QED  BY <1>a, <1>t, <1>u, <2>1, <2>2, <2>3 DEF SourceInv
<1>12. ASSUME NEW j \in Installers, Enable(j) PROVE SourceInv'
  <2>1. /\ Proceed(j, "restart") /\ phase[j] = "enable" /\ UNCHANGED <<backend, edit, crontab, units>>
    BY <1>12 DEF Enable
  <2>2. \A k \in Installers : phase'[k] = "select" => backend'[k] = "none"
    BY <1>s, <2>1 DEF Working
  <2> QED  BY <1>a, <1>t, <1>u, <1>v, <2>1, <2>2 DEF SourceInv
<1>13. ASSUME NEW j \in Installers, Restart(j) PROVE SourceInv'
  <2>1. /\ phase[j] = "restart" /\ ScriptEnds(j, TRUE) /\ UNCHANGED <<backend, crontab>>
    BY <1>13 DEF Restart
  <2>2. Selected("systemd")'
    BY <1>w, <2>1 DEF Selected
  <2> QED  BY <1>a, <1>e, <1>t, <2>1, <2>2 DEF SourceInv
<1>14. CASE Edit
  <2>1. /\ UNCHANGED <<progress, backend, edit, units>>
        /\ \E o \in Others : table' = table \union {Line(o, "owner")}
    BY <1>14 DEF Edit
  <2>2. \A o \in Others : Line(o, "owner").id \notin Commands
    BY OthersAssumption DEF Line
  <2>3. Sourced(table)'
    BY <1>a, <2>1, <2>2 DEF Sourced, Selected
  <2> QED  BY <1>a, <1>u, <1>v, <2>1, <2>3 DEF SourceInv
<1> QED
  BY <1>0, <1>1, <1>2, <1>3, <1>4, <1>5, <1>6, <1>7, <1>8, <1>9, <1>10, <1>11, <1>12,
     <1>13, <1>14 DEF SchedNext

-----------------------------------------------------------------------------
\* Every variable keeps its type, for any jobs, commands and machines.
THEOREM SchedTypeCorrect == SchedSpec => []SchedTypeOK
<1>1. SchedTypeOK /\ PlaceInv /\ [SchedNext]_schedVars => SchedTypeOK' /\ PlaceInv'
  BY StepPlace
<1> QED  BY <1>1, InitPlace, PTL DEF SchedSpec

\* For any number of jobs on one machine, no line of the crontab's owner is lost that
\* was there before a job began to edit.
THEOREM OwnersLinesStay == SchedSpec => []OthersAreKept
<1> DEFINE Inv == SchedTypeOK /\ PlaceInv /\ KeepInv
<1>1. SchedInit => Inv
  BY InitPlace, InitKeep
<1>2. Inv /\ [SchedNext]_schedVars => Inv'
  BY StepPlace, StepKeep
<1>3. Inv => OthersAreKept
  BY DEF KeepInv, OthersAreKept
<1> QED  BY <1>1, <1>2, <1>3, PTL DEF SchedSpec

\* For any number of jobs on one machine, whatever earlier runs installed with either
\* backend and whatever fails in between: where no two jobs edited the crontab at the same
\* time, what all of them report as installed is there with the backend each selected, at
\* the new interval and once in the crontab; a command that runs with both backends does so
\* because of an earlier run or of jobs that selected different ones; and a scheduled
\* command has its script.
THEOREM InstalledWhereApart == SchedSpec => []EntriesAreInstalled
<1>1. SchedInit => StrongInv
  BY InitPlace, InitKeep, InitScript, InitUnit, InitUnique, InitEdit, InitDone,
     InitSource DEF StrongInv
<1>2. StrongInv /\ [SchedNext]_schedVars => StrongInv'
  BY StepPlace, StepKeep, StepScript, StepUnit, StepUnique, StepEdit, StepDone,
     StepSource DEF StrongInv
<1>3. StrongInv => EntriesAreInstalled
  <2> SUFFICES ASSUME StrongInv PROVE EntriesAreInstalled
      OBVIOUS
  <2>1. \A c \in Commands : /\ EntryOf(c) # {} => <<"cron", c>> \in scripts
                            /\ running[c] # "none" => <<"systemd", c>> \in scripts
    BY DEF StrongInv, ScriptInv, EntryOf
  <2>3. ASSUME NEW c \in Commands, Twice(c), ~Leftover(c)
        PROVE  \E j, k \in Installers : backend[j] # backend[k]
    <3>1. PICK l \in table : l.id = c
      BY <2>3 DEF Twice, EntryOf
    <3>2. l.by # "before" /\ running[c] = "new"
      BY <2>3, <3>1 DEF Twice, Leftover, EntryOf, StrongInv, SchedTypeOK
    <3>3. Selected("cron") /\ Selected("systemd")
      BY <3>1, <3>2 DEF StrongInv, SourceInv, Sourced
    <3> QED  BY <3>3 DEF Selected
  <2>2. ASSUME ~overlap, ~excused, \A j \in Installers : phase[j] = "over" /\ ~bad[j],
               NEW j \in Installers, NEW c \in Asked
        PROVE  Installed(backend[j], c)
    <3>1. PICK n \in DOMAIN commands : commands[n] = c
      BY DEF Asked
    <3>2. c \in Commands
      BY <3>1, PlansAssumption DEF StrongInv, SchedTypeOK
    <3>3. n \in Dealt(j)
      BY <2>2, <3>1 DEF Dealt
    <3>4. InPlace(backend[j], c)
      BY <2>2, <3>1, <3>3 DEF StrongInv, DoneInv
    <3>5. HasEntry(c) => \E l \in EntryOf(c) : EntryOf(c) = {l} /\ l.by \in Installers
      BY <3>2 DEF StrongInv, UniqueInv, OnePerCommand, HasEntry, EntryOf
    <3> QED  BY <3>4, <3>5 DEF InPlace, Installed
  <2>4. ~overlap => AllAreInstalled
    BY <2>2 DEF AllAreInstalled, AllSucceed
  <2> QED  BY <2>1, <2>3, <2>4 DEF EntriesAreInstalled
<1> QED  BY <1>1, <1>2, <1>3, PTL DEF SchedSpec

-----------------------------------------------------------------------------
(* 2. The minutes at which cron runs a command.                            *)

\* A remainder is less than what is divided by, and nothing else has its property.
Rest(a, k) == a % k

LEMMA SmallRest == \A k \in Nat \ {0}, a \in Nat : Rest(a, k) \in 0 .. k - 1
BY DEF Rest

LEMMA Division == \A k \in Nat \ {0}, a \in Nat : \E q \in Nat : a = k * q + Rest(a, k)
<1> SUFFICES ASSUME NEW k \in Nat \ {0}, NEW a \in Nat
             PROVE  \E q \in Nat : a = k * q + Rest(a, k)
    OBVIOUS
<1>1. a \div k \in Nat  OBVIOUS
<1>2. a = k * (a \div k) + (a % k)  OBVIOUS
<1> QED  BY <1>1, <1>2 DEF Rest

LEMMA Remainder == \A k \in Nat \ {0}, q \in Nat : \A r \in 0 .. k - 1 : Rest(k * q + r, k) = r
BY DEF Rest

\* The remainder grows by one, and starts again after the last.
LEMMA NextRemainder == \A k \in Nat \ {0}, a \in Nat :
    Rest(a + 1, k) = IF Rest(a, k) = k - 1 THEN 0 ELSE Rest(a, k) + 1
<1> SUFFICES ASSUME NEW k \in Nat \ {0}, NEW a \in Nat
             PROVE  Rest(a + 1, k) = IF Rest(a, k) = k - 1 THEN 0 ELSE Rest(a, k) + 1
    OBVIOUS
<1>1. PICK q \in Nat : a = k * q + Rest(a, k)  BY Division
<1>2. Rest(a, k) \in 0 .. k - 1  BY SmallRest
<1>3. CASE Rest(a, k) = k - 1
  <2>1. a + 1 = k * (q + 1) + 0  BY <1>1, <1>3
  <2>2. q + 1 \in Nat /\ 0 \in 0 .. k - 1  OBVIOUS
  <2>3. Rest(k * (q + 1) + 0, k) = 0  BY <2>2, Remainder
  <2> QED  BY <1>3, <2>1, <2>3
<1>4. CASE Rest(a, k) # k - 1
  <2>1. a + 1 = k * q + (Rest(a, k) + 1) /\ Rest(a, k) + 1 \in 0 .. k - 1  BY <1>1, <1>2, <1>4
  <2> QED  BY <1>4, <2>1, Remainder
<1> QED  BY <1>3, <1>4

LEMMA LastRemainder == \A k \in Nat \ {0}, d \in Nat : k * d > 0 => Rest(k * d - 1, k) = k - 1
<1> SUFFICES ASSUME NEW k \in Nat \ {0}, NEW d \in Nat, k * d > 0
             PROVE  Rest(k * d - 1, k) = k - 1
    OBVIOUS
<1>1. d - 1 \in Nat /\ k * d - 1 = k * (d - 1) + (k - 1) /\ k - 1 \in 0 .. k - 1
  <2>1. d # 0  OBVIOUS
  <2> QED  BY <2>1
<1> QED  BY <1>1, Remainder

LEMMA NoRemainder == \A k \in Nat \ {0} : Rest(0, k) = 0
BY DEF Rest

\* The minutes of a day, and the next one.
Minutes == 0 .. 1439
Following(m) == (m + 1) % 1440

LEMMA NextMinute == \A m \in Minutes :
    /\ Following(m) = IF m = 1439 THEN 0 ELSE m + 1
    /\ Following(m) % 60 = IF m % 60 = 59 THEN 0 ELSE (m % 60) + 1
BY DEF Following, Minutes

\* The interval in minutes, and the minutes since the last time the fields matched.
Period(s) == s \div 60
Place(s, m) == IF s < Hour THEN Rest(m % 60, Period(s)) ELSE Rest(m, Period(s))

\* An interval after which every gap is the same.
Even(s) == Hour % s = 0 \/ s % Hour = 0

\* What cronExpression accepts.
LEMMA AcceptedPeriod ==
    ASSUME NEW s \in Nat, Accepted(s)
    PROVE  Period(s) \in Nat \ {0} /\ s = 60 * Period(s)
BY DEF Accepted, Period

LEMMA AcceptedHours ==
    ASSUME NEW s \in Nat, Accepted(s), s >= Hour
    PROVE  \E h \in Nat \ {0}, d \in Nat : s \div Hour = h /\ Period(s) = 60 * h /\ 24 = h * d
<1>1. PICK h \in Nat \ {0} : s = 3600 * h /\ h = s \div Hour  BY DEF Accepted, Hour
<1>2. s \in Nat \ {0} /\ Rest(Day, s) = 0 /\ Day \in Nat  BY DEF Accepted, Rest, Day, Hour
<1>3. PICK d \in Nat : Day = s * d + Rest(Day, s)  BY <1>2, Division
<1>4. 86400 = s * d  BY <1>2, <1>3 DEF Day, Hour
<1>5. s * d = 3600 * (h * d)  BY <1>1, <1>3
<1>6. PICK x \in Nat : x = h * d  BY <1>1, <1>3
<1>7. 86400 = 3600 * x  BY <1>4, <1>5, <1>6
<1>8. x = 24  BY <1>7
<1>9. Period(s) = 60 * h  BY <1>1 DEF Period
<1> QED  BY <1>1, <1>3, <1>6, <1>8, <1>9

LEMMA EvenMinutes ==
    ASSUME NEW s \in Nat, Accepted(s), s < Hour, Even(s)
    PROVE  \E d \in Nat : 60 = Period(s) * d
<1>1. s \in Nat \ {0} /\ Rest(Hour, s) = 0 /\ Hour \in Nat  BY DEF Accepted, Even, Rest, Hour
<1>2. PICK d \in Nat : Hour = s * d + Rest(Hour, s)  BY <1>1, Division
<1>3. PICK k \in Nat : k = Period(s) /\ s = 60 * k  BY AcceptedPeriod
<1>4. 3600 = s * d  BY <1>1, <1>2 DEF Hour
<1>5. s * d = 60 * (k * d)  BY <1>2, <1>3
<1>6. PICK x \in Nat : x = k * d  BY <1>2, <1>3
<1>7. x = 60  BY <1>4, <1>5, <1>6
<1> QED  BY <1>2, <1>3, <1>6, <1>7

\* From one minute to the next, over midnight as well, the place in the period goes up
\* by one or starts again; it starts again exactly when the fields match, and not
\* before the end of the period where the intervals are even.
InStep(s, m, n) ==
    /\ Place(s, m) \in 0 .. Period(s) - 1
    /\ Matches(s, n) <=> Place(s, n) = 0
    /\ Place(s, n) = 0 \/ Place(s, n) = Place(s, m) + 1
    /\ Even(s) /\ Place(s, n) = 0 => Place(s, m) = Period(s) - 1

LEMMA MinutesStep == \A s \in Nat, m \in Minutes :
    Accepted(s) /\ s < Hour => InStep(s, m, Following(m))
<1> SUFFICES ASSUME NEW s \in Nat, NEW m \in Minutes, Accepted(s), s < Hour
             PROVE  InStep(s, m, Following(m))
    OBVIOUS
<1>0. PICK n : n = Following(m)  OBVIOUS
<1>1. PICK k \in Nat \ {0} : k = Period(s)  BY AcceptedPeriod
<1>2. PICK a \in 0 .. 59 : a = m % 60  BY DEF Minutes
<1>3. PICK b \in 0 .. 59 : b = n % 60 /\ b = IF a = 59 THEN 0 ELSE a + 1
  <2>1. (n % 60) = IF a = 59 THEN 0 ELSE a + 1  BY <1>0, <1>2, NextMinute
  <2>2. (IF a = 59 THEN 0 ELSE a + 1) \in 0 .. 59  OBVIOUS
  <2> QED  BY <2>1, <2>2
<1>4. Place(s, m) = Rest(a, k) /\ Place(s, n) = Rest(b, k)  BY <1>1, <1>2, <1>3 DEF Place
<1>5. Matches(s, n) <=> Rest(b, k) = 0
  <2>1. n \div 60 \in 0 .. 23  BY <1>0, NextMinute DEF Minutes
  <2> QED  BY <1>1, <1>3, <2>1 DEF Matches, MinuteField, HourField, Steps, Period, Rest
<1>6. Rest(a, k) \in 0 .. k - 1 /\ Rest(0, k) = 0
      /\ Rest(a + 1, k) = IF Rest(a, k) = k - 1 THEN 0 ELSE Rest(a, k) + 1
  <2>1. a \in Nat  OBVIOUS
  <2> QED  BY <2>1, SmallRest, NoRemainder, NextRemainder
<1>7. ASSUME Even(s), a = 59 PROVE Rest(a, k) = k - 1
  <2>1. PICK d \in Nat : 60 = k * d  BY <1>1, <1>7, EvenMinutes
  <2>2. k * d > 0 => Rest(k * d - 1, k) = k - 1  BY LastRemainder
  <2>3. k * d - 1 = a  BY <1>7, <2>1
  <2> QED  BY <2>1, <2>2, <2>3
<1> QED  BY <1>0, <1>1, <1>3, <1>4, <1>5, <1>6, <1>7 DEF InStep

LEMMA HoursStep == \A s \in Nat, m \in Minutes :
    Accepted(s) /\ s >= Hour => InStep(s, m, Following(m))
<1> SUFFICES ASSUME NEW s \in Nat, NEW m \in Minutes, Accepted(s), s >= Hour
             PROVE  InStep(s, m, Following(m))
    OBVIOUS
<1>0. PICK n : n = Following(m)  OBVIOUS
<1>1. PICK h \in Nat \ {0}, d \in Nat : s \div Hour = h /\ Period(s) = 60 * h /\ 24 = h * d
  BY AcceptedHours
<1>2. PICK k \in Nat \ {0} : k = Period(s) /\ k = 60 * h  BY <1>1
<1>3. 1440 = k * d
  <2>1. k * d = 60 * (h * d)  BY <1>1, <1>2
  <2> QED  BY <1>1, <2>1
<1>4. ~(s < Hour)  BY DEF Hour
<1>5. Place(s, m) = Rest(m, k) /\ Place(s, n) = Rest(n, k)  BY <1>2, <1>4 DEF Place
<1>6. n = IF m = 1439 THEN 0 ELSE m + 1  BY <1>0, NextMinute
<1>7. Rest(m, k) \in 0 .. k - 1 /\ Rest(0, k) = 0
      /\ Rest(m + 1, k) = IF Rest(m, k) = k - 1 THEN 0 ELSE Rest(m, k) + 1
  <2>1. m \in Nat  BY DEF Minutes
  <2> QED  BY <2>1, SmallRest, NoRemainder, NextRemainder
<1>8. ASSUME m = 1439 PROVE Rest(m, k) = k - 1
  <2>1. k * d > 0 => Rest(k * d - 1, k) = k - 1  BY LastRemainder
  <2>2. k * d - 1 = m  BY <1>3, <1>8
  <2> QED  BY <1>3, <2>1, <2>2
<1>9. Matches(s, n) <=> Rest(n, k) = 0
  <2>1. PICK q \in 0 .. 23, r \in 0 .. 59 : q = n \div 60 /\ r = n % 60 /\ n = 60 * q + r
    <3>1. n \div 60 \in 0 .. 23 /\ n % 60 \in 0 .. 59 /\ n = 60 * (n \div 60) + (n % 60)
      BY <1>6 DEF Minutes
    <3> QED  BY <3>1
  <2>2. Matches(s, n) <=> r = 0 /\ Rest(q, h) = 0
    BY <1>1, <1>4, <2>1 DEF Matches, MinuteField, HourField, Steps, Rest
  <2>3. q \in Nat  OBVIOUS
  <2>4. PICK f \in 0 .. h - 1 : f = Rest(q, h)  BY <2>3, SmallRest
  <2>9. PICK e \in Nat : q = h * e + f  BY <2>3, <2>4, Division
  <2>5. 60 * q = k * e + 60 * f
    <3>1. k * e = 60 * (h * e)  BY <1>2
    <3>2. 60 * q = 60 * (h * e) + 60 * f  BY <2>9
    <3> QED  BY <3>1, <3>2
  <2>6. n = k * e + (60 * f + r) /\ 60 * f + r \in 0 .. k - 1
    <3>1. PICK x : x = k * e /\ x \in Nat  OBVIOUS
    <3>2. n = x + (60 * f + r)  BY <2>1, <2>5, <3>1
    <3>3. 60 * f + r \in 0 .. 60 * h - 1  OBVIOUS
    <3> QED  BY <1>2, <3>1, <3>2, <3>3
  <2>7. Rest(n, k) = 60 * f + r
    <3>1. PICK t \in 0 .. k - 1 : t = 60 * f + r  BY <2>6
    <3>2. Rest(k * e + t, k) = t  BY Remainder
    <3> QED  BY <2>6, <3>1, <3>2
  <2>8. 60 * f + r = 0 <=> r = 0 /\ f = 0  OBVIOUS
  <2> QED  BY <2>2, <2>4, <2>7, <2>8
<1> QED  BY <1>0, <1>2, <1>5, <1>6, <1>7, <1>8, <1>9 DEF InStep

LEMMA PlaceStep == \A s \in Nat, m \in Minutes : Accepted(s) => InStep(s, m, Following(m))
BY MinutesStep, HoursStep DEF Hour

\* A command runs whenever its place is at the start of a period; until the first run
\* after the installation it has waited for no longer than its place.
CronInv ==
    /\ interval \in Nat \ {0} /\ minute \in Minutes
    /\ since \in Nat /\ gap \in Nat
    /\ entry \in {"absent", "refused", "installed", "running"}
    /\ entry \in {"absent", "refused"} => since = 0 /\ gap = 0
    /\ entry \in {"installed", "running"} => Accepted(interval) /\ since <= Place(interval, minute)
    /\ entry = "running" => since = Place(interval, minute)
    /\ gap # 0 => Accepted(interval) /\ (Even(interval) => gap = Period(interval))

LEMMA InitCron == CronInit => CronInv
BY IntervalsAssumption, StartsAssumption DEF CronInit, CronInv, Minutes

LEMMA StepCron ==
    ASSUME CronInv, [CronNext]_cronVars
    PROVE  CronInv'
<1> USE DEF CronInv
<1>1. CASE UNCHANGED cronVars  BY <1>1 DEF cronVars, Accepted, Even, Period, Place
<1>2. CASE PutEntry
  <2>1. UNCHANGED <<interval, minute, since, gap>> /\ entry = "absent" /\ gap = 0  BY <1>2 DEF PutEntry
  <2>2. entry' \in {"installed", "refused"} /\ (entry' = "installed" => Accepted(interval))
    BY <1>2 DEF PutEntry
  <2>3. Accepted(interval) => Place(interval, minute) \in 0 .. Period(interval) - 1
    BY PlaceStep DEF InStep
  <2>4. Accepted(interval)' = Accepted(interval) /\ Place(interval, minute)' = Place(interval, minute)
    BY <2>1 DEF Accepted, Place, Period
  <2> QED  BY <2>1, <2>2, <2>3, <2>4
<1>3. CASE Tick
  <2>0. PICK n : n = (minute + 1) % 1440 /\ n = Following(minute)  BY DEF Following
  <2>1. entry \in {"installed", "running"} /\ interval' = interval /\ minute' = n
        /\ n \in Minutes /\ Accepted(interval)
    BY <1>3, <2>0 DEF Tick, Minutes
  <2>2. /\ Place(interval, minute) \in 0 .. Period(interval) - 1
        /\ Matches(interval, n) <=> Place(interval, n) = 0
        /\ Place(interval, n) = 0 \/ Place(interval, n) = Place(interval, minute) + 1
        /\ Even(interval) /\ Place(interval, n) = 0 => Place(interval, minute) = Period(interval) - 1
    BY <2>0, <2>1, PlaceStep DEF InStep
  <2>3. Accepted(interval)' /\ Place(interval, minute)' = Place(interval, n)
        /\ Even(interval)' = Even(interval) /\ Period(interval)' = Period(interval)
    BY <2>1 DEF Accepted, Place, Period, Even
  <2>4. Period(interval) \in Nat \ {0}  BY <2>1, AcceptedPeriod
  <2>5. CASE Due
    <3>1. Place(interval, n) = 0  BY <2>0, <2>2, <2>5 DEF Due
    <3>2. since' = 0 /\ entry' = "running" /\ gap' = IF entry = "running" THEN since + 1 ELSE 0
      BY <1>3, <2>5 DEF Tick
    <3>3. gap' # 0 /\ Even(interval) => gap' = Period(interval)  BY <2>2, <2>4, <3>1, <3>2
    <3>4. gap' \in Nat  BY <3>2
    <3> QED  BY <2>1, <2>3, <3>1, <3>2, <3>3, <3>4
  <2>6. CASE ~Due
    <3>1. Place(interval, n) = Place(interval, minute) + 1  BY <2>0, <2>2, <2>6 DEF Due
    <3>2. since' = since + 1 /\ entry' = entry /\ gap' = gap  BY <1>3, <2>6 DEF Tick
    <3> QED  BY <2>1, <2>2, <2>3, <3>1, <3>2
  <2> QED  BY <2>5, <2>6
<1> QED  BY <1>1, <1>2, <1>3 DEF CronNext

\* For every interval of whole seconds and every minute of the installation: an interval
\* that cronExpression accepts is never exceeded, over midnight neither, and where it
\* divides an hour or is whole hours, the command runs exactly once in every interval.
THEOREM RunsOnTime == CronSpec => []RunsAreOnTime
<1>1. CronInv => RunsAreOnTime
  <2> SUFFICES ASSUME CronInv PROVE RunsAreOnTime
      OBVIOUS
  <2>1. ASSUME Accepted(interval) PROVE interval = 60 * Period(interval) /\ Period(interval) \in Nat
    BY <2>1, AcceptedPeriod DEF CronInv
  <2>2. ASSUME entry \in {"installed", "running"} PROVE since * 60 < interval
    <3>1. InStep(interval, minute, Following(minute))  BY <2>2, PlaceStep DEF CronInv
    <3> QED  BY <2>1, <2>2, <3>1 DEF CronInv, InStep
  <2>3. ASSUME gap # 0, Even(interval) PROVE gap * 60 = interval
    BY <2>1, <2>3 DEF CronInv
  <2> QED  BY <2>2, <2>3 DEF RunsAreOnTime, Even
<1> QED  BY <1>1, InitCron, StepCron, PTL DEF CronSpec

=============================================================================
