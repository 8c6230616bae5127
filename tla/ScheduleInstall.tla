-------------------------- MODULE ScheduleInstall --------------------------
(***************************************************************************)
(* Installing recurring commands on one machine (selectScheduler and       *)
(* installScheduledCommand in internal/ssh/schedule.go, called by          *)
(* SsherWrapper in internal/ssh/ssh.go). A job installs its commands one   *)
(* after the other, each by one shell script on the machine, which stops   *)
(* at the first command that fails. Two jobs meet on one machine when two  *)
(* targets are its addresses. The crontab belongs to its owner, who edits  *)
(* it too; crontab and systemctl are not in the repository.                *)
(***************************************************************************)
EXTENDS Naturals, Sequences

CONSTANTS Installers,  \* jobs of one run of the program on the machine
          Commands,    \* what --schedule may name
          Plans,       \* the lists it may be given
          Settings,    \* the --scheduler, the login and the machine: see Setting
          Others       \* lines of the crontab's owner

\* root: a root login or --sudo; expressible: cronExpression takes --every; systemd:
\* the machine runs it.
Setting == [scheduler : {"auto", "systemd", "cron"}, root : BOOLEAN,
            expressible : BOOLEAN, systemd : BOOLEAN]

ASSUME PlansAssumption == Plans \subseteq Seq(Commands)
ASSUME SettingsAssumption == Settings \subseteq Setting

\* No line of the owner's ends in a marker of the program.
ASSUME OthersAssumption == Others \intersect Commands = {}

VARIABLES setting,
          commands,    \* the commands of the run, in order
          phase,       \* what a job's script does next
          nth,         \* which of the commands it installs
          backend,     \* the scheduler it selected
          bad,         \* one of its installations failed
          orphan,      \* its caller gave up and the script goes on
          edited,      \* the crontab it edits,
          gone,        \* unless its files were removed
          table,       \* the crontab
          safe,        \* owner's lines written while nobody was editing
          unread,      \* the crontab could not be read
          signalled,   \* a signal came between the two commands of an edit
          overlap,     \* two jobs have edited it at the same time
          scripts,     \* the command scripts in place, by backend
          timer,       \* timer units: as files, as systemd loaded them and as
          loaded,      \* they run
          running

orders == <<setting, commands>>
crontab == <<table, safe, unread, signalled, overlap>>
units == <<timer, loaded, running>>
edit == <<edited, gone>>
progress == <<phase, nth, bad, orphan>>
schedVars == <<orders, progress, backend, edit, crontab, scripts, units>>

Editing == {"filter", "append", "install"}
Working == {"script", "list", "unit", "reload", "enable", "restart"} \union Editing
Line(c, who) == [id |-> c, by |-> who]
TableLines == [id : Commands \union Others, by : Installers \union {"before", "owner"}]

SchedTypeOK ==
    /\ setting \in Settings /\ commands \in Plans
    /\ phase \in [Installers -> Working \union {"select", "over"}]
    /\ nth \in [Installers -> Nat \ {0}]
    /\ backend \in [Installers -> {"none", "cron", "systemd", "refused"}]
    /\ bad \in [Installers -> BOOLEAN] /\ orphan \in [Installers -> BOOLEAN]
    /\ gone \in [Installers -> BOOLEAN]
    /\ unread \in BOOLEAN /\ signalled \in BOOLEAN /\ overlap \in BOOLEAN
    /\ edited \in [Installers -> SUBSET TableLines] /\ table \subseteq TableLines
    /\ safe \subseteq Others
    /\ scripts \subseteq {"cron", "systemd"} \X Commands
    /\ \A u \in {timer, loaded, running} : u \in [Commands -> {"none", "old", "new"}]

\* Earlier runs may have installed some of the commands, with either backend or both.
SchedInit ==
    /\ setting \in Settings /\ commands \in Plans
    /\ phase = [j \in Installers |-> "select"] /\ nth = [j \in Installers |-> 1]
    /\ backend = [j \in Installers |-> "none"]
    /\ bad = [j \in Installers |-> FALSE] /\ orphan = bad
    /\ edited = [j \in Installers |-> {}] /\ gone = bad
    /\ \E byCron \in SUBSET Commands, theirs \in SUBSET Others,
          byTimer \in SUBSET (IF setting.systemd THEN Commands ELSE {}) :
          /\ table = {Line(c, "before") : c \in byCron} \union {Line(o, "owner") : o \in theirs}
          /\ safe = theirs
          /\ scripts = ({"cron"} \X byCron) \union ({"systemd"} \X byTimer)
          /\ timer = [c \in Commands |-> IF c \in byTimer THEN "old" ELSE "none"]
    /\ unread = FALSE /\ signalled = FALSE /\ overlap = FALSE
    /\ loaded = timer /\ running = timer

-----------------------------------------------------------------------------
Command(j) == commands[nth[j]]
GoTo(j, s) == phase' = [phase EXCEPT ![j] = s]
Proceed(j, s) == GoTo(j, s) /\ UNCHANGED <<nth, bad, orphan>>

\* selectScheduler: the probe of systemd may fail where it runs.
Backends ==
    LET usable == IF setting.root /\ setting.systemd THEN {"systemd"} ELSE {}
        cron == IF setting.expressible THEN {"cron"} ELSE {"refused"}
    IN  CASE setting.scheduler = "systemd" -> usable \union {"refused"}
          [] setting.scheduler = "cron"    -> cron
          [] setting.scheduler = "auto"    -> usable \union cron

Select(j) ==
    /\ phase[j] = "select"
    /\ \E b \in Backends :
          /\ backend' = [backend EXCEPT ![j] = b]
          /\ bad' = [bad EXCEPT ![j] = b = "refused"]
          /\ GoTo(j, IF b = "refused" \/ commands = <<>> THEN "over" ELSE "script")
    /\ UNCHANGED <<orders, nth, orphan, edit, crontab, scripts, units>>

\* The script ends and its trap removes its files. The next command is installed
\* whatever became of this one, but not on a client that a deadline has closed.
ScriptEnds(j, ok) ==
    LET last == nth[j] = Len(commands) \/ orphan[j]
    IN  /\ GoTo(j, IF last THEN "over" ELSE "script")
        /\ nth' = [nth EXCEPT ![j] = IF last THEN @ ELSE @ + 1]
        /\ bad' = [bad EXCEPT ![j] = @ \/ ~ok]
        /\ edited' = [edited EXCEPT ![j] = {}]
        /\ gone' = [gone EXCEPT ![j] = FALSE]
        /\ UNCHANGED orphan

\* set -e: a command of the script fails.
Fail(j) == /\ phase[j] \in Working
           /\ ScriptEnds(j, FALSE)
           /\ UNCHANGED <<orders, backend, crontab, scripts, units>>

\* The deadline: the installation has failed for the caller.
GiveUp(j) == /\ phase[j] \in Working /\ ~orphan[j]
             /\ orphan' = [orphan EXCEPT ![j] = TRUE]
             /\ bad' = [bad EXCEPT ![j] = TRUE]
             /\ UNCHANGED <<orders, phase, nth, backend, edit, crontab, scripts, units>>

\* Mistake: the systemd installer's script goes where cron's are.
PutScript_OneDir(j) ==
    /\ phase[j] = "script"
    /\ scripts' = scripts \union {<<"cron", Command(j)>>}
    /\ Proceed(j, IF backend[j] = "cron" THEN "list" ELSE "unit")
    /\ UNCHANGED <<orders, backend, edit, crontab, units>>

\* Both installers write the command's script beside its place and rename it.
PutScript(j) ==
    /\ phase[j] = "script"
    /\ scripts' = scripts \union {<<backend[j], Command(j)>>}
    /\ Proceed(j, IF backend[j] = "cron" THEN "list" ELSE "unit")
    /\ UNCHANGED <<orders, backend, edit, crontab, units>>

-----------------------------------------------------------------------------
(* scheduledInstallScript.                                                 *)

\* crontab -l; without one, or when it fails, the edit begins with nothing.
List(j) ==
    /\ phase[j] = "list"
    /\ overlap' = (overlap \/ \E k \in Installers : phase[k] \in Editing)
    /\ \/ /\ edited' = [edited EXCEPT ![j] = table]
          /\ Proceed(j, "filter") /\ UNCHANGED unread
       \/ /\ edited' = [edited EXCEPT ![j] = {}]
          /\ Proceed(j, "append") /\ unread' = (unread \/ table # {})
    /\ UNCHANGED <<orders, backend, gone, table, safe, signalled, scripts, units>>

\* HUP, INT or TERM: the trap removes the files, and the script goes on, with a command
\* that finds its file missing and fails; but the entry is appended to a new file.
Signal(j) == /\ phase[j] \in Editing
             /\ gone' = [gone EXCEPT ![j] = TRUE]
             /\ signalled' = (signalled \/ phase[j] = "append")
             /\ UNCHANGED <<orders, progress, backend, edited, table, safe, unread, overlap,
                            scripts, units>>

\* sed deletes the lines with the command's own marker.
Kept(lines, c) == {l \in lines : l.id # c}

\* Mistake: without set -e, the script goes on when sed has no file to read.
Filter_GoesOn(j) ==
    /\ phase[j] = "filter"
    /\ edited' = [edited EXCEPT ![j] = IF gone[j] THEN {} ELSE Kept(@, Command(j))]
    /\ Proceed(j, "append")
    /\ UNCHANGED <<orders, backend, gone, crontab, scripts, units>>

Filter(j) == /\ phase[j] = "filter" /\ ~gone[j]
             /\ edited' = [edited EXCEPT ![j] = Kept(@, Command(j))]
             /\ Proceed(j, "append")
             /\ UNCHANGED <<orders, backend, gone, crontab, scripts, units>>

\* printf >> makes the file again where it was removed.
AddEntry(j) ==
    /\ phase[j] = "append"
    /\ edited' = [edited EXCEPT ![j] = (IF gone[j] THEN {} ELSE @) \union {Line(Command(j), j)}]
    /\ gone' = [gone EXCEPT ![j] = FALSE]
    /\ Proceed(j, "install")
    /\ UNCHANGED <<orders, backend, crontab, scripts, units>>

PutTable(j) == /\ phase[j] = "install" /\ ~gone[j]
              /\ table' = edited[j]
              /\ ScriptEnds(j, TRUE)
              /\ UNCHANGED <<orders, backend, safe, unread, signalled, overlap, scripts, units>>

\* The owner adds a line from another login.
Edit == \E o \in Others :
          /\ Line(o, "owner") \notin table
          /\ table' = table \union {Line(o, "owner")}
          /\ safe' = IF \E j \in Installers : phase[j] \in Editing THEN safe
                                                                   ELSE safe \union {o}
          /\ UNCHANGED <<orders, progress, backend, edit, unread, signalled, overlap, scripts,
                         units>>

-----------------------------------------------------------------------------
(* systemdInstallScript.                                                   *)

PutUnit(j) == /\ phase[j] = "unit"
              /\ timer' = [timer EXCEPT ![Command(j)] = "new"]
              /\ Proceed(j, "reload")
              /\ UNCHANGED <<orders, backend, edit, crontab, scripts, loaded, running>>

\* systemctl daemon-reload reads the files of all units.
Reload(j) == /\ phase[j] = "reload"
             /\ loaded' = timer
             /\ Proceed(j, "enable")
             /\ UNCHANGED <<orders, backend, edit, crontab, scripts, timer, running>>

Enable(j) == /\ phase[j] = "enable"
             /\ Proceed(j, "restart")
             /\ UNCHANGED <<orders, backend, edit, crontab, scripts, units>>

Restart(j) == /\ phase[j] = "restart" /\ loaded[Command(j)] # "none"
              /\ running' = [running EXCEPT ![Command(j)] = loaded[Command(j)]]
              /\ ScriptEnds(j, TRUE)
              /\ UNCHANGED <<orders, backend, crontab, scripts, timer, loaded>>

-----------------------------------------------------------------------------
SchedNext == \/ \E j \in Installers :
                   \/ Select(j) \/ Fail(j) \/ GiveUp(j) \/ PutScript(j)
                   \/ List(j) \/ Signal(j) \/ Filter(j) \/ AddEntry(j) \/ PutTable(j)
                   \/ PutUnit(j) \/ Reload(j) \/ Enable(j) \/ Restart(j)
             \/ Edit

SchedSpec == SchedInit /\ [][SchedNext]_schedVars

-----------------------------------------------------------------------------
(* Properties.                                                             *)

Asked == {commands[n] : n \in DOMAIN commands}
EntryOf(c) == {l \in table : l.id = c}
Installed(b, c) == IF b = "systemd" THEN running[c] = "new"
                   ELSE \E l \in EntryOf(c) : EntryOf(c) = {l} /\ l.by \in Installers

\* What the program's edit of a crontab does not survive, beside another edit.
excused == unread \/ signalled

\* Every job reports success, and nothing of that happened.
AllSucceed == ~excused /\ \A j \in Installers : phase[j] = "over" /\ ~bad[j]

\* "Keep these sequential so concurrent crontab reads cannot overwrite each other"
\* (ssh.go:338-339) and "atomically updates the current effective user's crontab"
\* (schedule.go:55-56): when all jobs report success, every command is scheduled with
\* the backend that each job selected, at the new interval, and once there.
AllAreInstalled ==
    AllSucceed => \A j \in Installers : \A c \in Asked : Installed(backend[j], c)

\* Both schedulers run a command; one of them because of an earlier run.
Twice(c) == EntryOf(c) # {} /\ running[c] # "none"
Leftover(c) == running[c] = "old" \/ \E l \in EntryOf(c) : l.by = "before"

\* So it is where no two jobs edited the crontab at the same time, over what earlier
\* runs installed with the same backend; a command runs with both backends only where an
\* earlier run used the other one or two jobs selected different ones; and always, a
\* scheduled command has its script.
EntriesAreInstalled ==
    /\ ~overlap => AllAreInstalled
    /\ \A c \in Commands : Twice(c) =>
          Leftover(c) \/ \E j, k \in Installers : backend[j] # backend[k]
    /\ \A c \in Commands : /\ EntryOf(c) # {} => <<"cron", c>> \in scripts
                           /\ running[c] # "none" => <<"systemd", c>> \in scripts

\* Installing a schedule loses no line of the crontab's owner, whatever fails and wherever
\* the script is killed or signalled, unless the crontab could not be read, the signal
\* came between the edit's two commands, or the owner wrote the line during an edit.
OthersAreKept == ~excused => \A o \in safe : Line(o, "owner") \in table

\* "atomically updates the current effective user's crontab" (schedule.go:55-56): an
\* installation that is disturbed while it edits leaves the crontab as it was.
UpdateIsAtomic == ~unread => \A o \in safe : Line(o, "owner") \in table
=============================================================================
