# Verification of coordinate

TLA+ models of `coordinate`, a Go program that logs in to many hosts over SSH,
uploads, downloads, runs commands and scripts there, saves their output and
reports one exit status. The modules are translated from the Go code under
`src/`; TLC checks them on small instances and TLAPS proves the properties that
matter most for every size.

    tlc -workers 2 -config hostwork_safe.cfg MCHostWork       # one run
    tlapm HostWork_proofs.tla                                 # one module of proofs

Every run is listed in `PROJECT.json` with its module, its configuration and
what it is expected to show; so is, for each definition, the code it stands for.
Operators whose name has an underscore (`RangeSize_Open`) are deliberate
mistakes: each one replaces the definition of the same name in a test of the
properties, which must then fail. The specifications never use them.

## 1. The program

One run is a tree of goroutines.

    run()                                   cmd/main.go
     |-- one worker per target, --max-hosts at a time
           |-- RunnerBf / RunnerCred        internal/runner/runner.go
                 logins are tried one after the other, then, on the client of
                 the one that was accepted,
           |-- SsherWrapper                 internal/ssh/ssh.go
                 preconditions, sudo, rsync, then three phases that do not overlap:
                 |-- a worker per -F entry     \
                 |-- a worker per -D entry      >  --limit at a time per host
                 |-- a worker per payload      /
                       every expensive one of them holds one of 64 slots
                       |-- sessions on the client all of them share

The goroutines meet in six places: the **client** of a host, which any deadline
closes for everyone; the **pool** of 64 expensive operations
(`operation_limit.go`); the **rsync installations**, one per login and host
(`rsync.go`); the two maps of **reservations**, of download destinations
(`ssh.go`) and of output files (`logger.go`); the **results and credentials**
that `main` summarizes (`globals.go`, `config.go`); and, when two targets are
addresses of one machine, that machine's **crontab** (`schedule.go`).

### Components

| component | state | operations | modules |
|---|---|---|---|
| run and fleet, `cmd/main.go`, `runner.go`, `globals.go` | `hostLimiter`, the WaitGroup, `hostResults`, the exit status | start a worker per target, wait for them, save, summarize | `Fleet`, on `HostJob` |
| configuration store, `config.go`, `atomic_replace_*.go` | entries under a mutex, the JSON file, its temporary file | load, update, and a save that creates, fills, syncs, renames and syncs the directory | `ConfigStore`, called by `Fleet` |
| host work, `ssh.go` `SsherWrapper` | the phase, the per-host semaphore, the pool, what is known of sudo and rsync, the result | preconditions, the three phases, their joins | `HostWork` |
| authentication, `runner.go` `RunnerBf` | the two loops, the lazily loaded key | try a login, skip an empty password, load the key, give up | `AuthMatrix` |
| ssh sessions, `ssh.go` `runWithInput`, `operation_limit.go` `newSessionContext` | the client, each call's channel, the goroutines that open, wait and close | open, start, wait, expire | `Session` |
| remote output capture, `capture.go` | a buffer with a ceiling | write from two goroutines, read content and error | `SudoInput` |
| privilege escalation, `sudo.go`, `sudo_boundary.go` | what is known of sudo on this client; the stdin of a privileged command | probe; frame the input, discard through the boundary | the decision in `HostWork`, the framing in `SudoInput` |
| script execution, `ssh.go` `ssher` | the local copy, the remote directory, the joined error | write, mktemp, copy, run, clean up; one root shell with sudo | `ScriptRun` |
| downloads, `ssh.go` | `downloadReservations`, the local tree | check, reserve, the chain rsync, tar, tar with gzip, SFTP, clear, release | `Download`; the tree one method makes in `Extraction` |
| uploads, `ssh.go`, `rsync.go` | the destination, the shared client, the rsync child and its askpass helper | mkdir, rsync, clean up, stream | `Upload`; their scheduling in `HostWork` |
| rsync transport, `rsync.go`, `rsync_cancel_*.go` | the memoized attempts, a child process and its control files | probe, install once; run, cancel, clean up | `HostWork`; the child in `Upload` |
| scheduling, `schedule.go` | the crontab, or the systemd units as files, loaded and running | choose a backend; list, filter, append, install; write, reload, enable, restart | `ScheduleInstall`; cron's timing in `CronSchedule` |
| payload output files, `logger.go`, `safepath.go` | `outputReservations`, the output tree | claim, make directories, write, link, remove | `OutputFiles` |
| target expansion, `ip_helper.go`, `utils.go` | the address set and what is written out of it | add a token, count, write out | `Targets` |
| archives, `utils.go`, `ssh.go` | the tree that is extracted | refuse, make a directory, create, fill, compare names | `Extraction`; writing one is a step of `Upload` |
| command line, `cli.go` | flags | parse and refuse | not modelled |
| terminal logging, `logger.go` | output mode | print, redact | not modelled |
| environment files, `env.go` | none | parse | not modelled |

### What makes it hard, and what correct means

* **Run and fleet.** A worker records its result, leaves the WaitGroup and
  returns its token in that order, while `main` summarizes as soon as the counter
  is zero. Correct: at most `--max-hosts` workers, every target counted once, the
  exit status true in both directions.
* **Configuration store.** All workers collect credentials, one save writes them; a
  crash, an I/O error or another process may come at any step. Correct: every
  accepted credential is merged, and the file is always one that was whole.
* **Host work.** Slots, tokens and the installation are waited for without a
  deadline, one while another is held; the client may be closed under every
  worker; preconditions fail in the middle. Correct: no slot or token lost or
  returned twice, payloads only after every transfer, never without the
  privileges asked for, success only if everything was done, and an end.
* **Sessions.** The SSH library knows no deadline, so each library call that may
  block runs beside a goroutine that closes the client. Correct: no channel
  outlives its owner, a result is the host's word, every call ends.
* **Privileged input.** sudo may read the password from stdin or not, and more than
  once, while a goroutine still sends it and a deadline may close the client. Correct:
  the payload gets nothing but its own input, a call that reports success has run it
  with all of it, and output beyond the ceiling is an error, exactly then.
* **Scripts.** Each creates a file here and a directory there and must remove both
  through a connection it may itself have closed. Correct: a success leaves
  nothing, and what is left is reported.
* **Downloads.** Entries of several hosts may have equal or nested destinations,
  and a failed method clears its destination. Correct: writers stay apart, what an
  earlier run left is untouched, a complete download stays.
* **Output files.** The claims are made before anything runs, the files are
  written after; other processes write to the same tree, and a crash may come in
  between. Correct: nothing is replaced or shared, a name holds a complete output
  or nothing of it, a job that is refused one of its files runs nothing.
* **Authentication.** Four ways out of two nested loops. Correct: a failure only
  after every usable login was refused, none offered twice or after the outcome.
* **Uploads.** rsync runs in a process of its own, the fallback over the client that
  others may close. Correct: what is reported as good is complete, the two never
  write at the same time, nothing is left of a cancelled rsync.
* **Extraction.** The host chooses names, kinds and order of what it sends. Correct: a
  download without an error is what was sent, and nothing else.
* **Scheduling.** Three steps read, edit and replace a crontab that belongs to
  somebody else; systemd runs what it has loaded, not what is on disk; an earlier run
  may have used the other scheduler. Correct: what is reported as installed is there
  once, with the scheduler that was selected, at the new interval; and the owner's lines
  stay.
* **Cron.** An interval must become two fields of a crontab line. Correct: the
  gaps between the runs are the interval.
* **Targets.** Limits before and after overlapping ranges are merged, and loops that
  end at the last address there is. Correct: exactly what was asked for, once.

`PROJECT.json` lists the hazards behind these one by one, at the line where
each bites, with the properties that watch over it.

## 2. The modules

    HostJob  <---- KeepsPromise (refinement) ----  HostWork
       ^                                              .
       | EXTENDS                                      . one or two steps of a worker
     Fleet --EXTENDS--> ConfigStore                   . there are many steps here:
                                                      .
          Session   ScriptRun   Download   Upload   ScheduleInstall   OutputFiles
             .                     .                       .
             . its command's       . one method's          . what a cron daemon
             . stdin and output    . tree                  . makes of an entry
          SudoInput             Extraction             CronSchedule

     AuthMatrix and Targets come before the work on a host.

`HostJob` is the abstract specification: what the work on a host promises, with
no connections, slots, semaphores or rsync. `HostWork` implements it, which the
run `hostwork_finishes` checks through the refinement mapping `Job` of that
module, fairness included; `Fleet` extends it, and so does not depend on how the
promise is kept. The other modules look inside single operations of HostWork.
Each `MC...` module gives the constants of a module values for TLC; `MCParts`
instantiates the six modules that share no variable with another one
(AuthMatrix, Targets, Extraction, ScheduleInstall, CronSchedule, Upload), each
explored with the other five at rest; `MCCalls` does the same with Session, ScriptRun and
Download, and `MCPayload` with SudoInput and OutputFiles. Theorems are in the `..._proofs`
modules: `HostWork_proofs`, `Fleet_proofs` (with ConfigStore), `Session_proofs` and
`OutputFiles_proofs` about the module they are named after, `Transfer_proofs` about
Download and Upload, `Schedule_proofs` about ScheduleInstall and CronSchedule,
`Payload_proofs` about ScriptRun and SudoInput, and `Sequential_proofs` about
AuthMatrix, Extraction and Targets.

### HostJob
An entry (an upload, a download, a payload) gets one verdict while its job works;
a payload only after every transfer went well; a job succeeds only if all of its
entries did. The credential check comes before it and is Fleet's.

### HostWork
A job is one call of `SsherWrapper`. `phase` is where its own goroutine is,
`task` is where each worker is: `new`, `queued` (it has the host's token and asks
for a slot), `holding` (it has the slot), `sent` (the host may be at work), and
then how it ended. `sem` is the buffered channel of the phase, `slots` the fill of
the pool, `conn` the client (a deadline makes it `closing`; the goroutine that
closes it is not waited for), `sudo` and `rsync` what is known of the host,
`install` the state of the installation per key, `scripts` the cache of script
contents, `transfers` and `failed` the parts of the `HostWorkResult`. One action
per precondition, per transition of the rsync attempt (probe, start or join,
finish, verify), per step of a worker and per join. Faults are local errors,
errors the host reports, and deadlines, each enabled by the constant `Faults`.
A payload that runs is two steps, `Send` and a `Finish...`, so that the
connection may be closed between them.

### Session
Calls on one client, each with its goroutine (`caller`), the goroutine that opens its
channel (`opener`), the one that closes client and channel (`closer`), and a
deadline (`expired`). `Streams` are the transfers, which have a watcher instead of
a `select`. The host answers, also refuses, or falls silent at some time and keeps
the connection. The choice Go makes between two ready cases of a `select` is free.

### ScriptRun
Scripts of one host on one client, with sudo (one root shell with an EXIT trap,
then a verification) and without (write, mktemp, copy, run, cleanup, remove).
A helper session may fail before or after its command took effect, and a late one
closes the client. Every session, the one the SCP library opens for its copy included,
waits at its start for a reply that no deadline bounds: `StartStalls` is the host that
does not give it, and `stalled` the call that waits, until a deadline of another session
closes the client. The command of such a session may have run or not.

### Download
A destination is a set of pieces of content. `Check` is the look at the destination
before the mutex, `Reserve` the critical section, the `Try...` actions are the
methods, each of which may succeed, fail and be cleared, or fail and stop the chain
because it cannot be cleared. `made` are the directories created on the way to a
destination, which make a later check fail.

### OutputFiles
Claims and writes of all payloads of two jobs, one file operation at a time:
`EnsureDirBelow` walks down the path with an Lstat and a Mkdir per component,
`ReserveOutput` claims, `AtomicWriteExclusive` writes a temporary file, links it
to its name and removes it. `OtherProcess` creates a file of the same name,
`Crash` ends the process anywhere.

### Fleet
`main` is the main goroutine, `worker` each target's, in the order of the code:
token, authentication, host work, record, `wg.Done`, release. The two ways a worker
learns its outcome (login refused; host work over) are separate actions.

### ConfigStore
`config` is the file a reader sees, `lasting` the set of files a crash at this moment
would leave: a rename adds to it, the sync of the directory reduces it to one. So a
crash is in the model at every step without an action of its own. `SaveConfig` is a
step per system call (`step`), each of which may fail; `synced` tells whether the
directory could be synced, which on some file systems it cannot, silently. `rival`
is what another process saved meanwhile.

### Upload
An entry with rsync makes the remote directory, then the askpass helper, starts the
child, and returns only after the cleanup; whatever the error was, the stream follows.
`child` is the process group, `server` what the host's own rsync may still do after a
child that failed. `client` is shared by all entries, and any deadline closes it.

### Extraction
`archive` is the sequence of entries a host sends; an entry is a path of portable
names and a kind, one of which is "escaping" (absolute, or with `..`). A tar entry is
refused, makes a directory, or creates a file exclusively and fills it; the SFTP walk
fills a temporary file and links it. `file[p]` is the number of the entry whose
content `p` has, so that content put in the wrong place shows. `Harden` compares the
names that are on disk at the end, after tar and after SFTP from a host without tar
(`hasTar`, `Checked`); where SFTP is the last resort after tar failed, nothing does. `Fold` is `strings.ToLower`.

### ScheduleInstall
One action per command of the two shell scripts of `schedule.go`, for any number of
jobs on one machine. `edited` is the job's temporary copy, `table` the crontab; a line
is its marker and who wrote it. A script may fail at each step (`set -e`), its caller
may give up while it goes on (`orphan`), a signal may remove its files (`gone`), after
which the commands that read them fail and printf makes its own anew (`signalled`). A
`crontab -l` that fails is taken for an empty crontab (`unread`). The owner adds lines
at any time. A timer unit exists as a file, as systemd has loaded it and as it runs.
Earlier runs have left any set of crontab entries and any set of timers.

### CronSchedule
`cronExpression` as the sets of minutes and hours it lists, and a clock that runs
the command whenever they match.

### SudoInput
`stdin` are the lines nobody has read: password, boundary, the payload's input; the
first `arrived` of them are at the host, the rest is sent by a goroutine, a packet at a
time (`Send`), until the client is closed (`CloseClient`, `cut`). sudo reads one line per
try, or none; the root shell discards through the boundary; cat reads the rest, until
there is no more to come. Any line may equal any other except where the code rules it out. Two
goroutines copy stdout and stderr in chunks of any size into one buffer, and a caller
whose deadline passed reads it while they still write.

### Targets
An address is a number, IPv4 (two octets) before IPv6. Tokens are what their syntax
means. The set is taken apart into its `Runs`, which is what the netaddr library
returns; one loop adds up their sizes, one range per step (`CountRange`), and a second
one shows each range and writes its addresses out, one per step (`WriteRange`,
`WriteAddress`). `ranges` are those the loop that runs has not done.

### AuthMatrix
The loops of `RunnerBf`, with a host that accepts any set of logins, passwords that
may be empty, and a key, loaded on first use, that may not load.

## 3. The runs

| run | question | bounds |
|---|---|---|
| `hostwork_safe` | are slots and tokens counted, phases apart, payloads after transfers and never without their privileges, one installation per key, once, and does success mean that everything was done? | 2 jobs, one of them root, one key, 2 slots; six command lines: one entry of each kind with scripts, two commands, two scheduled payloads, two uploads, two downloads, `--limit` 1 and 2; every fault |
| `hostwork_finishes` | does every job end, and is HostJob implemented? | 2 jobs, one key, 1 slot, an upload and a command |
| `calls` | for each of the three modules of `MCCalls`, its properties. Session: no leaked channel, results that are the host's word; do the open and the wait end with the deadline? ScriptRun: does the report say what became of the script and of its files, and does every script end whose sessions are answered at their start? Download: writers apart, earlier runs untouched, reservations returned; does every entry end? | Session: a command and a transfer, hosts that answer, refuse, fall silent. ScriptRun: 2 scripts, with and without sudo, every fault; and a host that obeys. Download: 3 entries of 2 hosts, destinations equal and nested, 2 at a time, any earlier content, three sets of tools |
| `fleet_run` | limiter, counting, exit status, merged credentials, a file that stays whole | 3 targets, 2 at a time, with and without `--CO`; a missing, malformed or older file, another process that saves, a crash and an error at every step |
| `parts` | for each of the six modules of `MCParts`, its properties | AuthMatrix: 2 usernames, 2 passwords, key or not, every set of accepted logins. Targets: every list of two tokens over 4 IPv4 and 4 IPv6 addresses, 5 limits. Extraction: every sequence of 3 entries, two levels, two names that differ in case. ScheduleInstall: 2 jobs, 2 commands or one given twice, 5 machines, any of the commands installed before with either scheduler (where both can be selected, only the first of them installed before, and no command given twice: `Bounded`). CronSchedule: 20 intervals on both sides of every limit, installed at six minutes of the day, the first and the last among them. Upload: 2 entries |
| `payload` | for each of the two modules of `MCPayload`, its properties. SudoInput: whose input reaches the payload, is all of it there, and is output that is reported whole? OutputFiles: nothing replaced, shared or partial, nothing called saved that is not there | SudoInput: 4 lines of text, any of them the password that is given, the account's, the boundary or a line of the input; inputs of up to 2 lines, packets of one line, 3 tries, a ceiling of 2, 2 bytes on each stream; the client closed at any moment. OutputFiles: 2 jobs, 2 payloads each, 2 of them with one file, directories one and two deep; another process and a crash, or I/O errors at every step |

Each module states the types of its variables (`TypeOK`, or a name of its own where
modules are put together; those of CronSchedule are part of the invariant of its
proof). Runs check those of HostWork and Download, and all are proved.

Six more runs check one sentence of a comment each, and TLC finds it violated:
section 4.

**Why the bounds are enough.** The hazards are meetings of two actors in one place:
two jobs at the pool or at an installation, two workers at a client or at a
destination. The instances give each place two actors (the fleet's limiter and the
downloads three) and the smallest capacity at which they still meet: one slot so
that one always waits; two slots so that the installer holds one while the job that
waits for it holds the other; a destination inside another, so that overlap is not
only equality. `MaxTasks`, `Each`, `Users` and `Words` bound how many entries exist,
`MaxOutput` how much is printed; no other counter of a model is cut off by a bound in a guard. An
archive needs three entries for the cases that are refused: a file, a file whose path
implies a directory, and one more whose name collides. For more jobs, entries,
paths and slots there are the proofs. Where the faults change what can be said
(a host that obeys; a disk without errors), a run takes several sets of faults, and
the behaviour keeps the one it starts with (`faults`). Deadlock is checked
in every run but three: an end of the work is an explicit stuttering action
(`Terminating`, `Finished`, `Exited`, `Quiet`, `Ended`, `Over`; of all modules of a run
together `CallsOver`, `PayloadOver`), so that any other stop is an error.
`schedule_overlap`, `schedule_signal` and `sudo_truncated` look for one bad state and
have no such action. In `parts` jobs are interchangeable, hence the symmetry of the two
installers.

**Fairness.** Liveness runs assume that a goroutine that can run does run: weak
fairness of the program's own steps in HostWork, ScriptRun and Download, in one formula
where any progress will do, and per call in Session. The Go scheduler gives that. The
other modules assume none: there the check for deadlock says that nobody waits for
ever, and every loop is bounded. It is *not* assumed that credentials
are ever accepted (`Begin`) or that another process or a crash comes. In `Session`
the steps that need an answer of the host are only enabled while it answers; a
host that falls silent is not assumed to come back. `HostWork` is one level
higher: it assumes that each of its operations ends, with an answer or with its
deadline. `Session` and `ScriptRun` show where the code gives that (the open, the
wait) and where it does not: every session waits in `session.Start` for the host's
reply outside every deadline (`session_deadline`), those of a script and the copy by the
SCP library included (`StartStalls`). In ScriptRun the step of a call that waits so is
not enabled, so fairness asks nothing of it, and `ScriptsEnd` says which calls are left:
those whose session is not answered while nobody closes the client. `EveryJobFinishes`
is to be read with that reservation: the pool, the tokens and the installation add no
deadlock of their own.

## 4. Where the code and its documentation disagree

| run | what the comment says | what the run shows |
|---|---|---|
| `session_deadline` | `runWithInput` "runs a command ... honoring a context deadline" (ssh.go:66-67) | `session.Start` waits for the host outside every select (ssh.go:89) |
| `script_timeout` | "payload timeouts and failures cannot bypass cleanup" (ssh.go:683-684) | the cleanup needs the client the timeout closed; the remote directory stays |
| `download_stale` | `removePartialDownload` is safe because the reservation "proved the destination absent" (ssh.go:1203-1205) | the proof is older than the reservation: a complete download of another entry is cleared (ssh.go:1165) |
| `schedule_overlap` | "Keep these sequential so concurrent crontab reads cannot overwrite each other" (ssh.go:338-339); the script "atomically updates the current effective user's crontab" (schedule.go:55-56) | sequential within a job only: two targets that are one machine edit one crontab at once, both report success, and a command has no entry |
| `schedule_signal` | the script "atomically updates the current effective user's crontab" (schedule.go:55-56) | the trap removes the edited copy and does not exit (schedule.go:70): after a signal between sed and printf, a crontab with one line is installed |
| `sudo_truncated` | "only exact post-boundary script bytes reach the root-owned file" (ssh.go:703-704) | the script is sent while it is read (ssh.go:86): a deadline that closes the client in the middle (ssh.go:102) is the end of the input for cat (ssh.go:698), and root runs the first part of the script |

Each is found by a run without the faults it does not need, so the counterexample is
the shortest story of the disagreement. `schedule_overlap` needs three commands: with
two, the last edits of the two jobs repair each other. `script_timeout`,
`schedule_overlap` and `sudo_truncated` have counterparts that hold: what stays behind is
always reported (`ReportIsHonest`), where edits do not overlap every entry is there
(`EntriesAreInstalled`), and a call that reports success has run the whole script
(`PayloadGetsItsInput`): what runs on a part of it belongs to a call whose client was
closed, which is an error for its caller.

More limits of the code are in the models, and the properties are worded around them:

* The deadline of one payload closes the client all payloads of its host share
  (ssh.go:102): the ones whose turn comes later never run. `-T` is "per
  script/command" (README.md:84). SuccessIsComplete shows that the job is then a failure.
* The SCP library opens its session without a context (ssh.go:1639), and the sessions of
  a script wait for the reply to their start (ssh.go:89), although "payloads ... and
  transfer operations now have bounded cancellation paths" (BUG_AUDIT.md:51): hence the
  exception in ScriptsEnd (`Waits`).
* cron accepts 45 minutes, which divide a day and not an hour (schedule.go:29;
  README.md:274): the gaps are 45 and 15, which RunsAreOnTime allows for such intervals.
* `EnsureDirBelow` fails when another goroutine makes the same directory between its
  Lstat and its Mkdir (safepath.go:159). A job is then refused its output although
  nothing is wrong; NoSharedOutput shows that it has run nothing.
* The failure of the directory's sync is reported as "not saved" although the rename
  has succeeded (main.go:82): FileIsOldOrNew holds of either file.
* The credentials are merged with what the run read at its start (main.go:56-58); what
  another process saves in between is lost. StoreIsComplete excludes it (`rival`).
* Where SFTP is the last of several methods (ssh.go:1300), names are not compared for
  case, as they are after tar (README.md:278, BUG_AUDIT.md:46) and after SFTP from a host
  without tar (ssh.go:1141): the last conjunct of TreeIsExact is about those two (`Checked`).
* The crontab's owner loses a line written while a job edits; a `crontab -l` that fails
  is taken for no crontab; a signal may come between sed and printf (`schedule_signal`).
  OthersAreKept excludes these and nothing else (`safe`, `excused`): a signal at any other
  step of the edit, a failure of any command and a kill keep every line.
* A command that an earlier run installed with cron keeps that entry when systemd is
  selected for it now, and the other way round: neither script looks for the other's, and
  the command runs twice although the job reports success. EntriesAreInstalled says of
  what is installed that it is there once *with the scheduler that was selected*, and of
  both schedulers that they run a command only for this reason, or because two jobs
  selected different ones (`Twice`, `Leftover`). An earlier run as another user of the
  machine is outside the model, which has one crontab.
* An installer whose deadline has passed goes on by itself (`orphan`).
* An askpass helper that cannot be removed is an error only where rsync's own result
  is still the entry's; the host's side of a child that failed may come back after the
  fallback has begun. UploadIsComplete and NothingStaysBehind say so.

## 5. What is proved

Every safety property that a passing run checks, and the safety part of the refinement:
for any number of jobs, hosts, entries, commands, slots, paths and credentials, any
set of faults and any command lines. The assumptions are the `ASSUME`s of the modules
and nothing else: for instance that `Jobs` is finite and not empty, that `MaxOps`,
`MaxHosts` and `--limit` are positive (`cli.go` refuses others), that `Below` is
transitive (as being inside a directory is), that no line of the crontab's owner ends
in the program's marker, that what a run finds in its credential file was written
before it, that with a path every path that leads to it is one (`PathsAssumption`), and
that a token's octets are octets and its addresses addresses (`TokensAssumption`).
Every theorem is an invariant of the specification or an action property
that follows from one; each is proved from a stronger invariant that is inductive.

**`HostWork_proofs`, the counters.** `CountInv` is `TypeOK /\ PoolAccounting /\
HostLimit`. None of the three can be proved alone: `slots - 1` is only a natural number
because a worker or a probing job holds a slot, which is PoolAccounting, and the same
goes for `sem` and HostLimit. A step moves one element in or out of `Workers`, `Probers`
or `LiveTasks(j)`; `TaskMove` and `PhaseMove` say so in terms of sets, `TaskCount` and
`PhaseCount` in terms of cardinalities, and the lemmas about the steps are one per shape
of a step (a job's own step with and without a slot, a worker's step with and without
its token). Results: `TypeCorrect`, `PoolIsCounted`, `HostIsLimited`.

**`HostWork_proofs`, the order.** `PhasesDoNotOverlap`, `PayloadsAfterTransfers`,
`NeverUnprivileged` and `SuccessIsComplete` are about what was done long before the
state they speak of. `OrderInv` (a conjunction over the jobs, `JobInv`) adds what the
code knows on the way: which workers may have started in a phase, that the recorded
outcome of a kind of transfer is the outcome of its workers, what is known of sudo once
its phase is over, and that a job which was aborted is marked failed. Results:
`PhasesAreApart`, `TransfersComeFirst`, `Privileged`, `SuccessMeansComplete`.

**`HostWork_proofs`, the installation.** `InstallerExists` is inductive with the types.
`InstallUntouched` and `InstallMove` say which steps of a job move it into or out of
`installing`: only the first job with a key and the end of its attempt, and both set
`install` of that key alone. As sets (`OneInstaller`), an attempt marked running has the
one installer that ends it. Results: `InstallerIsThere`, and from it `InstalledOnce`:
whoever is at the end of an attempt finds it running, so no outcome is written twice.

**`HostWork_proofs`, the refinement.** `WorkImplementsJob`: the initial states of
HostWork are initial states of HostJob under the mapping `Job`, and each step is a step
of HostJob or a stutter. A step changes the status of at most one job or the verdict of
at most one entry (`StatusStable`, `OwnSteps`), and one that changes neither is a
stutter (`Stutter`). The steps that are not: `BeginStarts`; `WorkerDecides`, a payload
only after the transfers, from `OrderInv`; and `CloseConcludes`, a success only if every
entry went well, from `SuccessIsComplete`. `KeepsPromise` adds fairness, which stays
with the run.

**`Fleet_proofs`.** Four parts on top of the types. `CountInv`: tokens and WaitGroup are
the cardinalities of the sets of workers they stand for, without which neither stays in
its range. `ResultInv`: the results are those of the workers that have recorded, one
each, and such a worker's host changes no more. `ExitInv` and `StoreFacts`: where
`SaveConfig` is when `main` is where it is; the memory is what the run found, with every
accepted host; a file that is being renamed is durable; and the other process's file is
never the one that was found. Results: `FleetTypeCorrect`, `HostsAreBounded`,
`EveryJobIsCountedOnce`, `ExitStatusIsHonest`, `CredentialsAreMerged`, `FileStaysWhole`.

**`Session_proofs`.** `ChannelInv`: when a call is over, its opener is too and the
channel is closed, or the client is, or is about to be. `CauseInv` and `ClientInv`: a
channel that is closed under a running call, and a client that is closed at all, go back
to a deadline. Results: `SessionTypeCorrect`, `SessionsAreClosed`, `ResultsAreHonest`.

**`Sequential_proofs`, the search for a login.** What has been tried is the set of
candidates before the place of the two loops (`SearchInv`). That set depends on whether
the key is loaded, so `KeyInv` says when it can change: in the first row only, before
any key was passed over. `NextPlace` is the lemma about the order of the matrix. Results:
`AuthTypeCorrect`, `NothingIsLeftOut`, `NothingIsTriedTwice`.

**`Transfer_proofs`, downloads.** `ReserveInv` adds two facts to the types: the
reservations held are pairwise disjoint trees, and an entry past its check has nothing
of an earlier run at or below its path. So nothing is written where an earlier run left
something, which is more than that it is not removed: a path that had its content has
that and nothing else. From them: `WritersAreKeptApart`,
`EarlierRunIsSafe`, `ReservationsComeBack`, `DownloadTypeCorrect`. That a *complete
download* stays is not among them: it is false (`download_stale`), and the proof shows
why what is left of it holds: the earlier run's content cannot change between check and
reservation.

**`Transfer_proofs`, uploads.** A child exists only while its entry is at rsync; from
the cleanup on there is neither child nor helper; and an rsync that reported success has
made its destination whole. Results: `UploadTypeCorrect`, `UploadsAreComplete`,
`NothingIsLeftBehind`.

**`Schedule_proofs`, the installation.** Three invariants. For the owner's lines
(`KeepInv`) it is enough that every edit in progress contains them, overlap or not, and
that an edit without its files is one whose next command needs them: between sed and
printf, where it does not, the signal is the excused one. That both schedulers run a
command only for a reason follows from where entries come from (`SourceInv`): a line that
is not from an earlier run was written by a job that selected cron, a new timer by one
that selected systemd. What is reported as installed needs `StrongInv`: while no two jobs have edited at once, a job
that edits has every command's line of the crontab but the one it replaces (`EditInv`),
no command has two lines (`UniqueInv`), a timer that runs as the new one was loaded and
written as it (`UnitInv`), every entry has its script (`ScriptInv`), and each command
that a job has passed without an error is installed (`DoneInv`). Results:
`SchedTypeCorrect`, `OwnersLinesStay`, `InstalledWhereApart`.

**`Schedule_proofs`, cron.** An interval of p minutes (`Period`) has a place in it for
every minute of the day (`Place`): the minutes since the command was last due.
`PlaceStep` shows that the next minute's place is one more, or 0, and 0 exactly when the
two fields match (`Due`), midnight included, because p divides a day; where p divides an
hour or is whole hours, 0 comes only after p - 1. The invariant ties `since` to the
place. Most of the work is arithmetic of remainders (`Division`, `Remainder`,
`NextRemainder`), which the solvers do not know. Result: `RunsOnTime`.

**`Payload_proofs`, scripts.** `CallInv` says, for the place a call is at, what it has
run, what is left on either machine, and which error names it; a directory that is left
has a cause (`Caused`), which never goes away because nothing opens the client again. A
step of one script leaves the others' part alone (`OtherCalls`). Results:
`ScriptTypeCorrect`, `ReportsAreHonest`, `DirsAreRemoved`.

**`Payload_proofs`, input and output.** `InputInv`: the boundary is neither the password
nor a line of the input; while sudo or the shell reads, stdin is all of it, or all but
the password, or the boundary is gone from it (`Lost`), and then the shell never finds
one; while cat reads, what it has and what is left, sent or not, are the input; so a
payload that runs without all of it saw the end because the client was closed, and then
`Wait` returns an error. `OutputInv`: what both streams have
copied is what was kept and what was omitted, and nothing is omitted while there is
room. Results: `SudoTypeCorrect`, `PayloadReadsItsOwn`, `OutputIsNotLost`.

**`Sequential_proofs`, extraction.** `TreeInv`: the entries so far are in the tree, each
file with its own content (`Placed`); nothing is in the tree that no entry leads to
(`Sent`); a file that is being written took a free place (`WritingInv`). An entry that
is refused, and a file created exclusively, are what keeps the earlier entries as they
are (`EarlierStay`). Results: `TreeTypeCorrect`, `TreesAreExact`.

**`Sequential_proofs`, targets.** First the ranges, for an address space of any size:
runs do not meet (`RunsAreApart`), every address is in one (`RunsCover`), and the lowest
of those that are left comes next (`NextRun`). Then three invariants on top of the types. `ReadInv`:
what is in the set and what is left of the tokens mean what was asked for. `CountInv`:
the sum is the cardinality of what lies below the ranges that are left. `WriteInv`: the
list is what lies below the cursor, in order and once. The early refusal of a token
needs that a token's count is the cardinality of what it means (`TokenMeans`): different
octets make different addresses. Results: `TargetsTypeCorrect`,
`TargetsAreWritten`.

**`OutputFiles_proofs`.** A payload that was admitted holds the claim of its file
(`ClaimInv`), and a name is linked only to a complete file (`FileInv`); `PathInv` keeps
the walk within its path. Results: `OutputTypeCorrect`, `OutputsAreApart`,
`OutputsAreComplete`, `OutputsStay`.

Only model-checked: the liveness properties (`EveryJobFinishes`, `OpenAndWaitAreBounded`,
`ScriptsEnd`, `EveryEntryEnds`) and the fairness in `KeepsPromise`, because fairness and
ENABLED are out of the prover's reach; and that no state is a deadlock. The six
properties of section 4 are false and have no theorem; what is left of five of them is
proved (`ReportsAreHonest`, `EarlierRunIsSafe`, `InstalledWhereApart`, `OwnersLinesStay`,
`PayloadReadsItsOwn`), and that of `CallIsBounded`, OpenAndWaitAreBounded, is checked.

## 6. What is not modelled

* **Contents.** Bytes of transfers and of output are absent; a path is a name or a
  sequence of names, and an entry is a name. An unfinished file is a state of a file.
* **Command line, environment files, logging.** They run before the goroutines start,
  or have no state other parts read. The limits the command line enforces are the
  assumptions on the constants.
* **The syntax of targets.** Targets begins with tokens that are parsed.
* **newSFTPContext.** The same shape as `newSessionContext`, which Session models.
* **A download of the remote root**, whose destination may exist if it is empty, and
  **the rsync child of a download**: a method that succeeds, fails or cannot be cleared.
* **`RunnerCred`, and a run from the configuration file (`-U`)**: the case of one login in
  AuthMatrix, and the same goroutines as in Fleet.
* **Two `-F` entries with one remote destination.** Nothing reserves remote paths; Upload
  gives each entry a destination of its own.
* **The replacement of files on Windows, `DeleteEntryByIP`** (called by nothing).

## 7. Plan

Built so far, in the order of importance: HostWork with HostJob, Fleet with
ConfigStore, ScriptRun, Download, AuthMatrix, Session, OutputFiles, ScheduleInstall,
Upload, SudoInput, Extraction, Targets, CronSchedule; the proofs listed above.

To model: the rsync child of a download with its partial tree; a run with `-U`;
HostWork with Session below it, so that the assumption that operations end becomes a
refinement; two entries with one remote destination.

To prove: that HostJob, as Fleet extends it, is enough for what HostWork gives it, with
the composition written down; stronger forms of what is now proved, where the code gives
more than the property says (the order in which rsync and its fallback write; which
host's login a credential came from); and the theorems of what is still to be modelled.
