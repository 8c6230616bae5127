------------------------------ MODULE HostWork ------------------------------
(***************************************************************************)
(* The work one authenticated connection does on its host                  *)
(* (SsherWrapper, internal/ssh/ssh.go), for several host jobs that run at  *)
(* once and meet in three process-wide places: the pool of expensive       *)
(* operations (operation_limit.go), the cache of local scripts and the     *)
(* memoized rsync installation (rsync.go).                                 *)
(*                                                                         *)
(* A job is the goroutine that runs SsherWrapper; every upload entry,      *)
(* download entry and payload is a worker goroutine it starts and joins.   *)
(* All workers of a job share one SSH connection, and a timeout of any of  *)
(* them closes it (runWithInput, newSessionContext, closeOnContext).       *)
(***************************************************************************)
EXTENDS Naturals, FiniteSets

CONSTANTS Jobs,       \* host jobs: one SsherWrapper call each
          RootJobs,   \* the jobs that logged in as root
          InstallKeys,\* user@ip:port strings
          InstallKey, \* the key of each job; duplicate targets share one
          MaxOps,     \* maxExpensiveOperations
          MaxTasks,   \* bound on the entries of one kind
          Options,    \* the command lines considered
          Faults      \* what may go wrong: see below

Kinds == {"upload", "download", "payload"}
Transfers == {"upload", "download"}
Modes == {"commands", "scripts", "schedule"}

\* "local" is an error on the operator's machine, "remote" an error the host
\* reports, "timeout" a context deadline that expires.
FaultKinds == {"local", "remote", "timeout"}

Tasks == Kinds \X (1 .. MaxTasks)

OptionSet == [count : [Kinds -> 0 .. MaxTasks], mode : Modes, threads : Nat \ {0},
              sudo : BOOLEAN, validate : BOOLEAN, outfile : BOOLEAN, rsync : BOOLEAN]

ASSUME JobsAssumption == /\ IsFiniteSet(Jobs)
                         /\ RootJobs \subseteq Jobs
                         /\ InstallKey \in [Jobs -> InstallKeys]
ASSUME BoundsAssumption == MaxOps \in Nat \ {0} /\ MaxTasks \in Nat
ASSUME OptionsAssumption == Options \subseteq OptionSet
ASSUME FaultsAssumption == Faults \subseteq FaultKinds

VARIABLES opts,      \* the flags, parsed once and never written again
          phase,     \* where each job's own goroutine is
          task,      \* what became of each entry of each job
          sem,       \* tokens in the job's per-host semaphore
          slots,     \* tokens in expensiveOperations.slots
          conn,      \* the job's SSH client
          sudo,      \* the job's sudoDecision
          rsync,     \* the job's useRsync
          install,   \* rsyncInstallState.attempts
          scripts,   \* preparedScripts, all the scripts together
          transfers, \* result.Transfers
          failed     \* result.Failures is not empty

vars == <<opts, phase, task, sem, slots, conn, sudo, rsync, install, scripts,
          transfers, failed>>
poolVars == <<task, sem, slots>>
hostVars == <<sudo, rsync, install, scripts>>
resultVars == <<transfers, failed>>

Phases == {"idle", "prepare", "hostname", "reserve", "shell", "sudo", "rsync",
           "probe", "install", "installing", "verify", "upload", "tar",
           "download", "select", "payload", "close", "done"}
\* The phases in which the job itself holds a slot of the shared pool.
SlotPhases == {"probe", "install", "installing", "verify"}

Pending == {"new", "queued", "holding", "sent"}
Settled == {"ok", "failed", "timeout", "unsent"}
Live == {"queued", "holding", "sent"}
Holding == {"holding", "sent"}

Requested(k) == {t \in Tasks : t[1] = k /\ t[2] <= opts.count[k]}
AllRequested == UNION {Requested(k) : k \in Kinds}
NeedsScripts == opts.mode = "scripts" /\ opts.count["payload"] > 0
\* schedule installs run one after the other in the job's own goroutine
Width(k) == IF k = "payload" /\ opts.mode = "schedule" THEN 1 ELSE opts.threads

TypeOK ==
    /\ opts \in Options
    /\ phase \in [Jobs -> Phases]
    /\ task \in [Jobs -> [Tasks -> Pending \union Settled]]
    /\ sem \in [Jobs -> Nat]
    /\ slots \in Nat
    /\ conn \in [Jobs -> {"open", "closing", "closed"}]
    /\ sudo \in [Jobs -> {"unknown", "not_needed", "available", "failed"}]
    /\ rsync \in [Jobs -> BOOLEAN]
    /\ install \in [InstallKeys -> {"none", "running", "ok", "failed"}]
    /\ scripts \in {"unread", "read", "error"}
    /\ transfers \in [Jobs -> [Transfers -> {"none", "ok", "err"}]]
    /\ failed \in [Jobs -> BOOLEAN]

Init ==
    /\ opts \in Options
    /\ phase = [j \in Jobs |-> "idle"]
    /\ task = [j \in Jobs |-> [t \in Tasks |-> "new"]]
    /\ sem = [j \in Jobs |-> 0]
    /\ slots = 0
    /\ conn = [j \in Jobs |-> "open"]
    /\ sudo = [j \in Jobs |-> "unknown"]
    /\ rsync = [j \in Jobs |-> FALSE]
    /\ install = [k \in InstallKeys |-> "none"]
    /\ scripts = "unread"
    /\ transfers = [j \in Jobs |-> [k \in Transfers |-> "none"]]
    /\ failed = [j \in Jobs |-> FALSE]

-----------------------------------------------------------------------------
(* The connection. A deadline that expires closes the client for every     *)
(* goroutine that uses it; runWithInput does so in a goroutine of its own, *)
(* so the others may still get work through before it is closed.           *)

Fault(f) == f \in Faults
Usable(j) == conn[j] # "closed"
GoTo(j, p) == phase' = [phase EXCEPT ![j] = p]

Stall(j) == /\ Fault("timeout")
            /\ conn' = [conn EXCEPT ![j] = IF @ = "open" THEN "closing" ELSE @]

\* A remote command whose error the caller ignores: it may have timed out.
MayStall(j) == UNCHANGED conn \/ (Usable(j) /\ Stall(j))

\* A remote command that fails: the connection is gone, the host refused, or
\* the deadline expired.
CommandFails(j) == \/ ~Usable(j) /\ UNCHANGED conn
                   \/ Fault("remote") /\ UNCHANGED conn
                   \/ Usable(j) /\ Stall(j)

CloseConn(j) == /\ conn[j] = "closing"
                /\ conn' = [conn EXCEPT ![j] = "closed"]
                /\ UNCHANGED <<opts, phase, poolVars, hostVars, resultVars>>

\* SsherWrapper returns early with an error in result.Failures.
Abort(j) == /\ GoTo(j, "close")
            /\ failed' = [failed EXCEPT ![j] = TRUE]

-----------------------------------------------------------------------------
(* Before the transfers.                                                   *)

Begin(j) == /\ phase[j] = "idle"
            /\ GoTo(j, "prepare")
            /\ UNCHANGED <<opts, poolVars, conn, hostVars, resultVars>>

\* The first job to ask reads the files; the others wait for it and get the
\* same content or the same error. The wait is folded into one step: nothing
\* but the reader's own file access lies between LoadOrStore and close.
Prepare(j) ==
    /\ phase[j] = "prepare"
    /\ IF NeedsScripts /\ scripts = "unread"
       THEN scripts' \in {"read"} \union (IF Fault("local") THEN {"error"} ELSE {})
       ELSE UNCHANGED scripts
    /\ IF NeedsScripts /\ scripts' = "error"
       THEN Abort(j)
       ELSE GoTo(j, "hostname") /\ UNCHANGED failed
    /\ UNCHANGED <<opts, poolVars, conn, sudo, rsync, install, transfers>>

\* Two probes at most; on failure the IP serves as the name.
ResolveHostname(j) ==
    /\ phase[j] = "hostname"
    /\ MayStall(j)
    /\ GoTo(j, "reserve")
    /\ UNCHANGED <<opts, poolVars, hostVars, resultVars>>

Reserve(j) ==
    /\ phase[j] = "reserve"
    /\ \/ /\ GoTo(j, IF opts.count["payload"] > 0 THEN "shell" ELSE "rsync")
          /\ UNCHANGED failed
       \/ /\ opts.outfile /\ opts.count["payload"] > 0 /\ opts.mode # "schedule"
          /\ Fault("local")
          /\ Abort(j)
    /\ UNCHANGED <<opts, poolVars, conn, hostVars, transfers>>

CheckShell(j) ==
    /\ phase[j] = "shell"
    /\ \/ /\ ~opts.validate
          /\ GoTo(j, "sudo")
          /\ UNCHANGED <<conn, failed>>
       \/ /\ opts.validate /\ Usable(j)
          /\ MayStall(j)              \* only the output counts, not the error
          /\ GoTo(j, "sudo")
          /\ UNCHANGED failed
       \/ /\ opts.validate
          /\ CommandFails(j)
          /\ Abort(j)
    /\ UNCHANGED <<opts, poolVars, hostVars, transfers>>

SudoNeeded(j) == opts.sudo /\ j \notin RootJobs

\* Mistake: failed and unneeded escalation are not told apart.
DecideSudo_TwoValued(j) ==
    /\ phase[j] = "sudo"
    /\ \/ SudoNeeded(j) /\ Usable(j) /\ sudo' = [sudo EXCEPT ![j] = "available"]
       \/ sudo' = [sudo EXCEPT ![j] = "not_needed"]
    /\ GoTo(j, "rsync")
    /\ UNCHANGED <<opts, poolVars, conn, rsync, install, scripts, resultVars>>

DecideSudo(j) ==
    /\ phase[j] = "sudo"
    /\ \/ /\ ~SudoNeeded(j)
          /\ sudo' = [sudo EXCEPT ![j] = "not_needed"]
          /\ GoTo(j, "rsync")
          /\ UNCHANGED <<conn, failed>>
       \/ /\ SudoNeeded(j) /\ Usable(j)
          /\ sudo' = [sudo EXCEPT ![j] = "available"]
          /\ GoTo(j, "rsync")
          /\ UNCHANGED <<conn, failed>>
       \/ /\ SudoNeeded(j)
          /\ CommandFails(j)
          /\ sudo' = [sudo EXCEPT ![j] = "failed"]
          /\ Abort(j)
    /\ UNCHANGED <<opts, poolVars, rsync, install, scripts, transfers>>

-----------------------------------------------------------------------------
(* rsync: probed, and installed when missing, inside one slot of the pool. *)

TransfersRequested == {k \in Transfers : opts.count[k] > 0}
AfterTransfers == IF opts.count["payload"] = 0 THEN "close"
                  ELSE IF opts.mode = "schedule" THEN "select" ELSE "payload"

\* Mistake: the deferred release is kept, the acquire is lost.
RsyncAcquire_Uncounted(j) ==
    /\ phase[j] = "rsync"
    /\ GoTo(j, IF TransfersRequested # {} THEN "probe" ELSE AfterTransfers)
    /\ UNCHANGED <<opts, task, sem, slots, conn, hostVars, resultVars>>

RsyncAcquire(j) ==
    /\ phase[j] = "rsync"
    /\ \/ /\ TransfersRequested # {}
          /\ slots < MaxOps
          /\ slots' = slots + 1
          /\ GoTo(j, "probe")
       \/ /\ TransfersRequested = {}
          /\ UNCHANGED slots
          /\ GoTo(j, AfterTransfers)
    /\ UNCHANGED <<opts, task, sem, conn, hostVars, resultVars>>

\* rsyncUsable returns: the slot goes back to the pool.
RsyncDecided(j, usable) ==
    /\ rsync' = [rsync EXCEPT ![j] = usable]
    /\ slots' = slots - 1
    /\ GoTo(j, IF opts.count["upload"] > 0 THEN "upload" ELSE "tar")

RsyncProbe(j) ==
    /\ phase[j] = "probe"
    /\ \/ /\ opts.rsync /\ Usable(j)
          /\ UNCHANGED conn
          /\ RsyncDecided(j, TRUE)
       \/ /\ ~opts.rsync
          /\ UNCHANGED conn
          /\ RsyncDecided(j, FALSE)
       \/ /\ opts.rsync
          /\ CommandFails(j)
          /\ RsyncDecided(j, FALSE)
       \/ /\ opts.rsync /\ Usable(j)      \* the host has no rsync
          /\ GoTo(j, "install")
          /\ UNCHANGED <<conn, rsync, slots>>
    /\ UNCHANGED <<opts, task, sem, sudo, install, scripts, resultVars>>

RegisterAttempt(j, states) ==
    /\ phase[j] = "install"
    /\ install[InstallKey[j]] \in states
    /\ install' = [install EXCEPT ![InstallKey[j]] = "running"]
    /\ GoTo(j, "installing")
    /\ UNCHANGED <<opts, poolVars, conn, sudo, rsync, scripts, resultVars>>

\* Mistakes: the map is read outside the mutex; a failed attempt is forgotten.
StartInstall_Unlocked(j) == RegisterAttempt(j, {"none", "running"})
StartInstall_Again(j) == RegisterAttempt(j, {"none", "failed"})

\* The first job with this key registers an attempt; the others block on its
\* done channel, still holding their slot.
StartInstall(j) == RegisterAttempt(j, {"none"})

\* Mistake: a waiter probes again after a failed attempt instead of giving up.
JoinInstall_Loops(j) ==
    /\ phase[j] = "install"
    /\ install[InstallKey[j]] \in {"ok", "failed"}
    /\ GoTo(j, IF install[InstallKey[j]] = "ok" THEN "verify" ELSE "probe")
    /\ UNCHANGED <<opts, poolVars, conn, hostVars, resultVars>>

JoinInstall(j) ==
    /\ phase[j] = "install"
    /\ \/ /\ install[InstallKey[j]] = "ok"
          /\ GoTo(j, "verify")
          /\ UNCHANGED <<rsync, slots>>
       \/ /\ install[InstallKey[j]] = "failed"
          /\ RsyncDecided(j, FALSE)
    /\ UNCHANGED <<opts, task, sem, conn, sudo, install, scripts, resultVars>>

FinishInstall(j) ==
    /\ phase[j] = "installing"
    /\ \/ /\ Usable(j) /\ (j \in RootJobs \/ opts.sudo)
          /\ install' = [install EXCEPT ![InstallKey[j]] = "ok"]
          /\ GoTo(j, "verify")
          /\ UNCHANGED <<conn, rsync, slots>>
       \/ /\ CommandFails(j) \/ (~(j \in RootJobs \/ opts.sudo) /\ MayStall(j))
          /\ install' = [install EXCEPT ![InstallKey[j]] = "failed"]
          /\ RsyncDecided(j, FALSE)
    /\ UNCHANGED <<opts, task, sem, sudo, scripts, resultVars>>

RsyncVerify(j) ==
    /\ phase[j] = "verify"
    /\ \/ Usable(j) /\ UNCHANGED conn /\ \E b \in BOOLEAN : RsyncDecided(j, b)
       \/ CommandFails(j) /\ RsyncDecided(j, FALSE)
    /\ UNCHANGED <<opts, task, sem, sudo, install, scripts, resultVars>>

-----------------------------------------------------------------------------
(* Workers: one per upload entry, download entry and payload.              *)

SetTask(j, t, s) == task' = [task EXCEPT ![j][t] = s]

\* The job starts the workers of a phase in list order, each after taking a
\* token of the per-host semaphore.
Dispatch(j, t) ==
    /\ phase[j] = t[1]
    /\ t \in Requested(t[1]) /\ task[j][t] = "new"
    /\ \A u \in Requested(t[1]) : u[2] < t[2] => task[j][u] # "new"
    /\ sem[j] < Width(t[1])
    /\ sem' = [sem EXCEPT ![j] = @ + 1]
    /\ SetTask(j, t, "queued")
    /\ UNCHANGED <<opts, phase, slots, conn, hostVars, resultVars>>

\* runTransferOperation and acquirePayloadSlot: queueing has no deadline.
AcquireSlot(j, t) ==
    /\ task[j][t] = "queued"
    /\ slots < MaxOps
    /\ slots' = slots + 1
    /\ SetTask(j, t, "holding")
    /\ UNCHANGED <<opts, phase, sem, conn, hostVars, resultVars>>

\* Mistake: the early return comes before the deferred token release.
RefuseDownload_KeepsToken(j, t) ==
    /\ task[j][t] = "queued" /\ t[1] = "download"
    /\ Fault("local")
    /\ SetTask(j, t, "failed")
    /\ UNCHANGED <<opts, phase, sem, slots, conn, hostVars, resultVars>>

\* A download is refused before it queues: a bad entry or a destination that
\* exists or is reserved.
RefuseDownload(j, t) ==
    /\ task[j][t] = "queued" /\ t[1] = "download"
    /\ Fault("local")
    /\ SetTask(j, t, "failed")
    /\ sem' = [sem EXCEPT ![j] = @ - 1]
    /\ UNCHANGED <<opts, phase, slots, conn, hostVars, resultVars>>

\* The work reaches the host: a session is open and the command started.
Send(j, t) ==
    /\ task[j][t] = "holding"
    /\ Usable(j)
    /\ SetTask(j, t, "sent")
    /\ UNCHANGED <<opts, phase, sem, slots, conn, hostVars, resultVars>>

\* The worker's deferred releases: its slot, then its semaphore token.
Settle(j, t, s) ==
    /\ SetTask(j, t, s)
    /\ slots' = slots - 1
    /\ sem' = [sem EXCEPT ![j] = @ - 1]

\* Mistake: the error path forgets its slot.
NotSent_KeepsSlot(j, t) ==
    /\ task[j][t] = "holding"
    /\ CommandFails(j) \/ (Fault("local") /\ UNCHANGED conn)
    /\ SetTask(j, t, "unsent")
    /\ sem' = [sem EXCEPT ![j] = @ - 1]
    /\ UNCHANGED <<opts, phase, slots, hostVars, resultVars>>

\* Nothing reached the host: no session, or a local error before it.
NotSent(j, t) ==
    /\ task[j][t] = "holding"
    /\ CommandFails(j) \/ (Fault("local") /\ UNCHANGED conn)
    /\ Settle(j, t, "unsent")
    /\ UNCHANGED <<opts, phase, hostVars, resultVars>>

\* Helper commands around the operation (mktemp and cleanup of a script, mkdir
\* and find of rsync) may time out without that being the result.
HelperMayStall(j, t) ==
    \/ t[1] = "payload" /\ opts.mode = "scripts"
    \/ t[1] \in Transfers

FinishOk(j, t) ==
    /\ task[j][t] = "sent"
    /\ UNCHANGED conn \/ (t[1] \in Transfers /\ rsync[j] /\ Usable(j) /\ Stall(j))
    /\ Settle(j, t, "ok")
    /\ UNCHANGED <<opts, phase, hostVars, resultVars>>

FinishFailed(j, t) ==
    /\ task[j][t] = "sent"
    /\ \/ (~Usable(j) \/ Fault("remote") \/ Fault("local")) /\ UNCHANGED conn
       \/ HelperMayStall(j, t) /\ Usable(j) /\ Stall(j)
    /\ Settle(j, t, "failed")
    /\ UNCHANGED <<opts, phase, hostVars, resultVars>>

\* A payload's deadline always closes the client; a transfer's does unless
\* rsync, a process of its own, was the one running.
FinishTimeout(j, t) ==
    /\ task[j][t] = "sent"
    /\ Fault("timeout")
    /\ Stall(j) \/ (t[1] \in Transfers /\ rsync[j] /\ UNCHANGED conn)
    /\ Settle(j, t, "timeout")
    /\ UNCHANGED <<opts, phase, hostVars, resultVars>>

-----------------------------------------------------------------------------
(* Joins: wg.Wait, then the phase's outcome.                               *)

AllSettled(j, k) == \A t \in Requested(k) : task[j][t] \in Settled
\* Mistake: only the last result of the phase is kept.
AllOk_Last(j, k) == \A t \in Requested(k) : t[2] = opts.count[k] => task[j][t] = "ok"
AllOk(j, k) == \A t \in Requested(k) : task[j][t] = "ok"
TransferErr(j) == \E k \in Transfers : transfers[j][k] = "err"

RecordTransfer(j, k, ok) ==
    transfers' = [transfers EXCEPT ![j][k] = IF ok THEN "ok" ELSE "err"]

\* Mistake: a failed upload is logged and the payloads run anyway.
JoinUploads_GoesOn(j) ==
    /\ phase[j] = "upload"
    /\ AllSettled(j, "upload")
    /\ RecordTransfer(j, "upload", AllOk(j, "upload"))
    /\ GoTo(j, IF opts.count["download"] > 0 THEN "tar" ELSE AfterTransfers)
    /\ UNCHANGED <<opts, poolVars, conn, hostVars, failed>>

\* A failed upload does not skip the downloads, only the payloads.
JoinUploads(j) ==
    /\ phase[j] = "upload"
    /\ AllSettled(j, "upload")
    /\ RecordTransfer(j, "upload", AllOk(j, "upload"))
    /\ GoTo(j, IF opts.count["download"] > 0 THEN "tar"
               ELSE IF AllOk(j, "upload") THEN AfterTransfers ELSE "close")
    /\ UNCHANGED <<opts, poolVars, conn, hostVars, failed>>

\* downloadRemoteDirs creates the local directory, then probes for tar.
ProbeTar(j) ==
    /\ phase[j] = "tar"
    /\ \/ /\ MayStall(j)
          /\ GoTo(j, "download")
          /\ UNCHANGED transfers
       \/ /\ Fault("local")
          /\ RecordTransfer(j, "download", FALSE)
          /\ GoTo(j, "close")
          /\ UNCHANGED conn
    /\ UNCHANGED <<opts, poolVars, hostVars, failed>>

\* Mistake: the upload error is overwritten by a good download.
JoinDownloads_Forgets(j) ==
    /\ phase[j] = "download"
    /\ AllSettled(j, "download")
    /\ RecordTransfer(j, "download", AllOk(j, "download"))
    /\ GoTo(j, IF AllOk(j, "download") THEN AfterTransfers ELSE "close")
    /\ UNCHANGED <<opts, poolVars, conn, hostVars, failed>>

JoinDownloads(j) ==
    /\ phase[j] = "download"
    /\ AllSettled(j, "download")
    /\ RecordTransfer(j, "download", AllOk(j, "download"))
    /\ GoTo(j, IF AllOk(j, "download") /\ ~TransferErr(j) THEN AfterTransfers
                                                          ELSE "close")
    /\ UNCHANGED <<opts, poolVars, conn, hostVars, failed>>

SelectScheduler(j) ==
    /\ phase[j] = "select"
    /\ MayStall(j)
    /\ \/ GoTo(j, "payload") /\ UNCHANGED failed
       \/ Abort(j)
    /\ UNCHANGED <<opts, poolVars, hostVars, transfers>>

JoinPayloads(j) ==
    /\ phase[j] = "payload"
    /\ AllSettled(j, "payload")
    /\ GoTo(j, "close")
    /\ UNCHANGED <<opts, poolVars, conn, hostVars, resultVars>>

\* handleSSHConnection closes the client; closing a dead one is a failure too.
CloseClient(j) ==
    /\ phase[j] = "close"
    /\ GoTo(j, "done")
    /\ conn' = [conn EXCEPT ![j] = "closed"]
    /\ failed' \in {failed} \union
          (IF conn[j] # "open" \/ Fault("remote")
           THEN {[failed EXCEPT ![j] = TRUE]} ELSE {})
    /\ UNCHANGED <<opts, poolVars, hostVars, transfers>>

-----------------------------------------------------------------------------
JobStep(j) ==
    \/ Prepare(j) \/ ResolveHostname(j) \/ Reserve(j) \/ CheckShell(j)
    \/ DecideSudo(j) \/ RsyncAcquire(j) \/ RsyncProbe(j) \/ StartInstall(j)
    \/ JoinInstall(j) \/ FinishInstall(j) \/ RsyncVerify(j) \/ JoinUploads(j)
    \/ ProbeTar(j) \/ JoinDownloads(j) \/ SelectScheduler(j) \/ JoinPayloads(j)
    \/ CloseClient(j)

TaskStep(j, t) ==
    \/ Dispatch(j, t) \/ AcquireSlot(j, t) \/ RefuseDownload(j, t) \/ Send(j, t)
    \/ NotSent(j, t) \/ FinishOk(j, t) \/ FinishFailed(j, t) \/ FinishTimeout(j, t)

Work(j) == JobStep(j) \/ CloseConn(j) \/ \E t \in Tasks : TaskStep(j, t)

\* Every job that was authenticated has finished: nothing is left to do.
Terminating == /\ \A j \in Jobs : phase[j] \in {"idle", "done"}
               /\ UNCHANGED vars

Next == \/ \E j \in Jobs : Begin(j) \/ Work(j)
        \/ Terminating

\* Goroutines that can run do run, and a remote operation ends: most have a deadline, but
\* session.Start (ssh.go:89) and the SCP copy (ssh.go:1639) end only with the host's answer,
\* so this is about hosts that answer those two (see ScriptRun and Session for the others).
\* Nothing is assumed of Begin: a host may never accept the credentials.
Fairness == WF_vars(\E j \in Jobs : Work(j))

Spec == Init /\ [][Next]_vars /\ Fairness

-----------------------------------------------------------------------------
(* What HostWorkResult says of a finished job.                             *)

Attempted(j) == {t \in Requested("payload") : task[j][t] \in Settled}

WorkError(j) ==
    \/ failed[j]
    \/ \E t \in Attempted(j) : task[j][t] # "ok"
    \/ TransferErr(j)
    \/ Cardinality(Attempted(j)) # opts.count["payload"]
    \/ {k \in Transfers : transfers[j][k] # "none"} # TransfersRequested

-----------------------------------------------------------------------------
(* HostWork implements HostJob: the entries are the requested tasks, which *)
(* opts fixes for the whole run.                                           *)

Status(j) == IF phase[j] = "idle" THEN "idle"
             ELSE IF phase[j] # "done" THEN "working"
             ELSE IF WorkError(j) THEN "failed" ELSE "succeeded"

Verdict(s) == IF s \in Pending THEN "pending" ELSE IF s = "ok" THEN "ok" ELSE "bad"

Job == INSTANCE HostJob WITH
           Transfer <- Transfers \X (1 .. MaxTasks),
           Payload <- {"payload"} \X (1 .. MaxTasks),
           asked <- AllRequested,
           status <- [j \in Jobs |-> Status(j)],
           verdict <- [j \in Jobs |-> [t \in Tasks |-> Verdict(task[j][t])]]

\* SsherWrapper, with everything it shares, keeps the promise of HostJob.
KeepsPromise == Job!JobSpec

-----------------------------------------------------------------------------
(* Properties.                                                             *)

\* The pool counts exactly the goroutines that are inside an expensive
\* operation, and never more than the ceiling: a slot is given back once on
\* every path of rsyncUsable, runTransferOperation, ssher and ssherCommand.
Workers == {w \in Jobs \X Tasks : task[w[1]][w[2]] \in Holding}
Probers == {j \in Jobs : phase[j] \in SlotPhases}
PoolAccounting == /\ slots = Cardinality(Workers) + Cardinality(Probers)
                  /\ slots <= MaxOps

\* -l bounds the live workers of one host, whatever the phase, and its
\* semaphore loses and gains no token (uploadToRemote, downloadRemoteDirs,
\* SsherWrapper).
LiveTasks(j) == {t \in Tasks : task[j][t] \in Live}
HostLimit == \A j \in Jobs : /\ sem[j] = Cardinality(LiveTasks(j))
                              /\ sem[j] <= opts.threads

\* Uploads, downloads and payloads never overlap, and no worker outlives the
\* SsherWrapper call that started it.
PhasesDoNotOverlap ==
    \A j \in Jobs : \A t \in Tasks : task[j][t] \in Live => phase[j] = t[1]

\* A payload starts only when every requested transfer succeeded and nothing
\* before it failed: "Never continue into commands/scripts with missing or
\* partial transfer state" (ssh.go:293-294).
PayloadsAfterTransfers ==
    \A j \in Jobs : (\E t \in Requested("payload") : task[j][t] # "new") =>
        /\ \A k \in Transfers : AllOk(j, k)
        /\ phase[j] = "payload" => ~failed[j]

\* With --sudo, no payload of a non-root login starts unless sudo was proved
\* to work on that very connection.
NeverUnprivileged ==
    \A j \in Jobs : \A t \in Requested("payload") :
        task[j][t] # "new" /\ SudoNeeded(j) => sudo[j] = "available"

\* A job counted as successful did all of the work it was asked to do, however
\* many of its operations were refused, skipped, timed out or cut off.
SuccessIsComplete ==
    \A j \in Jobs : phase[j] = "done" /\ ~WorkError(j) =>
        \A t \in AllRequested : task[j][t] = "ok"

\* One job at a time installs rsync for a key, and an attempt that is marked
\* running has its installer: nobody waits on an attempt nobody makes.
InstallerExists ==
    \A k \in InstallKeys :
        Cardinality({j \in Jobs : phase[j] = "installing" /\ InstallKey[j] = k})
            = IF install[k] = "running" THEN 1 ELSE 0

\* The outcome of an installation is memoized: it is attempted once per key.
InstallIsMemoized ==
    [][\A k \in InstallKeys : install[k] \in {"ok", "failed"} =>
                                  install'[k] = install[k]]_vars

\* Every authenticated job finishes, and so gives back what it holds: no
\* deadlock between the per-host semaphore, the pool and the installation.
EveryJobFinishes == \A j \in Jobs : phase[j] = "prepare" ~> phase[j] = "done"

=============================================================================
