------------------------------- MODULE Fleet -------------------------------
(***************************************************************************)
(* One run of the program (cmd/main.go): a worker goroutine per host job,  *)
(* bounded by hostLimiter and joined by a WaitGroup, the shared list of    *)
(* results, the credentials that --CO collects, and the exit status.       *)
(* What a worker does on its host is HostJob, which HostWork implements.   *)
(***************************************************************************)
EXTENDS HostJob, ConfigStore, FiniteSets, Sequences

CONSTANTS MaxHosts,       \* capacity of hostLimiter
          StoreModes      \* whether --CO was given: a set of booleans

ASSUME MaxHostsAssumption == MaxHosts \in Nat \ {0}
ASSUME StoreModesAssumption == StoreModes \subseteq BOOLEAN
\* Without an address useManualDeploy starts nothing.
ASSUME JobsAssumption == IsFiniteSet(Jobs) /\ Jobs # {} /\ Jobs \subseteq Addresses

VARIABLES main,       \* where run() is
          worker,     \* each job's goroutine
          tokens,     \* tokens in hostLimiter
          wg,         \* the WaitGroup's counter
          results,    \* hostResults
          storing,    \* --CO was given
          exit        \* the exit status, or "none"

fleetVars == <<main, worker, tokens, wg, results, storing, exit>>
vars == <<jobVars, storeVars, fleetVars>>

FleetTypeOK ==
    /\ JobTypeOK /\ StoreTypeOK
    /\ main \in {"load", "spawn", "save", "summary", "exit"}
    /\ worker \in [Jobs -> {"none", "running", "recorded", "returned", "gone"}]
    /\ tokens \in 0 .. MaxHosts
    /\ wg \in Nat
    /\ results \in Seq([job : Jobs, auth : BOOLEAN, success : BOOLEAN])
    /\ storing \in StoreModes
    /\ exit \in {"none", "ok", "error"}

FleetInit ==
    /\ JobInit /\ StoreInit
    /\ main = "load"
    /\ worker = [j \in Jobs |-> "none"]
    /\ tokens = 0
    /\ wg = 0
    /\ results = <<>>
    /\ storing \in StoreModes
    /\ exit = "none"

-----------------------------------------------------------------------------
(* The main goroutine.                                                     *)

\* With --CO the configuration is read first, to be merged with: a file that
\* cannot be read ends the run, and so does an error of the password prompt, of
\* the environment file or of the payloads, before any host is contacted.
Load == /\ main = "load"
        /\ \/ /\ IF storing THEN ReadConfig ELSE UNCHANGED storeVars
              /\ main' = "spawn" /\ UNCHANGED exit
           \/ main' = "exit" /\ exit' = "error" /\ UNCHANGED storeVars
        /\ UNCHANGED <<jobVars, worker, tokens, wg, results, storing>>

\* Mistake: nothing waits for a token.
Spawn_NoToken(j) == /\ main = "spawn"
                    /\ worker[j] = "none"
                    /\ worker' = [worker EXCEPT ![j] = "running"]
                    /\ wg' = wg + 1
                    /\ UNCHANGED <<jobVars, main, tokens, results, storing, exit, storeVars>>

\* wg.Add(1), then sem.acquire() blocks until a token is free.
Spawn(j) == /\ main = "spawn"
            /\ worker[j] = "none"
            /\ tokens < MaxHosts
            /\ worker' = [worker EXCEPT ![j] = "running"]
            /\ wg' = wg + 1
            /\ tokens' = tokens + 1
            /\ UNCHANGED <<jobVars, main, results, storing, exit, storeVars>>

Wait == /\ main = "spawn"
        /\ \A j \in Jobs : worker[j] # "none"
        /\ wg = 0
        /\ main' = "save"
        /\ step' = IF storing THEN "create" ELSE "done"
        /\ UNCHANGED <<jobVars, start, rival, config, lasting, memory, temp, synced, saveErr,
                       worker, tokens, wg, results, storing, exit>>

Save == /\ main = "save" /\ SaveStep
        /\ UNCHANGED <<jobVars, fleetVars>>

\* A failed save does not stop the summary but decides the exit status.
Saved == /\ main = "save" /\ step = "done"
         /\ main' = "summary"
         /\ UNCHANGED <<jobVars, storeVars, worker, tokens, wg, results, storing, exit>>

HostsFailed == Cardinality({n \in DOMAIN results : ~results[n].success})

\* Mistake: only authenticated hosts count as failed.
Summarize_AuthOnly ==
    /\ main = "summary"
    /\ main' = "exit"
    /\ exit' = IF saveErr \/ \E n \in DOMAIN results :
                                        results[n].auth /\ ~results[n].success
               THEN "error" ELSE "ok"
    /\ UNCHANGED <<jobVars, worker, tokens, wg, results, storing, storeVars>>

Summarize == /\ main = "summary"
             /\ main' = "exit"
             /\ exit' = IF saveErr \/ HostsFailed > 0 THEN "error" ELSE "ok"
             /\ UNCHANGED <<jobVars, worker, tokens, wg, results, storing, storeVars>>

-----------------------------------------------------------------------------
(* A worker: RunnerBf or RunnerCred, inside the goroutine of useManualDeploy *)
(* or useConfigDeploy.                                                     *)

\* A login was accepted: handleSSHConnection stores the credentials, then
\* hands the connection to SsherWrapper.
Accept(j) == /\ worker[j] = "running"
             /\ Start(j)
             /\ IF storing THEN UpdateEntry(j) ELSE UNCHANGED storeVars
             /\ UNCHANGED fleetVars

WorkOnHost(j) == /\ worker[j] = "running"
                 /\ Conclude(j) \/ \E e \in Entry : Decide(j, e)
                 /\ UNCHANGED <<fleetVars, storeVars>>

\* RecordHostResult, under resultMu.
Record(j, accepted) ==
    /\ results' = Append(results,
           [job |-> j, auth |-> accepted, success |-> accepted /\ status[j] = "succeeded"])
    /\ worker' = [worker EXCEPT ![j] = "recorded"]

\* Mistake: a host that accepts no login is reported but not recorded.
Refuse_Silent(j) == /\ worker[j] = "running" /\ status[j] = "idle"
                    /\ worker' = [worker EXCEPT ![j] = "recorded"]
                    /\ UNCHANGED <<jobVars, main, tokens, wg, results, storing, exit, storeVars>>

\* No login was accepted, or the host could not be reached.
Refuse(j) == /\ worker[j] = "running" /\ status[j] = "idle"
             /\ Record(j, FALSE)
             /\ UNCHANGED <<jobVars, main, tokens, wg, storing, exit, storeVars>>

Report(j) == /\ worker[j] = "running" /\ status[j] \in {"succeeded", "failed"}
             /\ Record(j, TRUE)
             /\ UNCHANGED <<jobVars, main, tokens, wg, storing, exit, storeVars>>

\* The deferred w.Done() runs when the runner returns, after the record.
Done(j) == /\ worker[j] = "recorded"
           /\ worker' = [worker EXCEPT ![j] = "returned"]
           /\ wg' = wg - 1
           /\ UNCHANGED <<jobVars, main, tokens, results, storing, exit, storeVars>>

\* The deferred sem.release() of the goroutine around the runner.
Release(j) == /\ worker[j] = "returned"
              /\ worker' = [worker EXCEPT ![j] = "gone"]
              /\ tokens' = tokens - 1
              /\ UNCHANGED <<jobVars, main, wg, results, storing, exit, storeVars>>

-----------------------------------------------------------------------------
Main == Load \/ (\E j \in Jobs : Spawn(j)) \/ Wait \/ Save \/ Saved \/ Summarize
Worker(j) == \/ Accept(j) \/ WorkOnHost(j) \/ Refuse(j) \/ Report(j)
             \/ Done(j) \/ Release(j)

\* The process has exited: os.Exit does not wait for a worker's last release.
Exited == main = "exit" /\ UNCHANGED vars

\* A second coordinate process in the same directory. Between Load and Save this
\* run does not look at the file, so a save that comes then is one as Save begins.
Rival == main = "save" /\ storing /\ OtherSaves /\ UNCHANGED <<jobVars, fleetVars>>

FleetNext == \/ main # "exit" /\ (Main \/ \E j \in Jobs : Worker(j))
             \/ Rival
             \/ Exited

FleetSpec == FleetInit /\ [][FleetNext]_vars

-----------------------------------------------------------------------------
(* Properties.                                                             *)

\* No more than --max-hosts hosts are being worked on, and a token is never
\* lost or returned twice: it covers the goroutine until the very end.
Active == {j \in Jobs : worker[j] \in {"running", "recorded", "returned"}}
HostsBounded == tokens = Cardinality(Active) /\ tokens <= MaxHosts

\* "Status 0 means every requested host operation succeeded" (README.md:115) and
\* the credentials asked for were saved; and status 1 has a cause, a host that did
\* not succeed or a configuration that was not saved.
ExitCodeIsHonest ==
    /\ main = "exit" /\ exit = "ok" =>
         /\ \A j \in Jobs : status[j] = "succeeded" /\ Unmet(j) = {}
         /\ storing => step = "done" /\ ~saveErr
    /\ main = "exit" /\ exit = "error" =>
         \/ storing /\ saveErr
         \/ \E j \in Jobs : status[j] # "succeeded"

\* When the summary is made, every host job is in it exactly once.
EveryJobIsCounted ==
    /\ \A m, n \in DOMAIN results : results[m].job = results[n].job => m = n
    /\ main \in {"save", "summary"} => {results[n].job : n \in DOMAIN results} = Jobs

\* "successful hosts are merged into it rather than replacing unrelated
\* credentials" (main.go:56-57), and the file "survives a crash after SaveConfig has
\* reported success" (atomic_replace_unix.go:14-15): once saved without an error, it
\* has every host that accepted a login, no other, and what it held about the rest,
\* and a crash leaves it so where a directory can be synced. Another process that
\* saves during the run is not merged with.
Merged == Whole([a \in Addresses |-> IF a \in Jobs /\ status[a] # "idle"
                                      THEN "accepted" ELSE start.entries[a]])
StoreIsComplete ==
    storing /\ step = "done" /\ ~saveErr /\ rival = start =>
        config = Merged /\ (synced => lasting = {config})
=============================================================================
