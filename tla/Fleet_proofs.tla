---------------------------- MODULE Fleet_proofs ----------------------------
(***************************************************************************)
(* For any number of hosts, any --max-hosts, any credential file and any   *)
(* work on the hosts: every host is counted once, the exit status says     *)
(* what happened, no accepted credential is lost, and the file is never    *)
(* anything but one that was whole.                                        *)
(***************************************************************************)
EXTENDS Fleet, FiniteSetTheorems, TLAPS

\* The tokens and the WaitGroup count workers.
Waiting == {j \in Jobs : worker[j] \in {"running", "recorded"}}
CountInv == tokens = Cardinality(Active) /\ wg = Cardinality(Waiting)

\* The results are those of the workers that have recorded one, and a worker that has
\* changes nothing any more.
Recorded == {j \in Jobs : worker[j] \in {"recorded", "returned", "gone"}}
ResultInv ==
    /\ \A m, n \in DOMAIN results : results[m].job = results[n].job => m = n
    /\ {results[n].job : n \in DOMAIN results} = Recorded
    /\ \A n \in DOMAIN results : /\ results[n].success => status[results[n].job] = "succeeded"
                                 /\ ~results[n].success => status[results[n].job] # "succeeded"
    /\ \A j \in Jobs : /\ status[j] = "succeeded" => Unmet(j) = {}
                       /\ worker[j] = "none" => status[j] = "idle"
    /\ main = "load" => \A j \in Jobs : worker[j] = "none"
    /\ main \in {"save", "summary"} => \A j \in Jobs : worker[j] \in {"returned", "gone"}

\* Without --CO nothing is saved, and the exit status is set at the end.
ExitInv ==
    /\ ~storing => step \in {"idle", "done"} /\ ~saveErr
    /\ main \in {"load", "spawn"} => step = "idle" /\ ~saveErr
    /\ main = "summary" => step = "done"
    /\ main # "exit" => exit = "none"
    /\ ExitCodeIsHonest

\* What the memory holds once the file has been read, and the file once it is replaced.
MergedEntries == [a \in Addresses |-> IF a \in Jobs /\ status[a] # "idle"
                                      THEN "accepted" ELSE start.entries[a]]
Replaced == step = "syncdir" \/ (step \in {"remove", "done"} /\ ~saveErr /\ storing)
StoreFacts ==
    /\ start \in Starts
    /\ main \in {"load", "spawn"} =>
         /\ config = start /\ lasting = {start} /\ rival = start
         /\ ~synced
    /\ storing /\ (main \in {"spawn", "save", "summary"} \/ step = "done") =>
         memory = MergedEntries
    /\ Replaced /\ rival = start => config = Whole(memory) /\ (synced => lasting = {config})
    /\ step \in {"create", "chmod", "write", "sync", "close", "rename", "syncdir"} => ~synced
    /\ step \in {"close", "rename"} => temp = "durable"
    /\ FileIsOldOrNew

-----------------------------------------------------------------------------
\* The workers are finitely many.
LEMMA Finite ==
    /\ IsFiniteSet(Active) /\ Cardinality(Active) \in Nat
    /\ IsFiniteSet(Waiting) /\ Cardinality(Waiting) \in Nat
  BY JobsAssumption, FS_Subset, FS_CardinalityType DEF Active, Waiting

\* What a worker's step does to the two counters.
LEMMA Counting ==
    ASSUME worker \in [Jobs -> {"none", "running", "recorded", "returned", "gone"}],
           NEW j \in Jobs, NEW w, worker' = [worker EXCEPT ![j] = w]
    PROVE  /\ Cardinality(Active') =
                IF w \in {"running", "recorded", "returned"}
                THEN IF j \in Active THEN Cardinality(Active) ELSE Cardinality(Active) + 1
                ELSE IF j \in Active THEN Cardinality(Active) - 1 ELSE Cardinality(Active)
           /\ Cardinality(Waiting') =
                IF w \in {"running", "recorded"}
                THEN IF j \in Waiting THEN Cardinality(Waiting) ELSE Cardinality(Waiting) + 1
                ELSE IF j \in Waiting THEN Cardinality(Waiting) - 1 ELSE Cardinality(Waiting)
<1>1. Active' = IF w \in {"running", "recorded", "returned"} THEN Active \union {j}
                                                              ELSE Active \ {j}
  BY DEF Active
<1>2. Waiting' = IF w \in {"running", "recorded"} THEN Waiting \union {j} ELSE Waiting \ {j}
  BY DEF Waiting
<1> QED  BY <1>1, <1>2, Finite, FS_AddElement, FS_RemoveElement

-----------------------------------------------------------------------------
\* Types and counters in an initial state.
LEMMA InitCount == FleetInit => FleetTypeOK /\ CountInv
<1> SUFFICES ASSUME FleetInit PROVE FleetTypeOK /\ CountInv
    OBVIOUS
<1>1. JobTypeOK
  BY DEF FleetInit, JobInit, JobTypeOK
<1>2. NoEntries \in Entries /\ start \in Files
  BY StoreAssumption DEF FleetInit, StoreInit, NoEntries, Entries
<1>3. StoreTypeOK
  BY <1>2 DEF FleetInit, StoreInit, StoreTypeOK
<1>4. Active = {} /\ Waiting = {}
  BY DEF FleetInit, Active, Waiting
<1>5. CountInv
  BY <1>4, FS_EmptySet DEF FleetInit, CountInv
<1>6. FleetTypeOK
  BY <1>1, <1>3, MaxHostsAssumption DEF FleetInit, FleetTypeOK
<1> QED  BY <1>5, <1>6

\* A step of SaveConfig keeps the types of the store.
LEMMA SaveTypes ==
    ASSUME StoreTypeOK, SaveStep
    PROVE  StoreTypeOK'
<1> USE DEF StoreTypeOK, kept, Proceed, GiveUp
<1>0. Whole(memory) \in Files /\ Malformed \in Files
  BY DEF Whole, Files, Malformed, NoEntries, Entries
<1>1. CASE CreateTemp
  BY <1>1 DEF CreateTemp
<1>2. CASE FillTemp
  BY <1>2 DEF FillTemp
<1>3. CASE Rename
  BY <1>0, <1>3 DEF Rename
<1>4. CASE SyncDir
  BY <1>4 DEF SyncDir
<1>5. CASE RemoveTemp
  BY <1>5 DEF RemoveTemp
<1> QED  BY <1>1, <1>2, <1>3, <1>4, <1>5 DEF SaveStep

\* Each step keeps the types and moves the counters with the workers.
LEMMA StepCount == FleetTypeOK /\ CountInv /\ [FleetNext]_vars => FleetTypeOK' /\ CountInv'
<1> SUFFICES ASSUME FleetTypeOK, CountInv, [FleetNext]_vars PROVE FleetTypeOK' /\ CountInv'
    OBVIOUS
<1> USE DEF FleetTypeOK, jobVars, storeVars, fleetVars
<1>a. ASSUME UNCHANGED <<worker, tokens, wg>> PROVE CountInv'
  BY <1>a DEF CountInv, Active, Waiting
<1>b. JobTypeOK /\ StoreTypeOK
  OBVIOUS
<1>c. ASSUME UNCHANGED jobVars PROVE JobTypeOK'
  BY <1>c DEF JobTypeOK
<1>d. ASSUME UNCHANGED storeVars PROVE StoreTypeOK'
  BY <1>d DEF StoreTypeOK
<1>1. CASE Load
  <2>1. ReadConfig => StoreTypeOK'
    BY DEF ReadConfig, StoreTypeOK, Files
  <2>2. StoreTypeOK'
    BY <1>1, <1>d, <2>1 DEF Load
  <2> QED  BY <1>1, <1>a, <1>c, <2>2 DEF Load
<1>2. ASSUME NEW j \in Jobs, Spawn(j) PROVE FleetTypeOK' /\ CountInv'
  <2>1. /\ worker[j] = "none" /\ worker' = [worker EXCEPT ![j] = "running"]
        /\ wg' = wg + 1 /\ tokens' = tokens + 1 /\ tokens < MaxHosts
        /\ UNCHANGED <<jobVars, main, results, storing, exit, storeVars>>
    BY <1>2 DEF Spawn
  <2>2. j \notin Active /\ j \notin Waiting
    BY <2>1 DEF Active, Waiting
  <2>3. CountInv'
    BY <2>1, <2>2, Counting DEF CountInv
  <2>4. tokens' \in 0 .. MaxHosts /\ wg' \in Nat
    BY <2>1, MaxHostsAssumption
  <2>5. worker' \in [Jobs -> {"none", "running", "recorded", "returned", "gone"}]
    BY <2>1
  <2> QED  BY <1>c, <1>d, <2>1, <2>3, <2>4, <2>5
<1>3. CASE Wait
  <2>1. StoreTypeOK'
    BY <1>3 DEF Wait, StoreTypeOK
  <2> QED  BY <1>3, <1>a, <1>c, <2>1 DEF Wait
<1>4. CASE Save
  BY <1>4, <1>a, <1>c, SaveTypes DEF Save
<1>5. CASE Saved
  BY <1>5, <1>a, <1>c, <1>d DEF Saved
<1>6. CASE Summarize
  BY <1>6, <1>a, <1>c, <1>d DEF Summarize
<1>7. ASSUME NEW j \in Jobs, Accept(j) PROVE FleetTypeOK' /\ CountInv'
  <2>1. JobTypeOK'
    BY <1>7 DEF Accept, Start, JobTypeOK
  <2>2. UpdateEntry(j) => StoreTypeOK'
    BY DEF UpdateEntry, StoreTypeOK, Entries
  <2>3. StoreTypeOK'
    BY <1>7, <1>d, <2>2 DEF Accept
  <2> QED  BY <1>7, <1>a, <2>1, <2>3 DEF Accept
<1>8. ASSUME NEW j \in Jobs, WorkOnHost(j) PROVE FleetTypeOK' /\ CountInv'
  <2>1. Conclude(j) => JobTypeOK'
    BY DEF Conclude, JobTypeOK
  <2>2. ASSUME NEW e \in Entry, Decide(j, e) PROVE JobTypeOK'
    <3>1. PICK v \in {"ok", "bad"} : verdict' = [verdict EXCEPT ![j][e] = v]
      BY <2>2 DEF Decide
    <3>2. verdict' \in [Jobs -> [Entry -> {"pending", "ok", "bad"}]]
      BY <3>1 DEF JobTypeOK
    <3> QED  BY <2>2, <3>2 DEF Decide, JobTypeOK
  <2> QED  BY <1>8, <1>a, <1>d, <2>1, <2>2 DEF WorkOnHost
<1>9. ASSUME NEW j \in Jobs, NEW accepted \in BOOLEAN, Record(j, accepted), worker[j] = "running",
             UNCHANGED <<jobVars, main, tokens, wg, storing, exit, storeVars>>
      PROVE  FleetTypeOK' /\ CountInv'
  <2>1. worker' = [worker EXCEPT ![j] = "recorded"]
    BY <1>9 DEF Record
  <2>2. j \in Active /\ j \in Waiting
    BY <1>9 DEF Active, Waiting
  <2>a. Cardinality(Active') = Cardinality(Active) /\ Cardinality(Waiting') = Cardinality(Waiting)
    BY <2>1, <2>2, Counting
  <2>b. tokens' = tokens /\ wg' = wg
    BY <1>9
  <2>c. tokens = Cardinality(Active) /\ wg = Cardinality(Waiting)
    BY DEF CountInv
  <2>d. tokens' = Cardinality(Active') /\ wg' = Cardinality(Waiting')
    BY <2>a, <2>b, <2>c
  <2>3. CountInv'
    BY <2>d DEF CountInv
  <2>4. results' \in Seq([job : Jobs, auth : BOOLEAN, success : BOOLEAN])
    BY <1>9 DEF Record
  <2> QED  BY <1>9, <1>c, <1>d, <2>1, <2>3, <2>4
<1>10. ASSUME NEW j \in Jobs, Done(j) PROVE FleetTypeOK' /\ CountInv'
  <2>1. /\ worker[j] = "recorded" /\ worker' = [worker EXCEPT ![j] = "returned"]
        /\ wg' = wg - 1
        /\ UNCHANGED <<jobVars, main, tokens, results, storing, exit, storeVars>>
    BY <1>10 DEF Done
  <2>2. j \in Active /\ j \in Waiting
    BY <2>1 DEF Active, Waiting
  <2>3. CountInv'
    BY <2>1, <2>2, Counting DEF CountInv
  <2>4. wg' \in Nat
    BY <2>3, Finite, <2>1, <2>2, FS_EmptySet DEF CountInv
  <2> QED  BY <1>c, <1>d, <2>1, <2>3, <2>4
<1>11. ASSUME NEW j \in Jobs, Release(j) PROVE FleetTypeOK' /\ CountInv'
  <2>1. /\ worker[j] = "returned" /\ worker' = [worker EXCEPT ![j] = "gone"]
        /\ tokens' = tokens - 1
        /\ UNCHANGED <<jobVars, main, wg, results, storing, exit, storeVars>>
    BY <1>11 DEF Release
  <2>2. j \in Active /\ j \notin Waiting
    BY <2>1 DEF Active, Waiting
  <2>w. /\ worker \in [Jobs -> {"none", "running", "recorded", "returned", "gone"}]
         /\ worker' = [worker EXCEPT ![j] = "gone"]
    BY <2>1
  <2>g. /\ "gone" \notin {"running", "recorded", "returned"}
         /\ "gone" \notin {"running", "recorded"}
    OBVIOUS
  <2>a. /\ Cardinality(Active') = Cardinality(Active) - 1
        /\ Cardinality(Waiting') = Cardinality(Waiting)
    BY <2>2, <2>w, <2>g, Counting
  <2>b. tokens = Cardinality(Active) /\ wg = Cardinality(Waiting)
    BY DEF CountInv
  <2>c. tokens' = Cardinality(Active') /\ wg' = Cardinality(Waiting')
    BY <2>1, <2>a, <2>b
  <2>3. CountInv'
    BY <2>c DEF CountInv
  <2>4. tokens' \in 0 .. MaxHosts
    BY <2>1, <2>2, Finite, FS_EmptySet, MaxHostsAssumption DEF CountInv
  <2> QED  BY <1>c, <1>d, <2>1, <2>3, <2>4
<1>12. CASE Rival
  <2>1. Rival => StoreTypeOK'
    <3> SUFFICES ASSUME OtherSaves, StoreTypeOK PROVE StoreTypeOK'
        BY DEF Rival
    <3>1. PICK a \in Contested : /\ rival' = Whole([start.entries EXCEPT ![a] = "rival"])
                                 /\ config' = rival' /\ lasting' = {rival'}
      BY DEF OtherSaves
    <3>2. rival' \in Files
      BY <3>1 DEF StoreTypeOK, Files, Whole, Entries
    <3> QED  BY <3>1, <3>2 DEF OtherSaves, StoreTypeOK
  <2> QED  BY <1>12, <1>a, <1>c, <2>1 DEF Rival
<1>13. CASE UNCHANGED vars
  BY <1>13, <1>a, <1>c, <1>d DEF vars
<1>14. ASSUME NEW j \in Jobs, Refuse(j) \/ Report(j) PROVE FleetTypeOK' /\ CountInv'
  BY <1>9, <1>14 DEF Refuse, Report
<1> QED
  BY <1>1, <1>2, <1>3, <1>4, <1>5, <1>6, <1>7, <1>8, <1>10, <1>11, <1>12, <1>13, <1>14
     DEF FleetNext, Main, Worker, Exited

-----------------------------------------------------------------------------
\* There is nothing to count in an initial state.
LEMMA InitResult == FleetInit => ResultInv
  BY DEF FleetInit, JobInit, ResultInv, Recorded

\* The work on one host that still runs changes no result that is recorded.
LEMMA WorkKeepsResults ==
    ASSUME FleetTypeOK, ResultInv, NEW j \in Jobs, worker[j] = "running",
           \A k \in Jobs \ {j} : status'[k] = status[k] /\ verdict'[k] = verdict[k],
           status'[j] = "succeeded" => {e \in asked : verdict'[j][e] # "ok"} = {},
           UNCHANGED <<asked, main, worker, results>>
    PROVE  ResultInv'
<1> USE DEF ResultInv, Recorded, Unmet
<1>1. \A n \in DOMAIN results : results[n].job \in Jobs \ {j}
  BY DEF FleetTypeOK
<1>2. \A n \in DOMAIN results : status'[results[n].job] = status[results[n].job]
  BY <1>1
<1>3. \A k \in Jobs : /\ status'[k] = "succeeded" => Unmet(k)' = {}
                      /\ worker'[k] = "none" => status'[k] = "idle"
  OBVIOUS
<1> QED  BY <1>2, <1>3

\* Each step counts a host at most once, and when the summary is made all of them.
LEMMA StepResult ==
    ASSUME FleetTypeOK, CountInv, ResultInv, [FleetNext]_vars
    PROVE  ResultInv'
<1> USE DEF jobVars, storeVars, fleetVars
<1>t. /\ worker \in [Jobs -> {"none", "running", "recorded", "returned", "gone"}]
      /\ status \in [Jobs -> {"idle", "working", "succeeded", "failed"}]
      /\ verdict \in [Jobs -> [Entry -> {"pending", "ok", "bad"}]]
      /\ results \in Seq([job : Jobs, auth : BOOLEAN, success : BOOLEAN])
  BY DEF FleetTypeOK, JobTypeOK
<1>a. ASSUME UNCHANGED <<jobVars, main, worker, results>> PROVE ResultInv'
  BY <1>a DEF ResultInv, Recorded, Unmet
<1>1. CASE Load
  <2>1. /\ main = "load" /\ main' \in {"spawn", "exit"}
        /\ UNCHANGED <<jobVars, worker, results>>
    BY <1>1 DEF Load
  <2> QED  BY <2>1 DEF ResultInv, Recorded, Unmet
<1>2. ASSUME NEW j \in Jobs, Spawn(j) PROVE ResultInv'
  <2>1. /\ worker[j] = "none" /\ worker' = [worker EXCEPT ![j] = "running"] /\ main = "spawn"
        /\ UNCHANGED <<jobVars, main, results>>
    BY <1>2 DEF Spawn
  <2>2. Recorded' = Recorded
    BY <1>t, <2>1 DEF Recorded
  <2>3. \A k \in Jobs : worker'[k] = "none" => worker[k] = "none"
    BY <1>t, <2>1
  <2> QED  BY <2>1, <2>2, <2>3 DEF ResultInv, Unmet
<1>3. CASE Wait
  <2>1. /\ wg = 0 /\ main' = "save" /\ \A k \in Jobs : worker[k] # "none"
        /\ UNCHANGED <<jobVars, worker, results>>
    BY <1>3 DEF Wait
  <2>2. Waiting = {}
    BY <2>1, Finite, FS_EmptySet DEF CountInv
  <2>3. \A k \in Jobs : worker[k] \in {"returned", "gone"}
    BY <1>t, <2>1, <2>2 DEF Waiting
  <2> QED  BY <2>1, <2>3 DEF ResultInv, Recorded, Unmet
<1>4. CASE Save \/ Rival
  BY <1>4, <1>a DEF Save, Rival
<1>5. CASE Saved
  <2>1. main = "save" /\ main' = "summary" /\ UNCHANGED <<jobVars, worker, results>>
    BY <1>5 DEF Saved
  <2> QED  BY <2>1 DEF ResultInv, Recorded, Unmet
<1>6. CASE Summarize
  <2>1. main' = "exit" /\ UNCHANGED <<jobVars, worker, results>>
    BY <1>6 DEF Summarize
  <2> QED  BY <2>1 DEF ResultInv, Recorded, Unmet
<1>7. ASSUME NEW j \in Jobs, Accept(j) PROVE ResultInv'
  <2>1. /\ worker[j] = "running" /\ status' = [status EXCEPT ![j] = "working"]
        /\ UNCHANGED <<asked, verdict, main, worker, results>>
    BY <1>7 DEF Accept, Start
  <2> QED  BY <1>t, <2>1, WorkKeepsResults
<1>8. ASSUME NEW j \in Jobs, WorkOnHost(j) PROVE ResultInv'
  <2>0. worker[j] = "running" /\ UNCHANGED <<main, worker, results>>
    BY <1>8 DEF WorkOnHost
  <2>1. CASE Conclude(j)
    <3>1. /\ UNCHANGED <<asked, verdict>>
          /\ \/ Unmet(j) = {} /\ status' = [status EXCEPT ![j] = "succeeded"]
             \/ status' = [status EXCEPT ![j] = "failed"]
      BY <2>1 DEF Conclude
    <3> QED  BY <1>t, <2>0, <3>1, WorkKeepsResults DEF Unmet
  <2>2. ASSUME NEW e \in Entry, Decide(j, e) PROVE ResultInv'
    <3>1. PICK v \in {"ok", "bad"} : verdict' = [verdict EXCEPT ![j][e] = v]
      BY <2>2 DEF Decide
    <3>2. status[j] = "working" /\ UNCHANGED <<asked, status>>
      BY <2>2 DEF Decide
    <3> QED  BY <1>t, <2>0, <3>1, <3>2, WorkKeepsResults
  <2> QED  BY <1>8, <2>1, <2>2 DEF WorkOnHost
<1>9. ASSUME NEW j \in Jobs, Refuse(j) \/ Report(j) PROVE ResultInv'
  <2>1. PICK r \in [job : Jobs, auth : BOOLEAN, success : BOOLEAN] :
          /\ results' = Append(results, r) /\ r.job = j
          /\ r.success => status[j] = "succeeded"
          /\ ~r.success => status[j] # "succeeded"
    <3>1. CASE Refuse(j)
      <4> DEFINE r == [job |-> j, auth |-> FALSE, success |-> FALSE /\ status[j] = "succeeded"]
      <4>1. results' = Append(results, r) /\ status[j] # "succeeded"
        BY <3>1 DEF Refuse, Record
      <4>2. r \in [job : Jobs, auth : BOOLEAN, success : BOOLEAN] /\ r.job = j /\ ~r.success
        OBVIOUS
      <4> QED  BY <4>1, <4>2
    <3>2. CASE Report(j)
      <4> DEFINE r == [job |-> j, auth |-> TRUE, success |-> TRUE /\ status[j] = "succeeded"]
      <4>1. results' = Append(results, r)
        BY <3>2 DEF Report, Record
      <4>2. /\ r \in [job : Jobs, auth : BOOLEAN, success : BOOLEAN] /\ r.job = j
            /\ r.success => status[j] = "succeeded"
            /\ ~r.success => status[j] # "succeeded"
        OBVIOUS
      <4> QED  BY <4>1, <4>2
    <3> QED  BY <1>9, <3>1, <3>2
  <2>2. /\ worker[j] = "running" /\ worker' = [worker EXCEPT ![j] = "recorded"]
        /\ UNCHANGED <<jobVars, main>>
    BY <1>9 DEF Refuse, Report, Record
  <2>3. /\ DOMAIN results' = DOMAIN results \union {Len(results) + 1}
        /\ Len(results) + 1 \notin DOMAIN results
        /\ results'[Len(results) + 1] = r
        /\ \A n \in DOMAIN results : results'[n] = results[n]
    BY <1>t, <2>1
  <2>4. j \notin Recorded /\ Recorded' = Recorded \union {j}
    BY <1>t, <2>2 DEF Recorded
  <2>5. \A n \in DOMAIN results : results[n].job \in Recorded
    BY DEF ResultInv
  <2>6. \A m, n \in DOMAIN results' : results'[m].job = results'[n].job => m = n
    BY <2>1, <2>3, <2>4, <2>5 DEF ResultInv
  <2>7. {results'[n].job : n \in DOMAIN results'} = Recorded'
    BY <2>1, <2>3, <2>4 DEF ResultInv
  <2>8. \A n \in DOMAIN results' : /\ results'[n].success => status[results'[n].job] = "succeeded"
                                   /\ ~results'[n].success => status[results'[n].job] # "succeeded"
    BY <2>1, <2>3 DEF ResultInv
  <2>9. /\ \A k \in Jobs : worker'[k] = "none" => worker[k] = "none"
        /\ main \notin {"load", "save", "summary"}
    BY <1>t, <2>2 DEF ResultInv
  <2> QED  BY <2>2, <2>6, <2>7, <2>8, <2>9 DEF ResultInv, Unmet
<1>10. ASSUME NEW j \in Jobs, Done(j) \/ Release(j) PROVE ResultInv'
  <2>1. /\ worker[j] \in {"recorded", "returned"}
        /\ \E w \in {"returned", "gone"} : worker' = [worker EXCEPT ![j] = w]
        /\ UNCHANGED <<jobVars, main, results>>
    BY <1>10 DEF Done, Release
  <2>2. Recorded' = Recorded
    BY <1>t, <2>1 DEF Recorded
  <2>3. \A k \in Jobs : /\ worker'[k] = "none" => worker[k] = "none"
                        /\ worker[k] \in {"returned", "gone"} => worker'[k] \in {"returned", "gone"}
    BY <1>t, <2>1
  <2>4. main # "load"
    BY <2>1 DEF ResultInv
  <2> QED  BY <2>1, <2>2, <2>3, <2>4 DEF ResultInv, Unmet
<1>11. CASE UNCHANGED vars
  BY <1>11, <1>a DEF vars
<1> QED
  BY <1>1, <1>2, <1>3, <1>4, <1>5, <1>6, <1>7, <1>8, <1>9, <1>10, <1>11
     DEF FleetNext, Main, Worker, Exited
-----------------------------------------------------------------------------
\* The exit status is not set yet in an initial state.
LEMMA InitExit == FleetInit => ExitInv
  BY DEF FleetInit, StoreInit, ExitInv, ExitCodeIsHonest

\* No result is a failed one when the number of the failed ones is not positive.
LEMMA NoneFailed ==
    ASSUME FleetTypeOK, ~(HostsFailed > 0)
    PROVE  \A n \in DOMAIN results : results[n].success
<1> DEFINE F == {n \in DOMAIN results : ~results[n].success}
<1>1. DOMAIN results = 1 .. Len(results) /\ Len(results) \in Nat
  BY DEF FleetTypeOK
<1>2. IsFiniteSet(1 .. Len(results))
  BY <1>1, FS_Interval
<1>3. F \subseteq 1 .. Len(results)
  BY <1>1
<1>4. IsFiniteSet(F)
  BY <1>2, <1>3, FS_Subset
<1>5. Cardinality(F) \in Nat
  BY <1>4, FS_CardinalityType
<1>6. Cardinality(F) = 0
  BY <1>5 DEF HostsFailed
<1>7. F = {}
  BY <1>4, <1>6, FS_EmptySet
<1> QED  BY <1>7

\* Each step leaves an exit status that says what happened.
LEMMA StepExit ==
    ASSUME FleetTypeOK, ResultInv, ExitInv, [FleetNext]_vars
    PROVE  ExitInv'
<1> USE DEF jobVars, storeVars, fleetVars, ExitInv
<1>a. ASSUME UNCHANGED <<main, storing, exit, step, saveErr>>, main # "exit" PROVE ExitInv'
  BY <1>a DEF ExitCodeIsHonest
<1>1. CASE Load
  <2>1. /\ main = "load" /\ UNCHANGED <<status, storing, step, saveErr>>
        /\ \/ main' = "spawn" /\ exit' = exit
           \/ main' = "exit" /\ exit' = "error"
    BY <1>1 DEF Load, ReadConfig
  <2>2. \E j \in Jobs : status[j] # "succeeded"
    BY <2>1, JobsAssumption DEF ResultInv
  <2> QED  BY <2>1, <2>2 DEF ExitCodeIsHonest
<1>2. CASE Wait
  BY <1>2 DEF Wait, ExitCodeIsHonest
<1>3. CASE Save
  <2>1. main = "save" /\ UNCHANGED <<main, storing, exit>> /\ SaveStep
    BY <1>3 DEF Save
  <2>2. step \notin {"idle", "done"}
    BY <2>1 DEF SaveStep, CreateTemp, FillTemp, Rename, SyncDir, RemoveTemp
  <2> QED  BY <2>1, <2>2 DEF ExitCodeIsHonest
<1>4. CASE Saved
  BY <1>4 DEF Saved, ExitCodeIsHonest
<1>5. CASE Summarize
  <2>1. /\ main = "summary" /\ main' = "exit" /\ step = "done"
        /\ exit' = IF saveErr \/ HostsFailed > 0 THEN "error" ELSE "ok"
        /\ UNCHANGED <<asked, status, verdict, storing, step, saveErr>>
    BY <1>5 DEF Summarize
  <2>2. Recorded = Jobs
    BY <2>1 DEF ResultInv, Recorded
  <2>3. ASSUME ~(HostsFailed > 0) PROVE \A j \in Jobs : status[j] = "succeeded" /\ Unmet(j) = {}
    <3> SUFFICES ASSUME NEW j \in Jobs PROVE status[j] = "succeeded" /\ Unmet(j) = {}
        OBVIOUS
    <3>1. PICK n \in DOMAIN results : results[n].job = j
      BY <2>2 DEF ResultInv
    <3>2. results[n].success
      BY <2>3, <3>1, NoneFailed
    <3> QED  BY <3>1, <3>2 DEF ResultInv
  <2>4. ASSUME HostsFailed > 0 PROVE \E j \in Jobs : status[j] # "succeeded"
    <3>1. PICK n \in DOMAIN results : ~results[n].success
      <4>1. CASE {n \in DOMAIN results : ~results[n].success} = {}
        BY <2>4, <4>1, FS_EmptySet DEF HostsFailed
      <4> QED  BY <4>1
    <3>2. results[n].job \in Jobs /\ status[results[n].job] # "succeeded"
      BY <2>2, <3>1 DEF ResultInv
    <3> QED  BY <3>2
  <2>5. \A j \in Jobs : Unmet(j)' = Unmet(j)
    BY <2>1 DEF Unmet
  <2> QED  BY <2>1, <2>3, <2>4, <2>5 DEF ExitCodeIsHonest
<1>6. CASE Rival
  BY <1>6, <1>a DEF Rival, OtherSaves
<1>7. ASSUME NEW j \in Jobs, main # "exit", Spawn(j) \/ Worker(j) PROVE ExitInv'
  BY <1>7, <1>a DEF Spawn, Worker, Accept, UpdateEntry, WorkOnHost, Refuse, Report, Done, Release
<1>8. CASE UNCHANGED vars
  BY <1>8 DEF vars, ExitCodeIsHonest, Unmet
<1> QED
  BY <1>1, <1>2, <1>3, <1>4, <1>5, <1>6, <1>7, <1>8 DEF FleetNext, Main, Exited

-----------------------------------------------------------------------------
\* The file and what a crash would leave are what the run found.
LEMMA InitStore == FleetInit => StoreFacts
  BY DEF FleetInit, StoreInit, StoreFacts, Replaced, FileIsOldOrNew

\* A step of SaveConfig puts the whole memory into the file, or keeps what is there.
LEMMA SaveKeeps ==
    ASSUME FleetTypeOK, StoreFacts, Save
    PROVE  StoreFacts'
<1> USE DEF StoreFacts, jobVars, fleetVars, kept, Proceed, GiveUp, Replaced, FileIsOldOrNew
<1>1. /\ main = "save" /\ UNCHANGED <<status, main, storing, start, rival, memory>>
      /\ SaveStep
  BY DEF Save, SaveStep, CreateTemp, FillTemp, Rename, SyncDir, RemoveTemp
<1>2. MergedEntries' = MergedEntries /\ Whole(memory)' = Whole(memory)
  BY <1>1 DEF MergedEntries, Whole
<1>3. CASE CreateTemp
  BY <1>1, <1>2, <1>3 DEF CreateTemp
<1>4. CASE FillTemp
  BY <1>1, <1>2, <1>4 DEF FillTemp
<1>5. CASE Rename
  BY <1>1, <1>2, <1>5 DEF Rename
<1>6. CASE SyncDir
  BY <1>1, <1>2, <1>6 DEF SyncDir
<1>7. CASE RemoveTemp
  BY <1>1, <1>2, <1>7 DEF RemoveTemp
<1> QED  BY <1>1, <1>3, <1>4, <1>5, <1>6, <1>7 DEF SaveStep

\* What another process saves is never the file the run found.
LEMMA RivalKeeps ==
    ASSUME FleetTypeOK, StoreFacts, Rival
    PROVE  StoreFacts'
<1>1. PICK a \in Contested : /\ rival' = Whole([start.entries EXCEPT ![a] = "rival"])
                             /\ config' = rival' /\ lasting' = {rival'}
  BY DEF Rival, OtherSaves
<1>2. rival'.entries[a] = "rival"
  BY <1>1, StoreAssumption DEF FleetTypeOK, StoreTypeOK, Files, Entries, Whole
<1>3. start.entries[a] # "rival"
  BY <1>1, StoreAssumption DEF StoreFacts
<1>4. rival' # start
  BY <1>2, <1>3
<1>5. /\ main = "save" /\ UNCHANGED <<status, main, storing, start, memory, temp, step, synced, saveErr>>
  BY DEF Rival, OtherSaves, jobVars, fleetVars
<1>6. MergedEntries' = MergedEntries
  BY <1>5 DEF MergedEntries
<1> QED  BY <1>1, <1>4, <1>5, <1>6 DEF StoreFacts, Replaced, FileIsOldOrNew

\* Each step keeps what is known of the memory and the file.
LEMMA StepStore ==
    ASSUME FleetTypeOK, ResultInv, ExitInv, StoreFacts, [FleetNext]_vars
    PROVE  StoreFacts'
<1> USE DEF jobVars, storeVars, fleetVars
<1>t. status \in [Jobs -> {"idle", "working", "succeeded", "failed"}] /\ memory \in Entries
  BY DEF FleetTypeOK, JobTypeOK, StoreTypeOK
<1>a. ASSUME UNCHANGED <<main, storing, storeVars>>, MergedEntries' = MergedEntries PROVE StoreFacts'
  BY <1>a DEF StoreFacts, Replaced, FileIsOldOrNew, Whole
<1>b. ASSUME NEW j \in Jobs, worker[j] = "running", main # "exit" PROVE main = "spawn"
  BY <1>b DEF FleetTypeOK, ResultInv
<1>1. CASE Load
  <2>1. main = "load" /\ step = "idle" /\ UNCHANGED <<status, storing>>
    BY <1>1 DEF Load, ExitInv
  <2>2. config = start /\ \A j \in Jobs : status[j] = "idle"
    BY <2>1 DEF StoreFacts, ResultInv
  <2>3. CASE storing /\ ReadConfig /\ main' = "spawn"
    <3>1. MergedEntries' = start.entries
      BY <2>1, <2>2, <2>3 DEF MergedEntries, ReadConfig, FleetTypeOK, StoreTypeOK, Files, Entries
    <3> QED  BY <2>1, <2>2, <2>3, <3>1 DEF ReadConfig, StoreFacts, Replaced, FileIsOldOrNew
  <2>4. CASE UNCHANGED storeVars /\ (main' = "exit" \/ (~storing /\ main' = "spawn"))
    BY <2>1, <2>4 DEF StoreFacts, Replaced, FileIsOldOrNew, Whole
  <2>5. \/ storing /\ ReadConfig /\ main' = "spawn"
        \/ ~storing /\ UNCHANGED storeVars /\ main' = "spawn"
        \/ UNCHANGED storeVars /\ main' = "exit"
    BY <1>1 DEF Load
  <2> QED  BY <2>3, <2>4, <2>5
<1>2. CASE Wait
  <2>1. /\ main = "spawn" /\ main' = "save" /\ step' = IF storing THEN "create" ELSE "done"
        /\ UNCHANGED <<status, storing, start, rival, config, lasting, memory, temp, synced, saveErr>>
    BY <1>2 DEF Wait
  <2>2. MergedEntries' = MergedEntries
    BY <2>1 DEF MergedEntries
  <2> QED  BY <2>1, <2>2 DEF StoreFacts, Replaced, FileIsOldOrNew, Whole
<1>3. CASE Save
  BY <1>3, SaveKeeps
<1>4. CASE Saved \/ Summarize
  <2>1. /\ main \in {"save", "summary"} /\ main' \in {"summary", "exit"}
        /\ UNCHANGED <<status, storing, storeVars>>
    BY <1>4 DEF Saved, Summarize
  <2>2. MergedEntries' = MergedEntries
    BY <2>1 DEF MergedEntries
  <2> QED  BY <2>1, <2>2 DEF StoreFacts, Replaced, FileIsOldOrNew, Whole
<1>5. CASE Rival
  BY <1>5, RivalKeeps
<1>6. ASSUME NEW j \in Jobs, main # "exit", Accept(j) PROVE StoreFacts'
  <2>1. /\ worker[j] = "running" /\ status[j] = "idle"
        /\ status' = [status EXCEPT ![j] = "working"]
        /\ IF storing THEN UpdateEntry(j) ELSE UNCHANGED storeVars
        /\ UNCHANGED <<main, storing>>
    BY <1>6 DEF Accept, Start
  <2>2. main = "spawn" /\ step = "idle"
    BY <1>6, <1>b, <2>1 DEF ExitInv
  <2>3. ASSUME storing PROVE memory' = MergedEntries'
    <3>1. memory = MergedEntries /\ memory' = [memory EXCEPT ![j] = "accepted"] /\ start' = start
      BY <2>1, <2>2, <2>3 DEF StoreFacts, UpdateEntry
    <3>2. MergedEntries' = [MergedEntries EXCEPT ![j] = "accepted"]
      BY <1>t, <2>1, <3>1, JobsAssumption DEF MergedEntries
    <3> QED  BY <3>1, <3>2
  <2>4. UNCHANGED <<start, rival, config, lasting, temp, step, synced, saveErr>>
    BY <2>1 DEF UpdateEntry
  <2> QED  BY <2>1, <2>2, <2>3, <2>4 DEF StoreFacts, Replaced, FileIsOldOrNew
<1>7. ASSUME NEW j \in Jobs, WorkOnHost(j) PROVE StoreFacts'
  <2>1. UNCHANGED <<main, storing, storeVars>>
    BY <1>7 DEF WorkOnHost
  <2>2. \A k \in Jobs : status'[k] # "idle" <=> status[k] # "idle"
    BY <1>7, <1>t DEF WorkOnHost, Conclude, Decide
  <2>3. MergedEntries' = MergedEntries
    BY <2>1, <2>2 DEF MergedEntries
  <2> QED  BY <1>a, <2>1, <2>3
<1>8. ASSUME NEW j \in Jobs, Spawn(j) \/ Refuse(j) \/ Report(j) \/ Done(j) \/ Release(j)
      PROVE  StoreFacts'
  <2>1. UNCHANGED <<status, main, storing, storeVars>>
    BY <1>8 DEF Spawn, Refuse, Report, Done, Release
  <2>2. MergedEntries' = MergedEntries
    BY <2>1 DEF MergedEntries
  <2> QED  BY <1>a, <2>1, <2>2
<1>9. CASE UNCHANGED vars
  <2>1. MergedEntries' = MergedEntries
    BY <1>9 DEF vars, MergedEntries
  <2> QED  BY <1>9, <1>a, <2>1 DEF vars
<1> QED
  BY <1>1, <1>2, <1>3, <1>4, <1>5, <1>6, <1>7, <1>8, <1>9 DEF FleetNext, Main, Worker, Exited

-----------------------------------------------------------------------------
IInv == FleetTypeOK /\ CountInv /\ ResultInv /\ ExitInv /\ StoreFacts

LEMMA Invariance == FleetSpec => []IInv
<1>1. FleetInit => IInv
  BY InitCount, InitResult, InitExit, InitStore DEF IInv
<1>2. IInv /\ [FleetNext]_vars => IInv'
  BY StepCount, StepResult, StepExit, StepStore DEF IInv
<1> QED  BY <1>1, <1>2, PTL DEF FleetSpec

\* Every variable has its type: never more tokens than --max-hosts, and the
\* WaitGroup's counter never below zero, where Go panics.
THEOREM FleetTypeCorrect == FleetSpec => []FleetTypeOK
<1>1. IInv => FleetTypeOK
  BY DEF IInv
<1> QED  BY <1>1, Invariance, PTL

\* hostLimiter: however workers start, report and return, the hosts being worked
\* on are as many as the tokens taken, and never more than --max-hosts.
THEOREM HostsAreBounded == FleetSpec => []HostsBounded
<1>1. IInv => HostsBounded
  BY MaxHostsAssumption DEF IInv, CountInv, FleetTypeOK, HostsBounded
<1> QED  BY <1>1, Invariance, PTL

\* RecordHostResult: the list the summary is made of has each host job once.
THEOREM EveryJobIsCountedOnce == FleetSpec => []EveryJobIsCounted
<1>1. IInv => EveryJobIsCounted
  <2>1. ResultInv /\ main \in {"save", "summary"} => Recorded = Jobs
    BY DEF ResultInv, Recorded
  <2> QED  BY <2>1 DEF IInv, ResultInv, EveryJobIsCounted
<1> QED  BY <1>1, Invariance, PTL

\* run(): status 0 only if every host did all that was asked of it and the
\* credentials were saved, status 1 only with a cause.
THEOREM ExitStatusIsHonest == FleetSpec => []ExitCodeIsHonest
<1>1. IInv => ExitCodeIsHonest
  BY DEF IInv, ExitInv
<1> QED  BY <1>1, Invariance, PTL

\* --CO: a save without an error has merged every accepted login into the file, and
\* a crash leaves it so where a directory can be synced.
THEOREM CredentialsAreMerged == FleetSpec => []StoreIsComplete
<1>1. IInv => StoreIsComplete
  <2> SUFFICES ASSUME IInv, storing, step = "done", ~saveErr, rival = start
               PROVE  config = Merged /\ (synced => lasting = {config})
      BY DEF StoreIsComplete
  <2>1. memory = MergedEntries /\ config = Whole(memory) /\ (synced => lasting = {config})
    BY DEF IInv, StoreFacts, Replaced
  <2> QED  BY <2>1 DEF Merged, MergedEntries
<1> QED  BY <1>1, Invariance, PTL

\* SaveConfig: at every moment a reader, and whatever a crash leaves, has a file
\* that was whole.
THEOREM FileStaysWhole == FleetSpec => []FileIsOldOrNew
<1>1. IInv => FileIsOldOrNew
  BY DEF IInv, StoreFacts
<1> QED  BY <1>1, Invariance, PTL
=============================================================================
