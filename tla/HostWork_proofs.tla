-------------------------- MODULE HostWork_proofs --------------------------
(***************************************************************************)
(* Theorems about HostWork, for every number of jobs, entries and slots,   *)
(* every set of command lines and every set of faults.                     *)
(*                                                                         *)
(* 1. The counters: TypeOK, PoolAccounting and HostLimit together are      *)
(*    inductive. The type of a counter that is decremented needs the fact  *)
(*    that it counts somebody, and so they cannot be proved one by one.    *)
(* 2. The order of the work: PhasesDoNotOverlap, PayloadsAfterTransfers,   *)
(*    NeverUnprivileged and SuccessIsComplete, from the inductive          *)
(*    invariant OrderInv.                                                  *)
(* 3. The installation of rsync: InstallerExists and InstallIsMemoized.    *)
(* 4. Every step is one of HostJob's, under the refinement mapping Job.    *)
(***************************************************************************)
EXTENDS HostWork, FiniteSetTheorems, TLAPS

-----------------------------------------------------------------------------
(* The sets that are counted.                                              *)

LEMMA TasksFinite == IsFiniteSet(Tasks)
<1>1. IsFiniteSet(Kinds)
  <2>1. Kinds = ({"upload"} \union {"download"}) \union {"payload"}  BY DEF Kinds
  <2> QED  BY <2>1, FS_Singleton, FS_Union
<1>2. IsFiniteSet(1 .. MaxTasks)  BY FS_Interval, BoundsAssumption
<1> QED  BY <1>1, <1>2, FS_Product DEF Tasks

LEMMA CountsFinite == /\ IsFiniteSet(Workers) /\ Cardinality(Workers) \in Nat
                      /\ IsFiniteSet(Probers) /\ Cardinality(Probers) \in Nat
                      /\ \A j : IsFiniteSet(LiveTasks(j)) /\ Cardinality(LiveTasks(j)) \in Nat
<1>1. IsFiniteSet(Jobs \X Tasks)  BY TasksFinite, JobsAssumption, FS_Product
<1>2. Workers \subseteq Jobs \X Tasks  BY DEF Workers
<1>3. Probers \subseteq Jobs  BY DEF Probers
<1>4. \A j : LiveTasks(j) \subseteq Tasks  BY DEF LiveTasks
<1> QED  BY <1>1, <1>2, <1>3, <1>4, TasksFinite, JobsAssumption, FS_Subset, FS_CardinalityType

\* What a worker's step does to the sets: it moves one worker in, out, or
\* neither, and leaves the other jobs alone.
LEMMA TaskMove ==
    ASSUME TypeOK, NEW j \in Jobs, NEW t \in Tasks,
           NEW s \in Pending \union Settled, SetTask(j, t, s)
    PROVE  /\ task' \in [Jobs -> [Tasks -> Pending \union Settled]]
           /\ Workers' = IF s \in Holding THEN Workers \union {<<j, t>>}
                                          ELSE Workers \ {<<j, t>>}
           /\ LiveTasks(j)' = IF s \in Live THEN LiveTasks(j) \union {t}
                                            ELSE LiveTasks(j) \ {t}
           /\ \A i \in Jobs : i # j => LiveTasks(i)' = LiveTasks(i)
<1>1. task \in [Jobs -> [Tasks -> Pending \union Settled]]  BY DEF TypeOK
<1>2. task' = [task EXCEPT ![j][t] = s]  BY DEF SetTask
<1>3. \A i \in Jobs, u \in Tasks :
         task'[i][u] = IF i = j /\ u = t THEN s ELSE task[i][u]
  BY <1>1, <1>2
<1>4. task' \in [Jobs -> [Tasks -> Pending \union Settled]]  BY <1>1, <1>2
<1>5. Workers' = IF s \in Holding THEN Workers \union {<<j, t>>} ELSE Workers \ {<<j, t>>}
  BY <1>3 DEF Workers
<1>6. LiveTasks(j)' = IF s \in Live THEN LiveTasks(j) \union {t} ELSE LiveTasks(j) \ {t}
  BY <1>3 DEF LiveTasks
<1>7. \A i \in Jobs : i # j => LiveTasks(i)' = LiveTasks(i)
  BY <1>3 DEF LiveTasks
<1> QED  BY <1>4, <1>5, <1>6, <1>7

LEMMA PhaseMove ==
    ASSUME TypeOK, NEW j \in Jobs, NEW p \in Phases, GoTo(j, p)
    PROVE  /\ phase' \in [Jobs -> Phases]
           /\ \A i \in Jobs : phase'[i] = IF i = j THEN p ELSE phase[i]
           /\ Probers' = IF p \in SlotPhases THEN Probers \union {j} ELSE Probers \ {j}
<1>1. phase \in [Jobs -> Phases] /\ phase' = [phase EXCEPT ![j] = p]  BY DEF TypeOK, GoTo
<1>2. \A i \in Jobs : phase'[i] = IF i = j THEN p ELSE phase[i]  BY <1>1
<1>3. Probers' = IF p \in SlotPhases THEN Probers \union {j} ELSE Probers \ {j}
  BY <1>2 DEF Probers
<1> QED  BY <1>1, <1>2, <1>3

-----------------------------------------------------------------------------
(* 1. The counters.                                                        *)

CountInv == TypeOK /\ PoolAccounting /\ HostLimit

\* The set equations of TaskMove and PhaseMove as numbers.
LEMMA TaskCount ==
    ASSUME TypeOK, NEW j \in Jobs, NEW t \in Tasks,
           NEW s \in Pending \union Settled, SetTask(j, t, s)
    PROVE  /\ Cardinality(Workers') =
                IF task[j][t] \notin Holding /\ s \in Holding THEN Cardinality(Workers) + 1
                  ELSE IF task[j][t] \in Holding /\ s \notin Holding THEN Cardinality(Workers) - 1
                  ELSE Cardinality(Workers)
           /\ Cardinality(LiveTasks(j)') =
                IF task[j][t] \notin Live /\ s \in Live THEN Cardinality(LiveTasks(j)) + 1
                  ELSE IF task[j][t] \in Live /\ s \notin Live THEN Cardinality(LiveTasks(j)) - 1
                  ELSE Cardinality(LiveTasks(j))
<1>1. <<j, t>> \in Workers <=> task[j][t] \in Holding  BY DEF Workers
<1>2. t \in LiveTasks(j) <=> task[j][t] \in Live  BY DEF LiveTasks
<1>3. /\ Cardinality(Workers \union {<<j, t>>}) =
            IF <<j, t>> \in Workers THEN Cardinality(Workers) ELSE Cardinality(Workers) + 1
      /\ Cardinality(Workers \ {<<j, t>>}) =
            IF <<j, t>> \in Workers THEN Cardinality(Workers) - 1 ELSE Cardinality(Workers)
  BY CountsFinite, FS_AddElement, FS_RemoveElement
<1>4. /\ Cardinality(LiveTasks(j) \union {t}) =
            IF t \in LiveTasks(j) THEN Cardinality(LiveTasks(j)) ELSE Cardinality(LiveTasks(j)) + 1
      /\ Cardinality(LiveTasks(j) \ {t}) =
            IF t \in LiveTasks(j) THEN Cardinality(LiveTasks(j)) - 1 ELSE Cardinality(LiveTasks(j))
  BY CountsFinite, FS_AddElement, FS_RemoveElement
<1>5. /\ Workers' = IF s \in Holding THEN Workers \union {<<j, t>>} ELSE Workers \ {<<j, t>>}
      /\ LiveTasks(j)' = IF s \in Live THEN LiveTasks(j) \union {t} ELSE LiveTasks(j) \ {t}
  BY TaskMove
<1>6. Cardinality(Workers') =
         IF task[j][t] \notin Holding /\ s \in Holding THEN Cardinality(Workers) + 1
           ELSE IF task[j][t] \in Holding /\ s \notin Holding THEN Cardinality(Workers) - 1
           ELSE Cardinality(Workers)
  BY <1>1, <1>3, <1>5
<1>7. Cardinality(LiveTasks(j)') =
         IF task[j][t] \notin Live /\ s \in Live THEN Cardinality(LiveTasks(j)) + 1
           ELSE IF task[j][t] \in Live /\ s \notin Live THEN Cardinality(LiveTasks(j)) - 1
           ELSE Cardinality(LiveTasks(j))
  BY <1>2, <1>4, <1>5
<1> QED  BY <1>6, <1>7

LEMMA PhaseCount ==
    ASSUME TypeOK, NEW j \in Jobs, NEW p \in Phases, GoTo(j, p)
    PROVE  Cardinality(Probers') =
                IF phase[j] \notin SlotPhases /\ p \in SlotPhases THEN Cardinality(Probers) + 1
                  ELSE IF phase[j] \in SlotPhases /\ p \notin SlotPhases THEN Cardinality(Probers) - 1
                  ELSE Cardinality(Probers)
<1>1. j \in Probers <=> phase[j] \in SlotPhases  BY DEF Probers
<1>2. /\ Cardinality(Probers \union {j}) =
            IF j \in Probers THEN Cardinality(Probers) ELSE Cardinality(Probers) + 1
      /\ Cardinality(Probers \ {j}) =
            IF j \in Probers THEN Cardinality(Probers) - 1 ELSE Cardinality(Probers)
  BY CountsFinite, FS_AddElement, FS_RemoveElement
<1>3. Probers' = IF p \in SlotPhases THEN Probers \union {j} ELSE Probers \ {j}  BY PhaseMove
<1> QED  BY <1>1, <1>2, <1>3

\* A step of a job's own goroutine that neither takes nor gives a slot.
LEMMA QuietStep ==
    ASSUME CountInv, TypeOK', UNCHANGED <<opts, task, sem, slots>>,
           Cardinality(Probers') = Cardinality(Probers)
    PROVE  CountInv'
<1>1. Workers' = Workers /\ \A j \in Jobs : LiveTasks(j)' = LiveTasks(j)
  BY DEF Workers, LiveTasks
<1>2. PoolAccounting'  BY <1>1 DEF CountInv, PoolAccounting
<1>3. HostLimit'  BY <1>1 DEF CountInv, HostLimit
<1> QED  BY <1>2, <1>3 DEF CountInv

LEMMA RecordTransferType ==
    ASSUME TypeOK, NEW j \in Jobs, NEW k \in Transfers, NEW ok, RecordTransfer(j, k, ok)
    PROVE  transfers' \in [Jobs -> [Transfers -> {"none", "ok", "err"}]]
<1>1. transfers \in [Jobs -> [Transfers -> {"none", "ok", "err"}]]  BY DEF TypeOK
<1>2. transfers' = [transfers EXCEPT ![j][k] = IF ok THEN "ok" ELSE "err"]
  BY DEF RecordTransfer
<1> QED  BY <1>1, <1>2

LEMMA QuietJobSteps ==
    ASSUME CountInv, NEW j \in Jobs,
           \/ Begin(j) \/ Prepare(j) \/ ResolveHostname(j) \/ Reserve(j) \/ CheckShell(j)
           \/ DecideSudo(j) \/ JoinUploads(j) \/ ProbeTar(j) \/ JoinDownloads(j)
           \/ SelectScheduler(j) \/ JoinPayloads(j) \/ CloseClient(j)
    PROVE  CountInv'
<1> USE DEF CountInv, TypeOK, GoTo, MayStall, Stall, CommandFails, poolVars, hostVars, resultVars
<1>1. phase[j] \notin SlotPhases /\ UNCHANGED <<opts, task, sem, slots>>
  BY DEF SlotPhases, Begin, Prepare, ResolveHostname, Reserve, CheckShell, DecideSudo,
         JoinUploads, ProbeTar, JoinDownloads, SelectScheduler, JoinPayloads, CloseClient
<1>2. AfterTransfers \in Phases \ SlotPhases  BY DEF AfterTransfers, Phases, SlotPhases
<1>3. \E p \in Phases \ SlotPhases : GoTo(j, p)
  BY <1>2 DEF Phases, SlotPhases, Abort, Begin, Prepare, ResolveHostname, Reserve, CheckShell,
         DecideSudo, JoinUploads, ProbeTar, JoinDownloads, SelectScheduler, JoinPayloads,
         CloseClient
<1>4. Cardinality(Probers') = Cardinality(Probers)  BY <1>1, <1>3, PhaseCount
<1>5. phase' \in [Jobs -> Phases]  BY <1>3, PhaseMove
<1>6. TypeOK'
  <2>1. CASE Begin(j)
    BY <1>1, <1>5, <2>1 DEF Begin
  <2>2. CASE Prepare(j)
    BY <1>1, <1>5, <2>2 DEF Prepare, Abort
  <2>3. CASE ResolveHostname(j)
    BY <1>1, <1>5, <2>3 DEF ResolveHostname
  <2>4. CASE Reserve(j)
    BY <1>1, <1>5, <2>4 DEF Reserve, Abort
  <2>5. CASE CheckShell(j)
    BY <1>1, <1>5, <2>5 DEF CheckShell, Abort
  <2>6. CASE DecideSudo(j)
    BY <1>1, <1>5, <2>6 DEF DecideSudo, Abort
  <2>7. CASE JoinUploads(j)
    BY <1>1, <1>5, <2>7, RecordTransferType DEF JoinUploads, Transfers
  <2>8. CASE ProbeTar(j)
    BY <1>1, <1>5, <2>8, RecordTransferType DEF ProbeTar, Transfers
  <2>9. CASE JoinDownloads(j)
    BY <1>1, <1>5, <2>9, RecordTransferType DEF JoinDownloads, Transfers
  <2>10. CASE SelectScheduler(j)
    BY <1>1, <1>5, <2>10 DEF SelectScheduler, Abort
  <2>11. CASE JoinPayloads(j)
    BY <1>1, <1>5, <2>11 DEF JoinPayloads
  <2>12. CASE CloseClient(j)
    BY <1>1, <1>5, <2>12 DEF CloseClient
  <2> QED  BY <2>1, <2>2, <2>3, <2>4, <2>5, <2>6, <2>7, <2>8, <2>9, <2>10, <2>11, <2>12
<1> QED  BY <1>1, <1>4, <1>6, QuietStep

\* The steps that take or give back a job's own slot: the probers and the counter
\* move together.
LEMMA SlotStep ==
    ASSUME CountInv, NEW j \in Jobs, NEW p \in Phases, GoTo(j, p), UNCHANGED <<opts, task, sem>>,
           \/ phase[j] \in SlotPhases /\ p \in SlotPhases /\ slots' = slots
           \/ phase[j] \in SlotPhases /\ p \notin SlotPhases /\ slots' = slots - 1
           \/ phase[j] \notin SlotPhases /\ p \in SlotPhases /\ slots < MaxOps /\ slots' = slots + 1
           \/ phase[j] \notin SlotPhases /\ p \notin SlotPhases /\ slots' = slots
    PROVE  /\ PoolAccounting' /\ HostLimit' /\ slots' \in Nat
           /\ phase' \in [Jobs -> Phases]
<1> USE DEF CountInv
<1>1. Workers' = Workers /\ \A i \in Jobs : LiveTasks(i)' = LiveTasks(i)
  BY DEF Workers, LiveTasks
<1>2. HostLimit'  BY <1>1 DEF HostLimit
<1>3. j \in Probers => Cardinality(Probers) # 0
  BY CountsFinite, FS_EmptySet
<1>4. j \in Probers <=> phase[j] \in SlotPhases  BY DEF Probers
<1>5. PoolAccounting' /\ slots' \in Nat
  <2> DEFINE W == Cardinality(Workers)
             P == Cardinality(Probers)
             W2 == Cardinality(Workers')
             P2 == Cardinality(Probers')
  <2>1. P2 = IF phase[j] \notin SlotPhases /\ p \in SlotPhases THEN P + 1
             ELSE IF phase[j] \in SlotPhases /\ p \notin SlotPhases THEN P - 1
             ELSE P
    BY PhaseCount
  <2>2. W2 = W  BY <1>1
  <2>3. W \in Nat /\ P \in Nat /\ (phase[j] \in SlotPhases => P # 0)
    BY <1>3, <1>4, CountsFinite
  <2>4. slots \in Nat /\ slots = W + P /\ slots <= MaxOps  BY DEF PoolAccounting, TypeOK
  <2>5. slots' = W2 + P2 /\ slots' <= MaxOps /\ slots' \in Nat
    <3> HIDE DEF W, P, W2, P2
    <3> QED  BY <2>1, <2>2, <2>3, <2>4, BoundsAssumption
  <2> QED  BY <2>5 DEF PoolAccounting
<1>6. phase' \in [Jobs -> Phases]  BY PhaseMove
<1> QED  BY <1>2, <1>5, <1>6

LEMMA SlotJobSteps ==
    ASSUME CountInv, NEW j \in Jobs,
           \/ RsyncAcquire(j) \/ RsyncProbe(j) \/ StartInstall(j) \/ JoinInstall(j)
           \/ FinishInstall(j) \/ RsyncVerify(j)
    PROVE  CountInv'
<1>1. SlotPhases \subseteq Phases /\ AfterTransfers \in Phases \ SlotPhases
  BY DEF SlotPhases, Phases, AfterTransfers
<1>2. UNCHANGED <<opts, task, sem>>
  BY DEF RsyncAcquire, RsyncProbe, StartInstall, RegisterAttempt, JoinInstall, FinishInstall,
         RsyncVerify, poolVars, hostVars
<1>3. ASSUME NEW b \in BOOLEAN, RsyncDecided(j, b), phase[j] \in SlotPhases
      PROVE  /\ PoolAccounting' /\ HostLimit' /\ slots' \in Nat
             /\ phase' \in [Jobs -> Phases] /\ rsync' \in [Jobs -> BOOLEAN]
  <2>1. PICK p \in Phases \ SlotPhases : GoTo(j, p)
    BY <1>3 DEF RsyncDecided, Phases, SlotPhases
  <2>2. slots' = slots - 1 /\ rsync' = [rsync EXCEPT ![j] = b]  BY <1>3 DEF RsyncDecided
  <2> QED  BY <1>2, <1>3, <2>1, <2>2, SlotStep DEF CountInv, TypeOK
<1> USE DEF TypeOK, MayStall, Stall, CommandFails, poolVars, hostVars, resultVars
<1>4. CASE RsyncAcquire(j)
  <2>1. CASE slots' = slots + 1 /\ slots < MaxOps /\ GoTo(j, "probe")
    BY <1>1, <1>2, <1>4, <2>1, SlotStep DEF CountInv, RsyncAcquire, SlotPhases
  <2>2. CASE slots' = slots /\ GoTo(j, AfterTransfers)
    BY <1>1, <1>2, <1>4, <2>2, SlotStep DEF CountInv, RsyncAcquire, SlotPhases
  <2> QED  BY <1>4, <2>1, <2>2 DEF RsyncAcquire
<1>5. CASE RsyncProbe(j)
  <2>1. CASE \E b \in BOOLEAN : RsyncDecided(j, b)
    BY <1>2, <1>3, <1>5, <2>1 DEF CountInv, RsyncProbe, SlotPhases
  <2>2. CASE GoTo(j, "install") /\ UNCHANGED <<conn, rsync, slots>>
    BY <1>1, <1>2, <1>5, <2>2, SlotStep DEF CountInv, RsyncProbe, SlotPhases
  <2> QED  BY <1>5, <2>1, <2>2 DEF RsyncProbe
<1>6. CASE StartInstall(j)
  <2>1. GoTo(j, "installing") /\ slots' = slots /\ phase[j] = "install"
    BY <1>6 DEF StartInstall, RegisterAttempt
  <2>2. PoolAccounting' /\ HostLimit' /\ slots' \in Nat /\ phase' \in [Jobs -> Phases]
    BY <1>1, <1>2, <2>1, SlotStep DEF SlotPhases
  <2> QED  BY <1>2, <1>6, <2>2 DEF CountInv, StartInstall, RegisterAttempt
<1>7. CASE JoinInstall(j)
  <2>1. CASE RsyncDecided(j, FALSE)
    BY <1>2, <1>3, <1>7, <2>1 DEF CountInv, JoinInstall, SlotPhases
  <2>2. CASE GoTo(j, "verify") /\ UNCHANGED <<rsync, slots>>
    BY <1>1, <1>2, <1>7, <2>2, SlotStep DEF CountInv, JoinInstall, SlotPhases
  <2> QED  BY <1>7, <2>1, <2>2 DEF JoinInstall
<1>8. CASE FinishInstall(j)
  <2>1. CASE RsyncDecided(j, FALSE)
    BY <1>2, <1>3, <1>8, <2>1 DEF CountInv, FinishInstall, SlotPhases
  <2>2. CASE GoTo(j, "verify") /\ UNCHANGED <<rsync, slots>>
    BY <1>1, <1>2, <1>8, <2>2, SlotStep DEF CountInv, FinishInstall, SlotPhases
  <2> QED  BY <1>8, <2>1, <2>2 DEF FinishInstall
<1>9. CASE RsyncVerify(j)
  <2>1. \E b \in BOOLEAN : RsyncDecided(j, b)  BY <1>9 DEF RsyncVerify
  <2> QED  BY <1>2, <1>3, <1>9, <2>1 DEF CountInv, RsyncVerify, SlotPhases
<1> QED  BY <1>4, <1>5, <1>6, <1>7, <1>8, <1>9

\* The steps of a worker: its membership and the two counters move together.
LEMMA SlotTaskStep ==
    ASSUME CountInv, NEW j \in Jobs, NEW t \in Tasks, NEW s \in Pending \union Settled,
           SetTask(j, t, s), UNCHANGED phase,
           \/ task[j][t] \in Holding /\ s \in Holding /\ slots' = slots
           \/ task[j][t] \in Holding /\ s \notin Holding /\ slots' = slots - 1
           \/ task[j][t] \notin Holding /\ s \in Holding /\ slots < MaxOps /\ slots' = slots + 1
           \/ task[j][t] \notin Holding /\ s \notin Holding /\ slots' = slots
    PROVE  PoolAccounting' /\ slots' \in Nat
<1> USE DEF CountInv
<1> DEFINE W == Cardinality(Workers)
           P == Cardinality(Probers)
           W2 == Cardinality(Workers')
           P2 == Cardinality(Probers')
<1>1. W2 = IF task[j][t] \notin Holding /\ s \in Holding THEN W + 1
           ELSE IF task[j][t] \in Holding /\ s \notin Holding THEN W - 1
           ELSE W
  BY TaskCount
<1>2. P2 = P
  <2>1. Probers' = Probers  BY DEF Probers
  <2> QED  BY <2>1
<1>3. W \in Nat /\ P \in Nat /\ (task[j][t] \in Holding => W # 0)
  <2>1. <<j, t>> \in Workers <=> task[j][t] \in Holding  BY DEF Workers
  <2> QED  BY <2>1, CountsFinite, FS_EmptySet
<1>4. slots \in Nat /\ slots = W + P /\ slots <= MaxOps  BY DEF PoolAccounting, TypeOK
<1>5. slots' = W2 + P2 /\ slots' <= MaxOps /\ slots' \in Nat
  <2> HIDE DEF W, P, W2, P2
  <2> QED  BY <1>1, <1>2, <1>3, <1>4, BoundsAssumption
<1> QED  BY <1>5 DEF PoolAccounting

LEMMA TokenTaskStep ==
    ASSUME CountInv, NEW j \in Jobs, NEW t \in Tasks, NEW s \in Pending \union Settled,
           SetTask(j, t, s), UNCHANGED opts,
           \/ task[j][t] \in Live /\ s \in Live /\ sem' = sem
           \/ task[j][t] \in Live /\ s \notin Live /\ sem' = [sem EXCEPT ![j] = @ - 1]
           \/ /\ task[j][t] \notin Live /\ s \in Live
              /\ sem[j] < opts.threads /\ sem' = [sem EXCEPT ![j] = @ + 1]
    PROVE  HostLimit' /\ sem' \in [Jobs -> Nat]
<1> USE DEF CountInv
<1> DEFINE L == Cardinality(LiveTasks(j))
           L2 == Cardinality(LiveTasks(j)')
<1>1. L2 = IF task[j][t] \notin Live /\ s \in Live THEN L + 1
           ELSE IF task[j][t] \in Live /\ s \notin Live THEN L - 1
           ELSE L
  BY TaskCount
<1>2. \A i \in Jobs : i # j => LiveTasks(i)' = LiveTasks(i)  BY TaskMove
<1>3. L \in Nat /\ (task[j][t] \in Live => L # 0)
  <2>1. t \in LiveTasks(j) <=> task[j][t] \in Live  BY DEF LiveTasks
  <2> QED  BY <2>1, CountsFinite, FS_EmptySet
<1>4. opts.threads \in Nat  BY OptionsAssumption DEF TypeOK, OptionSet
<1>5. sem \in [Jobs -> Nat] /\ sem[j] = L /\ sem[j] <= opts.threads
  BY DEF HostLimit, TypeOK
<1>6. sem' \in [Jobs -> Nat] /\ sem'[j] = L2 /\ sem'[j] <= opts.threads
  <2> HIDE DEF L, L2
  <2> QED  BY <1>1, <1>3, <1>4, <1>5
<1>7. \A i \in Jobs : i # j => sem'[i] = sem[i]  BY <1>5
<1> QED  BY <1>2, <1>6, <1>7 DEF HostLimit

LEMMA TaskSteps ==
    ASSUME CountInv, NEW j \in Jobs, NEW t \in Tasks, TaskStep(j, t)
    PROVE  CountInv'
<1> USE DEF CountInv, Stall, CommandFails, poolVars, hostVars, resultVars
<1>1. {"new", "queued", "holding", "sent", "ok", "failed", "timeout", "unsent"}
        = Pending \union Settled
  BY DEF Pending, Settled
<1>2. ASSUME NEW s \in Pending \union Settled, SetTask(j, t, s),
             PoolAccounting', slots' \in Nat, HostLimit', sem' \in [Jobs -> Nat],
             UNCHANGED <<opts, phase, hostVars, resultVars>>,
             conn' \in [Jobs -> {"open", "closing", "closed"}]
      PROVE  CountInv'
  BY <1>2, TaskMove DEF TypeOK
<1>3. ASSUME NEW s \in Settled, Settle(j, t, s), task[j][t] \in Holding,
             UNCHANGED <<opts, phase, hostVars, resultVars>>,
             conn' \in [Jobs -> {"open", "closing", "closed"}]
      PROVE  CountInv'
  <2>1. SetTask(j, t, s) /\ slots' = slots - 1 /\ sem' = [sem EXCEPT ![j] = @ - 1]
    BY <1>3 DEF Settle
  <2>2. s \in Pending \union Settled /\ s \notin Live /\ s \notin Holding /\ task[j][t] \in Live
    BY <1>3 DEF Settled, Live, Holding
  <2> QED  BY <1>2, <1>3, <2>1, <2>2, SlotTaskStep, TokenTaskStep
<1>4. CASE Dispatch(j, t)
  <2>1. Width(t[1]) <= opts.threads /\ Width(t[1]) \in Nat /\ opts.threads \in Nat
    BY OptionsAssumption DEF Width, OptionSet, TypeOK
  <2>2. sem[j] < opts.threads  BY <1>4, <2>1 DEF Dispatch, TypeOK
  <2>3. PoolAccounting' /\ slots' \in Nat  BY <1>1, <1>4, SlotTaskStep DEF Dispatch, Holding
  <2>4. HostLimit' /\ sem' \in [Jobs -> Nat]
    BY <1>1, <1>4, <2>2, TokenTaskStep DEF Dispatch, Live
  <2> QED  BY <1>1, <1>2, <1>4, <2>3, <2>4 DEF Dispatch, TypeOK
<1>5. CASE AcquireSlot(j, t)
  <2>1. PoolAccounting' /\ slots' \in Nat  BY <1>1, <1>5, SlotTaskStep DEF AcquireSlot, Holding
  <2>2. HostLimit' /\ sem' \in [Jobs -> Nat]  BY <1>1, <1>5, TokenTaskStep DEF AcquireSlot, Live
  <2> QED  BY <1>1, <1>2, <1>5, <2>1, <2>2 DEF AcquireSlot, TypeOK
<1>6. CASE RefuseDownload(j, t)
  <2>1. PoolAccounting' /\ slots' \in Nat
    BY <1>1, <1>6, SlotTaskStep DEF RefuseDownload, Holding
  <2>2. HostLimit' /\ sem' \in [Jobs -> Nat]
    BY <1>1, <1>6, TokenTaskStep DEF RefuseDownload, Live
  <2> QED  BY <1>1, <1>2, <1>6, <2>1, <2>2 DEF RefuseDownload, TypeOK
<1>7. CASE Send(j, t)
  <2>1. PoolAccounting' /\ slots' \in Nat  BY <1>1, <1>7, SlotTaskStep DEF Send, Holding
  <2>2. HostLimit' /\ sem' \in [Jobs -> Nat]  BY <1>1, <1>7, TokenTaskStep DEF Send, Live
  <2> QED  BY <1>1, <1>2, <1>7, <2>1, <2>2 DEF Send, TypeOK
<1>8. CASE NotSent(j, t)
  <2>1. conn' \in [Jobs -> {"open", "closing", "closed"}]  BY <1>8 DEF NotSent, TypeOK
  <2> QED  BY <1>3, <1>8, <2>1 DEF NotSent, Settled, Holding
<1>9. CASE FinishOk(j, t)
  <2>1. conn' \in [Jobs -> {"open", "closing", "closed"}]  BY <1>9 DEF FinishOk, TypeOK
  <2> QED  BY <1>3, <1>9, <2>1 DEF FinishOk, Settled, Holding
<1>10. CASE FinishFailed(j, t)
  <2>1. conn' \in [Jobs -> {"open", "closing", "closed"}]  BY <1>10 DEF FinishFailed, TypeOK
  <2> QED  BY <1>3, <1>10, <2>1 DEF FinishFailed, Settled, Holding
<1>11. CASE FinishTimeout(j, t)
  <2>1. conn' \in [Jobs -> {"open", "closing", "closed"}]  BY <1>11 DEF FinishTimeout, TypeOK
  <2> QED  BY <1>3, <1>11, <2>1 DEF FinishTimeout, Settled, Holding
<1> QED  BY <1>4, <1>5, <1>6, <1>7, <1>8, <1>9, <1>10, <1>11 DEF TaskStep

LEMMA CountInit == Init => CountInv
<1> SUFFICES ASSUME Init PROVE CountInv  OBVIOUS
<1>1. TypeOK
  BY DEF Init, TypeOK, Phases, Pending, Settled
<1>2. Workers = {} /\ Probers = {} /\ \A j \in Jobs : LiveTasks(j) = {}
  BY DEF Init, Workers, Probers, LiveTasks, Holding, Live, SlotPhases
<1>3. opts.threads \in Nat \ {0}  BY <1>1, OptionsAssumption DEF TypeOK, OptionSet
<1>4. /\ Cardinality(Workers) = 0 /\ Cardinality(Probers) = 0
      /\ \A j \in Jobs : Cardinality(LiveTasks(j)) = 0
  BY <1>2, FS_EmptySet
<1>5. PoolAccounting  BY <1>4, BoundsAssumption DEF Init, PoolAccounting
<1>6. HostLimit  BY <1>3, <1>4 DEF Init, HostLimit
<1> QED  BY <1>1, <1>5, <1>6 DEF CountInv

LEMMA CountNext == CountInv /\ [Next]_vars => CountInv'
<1> SUFFICES ASSUME CountInv, [Next]_vars PROVE CountInv'  OBVIOUS
<1>1. CASE UNCHANGED vars
  <2>1. TypeOK'  BY <1>1 DEF vars, CountInv, TypeOK
  <2>2. Probers' = Probers  BY <1>1 DEF vars, Probers
  <2> QED  BY <1>1, <2>1, <2>2, QuietStep DEF vars
<1>2. ASSUME NEW j \in Jobs, CloseConn(j)
      PROVE  CountInv'
  <2>1. TypeOK'
    BY <1>2 DEF CloseConn, CountInv, TypeOK, poolVars, hostVars, resultVars
  <2>2. Probers' = Probers  BY <1>2 DEF CloseConn, Probers
  <2> QED  BY <1>2, <2>1, <2>2, QuietStep DEF CloseConn, poolVars
<1>3. ASSUME NEW j \in Jobs, Begin(j) \/ JobStep(j)
      PROVE  CountInv'
  BY <1>3, QuietJobSteps, SlotJobSteps DEF JobStep
<1>4. ASSUME NEW j \in Jobs, NEW t \in Tasks, TaskStep(j, t)
      PROVE  CountInv'
  BY <1>4, TaskSteps
<1> QED  BY <1>1, <1>2, <1>3, <1>4 DEF Next, Work, Terminating

LEMMA CountersHold == Spec => []CountInv
<1> QED  BY CountInit, CountNext, PTL DEF Spec

\* No counter, phase or result of SsherWrapper loses its type: the semaphore and
\* the pool are never released more often than they are acquired.
THEOREM TypeCorrect == Spec => []TypeOK
<1>1. CountInv => TypeOK  BY DEF CountInv
<1> QED  BY <1>1, CountersHold, PTL

\* The pool of expensive operations counts exactly the goroutines inside one and
\* never exceeds its ceiling, whatever fails (operation_limit.go).
THEOREM PoolIsCounted == Spec => []PoolAccounting
<1>1. CountInv => PoolAccounting  BY DEF CountInv
<1> QED  BY <1>1, CountersHold, PTL

\* The per-host limit bounds the live workers of each job, and its semaphore
\* counts exactly them.
THEOREM HostIsLimited == Spec => []HostLimit
<1>1. CountInv => HostLimit  BY DEF CountInv
<1> QED  BY <1>1, CountersHold, PTL

-----------------------------------------------------------------------------
(* 2. The order of the work.                                               *)

AfterSudo == {"rsync", "probe", "install", "installing", "verify", "upload", "tar",
              "download", "select", "payload"}

\* What each job may rely on in each phase: which workers can be live, that a
\* transfer recorded as good is good, and that the payload phases are reached
\* only through good transfers and proved escalation.
JobInv(j) ==
    /\ \A t \in Tasks : task[j][t] # "new" => t \in Requested(t[1])
    /\ \A t \in Tasks : task[j][t] \in Live => phase[j] = t[1]
    /\ \A k \in Transfers : transfers[j][k] = "ok" => AllOk(j, k)
    /\ phase[j] \in {"tar", "download"} =>
          AllOk(j, "upload") \/ transfers[j]["upload"] = "err"
    /\ phase[j] \in {"select", "payload"} => \A k \in Transfers : AllOk(j, k)
    /\ failed[j] => phase[j] \in {"close", "done"}
    /\ phase[j] \in AfterSudo /\ opts.count["payload"] > 0 /\ SudoNeeded(j) =>
          sudo[j] = "available"
    /\ \A t \in Requested("payload") : task[j][t] # "new" =>
          /\ phase[j] \in {"payload", "close", "done"}
          /\ \A k \in Transfers : AllOk(j, k)
          /\ SudoNeeded(j) => sudo[j] = "available"

OrderInv == \A j \in Jobs : JobInv(j)

\* Kinds that were not asked for are complete.
LEMMA NothingAsked ==
    ASSUME TypeOK, NEW j \in Jobs, NEW k \in Kinds, ~(opts.count[k] > 0)
    PROVE  Requested(k) = {} /\ AllOk(j, k)
<1>1. opts.count[k] \in Nat  BY OptionsAssumption, BoundsAssumption DEF TypeOK, OptionSet
<1>2. \A t \in Tasks : t[2] \in Nat \ {0}  BY BoundsAssumption DEF Tasks
<1> QED  BY <1>1, <1>2 DEF Requested, AllOk

\* A step leaves alone every job that finds its own part of the state unchanged.
LEMMA JobInvStable ==
    ASSUME NEW j \in Jobs, JobInv(j), opts' = opts, phase'[j] = phase[j], task'[j] = task[j],
           sudo'[j] = sudo[j], transfers'[j] = transfers[j], failed'[j] = failed[j]
    PROVE  JobInv(j)'
<1>1. /\ \A k : Requested(k)' = Requested(k) /\ AllOk(j, k)' = AllOk(j, k)
      /\ SudoNeeded(j)' = SudoNeeded(j)
  BY DEF Requested, AllOk, SudoNeeded
<1> QED  BY <1>1 DEF JobInv

\* What any worker's step does: it moves a worker that is not settled, and a
\* worker that starts belongs to the phase.
LEMMA TaskStepEffect ==
    ASSUME NEW j \in Jobs, NEW t \in Tasks, TaskStep(j, t)
    PROVE  /\ \E s \in (Pending \union Settled) \ {"new"} : SetTask(j, t, s)
           /\ task[j][t] \in Pending
           /\ task[j][t] \in Live \/ (t \in Requested(t[1]) /\ phase[j] = t[1])
           /\ UNCHANGED <<opts, phase, sudo, transfers, failed>>
<1> USE DEF poolVars, hostVars, resultVars, Pending, Settled, Live
<1>1. CASE Dispatch(j, t)  BY <1>1 DEF Dispatch
<1>2. CASE AcquireSlot(j, t)  BY <1>2 DEF AcquireSlot
<1>3. CASE RefuseDownload(j, t)  BY <1>3 DEF RefuseDownload
<1>4. CASE Send(j, t)  BY <1>4 DEF Send
<1>5. CASE NotSent(j, t)  BY <1>5 DEF NotSent, Settle
<1>6. CASE FinishOk(j, t)  BY <1>6 DEF FinishOk, Settle
<1>7. CASE FinishFailed(j, t)  BY <1>7 DEF FinishFailed, Settle
<1>8. CASE FinishTimeout(j, t)  BY <1>8 DEF FinishTimeout, Settle
<1> QED  BY <1>1, <1>2, <1>3, <1>4, <1>5, <1>6, <1>7, <1>8 DEF TaskStep

LEMMA OrderTaskStep ==
    ASSUME TypeOK, OrderInv, NEW j \in Jobs, NEW t \in Tasks, TaskStep(j, t)
    PROVE  OrderInv'
<1>1. PICK s \in (Pending \union Settled) \ {"new"} : SetTask(j, t, s)  BY TaskStepEffect
<1>2. /\ task[j][t] \in Pending
      /\ task[j][t] \in Live \/ (t \in Requested(t[1]) /\ phase[j] = t[1])
      /\ UNCHANGED <<opts, phase, sudo, transfers, failed>>
  BY TaskStepEffect
<1>3. \A i \in Jobs, u \in Tasks :
         task'[i][u] = IF i = j /\ u = t THEN s ELSE task[i][u]
  BY <1>1 DEF SetTask, TypeOK
<1>4. \A i \in Jobs : i # j => task'[i] = task[i]  BY <1>1 DEF SetTask, TypeOK
<1>5. ASSUME NEW i \in Jobs, i # j PROVE JobInv(i)'
  BY <1>2, <1>4, <1>5, JobInvStable DEF OrderInv
<1>6. \A k : Requested(k)' = Requested(k) /\ (SudoNeeded(j)' = SudoNeeded(j))
  BY <1>2 DEF Requested, SudoNeeded
<1>7. \A k : AllOk(j, k) => AllOk(j, k)'
  BY <1>2, <1>3, <1>6 DEF AllOk, Requested, Pending
<1>8. t \in Requested(t[1]) /\ phase[j] = t[1]
  BY <1>2 DEF OrderInv, JobInv, Live
<1>9. t \in Requested("payload") =>
         /\ phase[j] = "payload"
         /\ opts.count["payload"] > 0
  <2>1. opts.count["payload"] \in Nat  BY OptionsAssumption, BoundsAssumption DEF TypeOK, OptionSet, Kinds
  <2>2. t[2] \in Nat \ {0}  BY BoundsAssumption DEF Tasks
  <2> QED  BY <1>8, <2>1, <2>2 DEF Requested
<1>10. JobInv(j)'
  <2> USE DEF OrderInv
  <2>1. \A u \in Tasks : task'[j][u] # "new" => u \in Requested(u[1])'
    BY <1>3, <1>6, <1>8 DEF JobInv
  <2>2. \A u \in Tasks : task'[j][u] \in Live => phase'[j] = u[1]
    BY <1>2, <1>3, <1>8 DEF JobInv
  <2>3. /\ \A k \in Transfers : transfers'[j][k] = "ok" => AllOk(j, k)'
        /\ phase'[j] \in {"tar", "download"} =>
              AllOk(j, "upload")' \/ transfers'[j]["upload"] = "err"
        /\ phase'[j] \in {"select", "payload"} => \A k \in Transfers : AllOk(j, k)'
    BY <1>2, <1>7 DEF JobInv
  <2>4. /\ failed'[j] => phase'[j] \in {"close", "done"}
        /\ phase'[j] \in AfterSudo /\ opts'.count["payload"] > 0 /\ SudoNeeded(j)' =>
              sudo'[j] = "available"
    BY <1>2, <1>6 DEF JobInv
  <2>5. \A u \in Requested("payload")' : task'[j][u] # "new" =>
          /\ phase'[j] \in {"payload", "close", "done"}
          /\ \A k \in Transfers : AllOk(j, k)'
          /\ SudoNeeded(j)' => sudo'[j] = "available"
    <3> SUFFICES ASSUME NEW u \in Requested("payload"), task'[j][u] # "new"
                 PROVE  /\ phase[j] \in {"payload", "close", "done"}
                        /\ \A k \in Transfers : AllOk(j, k)
                        /\ SudoNeeded(j) => sudo[j] = "available"
      BY <1>2, <1>6, <1>7
    <3>1. CASE u = t  BY <1>9, <3>1 DEF JobInv, AfterSudo
    <3>2. CASE u # t  BY <1>3, <3>2 DEF JobInv, Requested
    <3> QED  BY <3>1, <3>2
  <2> QED  BY <2>1, <2>2, <2>3, <2>4, <2>5 DEF JobInv
<1> QED  BY <1>5, <1>10 DEF OrderInv

\* The steps of a job's own goroutine come when none of its workers is live.
LEMMA NobodyLive ==
    ASSUME OrderInv, NEW j \in Jobs,
           phase[j] \notin Kinds \/ \E k \in Kinds : phase[j] = k /\ AllSettled(j, k)
    PROVE  \A t \in Tasks : task[j][t] \notin Live
<1> SUFFICES ASSUME NEW t \in Tasks, task[j][t] \in Live PROVE FALSE  OBVIOUS
<1>1. phase[j] = t[1] /\ t[1] \in Kinds  BY DEF OrderInv, JobInv, Tasks
<1>2. t \in Requested(t[1])  BY DEF OrderInv, JobInv, Live
<1>3. task[j][t] \in Settled  BY <1>1, <1>2 DEF AllSettled
<1> QED  BY <1>3 DEF Live, Settled

\* What such a step must not spoil.
LEMMA OrderJobStep ==
    ASSUME TypeOK, OrderInv, NEW j \in Jobs, NEW p \in Phases, GoTo(j, p),
           UNCHANGED <<opts, task>>,
           phase[j] \notin Kinds \/ \E k \in Kinds : phase[j] = k /\ AllSettled(j, k),
           \A i \in Jobs : i # j => /\ sudo'[i] = sudo[i] /\ transfers'[i] = transfers[i]
                                    /\ failed'[i] = failed[i],
           \A k \in Transfers : transfers'[j][k] = "ok" =>
               transfers[j][k] = "ok" \/ AllOk(j, k),
           p \in {"tar", "download"} => AllOk(j, "upload") \/ transfers'[j]["upload"] = "err",
           p \in {"select", "payload"} => \A k \in Transfers : AllOk(j, k),
           failed'[j] => p \in {"close", "done"},
           p \in AfterSudo /\ opts.count["payload"] > 0 /\ SudoNeeded(j) =>
               sudo'[j] = "available",
           phase[j] \in {"payload", "close", "done"} =>
               p \in {"close", "done"} /\ sudo'[j] = sudo[j]
    PROVE  OrderInv'
<1>1. \A i \in Jobs : phase'[i] = IF i = j THEN p ELSE phase[i]  BY PhaseMove
<1>2. ASSUME NEW i \in Jobs, i # j PROVE JobInv(i)'
  BY <1>1, <1>2, JobInvStable DEF OrderInv
<1>3. /\ \A k : Requested(k)' = Requested(k) /\ AllOk(j, k)' = AllOk(j, k)
      /\ SudoNeeded(j)' = SudoNeeded(j)
  BY DEF Requested, AllOk, SudoNeeded
<1>4. \A t \in Tasks : task'[j][t] \notin Live  BY NobodyLive
<1>5. JobInv(j)  BY DEF OrderInv
<1>6. \A t \in Tasks : task'[j][t] # "new" => t \in Requested(t[1])'
  BY <1>3, <1>5 DEF JobInv
<1>7. \A k \in Transfers : transfers'[j][k] = "ok" => AllOk(j, k)'
  BY <1>3, <1>5 DEF JobInv
<1>8. \A t \in Requested("payload")' : task'[j][t] # "new" =>
          /\ phase'[j] \in {"payload", "close", "done"}
          /\ \A k \in Transfers : AllOk(j, k)'
          /\ SudoNeeded(j)' => sudo'[j] = "available"
  BY <1>1, <1>3, <1>5 DEF JobInv
<1>9. JobInv(j)'
  BY <1>1, <1>3, <1>4, <1>6, <1>7, <1>8 DEF JobInv
<1> QED  BY <1>2, <1>9 DEF OrderInv

LEMMA OrderJobSteps ==
    ASSUME TypeOK, OrderInv, NEW j \in Jobs, Begin(j) \/ JobStep(j)
    PROVE  OrderInv'
<1> USE DEF poolVars, hostVars, resultVars
<1>1. /\ failed \in [Jobs -> BOOLEAN] /\ phase \in [Jobs -> Phases]
      /\ transfers \in [Jobs -> [Transfers -> {"none", "ok", "err"}]]
      /\ sudo \in [Jobs -> {"unknown", "not_needed", "available", "failed"}]
  BY DEF TypeOK
<1>2. JobInv(j)  BY DEF OrderInv
<1>3. \A k \in Kinds : opts.count[k] > 0 \/ AllOk(j, k)  BY NothingAsked
<1>4. failed[j] => phase[j] \in {"close", "done"}  BY <1>2 DEF JobInv
<1> USE DEF Kinds, Transfers, AfterSudo, Phases
\* Before the transfers, nothing but the phase, an early failure and the sudo
\* decision can change.
<1>5. ASSUME NEW p \in Phases, GoTo(j, p), UNCHANGED <<opts, task, transfers>>,
             phase[j] \notin Kinds, phase[j] \notin {"close", "done"},
             \A i \in Jobs : i # j => sudo'[i] = sudo[i],
             UNCHANGED failed \/ (p = "close" /\ failed' = [failed EXCEPT ![j] = TRUE]),
             p \in {"tar", "download"} => AllOk(j, "upload") \/ transfers[j]["upload"] = "err",
             p \in {"select", "payload"} => \A k \in Transfers : AllOk(j, k),
             p \in AfterSudo /\ opts.count["payload"] > 0 /\ SudoNeeded(j) =>
                 sudo'[j] = "available"
      PROVE  OrderInv'
  <2>1. failed'[j] => p \in {"close", "done"}  BY <1>1, <1>4, <1>5
  <2>2. \A i \in Jobs : i # j => failed'[i] = failed[i]  BY <1>1, <1>5
  <2>3. phase[j] \notin {"payload", "close", "done"}  BY <1>5
  <2> QED  BY <1>5, <2>1, <2>2, <2>3, OrderJobStep
<1>6. CASE Begin(j)  BY <1>5, <1>6 DEF Begin
<1>7. CASE Prepare(j)  BY <1>5, <1>7 DEF Prepare, Abort
<1>8. CASE ResolveHostname(j)  BY <1>5, <1>8 DEF ResolveHostname
<1>9. CASE Reserve(j)
  <2>1. opts.count["payload"] \in Nat  BY OptionsAssumption, BoundsAssumption DEF TypeOK, OptionSet
  <2> QED  BY <1>5, <1>9, <2>1 DEF Reserve, Abort
<1>10. CASE CheckShell(j)  BY <1>5, <1>10 DEF CheckShell, Abort
<1>11. CASE DecideSudo(j)
  <2>1. \A i \in Jobs : i # j => sudo'[i] = sudo[i]  BY <1>1, <1>11 DEF DecideSudo
  <2>2. CASE GoTo(j, "rsync") /\ UNCHANGED failed /\ (SudoNeeded(j) => sudo'[j] = "available")
    BY <1>5, <1>11, <2>1, <2>2 DEF DecideSudo
  <2>3. CASE Abort(j)
    BY <1>5, <1>11, <2>1, <2>3 DEF DecideSudo, Abort
  <2> QED  BY <1>1, <1>11, <2>2, <2>3 DEF DecideSudo
\* From here on the sudo decision stands.
<1>12. phase[j] \in AfterSudo /\ opts.count["payload"] > 0 /\ SudoNeeded(j) =>
          sudo[j] = "available"
  BY <1>2 DEF JobInv
<1>13. AfterTransfers \in {"close", "select", "payload"} /\
          (AfterTransfers # "close" => opts.count["payload"] > 0)
  <2>1. opts.count["payload"] \in Nat  BY OptionsAssumption, BoundsAssumption DEF TypeOK, OptionSet
  <2> QED  BY <2>1 DEF AfterTransfers
<1>14. CASE RsyncAcquire(j)
  <2>1. CASE TransfersRequested # {}  BY <1>5, <1>12, <1>14, <2>1 DEF RsyncAcquire
  <2>2. CASE TransfersRequested = {}
    <3>1. \A k \in Transfers : AllOk(j, k)  BY <1>3, <2>2 DEF TransfersRequested
    <3> QED  BY <1>5, <1>12, <1>13, <1>14, <2>2, <3>1 DEF RsyncAcquire
  <2> QED  BY <2>1, <2>2
<1>15. ASSUME NEW b, RsyncDecided(j, b), phase[j] \in SlotPhases,
              UNCHANGED <<opts, task, sudo, transfers, failed>>
       PROVE  OrderInv'
  <2>1. CASE opts.count["upload"] > 0
    <3>1. GoTo(j, "upload")  BY <1>15, <2>1 DEF RsyncDecided
    <3> QED  BY <1>5, <1>12, <1>15, <3>1 DEF SlotPhases
  <2>2. CASE ~(opts.count["upload"] > 0)
    <3>1. GoTo(j, "tar")  BY <1>15, <2>2 DEF RsyncDecided
    <3>2. AllOk(j, "upload")  BY <1>3, <2>2
    <3> QED  BY <1>5, <1>12, <1>15, <3>1, <3>2 DEF SlotPhases
  <2> QED  BY <2>1, <2>2
<1>16. CASE RsyncProbe(j)
  <2>1. CASE GoTo(j, "install") /\ UNCHANGED <<conn, rsync, slots>>
    BY <1>5, <1>12, <1>16, <2>1 DEF RsyncProbe
  <2>2. CASE \E b \in BOOLEAN : RsyncDecided(j, b)
    BY <1>15, <1>16, <2>2 DEF RsyncProbe, SlotPhases
  <2> QED  BY <1>16, <2>1, <2>2 DEF RsyncProbe
<1>17. CASE StartInstall(j)  BY <1>5, <1>12, <1>17 DEF StartInstall, RegisterAttempt
<1>18. CASE JoinInstall(j)
  <2>1. CASE GoTo(j, "verify")  BY <1>5, <1>12, <1>18, <2>1 DEF JoinInstall
  <2>2. CASE RsyncDecided(j, FALSE)  BY <1>15, <1>18, <2>2 DEF JoinInstall, SlotPhases
  <2> QED  BY <1>18, <2>1, <2>2 DEF JoinInstall
<1>19. CASE FinishInstall(j)
  <2>1. CASE GoTo(j, "verify")  BY <1>5, <1>12, <1>19, <2>1 DEF FinishInstall
  <2>2. CASE RsyncDecided(j, FALSE)  BY <1>15, <1>19, <2>2 DEF FinishInstall, SlotPhases
  <2> QED  BY <1>19, <2>1, <2>2 DEF FinishInstall
<1>20. CASE RsyncVerify(j)  BY <1>15, <1>20 DEF RsyncVerify, SlotPhases
<1>21. CASE SelectScheduler(j)
  <2>1. \A k \in Transfers : AllOk(j, k)  BY <1>2, <1>21 DEF JobInv, SelectScheduler
  <2> QED  BY <1>5, <1>12, <1>21, <2>1 DEF SelectScheduler, Abort
\* The joins record a result.
<1>22. ASSUME NEW k \in Transfers, NEW ok, RecordTransfer(j, k, ok)
       PROVE  /\ \A i \in Jobs : i # j => transfers'[i] = transfers[i]
              /\ transfers'[j][k] = IF ok THEN "ok" ELSE "err"
              /\ \A l \in Transfers : l # k => transfers'[j][l] = transfers[j][l]
  BY <1>1, <1>22 DEF RecordTransfer
<1>23. CASE JoinUploads(j)
  <2>1. /\ phase[j] = "upload" /\ AllSettled(j, "upload")
        /\ RecordTransfer(j, "upload", AllOk(j, "upload"))
        /\ UNCHANGED <<opts, task, sudo, failed>>
    BY <1>23 DEF JoinUploads
  <2>2. /\ \A i \in Jobs : i # j => transfers'[i] = transfers[i]
        /\ transfers'[j]["upload"] = IF AllOk(j, "upload") THEN "ok" ELSE "err"
        /\ transfers'[j]["download"] = transfers[j]["download"]
    BY <1>22, <2>1
  <2>3. PICK p \in Phases : /\ GoTo(j, p) /\ p \in {"tar", "close", "select", "payload"}
                            /\ p \in {"select", "payload"} =>
                                 AllOk(j, "upload") /\ ~(opts.count["download"] > 0)
    BY <1>13, <1>23 DEF JoinUploads
  <2>4. p \in {"select", "payload"} => \A k \in Transfers : AllOk(j, k)  BY <1>3, <2>3
  <2> QED  BY <1>4, <1>12, <2>1, <2>2, <2>3, <2>4, OrderJobStep
<1>24. CASE ProbeTar(j)
  <2>1. CASE GoTo(j, "download") /\ UNCHANGED transfers
    <3>1. AllOk(j, "upload") \/ transfers[j]["upload"] = "err"  BY <1>2, <1>24 DEF JobInv, ProbeTar
    <3> QED  BY <1>5, <1>12, <1>24, <2>1, <3>1 DEF ProbeTar
  <2>2. CASE GoTo(j, "close") /\ RecordTransfer(j, "download", FALSE)
    <3>1. /\ \A i \in Jobs : i # j => transfers'[i] = transfers[i]
          /\ transfers'[j]["download"] = "err"
          /\ transfers'[j]["upload"] = transfers[j]["upload"]
      BY <1>22, <2>2
    <3>2. UNCHANGED <<opts, task, sudo, failed>> /\ phase[j] = "tar"  BY <1>24 DEF ProbeTar
    <3> QED  BY <1>4, <2>2, <3>1, <3>2, OrderJobStep
  <2> QED  BY <1>24, <2>1, <2>2 DEF ProbeTar
<1>25. CASE JoinDownloads(j)
  <2>1. /\ phase[j] = "download" /\ AllSettled(j, "download")
        /\ RecordTransfer(j, "download", AllOk(j, "download"))
        /\ UNCHANGED <<opts, task, sudo, failed>>
    BY <1>25 DEF JoinDownloads
  <2>2. /\ \A i \in Jobs : i # j => transfers'[i] = transfers[i]
        /\ transfers'[j]["download"] = IF AllOk(j, "download") THEN "ok" ELSE "err"
        /\ transfers'[j]["upload"] = transfers[j]["upload"]
    BY <1>22, <2>1
  <2>3. PICK p \in Phases : /\ GoTo(j, p) /\ p \in {"close", "select", "payload"}
                            /\ p \in {"select", "payload"} =>
                                 AllOk(j, "download") /\ ~TransferErr(j)
    BY <1>13, <1>25 DEF JoinDownloads
  <2>4. AllOk(j, "upload") \/ transfers[j]["upload"] = "err"  BY <1>2, <2>1 DEF JobInv
  <2>5. p \in {"select", "payload"} => \A k \in Transfers : AllOk(j, k)
    BY <2>3, <2>4 DEF TransferErr
  <2> QED  BY <1>4, <1>12, <2>1, <2>2, <2>3, <2>5, OrderJobStep
<1>26. CASE JoinPayloads(j)
  <2>1. /\ phase[j] = "payload" /\ AllSettled(j, "payload") /\ GoTo(j, "close")
        /\ UNCHANGED <<opts, task, sudo, transfers, failed>>
    BY <1>26 DEF JoinPayloads
  <2> QED  BY <1>4, <2>1, OrderJobStep
<1>27. CASE CloseClient(j)
  <2>1. /\ phase[j] = "close" /\ GoTo(j, "done")
        /\ UNCHANGED <<opts, task, sudo, transfers>>
        /\ \A i \in Jobs : i # j => failed'[i] = failed[i]
    BY <1>1, <1>27 DEF CloseClient
  <2> QED  BY <2>1, OrderJobStep
<1> QED  BY <1>6, <1>7, <1>8, <1>9, <1>10, <1>11, <1>14, <1>16, <1>17, <1>18, <1>19,
            <1>20, <1>21, <1>23, <1>24, <1>25, <1>26, <1>27 DEF JobStep

LEMMA OrderInit == Init => OrderInv
<1> SUFFICES ASSUME Init, NEW j \in Jobs PROVE JobInv(j)  BY DEF OrderInv
<1>1. \A t \in Tasks : task[j][t] = "new"  BY DEF Init
<1>2. /\ phase[j] = "idle" /\ ~failed[j]
      /\ \A k \in Transfers : transfers[j][k] = "none"
  BY DEF Init
<1> QED  BY <1>1, <1>2 DEF JobInv, Live, AfterSudo, Requested

LEMMA OrderNext == TypeOK /\ OrderInv /\ [Next]_vars => OrderInv'
<1> SUFFICES ASSUME TypeOK, OrderInv, [Next]_vars PROVE OrderInv'  OBVIOUS
<1>1. ASSUME UNCHANGED <<opts, phase, task, sudo, transfers, failed>> PROVE OrderInv'
  BY <1>1, JobInvStable DEF OrderInv
<1>2. CASE UNCHANGED vars  BY <1>1, <1>2 DEF vars
<1>3. ASSUME NEW j \in Jobs, CloseConn(j) PROVE OrderInv'
  BY <1>1, <1>3 DEF CloseConn, poolVars, hostVars, resultVars
<1>4. ASSUME NEW j \in Jobs, Begin(j) \/ JobStep(j) PROVE OrderInv'
  BY <1>4, OrderJobSteps
<1>5. ASSUME NEW j \in Jobs, NEW t \in Tasks, TaskStep(j, t) PROVE OrderInv'
  BY <1>5, OrderTaskStep
<1> QED  BY <1>2, <1>3, <1>4, <1>5 DEF Next, Work, Terminating

LEMMA OrderHolds == Spec => []OrderInv
<1> QED  BY TypeCorrect, OrderInit, OrderNext, PTL DEF Spec

\* Uploads, downloads and payloads of a job never overlap, and no worker outlives
\* the SsherWrapper call that started it.
THEOREM PhasesAreApart == Spec => []PhasesDoNotOverlap
<1>1. OrderInv => PhasesDoNotOverlap  BY DEF OrderInv, JobInv, PhasesDoNotOverlap
<1> QED  BY <1>1, OrderHolds, PTL

\* No command or script starts on a host whose requested transfers are missing or
\* partial (ssh.go:293-294), in any combination of failures and timeouts.
THEOREM TransfersComeFirst == Spec => []PayloadsAfterTransfers
<1>1. OrderInv => PayloadsAfterTransfers
  BY DEF OrderInv, JobInv, PayloadsAfterTransfers
<1> QED  BY <1>1, OrderHolds, PTL

\* With --sudo, no payload of a non-root login runs unprivileged.
THEOREM Privileged == Spec => []NeverUnprivileged
<1>1. OrderInv => NeverUnprivileged  BY DEF OrderInv, JobInv, NeverUnprivileged
<1> QED  BY <1>1, OrderHolds, PTL

\* As many payload entries as the command line counts.
LEMMA RequestedCount ==
    ASSUME TypeOK, NEW k \in Kinds
    PROVE  /\ IsFiniteSet(Requested(k)) /\ Cardinality(Requested(k)) = opts.count[k]
           /\ opts.count[k] \in Nat
<1>1. opts.count[k] \in 0 .. MaxTasks /\ opts.count[k] \in Nat
  BY OptionsAssumption, BoundsAssumption DEF TypeOK, OptionSet
<1>2. Requested(k) = {k} \X (1 .. opts.count[k])
  BY <1>1, BoundsAssumption DEF Requested, Tasks
<1>3. \A n \in Nat : IsFiniteSet(1 .. n) /\ Cardinality(1 .. n) = n
  <2> SUFFICES ASSUME NEW n \in Nat PROVE IsFiniteSet(1 .. n) /\ Cardinality(1 .. n) = n
    OBVIOUS
  <2>1. IsFiniteSet(1 .. n) /\ Cardinality(1 .. n) = IF 1 > n THEN 0 ELSE n - 1 + 1
    BY FS_Interval
  <2> QED  BY <2>1
<1>4. IsFiniteSet({k}) /\ Cardinality({k}) = 1  BY FS_Singleton
<1>5. \A n \in Nat : IsFiniteSet({k} \X (1 .. n)) /\ Cardinality({k} \X (1 .. n)) = n
  <2> SUFFICES ASSUME NEW n \in Nat
               PROVE  IsFiniteSet({k} \X (1 .. n)) /\ Cardinality({k} \X (1 .. n)) = n
    OBVIOUS
  <2>1. IsFiniteSet({k} \X (1 .. n))
          /\ Cardinality({k} \X (1 .. n)) = Cardinality({k}) * Cardinality(1 .. n)
    BY <1>3, <1>4, FS_Product
  <2> QED  BY <1>3, <1>4, <2>1
<1> QED  BY <1>1, <1>2, <1>5

\* A host job that HostWorkResult.Error calls a success did everything it was
\* asked to do.
THEOREM SuccessMeansComplete == Spec => []SuccessIsComplete
<1>1. ASSUME TypeOK, OrderInv PROVE SuccessIsComplete
  <2> SUFFICES ASSUME NEW j \in Jobs, ~WorkError(j), NEW k \in Kinds, NEW t \in Requested(k)
               PROVE  task[j][t] = "ok"
    BY DEF SuccessIsComplete, AllRequested
  <2> USE <1>1
  <2>1. CASE k = "payload"
    <3>1. Attempted(j) \subseteq Requested("payload")  BY DEF Attempted
    <3>2. Cardinality(Attempted(j)) = Cardinality(Requested("payload"))
      BY RequestedCount DEF WorkError, Kinds
    <3>3. Attempted(j) = Requested("payload")
      BY <3>1, <3>2, RequestedCount, FS_Subset DEF Kinds
    <3> QED  BY <2>1, <3>3 DEF WorkError
  <2>2. CASE k \in Transfers
    <3>1. opts.count[k] > 0  BY NothingAsked
    <3>2. transfers[j][k] # "none"  BY <2>2, <3>1 DEF WorkError, TransfersRequested
    <3>3. transfers[j][k] = "ok"  BY <2>2, <3>2 DEF WorkError, TransferErr, TypeOK
    <3> QED  BY <2>2, <3>3 DEF OrderInv, JobInv, AllOk
  <2> QED  BY <2>1, <2>2 DEF Kinds, Transfers
<1> QED  BY <1>1, TypeCorrect, OrderHolds, PTL

-----------------------------------------------------------------------------
(* 3. The installation of rsync.                                           *)

Installing(k) == {j \in Jobs : phase[j] = "installing" /\ InstallKey[j] = k}

\* As sets: an attempt that is marked running has one installer, the others have none.
LEMMA OneInstaller ==
    ASSUME NEW k \in InstallKeys
    PROVE  /\ Cardinality(Installing(k)) = 0 <=> Installing(k) = {}
           /\ Cardinality(Installing(k)) = 1 <=> \E j \in Jobs : Installing(k) = {j}
<1>1. Installing(k) \subseteq Jobs  BY DEF Installing
<1>2. IsFiniteSet(Installing(k))  BY <1>1, JobsAssumption, FS_Subset
<1>3. Cardinality(Installing(k)) = 0 <=> Installing(k) = {}  BY <1>2, FS_EmptySet
<1>4. Cardinality(Installing(k)) = 1 <=> \E j : Installing(k) = {j}  BY <1>2, FS_Singleton
<1> QED  BY <1>1, <1>3, <1>4

\* Only the first job with a key and the end of its attempt touch the installation.
LEMMA InstallUntouched ==
    ASSUME TypeOK, NEW j \in Jobs, Begin(j) \/ JobStep(j), ~StartInstall(j), ~FinishInstall(j)
    PROVE  /\ UNCHANGED install
           /\ phase[j] # "installing" /\ \E p \in Phases \ {"installing"} : GoTo(j, p)
<1> USE DEF hostVars, Phases
<1>1. AfterTransfers \in Phases \ {"installing"}  BY DEF AfterTransfers
<1>2. ASSUME NEW b, RsyncDecided(j, b)
      PROVE  \E p \in Phases \ {"installing"} : GoTo(j, p)
  BY <1>2 DEF RsyncDecided
<1>3. CASE Begin(j)  BY <1>3 DEF Begin
<1>4. CASE Prepare(j)  BY <1>4 DEF Prepare, Abort
<1>5. CASE ResolveHostname(j)  BY <1>5 DEF ResolveHostname
<1>6. CASE Reserve(j)  BY <1>6 DEF Reserve, Abort
<1>7. CASE CheckShell(j)  BY <1>7 DEF CheckShell, Abort
<1>8. CASE DecideSudo(j)  BY <1>8 DEF DecideSudo, Abort
<1>9. CASE RsyncAcquire(j)  BY <1>1, <1>9 DEF RsyncAcquire
<1>10. CASE RsyncProbe(j)  BY <1>2, <1>10 DEF RsyncProbe
<1>11. CASE JoinInstall(j)  BY <1>2, <1>11 DEF JoinInstall
<1>12. CASE RsyncVerify(j)  BY <1>2, <1>12 DEF RsyncVerify
<1>13. CASE JoinUploads(j)  BY <1>1, <1>13 DEF JoinUploads
<1>14. CASE ProbeTar(j)  BY <1>14 DEF ProbeTar
<1>15. CASE JoinDownloads(j)  BY <1>1, <1>15 DEF JoinDownloads
<1>16. CASE SelectScheduler(j)  BY <1>16 DEF SelectScheduler, Abort
<1>17. CASE JoinPayloads(j)  BY <1>17 DEF JoinPayloads
<1>18. CASE CloseClient(j)  BY <1>18 DEF CloseClient
<1> QED  BY <1>3, <1>4, <1>5, <1>6, <1>7, <1>8, <1>9, <1>10, <1>11, <1>12, <1>13, <1>14,
            <1>15, <1>16, <1>17, <1>18 DEF JobStep

\* The attempt of a job's key becomes running with the job as its installer, or ends.
LEMMA InstallMove ==
    ASSUME TypeOK, NEW j \in Jobs, StartInstall(j) \/ FinishInstall(j)
    PROVE  \E s \in {"running", "ok", "failed"}, p \in Phases :
              /\ GoTo(j, p) /\ (p = "installing" <=> s = "running")
              /\ phase[j] = IF s = "running" THEN "install" ELSE "installing"
              /\ s = "running" => install[InstallKey[j]] = "none"
              /\ install' = [install EXCEPT ![InstallKey[j]] = s]
<1>1. ASSUME NEW b, RsyncDecided(j, b)
      PROVE  \E p \in Phases \ {"installing"} : GoTo(j, p)
  BY <1>1 DEF RsyncDecided, Phases
<1>2. CASE StartInstall(j)  BY <1>2 DEF StartInstall, RegisterAttempt, Phases
<1>3. CASE FinishInstall(j)
  <2>1. CASE GoTo(j, "verify") /\ install' = [install EXCEPT ![InstallKey[j]] = "ok"]
    BY <1>3, <2>1 DEF FinishInstall, Phases
  <2>2. CASE RsyncDecided(j, FALSE) /\ install' = [install EXCEPT ![InstallKey[j]] = "failed"]
    BY <1>1, <1>3, <2>2 DEF FinishInstall
  <2> QED  BY <1>3, <2>1, <2>2 DEF FinishInstall
<1> QED  BY <1>2, <1>3

LEMMA InstallNext == TypeOK /\ InstallerExists /\ [Next]_vars => InstallerExists'
<1> SUFFICES ASSUME TypeOK, InstallerExists, [Next]_vars PROVE InstallerExists'  OBVIOUS
<1> USE DEF InstallerExists
<1>1. \A k \in InstallKeys :
         Cardinality(Installing(k)) = IF install[k] = "running" THEN 1 ELSE 0
  BY DEF Installing
<1>2. SUFFICES \A k \in InstallKeys :
         Cardinality(Installing(k)') = IF install'[k] = "running" THEN 1 ELSE 0
  BY DEF Installing
<1>3. ASSUME UNCHANGED install,
             \A i \in Jobs : phase'[i] = "installing" <=> phase[i] = "installing"
      PROVE  \A k \in InstallKeys : /\ Installing(k)' = Installing(k)
                                    /\ install'[k] = install[k]
  BY <1>3 DEF Installing
<1>4. ASSUME UNCHANGED <<phase, install>>
      PROVE  \A k \in InstallKeys : /\ Installing(k)' = Installing(k)
                                    /\ install'[k] = install[k]
  BY <1>3, <1>4
<1>5. CASE UNCHANGED vars  BY <1>1, <1>4, <1>5 DEF vars
<1>6. ASSUME NEW j \in Jobs, CloseConn(j)
      PROVE  \A k \in InstallKeys : /\ Installing(k)' = Installing(k)
                                    /\ install'[k] = install[k]
  BY <1>4, <1>6 DEF CloseConn, hostVars
<1>7. ASSUME NEW j \in Jobs, NEW t \in Tasks, TaskStep(j, t)
      PROVE  \A k \in InstallKeys : /\ Installing(k)' = Installing(k)
                                    /\ install'[k] = install[k]
  <2>1. UNCHANGED <<phase, install>>
    BY <1>7 DEF TaskStep, Dispatch, AcquireSlot, RefuseDownload, Send, NotSent, FinishOk,
                FinishFailed, FinishTimeout, hostVars
  <2> QED  BY <1>4, <2>1
<1>8. ASSUME NEW j \in Jobs, Begin(j) \/ JobStep(j), ~StartInstall(j), ~FinishInstall(j)
      PROVE  \A k \in InstallKeys : /\ Installing(k)' = Installing(k)
                                    /\ install'[k] = install[k]
  <2>1. UNCHANGED install /\ phase[j] # "installing"  BY <1>8, InstallUntouched
  <2>2. PICK p \in Phases \ {"installing"} : GoTo(j, p)  BY <1>8, InstallUntouched
  <2>3. \A i \in Jobs : phase'[i] = IF i = j THEN p ELSE phase[i]  BY <2>2, PhaseMove
  <2> QED  BY <1>3, <2>1, <2>3
<1>9. ASSUME NEW j \in Jobs, StartInstall(j) \/ FinishInstall(j), NEW k \in InstallKeys
      PROVE  Cardinality(Installing(k)') = IF install'[k] = "running" THEN 1 ELSE 0
  <2>1. PICK s \in {"running", "ok", "failed"}, p \in Phases :
              /\ GoTo(j, p) /\ (p = "installing" <=> s = "running")
              /\ phase[j] = IF s = "running" THEN "install" ELSE "installing"
              /\ s = "running" => install[InstallKey[j]] = "none"
              /\ install' = [install EXCEPT ![InstallKey[j]] = s]
    BY <1>9, InstallMove
  <2>2. \A i \in Jobs : phase'[i] = IF i = j THEN p ELSE phase[i]  BY <2>1, PhaseMove
  <2>3. install \in [InstallKeys -> {"none", "running", "ok", "failed"}]  BY DEF TypeOK
  <2>4. CASE InstallKey[j] # k
    <3>1. Installing(k)' = Installing(k)  BY <2>2, <2>4 DEF Installing
    <3>2. install'[k] = install[k]  BY <2>1, <2>3, <2>4
    <3> QED  BY <1>1, <3>1, <3>2
  <2>5. CASE InstallKey[j] = k /\ s = "running"
    <3>1. Installing(k) = {}  BY <1>1, <2>1, <2>5, OneInstaller
    <3>2. Installing(k)' = {j}  BY <2>1, <2>2, <2>5, <3>1 DEF Installing
    <3>3. install'[k] = "running"  BY <2>1, <2>3, <2>5
    <3> QED  BY <3>2, <3>3, FS_Singleton
  <2>6. CASE InstallKey[j] = k /\ s # "running"
    <3>1. j \in Installing(k)  BY <2>1, <2>6 DEF Installing
    <3>2. Installing(k) = {j}  BY <1>1, <3>1, OneInstaller
    <3>3. Installing(k)' = {}  BY <2>1, <2>2, <2>6, <3>2 DEF Installing
    <3>4. install'[k] # "running"  BY <2>1, <2>3, <2>6
    <3> QED  BY <3>3, <3>4, FS_EmptySet
  <2> QED  BY <2>4, <2>5, <2>6
<1> QED  BY <1>1, <1>5, <1>6, <1>7, <1>8, <1>9 DEF Next, Work, Terminating

\* Whoever waits for an installation waits for a job that is at it, and there is one
\* for each user@ip:port, also when several targets are the same machine (rsync.go).
THEOREM InstallerIsThere == Spec => []InstallerExists
<1>1. Init => InstallerExists
  <2> SUFFICES ASSUME Init PROVE InstallerExists  OBVIOUS
  <2>1. \A j \in Jobs : phase[j] = "idle"  BY DEF Init
  <2>2. \A k \in InstallKeys : Installing(k) = {} /\ install[k] = "none"
    BY <2>1 DEF Init, Installing
  <2> QED  BY <2>2, FS_EmptySet DEF InstallerExists, Installing
<1> QED  BY <1>1, TypeCorrect, InstallNext, PTL DEF Spec

\* The outcome of an installation is final: no later job tries again, or makes one
\* that failed look good.
THEOREM InstalledOnce == Spec => InstallIsMemoized
<1> DEFINE Memo == \A k \in InstallKeys : install[k] \in {"ok", "failed"} =>
                                              install'[k] = install[k]
<1>1. ASSUME TypeOK, InstallerExists, [Next]_vars PROVE Memo
  <2>1. ASSUME UNCHANGED install PROVE Memo  BY <2>1
  <2>2. ASSUME NEW j \in Jobs, StartInstall(j) \/ FinishInstall(j) PROVE Memo
    <3>1. PICK s \in {"running", "ok", "failed"} :
              /\ phase[j] = IF s = "running" THEN "install" ELSE "installing"
              /\ s = "running" => install[InstallKey[j]] = "none"
              /\ install' = [install EXCEPT ![InstallKey[j]] = s]
      BY <1>1, <2>2, InstallMove
    <3>2. install \in [InstallKeys -> {"none", "running", "ok", "failed"}]  BY <1>1 DEF TypeOK
    <3>3. InstallKey[j] \in InstallKeys  BY JobsAssumption
    <3>4. s # "running" => j \in Installing(InstallKey[j])  BY <3>1 DEF Installing
    <3>5. s # "running" => install[InstallKey[j]] = "running"
      BY <1>1, <3>3, <3>4, OneInstaller DEF InstallerExists, Installing
    <3> QED  BY <3>1, <3>2, <3>5
  <2>3. ASSUME NEW j \in Jobs, Begin(j) \/ JobStep(j) PROVE Memo
    BY <1>1, <2>1, <2>2, <2>3, InstallUntouched
  <2>4. ASSUME NEW j \in Jobs, CloseConn(j) \/ \E t \in Tasks : TaskStep(j, t) PROVE Memo
    BY <2>1, <2>4 DEF CloseConn, TaskStep, Dispatch, AcquireSlot, RefuseDownload, Send,
         NotSent, FinishOk, FinishFailed, FinishTimeout, hostVars
  <2>5. CASE UNCHANGED vars  BY <2>1, <2>5 DEF vars
  <2> QED  BY <1>1, <2>3, <2>4, <2>5 DEF Next, Work, Terminating
<1>2. TypeOK /\ InstallerExists /\ [Next]_vars => [Memo]_vars  BY <1>1
<1> QED  BY <1>2, TypeCorrect, InstallerIsThere, PTL DEF Spec, InstallIsMemoized

-----------------------------------------------------------------------------
(* 4. HostWork implements HostJob.                                         *)

StatusOf == [j \in Jobs |-> Status(j)]
VerdictOf == [j \in Jobs |-> [t \in Tasks |-> Verdict(task[j][t])]]

\* The entries of HostJob are the tasks, and kinds are apart.
LEMMA EntriesAreTasks ==
    /\ Job!Entry = Tasks
    /\ \A t \in Tasks : t \in Transfers \X (1 .. MaxTasks) <=> t[1] \in Transfers
    /\ \A t \in Tasks : t \in {"payload"} \X (1 .. MaxTasks) <=> t[1] = "payload"
  BY DEF Job!Entry, Tasks, Kinds, Transfers

\* The status of a job is its own phase, and once it is done what it was left with.
LEMMA StatusStable ==
    ASSUME NEW j \in Jobs, opts' = opts, phase'[j] = phase[j],
           phase[j] = "done" => /\ task'[j] = task[j] /\ failed'[j] = failed[j]
                                /\ transfers'[j] = transfers[j]
    PROVE  Status(j)' = Status(j)
<1>1. CASE phase[j] # "done"  BY <1>1 DEF Status
<1>2. CASE phase[j] = "done"
  <2>1. \A k : Requested(k)' = Requested(k)  BY DEF Requested
  <2>2. Attempted(j)' = Attempted(j)  BY <1>2, <2>1 DEF Attempted
  <2>3. TransferErr(j)' = TransferErr(j)  BY <1>2 DEF TransferErr
  <2>4. TransfersRequested' = TransfersRequested  BY DEF TransfersRequested
  <2>5. WorkError(j)' = WorkError(j)  BY <1>2, <2>2, <2>3, <2>4 DEF WorkError
  <2> QED  BY <1>2, <2>5 DEF Status
<1> QED  BY <1>1, <1>2

\* A job's own goroutine leaves the entries and the other jobs' results alone, and
\* ends by closing its client.
LEMMA OwnSteps ==
    ASSUME TypeOK, NEW j \in Jobs, JobStep(j)
    PROVE  /\ UNCHANGED <<opts, task>>
           /\ phase[j] \notin {"idle", "done"}
           /\ \E p \in Phases \ {"idle"} : GoTo(j, p) /\ (p = "done" => CloseClient(j))
           /\ \A i \in Jobs : i # j => failed'[i] = failed[i] /\ transfers'[i] = transfers[i]
<1> USE DEF poolVars, resultVars
<1>1. /\ failed \in [Jobs -> BOOLEAN]
      /\ transfers \in [Jobs -> [Transfers -> {"none", "ok", "err"}]]
  BY DEF TypeOK
<1> DEFINE Others == \A i \in Jobs : i # j => failed'[i] = failed[i] /\ transfers'[i] = transfers[i]
           Moves == \E p \in Phases \ {"idle", "done"} : GoTo(j, p)
<1>2. ASSUME NEW k, NEW ok, RecordTransfer(j, k, ok), UNCHANGED failed PROVE Others
  BY <1>1, <1>2 DEF RecordTransfer
<1>3. ASSUME UNCHANGED transfers,
             UNCHANGED failed \/ failed' = [failed EXCEPT ![j] = TRUE]
      PROVE  Others
  BY <1>1, <1>3
<1>4. ASSUME NEW b, RsyncDecided(j, b) PROVE Moves
  BY <1>4 DEF RsyncDecided, Phases
<1>5. AfterTransfers \in Phases \ {"idle", "done"}  BY DEF AfterTransfers, Phases
<1>6. CASE \/ Prepare(j) \/ ResolveHostname(j) \/ Reserve(j) \/ CheckShell(j)
           \/ DecideSudo(j) \/ SelectScheduler(j)
  <2>1. Others
    BY <1>3, <1>6 DEF Prepare, ResolveHostname, Reserve, CheckShell, DecideSudo,
                      SelectScheduler, Abort
  <2>2. Moves
    BY <1>6 DEF Prepare, ResolveHostname, Reserve, CheckShell, DecideSudo, SelectScheduler,
                Abort, Phases
  <2> QED  BY <1>6, <2>1, <2>2 DEF Prepare, ResolveHostname, Reserve, CheckShell, DecideSudo,
                                   SelectScheduler
<1>7. CASE \/ RsyncAcquire(j) \/ RsyncProbe(j) \/ StartInstall(j) \/ JoinInstall(j)
           \/ FinishInstall(j) \/ RsyncVerify(j)
  <2>1. Others
    BY <1>3, <1>7 DEF RsyncAcquire, RsyncProbe, StartInstall, RegisterAttempt, JoinInstall,
                      FinishInstall, RsyncVerify
  <2>2. Moves
    BY <1>4, <1>5, <1>7 DEF RsyncAcquire, RsyncProbe, StartInstall, RegisterAttempt,
                            JoinInstall, FinishInstall, RsyncVerify, Phases
  <2> QED  BY <1>7, <2>1, <2>2 DEF RsyncAcquire, RsyncProbe, StartInstall, RegisterAttempt,
                                   JoinInstall, FinishInstall, RsyncVerify
<1>8. CASE JoinUploads(j) \/ ProbeTar(j) \/ JoinDownloads(j) \/ JoinPayloads(j)
  <2>1. Others
    BY <1>2, <1>3, <1>8 DEF JoinUploads, ProbeTar, JoinDownloads, JoinPayloads
  <2>2. Moves
    BY <1>5, <1>8 DEF JoinUploads, ProbeTar, JoinDownloads, JoinPayloads, Phases
  <2> QED  BY <1>8, <2>1, <2>2 DEF JoinUploads, ProbeTar, JoinDownloads, JoinPayloads
<1>9. CASE CloseClient(j)
  <2>1. Others  BY <1>3, <1>9 DEF CloseClient
  <2> QED  BY <1>9, <2>1 DEF CloseClient, Phases
<1> QED  BY <1>6, <1>7, <1>8, <1>9 DEF JobStep

\* A step that changes no entry and no job's status is none of HostJob's.
LEMMA Stutter ==
    ASSUME opts' = opts, task' = task, \A i \in Jobs : Status(i)' = Status(i)
    PROVE  UNCHANGED Job!jobVars
<1>1. AllRequested' = AllRequested  BY DEF AllRequested, Requested
<1>2. StatusOf' = StatusOf  BY DEF StatusOf
<1>3. VerdictOf' = VerdictOf  BY DEF VerdictOf
<1> QED  BY <1>1, <1>2, <1>3 DEF Job!jobVars, StatusOf, VerdictOf

\* The credentials are accepted.
LEMMA BeginStarts ==
    ASSUME TypeOK, NEW j \in Jobs, Begin(j)
    PROVE  Job!Start(j)
<1>1. /\ GoTo(j, "prepare") /\ phase[j] = "idle"
      /\ UNCHANGED <<opts, task, transfers, failed>>
  BY DEF Begin, poolVars, resultVars
<1>2. \A i \in Jobs : phase'[i] = IF i = j THEN "prepare" ELSE phase[i]
  BY <1>1, PhaseMove DEF Phases
<1>3. \A i \in Jobs : i # j => Status(i)' = Status(i)  BY <1>1, <1>2, StatusStable
<1>4. Status(j) = "idle" /\ Status(j)' = "working"  BY <1>1, <1>2 DEF Status
<1>5. StatusOf' = [StatusOf EXCEPT ![j] = "working"]  BY <1>3, <1>4 DEF StatusOf
<1>6. AllRequested' = AllRequested  BY <1>1 DEF AllRequested, Requested
<1>7. VerdictOf' = VerdictOf  BY <1>1 DEF VerdictOf
<1> QED  BY <1>4, <1>5, <1>6, <1>7 DEF Job!Start, StatusOf, VerdictOf

\* The result of a job: a success only if every entry went well.
LEMMA CloseConcludes ==
    ASSUME TypeOK, SuccessIsComplete', NEW j \in Jobs, CloseClient(j)
    PROVE  Job!Conclude(j)
<1>1. /\ GoTo(j, "done") /\ phase[j] = "close" /\ UNCHANGED <<opts, task>>
      /\ \A i \in Jobs : i # j => failed'[i] = failed[i] /\ transfers'[i] = transfers[i]
  BY OwnSteps DEF CloseClient, JobStep
<1>2. \A i \in Jobs : phase'[i] = IF i = j THEN "done" ELSE phase[i]
  BY <1>1, PhaseMove DEF Phases
<1>3. \A i \in Jobs : i # j => Status(i)' = Status(i)  BY <1>1, <1>2, StatusStable
<1>4. /\ Status(j) = "working" /\ Status(j)' \in {"failed", "succeeded"}
      /\ Status(j)' = "succeeded" => ~WorkError(j)'
  BY <1>1, <1>2 DEF Status
<1>5. StatusOf' = [StatusOf EXCEPT ![j] = Status(j)']  BY <1>3 DEF StatusOf
<1>6. AllRequested' = AllRequested  BY <1>1 DEF AllRequested, Requested
<1>7. VerdictOf' = VerdictOf  BY <1>1 DEF VerdictOf
<1>8. ASSUME ~WorkError(j)' PROVE Job!Unmet(j) = {}
  <2>1. \A t \in AllRequested : task[j][t] = "ok"
    BY <1>1, <1>2, <1>6, <1>8 DEF SuccessIsComplete
  <2>2. AllRequested \subseteq Tasks  BY DEF AllRequested, Requested
  <2> QED  BY <2>1, <2>2 DEF Job!Unmet, Verdict, Pending
<1>9. CASE Status(j)' = "succeeded"
  BY <1>4, <1>5, <1>6, <1>7, <1>8, <1>9 DEF Job!Conclude, StatusOf, VerdictOf
<1>10. CASE Status(j)' = "failed"
  BY <1>4, <1>5, <1>6, <1>7, <1>10 DEF Job!Conclude, StatusOf, VerdictOf
<1> QED  BY <1>4, <1>9, <1>10

\* A worker that settles decides its entry, a payload only after all the transfers.
LEMMA WorkerDecides ==
    ASSUME TypeOK, OrderInv, NEW j \in Jobs, NEW t \in Tasks, TaskStep(j, t)
    PROVE  Job!Decide(j, t) \/ UNCHANGED Job!jobVars
<1>1. PICK s \in (Pending \union Settled) \ {"new"} : SetTask(j, t, s)  BY TaskStepEffect
<1>2. /\ task[j][t] \in Pending
      /\ task[j][t] \in Live \/ (t \in Requested(t[1]) /\ phase[j] = t[1])
      /\ UNCHANGED <<opts, phase, sudo, transfers, failed>>
  BY TaskStepEffect
<1>3. JobInv(j)  BY DEF OrderInv
<1>4. t \in Requested(t[1]) /\ phase[j] = t[1] /\ t[1] \in Kinds
  BY <1>2, <1>3 DEF JobInv, Live, Tasks
<1>5. \A i \in Jobs : i # j => task'[i] = task[i]  BY <1>1 DEF SetTask, TypeOK
<1>6. \A i \in Jobs, u \in Tasks : task'[i][u] = IF i = j /\ u = t THEN s ELSE task[i][u]
  BY <1>1 DEF SetTask, TypeOK
<1>7. \A i \in Jobs : Status(i)' = Status(i)
  BY <1>2, <1>4, <1>5, StatusStable DEF Kinds
<1>8. AllRequested' = AllRequested  BY <1>2 DEF AllRequested, Requested
<1>9. StatusOf' = StatusOf  BY <1>7 DEF StatusOf
<1>10. VerdictOf' = [VerdictOf EXCEPT ![j][t] = Verdict(s)]
  <2> DEFINE Row(i) == [u \in Tasks |-> Verdict(task[i][u])]
  <2>1. \A i \in Jobs : i # j => Row(i)' = Row(i)  BY <1>5
  <2>2. Row(j)' = [Row(j) EXCEPT ![t] = Verdict(s)]  BY <1>6
  <2>3. VerdictOf = [i \in Jobs |-> Row(i)] /\ VerdictOf' = [i \in Jobs |-> Row(i)']
    BY DEF VerdictOf
  <2> HIDE DEF Row
  <2> QED  BY <2>1, <2>2, <2>3
<1>11. VerdictOf[j][t] = "pending"  BY <1>2 DEF VerdictOf, Verdict
<1>12. CASE s \in Pending
  <2>1. Verdict(s) = "pending"  BY <1>12 DEF Verdict
  <2>2. VerdictOf' = VerdictOf
    <3>1. [VerdictOf[j] EXCEPT ![t] = "pending"] = VerdictOf[j]  BY <1>11 DEF VerdictOf
    <3>2. [VerdictOf EXCEPT ![j] = VerdictOf[j]] = VerdictOf  BY DEF VerdictOf
    <3>3. VerdictOf' = [VerdictOf EXCEPT ![j] = [VerdictOf[j] EXCEPT ![t] = "pending"]]
      BY <1>10, <2>1
    <3> QED  BY <3>1, <3>2, <3>3
  <2> QED  BY <1>8, <1>9, <2>2 DEF Job!jobVars, StatusOf, VerdictOf
<1>13. CASE s \notin Pending
  <2>1. Verdict(s) \in {"ok", "bad"}  BY <1>13 DEF Verdict
  <2>2. Status(j) = "working"  BY <1>4 DEF Status, Kinds
  <2>3. t \in AllRequested  BY <1>4 DEF AllRequested
  <2>4. ASSUME t[1] = "payload" PROVE Job!Unmet(j) \intersect (Transfers \X (1 .. MaxTasks)) = {}
    <3>1. \A k \in Transfers : AllOk(j, k)  BY <1>3, <1>4, <2>4 DEF JobInv
    <3>2. \A u \in AllRequested : u[1] \in Transfers => task[j][u] = "ok"
      BY <3>1 DEF AllOk, AllRequested, Requested
    <3>3. AllRequested \subseteq Tasks  BY DEF AllRequested, Requested
    <3> QED  BY <3>2, <3>3, EntriesAreTasks DEF Job!Unmet, Verdict, Pending
  <2>5. Job!Decide(j, t)
    BY <1>8, <1>9, <1>10, <1>11, <2>1, <2>2, <2>3, <2>4, EntriesAreTasks
    DEF Job!Decide, StatusOf, VerdictOf
  <2> QED  BY <2>5
<1> QED  BY <1>12, <1>13

LEMMA ImplementsInit == Init => Job!JobInit
<1> SUFFICES ASSUME Init PROVE Job!JobInit  OBVIOUS
<1>1. \A j \in Jobs : phase[j] = "idle" /\ \A t \in Tasks : task[j][t] = "new"  BY DEF Init
<1>2. AllRequested \subseteq Job!Entry  BY EntriesAreTasks DEF AllRequested, Requested
<1>3. StatusOf = [j \in Jobs |-> "idle"]  BY <1>1 DEF StatusOf, Status
<1>4. VerdictOf = [j \in Jobs |-> [t \in Tasks |-> "pending"]]
  BY <1>1 DEF VerdictOf, Verdict, Pending
<1> QED  BY <1>2, <1>3, <1>4, EntriesAreTasks DEF Job!JobInit, StatusOf, VerdictOf

LEMMA ImplementsNext ==
    ASSUME TypeOK, OrderInv, SuccessIsComplete', [Next]_vars
    PROVE  [Job!JobNext]_(Job!jobVars)
<1>1. ASSUME UNCHANGED <<opts, phase, task, failed, transfers>> PROVE UNCHANGED Job!jobVars
  BY <1>1, StatusStable, Stutter
<1>2. CASE UNCHANGED vars  BY <1>1, <1>2 DEF vars
<1>3. ASSUME NEW j \in Jobs, CloseConn(j) PROVE UNCHANGED Job!jobVars
  BY <1>1, <1>3 DEF CloseConn, poolVars, resultVars
<1>4. ASSUME NEW j \in Jobs, Begin(j) PROVE Job!JobNext
  BY <1>4, BeginStarts DEF Job!JobNext
<1>5. ASSUME NEW j \in Jobs, JobStep(j) PROVE [Job!JobNext]_(Job!jobVars)
  <2>1. CASE CloseClient(j)  BY <2>1, CloseConcludes DEF Job!JobNext
  <2>2. CASE ~CloseClient(j)
    <3>1. /\ UNCHANGED <<opts, task>> /\ phase[j] \notin {"idle", "done"}
          /\ \A i \in Jobs : i # j => failed'[i] = failed[i] /\ transfers'[i] = transfers[i]
      BY <1>5, OwnSteps
    <3>2. PICK p \in Phases \ {"idle", "done"} : GoTo(j, p)  BY <1>5, <2>2, OwnSteps
    <3>3. \A i \in Jobs : phase'[i] = IF i = j THEN p ELSE phase[i]  BY <3>2, PhaseMove
    <3>4. Status(j)' = Status(j)  BY <3>1, <3>2, <3>3 DEF Status
    <3>5. \A i \in Jobs : i # j => Status(i)' = Status(i)  BY <3>1, <3>3, StatusStable
    <3> QED  BY <3>1, <3>4, <3>5, Stutter
  <2> QED  BY <2>1, <2>2
<1>6. ASSUME NEW j \in Jobs, NEW t \in Tasks, TaskStep(j, t)
      PROVE  [Job!JobNext]_(Job!jobVars)
  <2>1. Job!Decide(j, t) => Job!JobNext  BY EntriesAreTasks DEF Job!JobNext
  <2> QED  BY <1>6, <2>1, WorkerDecides
<1> QED  BY <1>2, <1>3, <1>4, <1>5, <1>6 DEF Next, Work, Terminating

\* What SsherWrapper promises the rest of the program, for every number of jobs and
\* entries: every step, with all it shares, is one of HostJob's or changes nothing there.
\* (That every job finishes is checked by a run.)
THEOREM WorkImplementsJob == Spec => Job!JobInit /\ [][Job!JobNext]_(Job!jobVars)
<1>1. TypeOK /\ OrderInv /\ SuccessIsComplete' /\ [Next]_vars => [Job!JobNext]_(Job!jobVars)
  BY ImplementsNext
<1> QED  BY <1>1, ImplementsInit, TypeCorrect, OrderHolds, SuccessMeansComplete, PTL DEF Spec

=============================================================================
