-------------------------- MODULE Transfer_proofs --------------------------
(***************************************************************************)
(* Theorems about Download and Upload.                                     *)
(*                                                                         *)
(* 1. Download, for every set of entries, hosts and paths: the             *)
(*    reservations keep concurrent entries out of each other's tree and    *)
(*    leave an earlier run alone. What they do not give, that a complete   *)
(*    download stays complete, is refuted by the run download_stale.       *)
(* 2. Upload, for any set of entries on one client: what is reported as    *)
(*    uploaded is complete, and the streaming fallback never runs beside   *)
(*    the rsync it replaces.                                               *)
(***************************************************************************)
EXTENDS Download, Upload, TLAPS

-----------------------------------------------------------------------------
(* 1. Downloads.                                                           *)

PastCheck == {e \in Entries : pc[e] \in Steps \ {"new", "check", "error", "ok"}}

\* The reservations held are pairwise disjoint trees, and an entry that passed
\* its check has nothing of an earlier run at or below its path.
ReserveInv ==
    /\ TypeOK
    /\ ReservationsAreReturned
    /\ \A e, f \in reserved : e # f => ~Overlap(Target[e], Target[f])
    /\ \A e \in PastCheck : Inside(Target[e]) \intersect before = {}
    /\ EarlierRunStays

LEMMA StepsDefined == Steps = {"new", "check", "reserve", "rsync", "tar", "gzip", "sftp",
                               "release_ok", "release_err", "ok", "error"}
  BY DEF Steps

\* An entry writes and clears at and below its target only, so the paths an
\* earlier run left, and those above them, keep what they hold.
LEMMA EarlierUntouched ==
    ASSUME ReserveInv, NEW e \in PastCheck, Write(e) \/ Clear(e) \/ UNCHANGED <<content, made>>,
           UNCHANGED before
    PROVE  /\ content' \in [Paths -> SUBSET (Entries \union {Earlier})]
           /\ made' \subseteq Paths
           /\ EarlierRunStays'
<1> USE DEF ReserveInv
<1>1. /\ content \in [Paths -> SUBSET (Entries \union {Earlier})]
      /\ before \subseteq Paths /\ e \in Entries /\ Target[e] \in Paths
  BY TargetsAssumption, PresentAssumption DEF TypeOK, PastCheck
<1>2. PICK touched \in SUBSET Inside(Target[e]) :
         /\ \A p \in Paths \ touched : content'[p] = content[p]
         /\ content' \in [Paths -> SUBSET (Entries \union {Earlier})]
  <2>1. CASE Write(e)
    <3>1. PICK below \in SUBSET Inside(Target[e]) :
             content' = [p \in Paths |-> IF p = Target[e] \/ p \in below
                                        THEN content[p] \union {e} ELSE content[p]]
      BY <2>1 DEF Write
    <3>2. Target[e] \in Inside(Target[e])  BY <1>1 DEF Inside
    <3>3. below \union {Target[e]} \in SUBSET Inside(Target[e])  BY <3>2
    <3> QED  BY <1>1, <3>1, <3>3
  <2>2. CASE Clear(e)
    <3>1. content' = [p \in Paths |-> IF p \in Inside(Target[e]) THEN {} ELSE content[p]]
      BY <2>2 DEF Clear
    <3> QED  BY <1>1, <3>1
  <2>3. CASE UNCHANGED <<content, made>>
    <3>1. {} \in SUBSET Inside(Target[e])  OBVIOUS
    <3> QED  BY <1>1, <2>3, <3>1
  <2> QED  BY <2>1, <2>2, <2>3
<1>3. Inside(Target[e]) \intersect before = {}  OBVIOUS
<1>4. \A p \in before : content'[p] = content[p]  BY <1>1, <1>2, <1>3
<1>5. ASSUME NEW p \in before, NEW q \in Paths, <<q, p>> \in Below
      PROVE  content'[q] = content[q]
  <2>1. q \notin Inside(Target[e])
    <3> SUFFICES ASSUME q \in Inside(Target[e]) PROVE FALSE  OBVIOUS
    <3>1. p \in Inside(Target[e])  BY <1>1, <1>5, BelowIsTransitive DEF Inside
    <3> QED  BY <1>3, <3>1
  <2> QED  BY <1>2, <2>1
<1>6. made' \subseteq Paths  BY DEF TypeOK, Write, Clear
<1> QED  BY <1>2, <1>4, <1>5, <1>6 DEF EarlierRunStays

LEMMA ReserveInit == Init => ReserveInv
<1> SUFFICES ASSUME Init PROVE ReserveInv  OBVIOUS
<1>1. TypeOK  BY PresentAssumption DEF Init, TypeOK, Steps
<1>2. ReservationsAreReturned  BY DEF Init, ReservationsAreReturned, Writing
<1>3. PastCheck = {} /\ reserved = {}  BY DEF Init, PastCheck
<1>4. EarlierRunStays  BY PresentAssumption DEF Init, EarlierRunStays
<1> QED  BY <1>1, <1>2, <1>3, <1>4 DEF ReserveInv

LEMMA ReserveNext == ReserveInv /\ [Next]_vars => ReserveInv'
<1> SUFFICES ASSUME ReserveInv, [Next]_vars PROVE ReserveInv'  OBVIOUS
<1> USE StepsDefined
<1>1. CASE UNCHANGED vars
  BY <1>1 DEF vars, ReserveInv, TypeOK, ReservationsAreReturned, Writing, PastCheck, Inside,
              EarlierRunStays, Overlap
<1>2. pc \in [Entries -> Steps]  BY DEF ReserveInv, TypeOK
\* A step that writes and reserves nothing.
<1>3. ASSUME NEW e \in Entries, NEW s \in Steps, GoTo(e, s), s # "ok",
             UNCHANGED <<tools, before, content, reserved>>, made' \subseteq Paths,
             pc[e] \in {"new", "check", "reserve"}, s \in {"check", "reserve", "error"},
             s = "reserve" => Inside(Target[e]) \intersect before = {}
      PROVE  ReserveInv'
  <2>1. \A f \in Entries : pc'[f] = IF f = e THEN s ELSE pc[f]  BY <1>2, <1>3 DEF GoTo
  <2>2. TypeOK'  BY <1>2, <1>3 DEF ReserveInv, TypeOK, GoTo
  <2>3. ReservationsAreReturned'
    BY <1>3, <2>1 DEF ReserveInv, ReservationsAreReturned, Writing
  <2>4. \A f \in PastCheck' : Inside(Target[f])' \intersect before' = {}
    BY <1>3, <2>1 DEF ReserveInv, PastCheck, Inside
  <2>5. EarlierRunStays'  BY <1>3 DEF ReserveInv, EarlierRunStays
  <2> QED  BY <1>3, <2>2, <2>3, <2>4, <2>5 DEF ReserveInv, Overlap
<1>4. ASSUME NEW e \in Entries, Begin(e) PROVE ReserveInv'
  <2>1. Above(Target[e]) \subseteq Paths /\ made \subseteq Paths
    BY DEF Above, ReserveInv, TypeOK
  <2> QED  BY <1>3, <1>4, <2>1 DEF Begin
<1>5. ASSUME NEW e \in Entries, Check(e) PROVE ReserveInv'
  <2>1. ~Exists(Target[e]) => Inside(Target[e]) \intersect before = {}
    BY TargetsAssumption DEF Exists, Inside, ReserveInv, EarlierRunStays
  <2>2. made \subseteq Paths  BY DEF ReserveInv, TypeOK
  <2> QED  BY <1>3, <1>5, <2>1, <2>2 DEF Check
<1>6. ASSUME NEW e \in Entries, Reserve(e) PROVE ReserveInv'
  <2>1. CASE Collides(e)  BY <1>3, <1>6, <2>1 DEF Reserve, ReserveInv, TypeOK
  <2>2. CASE ~Collides(e)
    <3>1. /\ GoTo(e, FirstMethod) /\ FirstMethod \in {"rsync", "tar", "sftp"}
          /\ reserved' = reserved \union {e} /\ pc[e] = "reserve"
          /\ UNCHANGED <<tools, before, content, made>>
      BY <1>6, <2>2 DEF Reserve, FirstMethod
    <3>2. \A f \in Entries : pc'[f] = IF f = e THEN FirstMethod ELSE pc[f]
      BY <1>2, <3>1 DEF GoTo
    <3>3. TypeOK'  BY <1>2, <3>1 DEF ReserveInv, TypeOK, GoTo
    <3>4. ReservationsAreReturned'
      BY <3>1, <3>2 DEF ReserveInv, ReservationsAreReturned, Writing
    <3>5. \A f, g \in reserved' : f # g => ~Overlap(Target[f], Target[g])
      BY <2>2, <3>1 DEF ReserveInv, Collides, Overlap
    <3>6. \A f \in PastCheck' : Inside(Target[f])' \intersect before' = {}
      BY <3>1, <3>2 DEF ReserveInv, PastCheck, Inside
    <3>7. EarlierRunStays'  BY <3>1 DEF ReserveInv, EarlierRunStays
    <3> QED  BY <3>3, <3>4, <3>5, <3>6, <3>7 DEF ReserveInv, Overlap
  <2> QED  BY <2>1, <2>2
\* The methods write or clear, and keep the reservation.
<1>7. ASSUME NEW e \in Entries, pc[e] \in {"rsync", "tar", "gzip", "sftp"},
             NEW s \in {"tar", "gzip", "sftp", "release_ok", "release_err"}, GoTo(e, s),
             Write(e) \/ Clear(e) \/ UNCHANGED <<content, made>>,
             UNCHANGED <<tools, before, reserved>>
      PROVE  ReserveInv'
  <2>1. \A f \in Entries : pc'[f] = IF f = e THEN s ELSE pc[f]  BY <1>2, <1>7 DEF GoTo
  <2>2. e \in PastCheck  BY <1>7 DEF PastCheck
  <2>3. /\ content' \in [Paths -> SUBSET (Entries \union {Earlier})]
        /\ made' \subseteq Paths
        /\ EarlierRunStays'
    BY <1>7, <2>2, EarlierUntouched
  <2>4. TypeOK'  BY <1>2, <1>7, <2>3 DEF ReserveInv, TypeOK, GoTo
  <2>5. ReservationsAreReturned'
    BY <1>7, <2>1 DEF ReserveInv, ReservationsAreReturned, Writing
  <2>6. \A f \in PastCheck' : Inside(Target[f])' \intersect before' = {}
    BY <1>7, <2>1, <2>2 DEF ReserveInv, PastCheck, Inside
  <2> QED  BY <1>7, <2>3, <2>4, <2>5, <2>6 DEF ReserveInv, Overlap
<1>8. ASSUME NEW e \in Entries, TryRsync(e) \/ TryTar(e) \/ TryGzip(e) \/ TrySftp(e)
      PROVE  ReserveInv'
  BY <1>7, <1>8 DEF TryRsync, TryTar, TryGzip, TrySftp, Try, AfterRsync, AfterTar
<1>9. ASSUME NEW e \in Entries, Release(e) PROVE ReserveInv'
  <2>1. PICK s \in {"ok", "error"} : GoTo(e, s)  BY <1>9 DEF Release
  <2>2. /\ pc[e] \in {"release_ok", "release_err"} /\ reserved' = reserved \ {e}
        /\ UNCHANGED <<tools, before, content, made>>
    BY <1>9 DEF Release
  <2>3. \A f \in Entries : pc'[f] = IF f = e THEN s ELSE pc[f]  BY <1>2, <2>1 DEF GoTo
  <2>4. TypeOK'  BY <1>2, <2>1, <2>2 DEF ReserveInv, TypeOK, GoTo
  <2>5. ReservationsAreReturned'
    BY <2>2, <2>3 DEF ReserveInv, ReservationsAreReturned, Writing
  <2>6. \A f \in PastCheck' : Inside(Target[f])' \intersect before' = {}
    BY <2>2, <2>3 DEF ReserveInv, PastCheck, Inside
  <2>7. EarlierRunStays'  BY <2>2 DEF ReserveInv, EarlierRunStays
  <2> QED  BY <2>2, <2>4, <2>5, <2>6, <2>7 DEF ReserveInv, Overlap
<1> QED  BY <1>1, <1>4, <1>5, <1>6, <1>8, <1>9 DEF Next, Work, Step, Finished

LEMMA ReserveHolds == Spec => []ReserveInv
<1> QED  BY ReserveInit, ReserveNext, PTL DEF Spec

\* No step of an entry leaves the types of the reservation table or the disk.
THEOREM DownloadTypeCorrect == Spec => []TypeOK
<1>1. ReserveInv => TypeOK  BY DEF ReserveInv
<1> QED  BY <1>1, ReserveHolds, PTL

\* Two entries never write to one tree at a time (reserveDownloadArtifact).
THEOREM WritersAreKeptApart == Spec => []WritersAreApart
<1>1. ReserveInv => WritersAreApart
  BY DEF ReserveInv, WritersAreApart, ReservationsAreReturned
<1> QED  BY <1>1, ReserveHolds, PTL

\* What an earlier run left at a path is neither removed nor merged with.
THEOREM EarlierRunIsSafe == Spec => []EarlierRunStays
<1>1. ReserveInv => EarlierRunStays  BY DEF ReserveInv
<1> QED  BY <1>1, ReserveHolds, PTL

\* Every reservation is returned when its entry ends, and not before.
THEOREM ReservationsComeBack == Spec => []ReservationsAreReturned
<1>1. ReserveInv => ReservationsAreReturned  BY DEF ReserveInv
<1> QED  BY <1>1, ReserveHolds, PTL

-----------------------------------------------------------------------------
(* 2. Uploads.                                                             *)

\* The rsync process lives only while its entry waits for it.
ChildIsAwaited == \A u \in Uploads : child[u] => doing[u] = "rsync"

\* A helper file lives from its creation to the deferred cleanup.
HelperIsInUse ==
    \A u \in Uploads : helper[u] = "made" => doing[u] \in {"start", "rsync", "cleanup"}

\* The host's rsync is left alone only by a child that failed.
ServerWasFailed ==
    \A u \in Uploads : server[u] # "none" =>
        /\ doing[u] \in {"cleanup", "stream", "send", "over"}
        /\ rsynced[u] = "error"

\* Until the cleanup is through, a good exit status stands for a complete destination.
RsyncedIsWhole ==
    \A u \in Uploads : doing[u] = "cleanup" /\ rsynced[u] = "ok" => dest[u] = "whole"

\* Only an entry that is over has a result.
ReportedIsOver == \A u \in Uploads : uploaded[u] # "none" => doing[u] = "over"

UploadInv == /\ UploadTypeOK /\ ChildIsAwaited /\ HelperIsInUse /\ ServerWasFailed
             /\ RsyncedIsWhole /\ ReportedIsOver /\ UploadIsComplete

-----------------------------------------------------------------------------
\* Nothing has begun in an initial state.
LEMMA UploadInitInv == UploadInit => UploadInv
  BY DEF UploadInit, UploadInv, UploadTypeOK, ChildIsAwaited, HelperIsInUse,
         ServerWasFailed, RsyncedIsWhole, ReportedIsOver, UploadIsComplete

\* The invariant is inductive: one step per action of an entry.
LEMMA UploadStepInv == UploadInv /\ [UploadNext]_uploadVars => UploadInv'
<1> SUFFICES ASSUME UploadInv, [UploadNext]_uploadVars PROVE UploadInv'
    OBVIOUS
<1> USE DEF UploadInv, UploadTypeOK, ChildIsAwaited, HelperIsInUse, ServerWasFailed,
            RsyncedIsWhole, ReportedIsOver, UploadIsComplete, mode, rsync
<1>0. CASE UNCHANGED uploadVars
  BY <1>0 DEF uploadVars
<1>1. ASSUME NEW u \in Uploads, Elapse(u) PROVE UploadInv'
  BY <1>1 DEF Elapse
<1>2. ASSUME NEW u \in Uploads, Start(u) PROVE UploadInv'
  BY <1>2 DEF Start, Has, Do, Report
<1>3. ASSUME NEW u \in Uploads, MakeDir(u) PROVE UploadInv'
  BY <1>3 DEF MakeDir, Has, Do
<1>4. ASSUME NEW u \in Uploads, MakeHelper(u) PROVE UploadInv'
  BY <1>4 DEF MakeHelper, Has, Do
<1>5. ASSUME NEW u \in Uploads, RunRsync(u) PROVE UploadInv'
  <2>1. CASE doing' = [doing EXCEPT ![u] = "rsync"] /\ child' = [child EXCEPT ![u] = TRUE]
    <3>1. rsynced' = rsynced
      BY <1>5, <2>1 DEF RunRsync, Has, Do
    <3>2. doing[u] = "start" /\ UNCHANGED <<usesRsync, asksPass, client, elapsed, helper,
                                             server, dest, uploaded>>
      BY <1>5 DEF RunRsync, Has, Do
    <3> QED  BY <2>1, <3>1, <3>2
  <2>2. CASE doing' = [doing EXCEPT ![u] = "cleanup"] /\ UNCHANGED child
    <3>1. /\ doing[u] = "start" /\ rsynced' = [rsynced EXCEPT ![u] = "error"]
          /\ UNCHANGED <<usesRsync, asksPass, client, elapsed, helper, server, dest, uploaded>>
      BY <1>5, <2>2 DEF RunRsync, Has, Do
    <3> QED  BY <2>2, <3>1
  <2> QED  BY <1>5, <2>1, <2>2 DEF RunRsync, Do
<1>6. ASSUME NEW u \in Uploads, RsyncSucceeds(u) PROVE UploadInv'
  BY <1>6 DEF RsyncSucceeds, ChildEnds, Has, Do
<1>7. ASSUME NEW u \in Uploads, RsyncFails(u) PROVE UploadInv'
  BY <1>7 DEF RsyncFails, ChildEnds, Has, Do
<1>8. ASSUME NEW u \in Uploads, KillRsync(u) PROVE UploadInv'
  BY <1>8 DEF KillRsync, ChildEnds, Has, Do
<1>9. ASSUME NEW u \in Uploads, CleanUp(u) PROVE UploadInv'
  BY <1>9 DEF CleanUp, Has, Do, Report
<1>10. ASSUME NEW u \in Uploads, ServerEnds(u) PROVE UploadInv'
  BY <1>10 DEF ServerEnds
<1>11. ASSUME NEW u \in Uploads, StreamRefused(u) PROVE UploadInv'
  BY <1>11 DEF StreamRefused, Has, Report
<1>12. ASSUME NEW u \in Uploads, Stream(u) PROVE UploadInv'
  BY <1>12 DEF Stream, Has, Do
<1>13. ASSUME NEW u \in Uploads, SourceFails(u) PROVE UploadInv'
  BY <1>13 DEF SourceFails, Has, Report
<1>14. ASSUME NEW u \in Uploads, Sent(u) PROVE UploadInv'
  BY <1>14 DEF Sent, Has, Report
<1>15. ASSUME NEW u \in Uploads, ClientLost(u) PROVE UploadInv'
  BY <1>15 DEF ClientLost, Has, Report
<1> QED
  BY <1>0, <1>1, <1>2, <1>3, <1>4, <1>5, <1>6, <1>7, <1>8, <1>9, <1>10, <1>11, <1>12,
     <1>13, <1>14, <1>15 DEF UploadNext

\* The invariant holds in every state of every behaviour.
LEMMA UploadHolds == UploadSpec => []UploadInv
  BY UploadInitInv, UploadStepInv, PTL DEF UploadSpec

-----------------------------------------------------------------------------
\* Every variable keeps its type, for any set of entries.
THEOREM UploadTypeCorrect == UploadSpec => []UploadTypeOK
<1>1. UploadInv => UploadTypeOK
  BY DEF UploadInv
<1> QED BY <1>1, UploadHolds, PTL

\* For any set of entries on one client, an upload that is reported as good is
\* complete at its destination, whichever of rsync and the fallback did it.
THEOREM UploadsAreComplete == UploadSpec => []UploadIsComplete
<1>1. UploadInv => UploadIsComplete
  BY DEF UploadInv
<1> QED BY <1>1, UploadHolds, PTL

\* For any set of entries, the fallback runs beside no rsync process, and no entry
\* ends with one, or with a helper file nobody tried to remove.
THEOREM NothingIsLeftBehind == UploadSpec => []NothingStaysBehind
<1>1. UploadInv => NothingStaysBehind
  BY DEF UploadInv, ChildIsAwaited, HelperIsInUse, NothingStaysBehind
<1> QED BY <1>1, UploadHolds, PTL

=============================================================================
