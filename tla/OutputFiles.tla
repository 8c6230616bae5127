---------------------------- MODULE OutputFiles ----------------------------
(***************************************************************************)
(* Payload output below output/ (-o): the host jobs claim the file of each *)
(* of their payloads before any of them runs (reservePayloadOutputs,       *)
(* internal/ssh/ssh.go; ReserveOutput, internal/logger/logger.go), and a   *)
(* payload that ran writes its file so that the final name appears at once *)
(* and replaces nothing (SaveOutput; EnsureDirBelow and                    *)
(* AtomicWriteExclusive, internal/safepath/safepath.go).                   *)
(*                                                                         *)
(* The claims are shared by the goroutines of one process; the disk is     *)
(* shared with other processes too. A crash may come at any time.          *)
(***************************************************************************)
EXTENDS Naturals, Sequences

CONSTANTS Jobs,       \* host jobs
          Each,       \* payloads of each of them
          Targets,    \* the files their templates resolve to
          Target,     \* the file of each payload
          Dirs, Path, \* directories, and those to pass on the way to each file
          Earlier,    \* sets of files that may be there before the run
          FaultSets,  \* what may go wrong together: see below
          Nobody,
          Stranger    \* an earlier run, or another process

Payloads == Jobs \X (1 .. Each)

\* An I/O error, a second coordinate process in the same directory, a crash.
ASSUME OutputFaults == FaultSets \subseteq SUBSET {"io", "other", "crash"}
ASSUME OutputNames == /\ Each \in Nat
                      /\ Target \in [Payloads -> Targets]
                      /\ Path \in [Targets -> Seq(Dirs)]
                      /\ Earlier \subseteq SUBSET Targets
                      /\ Nobody # Stranger /\ {Nobody, Stranger} \intersect Payloads = {}

VARIABLES pc,        \* each payload: where the calls made for it are
          depth,     \* the component EnsureDirBelow is at
          saving,    \* ReserveOutput is called by SaveOutput, after the payload ran
          dirs,      \* the directories that exist
          file,      \* whose output each file holds
          claim,     \* outputReservations
          temp,      \* the temporary files: absent, partial or complete
          up,        \* the process has not crashed
          faults     \* what may go wrong in this run

vars == <<pc, depth, saving, dirs, file, claim, temp, up, faults>>
disk == <<dirs, file, temp>>

Steps == {"wait", "lstat", "mkdir", "absent", "claim", "ready", "lstat2", "mkdir2",
          "absent2", "temp", "link", "remove", "saved", "failed"}

TypeOK ==
    /\ pc \in [Payloads -> Steps]
    /\ depth \in [Payloads -> Nat]
    /\ saving \in [Payloads -> BOOLEAN]
    /\ dirs \subseteq Dirs
    /\ file \in [Targets -> Payloads \union {Nobody, Stranger}]
    /\ claim \in [Targets -> Payloads \union {Nobody}]
    /\ temp \in [Payloads -> {"absent", "partial", "complete"}]
    /\ up \in BOOLEAN
    /\ faults \in FaultSets

Init ==
    /\ pc = [p \in Payloads |-> "wait"]
    /\ depth = [p \in Payloads |-> 1]
    /\ saving = [p \in Payloads |-> FALSE]
    /\ \E present \in Earlier :
         /\ file = [t \in Targets |-> IF t \in present THEN Stranger ELSE Nobody]
         /\ dirs = UNION {{Path[t][n] : n \in DOMAIN Path[t]} : t \in present}
    /\ claim = [t \in Targets |-> Nobody]
    /\ temp = [p \in Payloads |-> "absent"]
    /\ up = TRUE
    /\ faults \in FaultSets

Fault(f) == f \in faults
GoTo(p, s) == pc' = [pc EXCEPT ![p] = s]
Dir(p) == Path[Target[p]][depth[p]]

-----------------------------------------------------------------------------
(* reservePayloadOutputs: one payload of a job after the other, and none of *)
(* them runs unless all the claims were made.                              *)

Begin(p) ==
    /\ pc[p] = "wait"
    /\ \A n \in 1 .. p[2] - 1 : pc[<<p[1], n>>] = "ready"
    /\ GoTo(p, "lstat")
    /\ UNCHANGED <<depth, saving, disk, claim, up, faults>>

\* The payload has run, and SaveOutput claims the path once more.
Ran(p) ==
    /\ pc[p] = "ready"
    /\ \A n \in 1 .. Each : pc[<<p[1], n>>] = "ready" \/ saving[<<p[1], n>>]
    /\ saving' = [saving EXCEPT ![p] = TRUE]
    /\ GoTo(p, "lstat")
    /\ UNCHANGED <<depth, disk, claim, up, faults>>

-----------------------------------------------------------------------------
(* EnsureDirBelow: Lstat, then Mkdir if there was nothing. Called by       *)
(* ReserveOutput ("lstat", "mkdir") and again by AtomicWriteExclusive.     *)

Walk(p, here, mkdir, after) ==
    /\ pc[p] = here
    /\ IF depth[p] > Len(Path[Target[p]])
       THEN GoTo(p, after) /\ depth' = [depth EXCEPT ![p] = 1]
       ELSE IF Dir(p) \in dirs
            THEN depth' = [depth EXCEPT ![p] = @ + 1] /\ UNCHANGED pc
            ELSE GoTo(p, mkdir) /\ UNCHANGED depth
    /\ UNCHANGED <<saving, disk, claim, up, faults>>

\* os.Mkdir fails when the directory has come into being since.
Mkdir(p, here, back) ==
    /\ pc[p] = here
    /\ \/ /\ Dir(p) \notin dirs
          /\ dirs' = dirs \union {Dir(p)}
          /\ GoTo(p, back)
       \/ /\ Dir(p) \in dirs \/ Fault("io")
          /\ GoTo(p, "failed")
          /\ UNCHANGED dirs
    /\ UNCHANGED <<depth, saving, file, temp, claim, up, faults>>

EnsureDir(p) == \/ Walk(p, "lstat", "mkdir", "absent") \/ Mkdir(p, "mkdir", "lstat")
                \/ Walk(p, "lstat2", "mkdir2", "absent2") \/ Mkdir(p, "mkdir2", "lstat2")

-----------------------------------------------------------------------------
(* ReserveOutput.                                                          *)

IsAbsent(p, here, next) ==
    /\ pc[p] = here
    /\ GoTo(p, IF file[Target[p]] = Nobody THEN next ELSE "failed")
    /\ UNCHANGED <<depth, saving, disk, claim, up, faults>>

\* Mistake: the claim that was there already is not looked at.
Claim_Unseen(p) ==
    /\ pc[p] = "claim"
    /\ claim' = [claim EXCEPT ![Target[p]] = p]
    /\ GoTo(p, IF saving[p] THEN "lstat2" ELSE "ready")
    /\ UNCHANGED <<depth, saving, disk, up, faults>>

\* LoadOrStore: who comes first keeps the path for the rest of the process.
Claim(p) ==
    /\ pc[p] = "claim"
    /\ IF claim[Target[p]] \in {Nobody, p}
       THEN /\ claim' = [claim EXCEPT ![Target[p]] = p]
            /\ GoTo(p, IF saving[p] THEN "lstat2" ELSE "ready")
       ELSE UNCHANGED claim /\ GoTo(p, "failed")
    /\ UNCHANGED <<depth, saving, disk, up, faults>>

-----------------------------------------------------------------------------
(* AtomicWriteExclusive.                                                   *)

SetTemp(p, s) == temp' = [temp EXCEPT ![p] = s]

\* Mistake: the link is made before the data is there.
WriteTemp_Early(p) ==
    /\ pc[p] = "temp"
    /\ SetTemp(p, "partial")
    /\ GoTo(p, "link")
    /\ UNCHANGED <<depth, saving, dirs, file, claim, up, faults>>

\* CreateTemp, Write, Sync and Close; an error leads to the deferred removal.
WriteTemp(p) ==
    /\ pc[p] = "temp"
    /\ \/ temp[p] = "absent" /\ SetTemp(p, "partial") /\ UNCHANGED pc
       \/ temp[p] = "partial" /\ SetTemp(p, "complete") /\ GoTo(p, "link")
       \/ /\ Fault("io")
          /\ GoTo(p, IF temp[p] = "absent" THEN "failed" ELSE "remove")
          /\ UNCHANGED temp
    /\ UNCHANGED <<depth, saving, dirs, file, claim, up, faults>>

\* Mistake: os.Rename, which replaces what is there.
Link_Rename(p) ==
    /\ pc[p] = "link"
    /\ \/ file' = [file EXCEPT ![Target[p]] = p] /\ SetTemp(p, "absent")
       \/ Fault("io") /\ UNCHANGED <<file, temp>>
    /\ GoTo(p, "remove")
    /\ UNCHANGED <<depth, saving, dirs, claim, up, faults>>

\* os.Link fails if the final name exists.
Link(p) ==
    /\ pc[p] = "link"
    /\ \/ file[Target[p]] = Nobody /\ file' = [file EXCEPT ![Target[p]] = p]
       \/ (file[Target[p]] # Nobody \/ Fault("io")) /\ UNCHANGED file
    /\ GoTo(p, "remove")
    /\ UNCHANGED <<depth, saving, dirs, temp, claim, up, faults>>

\* The deferred removal; an error of it is the write's, if there was no other.
RemoveTemp(p) ==
    /\ pc[p] = "remove"
    /\ \/ SetTemp(p, "absent") /\ GoTo(p, IF file[Target[p]] = p THEN "saved" ELSE "failed")
       \/ Fault("io") /\ UNCHANGED temp /\ GoTo(p, "failed")
    /\ UNCHANGED <<depth, saving, dirs, file, claim, up, faults>>

-----------------------------------------------------------------------------
\* Another process installs a file where there is none.
OtherProcess == /\ Fault("other")
                /\ \E t \in Targets :
                      /\ file[t] = Nobody
                      /\ file' = [file EXCEPT ![t] = Stranger]
                      /\ dirs' = dirs \union {Path[t][n] : n \in DOMAIN Path[t]}
                /\ UNCHANGED <<pc, depth, saving, claim, temp, up, faults>>

Crash == /\ Fault("crash") /\ up
         /\ up' = FALSE
         /\ UNCHANGED <<pc, depth, saving, disk, claim, faults>>

Step(p) == \/ Begin(p) \/ Ran(p) \/ EnsureDir(p) \/ Claim(p) \/ WriteTemp(p) \/ Link(p)
           \/ IsAbsent(p, "absent", "claim") \/ IsAbsent(p, "absent2", "temp") \/ RemoveTemp(p)

\* A job whose claims were not all made runs nothing.
Refused(j) == \E n \in 1 .. Each : pc[<<j, n>>] = "failed" /\ ~saving[<<j, n>>]
Over(p) == pc[p] \in {"saved", "failed"} \/ (Refused(p[1]) /\ pc[p] \in {"wait", "ready"})
AllOver == ~up \/ \A p \in Payloads : Over(p)
Finished == AllOver /\ UNCHANGED vars

Work == (up /\ \E p \in Payloads : Step(p)) \/ OtherProcess \/ Crash

Next == Work \/ Finished

Spec == Init /\ [][Next]_vars

-----------------------------------------------------------------------------
(* Properties.                                                             *)

\* No file is ever replaced, whoever wrote it: not one of an earlier run, of
\* another payload or of another process.
NothingIsReplaced ==
    [][\A t \in Targets : file[t] # Nobody => file'[t] = file[t]]_vars

\* Two payloads whose output goes to one file never both run, of one job or of two,
\* and the job that is refused has run nothing: neither that payload nor another.
NoSharedOutput ==
    \A p, q \in Payloads :
        /\ p # q /\ Target[p] = Target[q] => ~(saving[p] /\ saving[q])
        /\ saving[p] => ~Refused(p[1])

\* "installs a complete regular file only when the final name does not already
\* exist" (safepath.go:201-202): a crash at any step leaves no part of an output
\* under its final name, and an output that counts as saved is there under its name,
\* whatever other jobs and other processes did in between.
SavedIsComplete ==
    \A p \in Payloads : /\ file[Target[p]] = p => temp[p] # "partial"
                        /\ pc[p] = "saved" => file[Target[p]] = p
=============================================================================
