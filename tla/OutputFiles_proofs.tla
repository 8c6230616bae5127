------------------------- MODULE OutputFiles_proofs -------------------------
(***************************************************************************)
(* For any jobs, payloads, templates and trees, any other process and a    *)
(* crash anywhere: no output file is replaced, shared or partial, and a    *)
(* job that is refused one of its files runs nothing.                      *)
(***************************************************************************)
EXTENDS OutputFiles, TLAPS

\* A payload that was admitted holds the claim of its file, and once one payload of a
\* job has run, all of them were admitted.
Admitted(p) == pc[p] = "ready" \/ saving[p]
ClaimInv == \A p \in Payloads :
    /\ Admitted(p) => claim[Target[p]] = p
    /\ saving[p] => \A n \in 1 .. Each : Admitted(<<p[1], n>>)

\* A file is linked when it is complete, and only then is it the payload's.
FileInv == \A p \in Payloads :
    /\ pc[p] = "link" => temp[p] = "complete"
    /\ file[Target[p]] = p => temp[p] # "partial" /\ pc[p] \in {"remove", "saved", "failed"}
    /\ pc[p] = "saved" => file[Target[p]] = p

\* The walk is at a component of the path when it makes one.
PathInv == \A p \in Payloads :
    /\ depth[p] # 0
    /\ pc[p] \in {"mkdir", "mkdir2"} => depth[p] <= Len(Path[Target[p]])

OutputInv == TypeOK /\ PathInv /\ ClaimInv /\ FileInv

-----------------------------------------------------------------------------
\* What most steps do: one payload goes to another step, and nothing else that the
\* files and the claims depend on changes.
Passing == {"wait", "lstat", "mkdir", "absent", "lstat2", "mkdir2", "absent2"}
Moves(p, s) == /\ pc[p] \in Passing /\ s \in Steps \ {"ready", "link", "remove", "saved"}
               /\ pc' = [pc EXCEPT ![p] = s] \/ pc' = pc
               /\ UNCHANGED <<saving, file, temp, claim, up, faults>>

\* The walk down the path is such steps.
LEMMA EnsureShape ==
    ASSUME TypeOK, PathInv, NEW p \in Payloads, EnsureDir(p)
    PROVE  /\ \E s \in Steps : Moves(p, s)
           /\ depth' \in [Payloads -> Nat] /\ PathInv' /\ dirs' \subseteq Dirs
<1> USE DEF Moves, Passing, Steps, GoTo, TypeOK, disk, PathInv
<1>0. Path[Target[p]] \in Seq(Dirs) /\ Len(Path[Target[p]]) \in Nat
  BY OutputNames
<1>1. ASSUME NEW here \in {"lstat", "lstat2"}, NEW m \in {"mkdir", "mkdir2"},
             NEW after \in {"absent", "absent2"}, Walk(p, here, m, after)
      PROVE  /\ \E s \in Steps : Moves(p, s)
             /\ depth' \in [Payloads -> Nat] /\ PathInv' /\ dirs' \subseteq Dirs
  <2>1. /\ pc[p] = here /\ UNCHANGED <<saving, dirs, file, temp, claim, up, faults>>
        /\ \/ pc' = [pc EXCEPT ![p] = after] /\ depth' = [depth EXCEPT ![p] = 1]
           \/ pc' = pc /\ depth' = [depth EXCEPT ![p] = depth[p] + 1]
           \/ ~(depth[p] > Len(Path[Target[p]])) /\ pc' = [pc EXCEPT ![p] = m] /\ depth' = depth
    BY <1>1 DEF Walk
  <2>2. \E s \in Steps : Moves(p, s)
    <3>1. Moves(p, after) \/ Moves(p, m)
      BY <2>1
    <3> QED  BY <3>1
  <2>3. depth[p] \in Nat /\ depth[p] # 0
    OBVIOUS
  <2>4. depth' \in [Payloads -> Nat]
    BY <2>1, <2>3
  <2>5. ASSUME NEW q \in Payloads
        PROVE  depth'[q] # 0 /\ (pc'[q] \in {"mkdir", "mkdir2"} => depth'[q] <= Len(Path[Target[q]]))
    <3>1. CASE q = p
      BY <1>0, <2>1, <2>3, <3>1
    <3>2. CASE q # p
      BY <2>1, <3>2
    <3> QED  BY <3>1, <3>2
  <2> QED  BY <2>1, <2>2, <2>4, <2>5
<1>2. ASSUME NEW here \in {"mkdir", "mkdir2"}, NEW back \in {"lstat", "lstat2"},
             Mkdir(p, here, back)
      PROVE  /\ \E s \in Steps : Moves(p, s)
             /\ depth' \in [Payloads -> Nat] /\ PathInv' /\ dirs' \subseteq Dirs
  <2>1. pc' = [pc EXCEPT ![p] = back] \/ pc' = [pc EXCEPT ![p] = "failed"]
    BY <1>2 DEF Mkdir
  <2>2. Dir(p) \in Dirs
    BY <1>0, <1>2 DEF Mkdir, Dir
  <2>3. dirs' \subseteq Dirs
    BY <1>2, <2>2 DEF Mkdir
  <2>4. depth' = depth /\ PathInv'
    BY <1>2, <2>1 DEF Mkdir
  <2> QED  BY <1>2, <2>1, <2>3, <2>4 DEF Mkdir
<1> QED  BY <1>1, <1>2 DEF EnsureDir

\* Such a step keeps what the claims and the files are about.
LEMMA MovesKeep ==
    ASSUME TypeOK, ClaimInv, FileInv, NEW p \in Payloads, NEW s \in Steps, Moves(p, s)
    PROVE  /\ pc' \in [Payloads -> Steps] /\ ClaimInv' /\ FileInv'
<1>1. /\ \A q \in Payloads : pc'[q] = pc[q] \/ (q = p /\ pc[q] \in Passing
                                 /\ pc'[q] \notin {"ready", "link", "remove", "saved"})
      /\ pc' \in [Payloads -> Steps]
      /\ UNCHANGED <<saving, file, temp, claim>>
  BY DEF Moves, TypeOK
<1>2. ClaimInv'
  BY <1>1 DEF ClaimInv, Admitted, Passing, Payloads
<1>3. FileInv'
  BY <1>1 DEF FileInv, Passing
<1> QED  BY <1>1, <1>2, <1>3

-----------------------------------------------------------------------------
\* Nothing is claimed or linked in an initial state.
LEMMA InitOutput == Init => OutputInv
<1> SUFFICES ASSUME Init PROVE OutputInv
    OBVIOUS
<1>1. PICK present \in Earlier :
        /\ file = [t \in Targets |-> IF t \in present THEN Stranger ELSE Nobody]
        /\ dirs = UNION {{Path[t][n] : n \in DOMAIN Path[t]} : t \in present}
  BY DEF Init
<1>2. \A t \in Targets : Path[t] \in Seq(Dirs)
  BY OutputNames
<1>3. \A t \in present : t \in Targets /\ \A n \in DOMAIN Path[t] : Path[t][n] \in Dirs
  BY <1>2, OutputNames
<1>4. dirs \subseteq Dirs
  BY <1>1, <1>3
<1>5. file \in [Targets -> Payloads \union {Nobody, Stranger}]
      /\ \A t \in Targets : file[t] \notin Payloads
  BY <1>1, OutputNames
<1>6. TypeOK
  BY <1>4, <1>5 DEF Init, TypeOK, Steps
<1>7. PathInv /\ ClaimInv
  BY DEF Init, PathInv, ClaimInv, Admitted
<1>8. FileInv
  BY <1>5, OutputNames DEF Init, FileInv
<1> QED  BY <1>6, <1>7, <1>8 DEF OutputInv

\* Every step keeps the claims and the files.
LEMMA StepOutput == OutputInv /\ [Next]_vars => OutputInv'
<1> SUFFICES ASSUME OutputInv, [Next]_vars PROVE OutputInv'
    OBVIOUS
<1> USE DEF OutputInv
<1>t. /\ \A p \in Payloads : Target[p] \in Targets
      /\ Nobody \notin Payloads /\ Stranger \notin Payloads
      /\ \A t \in Targets : Path[t] \in Seq(Dirs)
  BY OutputNames
<1>m. ASSUME NEW p \in Payloads, NEW s \in Steps, Moves(p, s), UNCHANGED <<depth, dirs>>,
             s \notin {"mkdir", "mkdir2"}
      PROVE  OutputInv'
  <2>1. pc' \in [Payloads -> Steps] /\ ClaimInv' /\ FileInv'
    BY <1>m, MovesKeep
  <2>2. TypeOK'
    BY <1>m, <2>1 DEF TypeOK, Moves
  <2>3. PathInv'
    BY <1>m DEF PathInv, Moves, TypeOK
  <2> QED  BY <2>1, <2>2, <2>3
<1>1. ASSUME NEW p \in Payloads, Begin(p) PROVE OutputInv'
  <2>1. Moves(p, "lstat") /\ UNCHANGED <<depth, dirs>>
    BY <1>1 DEF Begin, GoTo, Moves, Passing, Steps, disk
  <2> QED  BY <1>m, <2>1 DEF Steps
<1>2. ASSUME NEW p \in Payloads, Ran(p) PROVE OutputInv'
  <2>1. /\ pc[p] = "ready" /\ pc' = [pc EXCEPT ![p] = "lstat"]
        /\ saving' = [saving EXCEPT ![p] = TRUE]
        /\ \A n \in 1 .. Each : Admitted(<<p[1], n>>)
        /\ UNCHANGED <<depth, dirs, file, temp, claim, up, faults>>
    BY <1>2 DEF Ran, GoTo, Admitted, disk
  <2>2. /\ \A q \in Payloads \ {p} : pc'[q] = pc[q] /\ saving'[q] = saving[q]
        /\ pc'[p] = "lstat" /\ saving'[p]
        /\ pc' \in [Payloads -> Steps] /\ saving' \in [Payloads -> BOOLEAN]
    BY <2>1 DEF TypeOK, Steps
  <2>3. \A q \in Payloads : Admitted(q)' <=> Admitted(q)
    BY <2>1, <2>2 DEF Admitted
  <2>4. \A n \in 1 .. Each : <<p[1], n>> \in Payloads
    BY DEF Payloads
  <2>5. ClaimInv'
    <3> SUFFICES ASSUME NEW q \in Payloads
                 PROVE  /\ Admitted(q)' => claim[Target[q]] = q
                        /\ saving'[q] => \A n \in 1 .. Each : Admitted(<<q[1], n>>)'
        BY <2>1 DEF ClaimInv
    <3>1. Admitted(q)' => claim[Target[q]] = q
      BY <2>3 DEF ClaimInv
    <3>2. saving'[q] => \A n \in 1 .. Each : Admitted(<<q[1], n>>)
      BY <2>1, <2>2 DEF ClaimInv
    <3>3. \A n \in 1 .. Each : <<q[1], n>> \in Payloads
      BY DEF Payloads
    <3> QED  BY <2>3, <3>1, <3>2, <3>3
  <2>6. FileInv'
    BY <2>1, <2>2 DEF FileInv
  <2>7. TypeOK' /\ PathInv'
    BY <2>1, <2>2 DEF TypeOK, PathInv
  <2> QED  BY <2>5, <2>6, <2>7
<1>3. ASSUME NEW p \in Payloads, EnsureDir(p) PROVE OutputInv'
  <2>1. PICK s \in Steps : Moves(p, s)
    BY <1>3, EnsureShape
  <2>2. depth' \in [Payloads -> Nat] /\ PathInv' /\ dirs' \subseteq Dirs
    BY <1>3, EnsureShape
  <2>3. pc' \in [Payloads -> Steps] /\ ClaimInv' /\ FileInv'
    BY <2>1, MovesKeep
  <2>4. TypeOK'
    BY <2>1, <2>2, <2>3 DEF TypeOK, Moves
  <2> QED  BY <2>2, <2>3, <2>4
<1>4. ASSUME NEW p \in Payloads, NEW here \in {"absent", "absent2"},
             NEW next \in {"claim", "temp"}, IsAbsent(p, here, next)
      PROVE  OutputInv'
  <2>1. \E s \in {next, "failed"} : Moves(p, s) /\ UNCHANGED <<depth, dirs>>
    BY <1>4 DEF IsAbsent, GoTo, Moves, Passing, Steps, disk
  <2> QED  BY <1>m, <2>1 DEF Steps
<1>5. ASSUME NEW p \in Payloads, Claim(p) PROVE OutputInv'
  <2>1. /\ pc[p] = "claim" /\ UNCHANGED <<depth, saving, dirs, file, temp, up, faults>>
        /\ \/ /\ claim[Target[p]] \in {Nobody, p}
              /\ claim' = [claim EXCEPT ![Target[p]] = p]
              /\ \E s \in {"lstat2", "ready"} : pc' = [pc EXCEPT ![p] = s]
           \/ UNCHANGED claim /\ pc' = [pc EXCEPT ![p] = "failed"]
    BY <1>5 DEF Claim, GoTo, disk
  <2>a. PICK s \in {"lstat2", "ready", "failed"} : pc' = [pc EXCEPT ![p] = s]
    BY <2>1
  <2>b. claim' \in [Targets -> Payloads \union {Nobody}]
    BY <2>1, <1>t DEF TypeOK
  <2>2. /\ \A q \in Payloads \ {p} : pc'[q] = pc[q]
        /\ pc'[p] \in {"lstat2", "ready", "failed"}
        /\ pc' \in [Payloads -> Steps] /\ claim' \in [Targets -> Payloads \union {Nobody}]
    BY <2>a, <2>b DEF TypeOK, Steps
  <2>3. ASSUME NEW q \in Payloads PROVE Admitted(q) => Admitted(q)'
    BY <2>1, <2>2 DEF Admitted
  <2>4. ASSUME NEW q \in Payloads, Admitted(q)' PROVE claim'[Target[q]] = q
    <3>1. CASE q = p /\ pc'[p] = "failed"
      <4>1. saving[p] /\ claim' = claim
        BY <2>1, <2>4, <3>1 DEF Admitted, TypeOK, Steps
      <4> QED  BY <3>1, <4>1 DEF ClaimInv, Admitted
    <3>2. CASE q = p /\ pc'[p] # "failed"
      BY <1>t, <2>1, <3>2 DEF TypeOK
    <3>3. CASE q # p
      <4>1. claim[Target[q]] = q
        BY <2>1, <2>2, <2>4, <3>3 DEF ClaimInv, Admitted
      <4> QED  BY <1>t, <2>1, <3>3, <4>1 DEF TypeOK
    <3> QED  BY <3>1, <3>2, <3>3
  <2>5. \A q \in Payloads : \A n \in 1 .. Each : <<q[1], n>> \in Payloads
    BY DEF Payloads
  <2>6. ClaimInv'
    BY <2>1, <2>3, <2>4, <2>5 DEF ClaimInv
  <2>7. FileInv'
    BY <2>1, <2>2 DEF FileInv
  <2>8. TypeOK' /\ PathInv'
    BY <2>1, <2>2 DEF TypeOK, PathInv
  <2> QED  BY <2>6, <2>7, <2>8
<1>w. ASSUME NEW p \in Payloads, pc[p] \in {"temp", "link", "remove"},
             pc' \in [Payloads -> Steps], \A q \in Payloads \ {p} : pc'[q] = pc[q],
             pc'[p] \notin {"ready", "mkdir", "mkdir2"},
             UNCHANGED <<depth, saving, dirs, claim, up, faults>>
      PROVE  PathInv' /\ ClaimInv'
  <2>1. PathInv'
    BY <1>w DEF PathInv
  <2>2. \A q \in Payloads : Admitted(q)' <=> Admitted(q)
    BY <1>w DEF Admitted
  <2>3. \A q \in Payloads : \A n \in 1 .. Each : <<q[1], n>> \in Payloads
    BY DEF Payloads
  <2>4. ClaimInv'
    BY <1>w, <2>2, <2>3 DEF ClaimInv
  <2> QED  BY <2>1, <2>4
<1>6. ASSUME NEW p \in Payloads, WriteTemp(p) PROVE OutputInv'
  <2>1. /\ pc[p] = "temp" /\ UNCHANGED <<depth, saving, dirs, file, claim, up, faults>>
        /\ \/ temp' = [temp EXCEPT ![p] = "partial"] /\ pc' = pc
           \/ temp' = [temp EXCEPT ![p] = "complete"] /\ pc' = [pc EXCEPT ![p] = "link"]
           \/ temp' = temp /\ \E s \in {"failed", "remove"} : pc' = [pc EXCEPT ![p] = s]
    BY <1>6 DEF WriteTemp, SetTemp, GoTo
  <2>2. /\ \A q \in Payloads \ {p} : pc'[q] = pc[q] /\ temp'[q] = temp[q]
        /\ pc'[p] \in {"temp", "link", "failed", "remove"}
        /\ pc'[p] = "link" => temp'[p] = "complete"
        /\ pc' \in [Payloads -> Steps] /\ temp' \in [Payloads -> {"absent", "partial", "complete"}]
    BY <2>1 DEF TypeOK, Steps
  <2>3. file[Target[p]] # p
    BY <2>1 DEF FileInv
  <2>4. FileInv'
    BY <2>1, <2>2, <2>3 DEF FileInv
  <2>5. TypeOK'
    BY <2>1, <2>2 DEF TypeOK
  <2> QED  BY <1>w, <2>1, <2>2, <2>4, <2>5
<1>7. ASSUME NEW p \in Payloads, Link(p) PROVE OutputInv'
  <2>1. /\ pc[p] = "link" /\ pc' = [pc EXCEPT ![p] = "remove"]
        /\ UNCHANGED <<depth, saving, dirs, temp, claim, up, faults>>
        /\ \/ file[Target[p]] = Nobody /\ file' = [file EXCEPT ![Target[p]] = p]
           \/ UNCHANGED file
    BY <1>7 DEF Link, GoTo
  <2>2. /\ \A q \in Payloads \ {p} : pc'[q] = pc[q]
        /\ pc'[p] = "remove" /\ pc' \in [Payloads -> Steps]
    BY <2>1 DEF TypeOK, Steps
  <2>3. ASSUME NEW q \in Payloads
        PROVE  /\ q # p => (file'[Target[q]] = q <=> file[Target[q]] = q)
               /\ file' \in [Targets -> Payloads \union {Nobody, Stranger}]
    BY <1>t, <2>1 DEF TypeOK
  <2>4. temp[p] = "complete"
    BY <2>1 DEF FileInv
  <2>5. FileInv'
    BY <2>1, <2>2, <2>3, <2>4 DEF FileInv
  <2>6. TypeOK'
    BY <2>1, <2>2, <2>3 DEF TypeOK
  <2> QED  BY <1>w, <2>1, <2>2, <2>5, <2>6
<1>8. ASSUME NEW p \in Payloads, RemoveTemp(p) PROVE OutputInv'
  <2>1. /\ pc[p] = "remove" /\ UNCHANGED <<depth, saving, dirs, file, claim, up, faults>>
        /\ temp' = [temp EXCEPT ![p] = "absent"] \/ temp' = temp
        /\ \/ pc' = [pc EXCEPT ![p] = "failed"]
           \/ pc' = [pc EXCEPT ![p] = "saved"] /\ file[Target[p]] = p
    BY <1>8 DEF RemoveTemp, SetTemp, GoTo
  <2>2. /\ \A q \in Payloads \ {p} : pc'[q] = pc[q] /\ temp'[q] = temp[q]
        /\ pc'[p] \in {"failed", "saved"} /\ temp'[p] \in {temp[p], "absent"}
        /\ pc'[p] = "saved" => file[Target[p]] = p
        /\ pc' \in [Payloads -> Steps] /\ temp' \in [Payloads -> {"absent", "partial", "complete"}]
    BY <2>1 DEF TypeOK, Steps
  <2>3. FileInv'
    BY <2>1, <2>2 DEF FileInv
  <2>4. TypeOK'
    BY <2>1, <2>2 DEF TypeOK
  <2> QED  BY <1>w, <2>1, <2>2, <2>3, <2>4
<1>9. CASE OtherProcess
  <2>1. PICK t \in Targets : /\ file[t] = Nobody
                             /\ file' = [file EXCEPT ![t] = Stranger]
                             /\ dirs' = dirs \union {Path[t][n] : n \in DOMAIN Path[t]}
    BY <1>9 DEF OtherProcess
  <2>2. UNCHANGED <<pc, depth, saving, claim, temp, up, faults>>
    BY <1>9 DEF OtherProcess
  <2>3. \A n \in DOMAIN Path[t] : Path[t][n] \in Dirs
    BY <1>t
  <2>4. TypeOK'
    BY <2>1, <2>2, <2>3 DEF TypeOK
  <2>5. \A q \in Payloads : file'[Target[q]] = q <=> file[Target[q]] = q
    BY <1>t, <2>1 DEF TypeOK
  <2>6. FileInv' /\ PathInv' /\ ClaimInv'
    BY <2>2, <2>5 DEF FileInv, PathInv, ClaimInv, Admitted
  <2> QED  BY <2>4, <2>6
<1>10. CASE Crash
  BY <1>10 DEF Crash, TypeOK, FileInv, PathInv, ClaimInv, Admitted, disk
<1>11. CASE UNCHANGED vars
  BY <1>11 DEF vars, TypeOK, FileInv, PathInv, ClaimInv, Admitted
<1> QED
  BY <1>1, <1>2, <1>3, <1>4, <1>5, <1>6, <1>7, <1>8, <1>9, <1>10, <1>11
     DEF Next, Work, Step, Finished

-----------------------------------------------------------------------------
\* Every variable keeps its type.
THEOREM OutputTypeCorrect == Spec => []TypeOK
<1>1. OutputInv => TypeOK
  BY DEF OutputInv
<1> QED  BY <1>1, InitOutput, StepOutput, PTL DEF Spec

\* Two payloads of one file never both run, and a job that is refused one has run none.
THEOREM OutputsAreApart == Spec => []NoSharedOutput
<1>1. OutputInv => NoSharedOutput
  <2> SUFFICES ASSUME OutputInv, NEW p \in Payloads, NEW q \in Payloads
               PROVE  /\ p # q /\ Target[p] = Target[q] => ~(saving[p] /\ saving[q])
                      /\ saving[p] => ~Refused(p[1])
      BY DEF NoSharedOutput
  <2>1. saving[p] /\ saving[q] => claim[Target[p]] = p /\ claim[Target[q]] = q
    BY DEF OutputInv, ClaimInv, Admitted
  <2>2. saving[p] => ~Refused(p[1])
    BY DEF OutputInv, ClaimInv, Admitted, Refused
  <2> QED  BY <2>1, <2>2
<1> QED  BY <1>1, InitOutput, StepOutput, PTL DEF Spec

\* Whatever comes in between, a crash included, a final name holds no part of an output,
\* and an output that counts as saved is there.
THEOREM OutputsAreComplete == Spec => []SavedIsComplete
<1>1. OutputInv => SavedIsComplete
  BY DEF OutputInv, FileInv, SavedIsComplete
<1> QED  BY <1>1, InitOutput, StepOutput, PTL DEF Spec

\* No step replaces a file that is there.
THEOREM OutputsStay == Spec => NothingIsReplaced
<1>1. OutputInv /\ [Next]_vars =>
        [\A t \in Targets : file[t] # Nobody => file'[t] = file[t]]_vars
  <2> SUFFICES ASSUME TypeOK, Next, NEW t \in Targets, file[t] # Nobody
               PROVE  file'[t] = file[t]
      BY DEF OutputInv
  <2>1. ASSUME NEW p \in Payloads, Link(p) PROVE file'[t] = file[t]
    BY <2>1 DEF Link, TypeOK
  <2>2. ASSUME NEW p \in Payloads, EnsureDir(p) PROVE file' = file
    BY <2>2 DEF EnsureDir, Walk, Mkdir, disk
  <2>3. ASSUME NEW p \in Payloads,
               \/ Begin(p) \/ Ran(p) \/ Claim(p) \/ WriteTemp(p) \/ RemoveTemp(p)
               \/ IsAbsent(p, "absent", "claim") \/ IsAbsent(p, "absent2", "temp")
        PROVE  file' = file
    BY <2>3 DEF Begin, Ran, Claim, WriteTemp, RemoveTemp, IsAbsent, disk
  <2>4. CASE OtherProcess
    BY <2>4 DEF OtherProcess, TypeOK
  <2>5. CASE Crash \/ Finished
    BY <2>5 DEF Crash, Finished, disk, vars
  <2> QED  BY <2>1, <2>2, <2>3, <2>4, <2>5 DEF Next, Work, Step
<1> QED  BY <1>1, InitOutput, StepOutput, PTL DEF Spec, NothingIsReplaced
=============================================================================
