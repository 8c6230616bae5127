------------------------------ MODULE Download ------------------------------
(***************************************************************************)
(* Downloads into the local output tree (internal/ssh/ssh.go): entries of  *)
(* one or several hosts, the destination of each one, the check that it is *)
(* absent, the process-local reservation, and the chain of methods, each   *)
(* of which clears what the one before it left: rsync, tar, tar with gzip, *)
(* SFTP.                                                                   *)
(*                                                                         *)
(* A destination is a set of pieces, the entries that put something there. *)
(* Two entries can have the same destination (same base name, or hosts of  *)
(* the same name), or one inside the other.                                *)
(***************************************************************************)
EXTENDS Naturals, FiniteSets

CONSTANTS Entries,      \* the -D entries of every host job
          Hosts, Host,  \* the job each belongs to
          Threads,      \* --limit: entries of one job in progress
          Target,       \* the local path each is written to
          Paths,        \* the local paths
          Below,        \* pairs <<p, q>> of different paths, q inside p
          Present,      \* sets of paths that may exist before the run
          Tools         \* what a run may find: rsync, tar, gzip

ToolKinds == {"rsync", "tar", "gzip"}

ASSUME TargetsAssumption == Target \in [Entries -> Paths] /\ Below \subseteq Paths \X Paths
ASSUME BelowIsTransitive ==
    \A p, q, r \in Paths : <<p, q>> \in Below /\ <<q, r>> \in Below => <<p, r>> \in Below
ASSUME HostsAssumption == Host \in [Entries -> Hosts] /\ Threads \in Nat \ {0}
ASSUME ToolsAssumption == Tools \subseteq SUBSET ToolKinds
ASSUME PresentAssumption == Present \subseteq SUBSET Paths

VARIABLES tools,     \* useRsync, hasTar and hasGzip, the same for every entry
          before,    \* the paths that existed before the run
          pc,        \* where each entry is
          content,   \* the entries whose content a path holds
          made,      \* the paths made into directories for an entry below them
          reserved   \* downloadReservations: the entry that holds each target

vars == <<tools, before, pc, content, made, reserved>>

Earlier == "earlier"    \* content from before the run

Steps == {"new", "check", "reserve", "rsync", "tar", "gzip", "sftp", "release_ok",
          "release_err", "ok", "error"}

TypeOK ==
    /\ tools \in Tools
    /\ before \in Present
    /\ pc \in [Entries -> Steps]
    /\ content \in [Paths -> SUBSET (Entries \union {Earlier})]
    /\ made \subseteq Paths
    /\ reserved \subseteq Entries

Init ==
    /\ tools \in Tools
    /\ before \in Present
    /\ pc = [e \in Entries |-> "new"]
    /\ content = [p \in Paths |-> IF p \in before THEN {Earlier} ELSE {}]
    /\ made = {}
    /\ reserved = {}

GoTo(e, s) == pc' = [pc EXCEPT ![e] = s]
Overlap(p, q) == p = q \/ <<p, q>> \in Below \/ <<q, p>> \in Below
Inside(p) == {q \in Paths : q = p \/ <<p, q>> \in Below}
Above(p) == {q \in Paths : <<q, p>> \in Below}
Exists(p) == \E q \in Inside(p) : content[q] # {} \/ q \in made

InProgress == {e \in Entries : pc[e] \notin {"new", "ok", "error"}}

-----------------------------------------------------------------------------
(* reserveDownloadArtifact.                                                *)

\* A worker starts: parseDownloadEntry makes the directories above the target,
\* or refuses the entry when one of them is no directory or is unsafe.
Begin(e) == /\ pc[e] = "new"
            /\ Cardinality({f \in InProgress : Host[f] = Host[e]}) < Threads
            /\ \/ GoTo(e, "check") /\ made' = made \union Above(Target[e])
               \/ GoTo(e, "error") /\ UNCHANGED made
            /\ UNCHANGED <<tools, before, content, reserved>>

\* Mistake: only the path itself is looked at, not what is below it.
Check_Shallow(e) == /\ pc[e] = "check"
                    /\ GoTo(e, IF content[Target[e]] # {} THEN "error" ELSE "reserve")
                    /\ UNCHANGED <<tools, before, content, made, reserved>>

\* os.Lstat, before the mutex is taken.
Check(e) == /\ pc[e] = "check"
            /\ GoTo(e, IF Exists(Target[e]) THEN "error" ELSE "reserve")
            /\ UNCHANGED <<tools, before, content, made, reserved>>

\* Mistake: a host without rsync and tar is left without a method.
FirstMethod_NoSftp == IF "rsync" \in tools THEN "rsync"
                      ELSE IF "tar" \in tools THEN "tar" ELSE "none"

FirstMethod == IF "rsync" \in tools THEN "rsync"
               ELSE IF "tar" \in tools THEN "tar" ELSE "sftp"

\* Mistake: only equal paths collide.
Collides_Equal(e) == \E f \in reserved : Target[e] = Target[f]

Collides(e) == \E f \in reserved : Overlap(Target[e], Target[f])

\* Under downloadReservationMu; nothing is looked up on disk again.
Reserve(e) == /\ pc[e] = "reserve"
              /\ IF Collides(e)
                 THEN GoTo(e, "error") /\ UNCHANGED reserved
                 ELSE GoTo(e, FirstMethod) /\ reserved' = reserved \union {e}
              /\ UNCHANGED <<tools, before, content, made>>

-----------------------------------------------------------------------------
(* The chain of methods (downloadEntryContext, downloadSingleStream). Each *)
(* writes all, a part or nothing of the entry.                             *)

\* What arrives is merged into a directory that is there, and a tree may have
\* something at a path below its own.
Write(e) == \E below \in SUBSET Inside(Target[e]) :
               /\ content' = [p \in Paths |-> IF p = Target[e] \/ p \in below
                                              THEN content[p] \union {e} ELSE content[p]]
               /\ UNCHANGED made
\* removePartialDownload: everything at the destination, whoever wrote it.
Clear(e) == /\ content' = [p \in Paths |-> IF p \in Inside(Target[e]) THEN {} ELSE content[p]]
            /\ made' = made \ Inside(Target[e])

AfterRsync == IF "tar" \in tools THEN "tar" ELSE "sftp"
AfterTar == IF "gzip" \in tools THEN "gzip" ELSE "sftp"

\* A method succeeds, fails and is cleared, or cannot be cleared.
Try(e, method, next) ==
    /\ pc[e] = method
    /\ \/ Write(e) /\ GoTo(e, "release_ok")
       \/ Clear(e) /\ GoTo(e, next)
       \/ (Write(e) \/ UNCHANGED <<content, made>>) /\ GoTo(e, "release_err")
    /\ UNCHANGED <<tools, before, reserved>>

TryRsync(e) == Try(e, "rsync", AfterRsync)
TryTar(e) == Try(e, "tar", AfterTar)
TryGzip(e) == Try(e, "gzip", "sftp")

\* Mistake: when the last method fails, the chain starts again.
TrySftp_StartsOver(e) == Try(e, "sftp", FirstMethod)

\* The last method keeps what it has when it fails.
TrySftp(e) == /\ pc[e] = "sftp"
              /\ \/ Write(e) /\ GoTo(e, "release_ok")
                 \/ (Write(e) \/ UNCHANGED <<content, made>>) /\ GoTo(e, "release_err")
              /\ UNCHANGED <<tools, before, reserved>>

\* Mistake: only a download that succeeded returns its reservation.
Release_OnSuccess(e) == /\ pc[e] \in {"release_ok", "release_err"}
                        /\ reserved' = IF pc[e] = "release_ok" THEN reserved \ {e} ELSE reserved
                        /\ GoTo(e, IF pc[e] = "release_ok" THEN "ok" ELSE "error")
                        /\ UNCHANGED <<tools, before, content, made>>

\* The deferred release, on success and on failure.
Release(e) == /\ pc[e] \in {"release_ok", "release_err"}
              /\ reserved' = reserved \ {e}
              /\ GoTo(e, IF pc[e] = "release_ok" THEN "ok" ELSE "error")
              /\ UNCHANGED <<tools, before, content, made>>

-----------------------------------------------------------------------------
Step(e) == \/ Begin(e) \/ Check(e) \/ Reserve(e) \/ TryRsync(e) \/ TryTar(e) \/ TryGzip(e)
           \/ TrySftp(e) \/ Release(e)

Finished == (\A e \in Entries : pc[e] \in {"ok", "error"}) /\ UNCHANGED vars

Work == \E e \in Entries : Step(e)

Next == Work \/ Finished

Spec == Init /\ [][Next]_vars /\ WF_vars(Work)

-----------------------------------------------------------------------------
(* Properties.                                                             *)

Writing == {e \in Entries : pc[e] \in {"rsync", "tar", "gzip", "sftp"}}

\* Two entries never write to one local tree at the same time: neither to the
\* same path nor one inside the other, whichever hosts they come from.
WritersAreApart ==
    \A e, f \in Writing : e # f => ~Overlap(Target[e], Target[f])

\* What an earlier run left at a path is neither removed nor merged with, and nothing is
\* downloaded over a directory that holds it; a new path inside it may be filled.
EarlierRunStays ==
    \A p \in before : content[p] = {Earlier} /\ \A q \in Paths :
        <<q, p>> \in Below => content[q] \subseteq {Earlier}

\* A reservation is held exactly while its entry is between Reserve and the end:
\* a destination is not blocked for ever by an entry that failed.
ReservationsAreReturned ==
    reserved = Writing \union {e \in Entries : pc[e] \in {"release_ok", "release_err"}}

\* "reserveDownloadArtifact proved the destination absent ... and holds the
\* process-local reservation until all fallback attempts finish" (ssh.go:1203-
\* 1205): a download that is complete holds what it fetched and nothing else,
\* and no other entry clears it.
CompletedStays ==
    \A e \in Entries : pc[e] \in {"release_ok", "ok"} => content[Target[e]] = {e}

\* Every entry gets its turn and an answer.
EveryEntryEnds == <>(\A e \in Entries : pc[e] \in {"ok", "error"})
=============================================================================
