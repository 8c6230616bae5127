----------------------------- MODULE Extraction -----------------------------
(***************************************************************************)
(* What one method of a download makes of the tree the host sends:         *)
(* extractTarReader (internal/utils/utils.go) and the check of the result, *)
(* hardenDownloadedArtifact, or the SFTP walk, downloadSFTPNode and        *)
(* copySFTPFile (internal/ssh/ssh.go). Download has the choice of the      *)
(* method, and keeps others away from the destination.                     *)
(*                                                                         *)
(* Paths are below the artifact's parent directory, in portable names,     *)
(* which SanitizeComponent makes of distinct names distinct ones. What the *)
(* host sends is a sequence of entries; its order and its content are the  *)
(* host's.                                                                 *)
(***************************************************************************)
EXTENDS Naturals, Sequences

CONSTANTS Names, Fold(_),  \* portable names, and strings.ToLower on them
          Paths,           \* sequences of names, closed under prefixes; <<>> is the artifact
          Archives         \* what a host may send

Kinds == {"dir", "file", "link", "special", "escaping"}
ASSUME PathsAssumption == /\ Paths \subseteq Seq(Names)
                          /\ \A p \in Paths : \A n \in 0 .. Len(p) : SubSeq(p, 1, n) \in Paths
ASSUME ArchivesAssumption == Archives \subseteq Seq([path : Paths, kind : Kinds])

VARIABLES method,   \* "tar" or "sftp"
          hasTar,   \* the host has tar; SFTP is then the last of several methods
          archive,  \* all that is sent
          done,     \* how many of its entries have been dealt with
          keys,     \* portableTargets, the folded paths of the entries so far
          dirs,     \* directories that exist
          file,     \* the entry each file has its content from, 0 if there is none
          partial,  \* files whose content is not complete
          temp,     \* the SFTP walk's temporary file
          stage     \* where the method is, or how it ended

sent == <<method, hasTar, archive>>
treeVars == <<sent, done, keys, dirs, file, partial, temp, stage>>

TreeTypeOK ==
    /\ method \in {"tar", "sftp"} /\ hasTar \in BOOLEAN /\ archive \in Archives
    /\ done \in 0 .. Len(archive)
    /\ dirs \subseteq Paths /\ partial \subseteq Paths
    /\ file \in [Paths -> 0 .. Len(archive)]
    /\ temp \in {"absent", "partial", "complete"}
    /\ stage \in {"entry", "content", "install", "harden", "ok", "failed"}

Folded(p) == [n \in DOMAIN p |-> Fold(p[n])]
Prefixes(p) == {SubSeq(p, 1, n) : n \in 0 .. Len(p)}
Parents(p) == Prefixes(p) \ {p}
Exists(p) == p \in dirs \/ file[p] # 0

\* The SFTP walk visits a directory before what it lists, and each path once.
Walk(a) == \A n \in DOMAIN a :
              /\ \A p \in Parents(a[n].path) : \E m \in 1 .. n - 1 : a[m] = [path |-> p, kind |-> "dir"]
              /\ \A m \in 1 .. n - 1 : a[m].path # a[n].path

TreeInit ==
    /\ method \in {"tar", "sftp"} /\ hasTar \in BOOLEAN /\ archive \in Archives
    /\ method = "tar" => hasTar
    /\ method = "sftp" => Walk(archive)
    /\ done = 0 /\ keys = {}
    /\ dirs = {} /\ file = [p \in Paths |-> 0] /\ partial = {}
    /\ temp = "absent" /\ stage = "entry"

Fails == stage' = "failed"
Advance == done' = done + 1 /\ stage' = "entry"

-----------------------------------------------------------------------------
Here == archive[done + 1]
\* The directories an entry needs, made one component at a time.
Needed == IF Here.kind = "dir" THEN Prefixes(Here.path) ELSE Parents(Here.path)

\* extractionTarget, the collision of names, the kinds that are not accepted, a
\* component that is no directory, and a destination that exists.
Refused == \/ Here.kind \notin {"dir", "file"}
           \/ method = "tar" /\ Folded(Here.path) \in keys
           \/ \E p \in Needed : file[p] # 0
           \/ Here.kind = "file" /\ Exists(Here.path)

\* A name counts from its own entry on, not from the first path that leads through it.
RefuseEntry == /\ stage = "entry" /\ done < Len(archive) /\ Refused
               /\ Fails
               /\ UNCHANGED <<sent, done, keys, dirs, file, partial, temp>>

\* The name is new and the directories are made; or one of them cannot be.
Accept == /\ stage = "entry" /\ done < Len(archive) /\ ~Refused
          /\ keys' = keys \union {Folded(Here.path)}
          /\ dirs' = dirs \union Needed

MakeDirectory == /\ Accept /\ Here.kind = "dir"
                 /\ Advance \/ (Fails /\ UNCHANGED done)
                 /\ UNCHANGED <<sent, file, partial, temp>>

\* The tar reader creates the file itself, SFTP a temporary one beside it.
CreateFile == /\ Accept /\ Here.kind = "file"
              /\ \/ /\ method = "tar"
                    /\ file' = [file EXCEPT ![Here.path] = done + 1]
                    /\ partial' = partial \union {Here.path}
                    /\ stage' = "content" /\ UNCHANGED temp
                 \/ /\ method = "sftp"
                    /\ temp' = "partial"
                    /\ stage' = "content" /\ UNCHANGED <<file, partial>>
                 \/ Fails /\ UNCHANGED <<file, partial, temp>>
              /\ UNCHANGED <<sent, done>>

\* The content arrives, is flushed and closed; or the file is removed again, if that
\* is possible.
TarContent ==
    /\ stage = "content" /\ method = "tar"
    /\ \/ partial' = partial \ {Here.path} /\ Advance /\ UNCHANGED file
       \/ /\ Fails /\ UNCHANGED done
          /\ \/ UNCHANGED <<file, partial>>
             \/ file' = [file EXCEPT ![Here.path] = 0] /\ partial' = partial \ {Here.path}
    /\ UNCHANGED <<sent, keys, dirs, temp>>

\* copySFTPFile: the content, Sync, Chmod and Close; any error removes the
\* temporary file, and an error of the removal is ignored.
SftpContent ==
    /\ stage = "content" /\ method = "sftp"
    /\ \/ temp' = "complete" /\ stage' = "install"
       \/ temp' \in {temp, "absent"} /\ Fails
    /\ UNCHANGED <<sent, done, keys, dirs, file, partial>>

\* replaceDownloadedFile links the file and removes its temporary name. An error of
\* the second step is one of the whole, although the file is there.
Install ==
    /\ stage = "install"
    /\ \/ file' = [file EXCEPT ![Here.path] = done + 1] /\ temp' = "absent" /\ Advance
       \/ /\ file' = [file EXCEPT ![Here.path] = done + 1] \/ UNCHANGED file
          /\ temp' \in {temp, "absent"} /\ Fails /\ UNCHANGED done
    /\ UNCHANGED <<sent, keys, dirs, partial>>

\* The end of the archive, and the exit status of the host's tar. The result is checked
\* unless SFTP was the last method after tar (ssh.go:1300).
Checked == method = "tar" \/ ~hasTar

EndOfArchive ==
    /\ stage = "entry" /\ done = Len(archive)
    /\ \/ stage' = IF Checked THEN "harden" ELSE "ok"
       \/ Fails
    /\ UNCHANGED <<sent, done, keys, dirs, file, partial, temp>>

\* The archive is cut short, the host answers no more, the deadline passes.
Broken == /\ stage = "entry" /\ done < Len(archive) /\ Fails
          /\ UNCHANGED <<sent, done, keys, dirs, file, partial, temp>>

Present == {p \in Paths : Exists(p)}

\* Mistake: the names were compared while extracting, they are not compared again.
Harden_NoNames == /\ stage = "harden"
                  /\ stage' = "ok" \/ Fails
                  /\ UNCHANGED <<sent, done, keys, dirs, file, partial, temp>>

\* hardenDownloadedArtifact walks what is on disk now.
Harden == /\ stage = "harden"
          /\ \/ /\ \A p, q \in Present : Folded(p) = Folded(q) => p = q
                /\ stage' = "ok"
             \/ Fails
          /\ UNCHANGED <<sent, done, keys, dirs, file, partial, temp>>

TreeNext == \/ RefuseEntry \/ MakeDirectory \/ CreateFile \/ TarContent \/ SftpContent
            \/ Install \/ EndOfArchive \/ Broken \/ Harden

TreeSpec == TreeInit /\ [][TreeNext]_treeVars

-----------------------------------------------------------------------------
(* Property.                                                               *)

\* "Component-aware extraction rejects traversal, links, special files, symlink
\* components, duplicates, and portable-name collisions" (BUG_AUDIT.md:46): a tree
\* that a method reports as downloaded is exactly what the host sent, every file
\* with its own entry's content, complete, and no directory but those that lead to
\* them. The archive may name directories or leave them to the paths of its files:
\* in both cases no two of its names are one on a file system that ignores case, unless
\* SFTP brought it after tar had failed.
TreeIsExact ==
    stage = "ok" =>
        /\ \A n \in DOMAIN archive :
             \/ archive[n].kind = "dir" /\ archive[n].path \in dirs
             \/ archive[n].kind = "file" /\ file[archive[n].path] = n
        /\ partial = {} /\ temp = "absent"
        /\ \A p \in Paths : Exists(p) => \E n \in DOMAIN archive : p \in Prefixes(archive[n].path)
        /\ Checked => \A p, q \in Present : Folded(p) = Folded(q) => p = q
=============================================================================
