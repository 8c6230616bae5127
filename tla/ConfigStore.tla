---------------------------- MODULE ConfigStore ----------------------------
(***************************************************************************)
(* The credential file config.json and its copy in memory                  *)
(* (internal/config): ReadConfig, UpdateEntry, and SaveConfig, which       *)
(* replaces the file by a rename and syncs the directory after it          *)
(* (atomic_replace_unix.go). Fleet says when they are called.              *)
(*                                                                         *)
(* A crash needs no action: "lasting" is what it would leave, at any time. *)
(* An entry is told apart by who wrote it last.                            *)
(***************************************************************************)
CONSTANTS Addresses,    \* the hosts entries are about
          Starts,       \* the files a run may find
          Contested     \* the hosts another process may save an entry about

NoEntries == [a \in Addresses |-> "none"]
Entries == [Addresses -> {"none", "earlier", "rival", "accepted"}]
Files == [kind : {"missing", "malformed", "whole"}, entries : Entries]
Malformed == [kind |-> "malformed", entries |-> NoEntries]
Whole(e) == [kind |-> "whole", entries |-> e]

\* What a run finds was written before it and before the other process's save.
ASSUME StoreAssumption == /\ Starts \subseteq Files /\ Contested \subseteq Addresses
                          /\ \A f \in Starts, a \in Addresses : f.entries[a] \in {"none", "earlier"}

VARIABLES start,    \* the file as this run finds it
          rival,    \* what another process saved meanwhile; start if nothing
          config,   \* the file as a reader sees it
          lasting,  \* the files a crash may leave
          memory,   \* configStore.entries
          temp,     \* SaveConfig's temporary file
          step,     \* where SaveConfig is
          synced,   \* it has synced the directory
          saveErr   \* it has an error to return

storeVars == <<start, rival, config, lasting, memory, temp, step, synced, saveErr>>

StoreTypeOK ==
    /\ start \in Files /\ rival \in Files /\ config \in Files
    /\ lasting \subseteq Files
    /\ memory \in Entries
    /\ temp \in {"absent", "partial", "written", "durable"}
    /\ step \in {"idle", "create", "chmod", "write", "sync", "close", "rename",
                 "syncdir", "remove", "done"}
    /\ synced \in BOOLEAN /\ saveErr \in BOOLEAN

StoreInit ==
    /\ start \in Starts
    /\ rival = start /\ config = start /\ lasting = {start}
    /\ memory = NoEntries
    /\ temp = "absent" /\ step = "idle"
    /\ synced = FALSE /\ saveErr = FALSE

-----------------------------------------------------------------------------
\* A missing file is an empty one; anything else that is wrong with it is an
\* error, and the memory stays as it was.
ReadConfig == /\ config.kind # "malformed"
              /\ memory' = config.entries
              /\ UNCHANGED <<start, rival, config, lasting, temp, step, synced, saveErr>>

\* Mistake: the entries are copied, changed and put back without the lock.
UpdateEntry_Unlocked(a) ==
    /\ \/ memory' = [memory EXCEPT ![a] = "accepted"]
       \/ memory' = [NoEntries EXCEPT ![a] = "accepted"]
    /\ UNCHANGED <<start, rival, config, lasting, temp, step, synced, saveErr>>

UpdateEntry(a) ==
    /\ memory' = [memory EXCEPT ![a] = "accepted"]
    /\ UNCHANGED <<start, rival, config, lasting, temp, step, synced, saveErr>>

-----------------------------------------------------------------------------
(* SaveConfig. An error on the way goes to the deferred removal.           *)

kept == <<start, rival, memory>>
Proceed(s) == step' = s /\ UNCHANGED saveErr
GiveUp(s) == step' = s /\ saveErr' = TRUE

\* The removal is deferred only when there is a file to remove.
CreateTemp == /\ step = "create"
              /\ \/ temp' = "partial" /\ Proceed("chmod")
                 \/ UNCHANGED temp /\ GiveUp("done")
              /\ UNCHANGED <<kept, config, lasting, synced>>

\* Mistake: the data is not synced before the rename.
FillTemp_NoSync ==
    /\ \/ step = "chmod" /\ UNCHANGED temp /\ Proceed("write")
       \/ step = "write" /\ temp' = "written" /\ Proceed("close")
       \/ step = "sync" /\ UNCHANGED temp /\ Proceed("close")
       \/ step = "close" /\ UNCHANGED temp /\ Proceed("rename")
       \/ step \in {"chmod", "write", "sync", "close"} /\ UNCHANGED temp /\ GiveUp("remove")
    /\ UNCHANGED <<kept, config, lasting, synced>>

FillTemp ==
    /\ \/ step = "chmod" /\ UNCHANGED temp /\ Proceed("write")
       \/ step = "write" /\ temp' = "written" /\ Proceed("sync")
       \/ step = "sync" /\ temp' = "durable" /\ Proceed("close")
       \/ step = "close" /\ UNCHANGED temp /\ Proceed("rename")
       \/ step \in {"chmod", "write", "sync", "close"} /\ UNCHANGED temp /\ GiveUp("remove")
    /\ UNCHANGED <<kept, config, lasting, synced>>

\* A reader sees the new file at once. A crash may still undo the rename, and
\* would leave an unfinished file if its data had not been synced.
Rename ==
    /\ step = "rename"
    /\ \/ /\ config' = Whole(memory)
          /\ lasting' = lasting \union {IF temp = "durable" THEN Whole(memory) ELSE Malformed}
          /\ temp' = "absent"
          /\ Proceed("syncdir")
       \/ UNCHANGED <<config, lasting, temp>> /\ GiveUp("remove")
    /\ UNCHANGED <<kept, synced>>

\* The directory is opened, synced and closed. A file system that cannot sync one
\* is no error; every other failure is, although the file has been replaced.
SyncDir ==
    /\ step = "syncdir"
    /\ \/ synced' = TRUE /\ lasting' = {config} /\ (Proceed("remove") \/ GiveUp("remove"))
       \/ UNCHANGED <<synced, lasting>> /\ (Proceed("remove") \/ GiveUp("remove"))
    /\ UNCHANGED <<kept, config, temp>>

\* An error of the deferred removal is ignored.
RemoveTemp == /\ step = "remove"
              /\ temp' \in {temp, "absent"}
              /\ Proceed("done")
              /\ UNCHANGED <<kept, config, lasting, synced>>

SaveStep == CreateTemp \/ FillTemp \/ Rename \/ SyncDir \/ RemoveTemp

\* Another coordinate process, which read the file when this one did, adds an
\* entry and saves.
OtherSaves ==
    /\ start.kind # "malformed" /\ rival = start
    /\ \E a \in Contested :
          /\ rival' = Whole([start.entries EXCEPT ![a] = "rival"])
          /\ config' = rival'
          /\ lasting' = {rival'}
    /\ UNCHANGED <<start, memory, temp, step, synced, saveErr>>

-----------------------------------------------------------------------------
\* Whoever saves, and wherever a crash comes, the file is one that was whole: the
\* one this run found, another process's, or the new one with all it holds. One that
\* is malformed is never overwritten, because then nothing is read or saved.
FileIsOldOrNew == {config} \union lasting \subseteq {start, rival, Whole(memory)}
=============================================================================
