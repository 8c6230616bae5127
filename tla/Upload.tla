------------------------------- MODULE Upload -------------------------------
(***************************************************************************)
(* The -F entries of one job (uploadSingleEntryContext and the streaming   *)
(* transfers in internal/ssh/ssh.go; rsyncUpload, the rsync child and its  *)
(* askpass helper in internal/ssh/rsync.go and rsync_cancel_unix.go).      *)
(* rsync runs on the operator's machine with a connection of its own; what *)
(* it leaves undone, whatever the error, is streamed over the client that  *)
(* all entries share and that anybody's deadline closes. Session has the   *)
(* streaming session in detail; rsync is not in the repository.            *)
(***************************************************************************)

CONSTANT Uploads      \* the entries, each with a destination of its own

VARIABLES usesRsync,  \* rsyncUsable found it on both sides
          asksPass,   \* password mode: rsync's ssh needs the askpass helper
          client,     \* the job's SSH client: "open" or "closed"
          doing,      \* the goroutine of each entry
          elapsed,    \* the transfer's deadline has passed
          helper,     \* its askpass file: "none", "made", or "left" behind
          child,      \* the rsync process and its ssh
          rsynced,    \* what runRsync is about to return, after the cleanup
          server,     \* the host's rsync: "left" alone by a child that failed, or
                      \* "late": it ended only after the fallback had begun
          dest,       \* the destination: "old", "partial" or "whole"
          uploaded    \* the entry's result

uploadVars == <<usesRsync, asksPass, client, doing, elapsed, helper, child, rsynced,
                server, dest, uploaded>>
mode == <<usesRsync, asksPass>>
rsync == <<helper, child, rsynced, server>>

UploadTypeOK ==
    /\ usesRsync \in BOOLEAN /\ asksPass \in BOOLEAN /\ client \in {"open", "closed"}
    /\ doing \in [Uploads -> {"new", "mkdir", "helper", "start", "rsync", "cleanup",
                              "stream", "send", "over"}]
    /\ elapsed \in [Uploads -> BOOLEAN]
    /\ server \in [Uploads -> {"none", "left", "late"}]
    /\ helper \in [Uploads -> {"none", "made", "left"}]
    /\ child \in [Uploads -> BOOLEAN]
    /\ rsynced \in [Uploads -> {"none", "ok", "error"}]
    /\ dest \in [Uploads -> {"old", "partial", "whole"}]
    /\ uploaded \in [Uploads -> {"none", "ok", "error", "timeout"}]

UploadInit ==
    /\ usesRsync \in BOOLEAN /\ asksPass \in BOOLEAN /\ client = "open"
    /\ doing = [u \in Uploads |-> "new"]
    /\ elapsed = [u \in Uploads |-> FALSE] /\ child = elapsed
    /\ helper = [u \in Uploads |-> "none"] /\ server = helper
    /\ rsynced = [u \in Uploads |-> "none"]
    /\ dest = [u \in Uploads |-> "old"]
    /\ uploaded = [u \in Uploads |-> "none"]

-----------------------------------------------------------------------------
Do(u, d) == doing' = [doing EXCEPT ![u] = d] /\ UNCHANGED uploaded
Has(u, d) == doing[u] = d

\* runTransferOperation reports a timeout whatever the transfer made of it.
Report(u, r) ==
    /\ doing' = [doing EXCEPT ![u] = "over"]
    /\ uploaded' = [uploaded EXCEPT ![u] = IF elapsed[u] THEN "timeout" ELSE r]

Elapse(u) == /\ doing[u] \notin {"new", "over"} /\ ~elapsed[u]
             /\ elapsed' = [elapsed EXCEPT ![u] = TRUE]
             /\ UNCHANGED <<mode, client, doing, rsync, dest, uploaded>>

\* A malformed entry or a local path that is missing or special ends here.
Start(u) == /\ Has(u, "new")
            /\ \/ Do(u, IF usesRsync THEN "mkdir" ELSE "stream")
               \/ Report(u, "error")
            /\ UNCHANGED <<mode, client, elapsed, rsync, dest>>

-----------------------------------------------------------------------------
(* rsyncUpload.                                                            *)

\* The host makes the destination's directory, or says no; the probe has a deadline
\* of its own, and closes the client when it passes.
MakeDir(u) ==
    /\ Has(u, "mkdir")
    /\ \/ /\ client = "open" /\ Do(u, IF asksPass THEN "helper" ELSE "start")
          /\ UNCHANGED client
       \/ Do(u, "stream") /\ UNCHANGED client
       \/ Do(u, "stream") /\ client' = "closed"
    /\ UNCHANGED <<mode, elapsed, rsync, dest>>

\* writeAskpassHelper: a file that cannot be completed is removed, if that works.
MakeHelper(u) ==
    /\ Has(u, "helper")
    /\ \/ Do(u, "start") /\ helper' = [helper EXCEPT ![u] = "made"]
       \/ Do(u, "stream") /\ \E h \in {"none", "left"} : helper' = [helper EXCEPT ![u] = h]
    /\ UNCHANGED <<mode, client, elapsed, child, rsynced, server, dest>>

RunRsync(u) ==
    /\ Has(u, "start")
    /\ \/ /\ ~elapsed[u]
          /\ child' = [child EXCEPT ![u] = TRUE]
          /\ Do(u, "rsync") /\ UNCHANGED rsynced
       \/ /\ rsynced' = [rsynced EXCEPT ![u] = "error"]
          /\ Do(u, "cleanup") /\ UNCHANGED child
    /\ UNCHANGED <<mode, client, elapsed, helper, server, dest>>

ChildEnds(u, r) == /\ child' = [child EXCEPT ![u] = FALSE]
                   /\ rsynced' = [rsynced EXCEPT ![u] = r]
                   /\ Do(u, "cleanup")
                   /\ UNCHANGED <<mode, client, elapsed, helper>>

\* Exit status 0, with output beyond the capture limit or without.
RsyncSucceeds(u) == /\ Has(u, "rsync")
                    /\ \E r \in {"ok", "error"} : ChildEnds(u, r)
                    /\ dest' = [dest EXCEPT ![u] = "whole"]
                    /\ UNCHANGED server

\* A partial transfer (23, 24) or any other exit status. --partial keeps what came.
RsyncFails(u) == /\ Has(u, "rsync")
                 /\ ChildEnds(u, "error")
                 /\ \E d \in {dest[u], "partial"} : dest' = [dest EXCEPT ![u] = d]
                 /\ \E s \in {"none", "left"} : server' = [server EXCEPT ![u] = s]

\* Mistake: rsync itself is killed, and its ssh is not.
KillRsync_NotItsGroup(u) ==
    /\ Has(u, "rsync") /\ elapsed[u]
    /\ rsynced' = [rsynced EXCEPT ![u] = "error"]
    /\ Do(u, "cleanup")
    /\ UNCHANGED <<mode, client, elapsed, helper, child, server, dest>>

\* The deadline kills the process group; WaitDelay bounds the wait for its pipes.
KillRsync(u) == /\ Has(u, "rsync") /\ elapsed[u]
                /\ ChildEnds(u, "error")
                /\ \E d \in {dest[u], "partial"} : dest' = [dest EXCEPT ![u] = d]
                /\ \E s \in {"none", "left"} : server' = [server EXCEPT ![u] = s]

\* The deferred cleanup: a helper that cannot be removed is an error like any other,
\* and every error sends the entry to the streaming transfer.
CleanUp(u) ==
    /\ Has(u, "cleanup")
    /\ \E h \in IF helper[u] = "made" THEN {"none", "left"} ELSE {helper[u]} :
          /\ helper' = [helper EXCEPT ![u] = h]
          /\ IF rsynced[u] = "ok" /\ h = "none" THEN Report(u, "ok") ELSE Do(u, "stream")
    /\ UNCHANGED <<mode, client, elapsed, child, rsynced, server, dest>>

\* The host's rsync notices later that it is alone, and keeps what came.
ServerEnds(u) == /\ server[u] = "left"
                 /\ server' = [server EXCEPT ![u] = IF doing[u] \in {"send", "over"} THEN "late"
                                                                                    ELSE "none"]
                 /\ \E d \in {dest[u], "partial"} : dest' = [dest EXCEPT ![u] = d]
                 /\ UNCHANGED <<mode, client, doing, elapsed, helper, child, rsynced, uploaded>>

-----------------------------------------------------------------------------
(* streamUploadFile and streamUploadDir.                                   *)

\* No channel, no local file, or the command is refused; a channel that does not
\* open in time takes the client along.
StreamRefused(u) ==
    /\ Has(u, "stream")
    /\ Report(u, "error")
    /\ client' \in IF elapsed[u] THEN {client, "closed"} ELSE {client}
    /\ UNCHANGED <<mode, elapsed, rsync, dest>>

\* The remote command empties the file, or unpacks over what is there.
Stream(u) == /\ Has(u, "stream") /\ client = "open" /\ ~elapsed[u]
             /\ Do(u, "send")
             /\ dest' = [dest EXCEPT ![u] = "partial"]
             /\ UNCHANGED <<mode, client, elapsed, rsync>>

\* Mistake: a file that cannot be read is skipped; the host knows of nothing.
SourceFails_Skipped(u) == /\ Has(u, "send") /\ client = "open"
                          /\ Report(u, "ok")
                          /\ UNCHANGED <<mode, client, elapsed, rsync, dest>>

\* writeUploadTar and io.Copy are strict, although the host's command, which sees
\* the end of its input, ends well.
SourceFails(u) == /\ Has(u, "send")
                  /\ Report(u, "error")
                  /\ UNCHANGED <<mode, client, elapsed, rsync, dest>>

Sent(u) == /\ Has(u, "send") /\ client = "open"
           /\ \/ /\ Report(u, "ok")
                 /\ \E d \in IF server[u] = "late" THEN {dest[u], "whole"} ELSE {"whole"} :
                       dest' = [dest EXCEPT ![u] = d]
              \/ Report(u, "error") /\ UNCHANGED dest
           /\ UNCHANGED <<mode, client, elapsed, rsync>>

\* The connection is lost, to a sibling's deadline or to the own watcher.
ClientLost(u) == /\ Has(u, "send")
                 /\ client = "closed" \/ elapsed[u]
                 /\ client' = "closed"
                 /\ Report(u, "error")
                 /\ UNCHANGED <<mode, elapsed, rsync, dest>>

-----------------------------------------------------------------------------
UploadNext == \E u \in Uploads :
    \/ Elapse(u) \/ Start(u) \/ MakeDir(u) \/ MakeHelper(u) \/ RunRsync(u)
    \/ RsyncSucceeds(u) \/ RsyncFails(u) \/ KillRsync(u) \/ CleanUp(u) \/ ServerEnds(u)
    \/ StreamRefused(u) \/ Stream(u) \/ SourceFails(u) \/ Sent(u) \/ ClientLost(u)

UploadSpec == UploadInit /\ [][UploadNext]_uploadVars

-----------------------------------------------------------------------------
(* Properties.                                                             *)

\* An upload that is reported as good is complete at its destination: no partial
\* rsync, no unreadable source file and no lost connection is taken for success. The
\* host's side of a failed rsync, which may come back after the fallback, is out of
\* the program's reach.
UploadIsComplete ==
    \A u \in Uploads : uploaded[u] = "ok" => dest[u] = "whole" \/ server[u] = "late"

\* The fallback never writes beside the rsync it replaces, and an entry that is over
\* leaves no process behind and no askpass helper that could have been removed.
NothingStaysBehind ==
    \A u \in Uploads : doing[u] \in {"stream", "send", "over"} =>
        ~child[u] /\ helper[u] # "made"
=============================================================================
