------------------------------ MODULE Session ------------------------------
(***************************************************************************)
(* Sessions on one SSH client: runWithInput (internal/ssh/ssh.go), which   *)
(* runs a command, the transfers that stream through one                   *)
(* (streamUploadDir, streamUploadFile, streamTarOverSSHMode), and the      *)
(* channel open both share (newSessionContext,                             *)
(* internal/ssh/operation_limit.go). Every call has a context with a       *)
(* deadline; the SSH library has none, so each stage has its own way out   *)
(* of a library call that blocks, and each closes the client all the calls *)
(* share. HostWork has a whole call in one or two steps; this is what      *)
(* happens in between.                                                     *)
(***************************************************************************)
EXTENDS Naturals

CONSTANTS Calls,        \* calls on the client
          Streams,      \* those that stream a transfer; the others run a command
          Behaviours    \* how the host may behave: see below

\* "answering"; "refusing": it may also reject a channel or a command;
\* "silent": it may at some time stop answering, and keep the connection.
ASSUME CallsAssumption == Streams \subseteq Calls
ASSUME BehavioursAssumption == Behaviours \subseteq {"answering", "refusing", "silent"}

VARIABLES host,      \* how this host behaves
          mute,      \* it has stopped answering
          connected, \* the client's connection is open
          caller,    \* the goroutine of each call
          expired,   \* the call's deadline has passed
          opener,    \* the goroutine that opens its channel
          session,   \* its channel, as the library sees it
          remote,    \* its command on the host
          closer,    \* a goroutine is about to close client and session
          result     \* what the call returned

sessionVars == <<host, mute, connected, caller, expired, opener, session, remote, closer, result>>
world == <<host, mute>>

SessionTypeOK ==
    /\ host \in Behaviours /\ mute \in BOOLEAN /\ connected \in BOOLEAN
    /\ caller \in [Calls -> {"new", "open", "start", "wait", "grace", "returned"}]
    /\ expired \in [Calls -> BOOLEAN]
    /\ opener \in [Calls -> {"none", "pending", "opened", "ready"}]
    /\ session \in [Calls -> {"none", "open", "closed"}]
    /\ remote \in [Calls -> {"none", "running", "exited"}]
    /\ closer \in [Calls -> BOOLEAN]
    /\ result \in [Calls -> {"none", "ok", "error", "timeout"}]

SessionInit ==
    /\ host \in Behaviours /\ mute = FALSE /\ connected = TRUE
    /\ caller = [c \in Calls |-> "new"]
    /\ expired = [c \in Calls |-> FALSE]
    /\ opener = [c \in Calls |-> "none"]
    /\ session = [c \in Calls |-> "none"]
    /\ remote = [c \in Calls |-> "none"]
    /\ closer = [c \in Calls |-> FALSE]
    /\ result = [c \in Calls |-> "none"]

HostAnswers == connected /\ ~mute
Moves(c, p) == caller' = [caller EXCEPT ![c] = p]
Return(c, r) == Moves(c, "returned") /\ result' = [result EXCEPT ![c] = r]
\* runTransferOperation calls everything a timeout that ends after the deadline.
Report(c, r) == Return(c, IF c \in Streams /\ expired[c] THEN "timeout" ELSE r)
CloseSession(c) == session' = [session EXCEPT ![c] = IF @ = "open" THEN "closed" ELSE @]

-----------------------------------------------------------------------------
(* The world: time and the host.                                           *)

DeadlinePasses(c) ==
    /\ caller[c] \notin {"new", "returned"} /\ ~expired[c]
    /\ expired' = [expired EXCEPT ![c] = TRUE]
    /\ UNCHANGED <<world, connected, caller, opener, session, remote, closer, result>>

FallSilent == /\ host = "silent" /\ ~mute
              /\ mute' = TRUE
              /\ UNCHANGED <<host, connected, caller, expired, opener, session, remote, closer, result>>

RemoteExits(c) == /\ remote[c] = "running"
                  /\ remote' = [remote EXCEPT ![c] = "exited"]
                  /\ UNCHANGED <<world, connected, caller, expired, opener, session, closer, result>>

-----------------------------------------------------------------------------
(* newSessionContext.                                                      *)

Call(c) == /\ caller[c] = "new"
           /\ Moves(c, "open")
           /\ opener' = [opener EXCEPT ![c] = "pending"]
           /\ UNCHANGED <<world, connected, expired, session, remote, closer, result>>

\* client.NewSession returns in the opener's goroutine.
Opened(c) ==
    /\ opener[c] = "pending"
    /\ \/ /\ HostAnswers
          /\ opener' = [opener EXCEPT ![c] = "opened"]
          /\ session' = [session EXCEPT ![c] = "open"]
       \/ /\ ~connected \/ (HostAnswers /\ host = "refusing")
          /\ opener' = [opener EXCEPT ![c] = "ready"]
          /\ UNCHANGED session
    /\ UNCHANGED <<world, connected, caller, expired, remote, closer, result>>

\* It looks at the context before it hands the session over.
HandOver(c) ==
    /\ opener[c] = "opened"
    /\ opener' = [opener EXCEPT ![c] = "ready"]
    /\ IF expired[c] THEN CloseSession(c) ELSE UNCHANGED session
    /\ UNCHANGED <<world, connected, caller, expired, remote, closer, result>>

TakeSession(c) ==
    /\ caller[c] = "open" /\ opener[c] = "ready"
    /\ IF session[c] = "none" THEN Report(c, "error")
                              ELSE Moves(c, "start") /\ UNCHANGED result
    /\ UNCHANGED <<world, connected, expired, opener, session, remote, closer>>

\* Mistake: the caller stops waiting and leaves the client as it is.
OpenExpires_NoClose(c) ==
    /\ caller[c] = "open" /\ expired[c]
    /\ Return(c, "timeout")
    /\ UNCHANGED <<world, connected, expired, opener, session, remote, closer>>

\* The opener may still be blocked: closing the client wakes it up.
OpenExpires(c) ==
    /\ caller[c] = "open" /\ expired[c]
    /\ connected' = FALSE
    /\ Return(c, "timeout")
    /\ UNCHANGED <<world, expired, opener, session, remote, closer>>

-----------------------------------------------------------------------------
(* session.Start: a request that waits for the host's reply. No context,   *)
(* and no watcher yet.                                                     *)

Start(c) == /\ caller[c] = "start" /\ session[c] = "open" /\ HostAnswers
            /\ Moves(c, "wait")
            /\ remote' = [remote EXCEPT ![c] = "running"]
            /\ UNCHANGED <<world, connected, expired, opener, session, closer, result>>

StartRefused(c) == \/ session[c] = "closed" \/ ~connected
                   \/ HostAnswers /\ host = "refusing"

StartFails(c) ==
    /\ caller[c] = "start" /\ StartRefused(c)
    /\ CloseSession(c)
    /\ Report(c, "error")
    /\ UNCHANGED <<world, connected, expired, opener, remote, closer>>

-----------------------------------------------------------------------------
(* Waiting for the command to end.                                         *)

\* The exit status, which may have come in before the channel was lost, or an
\* error because it is lost.
WaitOutcome(c) == IF remote[c] = "exited" THEN {"ok", "error"} ELSE {"error"}
WaitOver(c) == (remote[c] = "exited" /\ HostAnswers) \/ ~connected \/ session[c] = "closed"

\* Mistake: a transfer that is over closes the client, which it does not own.
WaitEnds_ClosesClient(c) ==
    /\ caller[c] = "wait" /\ WaitOver(c) /\ (c \in Streams => ~closer[c])
    /\ \E r \in WaitOutcome(c) : Report(c, r)
    /\ CloseSession(c)
    /\ connected' = (connected /\ c \notin Streams)
    /\ UNCHANGED <<world, expired, opener, remote, closer>>

\* runWithInput closes the session; a transfer does in a deferred call, after
\* its watcher has ended.
WaitEnds(c) ==
    /\ caller[c] = "wait" /\ WaitOver(c) /\ (c \in Streams => ~closer[c])
    /\ \E r \in WaitOutcome(c) : Report(c, r)
    /\ CloseSession(c)
    /\ UNCHANGED <<world, connected, expired, opener, remote, closer>>

\* An archive that cannot be extracted: the session is closed, the host's
\* command is not waited for.
StreamFails(c) ==
    /\ caller[c] = "wait" /\ c \in Streams /\ ~closer[c]
    /\ Report(c, "error")
    /\ CloseSession(c)
    /\ UNCHANGED <<world, connected, expired, opener, remote, closer>>

\* A command's deadline: a goroutine is started to close client and session,
\* because closing may block, and the call waits a second at most for the end.
WaitExpires(c) ==
    /\ caller[c] = "wait" /\ expired[c] /\ c \notin Streams
    /\ Moves(c, "grace")
    /\ closer' = [closer EXCEPT ![c] = TRUE]
    /\ UNCHANGED <<world, connected, expired, opener, session, remote, result>>

GraceEnds(c) == /\ caller[c] = "grace"
                /\ Return(c, "timeout")
                /\ UNCHANGED <<world, connected, expired, opener, session, remote, closer>>

\* closeOnContext: the watcher of a transfer.
WatcherFires(c) ==
    /\ caller[c] = "wait" /\ expired[c] /\ c \in Streams /\ ~closer[c] /\ session[c] = "open"
    /\ closer' = [closer EXCEPT ![c] = TRUE]
    /\ UNCHANGED <<world, connected, caller, expired, opener, session, remote, result>>

\* Mistake: only the session is closed, which a silent host can hold up.
Close_SessionOnly(c) == /\ closer[c]
                        /\ closer' = [closer EXCEPT ![c] = FALSE]
                        /\ IF mute THEN UNCHANGED session ELSE CloseSession(c)
                        /\ UNCHANGED <<world, connected, caller, expired, opener, remote, result>>

Close(c) == /\ closer[c]
            /\ closer' = [closer EXCEPT ![c] = FALSE]
            /\ connected' = FALSE
            /\ CloseSession(c)
            /\ UNCHANGED <<world, caller, expired, opener, remote, result>>

-----------------------------------------------------------------------------
Opening(c) == Opened(c) \/ HandOver(c) \/ TakeSession(c) \/ OpenExpires(c)
Waiting(c) == WaitEnds(c) \/ StreamFails(c) \/ WaitExpires(c) \/ GraceEnds(c) \/ WatcherFires(c) \/ Close(c)
Go(c) == Opening(c) \/ Start(c) \/ StartFails(c) \/ Waiting(c)

\* All the calls that were made are over, or wait for a host that is silent.
Quiet == /\ \A c \in Calls : caller[c] = "returned" \/ (caller[c] = "start" /\ expired[c])
         /\ UNCHANGED sessionVars

SessionWork ==
    \/ FallSilent
    \/ \E c \in Calls : Call(c) \/ DeadlinePasses(c) \/ RemoteExits(c) \/ Go(c)

SessionNext == SessionWork \/ Quiet

\* Time passes and goroutines run. Nothing is assumed of the host: a command may
\* never exit, and an answer may never come.
SessionFairness == \A c \in Calls : WF_sessionVars(DeadlinePasses(c)) /\ WF_sessionVars(Go(c))

SessionSpec == SessionInit /\ [][SessionNext]_sessionVars /\ SessionFairness

-----------------------------------------------------------------------------
(* Properties.                                                             *)

\* A call that is over leaves no channel open on a client that stays open:
\* neither its error paths nor a channel that is granted too late.
NoSessionLeaks ==
    \A c \in Calls : caller[c] = "returned" /\ session[c] = "open" /\ opener[c] = "ready" =>
        ~connected \/ closer[c]

\* A result is neither made up nor somebody else's: success is the host's word, so
\* no call of a client that a sibling's deadline closed is taken for one that ended
\* well; and on a host that answers, a command fails because the host says so or
\* because the deadline of one of the client's calls has passed.
ResultIsHonest ==
    \A c \in Calls :
        /\ result[c] = "ok" => remote[c] = "exited"
        /\ result[c] = "error" /\ host = "answering" /\ c \notin Streams =>
             remote[c] = "exited" \/ \E d \in Calls : expired[d]

\* Whatever the host does, a channel that is being opened and a command that
\* runs end with the call's deadline, and the goroutines they started end too.
OpenAndWaitAreBounded ==
    \A c \in Calls : /\ caller[c] = "open" ~> caller[c] # "open"
                     /\ caller[c] = "wait" ~> caller[c] = "returned"
                     /\ opener[c] = "pending" ~> opener[c] # "pending"
                     /\ closer[c] ~> ~closer[c]

\* "runs a command on the remote host while feeding it data on stdin, honoring
\* a context deadline" (ssh.go:66-67): every call that was made returns.
CallIsBounded == \A c \in Calls : caller[c] = "open" ~> caller[c] = "returned"
=============================================================================
