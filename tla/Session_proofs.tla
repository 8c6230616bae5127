--------------------------- MODULE Session_proofs ---------------------------
(***************************************************************************)
(* For any number of calls on one client, commands and transfers, and on   *)
(* any host: no call leaves a channel open on a client that stays open,    *)
(* and what a call returns is what happened to it.                         *)
(***************************************************************************)
EXTENDS Session, TLAPS

\* A call and the opener of its channel: the opener works for nobody else, and what it
\* has left when the call is over is closed, or will be with the client.
ChannelInv(c) ==
    /\ caller[c] = "new" => opener[c] = "none"
    /\ caller[c] \in {"start", "wait", "grace"} => opener[c] = "ready"
    /\ opener[c] = "opened" => session[c] # "none"
    /\ caller[c] = "grace" => closer[c] \/ ~connected
    /\ caller[c] = "returned" => ~connected \/ closer[c] \/ (opener[c] = "ready" /\ session[c] # "open")

\* Why a channel is refused or closed under a call that has not returned.
CauseInv(c) ==
    /\ closer[c] => expired[c]
    /\ session[c] = "closed" => expired[c] \/ caller[c] = "returned"
    /\ opener[c] = "ready" /\ session[c] = "none" /\ host = "answering" => ~connected

\* What a call has returned.
ResultInv(c) ==
    /\ caller[c] # "returned" => result[c] = "none"
    /\ result[c] = "ok" => remote[c] = "exited"
    /\ result[c] = "error" /\ host = "answering" /\ c \notin Streams =>
         remote[c] = "exited" \/ \E d \in Calls : expired[d]

\* Only a deadline closes the client.
ClientInv == ~connected => \E d \in Calls : expired[d]

IInv == /\ SessionTypeOK /\ ClientInv
        /\ \A c \in Calls : ChannelInv(c) /\ CauseInv(c) /\ ResultInv(c)

-----------------------------------------------------------------------------
\* No call is made in an initial state.
LEMMA InitInv == SessionInit => IInv
  BY DEF SessionInit, IInv, SessionTypeOK, ClientInv, ChannelInv, CauseInv, ResultInv

\* A step keeps the types.
LEMMA StepTypes == SessionTypeOK /\ [SessionNext]_sessionVars => SessionTypeOK'
<1> SUFFICES ASSUME SessionTypeOK, [SessionNext]_sessionVars PROVE SessionTypeOK'
    OBVIOUS
<1> USE DEF SessionTypeOK, world, Moves, Return, Report, CloseSession
<1>1. CASE FallSilent \/ Quiet \/ UNCHANGED sessionVars
  BY <1>1 DEF FallSilent, Quiet, sessionVars
<1>2. ASSUME NEW c \in Calls, Call(c) \/ DeadlinePasses(c) \/ RemoteExits(c) PROVE SessionTypeOK'
  BY <1>2 DEF Call, DeadlinePasses, RemoteExits
<1>3. ASSUME NEW c \in Calls, Opening(c) PROVE SessionTypeOK'
  BY <1>3 DEF Opening, Opened, HandOver, TakeSession, OpenExpires
<1>4. ASSUME NEW c \in Calls, Start(c) \/ StartFails(c) PROVE SessionTypeOK'
  BY <1>4 DEF Start, StartFails
<1>5. ASSUME NEW c \in Calls, Waiting(c) PROVE SessionTypeOK'
  <2>1. CASE WaitEnds(c)
    <3>1. PICK r \in {"ok", "error"} : Report(c, r)
      BY <2>1 DEF WaitEnds, WaitOutcome
    <3> QED  BY <2>1, <3>1 DEF WaitEnds
  <2> QED  BY <1>5, <2>1 DEF Waiting, StreamFails, WaitExpires, GraceEnds, WatcherFires, Close
<1> QED  BY <1>1, <1>2, <1>3, <1>4, <1>5 DEF SessionNext, SessionWork, Go

\* A step of one call leaves the others as they are, except that it may close the
\* client, and its deadline may pass.
LEMMA OthersKeep ==
    ASSUME IInv, SessionTypeOK', NEW c \in Calls,
           host' = host, connected' = connected \/ ~connected',
           \A d \in Calls : expired[d] => expired'[d],
           \A d \in Calls \ {c} :
              /\ caller'[d] = caller[d] /\ opener'[d] = opener[d] /\ session'[d] = session[d]
              /\ remote'[d] = remote[d] /\ closer'[d] = closer[d] /\ result'[d] = result[d],
           ClientInv', ChannelInv(c)', CauseInv(c)', ResultInv(c)'
    PROVE  IInv'
<1> SUFFICES ASSUME NEW d \in Calls \ {c}
             PROVE  ChannelInv(d)' /\ CauseInv(d)' /\ ResultInv(d)'
    BY DEF IInv
<1>1. ChannelInv(d) /\ CauseInv(d) /\ ResultInv(d)
  BY DEF IInv
<1>2. ChannelInv(d)'
  BY <1>1 DEF ChannelInv
<1>3. CauseInv(d)'
  BY <1>1 DEF CauseInv
<1>4. ResultInv(d)'
  BY <1>1 DEF ResultInv
<1> QED  BY <1>2, <1>3, <1>4

\* Each step keeps the invariant.
LEMMA StepInv == IInv /\ [SessionNext]_sessionVars => IInv'
<1> SUFFICES ASSUME IInv, [SessionNext]_sessionVars PROVE IInv'
    OBVIOUS
<1>t. SessionTypeOK /\ SessionTypeOK'
  BY StepTypes DEF IInv
<1>1. CASE FallSilent \/ Quiet \/ UNCHANGED sessionVars
  BY <1>1, <1>t DEF FallSilent, Quiet, sessionVars, IInv, ClientInv, ChannelInv, CauseInv, ResultInv
<1>2. ASSUME NEW c \in Calls, Call(c) \/ DeadlinePasses(c) \/ RemoteExits(c) \/ Go(c) PROVE IInv'
  <2> USE DEF world, Moves, Return, Report, CloseSession, SessionTypeOK, ClientInv, ChannelInv, CauseInv, ResultInv
  <2>0. ChannelInv(c) /\ CauseInv(c) /\ ResultInv(c) /\ ClientInv
    BY DEF IInv
  <2> SUFFICES /\ host' = host /\ (connected' = connected \/ ~connected')
               /\ \A d \in Calls : expired[d] => expired'[d]
               /\ \A d \in Calls \ {c} :
                    /\ caller'[d] = caller[d] /\ opener'[d] = opener[d] /\ session'[d] = session[d]
                    /\ remote'[d] = remote[d] /\ closer'[d] = closer[d] /\ result'[d] = result[d]
               /\ ClientInv' /\ ChannelInv(c)' /\ CauseInv(c)' /\ ResultInv(c)'
      BY <1>t, OthersKeep
  <2>1. CASE Call(c)
    BY <1>t, <2>0, <2>1 DEF Call
  <2>2. CASE DeadlinePasses(c)
    BY <1>t, <2>0, <2>2 DEF DeadlinePasses
  <2>3. CASE RemoteExits(c)
    BY <1>t, <2>0, <2>3 DEF RemoteExits
  <2>4. CASE Opened(c)
    BY <1>t, <2>0, <2>4 DEF Opened, HostAnswers
  <2>5. CASE HandOver(c)
    BY <1>t, <2>0, <2>5 DEF HandOver
  <2>6. CASE TakeSession(c)
    BY <1>t, <2>0, <2>6 DEF TakeSession
  <2>7. CASE OpenExpires(c)
    BY <1>t, <2>0, <2>7 DEF OpenExpires
  <2>8. CASE Start(c)
    BY <1>t, <2>0, <2>8 DEF Start, HostAnswers
  <2>9. CASE StartFails(c)
    BY <1>t, <2>0, <2>9 DEF StartFails, StartRefused, HostAnswers
  <2>10. CASE WaitEnds(c)
    <3>1. PICK r \in WaitOutcome(c) : Report(c, r)
      BY <2>10 DEF WaitEnds
    <3> QED  BY <1>t, <2>0, <2>10, <3>1 DEF WaitEnds, WaitOutcome, WaitOver, HostAnswers
  <2>11. CASE StreamFails(c)
    BY <1>t, <2>0, <2>11 DEF StreamFails
  <2>12. CASE WaitExpires(c)
    BY <1>t, <2>0, <2>12 DEF WaitExpires
  <2>13. CASE GraceEnds(c)
    BY <1>t, <2>0, <2>13 DEF GraceEnds
  <2>14. CASE WatcherFires(c)
    BY <1>t, <2>0, <2>14 DEF WatcherFires
  <2>15. CASE Close(c)
    BY <1>t, <2>0, <2>15 DEF Close
  <2> QED
    BY <1>2, <2>1, <2>2, <2>3, <2>4, <2>5, <2>6, <2>7, <2>8, <2>9, <2>10, <2>11, <2>12,
       <2>13, <2>14, <2>15 DEF Go, Opening, Waiting
<1> QED  BY <1>1, <1>2 DEF SessionNext, SessionWork

LEMMA Invariance == SessionSpec => []IInv
  BY InitInv, StepInv, PTL DEF SessionSpec

\* Every variable has its type, whatever the host does.
THEOREM SessionTypeCorrect == SessionSpec => []SessionTypeOK
<1>1. IInv => SessionTypeOK
  BY DEF IInv
<1> QED  BY <1>1, Invariance, PTL

\* newSessionContext, runWithInput and the transfers: a call that is over, by an error,
\* a result or its deadline, leaves no channel open on a client that stays open, not
\* even one that is granted after the call has gone.
THEOREM SessionsAreClosed == SessionSpec => []NoSessionLeaks
<1>1. IInv => NoSessionLeaks
  BY DEF IInv, ChannelInv, NoSessionLeaks
<1> QED  BY <1>1, Invariance, PTL

\* What a call returns: success only of a command that exited, and on a host that
\* answers an error of a command has a cause, its own exit or somebody's deadline.
THEOREM ResultsAreHonest == SessionSpec => []ResultIsHonest
<1>1. IInv => ResultIsHonest
  BY DEF IInv, ResultInv, ResultIsHonest
<1> QED  BY <1>1, Invariance, PTL
=============================================================================
