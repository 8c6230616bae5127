------------------------------ MODULE MCCalls ------------------------------
(* What is done over one client: two calls, two scripts, or three downloads. *)
(* A behaviour is one of Session, of ScriptRun or of Download, with the      *)
(* other two at rest.                                                        *)
EXTENDS MCSession, MCScriptRun, MCDownload

SessionRests ==
    /\ host = "answering" /\ mute = FALSE /\ connected = TRUE
    /\ caller = [c \in Calls |-> "returned"]
    /\ expired = [c \in Calls |-> FALSE] /\ closer = expired
    /\ opener = [c \in Calls |-> "ready"] /\ session = [c \in Calls |-> "closed"]
    /\ remote = [c \in Calls |-> "exited"] /\ result = [c \in Calls |-> "ok"]

ScriptsRest ==
    /\ faults = {} /\ sudo = FALSE /\ conn = "open"
    /\ place = [s \in Scripts |-> "end"] /\ runs = [s \in Scripts |-> 1]
    /\ temp = [s \in Scripts |-> FALSE] /\ dir = temp /\ stalled = temp
    /\ errors = [s \in Scripts |-> {}]

DownloadsRest ==
    /\ tools = {} /\ before = {} /\ made = {} /\ reserved = {}
    /\ pc = [e \in Entries |-> "error"] /\ content = [p \in Paths |-> {}]

CallsInit ==
    \/ SessionInit /\ ScriptsRest /\ DownloadsRest
    \/ ScriptInit /\ SessionRests /\ DownloadsRest
    \/ Init /\ SessionRests /\ ScriptsRest

callsVars == <<sessionVars, scriptVars, vars>>

\* Quiet, Ended and Finished in one.
CallsOver == Quiet /\ Ended /\ Finished

CallsNext ==
    \/ SessionWork /\ UNCHANGED <<scriptVars, vars>>
    \/ ScriptWork /\ UNCHANGED <<sessionVars, vars>>
    \/ Work /\ UNCHANGED <<sessionVars, scriptVars>>
    \/ CallsOver

CallsSpec == CallsInit /\ [][CallsNext]_callsVars
                       /\ SessionFairness /\ ScriptFairness /\ WF_vars(Work)
=============================================================================
