----------------------------- MODULE ScriptRun -----------------------------
(***************************************************************************)
(* The life of a script on a host (ssher, internal/ssh/ssh.go): what is    *)
(* created for it on both machines, when it runs, and what is taken away   *)
(* again, for scripts that run at once over one SSH connection. Without    *)
(* sudo, four sessions make a directory, copy the script, run it and       *)
(* remove the directory. With sudo, one session does all of it as root     *)
(* under an EXIT trap and a second one verifies that nothing is left.      *)
(***************************************************************************)
EXTENDS Naturals

CONSTANTS Scripts, Privileged, FaultSets

\* An error on the operator's machine, an error of the host, the deadline of the
\* script itself (--timeout), the deadline of one of the helper sessions, a host
\* that keeps the connection up but never answers the start of a session.
FaultKinds == {"local", "remote", "payload", "helper", "stall"}

ASSUME ScriptFaults == FaultSets \subseteq SUBSET FaultKinds
ASSUME ScriptModes == Privileged \subseteq BOOLEAN

VARIABLES faults,  \* what may go wrong in this run
          sudo,    \* useSudo
          place,      \* how far each ssher call is
          temp,    \* its local temporary file exists
          dir,     \* its remote directory exists
          runs,    \* how often the host was told to run it
          errors,  \* what its error joins
          conn,    \* the client all of them share
          stalled  \* it has started a session that the host does not answer

given == <<faults, sudo>>
scriptVars == <<given, place, temp, dir, runs, errors, conn, stalled>>

ErrorKinds == {"write", "mkdir", "upload", "run", "timeout", "cleanup", "remove", "output"}
ScriptSteps == {"write", "mkdir", "upload", "run", "cleanup", "remove", "end"}

ScriptTypeOK ==
    /\ faults \in FaultSets
    /\ sudo \in Privileged
    /\ place \in [Scripts -> ScriptSteps]
    /\ temp \in [Scripts -> BOOLEAN]
    /\ dir \in [Scripts -> BOOLEAN]
    /\ runs \in [Scripts -> 0 .. 1]
    /\ errors \in [Scripts -> SUBSET ErrorKinds]
    /\ conn \in {"open", "closing", "closed"}
    /\ stalled \in [Scripts -> BOOLEAN]

ScriptInit ==
    /\ faults \in FaultSets
    /\ sudo \in Privileged
    /\ place = [s \in Scripts |-> IF sudo THEN "run" ELSE "write"]
    /\ temp = [s \in Scripts |-> FALSE]
    /\ dir = [s \in Scripts |-> FALSE]
    /\ runs = [s \in Scripts |-> 0]
    /\ errors = [s \in Scripts |-> {}]
    /\ conn = "open"
    /\ stalled = [s \in Scripts |-> FALSE]

Fault(f) == f \in faults
Usable == conn # "closed"
GoesTo(s, p) == place' = [place EXCEPT ![s] = p]
Fails(s, e) == errors' = [errors EXCEPT ![s] = @ \union e]
SetDir(s, b) == dir' = [dir EXCEPT ![s] = b]

\* runWithInput closes the client from a goroutine of its own.
Expire == conn' = IF conn = "open" THEN "closing" ELSE conn

CloseConn == /\ conn = "closing"
             /\ conn' = "closed"
             /\ UNCHANGED <<given, place, temp, dir, runs, errors, stalled>>

\* session.Start, and the SCP library's copy, wait for the host's reply outside every
\* deadline: a call whose session is not answered goes on only when the deadline of
\* another session has closed the client, and the host may have obeyed or not.
StartStalls(s) ==
    /\ place[s] \in {"mkdir", "upload", "run", "cleanup"}
    /\ Usable /\ Fault("stall") /\ ~stalled[s]
    /\ stalled' = [stalled EXCEPT ![s] = TRUE]
    /\ UNCHANGED <<given, place, temp, dir, runs, errors, conn>>

Answers(s) == Usable /\ ~stalled[s]
Refused(s) == (~Usable \/ (Answers(s) /\ Fault("remote"))) /\ UNCHANGED conn

\* A helper session ends without having done anything.
HelperFails(s) == Refused(s) \/ (Answers(s) /\ Fault("helper") /\ Expire)

\* A helper session whose command ran on the host, but whose answer was late.
HelperLate(s) == \/ Answers(s) /\ Fault("helper") /\ Expire
                 \/ stalled[s] /\ ~Usable /\ UNCHANGED conn

-----------------------------------------------------------------------------
(* Without sudo.                                                           *)

\* os.WriteFile may leave a part of the file when it fails; the deferred
\* removal is not registered yet.
WriteTemp(s) ==
    /\ place[s] = "write"
    /\ \/ /\ temp' = [temp EXCEPT ![s] = TRUE]
          /\ GoesTo(s, "mkdir")
          /\ UNCHANGED errors
       \/ /\ Fault("local")
          /\ \E b \in BOOLEAN : temp' = [temp EXCEPT ![s] = b]
          /\ GoesTo(s, "end")
          /\ Fails(s, {"write"})
    /\ UNCHANGED <<given, dir, runs, conn, stalled>>

\* mktemp names the directory: if its answer is lost, so is the name.
MakeDir(s) ==
    /\ place[s] = "mkdir"
    /\ \/ /\ Answers(s) /\ UNCHANGED conn
          /\ SetDir(s, TRUE)
          /\ GoesTo(s, "upload")
          /\ UNCHANGED errors
       \/ /\ \/ HelperFails(s) /\ UNCHANGED dir
             \/ HelperLate(s) /\ SetDir(s, TRUE)
          /\ GoesTo(s, "remove")
          /\ Fails(s, {"mkdir"})
    /\ UNCHANGED <<given, temp, runs, stalled>>

\* Mistake: the copy is retried until it succeeds.
CopyScript_Retries(s) ==
    /\ place[s] = "upload"
    /\ \/ Answers(s) /\ UNCHANGED conn /\ GoesTo(s, "run")
       \/ HelperFails(s) /\ UNCHANGED place
    /\ UNCHANGED <<given, temp, dir, runs, errors, stalled>>

\* The copy, then "test -f" to see that it arrived.
CopyScript(s) ==
    /\ place[s] = "upload"
    /\ \/ Answers(s) /\ UNCHANGED <<conn, errors>> /\ GoesTo(s, "run")
       \/ HelperFails(s) /\ Fails(s, {"upload"}) /\ GoesTo(s, "cleanup")
       \/ /\ ~stalled[s] /\ (Fault("local") \/ Fault("helper"))
          /\ UNCHANGED conn     \* the copy's deadline closes nothing
          /\ Fails(s, {"upload"}) /\ GoesTo(s, "cleanup")
    /\ UNCHANGED <<given, temp, dir, runs, stalled>>

\* The host is told to run the script, or the session never opens.
RunFails(s) == \/ Refused(s) /\ Fails(s, {"run"})
               \/ ~stalled[s] /\ Fault("payload") /\ Expire /\ Fails(s, {"timeout"})
Ran(s) == runs' = [runs EXCEPT ![s] = @ + 1]
OutputKept(s) == UNCHANGED errors \/ (Fault("local") /\ Fails(s, {"output"}))

RunScript(s) ==
    /\ place[s] = "run" /\ ~sudo
    /\ \/ Answers(s) /\ UNCHANGED conn /\ Ran(s) /\ OutputKept(s)
       \/ (Usable \/ stalled[s]) /\ Ran(s) /\ RunFails(s)
       \/ UNCHANGED runs /\ RunFails(s)
    /\ GoesTo(s, "cleanup")
    /\ UNCHANGED <<given, temp, dir, stalled>>

\* Mistake: the cleanup only runs when everything before it went well.
Cleanup_OnSuccess(s) ==
    /\ place[s] = "cleanup" /\ ~sudo
    /\ \/ /\ Answers(s) /\ UNCHANGED conn
          /\ SetDir(s, errors[s] # {} /\ dir[s])
          /\ UNCHANGED errors
       \/ /\ \/ HelperFails(s) /\ UNCHANGED dir
             \/ HelperLate(s) /\ SetDir(s, FALSE)
          /\ Fails(s, {"cleanup"})
    /\ GoesTo(s, "remove")
    /\ UNCHANGED <<given, temp, runs, stalled>>

\* The deferred rm -rf, in a session of its own with a deadline of five seconds.
Cleanup(s) ==
    /\ place[s] = "cleanup" /\ ~sudo
    /\ \/ /\ Answers(s) /\ UNCHANGED conn
          /\ SetDir(s, FALSE)
          /\ UNCHANGED errors
       \/ /\ \/ HelperFails(s) /\ UNCHANGED dir
             \/ HelperLate(s) /\ SetDir(s, FALSE)
          /\ Fails(s, {"cleanup"})
    /\ GoesTo(s, "remove")
    /\ UNCHANGED <<given, temp, runs, stalled>>

\* The deferred removal of the local file, on every path after WriteTemp.
RemoveTemp(s) ==
    /\ place[s] = "remove"
    /\ \/ temp' = [temp EXCEPT ![s] = FALSE] /\ UNCHANGED errors
       \/ Fault("local") /\ Fails(s, {"remove"}) /\ UNCHANGED temp
    /\ GoesTo(s, "end")
    /\ UNCHANGED <<given, dir, runs, conn, stalled>>

-----------------------------------------------------------------------------
(* With sudo.                                                              *)

\* One root shell makes the directory, copies stdin into it and runs the copy;
\* its EXIT trap removes the directory, unless it is killed or rm fails. When
\* the deadline passes, the shell may be at any of these points.
RunPrivileged(s) ==
    /\ place[s] = "run" /\ sudo
    /\ \/ /\ Answers(s) /\ UNCHANGED conn
          /\ Ran(s) /\ OutputKept(s)
          /\ SetDir(s, FALSE) \/ (Fault("remote") /\ SetDir(s, TRUE))
       \/ /\ Usable \/ stalled[s]
          /\ Ran(s) /\ RunFails(s)
          /\ \E b \in BOOLEAN : SetDir(s, b)
       \/ /\ UNCHANGED <<runs, dir>> /\ RunFails(s)
    /\ GoesTo(s, "cleanup")
    /\ UNCHANGED <<given, temp, stalled>>

\* Mistake: a payload that succeeded is not verified, its trap is trusted.
VerifyCleanup_IfFailed(s) ==
    /\ place[s] = "cleanup" /\ sudo
    /\ IF errors[s] = {} THEN UNCHANGED <<conn, errors, dir>>
       ELSE \/ Answers(s) /\ UNCHANGED <<conn, errors>> /\ SetDir(s, FALSE)
            \/ HelperFails(s) /\ UNCHANGED dir /\ Fails(s, {"cleanup"})
    /\ GoesTo(s, "end")
    /\ UNCHANGED <<given, temp, runs, stalled>>

\* The verification removes what the trap left, or fails visibly.
VerifyCleanup(s) ==
    /\ place[s] = "cleanup" /\ sudo
    /\ \/ Answers(s) /\ UNCHANGED <<conn, errors>> /\ SetDir(s, FALSE)
       \/ /\ \/ HelperFails(s) /\ UNCHANGED dir
             \/ HelperLate(s) /\ SetDir(s, FALSE)
          /\ Fails(s, {"cleanup"})
    /\ GoesTo(s, "end")
    /\ UNCHANGED <<given, temp, runs, stalled>>

-----------------------------------------------------------------------------
ScriptStep(s) == \/ WriteTemp(s) \/ MakeDir(s) \/ CopyScript(s) \/ RunScript(s) \/ Cleanup(s)
                 \/ RemoveTemp(s) \/ RunPrivileged(s) \/ VerifyCleanup(s)

\* What nothing will ever wake up: its session waits, and no deadline is left that
\* would close the client.
Waits(s) == stalled[s] /\ conn = "open"

Ended == /\ \A s \in Scripts : place[s] = "end" \/ Waits(s)
         /\ UNCHANGED scriptVars

ScriptWork == CloseConn \/ \E s \in Scripts : ScriptStep(s) \/ StartStalls(s)

ScriptNext == ScriptWork \/ Ended

\* A step of a session that is not answered is not enabled, so nothing is asked of it.
ScriptFairness == /\ WF_scriptVars(CloseConn)
                  /\ \A s \in Scripts : WF_scriptVars(ScriptStep(s))

ScriptSpec == ScriptInit /\ [][ScriptNext]_scriptVars /\ ScriptFairness

-----------------------------------------------------------------------------
(* Properties.                                                             *)

AtEnd(s) == place[s] = "end"

\* What a call returns says what became of its script: without an error it ran and
\* left nothing behind on either machine, whatever happened to the connection or to
\* the scripts beside it; and what is left is named by an error of the step that
\* left it, so that the operator knows.
ReportIsHonest ==
    \A s \in Scripts : AtEnd(s) =>
        /\ errors[s] = {} => runs[s] = 1
        /\ dir[s] => errors[s] \intersect {"mkdir", "cleanup"} # {}
        /\ temp[s] => errors[s] \intersect {"write", "remove"} # {}

\* A directory is left on the host only when a session failed there: as long as
\* the connection is open and the host obeys, every path removes it.
OpenConnLeavesNoDir ==
    \A s \in Scripts : AtEnd(s) /\ dir[s] => conn # "open" \/ Fault("remote")

\* Every script comes to an end, whatever fails, unless one of its sessions is never
\* answered at its start; and even that call comes to its end once the deadline of
\* another one closes the client they share.
ScriptsEnd == <>[](\A s \in Scripts : AtEnd(s) \/ Waits(s))

\* "cleanupRemoteScriptDir uses its own bounded session so payload timeouts and
\* failures cannot bypass cleanup" (ssh.go:683-684).
TimeoutCannotBypassCleanup ==
    \A s \in Scripts : AtEnd(s) /\ "timeout" \in errors[s] => ~dir[s]
=============================================================================
