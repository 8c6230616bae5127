--------------------------- MODULE Payload_proofs ---------------------------
(***************************************************************************)
(* Theorems about ScriptRun and SudoInput, the two sides of one payload.   *)
(*                                                                         *)
(* 1. ScriptRun, for any number of scripts on one connection and whatever  *)
(*    fails: what a call reports is what became of its script, and what is *)
(*    left on either machine.                                              *)
(* 2. SudoInput, for any lines, inputs and sizes: a payload that runs as   *)
(*    root gets its own input and nothing else, and without an error all   *)
(*    of it and all of its output.                                         *)
(***************************************************************************)
EXTENDS ScriptRun, SudoInput, SequenceTheorems, TLAPS

-----------------------------------------------------------------------------
(* 1. What becomes of a script.                                            *)

\* What the place of a call says of the things it made: nothing has run before "run",
\* there is no directory before there is one to remove, and what is left behind after the
\* step that should have removed it is named by an error and has a cause.
Named(s) == errors[s] \intersect {"mkdir", "cleanup"} # {}
Caused == conn # "open" \/ Fault("remote")

CallInv(s) ==
    /\ place[s] \in {"write", "mkdir", "upload", "run"} => runs[s] = 0
    /\ place[s] = "write" => ~dir[s]
    /\ place[s] \in {"cleanup", "remove", "end"} /\ errors[s] = {} => runs[s] = 1
    /\ place[s] \in {"remove", "end"} /\ dir[s] => Named(s) /\ Caused
    /\ place[s] = "end" /\ temp[s] => errors[s] \intersect {"write", "remove"} # {}
    /\ sudo => place[s] \in {"run", "cleanup", "end"} /\ ~temp[s]

ScriptInv == ScriptTypeOK /\ \A s \in Scripts : CallInv(s)

LEMMA InitScriptRun == ScriptInit => ScriptInv
<1> SUFFICES ASSUME ScriptInit PROVE ScriptInv
    OBVIOUS
<1>1. ScriptTypeOK  BY DEF ScriptInit, ScriptTypeOK, ScriptSteps
<1>2. \A s \in Scripts : /\ place[s] = IF sudo THEN "run" ELSE "write"
                         /\ ~temp[s] /\ ~dir[s] /\ runs[s] = 0
  BY DEF ScriptInit
<1>3. \A s \in Scripts : CallInv(s)  BY <1>2 DEF CallInv
<1> QED  BY <1>1, <1>3 DEF ScriptInv

\* A step of one script changes nothing of another's, and never opens the connection.
Kept(t) == /\ place'[t] = place[t] /\ temp'[t] = temp[t] /\ dir'[t] = dir[t]
           /\ runs'[t] = runs[t] /\ errors'[t] = errors[t]

Alone(s) ==
    /\ ScriptTypeOK'
    /\ UNCHANGED given
    /\ \A t \in Scripts \ {s} : Kept(t)
    /\ conn' = "open" => conn = "open"

LEMMA OtherCalls ==
    ASSUME ScriptInv, NEW s \in Scripts, Alone(s), CallInv(s)'
    PROVE  ScriptInv'
<1>1. ASSUME NEW t \in Scripts \ {s} PROVE CallInv(t)'
  <2>1. CallInv(t)  BY DEF ScriptInv
  <2>2. Kept(t) /\ UNCHANGED given /\ (Caused => Caused')  BY DEF Alone, Caused, given, Fault
  <2> QED  BY <2>1, <2>2 DEF CallInv, Kept, Named, given
<1> QED  BY <1>1 DEF ScriptInv, Alone

\* One variable after such a step.
Row(f, g, s, S) == g \in [Scripts -> S] /\ \A t \in Scripts \ {s} : g[t] = f[t]

LEMMA StepAlone ==
    ASSUME ScriptInv, NEW s \in Scripts, ScriptStep(s)
    PROVE  Alone(s)
<1> USE DEF ScriptTypeOK, given, GoesTo, Fails, SetDir, Expire, Refused, HelperFails, HelperLate, Row
<1>0. ScriptTypeOK /\ CallInv(s)  BY DEF ScriptInv
<1>1. CASE WriteTemp(s)
  <2>1. Row(place, place', s, ScriptSteps)  BY <1>0, <1>1 DEF WriteTemp, ScriptSteps
  <2>2. Row(temp, temp', s, BOOLEAN)  BY <1>0, <1>1 DEF WriteTemp
  <2>3. Row(dir, dir', s, BOOLEAN)  BY <1>0, <1>1 DEF WriteTemp
  <2>4. Row(runs, runs', s, 0 .. 1)  BY <1>0, <1>1 DEF WriteTemp
  <2>5. Row(errors, errors', s, SUBSET ErrorKinds)  BY <1>0, <1>1 DEF WriteTemp, ErrorKinds
  <2>6. conn' \in {conn, "closing"} /\ (conn' = "open" => conn = "open")
    BY <1>0, <1>1 DEF WriteTemp
  <2>7. UNCHANGED <<given, stalled>>  BY <1>1 DEF WriteTemp
  <2> QED  BY <1>0, <2>1, <2>2, <2>3, <2>4, <2>5, <2>6, <2>7 DEF Alone, Kept
<1>2. CASE MakeDir(s)
  <2>1. Row(place, place', s, ScriptSteps)  BY <1>0, <1>2 DEF MakeDir, ScriptSteps
  <2>2. Row(temp, temp', s, BOOLEAN)  BY <1>0, <1>2 DEF MakeDir
  <2>3. Row(dir, dir', s, BOOLEAN)  BY <1>0, <1>2 DEF MakeDir
  <2>4. Row(runs, runs', s, 0 .. 1)  BY <1>0, <1>2 DEF MakeDir
  <2>5. Row(errors, errors', s, SUBSET ErrorKinds)  BY <1>0, <1>2 DEF MakeDir, ErrorKinds
  <2>6. conn' \in {conn, "closing"} /\ (conn' = "open" => conn = "open")
    BY <1>0, <1>2 DEF MakeDir
  <2>7. UNCHANGED <<given, stalled>>  BY <1>2 DEF MakeDir
  <2> QED  BY <1>0, <2>1, <2>2, <2>3, <2>4, <2>5, <2>6, <2>7 DEF Alone, Kept
<1>3. CASE CopyScript(s)
  BY <1>0, <1>3 DEF CopyScript, Alone, Kept, ScriptSteps, ErrorKinds
<1>5. CASE RunScript(s)
  <2>1. Row(place, place', s, ScriptSteps)  BY <1>0, <1>5 DEF RunScript, ScriptSteps
  <2>2. Row(temp, temp', s, BOOLEAN)  BY <1>0, <1>5 DEF RunScript
  <2>3. Row(dir, dir', s, BOOLEAN)  BY <1>0, <1>5 DEF RunScript, RunFails, Ran, OutputKept
  <2>4. Row(runs, runs', s, 0 .. 1)  BY <1>0, <1>5 DEF RunScript, Ran, CallInv
  <2>5. Row(errors, errors', s, SUBSET ErrorKinds)  BY <1>0, <1>5 DEF RunScript, ErrorKinds, RunFails, Ran, OutputKept
  <2>6. conn' \in {conn, "closing"} /\ (conn' = "open" => conn = "open")
    BY <1>0, <1>5 DEF RunScript, RunFails, Ran, OutputKept
  <2>7. UNCHANGED <<given, stalled>>  BY <1>5 DEF RunScript
  <2> QED  BY <1>0, <2>1, <2>2, <2>3, <2>4, <2>5, <2>6, <2>7 DEF Alone, Kept
<1>6. CASE Cleanup(s)
  <2>1. Row(place, place', s, ScriptSteps)  BY <1>0, <1>6 DEF Cleanup, ScriptSteps
  <2>2. Row(temp, temp', s, BOOLEAN)  BY <1>0, <1>6 DEF Cleanup
  <2>3. Row(dir, dir', s, BOOLEAN)  BY <1>0, <1>6 DEF Cleanup
  <2>4. Row(runs, runs', s, 0 .. 1)  BY <1>0, <1>6 DEF Cleanup
  <2>5. Row(errors, errors', s, SUBSET ErrorKinds)  BY <1>0, <1>6 DEF Cleanup, ErrorKinds
  <2>6. conn' \in {conn, "closing"} /\ (conn' = "open" => conn = "open")
    BY <1>0, <1>6 DEF Cleanup
  <2>7. UNCHANGED <<given, stalled>>  BY <1>6 DEF Cleanup
  <2> QED  BY <1>0, <2>1, <2>2, <2>3, <2>4, <2>5, <2>6, <2>7 DEF Alone, Kept
<1>7. CASE RemoveTemp(s)
  <2>1. Row(place, place', s, ScriptSteps)  BY <1>0, <1>7 DEF RemoveTemp, ScriptSteps
  <2>2. Row(temp, temp', s, BOOLEAN)  BY <1>0, <1>7 DEF RemoveTemp
  <2>3. Row(errors, errors', s, SUBSET ErrorKinds)  BY <1>0, <1>7 DEF RemoveTemp, ErrorKinds
  <2>4. UNCHANGED <<given, dir, runs, conn, stalled>>  BY <1>7 DEF RemoveTemp
  <2> QED  BY <1>0, <2>1, <2>2, <2>3, <2>4 DEF Alone, Kept
<1>8. CASE RunPrivileged(s)
  <2>1. Row(place, place', s, ScriptSteps)  BY <1>0, <1>8 DEF RunPrivileged, ScriptSteps
  <2>2. Row(temp, temp', s, BOOLEAN)  BY <1>0, <1>8 DEF RunPrivileged
  <2>3. Row(dir, dir', s, BOOLEAN)  BY <1>0, <1>8 DEF RunPrivileged, RunFails, Ran, OutputKept
  <2>4. Row(runs, runs', s, 0 .. 1)  BY <1>0, <1>8 DEF RunPrivileged, Ran, CallInv
  <2>5. Row(errors, errors', s, SUBSET ErrorKinds)  BY <1>0, <1>8 DEF RunPrivileged, ErrorKinds, RunFails, Ran, OutputKept
  <2>6. conn' \in {conn, "closing"} /\ (conn' = "open" => conn = "open")
    BY <1>0, <1>8 DEF RunPrivileged, RunFails, Ran, OutputKept
  <2>7. UNCHANGED <<given, stalled>>  BY <1>8 DEF RunPrivileged
  <2> QED  BY <1>0, <2>1, <2>2, <2>3, <2>4, <2>5, <2>6, <2>7 DEF Alone, Kept
<1>9. CASE VerifyCleanup(s)
  <2>1. Row(place, place', s, ScriptSteps)  BY <1>0, <1>9 DEF VerifyCleanup, ScriptSteps
  <2>2. Row(temp, temp', s, BOOLEAN)  BY <1>0, <1>9 DEF VerifyCleanup
  <2>3. Row(dir, dir', s, BOOLEAN)  BY <1>0, <1>9 DEF VerifyCleanup
  <2>4. Row(runs, runs', s, 0 .. 1)  BY <1>0, <1>9 DEF VerifyCleanup
  <2>5. Row(errors, errors', s, SUBSET ErrorKinds)  BY <1>0, <1>9 DEF VerifyCleanup, ErrorKinds
  <2>6. conn' \in {conn, "closing"} /\ (conn' = "open" => conn = "open")
    BY <1>0, <1>9 DEF VerifyCleanup
  <2>7. UNCHANGED <<given, stalled>>  BY <1>9 DEF VerifyCleanup
  <2> QED  BY <1>0, <2>1, <2>2, <2>3, <2>4, <2>5, <2>6, <2>7 DEF Alone, Kept
<1> QED  BY <1>1, <1>2, <1>3, <1>5, <1>6, <1>7, <1>8, <1>9 DEF ScriptStep

\* What a step makes of its own script.
LEMMA StepCall ==
    ASSUME ScriptInv, NEW s \in Scripts, ScriptStep(s)
    PROVE  CallInv(s)'
<1>1. ScriptTypeOK /\ CallInv(s)  BY DEF ScriptInv
<1> USE <1>1 DEF ScriptTypeOK, CallInv, Named, Caused, given, GoesTo, Fails, SetDir, Expire, Fault,
            Refused, HelperFails, HelperLate, Answers, Usable
<1>2. CASE WriteTemp(s)  BY <1>2 DEF WriteTemp
<1>3. CASE MakeDir(s)  BY <1>3 DEF MakeDir
<1>4. CASE CopyScript(s)  BY <1>4 DEF CopyScript
<1>6. CASE RunScript(s)  BY <1>6 DEF RunScript, RunFails, Ran, OutputKept
<1>7. CASE Cleanup(s)  BY <1>7 DEF Cleanup
<1>8. CASE RemoveTemp(s)  BY <1>8 DEF RemoveTemp
<1>9. CASE RunPrivileged(s)  BY <1>9 DEF RunPrivileged, RunFails, Ran, OutputKept
<1>10. CASE VerifyCleanup(s)  BY <1>10 DEF VerifyCleanup
<1> QED  BY <1>2, <1>3, <1>4, <1>6, <1>7, <1>8, <1>9, <1>10 DEF ScriptStep

LEMMA StepScript ==
    ASSUME ScriptInv, [ScriptNext]_scriptVars
    PROVE  ScriptInv'
<1>1. ASSUME NEW s \in Scripts, ScriptStep(s) PROVE ScriptInv'
  <2>1. Alone(s)  BY <1>1, StepAlone
  <2>2. CallInv(s)'  BY <1>1, StepCall
  <2> QED  BY <2>1, <2>2, OtherCalls
<1>2. CASE CloseConn
  <2>1. UNCHANGED <<given, place, temp, dir, runs, errors, stalled>> /\ conn' = "closed"
    BY <1>2 DEF CloseConn
  <2>2. ScriptTypeOK'  BY <2>1 DEF ScriptInv, ScriptTypeOK, given
  <2>3. ASSUME NEW s \in Scripts PROVE CallInv(s)'
    BY <2>1 DEF ScriptInv, CallInv, Named, Caused, given
  <2> QED  BY <2>2, <2>3 DEF ScriptInv
<1>3. ASSUME NEW s \in Scripts, StartStalls(s) PROVE ScriptInv'
  <2>1. UNCHANGED <<given, place, temp, dir, runs, errors, conn>>
        /\ stalled' = [stalled EXCEPT ![s] = TRUE]
    BY <1>3 DEF StartStalls
  <2>2. ScriptTypeOK'  BY <2>1 DEF ScriptInv, ScriptTypeOK, given
  <2>3. ASSUME NEW t \in Scripts PROVE CallInv(t)'
    BY <2>1 DEF ScriptInv, CallInv, Named, Caused, Fault, given
  <2> QED  BY <2>2, <2>3 DEF ScriptInv
<1>4. CASE UNCHANGED scriptVars
  <2>1. ScriptTypeOK'  BY <1>4 DEF ScriptInv, ScriptTypeOK, scriptVars, given
  <2>2. ASSUME NEW s \in Scripts PROVE CallInv(s)'
    BY <1>4 DEF ScriptInv, CallInv, Named, Caused, Fault, scriptVars, given
  <2> QED  BY <2>1, <2>2 DEF ScriptInv
<1> QED  BY <1>1, <1>2, <1>3, <1>4 DEF ScriptNext, ScriptWork, Ended

\* The values of the variables are what they are meant to be; above all, no script is
\* run twice.
THEOREM ScriptTypeCorrect == ScriptSpec => []ScriptTypeOK
<1>1. ScriptInv => ScriptTypeOK  BY DEF ScriptInv
<1> QED  BY <1>1, InitScriptRun, StepScript, PTL DEF ScriptSpec

\* For any number of scripts at once, whatever fails and whenever the connection goes: a
\* call without an error has run its script once and left nothing, and what a call leaves
\* is named by the error of the step that left it.
THEOREM ReportsAreHonest == ScriptSpec => []ReportIsHonest
<1>1. ScriptInv => ReportIsHonest  BY DEF ScriptInv, CallInv, Named, ReportIsHonest, AtEnd
<1> QED  BY <1>1, InitScriptRun, StepScript, PTL DEF ScriptSpec

\* A directory stays on the host only when the host fails or the connection is lost.
THEOREM DirsAreRemoved == ScriptSpec => []OpenConnLeavesNoDir
<1>1. ScriptInv => OpenConnLeavesNoDir
  BY DEF ScriptInv, CallInv, Caused, OpenConnLeavesNoDir, AtEnd
<1> QED  BY <1>1, InitScriptRun, StepScript, PTL DEF ScriptSpec

-----------------------------------------------------------------------------
(* 2. What a privileged payload reads and prints.                          *)

\* Where the root shell is still to come, or is reading, the boundary is in front of the
\* input, or it is lost; from then on what cat has read and what it has not are the input.
Lost == \A n \in DOMAIN stdin : stdin[n] # marker

InputInv ==
    /\ actor = "operator" => /\ stdin = <<>> /\ ~cut
                             /\ waited = "none" /\ sudoResult = "none" /\ ~late
    /\ actor \in {"operator", "sudo", "shell"} => received = <<>>
    /\ actor # "operator" => marker \notin Framed
    /\ actor \in {"sudo", "shell"} => \/ stdin = <<password, marker>> \o input
                                      \/ stdin = <<marker>> \o input
                                      \/ Lost
    /\ actor = "cat" => received \o stdin = input
    /\ \E n \in 0 .. Len(input) : received = SubSeq(input, 1, n)
    /\ actor \in {"payload", "exited"} => received = input \/ cut

\* What is kept and what is counted beyond it are what is copied, and nothing is counted
\* before the buffer is full; what is returned in time is returned when all is copied, and
\* without an error of Wait the payload has had all of its input.
Copied == copied["stdout"] + copied["stderr"]
OutputInv ==
    /\ \A s \in Streams : copied[s] <= printed[s]
    /\ kept + omitted = Copied
    /\ omitted > 0 => kept = Ceiling
    /\ waited = "ok" => AllCopied /\ actor = "exited" /\ received = input
    /\ sudoResult # "none" /\ ~late => waited # "none"
    /\ sudoResult # "none" /\ waited = "ok" /\ ~late => bytes = kept
    /\ sudoResult \in {"ok", "limit"} => ~late /\ waited = "ok"
    /\ sudoResult = "ok" => omitted = 0
    /\ sudoResult = "limit" => omitted > 0

SudoInv == SudoTypeOK /\ InputInv /\ OutputInv

LEMMA InputType == SudoTypeOK => input \in Seq(Lines) /\ password \in Lines /\ marker \in Lines
BY SudoInputAssumption DEF SudoTypeOK

\* What is left of a line and a sequence when the line is read.
LEMMA FirstLine ==
    ASSUME NEW S, NEW a \in S, NEW t \in Seq(S)
    PROVE  /\ <<a>> \o t \in Seq(S) /\ <<a>> \o t # <<>>
           /\ Head(<<a>> \o t) = a /\ Tail(<<a>> \o t) = t
<1>1. <<a>> \in Seq(S) /\ Len(<<a>>) = 1 /\ <<a>>[1] = a  OBVIOUS
<1>2. /\ <<a>> \o t \in Seq(S) /\ Len(<<a>> \o t) = 1 + Len(t)
      /\ \A i \in 1 .. 1 + Len(t) : (<<a>> \o t)[i] = IF i <= 1 THEN <<a>>[i] ELSE t[i - 1]
  BY <1>1, ConcatProperties
<1>3. Len(t) \in Nat  OBVIOUS
<1>4. <<a>> \o t # <<>> /\ Head(<<a>> \o t) = a  BY <1>1, <1>2, <1>3
<1>5. Len(Tail(<<a>> \o t)) = Len(t) /\ Tail(<<a>> \o t) \in Seq(S)
      /\ \A i \in 1 .. Len(t) : Tail(<<a>> \o t)[i] = (<<a>> \o t)[i + 1]
  BY <1>2, <1>3, <1>4, HeadTailProperties
<1>6. \A i \in 1 .. Len(t) : Tail(<<a>> \o t)[i] = t[i]
  BY <1>2, <1>3, <1>5
<1> QED  BY <1>2, <1>4, <1>5, <1>6, SeqEqual

LEMMA TwoLines ==
    ASSUME NEW S, NEW a \in S, NEW b \in S, NEW t \in Seq(S)
    PROVE  <<a, b>> \o t = <<a>> \o (<<b>> \o t)
<1>1. <<a>> \in Seq(S) /\ <<b>> \in Seq(S) /\ <<a, b>> \in Seq(S)  OBVIOUS
<1>2. /\ <<a>> \o <<b>> \in Seq(S) /\ Len(<<a>> \o <<b>>) = 2
      /\ \A i \in 1 .. 2 : (<<a>> \o <<b>>)[i] = IF i <= 1 THEN <<a>>[i] ELSE <<b>>[i - 1]
  BY <1>1, ConcatProperties
<1>3. Len(<<a, b>>) = 2 /\ \A i \in 1 .. 2 : <<a, b>>[i] = (<<a>> \o <<b>>)[i]  BY <1>2
<1>4. <<a, b>> = <<a>> \o <<b>>  BY <1>1, <1>2, <1>3, SeqEqual
<1> QED  BY <1>1, <1>4, ConcatAssociative

\* The boundary, once read past, is nowhere else.
LEMMA LineRead ==
    ASSUME SudoTypeOK, InputInv, actor \in {"sudo", "shell"}, stdin # <<>>
    PROVE  /\ Tail(stdin) \in Seq(Lines) /\ Head(stdin) \in Lines
           /\ \/ Tail(stdin) = <<marker>> \o input /\ Head(stdin) = password /\ password # marker
              \/ Tail(stdin) = input /\ Head(stdin) = marker
              \/ Lost /\ Head(stdin) # marker
           /\ \/ Tail(stdin) = <<marker>> \o input
              \/ \A n \in DOMAIN Tail(stdin) : Tail(stdin)[n] # marker
<1>1. input \in Seq(Lines) /\ password \in Lines /\ marker \in Lines /\ stdin \in Seq(Lines)
  BY InputType DEF SudoTypeOK
<1>2. marker # password /\ \A n \in DOMAIN input : input[n] # marker
  BY DEF InputInv, Framed
<1>3. /\ Tail(stdin) \in Seq(Lines) /\ Head(stdin) \in Lines
      /\ Len(Tail(stdin)) = Len(stdin) - 1
      /\ \A i \in 1 .. Len(Tail(stdin)) : Tail(stdin)[i] = stdin[i + 1]
  BY <1>1, HeadTailProperties
<1>4. CASE stdin = <<password, marker>> \o input
  <2>1. <<marker>> \o input \in Seq(Lines)  BY <1>1, FirstLine
  <2>2. stdin = <<password>> \o (<<marker>> \o input)  BY <1>1, <1>4, TwoLines
  <2> QED  BY <1>1, <1>2, <1>3, <2>1, <2>2, FirstLine
<1>5. CASE stdin = <<marker>> \o input
  <2>1. Head(stdin) = marker /\ Tail(stdin) = input  BY <1>1, <1>5, FirstLine
  <2> QED  BY <1>2, <1>3, <2>1
<1>6. CASE Lost
  <2>1. Len(stdin) \in Nat \ {0} /\ DOMAIN stdin = 1 .. Len(stdin) /\ Head(stdin) = stdin[1]
    BY <1>1
  <2>2. Head(stdin) # marker  BY <1>6, <2>1 DEF Lost
  <2>3. DOMAIN Tail(stdin) = 1 .. Len(stdin) - 1  BY <1>3
  <2>4. \A n \in DOMAIN Tail(stdin) : Tail(stdin)[n] # marker
    BY <1>3, <1>6, <2>1, <2>3 DEF Lost
  <2> QED  BY <1>3, <1>6, <2>2, <2>4
<1> QED  BY <1>4, <1>5, <1>6 DEF InputInv

\* A line moved from the front of one sequence to the end of another.
LEMMA LineMoved ==
    ASSUME NEW S, NEW r \in Seq(S), NEW t \in Seq(S), t # <<>>
    PROVE  Append(r, Head(t)) \o Tail(t) = r \o t
<1>1. Head(t) \in S /\ Head(t) = t[1] /\ Tail(t) \in Seq(S) /\ Len(Tail(t)) = Len(t) - 1
      /\ (\A i \in 1 .. Len(Tail(t)) : Tail(t)[i] = t[i + 1])
      /\ Len(t) \in Nat \ {0} /\ Len(r) \in Nat
  BY HeadTailProperties, EmptySeq
<1>2. /\ Append(r, Head(t)) \in Seq(S) /\ Len(Append(r, Head(t))) = Len(r) + 1
      /\ \A i \in 1 .. Len(r) : Append(r, Head(t))[i] = r[i]
      /\ Append(r, Head(t))[Len(r) + 1] = t[1]
  BY <1>1, AppendProperties
<1>3. /\ r \o t \in Seq(S) /\ Len(r \o t) = Len(r) + Len(t)
      /\ \A i \in 1 .. Len(r) + Len(t) : (r \o t)[i] = IF i <= Len(r) THEN r[i] ELSE t[i - Len(r)]
  BY ConcatProperties
<1> DEFINE a == Append(r, Head(t))
           u == Tail(t)
<1>4. a \in Seq(S) /\ u \in Seq(S) /\ Len(a) = Len(r) + 1 /\ Len(u) = Len(t) - 1
      /\ (\A i \in 1 .. Len(r) : a[i] = r[i]) /\ a[Len(r) + 1] = t[1]
      /\ \A i \in 1 .. Len(t) - 1 : u[i] = t[i + 1]
  BY <1>1, <1>2
<1> HIDE DEF a, u
<1>5. /\ a \o u \in Seq(S) /\ Len(a \o u) = Len(a) + Len(u)
      /\ \A i \in 1 .. Len(a) + Len(u) : (a \o u)[i] = IF i <= Len(a) THEN a[i] ELSE u[i - Len(a)]
  BY <1>4, ConcatProperties
<1>6. ASSUME NEW i \in 1 .. Len(a \o u) PROVE (a \o u)[i] = (r \o t)[i]
  <2>1. i \in 1 .. Len(r) + Len(t)  BY <1>1, <1>4, <1>5
  <2>2. CASE i <= Len(r)  BY <1>1, <1>3, <1>4, <1>5, <2>1, <2>2
  <2>3. CASE i = Len(r) + 1  BY <1>1, <1>3, <1>4, <1>5, <2>1, <2>3
  <2>4. CASE i > Len(r) + 1
    <3>1. i - Len(a) \in 1 .. Len(t) - 1 /\ (i - Len(a)) + 1 = i - Len(r)
      BY <1>1, <1>4, <2>1, <2>4
    <3>2. (a \o u)[i] = u[i - Len(a)]  BY <1>1, <1>4, <1>5, <2>1, <2>4
    <3>3. (r \o t)[i] = t[i - Len(r)]  BY <1>1, <1>3, <2>1, <2>4
    <3> QED  BY <1>4, <3>1, <3>2, <3>3
  <2> QED  BY <1>1, <2>1, <2>2, <2>3, <2>4
<1>7. Len(a \o u) = Len(r \o t)  BY <1>1, <1>3, <1>4, <1>5
<1>8. a \o u = r \o t  BY <1>3, <1>5, <1>6, <1>7, SeqEqual
<1> QED  BY <1>8 DEF a, u

\* What comes first in a concatenation is a prefix of it.
LEMMA FirstPart ==
    ASSUME NEW S, NEW r \in Seq(S), NEW t \in Seq(S)
    PROVE  \E n \in 0 .. Len(r \o t) : r = SubSeq(r \o t, 1, n)
<1>1. Len(r) \in Nat /\ Len(t) \in Nat  OBVIOUS
<1>2. /\ r \o t \in Seq(S) /\ Len(r \o t) = Len(r) + Len(t)
      /\ \A i \in 1 .. Len(r) + Len(t) : (r \o t)[i] = IF i <= Len(r) THEN r[i] ELSE t[i - Len(r)]
  BY ConcatProperties
<1>3. \A i \in 1 .. Len(r) : (r \o t)[i] = r[i] /\ r[i] \in S  BY <1>1, <1>2
<1> DEFINE x == r \o t
<1>4. \A i \in 1 .. Len(r) : x[i] = r[i] /\ x[i] \in S  BY <1>3
<1> HIDE DEF x
<1>5. /\ SubSeq(x, 1, Len(r)) \in Seq(S)
      /\ Len(SubSeq(x, 1, Len(r))) = IF 1 <= Len(r) THEN Len(r) - 1 + 1 ELSE 0
      /\ \A i \in 1 .. Len(r) - 1 + 1 : SubSeq(x, 1, Len(r))[i] = x[1 + i - 1]
  BY <1>1, <1>4, SubSeqProperties
<1>6. Len(SubSeq(x, 1, Len(r))) = Len(r)  BY <1>1, <1>5
<1>7. \A i \in 1 .. Len(r) : SubSeq(x, 1, Len(r))[i] = r[i]
  <2>1. ASSUME NEW i \in 1 .. Len(r) PROVE SubSeq(x, 1, Len(r))[i] = r[i]
    <3>1. 1 + i - 1 = i /\ i \in 1 .. Len(r) - 1 + 1  BY <1>1
    <3> QED  BY <1>4, <1>5, <3>1
  <2> QED  BY <2>1
<1>8. SubSeq(x, 1, Len(r)) = r  BY <1>5, <1>6, <1>7, SeqEqual
<1>9. Len(r) \in 0 .. Len(r \o t)  BY <1>1, <1>2
<1> QED  BY <1>8, <1>9 DEF x

\* A line is taken from those that have arrived.
LEMMA LineTaken ==
    ASSUME SudoTypeOK, ReadLine
    PROVE  /\ stdin # <<>> /\ Head(stdin) \in Lines
           /\ stdin' = Tail(stdin) /\ stdin' \in Seq(Lines)
           /\ arrived' \in 0 .. Len(stdin')
<1>1. arrived \in 1 .. Len(stdin) /\ stdin \in Seq(Lines) /\ Len(stdin) \in Nat
  BY DEF SudoTypeOK, ReadLine
<1>2. stdin # <<>>  BY <1>1
<1>3. Tail(stdin) \in Seq(Lines) /\ Head(stdin) \in Lines /\ Len(Tail(stdin)) = Len(stdin) - 1
  BY <1>1, <1>2, HeadTailProperties
<1>4. stdin' = Tail(stdin) /\ arrived' = arrived - 1  BY DEF ReadLine
<1> QED  BY <1>1, <1>2, <1>3, <1>4

LEMMA InitSudo == SudoInit => SudoInv
<1> SUFFICES ASSUME SudoInit PROVE SudoInv
    OBVIOUS
<1> USE DEF SudoInit, Idle, Streams
<1>1. SudoTypeOK
  <2>1. /\ printed \in [Streams -> 0 .. MaxOutput] /\ copied \in [Streams -> 0 .. MaxOutput]
        /\ kept \in 0 .. Ceiling /\ omitted \in Nat /\ bytes \in Nat /\ tries \in 0 .. Tries
    BY SudoInputAssumption
  <2>2. stdin \in Seq(Lines) /\ received \in Seq(Lines) /\ arrived \in 0 .. Len(stdin)  OBVIOUS
  <2> QED  BY <2>1, <2>2 DEF SudoTypeOK, Actors
<1>2. InputInv
  <2>1. SubSeq(input, 1, 0) = <<>> /\ 0 \in 0 .. Len(input)
    BY SudoInputAssumption, SubSeqEmpty
  <2> QED  BY <2>1 DEF InputInv
<1>3. OutputInv  BY DEF OutputInv, Copied
<1> QED  BY <1>1, <1>2, <1>3 DEF SudoInv

LEMMA StepSudoType ==
    ASSUME SudoTypeOK, InputInv, [SudoNext]_sudoVars
    PROVE  SudoTypeOK'
<1> USE DEF SudoTypeOK, Actors, call, framing, output, returned
<1>1. CASE StartSudo
  <2>1. marker' \in Lines /\ input \in Seq(Lines) /\ stdin' = <<password, marker'>> \o input
    BY <1>1, InputType DEF StartSudo, ChooseMarker
  <2>2. stdin' \in Seq(Lines)
    <3>1. <<password, marker'>> \in Seq(Lines)  BY <2>1
    <3> QED  BY <2>1, <3>1, ConcatProperties
  <2>3. arrived' = 0
    <3>1. stdin = <<>> /\ arrived' = arrived  BY <1>1 DEF StartSudo, InputInv
    <3> QED  BY <3>1
  <2>4. arrived' \in 0 .. Len(stdin')  BY <2>2, <2>3
  <2> QED  BY <1>1, <2>1, <2>2, <2>4 DEF StartSudo
<1>2. CASE Send
  <2>1. arrived' \in 0 .. Len(stdin)  BY <1>2, SudoInputAssumption DEF Send, Least
  <2> QED  BY <1>2, <2>1 DEF Send
<1>3. CASE CloseClient  BY <1>3 DEF CloseClient
<1>4. CASE Sudo
  <2>1. UNCHANGED <<call, marker, received, cut, output, returned>>  BY <1>4 DEF Sudo
  <2>2. stdin' \in Seq(Lines) /\ arrived' \in 0 .. Len(stdin')  BY <1>4, LineTaken DEF Sudo
  <2>3. tries' \in 0 .. Tries
    <3>1. tries' = tries \/ (tries > 0 /\ tries' = tries - 1)  BY <1>4 DEF Sudo
    <3> QED  BY <3>1, SudoInputAssumption
  <2>4. actor' \in {"shell", "failed", "sudo"}  BY <1>4 DEF Sudo
  <2> QED  BY <2>1, <2>2, <2>3, <2>4
<1>5. CASE Shell
  <2>1. UNCHANGED <<call, marker, tries, received, cut, output, returned>>  BY <1>5 DEF Shell
  <2>2. stdin' \in Seq(Lines) /\ arrived' \in 0 .. Len(stdin') /\ actor' \in Actors
    BY <1>5, LineTaken DEF Shell
  <2> QED  BY <2>1, <2>2
<1>6. CASE Cat
  <2>1. UNCHANGED <<call, marker, tries, cut, output, returned>>  BY <1>6 DEF Cat
  <2>2. stdin' \in Seq(Lines) /\ arrived' \in 0 .. Len(stdin') /\ actor' \in Actors
    BY <1>6, LineTaken DEF Cat
  <2>3. received' \in Seq(Lines)
    <3>1. ReadLine => Append(received, Head(stdin)) \in Seq(Lines)
      BY LineTaken, AppendProperties
    <3> QED  BY <1>6, <3>1 DEF Cat
  <2> QED  BY <2>1, <2>2, <2>3
<1>7. CASE Payload
  <2>1. UNCHANGED <<call, framing, cut, copied, kept, omitted, returned>>  BY <1>7 DEF Payload
  <2>2. printed' = printed \/ \E s \in Streams, n \in 1 .. MaxOutput :
            printed[s] + n <= MaxOutput /\ printed' = [printed EXCEPT ![s] = @ + n]
    BY <1>7 DEF Payload
  <2>3. printed' \in [Streams -> 0 .. MaxOutput]
    <3>1. ASSUME NEW s \in Streams, NEW n \in 1 .. MaxOutput, printed[s] + n <= MaxOutput,
                 printed' = [printed EXCEPT ![s] = @ + n]
          PROVE  printed' \in [Streams -> 0 .. MaxOutput]
      BY <3>1, SudoInputAssumption
    <3> QED  BY <2>2, <3>1
  <2>4. actor' \in Actors  BY <1>7 DEF Payload
  <2> QED  BY <2>1, <2>3, <2>4
<1>8. ASSUME NEW s \in Streams, Copy(s) PROVE SudoTypeOK'
  <2>1. UNCHANGED <<call, framing, cut, actor, printed, returned>>  BY <1>8 DEF Copy
  <2>2. PICK n \in 1 .. MaxOutput : /\ copied[s] + n <= printed[s]
                                    /\ copied' = [copied EXCEPT ![s] = @ + n] /\ Capture(n)
    BY <1>8 DEF Copy
  <2>3. copied' \in [Streams -> 0 .. MaxOutput]  BY <1>8, <2>2, SudoInputAssumption
  <2>4. kept' \in 0 .. Ceiling /\ omitted' \in Nat
    BY <2>2, SudoInputAssumption DEF Capture, Least
  <2> QED  BY <2>1, <2>3, <2>4
<1>9. CASE Wait  BY <1>9 DEF Wait
<1>10. CASE Deadline  BY <1>10 DEF Deadline
<1>11. CASE ReturnBytes  BY <1>11, SudoInputAssumption DEF ReturnBytes
<1>12. CASE ReturnError  BY <1>12 DEF ReturnError
<1>13. CASE UNCHANGED sudoVars  BY <1>13 DEF sudoVars
<1> QED
  BY <1>1, <1>2, <1>3, <1>4, <1>5, <1>6, <1>7, <1>8, <1>9, <1>10, <1>11, <1>12, <1>13
  DEF SudoNext

LEMMA StepInput ==
    ASSUME SudoTypeOK, InputInv, [SudoNext]_sudoVars
    PROVE  InputInv'
<1> USE DEF InputInv, call, framing, output, returned
<1>1. CASE StartSudo
  <2>1. marker' \notin Framed /\ UNCHANGED <<call, received, cut>> /\ actor = "operator"
        /\ actor' = "sudo" /\ stdin' = <<password, marker'>> \o input
    BY <1>1 DEF StartSudo, ChooseMarker
  <2> QED  BY <2>1 DEF Framed
<1>2. CASE Send
  <2>1. UNCHANGED <<call, marker, stdin, received, cut, actor, returned>>  BY <1>2 DEF Send
  <2> QED  BY <2>1 DEF Framed, Lost
<1>3. CASE CloseClient
  <2>1. UNCHANGED <<call, framing, actor, returned>> /\ cut' /\ actor # "operator"
    BY <1>3 DEF CloseClient
  <2> QED  BY <2>1 DEF Framed, Lost
<1>4. CASE Sudo
  <2>1. UNCHANGED <<call, marker, received, cut, output, returned>> /\ actor = "sudo"
        /\ actor' \in {"shell", "failed", "sudo"}
    BY <1>4 DEF Sudo
  <2>2. stdin' = stdin \/ (stdin # <<>> /\ stdin' = Tail(stdin))
    BY <1>4, LineTaken DEF Sudo
  <2>3. \/ stdin' = <<password, marker>> \o input
        \/ stdin' = <<marker>> \o input
        \/ \A n \in DOMAIN stdin' : stdin'[n] # marker
    BY <2>1, <2>2, LineRead DEF Lost
  <2> QED  BY <2>1, <2>3 DEF Framed, Lost
<1>5. CASE Shell
  <2>1. UNCHANGED <<call, marker, tries, received, cut, output, returned>> /\ actor = "shell"
    BY <1>5 DEF Shell
  <2>2. CASE actor' = "failed"  BY <2>1, <2>2 DEF Framed
  <2>3. CASE ReadLine /\ Head(stdin) = marker /\ actor' = "cat"
    <3>1. stdin # <<>> /\ stdin' = Tail(stdin)  BY <2>3, LineTaken
    <3>2. stdin' = input  BY <2>1, <2>3, <3>1, LineRead
    <3>3. <<>> \o input = input  BY InputType, ConcatEmptySeq
    <3> QED  BY <2>1, <2>3, <3>2, <3>3 DEF Framed
  <2>4. CASE ReadLine /\ Head(stdin) # marker /\ actor' = "shell"
    <3>1. stdin # <<>> /\ stdin' = Tail(stdin)  BY <2>4, LineTaken
    <3>2. \/ stdin' = <<marker>> \o input
          \/ \A n \in DOMAIN stdin' : stdin'[n] # marker
      BY <2>1, <2>4, <3>1, LineRead
    <3> QED  BY <2>1, <2>4, <3>2 DEF Framed, Lost
  <2> QED  BY <1>5, <2>2, <2>3, <2>4 DEF Shell
<1>6. CASE Cat
  <2>1. UNCHANGED <<call, marker, tries, cut, output, returned>> /\ actor = "cat"
        /\ received \o stdin = input
    BY <1>6 DEF Cat
  <2>2. CASE actor' = "failed" /\ UNCHANGED received  BY <2>1, <2>2 DEF Framed
  <2>3. CASE AtEOF /\ actor' = "payload" /\ UNCHANGED received
    <3>1. stdin = <<>> => received = input
      BY <2>1, ConcatEmptySeq DEF SudoTypeOK
    <3> QED  BY <2>1, <2>3, <3>1 DEF AtEOF, Framed
  <2>4. CASE ReadLine /\ received' = Append(received, Head(stdin)) /\ actor' = "cat"
    <3>1. stdin # <<>> /\ stdin' = Tail(stdin)  BY <2>4, LineTaken
    <3>2. received' \o stdin' = input  BY <2>1, <2>4, <3>1, LineMoved DEF SudoTypeOK
    <3>3. received' \in Seq(Lines) /\ stdin' \in Seq(Lines)
      BY <2>4, LineTaken, AppendProperties DEF SudoTypeOK
    <3>4. \E n \in 0 .. Len(input) : received' = SubSeq(input, 1, n)
      BY <3>2, <3>3, FirstPart
    <3> QED  BY <2>1, <2>4, <3>2, <3>4 DEF Framed
  <2> QED  BY <1>6, <2>1, <2>2, <2>3, <2>4 DEF Cat
<1>7. CASE Payload
  <2>1. UNCHANGED <<call, framing, cut, returned>> /\ actor = "payload"
        /\ actor' \in {"payload", "exited", "failed"}
    BY <1>7 DEF Payload
  <2> QED  BY <2>1 DEF Framed, Lost
<1>8. ASSUME NEW s \in Streams, Copy(s) PROVE InputInv'
  <2>1. UNCHANGED <<call, framing, cut, actor, returned>>  BY <1>8 DEF Copy
  <2> QED  BY <2>1 DEF Framed, Lost
<1>9. CASE Wait  BY <1>9 DEF Wait, Framed, Lost
<1>10. CASE Deadline  BY <1>10 DEF Deadline, Framed, Lost
<1>11. CASE ReturnBytes
  <2>1. actor # "operator"  BY <1>11 DEF ReturnBytes
  <2> QED  BY <1>11, <2>1 DEF ReturnBytes, Framed, Lost
<1>12. CASE ReturnError  BY <1>12 DEF ReturnError, Framed, Lost
<1>13. CASE UNCHANGED sudoVars  BY <1>13 DEF sudoVars, Framed, Lost
<1> QED
  BY <1>1, <1>2, <1>3, <1>4, <1>5, <1>6, <1>7, <1>8, <1>9, <1>10, <1>11, <1>12, <1>13
  DEF SudoNext

LEMMA StepOutput ==
    ASSUME SudoInv, [SudoNext]_sudoVars
    PROVE  OutputInv'
<1> USE DEF SudoInv, OutputInv, Copied, AllCopied, call, framing, output, returned, Streams
<1>1. CASE StartSudo
  <2>1. actor = "operator" /\ UNCHANGED <<call, output, returned>>
        /\ sudoResult = "none" /\ waited = "none"
    BY <1>1 DEF StartSudo, InputInv
  <2> QED  BY <2>1
<1>2. CASE Send
  <2>1. UNCHANGED <<call, received, actor, output, returned>>  BY <1>2 DEF Send
  <2> QED  BY <2>1
<1>3. CASE CloseClient
  <2>1. UNCHANGED <<call, received, actor, output, returned>>  BY <1>3 DEF CloseClient, framing
  <2> QED  BY <2>1
<1>4. CASE Sudo
  <2>1. UNCHANGED <<call, received, output, returned>> /\ actor = "sudo"  BY <1>4 DEF Sudo
  <2> QED  BY <2>1
<1>5. CASE Shell
  <2>1. UNCHANGED <<call, received, output, returned>> /\ actor = "shell"  BY <1>5 DEF Shell
  <2> QED  BY <2>1
<1>6. CASE Cat
  <2>1. UNCHANGED <<call, output, returned>> /\ actor = "cat"  BY <1>6 DEF Cat
  <2> QED  BY <2>1
<1>7. CASE Payload
  <2>1. /\ actor = "payload" /\ UNCHANGED <<call, received, copied, kept, omitted, returned>>
        /\ \A s \in Streams : printed[s] <= printed'[s]
    BY <1>7, SudoInputAssumption DEF Payload, SudoTypeOK
  <2>2. \A s \in Streams : printed[s] \in Nat /\ printed'[s] \in Nat /\ copied[s] \in Nat
    <3>1. SudoTypeOK'  BY <1>7, StepSudoType DEF SudoNext
    <3>2. /\ printed \in [Streams -> 0 .. MaxOutput] /\ printed' \in [Streams -> 0 .. MaxOutput]
          /\ copied \in [Streams -> 0 .. MaxOutput] /\ MaxOutput \in Nat
      BY <3>1, SudoInputAssumption DEF SudoTypeOK
    <3> QED  BY <3>2
  <2> QED  BY <2>1, <2>2
<1>8. ASSUME NEW s \in Streams, Copy(s) PROVE OutputInv'
  <2>1. UNCHANGED <<call, received, actor, printed, returned>>  BY <1>8 DEF Copy
  <2>2. PICK n \in 1 .. MaxOutput : /\ copied[s] + n <= printed[s]
                                    /\ copied' = [copied EXCEPT ![s] = @ + n] /\ Capture(n)
    BY <1>8 DEF Copy
  <2>3. \A t \in Streams : copied[t] \in Nat /\ printed[t] \in Nat
    BY SudoInputAssumption DEF SudoTypeOK
  <2>4. /\ \A t \in Streams : copied'[t] = IF t = s THEN copied[t] + n ELSE copied[t]
        /\ n \in Nat \ {0} /\ kept \in 0 .. Ceiling /\ omitted \in Nat /\ Ceiling \in Nat
    BY <2>2, SudoInputAssumption DEF SudoTypeOK
  <2>5. \A t \in Streams : copied'[t] <= printed'[t]  BY <2>1, <2>2, <2>3, <2>4
  <2>6. kept' + omitted' = kept + omitted + n /\ (omitted' > 0 => kept' = Ceiling)
    BY <2>2, <2>4 DEF Capture, Least
  <2>7. Copied' = Copied + n  BY <1>8, <2>3, <2>4
  <2>8. copied # printed  BY <1>8, <2>2, <2>3, <2>4
  <2>9. waited # "ok"  BY <2>8
  <2> QED  BY <2>1, <2>5, <2>6, <2>7, <2>9
<1>9. CASE Wait
  <2>1. UNCHANGED <<call, received, actor, output, late, bytes, sudoResult>> /\ waited = "none"
        /\ waited' \in {"ok", "error"}
        /\ (waited' = "ok" => AllCopied /\ actor = "exited" /\ ~cut)
    BY <1>9 DEF Wait
  <2>2. waited' = "ok" => received = input  BY <2>1 DEF InputInv
  <2>3. sudoResult # "none" => late  BY <2>1
  <2> QED  BY <2>1, <2>2, <2>3
<1>10. CASE Deadline  BY <1>10 DEF Deadline
<1>11. CASE ReturnBytes
  <2>1. UNCHANGED <<call, received, actor, output, waited, late>> /\ bytes' = kept
        /\ sudoResult' = "reading" /\ (waited # "none" \/ late)
    BY <1>11 DEF ReturnBytes
  <2> QED  BY <2>1
<1>12. CASE ReturnError
  <2>1. UNCHANGED <<call, received, actor, output, waited, late, bytes>>
        /\ sudoResult = "reading"
        /\ sudoResult' = IF late THEN "timeout"
                         ELSE IF waited = "error" THEN "error"
                         ELSE IF omitted > 0 THEN "limit" ELSE "ok"
    BY <1>12 DEF ReturnError
  <2>2. omitted \in Nat /\ waited \in {"none", "ok", "error"}  BY DEF SudoTypeOK
  <2> QED  BY <2>1, <2>2
<1>13. CASE UNCHANGED sudoVars  BY <1>13 DEF sudoVars
<1> QED
  BY <1>1, <1>2, <1>3, <1>4, <1>5, <1>6, <1>7, <1>8, <1>9, <1>10, <1>11, <1>12, <1>13
  DEF SudoNext

LEMMA StepSudo == SudoInv /\ [SudoNext]_sudoVars => SudoInv'
BY StepSudoType, StepInput, StepOutput DEF SudoInv

\* The values of the variables are what they are meant to be; above all, the buffer never
\* exceeds its ceiling.
THEOREM SudoTypeCorrect == SudoSpec => []SudoTypeOK
<1>1. SudoInv => SudoTypeOK  BY DEF SudoInv
<1> QED  BY <1>1, InitSudo, StepSudo, PTL DEF SudoSpec

\* For any lines, inputs and packets, however sudo is configured, however often it asks,
\* and whenever the client is closed: what reaches a payload is its own input from the
\* first line on, all of it unless the client was closed, and a call that returns no
\* error has run it with all of it.
THEOREM PayloadReadsItsOwn == SudoSpec => []PayloadGetsItsInput
<1>1. SudoInv => PayloadGetsItsInput
  BY DEF SudoInv, InputInv, OutputInv, PayloadGetsItsInput
<1> QED  BY <1>1, InitSudo, StepSudo, PTL DEF SudoSpec

\* For any ceiling and any output, in chunks of any size from both streams: what is
\* returned without an error is everything, and the error is returned when it is not.
THEOREM OutputIsNotLost == SudoSpec => []OutputIsWhole
<1>1. SudoInv => OutputIsWhole
  <2> SUFFICES ASSUME SudoInv PROVE OutputIsWhole
      OBVIOUS
  <2>1. kept + omitted = Copied /\ kept \in 0 .. Ceiling /\ omitted \in Nat
    BY DEF SudoInv, OutputInv, SudoTypeOK
  <2>2. ASSUME sudoResult \in {"ok", "limit"} PROVE bytes = kept /\ Copied = Printed
    BY <2>2 DEF SudoInv, OutputInv, AllCopied, Copied, Printed
  <2> QED  BY <2>1, <2>2, SudoInputAssumption DEF SudoInv, OutputInv, OutputIsWhole
<1> QED  BY <1>1, InitSudo, StepSudo, PTL DEF SudoSpec

=============================================================================
