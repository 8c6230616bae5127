----------------------------- MODULE SudoInput -----------------------------
(***************************************************************************)
(* What goes into and comes out of a privileged command (runWithInput in   *)
(* internal/ssh/ssh.go with sudo_boundary.go and capture.go). Its stdin is *)
(* the password, a boundary and the payload's own input, and a goroutine   *)
(* sends it while the command runs. Who reads which line depends on sudo's *)
(* configuration: sudo -S may ask for the password or not, and asks again  *)
(* when it is wrong; the root shell that it starts discards lines through  *)
(* the boundary; the payload's cat reads the rest until it ends. What the  *)
(* payload prints is copied from two streams into one buffer with a        *)
(* ceiling. A client that is closed ends all of it. Session has the        *)
(* channel, its deadline and its errors.                                   *)
(***************************************************************************)
EXTENDS Naturals, Sequences

CONSTANTS Lines,      \* lines of text, a password and a boundary among them
          Inputs,     \* inputs of payloads
          Packet,     \* lines that go into one packet of the channel
          Tries,      \* passwords sudo asks for
          Ceiling,    \* maxCapturedRemoteOutput
          MaxOutput   \* bound: what a payload prints on each stream

ASSUME SudoInputAssumption == /\ Inputs \subseteq Seq(Lines)
                              /\ Packet \in Nat \ {0} /\ Tries \in Nat \ {0}
                              /\ Ceiling \in Nat \ {0} /\ MaxOutput \in Nat

Streams == {"stdout", "stderr"}

VARIABLES password, input,  \* what the call is given
          marker,    \* the boundary, once it is chosen
          account,   \* the password the account has
          asks,      \* whether it asks at all
          tries,     \* how often it will still ask
          stdin,     \* the lines nobody has read yet,
          arrived,   \* and how many of them the host has
          cut,       \* the client is closed: no more lines arrive, and no output
          actor,     \* who is running: see Actors
          received,  \* the input that cat has read for the payload
          printed,   \* what it has printed, per stream
          copied,    \* and what the session has copied of it
          kept,      \* bytes in the buffer
          omitted,   \* bytes counted beyond it
          waited,    \* what session.Wait has returned
          late,      \* the caller has seen the deadline pass
          bytes,     \* what runWithInput returns of the output,
          sudoResult \* and its error: "none" while it has not returned

sudoVars == <<password, input, marker, account, asks, tries, stdin, arrived, cut, actor,
              received, printed, copied, kept, omitted, waited, late, bytes, sudoResult>>
call == <<password, input, account, asks>>
framing == <<marker, tries, stdin, arrived, received>>
output == <<printed, copied, kept, omitted>>
returned == <<waited, late, bytes, sudoResult>>

Actors == {"operator", "sudo", "shell", "cat", "payload", "exited", "failed"}

SudoTypeOK ==
    /\ password \in Lines /\ input \in Inputs /\ marker \in Lines
    /\ account \in Lines /\ asks \in BOOLEAN /\ tries \in 0 .. Tries
    /\ stdin \in Seq(Lines) /\ received \in Seq(Lines)
    /\ arrived \in 0 .. Len(stdin) /\ cut \in BOOLEAN
    /\ actor \in Actors
    /\ printed \in [Streams -> 0 .. MaxOutput] /\ copied \in [Streams -> 0 .. MaxOutput]
    /\ kept \in 0 .. Ceiling /\ omitted \in Nat /\ bytes \in Nat
    /\ waited \in {"none", "ok", "error"} /\ late \in BOOLEAN
    /\ sudoResult \in {"none", "reading", "ok", "error", "limit", "timeout"}

Idle == /\ received = <<>>
        /\ printed = [s \in Streams |-> 0] /\ copied = [s \in Streams |-> 0]
        /\ kept = 0 /\ omitted = 0
        /\ arrived = 0 /\ cut = FALSE
        /\ late = FALSE /\ bytes = 0

SudoInit == /\ password \in Lines /\ input \in Inputs
            /\ account \in Lines /\ asks \in BOOLEAN
            /\ marker = password /\ tries = Tries /\ stdin = <<>>
            /\ actor = "operator" /\ waited = "none" /\ sudoResult = "none"
            /\ Idle

-----------------------------------------------------------------------------
\* The smaller of two numbers.
Least(m, n) == IF m < n THEN m ELSE n

Framed == {password} \union {input[n] : n \in DOMAIN input}

\* Mistake: a random line is as good as new.
ChooseMarker_Unseen == marker' \in Lines

\* newSudoInputBoundary: a line that occurs in nothing that is framed.
ChooseMarker == marker' \in Lines \ Framed

\* sudoBoundaryInput and sudoBoundaryCommand: session.Start.
StartSudo == /\ actor = "operator"
             /\ ChooseMarker
             /\ stdin' = <<password, marker'>> \o input
             /\ actor' = "sudo"
             /\ UNCHANGED <<call, tries, arrived, cut, received, output, returned>>

\* The goroutine that copies stdin to the channel sends the next packet.
Send == /\ actor \in {"sudo", "shell", "cat"} /\ ~cut
        /\ arrived < Len(stdin)
        /\ arrived' = Least(arrived + Packet, Len(stdin))
        /\ UNCHANGED <<call, marker, tries, stdin, received, cut, actor, output, returned>>

\* The client is closed, by this call's deadline or by that of another session of the
\* host. The host closes the pipes of the command and lets it run.
CloseClient == /\ actor # "operator" /\ ~cut
               /\ cut' = TRUE
               /\ UNCHANGED <<call, framing, actor, output, returned>>

\* A reader takes a line that has arrived, or waits for it, or sees the end of the input.
ReadLine == arrived > 0 /\ stdin' = Tail(stdin) /\ arrived' = arrived - 1
AtEOF == arrived = 0 /\ (stdin = <<>> \/ cut)

\* sudo runs the shell at once, or reads a line for each of its tries; it may read
\* the boundary, and lines of the payload after it.
Sudo == /\ actor = "sudo"
        /\ \/ ~asks /\ actor' = "shell" /\ UNCHANGED <<stdin, arrived, tries>>
           \/ /\ asks /\ (AtEOF \/ tries = 0)
              /\ actor' = "failed" /\ UNCHANGED <<stdin, arrived, tries>>
           \/ /\ asks /\ tries > 0 /\ ReadLine
              /\ tries' = tries - 1
              /\ actor' = IF Head(stdin) = account THEN "shell" ELSE "sudo"
        /\ UNCHANGED <<call, marker, received, cut, output, returned>>

\* discardThroughBoundary; without a boundary it exits with status 126.
Shell == /\ actor = "shell"
         /\ \/ AtEOF /\ actor' = "failed" /\ UNCHANGED <<stdin, arrived>>
            \/ /\ ReadLine
               /\ actor' = IF Head(stdin) = marker THEN "cat" ELSE "shell"
         /\ UNCHANGED <<call, marker, tries, received, cut, output, returned>>

\* rootOwnedScriptPayload: cat > "$p" reads until the end of the input, whatever ended
\* it; where the file cannot be made or written, the shell exits with status 126.
Cat == /\ actor = "cat"
       /\ \/ /\ ReadLine
             /\ received' = Append(received, Head(stdin)) /\ UNCHANGED actor
          \/ AtEOF /\ actor' = "payload" /\ UNCHANGED <<stdin, arrived, received>>
          \/ actor' = "failed" /\ UNCHANGED <<stdin, arrived, received>>
       /\ UNCHANGED <<call, marker, tries, cut, output, returned>>

\* It prints, and ends well or not.
Payload == /\ actor = "payload"
           /\ \/ /\ actor' \in {"exited", "failed"} /\ UNCHANGED printed
              \/ /\ \E s \in Streams, n \in 1 .. MaxOutput :
                       /\ printed[s] + n <= MaxOutput
                       /\ printed' = [printed EXCEPT ![s] = @ + n]
                 /\ UNCHANGED actor
           /\ UNCHANGED <<call, framing, cut, copied, kept, omitted, returned>>

-----------------------------------------------------------------------------
\* Mistake: a chunk that does not fit as a whole is not counted.
Capture_DropsChunk(n) == /\ kept' = IF n <= Ceiling - kept THEN kept + n ELSE kept
                         /\ omitted' = IF Ceiling = kept THEN omitted + n ELSE omitted

\* boundedCapture.Write, under its mutex.
Capture(n) == /\ kept' = kept + Least(n, Ceiling - kept)
              /\ omitted' = omitted + n - Least(n, Ceiling - kept)

\* A goroutine of the session copies a chunk of one of the streams, of any size.
Copy(s) == /\ ~cut
           /\ \E n \in 1 .. MaxOutput :
                 /\ copied[s] + n <= printed[s]
                 /\ copied' = [copied EXCEPT ![s] = @ + n]
                 /\ Capture(n)
           /\ UNCHANGED <<call, framing, cut, actor, printed, returned>>

\* session.Wait returns when the command has exited and both streams are copied, or with
\* an error when the client is closed before.
AllCopied == actor \in {"exited", "failed"} /\ copied = printed
Wait == /\ actor # "operator" /\ waited = "none"
        /\ cut \/ AllCopied
        /\ waited' = IF ~cut /\ actor = "exited" THEN "ok" ELSE "error"
        /\ UNCHANGED <<call, framing, cut, actor, output, late, bytes, sudoResult>>

\* The caller takes the deadline's case of its select; what still arrives goes into
\* the buffer while it is being read.
Deadline == /\ actor # "operator" /\ sudoResult = "none" /\ ~late
            /\ late' = TRUE
            /\ UNCHANGED <<call, framing, cut, actor, output, waited, bytes, sudoResult>>

\* buf.Bytes() and buf.Err() lock the buffer one after the other.
ReturnBytes == /\ sudoResult = "none" /\ (waited # "none" \/ late)
               /\ bytes' = kept /\ sudoResult' = "reading"
               /\ UNCHANGED <<call, framing, cut, actor, output, waited, late>>

ReturnError == /\ sudoResult = "reading"
               /\ sudoResult' = IF late THEN "timeout"
                                ELSE IF waited = "error" THEN "error"
                                ELSE IF omitted > 0 THEN "limit" ELSE "ok"
               /\ UNCHANGED <<call, framing, cut, actor, output, waited, late, bytes>>

SudoNext == \/ StartSudo \/ Send \/ CloseClient \/ Sudo \/ Shell \/ Cat \/ Payload
            \/ (\E s \in Streams : Copy(s)) \/ Wait \/ Deadline \/ ReturnBytes \/ ReturnError

SudoSpec == SudoInit /\ [][SudoNext]_sudoVars

-----------------------------------------------------------------------------
(* Properties.                                                             *)

\* Whether sudo read the password, did not, or read lines that were not meant for it,
\* what reaches the payload is its own input from the first line on, and never the
\* password or the boundary; it is all of it, unless the client was closed while it was
\* sent; and a call without an error has run the payload with all of it.
PayloadGetsItsInput ==
    /\ \E n \in 0 .. Len(input) : received = SubSeq(input, 1, n)
    /\ actor \in {"payload", "exited"} => received = input \/ cut
    /\ sudoResult = "ok" => actor = "exited" /\ received = input

\* "Either way, only exact post-boundary script bytes reach the root-owned file"
\* (ssh.go:704): what root executes is the whole script.
OnlyExactInput == actor \in {"payload", "exited"} => received = input

\* What is returned as the output of a command without an error is all of it: output
\* beyond the ceiling is an error, of one stream or of both together, and output that
\* fills the buffer to the last byte is none.
Printed == printed["stdout"] + printed["stderr"]
OutputIsWhole ==
    /\ sudoResult = "ok" => bytes = Printed
    /\ sudoResult = "limit" => Printed > Ceiling /\ bytes = Ceiling
=============================================================================
