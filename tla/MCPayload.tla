------------------------------ MODULE MCPayload ------------------------------
(* What goes into and comes out of a payload: the input and the output of one *)
(* privileged call, or the output files of two jobs. A behaviour is one of   *)
(* SudoInput or one of OutputFiles, with the other at rest.                  *)
EXTENDS MCOutputFiles, MCSudoInput

CallRests == /\ password = pw /\ input = <<>> /\ account = pw /\ asks = FALSE
             /\ marker = b1 /\ tries = Tries /\ stdin = <<>> /\ arrived = 0 /\ cut = TRUE
             /\ actor = "failed" /\ received = <<>>
             /\ printed = [s \in Streams |-> 0] /\ copied = printed
             /\ kept = 0 /\ omitted = 0
             /\ waited = "error" /\ late = FALSE /\ bytes = 0 /\ sudoResult = "error"

FilesRest == /\ pc = [p \in Payloads |-> "failed"] /\ depth = [p \in Payloads |-> 1]
             /\ saving = [p \in Payloads |-> FALSE] /\ dirs = {}
             /\ file = [t \in Targets |-> Nobody] /\ claim = file
             /\ temp = [p \in Payloads |-> "absent"] /\ up = FALSE /\ faults = {}

PayloadInit == (SudoInit /\ FilesRest) \/ (Init /\ CallRests)

PayloadOver == /\ sudoResult \notin {"none", "reading"} /\ actor \in {"exited", "failed"}
               /\ AllOver
               /\ UNCHANGED <<sudoVars, vars>>

PayloadNext == \/ SudoNext /\ UNCHANGED vars
               \/ Work /\ UNCHANGED sudoVars
               \/ PayloadOver

PayloadSpec == PayloadInit /\ [][PayloadNext]_<<sudoVars, vars>>
=============================================================================
