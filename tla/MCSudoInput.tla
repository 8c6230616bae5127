----------------------------- MODULE MCSudoInput -----------------------------
(* One privileged call. Any of four lines may be the password that is given, *)
(* the account's own, a line of the input or the boundary.                   *)
EXTENDS SudoInput

CONSTANTS pw, b1, b2, text

SomeInputs == UNION {[1 .. n -> {pw, b1, text}] : n \in 0 .. 2}
=============================================================================
