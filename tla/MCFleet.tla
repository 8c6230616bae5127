------------------------------ MODULE MCFleet ------------------------------
(* Three hosts, two at a time, one transfer entry and one payload; a file   *)
(* that knows one of them and a host this run does not name.               *)
EXTENDS Fleet, TLC

CONSTANTS up1, run1, j1, j2, j3, elsewhere

Found == [NoEntries EXCEPT ![j1] = "earlier", ![elsewhere] = "earlier"]
Missing == [kind |-> "missing", entries |-> NoEntries]
Unknown == Permutations({j2, j3})
AnyFile == {Missing, Malformed, Whole(Found)}
=============================================================================
