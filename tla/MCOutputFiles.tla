--------------------------- MODULE MCOutputFiles ---------------------------
(* Two jobs with two payloads each.                                        *)
EXTENDS OutputFiles, TLC

CONSTANTS jobA, jobB, t1, t2, t3, day, hostA

\* A template without %h%, or two hosts of one name: the second payload of one
\* job and the first of the other have the same file.
Shared == <<jobA, 1>> :> t1 @@ <<jobA, 2>> :> t2 @@ <<jobB, 1>> :> t2 @@ <<jobB, 2>> :> t3
\* A directory of their own for some of the files, below the one they share.
Nested == t1 :> <<day, hostA>> @@ t2 :> <<day>> @@ t3 :> <<day>>
Some == {{}, {t2}}
AFault == {{"other", "crash"}, {"io"}}
=============================================================================
