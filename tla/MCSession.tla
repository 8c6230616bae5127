----------------------------- MODULE MCSession -----------------------------
(* Two calls on one client, a command and a transfer.                      *)
EXTENDS Session
=============================================================================
