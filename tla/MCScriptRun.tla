---------------------------- MODULE MCScriptRun ----------------------------
(* Two scripts of one host at once, over one connection.                   *)
EXTENDS ScriptRun

\* Everything at once; and a host that obeys.
Trouble == {{"local", "remote", "payload", "helper", "stall"}, {"local", "payload", "helper"}}
OwnTimeout == {{"payload"}}
=============================================================================
