----------------------------- MODULE MCHostWork -----------------------------
(* Instances of HostWork for TLC: two host jobs that share a small pool,   *)
(* one command line at a time out of a few that exercise every branch.     *)
EXTENDS HostWork, TLC

CONSTANTS j1, j2, key1, key2

OneKey == j1 :> key1 @@ j2 :> key1

Work3(u, d, p) == "upload" :> u @@ "download" :> d @@ "payload" :> p

CommandLine(count, mode, threads) ==
    [count |-> count, mode |-> mode, threads |-> threads, sudo |-> TRUE,
     validate |-> TRUE, outfile |-> TRUE, rsync |-> TRUE]

\* One of everything: the prerequisites of a payload and the pool.
Mixed == {CommandLine(Work3(1, 1, 1), "scripts", 1)}

\* Several payloads on one connection, and several transfers.
Wide == {CommandLine(Work3(0, 0, 2), "commands", 1),
         CommandLine(Work3(0, 0, 2), "commands", 2),
         [CommandLine(Work3(0, 0, 2), "schedule", 2) EXCEPT !.sudo = FALSE],
         [CommandLine(Work3(2, 0, 0), "commands", 2) EXCEPT !.rsync = FALSE],
         [CommandLine(Work3(0, 2, 0), "commands", 2) EXCEPT !.validate = FALSE]}

Safety == Mixed \union Wide

\* An upload, with rsync to install, and a command after it.
UploadAndRun == {CommandLine(Work3(1, 0, 1), "commands", 1)}
=============================================================================
