------------------------------ MODULE HostJob ------------------------------
(***************************************************************************)
(* What the work on a host promises to the rest of the program, without    *)
(* connections, slots, semaphores or rsync: every requested entry gets at  *)
(* most one verdict while its job works, a payload only after every        *)
(* transfer went well, and a job is a success only if all of them did.     *)
(* HostWork implements this; Fleet builds on it.                           *)
(***************************************************************************)
EXTENDS Naturals

CONSTANTS Jobs, Transfer, Payload   \* the entries a command line can name

ASSUME EntriesAssumption == Transfer \intersect Payload = {}

VARIABLES asked,     \* the entries the command line does name, for every job
          status,    \* a job's life, ending in its result
          verdict    \* what became of each of its entries

jobVars == <<asked, status, verdict>>

Entry == Transfer \union Payload
Unmet(j) == {e \in asked : verdict[j][e] # "ok"}

JobTypeOK ==
    /\ asked \subseteq Entry
    /\ status \in [Jobs -> {"idle", "working", "succeeded", "failed"}]
    /\ verdict \in [Jobs -> [Entry -> {"pending", "ok", "bad"}]]

JobInit == /\ asked \in SUBSET Entry
           /\ status = [j \in Jobs |-> "idle"]
           /\ verdict = [j \in Jobs |-> [e \in Entry |-> "pending"]]

\* The credentials were accepted.
Start(j) == /\ status[j] = "idle"
            /\ status' = [status EXCEPT ![j] = "working"]
            /\ UNCHANGED <<asked, verdict>>

Decide(j, e) == /\ status[j] = "working"
                /\ e \in asked /\ verdict[j][e] = "pending"
                /\ e \in Payload => Unmet(j) \intersect Transfer = {}
                /\ \E v \in {"ok", "bad"} :
                      verdict' = [verdict EXCEPT ![j][e] = v]
                /\ UNCHANGED <<asked, status>>

Conclude(j) == /\ status[j] = "working"
               /\ \/ /\ Unmet(j) = {}
                     /\ status' = [status EXCEPT ![j] = "succeeded"]
                  \/ status' = [status EXCEPT ![j] = "failed"]
               /\ UNCHANGED <<asked, verdict>>

JobNext == \E j \in Jobs : Start(j) \/ Conclude(j) \/ \E e \in Entry : Decide(j, e)

JobFairness ==
    WF_jobVars(\E j \in Jobs : Conclude(j) \/ \E e \in Entry : Decide(j, e))

JobSpec == JobInit /\ [][JobNext]_jobVars /\ JobFairness
=============================================================================
