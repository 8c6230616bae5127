---------------------------- MODULE AuthMatrix ----------------------------
(***************************************************************************)
(* The search for a login on one host (RunnerBf,                           *)
(* internal/runner/runner.go): every username with every password and then *)
(* with the key, each on a connection of its own, until the host accepts   *)
(* one or fails in a way no other credential can cure. The key, a file or  *)
(* the agent's socket, is loaded when it is first needed.                  *)
(*                                                                         *)
(* A login is the position of its username and of its password; the key    *)
(* comes after the last password.                                          *)
(***************************************************************************)
EXTENDS Naturals, FiniteSets

CONSTANTS Users,        \* number of usernames
          Words,        \* number of passwords
          KeyModes      \* whether -k was given: a set of booleans

ASSUME ListsAssumption == Users \in Nat \ {0} /\ Words \in Nat
ASSUME KeyModesAssumption == KeyModes \subseteq BOOLEAN

Key == Words + 1
Logins == (1 .. Users) \X (1 .. Key)

VARIABLES accepts,   \* the logins the host accepts
          empty,     \* the positions of empty passwords, which are never tried
          wantKey,   \* keyAuthRequested
          key,       \* what keyAuth returned: nothing yet, a key, or an error
          user, word,\* the two loops
          at,        \* where they are
          outcome,   \* none, found, or stopped by a host-level failure
          tried      \* the logins offered so far; AuthAttempts counts them

host == <<accepts, empty>>
authVars == <<host, wantKey, key, user, word, at, outcome, tried>>

AuthTypeOK ==
    /\ accepts \subseteq Logins
    /\ empty \subseteq 1 .. Words
    /\ wantKey \in BOOLEAN
    /\ key \in {"unloaded", "loaded", "failed"}
    /\ user \in 1 .. Users
    /\ word \in 1 .. Key
    /\ at \in {"password", "key", "record", "done"}
    /\ outcome \in {"none", "found", "stopped"}
    /\ tried \subseteq Logins

AuthInit ==
    /\ accepts \in SUBSET Logins
    /\ empty \in SUBSET (1 .. Words)
    /\ wantKey \in KeyModes
    /\ key = "unloaded"
    /\ user = 1 /\ word = 1
    /\ at = "password"
    /\ outcome = "none"
    /\ tried = {}

-----------------------------------------------------------------------------
EndUser == IF user < Users
           THEN user' = user + 1 /\ word' = 1 /\ at' = "password"
           ELSE at' = "record" /\ UNCHANGED <<user, word>>

\* Mistake: a host-level failure ends the passwords, but not the matrix.
Attempt_GoesOn(login) ==
    /\ tried' = tried \union {login}
    /\ \/ login \in accepts /\ outcome' = "found" /\ at' = "record" /\ UNCHANGED <<user, word>>
       \/ outcome' = "stopped" /\ EndUser
       \/ /\ login \notin accepts /\ UNCHANGED outcome
          /\ IF word < Key THEN word' = word + 1 /\ UNCHANGED <<user, at>> ELSE EndUser

\* One connection. The host accepts the login, or fails: refused, unreachable,
\* no handshake in time. Or it rejects the login (expectedAuthFailure), and the
\* next one has its turn.
Attempt(login) ==
    /\ tried' = tried \union {login}
    /\ \/ login \in accepts /\ outcome' = "found" /\ at' = "record" /\ UNCHANGED <<user, word>>
       \/ outcome' = "stopped" /\ at' = "record" /\ UNCHANGED <<user, word>>
       \/ /\ login \notin accepts /\ UNCHANGED outcome
          /\ IF word < Key THEN word' = word + 1 /\ UNCHANGED <<user, at>> ELSE EndUser

SkipEmpty == /\ at = "password" /\ word \in empty
             /\ word' = word + 1
             /\ UNCHANGED <<host, wantKey, key, user, at, outcome, tried>>

TryPassword == /\ at = "password" /\ word \in 1 .. Words /\ word \notin empty
               /\ Attempt(<<user, word>>)
               /\ UNCHANGED <<host, wantKey, key>>

AfterPasswords == /\ at = "password" /\ word = Key
                  /\ IF wantKey THEN at' = "key" /\ UNCHANGED <<user, word>> ELSE EndUser
                  /\ UNCHANGED <<host, wantKey, key, outcome, tried>>

\* Mistake: a key that cannot be loaded ends the search.
LoadKey_GivesUp == /\ at = "key" /\ key = "unloaded"
                   /\ \/ key' = "loaded" /\ UNCHANGED <<at, wantKey, user, word>>
                      \/ /\ key' = "failed" /\ wantKey' = FALSE
                         /\ at' = "record" /\ UNCHANGED <<user, word>>
                   /\ UNCHANGED <<host, outcome, tried>>

\* Once per host. Without a key the passwords of the other usernames go on.
LoadKey == /\ at = "key" /\ key = "unloaded"
           /\ \/ key' = "loaded" /\ UNCHANGED <<at, wantKey, user, word>>
              \/ key' = "failed" /\ wantKey' = FALSE /\ EndUser
           /\ UNCHANGED <<host, outcome, tried>>

TryKey == /\ at = "key" /\ key = "loaded"
          /\ Attempt(<<user, Key>>)
          /\ UNCHANGED <<host, wantKey, key>>

\* RecordHostResult.
Finish == /\ at = "record"
          /\ at' = "done"
          /\ UNCHANGED <<host, wantKey, key, user, word, outcome, tried>>

AuthNext == SkipEmpty \/ TryPassword \/ AfterPasswords \/ LoadKey \/ TryKey \/ Finish

AuthSpec == AuthInit /\ [][AuthNext]_authVars

-----------------------------------------------------------------------------
(* Properties.                                                             *)

\* What there is to try: every password that is not empty and, if a key could be
\* loaded, the key.
Candidates == {l \in Logins : l[2] \notin empty /\ (l[2] = Key => key = "loaded")}

\* "Unable to connect" without a host-level failure means that every credential
\* was offered and rejected, and the login a host is worked on with is the first
\* one it accepts in the order of the command line: neither an empty password nor a
\* key that cannot be loaded cuts the matrix short.
Precedes(l, m) == l[1] < m[1] \/ (l[1] = m[1] /\ l[2] < m[2])
SearchIsExhaustive ==
    /\ outcome = "found" =>
         /\ tried \intersect accepts = {<<user, word>>}
         /\ {l \in Candidates : Precedes(l, <<user, word>>)} \subseteq tried
    /\ at = "done" /\ outcome = "none" =>
         tried = Candidates /\ tried \intersect accepts = {}

\* A login is offered once at most, and nothing is offered to a host that has
\* accepted one or has failed: no second session and no needless rejections.
NoNeedlessAttempt ==
    [][TryPassword \/ TryKey => outcome = "none" /\ tried' # tried]_authVars
=============================================================================
