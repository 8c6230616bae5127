------------------------- MODULE Sequential_proofs -------------------------
(***************************************************************************)
(* Theorems about the parts of the program that run in one goroutine, on   *)
(* data of any size.                                                       *)
(*                                                                         *)
(* 1. AuthMatrix, for any number of usernames and passwords, whatever the  *)
(*    host accepts and however the key turns out: nothing that could be    *)
(*    tried is left out, and nothing is tried twice or after the search.   *)
(* 2. Extraction, for any names and any archive, in any order: a tree that *)
(*    is reported as downloaded is what the host sent.                     *)
(* 3. Targets, for any address space, any tokens and any limit: the list   *)
(*    that is written out has every address that was asked for, once and   *)
(*    in order, and a refusal has its reason.                              *)
(***************************************************************************)
EXTENDS AuthMatrix, Extraction, Targets,
        FiniteSetTheorems, SequenceTheorems, WellFoundedInduction, TLAPS

-----------------------------------------------------------------------------
(* 1. The search for a login.                                              *)

\* The candidates that come before a place in the matrix.
Before(u, w) == {l \in Candidates : Precedes(l, <<u, w>>)}

\* The key has been asked for before the second username, and once it cannot be loaded
\* it is not asked for again.
KeyInv ==
    /\ key = "loaded" => wantKey
    /\ key = "failed" => ~wantKey
    /\ at \in {"password", "key"} /\ wantKey /\ key = "unloaded" => user = 1
    /\ at = "key" => wantKey /\ word = Key

\* What has been tried is what comes before the place the two loops are at.
SearchInv ==
    /\ at \in {"password", "key"} => outcome = "none" /\ tried = Before(user, word)
    /\ outcome = "none" => tried \intersect accepts = {}
    /\ at \in {"record", "done"} /\ outcome = "none" => tried = Candidates
    /\ outcome = "found" => /\ tried \intersect accepts = {<<user, word>>}
                            /\ Before(user, word) \subseteq tried

AuthInv == AuthTypeOK /\ KeyInv /\ SearchInv

-----------------------------------------------------------------------------
\* A login is a pair of places.
LEMMA Pairs ==
    /\ Users \in Nat /\ Users >= 1 /\ Words \in Nat /\ Key \in Nat /\ Key = Words + 1
    /\ \A l \in Logins : l = <<l[1], l[2]>> /\ l[1] \in 1 .. Users /\ l[2] \in 1 .. Key
    /\ \A u \in 1 .. Users, w \in 1 .. Key : <<u, w>> \in Logins
  BY ListsAssumption DEF Key, Logins

\* One place further, and from the last place of a username to the next username.
LEMMA NextPlace ==
    ASSUME NEW u \in 1 .. Users, NEW w \in 1 .. Key
    PROVE  /\ <<u, w>> \notin Before(u, w)
           /\ w < Key => Before(u, w + 1) = Before(u, w) \union (Candidates \intersect {<<u, w>>})
           /\ u < Users => Before(u + 1, 1) = Before(u, Key) \union (Candidates \intersect {<<u, Key>>})
           /\ Candidates = Before(Users, Key) \union (Candidates \intersect {<<Users, Key>>})
<1>1. Candidates \subseteq Logins
  BY DEF Candidates
<1>2. <<u, w>> \notin Before(u, w)
  BY Pairs DEF Before, Precedes
<1>3. ASSUME w < Key
      PROVE  Before(u, w + 1) = Before(u, w) \union (Candidates \intersect {<<u, w>>})
  <2>1. \A l \in Candidates : Precedes(l, <<u, w + 1>>) <=> Precedes(l, <<u, w>>) \/ l = <<u, w>>
    BY <1>1, Pairs DEF Precedes
  <2> QED  BY <2>1 DEF Before
<1>4. ASSUME u < Users
      PROVE  Before(u + 1, 1) = Before(u, Key) \union (Candidates \intersect {<<u, Key>>})
  <2>1. \A l \in Candidates : Precedes(l, <<u + 1, 1>>) <=> Precedes(l, <<u, Key>>) \/ l = <<u, Key>>
    BY <1>1, Pairs DEF Precedes
  <2> QED  BY <2>1 DEF Before
<1>5. Candidates = Before(Users, Key) \union (Candidates \intersect {<<Users, Key>>})
  <2>1. \A l \in Candidates : Precedes(l, <<Users, Key>>) \/ l = <<Users, Key>>
    BY <1>1, Pairs DEF Precedes
  <2> QED  BY <2>1 DEF Before
<1> QED  BY <1>2, <1>3, <1>4, <1>5

\* The end of a username's row.
LEMMA RowEnds ==
    ASSUME AuthTypeOK, EndUser
    PROVE  /\ user' \in 1 .. Users /\ word' \in 1 .. Key /\ at' \in {"password", "record"}
           /\ at' = "password" => user < Users /\ user' = user + 1 /\ word' = 1
           /\ at' = "record" => user = Users /\ user' = user /\ word' = word
  BY Pairs DEF EndUser, AuthTypeOK

-----------------------------------------------------------------------------
\* Before the search nothing has been tried, and nothing comes before its first place.
LEMMA AuthInitInv == AuthInit => AuthInv
<1> SUFFICES ASSUME AuthInit PROVE AuthInv
    OBVIOUS
<1>1. AuthTypeOK
  BY Pairs, KeyModesAssumption DEF AuthInit, AuthTypeOK
<1>2. \A l \in Candidates : ~Precedes(l, <<1, 1>>)
  BY Pairs DEF Candidates, Precedes
<1>3. Before(1, 1) = {}
  BY <1>2 DEF Before
<1> QED  BY <1>1, <1>3 DEF AuthInit, AuthInv, KeyInv, SearchInv

\* The search goes on after a place that is no candidate, or was tried and rejected.
LEMMA GoesOn ==
    ASSUME AuthInv, at \in {"password", "key"},
           UNCHANGED <<accepts, empty, outcome>>, AuthTypeOK', KeyInv',
           Candidates' = Candidates,
           tried' = tried \union (Candidates \intersect {<<user, word>>}),
           tried' \intersect accepts = {},
           IF word < Key THEN word' = word + 1 /\ UNCHANGED <<user, at>> ELSE EndUser
    PROVE  AuthInv'
<1>1. user \in 1 .. Users /\ word \in 1 .. Key
  BY DEF AuthInv, AuthTypeOK
<1>2. tried = Before(user, word) /\ outcome = "none"
  BY DEF AuthInv, SearchInv
<1>3. Before(user, word)' = Before(user', word')
  BY DEF Before, Precedes
<1>4. CASE word < Key
  <2>1. tried' = Before(user', word')
    BY <1>1, <1>2, <1>4, NextPlace
  <2> QED  BY <1>2, <1>3, <1>4, <2>1 DEF AuthInv, SearchInv
<1>5. CASE ~(word < Key)
  <2>1. word = Key /\ EndUser
    BY <1>1, <1>5, Pairs
  <2>2. CASE at' = "password"
    <3>1. tried' = Before(user', word')
      BY <1>1, <1>2, <2>1, <2>2, NextPlace, RowEnds DEF AuthInv
    <3> QED  BY <1>2, <1>3, <2>2, <3>1 DEF AuthInv, SearchInv
  <2>3. CASE at' = "record"
    <3>1. tried' = Candidates
      BY <1>1, <1>2, <2>1, <2>3, NextPlace, RowEnds DEF AuthInv
    <3> QED  BY <1>2, <2>3, <3>1 DEF AuthInv, SearchInv
  <2> QED  BY <2>1, <2>2, <2>3, RowEnds DEF AuthInv
<1> QED  BY <1>4, <1>5

\* One connection with the login that is next.
LEMMA Attempts ==
    ASSUME AuthInv, at \in {"password", "key"}, Attempt(<<user, word>>),
           <<user, word>> \in Candidates, UNCHANGED <<accepts, empty, wantKey, key>>,
           at = "key" => key = "loaded"
    PROVE  AuthInv'
<1>1. /\ user \in 1 .. Users /\ word \in 1 .. Key
      /\ tried = Before(user, word) /\ outcome = "none" /\ tried \intersect accepts = {}
  BY DEF AuthInv, AuthTypeOK, SearchInv
<1>2. tried' = tried \union {<<user, word>>} /\ <<user, word>> \in Logins
  BY Pairs, <1>1 DEF Attempt
<1>3. Candidates' = Candidates
  BY DEF Candidates, Logins
<1>4. CASE outcome' \in {"found", "stopped"} /\ at' = "record" /\ UNCHANGED <<user, word>>
           /\ (outcome' = "found" => <<user, word>> \in accepts)
  <2>1. Before(user, word)' = Before(user, word)
    BY <1>3, <1>4 DEF Before, Precedes
  <2>2. AuthTypeOK'
    BY <1>2, <1>4 DEF AuthInv, AuthTypeOK
  <2>3. KeyInv'
    BY <1>4 DEF AuthInv, KeyInv
  <2>4. SearchInv'
    BY <1>1, <1>2, <1>4, <2>1 DEF SearchInv
  <2> QED  BY <2>2, <2>3, <2>4 DEF AuthInv
<1>5. CASE /\ <<user, word>> \notin accepts /\ UNCHANGED outcome
           /\ IF word < Key THEN word' = word + 1 /\ UNCHANGED <<user, at>> ELSE EndUser
  <2>1. /\ user' \in 1 .. Users /\ word' \in 1 .. Key
        /\ at' \in {"password", "key", "record"}
        /\ user' # user => word = Key
    BY <1>1, <1>5, Pairs, RowEnds DEF AuthInv
  <2>2. AuthTypeOK'
    BY <1>2, <1>5, <2>1 DEF AuthInv, AuthTypeOK
  <2>3. key = "unloaded" /\ wantKey => word < Key
    <3>1. ASSUME key = "unloaded" PROVE word # Key
      BY <3>1 DEF Candidates
    <3> QED  BY <1>1, <3>1, Pairs
  <2>4. at' # "key"
    BY <1>1, <1>5, RowEnds, Pairs DEF AuthInv, KeyInv
  <2>5. KeyInv'
    BY <1>5, <2>1, <2>3, <2>4 DEF AuthInv, KeyInv
  <2> QED  BY <1>1, <1>2, <1>3, <1>5, <2>2, <2>5, GoesOn
<1> QED  BY <1>4, <1>5 DEF Attempt

\* Each step keeps the invariant.
LEMMA AuthStepInv == AuthInv /\ [AuthNext]_authVars => AuthInv'
<1> SUFFICES ASSUME AuthInv, [AuthNext]_authVars PROVE AuthInv'
    OBVIOUS
<1> USE DEF host
<1>t. AuthTypeOK /\ user \in 1 .. Users /\ word \in 1 .. Key
  BY DEF AuthInv, AuthTypeOK
<1>1. CASE SkipEmpty
  <2>1. /\ at = "password" /\ word \in empty /\ word' = word + 1
        /\ UNCHANGED <<accepts, empty, wantKey, key, user, at, outcome, tried>>
    BY <1>1 DEF SkipEmpty
  <2>2. word < Key
    BY <1>t, <2>1, Pairs DEF AuthTypeOK
  <2>3. AuthTypeOK' /\ KeyInv'
    BY <1>t, <2>1, <2>2, Pairs DEF AuthInv, AuthTypeOK, KeyInv
  <2>4. Candidates' = Candidates /\ <<user, word>> \notin Candidates
    BY <2>1 DEF Candidates, Logins
  <2>5. tried' = tried \union (Candidates \intersect {<<user, word>>})
    BY <2>1, <2>4
  <2>6. tried' \intersect accepts = {}
    BY <2>1 DEF AuthInv, SearchInv
  <2> QED  BY <2>1, <2>2, <2>3, <2>4, <2>5, <2>6, GoesOn
<1>2. CASE TryPassword
  <2>1. <<user, word>> \in Candidates
    BY <1>t, <1>2, Pairs DEF TryPassword, Candidates
  <2> QED  BY <1>2, <2>1, Attempts DEF TryPassword
<1>3. CASE AfterPasswords
  <2>1. /\ at = "password" /\ word = Key
        /\ UNCHANGED <<accepts, empty, wantKey, key, outcome, tried>>
        /\ IF wantKey THEN at' = "key" /\ UNCHANGED <<user, word>> ELSE EndUser
    BY <1>3 DEF AfterPasswords
  <2>2. Candidates' = Candidates
    BY <2>1 DEF Candidates, Logins
  <2>3. CASE wantKey
    <3>1. Before(user, word)' = Before(user, word)
      BY <2>1, <2>2, <2>3 DEF Before, Precedes
    <3> QED  BY <2>1, <2>3, <3>1 DEF AuthInv, AuthTypeOK, KeyInv, SearchInv
  <2>4. CASE ~wantKey
    <3>1. <<user, word>> \notin Candidates
      BY <2>1, <2>4 DEF AuthInv, KeyInv, Candidates
    <3>2. AuthTypeOK' /\ KeyInv'
      BY <1>t, <2>1, <2>4, RowEnds DEF AuthInv, AuthTypeOK, KeyInv
    <3>3. tried' = tried \union (Candidates \intersect {<<user, word>>})
      BY <2>1, <3>1
    <3>4. tried' \intersect accepts = {}
      BY <2>1 DEF AuthInv, SearchInv
    <3>5. ~(word < Key) /\ EndUser
      BY <2>1, <2>4, Pairs
    <3> QED  BY <2>1, <2>2, <3>2, <3>3, <3>4, <3>5, GoesOn
  <2> QED  BY <2>3, <2>4
<1>4. CASE LoadKey
  <2>1. /\ at = "key" /\ key = "unloaded" /\ wantKey /\ user = 1 /\ word = Key
        /\ UNCHANGED <<accepts, empty, outcome, tried>>
        /\ tried = Before(user, word) /\ outcome = "none" /\ tried \intersect accepts = {}
    BY <1>4 DEF LoadKey, AuthInv, KeyInv, SearchInv
  <2>2. CASE key' = "loaded" /\ UNCHANGED <<at, wantKey, user, word>>
    <3>1. Before(user, word)' = Before(user, word)
      <4>1. \A l \in Logins : Precedes(l, <<1, Key>>) => l[2] # Key
        BY Pairs DEF Precedes
      <4> QED  BY <2>1, <2>2, <4>1 DEF Before, Candidates, Precedes, Logins
    <3> QED  BY <2>1, <2>2, <3>1 DEF AuthInv, AuthTypeOK, KeyInv, SearchInv
  <2>3. CASE key' = "failed" /\ wantKey' = FALSE /\ EndUser
    <3>1. Candidates' = Candidates /\ <<user, word>> \notin Candidates
      BY <2>1, <2>3 DEF Candidates, Logins
    <3>2. AuthTypeOK' /\ KeyInv'
      BY <1>t, <2>1, <2>3, RowEnds DEF AuthInv, AuthTypeOK, KeyInv
    <3>3. tried' = tried \union (Candidates \intersect {<<user, word>>})
      BY <2>1, <3>1
    <3>4. ~(word < Key) /\ tried' \intersect accepts = {}
      BY <2>1, Pairs
    <3> QED  BY <2>1, <2>3, <3>1, <3>2, <3>3, <3>4, GoesOn
  <2> QED  BY <1>4, <2>2, <2>3 DEF LoadKey
<1>5. CASE TryKey
  <2>1. word = Key /\ key = "loaded" /\ Key \notin empty
    BY <1>5, Pairs DEF TryKey, AuthInv, KeyInv, AuthTypeOK
  <2>2. <<user, word>> \in Candidates
    BY <1>t, <2>1, Pairs DEF Candidates
  <2> QED  BY <1>5, <2>1, <2>2, Attempts DEF TryKey
<1>6. CASE Finish \/ UNCHANGED authVars
  <2>1. /\ at' \in {at, "done"} /\ (at' # at => at = "record")
        /\ UNCHANGED <<accepts, empty, wantKey, key, user, word, outcome, tried>>
    BY <1>6 DEF Finish, authVars
  <2>2. Before(user, word)' = Before(user, word) /\ Candidates' = Candidates
    BY <2>1 DEF Before, Candidates, Precedes, Logins
  <2> QED  BY <2>1, <2>2 DEF AuthInv, AuthTypeOK, KeyInv, SearchInv
<1> QED  BY <1>1, <1>2, <1>3, <1>4, <1>5, <1>6 DEF AuthNext

LEMMA AuthHolds == AuthSpec => []AuthInv
  BY AuthInitInv, AuthStepInv, PTL DEF AuthSpec

\* Every variable has its type: the loops stay within the two lists.
THEOREM AuthTypeCorrect == AuthSpec => []AuthTypeOK
<1>1. AuthInv => AuthTypeOK
  BY DEF AuthInv
<1> QED  BY <1>1, AuthHolds, PTL

\* RunnerBf: a host reported without a login has rejected every credential there was,
\* and one worked on accepts the first it could have.
THEOREM NothingIsLeftOut == AuthSpec => []SearchIsExhaustive
<1>1. AuthInv => SearchIsExhaustive
  BY DEF AuthInv, SearchInv, SearchIsExhaustive, Before
<1> QED  BY <1>1, AuthHolds, PTL

\* tryCredential: no login is offered twice, and none once the search is decided.
THEOREM NothingIsTriedTwice == AuthSpec => NoNeedlessAttempt
<1>1. AuthInv /\ [AuthNext]_authVars => [TryPassword \/ TryKey => outcome = "none" /\ tried' # tried]_authVars
  <2> SUFFICES ASSUME AuthInv, TryPassword \/ TryKey PROVE outcome = "none" /\ tried' # tried
      OBVIOUS
  <2>1. at \in {"password", "key"} /\ user \in 1 .. Users /\ word \in 1 .. Key
    BY DEF AuthInv, AuthTypeOK, TryPassword, TryKey
  <2>2. outcome = "none" /\ <<user, word>> \notin tried
    BY <2>1, NextPlace DEF AuthInv, SearchInv
  <2>3. <<user, word>> \in tried'
    BY <2>1 DEF TryPassword, TryKey, Attempt, AuthInv, KeyInv
  <2> QED  BY <2>2, <2>3
<1> QED  BY <1>1, AuthHolds, PTL DEF AuthSpec, NoNeedlessAttempt

-----------------------------------------------------------------------------
(* 2. The tree that is downloaded.                                         *)

\* The entries so far are in the tree, each file with its own content.
Placed(n) == \/ archive[n].kind = "dir" /\ archive[n].path \in dirs
             \/ archive[n].kind = "file" /\ file[archive[n].path] = n

\* Nothing is in the tree that no entry leads to.
Sent(p) == \E n \in DOMAIN archive : p \in Prefixes(archive[n].path)

\* Where a file is being written, its place was free; elsewhere nothing is unfinished.
WritingInv ==
    /\ stage \in {"content", "install"} => done < Len(archive) /\ Here.kind = "file"
    /\ stage = "content" /\ method = "tar" => file[Here.path] = done + 1 /\ partial = {Here.path}
    /\ stage \in {"content", "install"} /\ method = "sftp" => file[Here.path] = 0 /\ partial = {}
    /\ stage \in {"entry", "harden", "ok"} => partial = {} /\ temp = "absent"
    /\ stage = "install" => method = "sftp"
    /\ method = "tar" => temp = "absent"

TreeInv ==
    /\ TreeTypeOK
    /\ stage # "failed" => \A n \in 1 .. done : Placed(n)
    /\ \A p \in Paths : Exists(p) => Sent(p)
    /\ stage # "failed" => WritingInv
    /\ stage \in {"harden", "ok"} => done = Len(archive)
    /\ stage = "ok" /\ Checked => \A p, q \in Present : Folded(p) = Folded(q) => p = q

LEMMA PrefixesArePaths ==
    \A p \in Paths : p \in Prefixes(p) /\ Prefixes(p) \subseteq Paths /\ Parents(p) \subseteq Prefixes(p)
<1> SUFFICES ASSUME NEW p \in Paths
             PROVE  p \in Prefixes(p) /\ Prefixes(p) \subseteq Paths /\ Parents(p) \subseteq Prefixes(p)
    OBVIOUS
<1>1. p \in Seq(Names) /\ Len(p) \in Nat  BY PathsAssumption
<1>2. SubSeq(p, 1, Len(p)) = p /\ Len(p) \in 0 .. Len(p)  BY <1>1
<1>3. p \in Prefixes(p)  BY <1>2 DEF Prefixes
<1>4. Prefixes(p) \subseteq Paths  BY PathsAssumption DEF Prefixes
<1> QED  BY <1>3, <1>4 DEF Parents

LEMMA InitTree == TreeInit => TreeInv
<1> SUFFICES ASSUME TreeInit PROVE TreeInv
    OBVIOUS
<1> USE DEF TreeInit
<1>1. archive \in Seq([path : Paths, kind : Kinds])  BY ArchivesAssumption
<1>2. Len(archive) \in Nat  BY <1>1
<1>3. TreeTypeOK  BY <1>2 DEF TreeTypeOK
<1>4. WritingInv  BY DEF WritingInv
<1> QED  BY <1>3, <1>4 DEF TreeInv, Exists

\* The entry that is next.
LEMMA HereIsSent ==
    ASSUME TreeInv, done < Len(archive)
    PROVE  /\ archive \in Seq([path : Paths, kind : Kinds]) /\ Len(archive) \in Nat
           /\ done \in Nat /\ done + 1 \in DOMAIN archive /\ done + 1 \in 1 .. Len(archive)
           /\ Here \in [path : Paths, kind : Kinds] /\ Here.path \in Paths
           /\ Needed \subseteq Paths /\ Needed \subseteq Prefixes(Here.path)
           /\ Sent(Here.path) /\ \A p \in Needed : Sent(p)
<1> DEFINE Entries == [path : Paths, kind : Kinds]
<1>0. archive \in Seq(Entries) /\ done \in 0 .. Len(archive)
  BY ArchivesAssumption DEF TreeInv, TreeTypeOK
<1> HIDE DEF Entries
<1>1. archive \in Seq(Entries) /\ Len(archive) \in Nat /\ DOMAIN archive = 1 .. Len(archive)
  BY <1>0
<1>2. done \in Nat /\ done + 1 \in 1 .. Len(archive)  BY <1>0, <1>1
<1>8. Here \in Entries  BY <1>1, <1>2 DEF Here
<1>3. Here \in [path : Paths, kind : Kinds]  BY <1>8 DEF Entries
<1>4. Here.path \in Paths  BY <1>3
<1>5. Needed \subseteq Prefixes(Here.path)  BY <1>4, PrefixesArePaths DEF Needed
<1>6. Needed \subseteq Paths  BY <1>4, <1>5, PrefixesArePaths
<1>7. Sent(Here.path) /\ \A p \in Needed : Sent(p)
  BY <1>1, <1>2, <1>4, <1>5, PrefixesArePaths DEF Sent, Here
<1> QED  BY <1>1, <1>2, <1>3, <1>4, <1>5, <1>6, <1>7 DEF Entries

\* A file that is set down where none was disturbs no earlier one.
LEMMA EarlierStay ==
    ASSUME TreeInv, stage # "failed", done < Len(archive), file[Here.path] = 0,
           UNCHANGED archive, dirs \subseteq dirs',
           \A p \in Paths \ {Here.path} : file'[p] = file[p]
    PROVE  \A n \in 1 .. done : Placed(n)'
<1> SUFFICES ASSUME NEW n \in 1 .. done PROVE Placed(n)'
    OBVIOUS
<1>1. Placed(n)  BY DEF TreeInv
<1>2. n \in 1 .. Len(archive) /\ n # 0  BY HereIsSent
<1>3. archive[n] \in [path : Paths, kind : Kinds]
  <2> DEFINE Entries == [path : Paths, kind : Kinds]
  <2>1. archive \in Seq(Entries)  BY HereIsSent
  <2> HIDE DEF Entries
  <2>2. archive[n] \in Entries  BY <1>2, <2>1
  <2> QED  BY <2>2 DEF Entries
<1>4. CASE archive[n].kind = "dir" /\ archive[n].path \in dirs  BY <1>4 DEF Placed
<1>5. CASE archive[n].kind = "file" /\ file[archive[n].path] = n
  <2>1. archive[n].path \in Paths /\ archive[n].path # Here.path  BY <1>2, <1>3, <1>5
  <2> QED  BY <1>5, <2>1 DEF Placed
<1> QED  BY <1>1, <1>4, <1>5 DEF Placed

\* What all steps have in common: the next tree has the same entries to come, and each
\* thing in it is one of the last tree or led to by the next entry.
LEMMA Grows ==
    ASSUME TreeInv, UNCHANGED sent,
           done < Len(archive) \/ (dirs' = dirs /\ file' = file),
           \A p \in Paths : p \in dirs' => p \in dirs \/ (done < Len(archive) /\ p \in Needed),
           \A p \in Paths : file'[p] # 0 => file[p] # 0 \/ (done < Len(archive) /\ p = Here.path)
    PROVE  \A p \in Paths : Exists(p)' => Sent(p)'
<1> SUFFICES ASSUME NEW p \in Paths, Exists(p)' PROVE Sent(p)'
    OBVIOUS
<1>1. Exists(p) => Sent(p)  BY DEF TreeInv
<1>2. done < Len(archive) => Sent(Here.path) /\ \A q \in Needed : Sent(q)  BY HereIsSent
<1>3. Sent(p)  BY <1>1, <1>2 DEF Exists
<1> QED  BY <1>3 DEF Sent, sent

LEMMA StepTree ==
    ASSUME TreeInv, [TreeNext]_treeVars
    PROVE  TreeInv'
<1>0. TreeTypeOK  BY DEF TreeInv
<1>1. CASE UNCHANGED treeVars
  <2>1. UNCHANGED <<Here, Checked>>  BY <1>1 DEF Here, Checked, treeVars, sent
  <2> QED  BY <1>1, <2>1 DEF TreeInv, TreeTypeOK, WritingInv, Placed, Exists, Sent, Present, treeVars, sent
<1>2. ASSUME TreeTypeOK', stage' = "failed", UNCHANGED sent, dirs \subseteq dirs',
             done < Len(archive) \/ (dirs' = dirs /\ file' = file),
             \A p \in Paths : p \in dirs' => p \in dirs \/ (done < Len(archive) /\ p \in Needed),
             \A p \in Paths : file'[p] # 0 => file[p] # 0 \/ (done < Len(archive) /\ p = Here.path)
      PROVE  TreeInv'
  BY <1>2, Grows DEF TreeInv
<1>3. CASE RefuseEntry
  <2>1. stage' = "failed" /\ UNCHANGED <<sent, done, keys, dirs, file, partial, temp>>
    BY <1>3 DEF RefuseEntry, Fails
  <2>2. TreeTypeOK'  BY <1>0, <2>1 DEF TreeTypeOK, sent
  <2> QED  BY <1>2, <2>1, <2>2
<1>4. CASE Broken
  <2>1. stage' = "failed" /\ UNCHANGED <<sent, done, keys, dirs, file, partial, temp>>
    BY <1>4 DEF Broken, Fails
  <2>2. TreeTypeOK'  BY <1>0, <2>1 DEF TreeTypeOK, sent
  <2> QED  BY <1>2, <2>1, <2>2
<1>5. CASE EndOfArchive
  <2>1. stage = "entry" /\ done = Len(archive) /\ stage' \in {"harden", "ok", "failed"}
        /\ (stage' = "ok" => ~Checked)
        /\ UNCHANGED <<sent, done, keys, dirs, file, partial, temp>>
    BY <1>5 DEF EndOfArchive, Fails
  <2>2. TreeTypeOK'  BY <1>0, <2>1 DEF TreeTypeOK, sent
  <2>3. Checked' = Checked  BY <2>1 DEF Checked, sent
  <2> QED  BY <2>1, <2>2, <2>3 DEF TreeInv, WritingInv, Placed, Exists, Sent, sent
<1>6. CASE Harden
  <2>1. stage = "harden" /\ stage' \in {"ok", "failed"}
        /\ (stage' = "ok" => \A p, q \in Present : Folded(p) = Folded(q) => p = q)
        /\ UNCHANGED <<sent, done, keys, dirs, file, partial, temp>>
    BY <1>6 DEF Harden, Fails
  <2>2. TreeTypeOK'  BY <1>0, <2>1 DEF TreeTypeOK, sent
  <2>3. Present' = Present  BY <2>1 DEF Present, Exists
  <2> QED  BY <2>1, <2>2, <2>3 DEF TreeInv, WritingInv, Placed, Exists, Sent, sent
<1>7. CASE MakeDirectory
  <2>1. /\ stage = "entry" /\ done < Len(archive) /\ ~Refused /\ Here.kind = "dir"
        /\ dirs' = dirs \union Needed
        /\ \/ done' = done + 1 /\ stage' = "entry"
           \/ done' = done /\ stage' = "failed"
        /\ UNCHANGED <<sent, file, partial, temp>>
    BY <1>7 DEF MakeDirectory, Accept, Advance, Fails
  <2>2. Needed \subseteq Paths /\ Here.path \in Paths /\ Here.path \in Needed
        /\ done \in Nat /\ Len(archive) \in Nat
    BY <2>1, HereIsSent, PrefixesArePaths DEF Needed
  <2>3. TreeTypeOK'  BY <1>0, <2>1, <2>2 DEF TreeTypeOK, sent
  <2>4. \A p \in Paths : Exists(p)' => Sent(p)'  BY <2>1, Grows
  <2>5. CASE stage' = "failed"  BY <2>3, <2>4, <2>5 DEF TreeInv
  <2>6. CASE stage' = "entry"
    <3>1. \A n \in 1 .. done : Placed(n)'  BY <2>1 DEF TreeInv, Placed, sent
    <3>2. ASSUME NEW n, n = done + 1 PROVE Placed(n)'  BY <3>2, <2>1, <2>2 DEF Placed, Here, sent
    <3>3. \A n \in 1 .. done' : Placed(n)'  BY <2>1, <2>2, <2>6, <3>1, <3>2
    <3>4. WritingInv'  BY <2>1, <2>6 DEF TreeInv, WritingInv, sent
    <3> QED  BY <2>3, <2>4, <2>6, <3>3, <3>4 DEF TreeInv
  <2> QED  BY <2>1, <2>5, <2>6
<1>8. CASE CreateFile
  <2>1. /\ stage = "entry" /\ done < Len(archive) /\ ~Refused /\ Here.kind = "file"
        /\ dirs' = dirs \union Needed
        /\ UNCHANGED <<sent, done>>
    BY <1>8 DEF CreateFile, Accept
  <2>2. Needed \subseteq Paths /\ Here.path \in Paths /\ done \in Nat /\ Len(archive) \in Nat
        /\ file[Here.path] = 0
    BY <2>1, HereIsSent DEF Refused, Exists
  <2>3. UNCHANGED Here  BY <2>1 DEF Here, sent
  <2>4. CASE stage' = "failed" /\ UNCHANGED <<file, partial, temp>>
    <3>1. TreeTypeOK'  BY <1>0, <2>1, <2>2, <2>4 DEF TreeTypeOK, sent
    <3> QED  BY <1>2, <2>1, <2>4, <3>1
  <2>5. CASE /\ method = "tar" /\ stage' = "content" /\ UNCHANGED temp
             /\ file' = [file EXCEPT ![Here.path] = done + 1]
             /\ partial' = partial \union {Here.path}
    <3>1. TreeTypeOK'  BY <1>0, <2>1, <2>2, <2>5 DEF TreeTypeOK, sent
    <3>2. file'[Here.path] = done + 1 /\ \A p \in Paths \ {Here.path} : file'[p] = file[p]
      BY <1>0, <2>2, <2>5 DEF TreeTypeOK
    <3>3. \A n \in 1 .. done : Placed(n)'  BY <2>1, <2>2, <3>2, EarlierStay DEF sent
    <3>4. \A p \in Paths : Exists(p)' => Sent(p)'  BY <2>1, <3>2, Grows
    <3>5. WritingInv'  BY <2>1, <2>3, <2>5, <3>2 DEF TreeInv, WritingInv, sent
    <3> QED  BY <2>1, <2>5, <3>1, <3>3, <3>4, <3>5 DEF TreeInv
  <2>6. CASE /\ method = "sftp" /\ temp' = "partial" /\ stage' = "content"
             /\ UNCHANGED <<file, partial>>
    <3>1. TreeTypeOK'  BY <1>0, <2>1, <2>2, <2>6 DEF TreeTypeOK, sent
    <3>3. \A n \in 1 .. done : Placed(n)'  BY <2>1, <2>2, <2>6, EarlierStay DEF sent
    <3>4. \A p \in Paths : Exists(p)' => Sent(p)'  BY <2>1, <2>6, Grows
    <3>5. WritingInv'  BY <2>1, <2>2, <2>3, <2>6 DEF TreeInv, WritingInv, sent
    <3> QED  BY <2>1, <2>6, <3>1, <3>3, <3>4, <3>5 DEF TreeInv
  <2> QED  BY <1>8, <2>4, <2>5, <2>6 DEF CreateFile, Fails
<1>9. CASE TarContent
  <2>1. /\ stage = "content" /\ method = "tar" /\ UNCHANGED <<sent, keys, dirs, temp>>
        /\ done < Len(archive) /\ Here.kind = "file"
        /\ file[Here.path] = done + 1 /\ partial = {Here.path} /\ temp = "absent"
    BY <1>9 DEF TarContent, TreeInv, WritingInv
  <2>2. Here.path \in Paths /\ done \in Nat /\ Len(archive) \in Nat  BY <2>1, HereIsSent
  <2>3. CASE /\ partial' = partial \ {Here.path} /\ UNCHANGED file
             /\ done' = done + 1 /\ stage' = "entry"
    <3>1. TreeTypeOK'  BY <1>0, <2>1, <2>2, <2>3 DEF TreeTypeOK, sent
    <3>2. \A n \in 1 .. done : Placed(n)'  BY <2>1, <2>3 DEF TreeInv, Placed, sent
    <3>3. ASSUME NEW n, n = done + 1 PROVE Placed(n)'  BY <3>3, <2>1, <2>3 DEF Placed, Here, sent
    <3>4. \A n \in 1 .. done' : Placed(n)'  BY <2>2, <2>3, <3>2, <3>3
    <3>5. WritingInv'  BY <2>1, <2>3 DEF WritingInv, sent
    <3>6. \A p \in Paths : Exists(p)' => Sent(p)'  BY <2>1, <2>3, Grows
    <3> QED  BY <2>3, <3>1, <3>4, <3>5, <3>6 DEF TreeInv
  <2>4. CASE /\ stage' = "failed" /\ UNCHANGED done
             /\ \/ UNCHANGED <<file, partial>>
                \/ /\ file' = [file EXCEPT ![Here.path] = 0]
                   /\ partial' = partial \ {Here.path}
    <3>1. TreeTypeOK'  BY <1>0, <2>1, <2>2, <2>4 DEF TreeTypeOK, sent
    <3>2. \A p \in Paths : file'[p] # 0 => file[p] # 0  BY <1>0, <2>2, <2>4 DEF TreeTypeOK
    <3> QED  BY <1>2, <2>1, <2>4, <3>1, <3>2
  <2> QED  BY <1>9, <2>3, <2>4 DEF TarContent, Advance, Fails
<1>10. CASE SftpContent
  <2>1. /\ stage = "content" /\ method = "sftp"
        /\ UNCHANGED <<sent, done, keys, dirs, file, partial>>
        /\ \/ temp' = "complete" /\ stage' = "install"
           \/ temp' \in {temp, "absent"} /\ stage' = "failed"
    BY <1>10 DEF SftpContent, Fails
  <2>2. UNCHANGED Here  BY <2>1 DEF Here, sent
  <2>3. TreeTypeOK'  BY <1>0, <2>1 DEF TreeTypeOK, sent
  <2>4. \A p \in Paths : Exists(p)' => Sent(p)'  BY <2>1, Grows
  <2>5. WritingInv /\ stage' # "failed" => WritingInv'  BY <2>1, <2>2 DEF WritingInv, sent
  <2>6. \A n \in 1 .. done : Placed(n)' = Placed(n)  BY <2>1 DEF Placed, sent
  <2> QED  BY <2>1, <2>3, <2>4, <2>5, <2>6 DEF TreeInv
<1>11. CASE Install
  <2>1. /\ stage = "install" /\ method = "sftp" /\ UNCHANGED <<sent, keys, dirs, partial>>
        /\ done < Len(archive) /\ Here.kind = "file"
        /\ file[Here.path] = 0 /\ partial = {}
    BY <1>11 DEF Install, TreeInv, WritingInv
  <2>2. Here.path \in Paths /\ done \in Nat /\ Len(archive) \in Nat  BY <2>1, HereIsSent
  <2>3. CASE /\ file' = [file EXCEPT ![Here.path] = done + 1]
             /\ temp' = "absent" /\ done' = done + 1 /\ stage' = "entry"
    <3>1. TreeTypeOK'  BY <1>0, <2>1, <2>2, <2>3 DEF TreeTypeOK, sent
    <3>2. file'[Here.path] = done + 1 /\ \A p \in Paths \ {Here.path} : file'[p] = file[p]
      BY <1>0, <2>2, <2>3 DEF TreeTypeOK
    <3>3. \A n \in 1 .. done : Placed(n)'  BY <2>1, <3>2, EarlierStay DEF sent
    <3>4. ASSUME NEW n, n = done + 1 PROVE Placed(n)'  BY <3>4, <2>1, <3>2 DEF Placed, Here, sent
    <3>5. \A n \in 1 .. done' : Placed(n)'  BY <2>2, <2>3, <3>3, <3>4
    <3>6. \A p \in Paths : Exists(p)' => Sent(p)'  BY <2>1, <3>2, Grows
    <3>7. WritingInv'  BY <2>1, <2>3 DEF WritingInv, sent
    <3> QED  BY <2>3, <3>1, <3>5, <3>6, <3>7 DEF TreeInv
  <2>4. CASE /\ file' = [file EXCEPT ![Here.path] = done + 1] \/ UNCHANGED file
             /\ temp' \in {temp, "absent"} /\ stage' = "failed" /\ UNCHANGED done
    <3>1. TreeTypeOK'  BY <1>0, <2>1, <2>2, <2>4 DEF TreeTypeOK, sent
    <3>2. \A p \in Paths : file'[p] # 0 => file[p] # 0 \/ p = Here.path
      BY <1>0, <2>2, <2>4 DEF TreeTypeOK
    <3> QED  BY <1>2, <2>1, <2>4, <3>1, <3>2
  <2> QED  BY <1>11, <2>3, <2>4 DEF Install, Advance, Fails
<1> QED  BY <1>1, <1>3, <1>4, <1>5, <1>6, <1>7, <1>8, <1>9, <1>10, <1>11 DEF TreeNext

\* For any names, any rule of folding them and any archive: a tree that a method reports
\* as downloaded is what the host sent, complete, each file with its own entry's content
\* and no directory without one; and no two of its names fold to one, unless SFTP brought
\* it after tar had failed.
THEOREM TreesAreExact == TreeSpec => []TreeIsExact
<1>1. TreeInv => TreeIsExact
  <2> SUFFICES ASSUME TreeInv, stage = "ok" PROVE TreeIsExact
      BY DEF TreeIsExact
  <2>1. DOMAIN archive = 1 .. done
    BY ArchivesAssumption DEF TreeInv, TreeTypeOK
  <2>2. \A n \in DOMAIN archive : Placed(n)  BY <2>1 DEF TreeInv
  <2> QED  BY <2>2 DEF TreeInv, WritingInv, Placed, Sent, TreeIsExact
<1> QED  BY <1>1, InitTree, StepTree, PTL DEF TreeSpec

\* Every variable of Extraction keeps its type: the loops of extractTarReader and
\* downloadSFTPNode stay within the archive, and every file is one of its entries'.
THEOREM TreeTypeCorrect == TreeSpec => []TreeTypeOK
BY InitTree, StepTree, PTL DEF TreeSpec, TreeInv

-----------------------------------------------------------------------------
(* 3. The addresses that are asked for.                                    *)

\* Every set of numbers has a least one, and with a bound a greatest.
Less == {p \in Nat \X Nat : p[1] < p[2]}

LEMMA LeastNumber ==
    ASSUME NEW T \in SUBSET Nat, T # {}
    PROVE  \E m \in T : \A n \in T : m <= n
<1>1. IsWellFoundedOn(Less, Nat)  BY NatLessThanWellFounded DEF Less, OpToRel
<1>2. PICK m \in T : \A n \in T : ~(<<n, m>> \in Less)  BY <1>1, WFMin
<1>3. ASSUME NEW n \in T PROVE m <= n
  <2>1. n \in Nat /\ m \in Nat  OBVIOUS
  <2>2. ~(n < m)  BY <2>1, <1>2 DEF Less
  <2> QED  BY <2>1, <2>2
<1> QED  BY <1>3

LEMMA GreatestNumber ==
    ASSUME NEW b \in Nat, NEW T \in SUBSET (0 .. b), T # {}
    PROVE  \E m \in T : \A n \in T : n <= m
<1> DEFINE D == {k \in 0 .. b : b - k \in T}
<1>1. PICK t \in T : t \in 0 .. b  OBVIOUS
<1>2. b - t \in D
  <2>1. b - t \in 0 .. b /\ b - (b - t) = t  BY <1>1
  <2> QED  BY <1>1, <2>1
<1>3. D \in SUBSET Nat /\ D # {}  BY <1>2
<1>4. PICK k \in D : \A j \in D : k <= j  BY <1>3, LeastNumber
<1>5. k \in 0 .. b /\ b - k \in T  BY <1>4
<1>6. ASSUME NEW n \in T PROVE n <= b - k
  <2>1. n \in 0 .. b /\ b - n \in 0 .. b /\ b - (b - n) = n  OBVIOUS
  <2>2. b - n \in D  BY <2>1
  <2>3. k <= b - n  BY <1>4, <2>2
  <2> QED  BY <1>5, <2>1, <2>3
<1> QED  BY <1>5, <1>6

\* The two families.
LEMMA Families ==
    /\ Border \in Nat /\ Sixes \in Nat /\ Octets \in Nat \ {0}
    /\ \A x : x \in V4 <=> x \in Nat /\ x < Border
    /\ \A x : x \in V6 <=> x \in Nat /\ Border <= x /\ x < Border + Sixes
    /\ \A x \in Address : x \in Nat /\ x < Border + Sixes
    /\ IsFiniteSet(Address)
<1>1. Border \in Nat /\ Sixes \in Nat /\ Octets \in Nat \ {0}  BY TargetsAssumption DEF Border
<1>2. \A x : x \in V4 <=> x \in Nat /\ x < Border  BY <1>1 DEF V4
<1>3. \A x : x \in V6 <=> x \in Nat /\ Border <= x /\ x < Border + Sixes  BY <1>1 DEF V6
<1>4. \A x \in Address : x \in Nat /\ x < Border + Sixes  BY <1>1, <1>2, <1>3 DEF Address
<1>5. IsFiniteSet(Address)
  <2>1. Border + Sixes \in Nat /\ Address \in SUBSET Nat /\ \A x \in Address : x <= Border + Sixes
    BY <1>1, <1>4
  <2> QED  BY <2>1, FS_BoundedSetOfNaturals
<1> QED  BY <1>1, <1>2, <1>3, <1>4, <1>5

\* What a run is.
LEMMA RunIs ==
    ASSUME NEW b \in SUBSET Address, NEW r \in Runs(b)
    PROVE  /\ r = <<r[1], r[2]>> /\ r \in Address \X Address
           /\ r[1] \in b /\ r[2] \in b /\ r[1] \in Nat /\ r[2] \in Nat /\ r[1] <= r[2]
           /\ \A x \in Nat : r[1] <= x /\ x <= r[2] => x \in b
           /\ r[2] < Border \/ Border <= r[1]
           /\ r[1] - 1 \in b => r[1] = 0 \/ r[1] = Border
           /\ r[2] + 1 \in b => r[2] + 1 = Border
<1>1. /\ r \in b \X b /\ r[1] <= r[2] /\ Interval(r) \subseteq b
      /\ Interval(r) \subseteq V4 \/ Interval(r) \subseteq V6
      /\ r[1] - 1 \notin b \/ r[1] \in {0, Border}
      /\ r[2] + 1 \notin b \/ r[2] + 1 = Border
  BY DEF Runs
<1>2. r = <<r[1], r[2]>> /\ r[1] \in b /\ r[2] \in b  BY <1>1
<1>3. r[1] \in Nat /\ r[2] \in Nat  BY <1>2, Families
<1>4. \A x \in Nat : r[1] <= x /\ x <= r[2] => x \in Interval(r)  BY <1>3 DEF Interval
<1>5. r[1] \in Interval(r) /\ r[2] \in Interval(r)  BY <1>1, <1>3, <1>4
<1>6. r[2] < Border \/ Border <= r[1]  BY <1>1, <1>5, Families
<1> QED  BY <1>1, <1>2, <1>3, <1>4, <1>6

\* Two runs do not meet.
LEMMA RunsAreApart ==
    ASSUME NEW b \in SUBSET Address, NEW r \in Runs(b), NEW q \in Runs(b), r # q, r[1] <= q[1]
    PROVE  r[2] < q[1]
<1>1. /\ r = <<r[1], r[2]>> /\ r[1] \in Nat /\ r[2] \in Nat /\ r[1] <= r[2]
      /\ \A x \in Nat : r[1] <= x /\ x <= r[2] => x \in b
      /\ r[2] < Border \/ Border <= r[1]
      /\ r[2] + 1 \in b => r[2] + 1 = Border
  BY RunIs
<1>2. /\ q = <<q[1], q[2]>> /\ q[1] \in Nat /\ q[2] \in Nat /\ q[1] <= q[2]
      /\ \A x \in Nat : q[1] <= x /\ x <= q[2] => x \in b
      /\ q[2] < Border \/ Border <= q[1]
      /\ q[1] - 1 \in b => q[1] = 0 \/ q[1] = Border
      /\ q[2] + 1 \in b => q[2] + 1 = Border
  BY RunIs
<1>3. Border \in Nat  BY Families
<1> SUFFICES ASSUME q[1] <= r[2] PROVE FALSE
    BY <1>1, <1>2
<1>4. CASE r[1] < q[1]
  <2>1. q[1] - 1 \in Nat /\ q[1] - 1 \in b  BY <1>1, <1>2, <1>4
  <2>2. q[1] = Border  BY <1>1, <1>2, <1>4, <2>1
  <2> QED  BY <1>1, <1>2, <1>3, <1>4, <2>2
<1>5. CASE r[1] = q[1]
  <2>1. CASE r[2] < q[2]
    <3>1. r[2] + 1 = Border  BY <1>1, <1>2, <1>5, <2>1
    <3> QED  BY <1>1, <1>2, <1>3, <1>5, <2>1, <3>1
  <2>2. CASE q[2] < r[2]
    <3>1. q[2] + 1 = Border  BY <1>1, <1>2, <1>5, <2>2
    <3> QED  BY <1>1, <1>2, <1>3, <1>5, <2>2, <3>1
  <2>3. r[2] # q[2]  BY <1>1, <1>2, <1>5
  <2> QED  BY <1>1, <1>2, <2>1, <2>2, <2>3
<1> QED  BY <1>1, <1>2, <1>4, <1>5

\* Every address of a set is in one of its runs.
LEMMA RunsCover ==
    ASSUME NEW b \in SUBSET Address, NEW x \in b
    PROVE  \E r \in Runs(b) : x \in Interval(r)
<1>1. x \in Nat /\ Border \in Nat /\ Sixes \in Nat /\ (x \in V4 \/ x \in V6)
  BY Families DEF Address
<1>2. PICK lo \in Nat, hi \in Nat :
         /\ lo <= x /\ x <= hi
         /\ \/ lo = 0 /\ hi = Border - 1 /\ V4 = lo .. hi
            \/ lo = Border /\ hi = Border + Sixes - 1 /\ V6 = lo .. hi
  <2>1. CASE x \in V4
    <3>1. x < Border /\ 0 \in Nat /\ Border - 1 \in Nat /\ x <= Border - 1  BY <1>1, <2>1, Families
    <3> QED  BY <1>1, <3>1 DEF V4
  <2>2. CASE x \in V6
    <3>1. Border <= x /\ Border + Sixes - 1 \in Nat /\ x <= Border + Sixes - 1
      BY <1>1, <2>2, Families
    <3> QED  BY <1>1, <3>1 DEF V6
  <2> QED  BY <1>1, <2>1, <2>2
<1> DEFINE Low == {p \in lo .. x : p .. x \subseteq b}
           High == {p \in x .. hi : x .. p \subseteq b}
<1>3. x \in Low /\ x \in High  BY <1>1, <1>2
<1>4. PICK p \in Low : \A n \in Low : p <= n
  <2>1. Low \in SUBSET Nat /\ Low # {}  BY <1>2, <1>3
  <2> QED  BY <2>1, LeastNumber
<1>5. PICK q \in High : \A n \in High : n <= q
  <2>1. High \in SUBSET (0 .. hi) /\ High # {}  BY <1>1, <1>2, <1>3
  <2> QED  BY <1>2, <2>1, GreatestNumber
<1>6. /\ p \in Nat /\ q \in Nat /\ lo <= p /\ p <= x /\ x <= q /\ q <= hi
      /\ p .. x \subseteq b /\ x .. q \subseteq b
  BY <1>1, <1>2, <1>4, <1>5
<1>7. p .. q \subseteq b
  <2>1. \A n \in p .. q : n \in p .. x \/ n \in x .. q  BY <1>1, <1>6
  <2> QED  BY <1>6, <2>1
<1>8. p .. q \subseteq V4 \/ p .. q \subseteq V6
  <2>1. p .. q \subseteq lo .. hi  BY <1>2, <1>6
  <2> QED  BY <1>2, <2>1
<1>9. p - 1 \in b => p \in {0, Border}
  <2> SUFFICES ASSUME p - 1 \in b, p # lo PROVE FALSE
      BY <1>2
  <2>1. p - 1 \in lo .. x  BY <1>1, <1>2, <1>6
  <2>2. \A n \in p - 1 .. x : n = p - 1 \/ n \in p .. x  BY <1>1, <1>6
  <2>3. p - 1 .. x \subseteq b  BY <1>6, <2>2
  <2>4. p - 1 \in Low  BY <2>1, <2>3
  <2> QED  BY <1>4, <1>6, <2>4
<1>10. q + 1 \in b => q + 1 = Border
  <2> SUFFICES ASSUME q + 1 \in b, q + 1 # Border PROVE FALSE
      OBVIOUS
  <2>1. q # hi
    <3>1. q + 1 < Border + Sixes  BY Families
    <3> QED  BY <1>1, <1>2, <3>1
  <2>2. q + 1 \in x .. hi  BY <1>1, <1>2, <1>6, <2>1
  <2>3. \A n \in x .. q + 1 : n = q + 1 \/ n \in x .. q  BY <1>1, <1>6
  <2>4. x .. q + 1 \subseteq b  BY <1>6, <2>3
  <2>5. q + 1 \in High  BY <2>2, <2>4
  <2> QED  BY <1>5, <1>6, <2>5
<1> DEFINE r == <<p, q>>
<1>11. p \in b /\ q \in b /\ p <= q  BY <1>1, <1>6
<1>12. r \in b \X b /\ r[1] = p /\ r[2] = q  BY <1>11
<1>13. r \in Runs(b)  BY <1>7, <1>8, <1>9, <1>10, <1>11, <1>12 DEF Runs, Interval
<1>14. x \in Interval(r)  BY <1>1, <1>6, <1>12 DEF Interval
<1> QED  BY <1>13, <1>14

\* Among runs there is a lowest, which comes before the others.
LEMMA LowestRun ==
    ASSUME NEW b \in SUBSET Address, NEW rs \in SUBSET Runs(b), rs # {}
    PROVE  /\ Lowest(rs) \in rs
           /\ \A q \in rs \ {Lowest(rs)} : Lowest(rs)[2] < q[1]
<1> DEFINE T == {r[1] : r \in rs}
<1>1. T \in SUBSET Nat /\ T # {}  BY RunIs
<1>2. PICK m \in T : \A n \in T : m <= n  BY <1>1, LeastNumber
<1>3. \E r \in rs : \A q \in rs : r[1] <= q[1]  BY <1>2
<1>4. Lowest(rs) \in rs /\ \A q \in rs : Lowest(rs)[1] <= q[1]  BY <1>3 DEF Lowest
<1> QED  BY <1>4, RunsAreApart

\* What the runs that are left have not covered yet, when the lower ones are taken first.
Left(rs) == rs \subseteq Runs(builder) /\ \A q \in Runs(builder) \ rs, r \in rs : q[1] < r[1]
Covered(rs) == {x \in builder : \A r \in rs : x < r[1]}

LEMMA NextRun ==
    ASSUME builder \in SUBSET Address, NEW rs, Left(rs), rs # {}, NEW r, r = Lowest(rs)
    PROVE  /\ r \in rs /\ r \in Runs(builder) /\ Left(rs \ {r})
           /\ r \in Address \X Address /\ r[1] \in Nat /\ r[2] \in Nat /\ r[1] <= r[2]
           /\ \A x \in Nat : r[1] <= x /\ x <= r[2] => x \in builder
           /\ Covered(rs) = {x \in builder : x < r[1]}
           /\ Covered(rs \ {r}) = {x \in builder : x <= r[2]}
<1>1. rs \in SUBSET Runs(builder)  BY DEF Left
<1>2. r \in rs /\ r \in Runs(builder) /\ \A q \in rs \ {r} : r[2] < q[1]  BY <1>1, LowestRun
<1>3. /\ r \in Address \X Address /\ r[1] \in Nat /\ r[2] \in Nat /\ r[1] <= r[2]
      /\ \A x \in Nat : r[1] <= x /\ x <= r[2] => x \in builder
  BY <1>2, RunIs
<1>4. \A q \in Runs(builder) : q[1] \in Nat /\ q[2] \in Nat /\ q[1] <= q[2]  BY RunIs
<1>5. \A x \in builder : x \in Nat  BY Families
<1>6. Left(rs \ {r})
  BY <1>1, <1>2, <1>3, <1>4 DEF Left
<1>7. Covered(rs) = {x \in builder : x < r[1]}
  BY <1>1, <1>2, <1>3, <1>4, <1>5 DEF Covered
<1>8. ASSUME NEW x \in builder, \A q \in rs \ {r} : x < q[1] PROVE x <= r[2]
  <2> SUFFICES ASSUME r[2] < x PROVE FALSE
      BY <1>3, <1>5
  <2>1. PICK q \in Runs(builder) : x \in Interval(q)  BY RunsCover
  <2>2. q[1] <= x /\ x <= q[2]  BY <1>4, <1>5, <2>1 DEF Interval
  <2>3. q # r  BY <1>3, <1>5, <2>2
  <2>4. q \notin rs  BY <1>4, <1>5, <1>8, <2>2, <2>3
  <2>5. q[1] < r[1]  BY <1>2, <2>4 DEF Left
  <2>6. q[2] < r[1]  BY <1>2, <1>3, <1>4, <2>3, <2>5, RunsAreApart
  <2> QED  BY <1>3, <1>4, <1>5, <2>2, <2>6
<1>9. Covered(rs \ {r}) = {x \in builder : x <= r[2]}
  <2>1. \A x \in builder : x <= r[2] => \A q \in rs \ {r} : x < q[1]
    BY <1>1, <1>2, <1>3, <1>4, <1>5
  <2> QED  BY <1>8, <2>1 DEF Covered
<1> QED  BY <1>2, <1>3, <1>6, <1>7, <1>9

\* Before the first run, and after the last one.
LEMMA AllRuns ==
    ASSUME builder \in SUBSET Address
    PROVE  /\ Left(Runs(builder)) /\ Covered(Runs(builder)) = {} /\ Covered({}) = builder
           /\ Runs(builder) \subseteq Address \X Address
<1>1. Left(Runs(builder)) /\ Covered({}) = builder  BY DEF Left, Covered
<1>2. ASSUME NEW x \in builder PROVE \E r \in Runs(builder) : ~(x < r[1])
  <2>1. PICK r \in Runs(builder) : x \in Interval(r)  BY RunsCover
  <2>2. r[1] \in Nat /\ r[2] \in Nat /\ x \in Nat  BY RunIs, Families
  <2> QED  BY <2>1, <2>2 DEF Interval
<1>3. Covered(Runs(builder)) = {}  BY <1>2 DEF Covered
<1>4. Runs(builder) \subseteq Address \X Address  BY RunIs
<1> QED  BY <1>1, <1>3, <1>4

\* The addresses of a token, and how many there are of the forms that are counted alone.
LEMMA TokenMeans ==
    ASSUME NEW t \in Tokens
    PROVE  /\ Meaning(t) \subseteq Address
           /\ ~Invalid(t) /\ Expanded(t) > 0 => Cardinality(Meaning(t)) = Expanded(t)
<1>0. /\ Border \in Nat /\ Sixes \in Nat /\ Octets \in Nat \ {0} /\ Border = Octets * Octets
      /\ \A x \in Nat : x < Border + Sixes => x \in Address
      /\ \A x \in Address : x \in Nat /\ x < Border + Sixes
  BY Families DEF Address, Border
<1>1. CASE t.form = "octets"
  <2>1. t.high \subseteq 0 .. Octets - 1 /\ t.low \subseteq 0 .. Octets - 1
    BY <1>1, TokensAssumption
  <2>2. Meaning(t) = OctetLoops(t) /\ Expanded(t) = Cardinality(t.high) * Cardinality(t.low)
    BY <1>1 DEF Meaning, Expanded
  <2>3. ASSUME NEW a \in 0 .. Octets - 1, NEW c \in 0 .. Octets - 1
        PROVE  a * Octets + c \in Nat /\ a * Octets + c < Border
    <3>1. a * Octets <= (Octets - 1) * Octets  BY <1>0
    <3>2. (Octets - 1) * Octets = Octets * Octets - Octets  BY <1>0
    <3>3. a * Octets \in Nat  BY <1>0
    <3> QED  BY <1>0, <3>1, <3>2, <3>3
  <2>4. OctetLoops(t) \subseteq Address  BY <1>0, <2>1, <2>3 DEF OctetLoops
  <2>5. IsFiniteSet(t.high) /\ IsFiniteSet(t.low)
    <3>1. IsFiniteSet(0 .. Octets - 1)  BY <1>0, FS_Interval
    <3> QED  BY <2>1, <3>1, FS_Subset
  <2> DEFINE f == [p \in t.high \X t.low |-> p[1] * Octets + p[2]]
  <2>6. f \in Injection(t.high \X t.low, OctetLoops(t))
    <3>1. f \in [t.high \X t.low -> OctetLoops(t)]  BY DEF OctetLoops
    <3>2. ASSUME NEW p \in t.high \X t.low, NEW q \in t.high \X t.low, f[p] = f[q] PROVE p = q
      <4>1. p = <<p[1], p[2]>> /\ q = <<q[1], q[2]>>  OBVIOUS
      <4>2. /\ p[1] \in 0 .. Octets - 1 /\ p[2] \in 0 .. Octets - 1
            /\ q[1] \in 0 .. Octets - 1 /\ q[2] \in 0 .. Octets - 1
        BY <2>1
      <4>3. p[1] * Octets + p[2] = q[1] * Octets + q[2]  BY <3>2
      <4>4. \A a, c, d, e \in 0 .. Octets - 1 :
               a * Octets + c = d * Octets + e => a = d /\ c = e
        <5> SUFFICES ASSUME NEW a \in 0 .. Octets - 1, NEW c \in 0 .. Octets - 1,
                            NEW d \in 0 .. Octets - 1, NEW e \in 0 .. Octets - 1,
                            a * Octets + c = d * Octets + e
                     PROVE  a = d /\ c = e
            OBVIOUS
        <5>1. (a - d) * Octets = e - c  BY <1>0
        <5>2. a - d < 1 /\ d - a < 1
          <6>1. a - d >= 1 => (a - d) * Octets >= Octets  BY <1>0
          <6>2. d - a >= 1 => (d - a) * Octets >= Octets  BY <1>0
          <6>3. (d - a) * Octets = c - e  BY <1>0
          <6> QED  BY <1>0, <5>1, <6>1, <6>2, <6>3
        <5>3. a = d  BY <1>0, <5>2
        <5> QED  BY <1>0, <5>1, <5>3
      <4> QED  BY <4>1, <4>2, <4>3, <4>4
    <3> QED  BY <3>1, <3>2 DEF Injection, IsInjective
  <2>7. f \in Surjection(t.high \X t.low, OctetLoops(t))
    <3>1. f \in [t.high \X t.low -> OctetLoops(t)]  BY DEF OctetLoops
    <3>2. ASSUME NEW x \in OctetLoops(t) PROVE \E p \in t.high \X t.low : f[p] = x
      <4>1. PICK a \in t.high, c \in t.low : x = a * Octets + c  BY DEF OctetLoops
      <4>2. <<a, c>> \in t.high \X t.low /\ f[<<a, c>>] = x  BY <4>1
      <4> QED  BY <4>2
    <3> QED  BY <3>1, <3>2 DEF Surjection
  <2>8. Cardinality(OctetLoops(t)) = Cardinality(t.high) * Cardinality(t.low)
    <3>1. IsFiniteSet(t.high \X t.low)
          /\ Cardinality(t.high \X t.low) = Cardinality(t.high) * Cardinality(t.low)
      BY <2>5, FS_Product
    <3>2. ExistsBijection(t.high \X t.low, OctetLoops(t))
      BY <2>6, <2>7 DEF ExistsBijection, Bijection
    <3> QED  BY <3>1, <3>2, FS_Bijection
  <2> QED  BY <2>2, <2>4, <2>8
<1>2. CASE t.form \in {"one", "range", "prefix"}
  <2>1. t.first \in Address /\ t.last \in Address /\ Meaning(t) = t.first .. t.last
    BY <1>2, TokensAssumption DEF Meaning
  <2>2. t.first .. t.last \subseteq Address  BY <1>0, <2>1
  <2>3. ASSUME ~Invalid(t), Expanded(t) > 0 PROVE Cardinality(t.first .. t.last) = Expanded(t)
    <3>1. t.form = "range" /\ Expanded(t) = t.last - t.first + 1
      BY <1>2, <2>3 DEF Expanded
    <3>2. t.first <= t.last  BY <1>0, <2>1, <2>3, <3>1 DEF Invalid
    <3>3. t.first \in Int /\ t.last \in Int /\ ~(t.first > t.last)  BY <1>0, <2>1, <3>2
    <3>4. Cardinality(t.first .. t.last) = t.last - t.first + 1  BY <3>3, FS_Interval
    <3> QED  BY <3>1, <3>4
  <2> QED  BY <2>1, <2>2, <2>3
<1>3. CASE t.form \in {"name", "bad"}
  BY <1>3, TokensAssumption DEF Meaning, Expanded
<1> QED  BY <1>1, <1>2, <1>3, TokensAssumption

LEMMA ExpandedType == \A t \in Tokens : Expanded(t) \in Int
<1> SUFFICES ASSUME NEW t \in Tokens PROVE Expanded(t) \in Int
    OBVIOUS
<1>1. CASE t.form = "octets"
  <2>1. t.high \subseteq 0 .. Octets - 1 /\ t.low \subseteq 0 .. Octets - 1
    BY <1>1, TokensAssumption
  <2>2. IsFiniteSet(0 .. Octets - 1)
    <3>1. 0 \in Int /\ Octets - 1 \in Int  BY TargetsAssumption
    <3> QED  BY <3>1, FS_Interval
  <2>3. Cardinality(t.high) \in Nat /\ Cardinality(t.low) \in Nat
    BY <2>1, <2>2, FS_Subset, FS_CardinalityType
  <2>4. \A h, l \in Nat : h * l \in Int  OBVIOUS
  <2>5. Cardinality(t.high) * Cardinality(t.low) \in Int  BY <2>3, <2>4
  <2> QED  BY <1>1, <2>5 DEF Expanded
<1>2. CASE t.form = "range"
  <2>1. t.first \in Address /\ t.last \in Address  BY <1>2, TokensAssumption
  <2>2. t.last - t.first + 1 \in Int  BY <2>1, Families
  <2> QED  BY <1>2, <2>2 DEF Expanded
<1>3. CASE t.form \notin {"octets", "range"}  BY <1>3 DEF Expanded
<1> QED  BY <1>1, <1>2, <1>3

\* While the tokens are read, what is in the set and what is left mean what is asked for,
\* and the tokens that are gone were good. An answer has its reason.
Means(q) == UNION {Meaning(q[n]) : n \in DOMAIN q}

ReadInv ==
    /\ answer = "reading" => /\ builder \union Means(todo) = Requested
                             /\ Range(todo) \subseteq Range(given)
                             /\ \A x \in Range(given) : x \in Range(todo) \/ ~Invalid(x)
    /\ answer \in {"counting", "writing", "ok"} =>
         builder = Requested /\ \A x \in Range(given) : ~Invalid(x)
    /\ answer = "invalid" => \E x \in Range(given) : Invalid(x)
    /\ answer = "too_many" => Cardinality(Requested) > limit

\* What is counted, and what is written out: the addresses before the cursor, or before
\* the ranges that are left.
CountInv ==
    /\ answer = "reading" => total = 0
    /\ answer = "counting" => Left(ranges) /\ total = Cardinality(Covered(ranges))
    /\ answer \in {"reading", "counting"} => cursor = Nowhere /\ list = <<>> /\ strings = <<>>
    /\ answer \in {"writing", "ok"} => Cardinality(builder) <= limit

Written == IF cursor = Nowhere THEN Covered(ranges) ELSE {x \in builder : x < cursor}
Shown == IF cursor = Nowhere THEN Covered(ranges) ELSE Covered(ranges \ {Lowest(ranges)})

WriteInv == answer \in {"writing", "ok"} =>
    /\ Left(ranges)
    /\ cursor # Nowhere => /\ ranges # {}
                           /\ Lowest(ranges)[1] <= cursor /\ cursor <= Lowest(ranges)[2]
    /\ Range(list) = Written /\ Len(list) = Cardinality(Written)
    /\ \A m, n \in DOMAIN list : m < n => list[m] < list[n]
    /\ UNION {Interval(strings[n]) : n \in DOMAIN strings} = Shown
    /\ answer = "ok" => ranges = {} /\ cursor = Nowhere

TargetsInv == TargetsTypeOK /\ ReadInv /\ CountInv /\ WriteInv

\* What the sequence of tokens loses when its head is taken.
LEMMA FirstToken ==
    ASSUME NEW q \in Seq(Tokens), q # <<>>
    PROVE  /\ Head(q) \in Tokens /\ Tail(q) \in Seq(Tokens)
           /\ Range(q) = {Head(q)} \union Range(Tail(q))
           /\ Means(q) = Meaning(Head(q)) \union Means(Tail(q))
<1>1. /\ Head(q) \in Tokens /\ Tail(q) \in Seq(Tokens) /\ Len(Tail(q)) = Len(q) - 1
      /\ \A i \in 1 .. Len(Tail(q)) : Tail(q)[i] = q[i + 1]
  BY HeadTailProperties
<1>2. /\ Len(q) \in Nat \ {0} /\ DOMAIN q = 1 .. Len(q) /\ Head(q) = q[1]
      /\ DOMAIN Tail(q) = 1 .. Len(q) - 1
  BY <1>1
<1>3. \A n \in DOMAIN q : n = 1 \/ (n - 1 \in DOMAIN Tail(q) /\ Tail(q)[n - 1] = q[n])
  BY <1>1, <1>2
<1>4. \A n \in DOMAIN Tail(q) : n + 1 \in DOMAIN q /\ Tail(q)[n] = q[n + 1]
  BY <1>1, <1>2
<1>5. 1 \in DOMAIN q  BY <1>2
<1>6. Range(q) = {Head(q)} \union Range(Tail(q))
  <2>1. Range(q) \subseteq {Head(q)} \union Range(Tail(q))  BY <1>2, <1>3 DEF Range
  <2>2. Range(Tail(q)) \subseteq Range(q)  BY <1>4 DEF Range
  <2>3. Head(q) \in Range(q)  BY <1>2, <1>5 DEF Range
  <2> QED  BY <2>1, <2>2, <2>3
<1>7. \A w : Means(w) = UNION {Meaning(x) : x \in Range(w)}  BY DEF Means, Range
<1>8. Means(q) = Meaning(Head(q)) \union Means(Tail(q))  BY <1>6, <1>7
<1> QED  BY <1>1, <1>6, <1>8

LEMMA Appended ==
    ASSUME NEW S, NEW q \in Seq(S), NEW e \in S
    PROVE  /\ Append(q, e) \in Seq(S) /\ Range(Append(q, e)) = Range(q) \union {e}
           /\ Len(Append(q, e)) = Len(q) + 1 /\ DOMAIN Append(q, e) = 1 .. Len(q) + 1
           /\ Append(q, e)[Len(q) + 1] = e
           /\ \A n \in DOMAIN q : n \in 1 .. Len(q) /\ Append(q, e)[n] = q[n]
<1>1. /\ Append(q, e) \in Seq(S) /\ Len(Append(q, e)) = Len(q) + 1
      /\ \A i \in 1 .. Len(q) : Append(q, e)[i] = q[i]
      /\ Append(q, e)[Len(q) + 1] = e
  BY AppendProperties
<1>2. Len(q) \in Nat /\ DOMAIN q = 1 .. Len(q) /\ DOMAIN Append(q, e) = 1 .. Len(q) + 1  BY <1>1
<1>3. \A n \in 1 .. Len(q) + 1 : n \in 1 .. Len(q) \/ n = Len(q) + 1  BY <1>2
<1>4. Range(Append(q, e)) = Range(q) \union {e}
  <2>1. Len(q) + 1 \in DOMAIN Append(q, e) /\ 1 .. Len(q) \subseteq DOMAIN Append(q, e)  BY <1>2
  <2> QED  BY <1>1, <1>2, <1>3, <2>1 DEF Range
<1> QED  BY <1>1, <1>2, <1>4

\* What is asked for is finite.
LEMMA RequestedIsFinite ==
    ASSUME TargetsTypeOK
    PROVE  /\ given \in Seq(Tokens) /\ Requested = Means(given)
           /\ Requested \subseteq Address /\ IsFiniteSet(Requested)
           /\ IsFiniteSet(builder) /\ Cardinality(builder) \in Nat
<1>1. given \in Seq(Tokens)  BY TargetsAssumption DEF TargetsTypeOK
<1>2. \A n \in DOMAIN given : given[n] \in Tokens  BY <1>1
<1>3. Requested \subseteq Address  BY <1>2, TokenMeans DEF Requested
<1>4. IsFiniteSet(Requested) /\ IsFiniteSet(builder)
  BY <1>3, Families, FS_Subset DEF TargetsTypeOK
<1> QED  BY <1>1, <1>3, <1>4, FS_CardinalityType DEF Requested, Means

LEMMA InitTargets == TargetsInit => TargetsInv
<1> SUFFICES ASSUME TargetsInit PROVE TargetsInv
    OBVIOUS
<1>1. given \in Seq(Tokens) /\ limit \in Limits  BY TargetsAssumption DEF TargetsInit
<1>2. TargetsTypeOK  BY <1>1 DEF TargetsInit, TargetsTypeOK
<1>3. ReadInv  BY DEF ReadInv, TargetsInit, Requested, Means
<1>4. CountInv /\ WriteInv  BY DEF CountInv, WriteInv, TargetsInit
<1> QED  BY <1>2, <1>3, <1>4 DEF TargetsInv

LEMMA StepAddToken ==
    ASSUME TargetsInv, AddToken
    PROVE  TargetsInv'
<1> USE DEF TargetsInv
<1>1. /\ answer = "reading" /\ todo # <<>> /\ todo \in Seq(Tokens)
      /\ UNCHANGED <<given, limit, ranges, total, cursor, list, strings>>
  BY DEF AddToken, TargetsTypeOK
<1>2. PICK x \in Tokens : /\ x = Head(todo) /\ x \in Range(todo)
                          /\ Tail(todo) \in Seq(Tokens)
                          /\ Range(todo) = {x} \union Range(Tail(todo))
                          /\ Means(todo) = Meaning(x) \union Means(Tail(todo))
  BY <1>1, FirstToken
<1>3. /\ builder \union Means(todo) = Requested /\ Range(todo) \subseteq Range(given)
      /\ \A y \in Range(given) : y \in Range(todo) \/ ~Invalid(y)
      /\ total = 0 /\ cursor = Nowhere /\ list = <<>> /\ strings = <<>>
  BY <1>1 DEF ReadInv, CountInv
<1>4. limit \in Nat \ {0}  BY TargetsAssumption DEF TargetsTypeOK
<1>5. Requested' = Requested  BY <1>1 DEF Requested
<1>6. CASE answer' \in {"invalid", "too_many"} /\ UNCHANGED <<builder, todo>>
  <2>1. answer' = "invalid" => Invalid(x)
    BY <1>1, <1>2, <1>6 DEF AddToken
  <2>2. answer' = "too_many" => ~Invalid(x) /\ Expanded(x) > limit
    BY <1>1, <1>2, <1>6 DEF AddToken
  <2>3. answer' = "too_many" => Cardinality(Requested) > limit
    <3> SUFFICES ASSUME answer' = "too_many" PROVE Cardinality(Requested) > limit
        OBVIOUS
    <3>1. ~Invalid(x) /\ Expanded(x) > limit  BY <2>2
    <3>2. PICK e \in Int : e = Expanded(x)  BY ExpandedType
    <3>3. e > limit /\ e > 0  BY <1>4, <3>1, <3>2
    <3>4. Cardinality(Meaning(x)) = e  BY <3>1, <3>2, <3>3, TokenMeans
    <3>5. Meaning(x) \subseteq Requested /\ IsFiniteSet(Requested)
      BY <1>2, <1>3, RequestedIsFinite
    <3>6. /\ Cardinality(Meaning(x)) <= Cardinality(Requested)
          /\ Cardinality(Requested) \in Nat
      BY <3>5, FS_Subset, FS_CardinalityType
    <3>7. PICK c \in Nat : c = Cardinality(Requested)  BY <3>6
    <3>8. e <= c  BY <3>4, <3>6, <3>7
    <3>9. c > limit  BY <1>4, <3>3, <3>8
    <3> QED  BY <3>7, <3>9
  <2>4. TargetsTypeOK'  BY <1>1, <1>6 DEF TargetsTypeOK
  <2>5. ReadInv'
    <3>1. answer' = "invalid" => \E y \in Range(given) : Invalid(y)  BY <1>2, <1>3, <2>1
    <3> QED  BY <1>1, <1>5, <1>6, <2>3, <3>1 DEF ReadInv, Range
  <2>6. CountInv' /\ WriteInv'  BY <1>6 DEF CountInv, WriteInv
  <2> QED  BY <2>4, <2>5, <2>6
<1>7. CASE /\ ~Invalid(x) /\ builder' = builder \union Meaning(x)
           /\ todo' = Tail(todo) /\ answer' = answer
  <2>1. TargetsTypeOK'
    <3>1. builder' \subseteq Address  BY <1>7, TokenMeans DEF TargetsTypeOK
    <3> QED  BY <1>1, <1>2, <1>7, <3>1 DEF TargetsTypeOK
  <2>2. Range(given)' = Range(given) /\ Range(todo)' = Range(Tail(todo))
        /\ Means(todo)' = Means(Tail(todo))
    BY <1>1, <1>7 DEF Range, Means
  <2>3. ReadInv'  BY <1>1, <1>2, <1>3, <1>5, <1>7, <2>2 DEF ReadInv
  <2>4. CountInv' /\ WriteInv'  BY <1>1, <1>3, <1>7 DEF CountInv, WriteInv
  <2> QED  BY <2>1, <2>3, <2>4
<1> QED  BY <1>1, <1>2, <1>6, <1>7 DEF AddToken

LEMMA StepBuildSet ==
    ASSUME TargetsInv, BuildSet
    PROVE  TargetsInv'
<1> USE DEF TargetsInv
<1>1. /\ answer = "reading" /\ todo = <<>> /\ answer' = "counting" /\ ranges' = Runs(builder)
      /\ UNCHANGED <<todo, given, limit, builder, total, cursor, list, strings>>
  BY DEF BuildSet
<1>2. builder \in SUBSET Address  BY DEF TargetsTypeOK
<1>3. TargetsTypeOK'  BY <1>1, <1>2, AllRuns DEF TargetsTypeOK
<1>4. Means(todo) = {} /\ Range(todo) = {}  BY <1>1 DEF Means, Range
<1>5. ReadInv'  BY <1>1, <1>4 DEF ReadInv, Range, Requested
<1>6. Left(ranges)' /\ Covered(ranges)' = {}
  <2>1. Left(ranges)' = Left(Runs(builder)) /\ Covered(ranges)' = Covered(Runs(builder))
    BY <1>1 DEF Left, Covered
  <2> QED  BY <1>2, <2>1, AllRuns
<1>7. CountInv'  BY <1>1, <1>6, FS_EmptySet DEF CountInv
<1>8. WriteInv'  BY <1>1 DEF WriteInv
<1> QED  BY <1>3, <1>5, <1>7, <1>8

LEMMA StepCountRange ==
    ASSUME TargetsInv, CountRange
    PROVE  TargetsInv'
<1> USE DEF TargetsInv
<1>0. PICK r : r = Lowest(ranges)  OBVIOUS
<1>1. /\ answer = "counting" /\ ranges # {} /\ ranges' = ranges \ {r}
      /\ total' = total + RangeSize(r)
      /\ UNCHANGED <<todo, given, limit, builder, cursor, list, strings, answer>>
  BY <1>0 DEF CountRange
<1>2. Left(ranges) /\ total = Cardinality(Covered(ranges))  BY <1>1 DEF CountInv
<1>3. /\ r \in ranges /\ Left(ranges \ {r})
      /\ r[1] \in Nat /\ r[2] \in Nat /\ r[1] <= r[2]
      /\ \A x \in Nat : r[1] <= x /\ x <= r[2] => x \in builder
      /\ Covered(ranges) = {x \in builder : x < r[1]}
      /\ Covered(ranges \ {r}) = {x \in builder : x <= r[2]}
  <2>1. builder \in SUBSET Address  BY DEF TargetsTypeOK
  <2> QED  BY <1>0, <1>1, <1>2, <2>1, NextRun
<1>4. IsFiniteSet(builder) /\ \A x \in builder : x \in Nat
  BY RequestedIsFinite, Families DEF TargetsTypeOK
<1>5. Covered(ranges \ {r}) = Covered(ranges) \union (r[1] .. r[2])  BY <1>3, <1>4
<1>6. Covered(ranges) \intersect (r[1] .. r[2]) = {}  BY <1>3, <1>4
<1>7. IsFiniteSet(Covered(ranges)) /\ Cardinality(Covered(ranges)) \in Nat
  BY <1>4, FS_Subset, FS_CardinalityType DEF Covered
<1>8. IsFiniteSet(r[1] .. r[2]) /\ Cardinality(r[1] .. r[2]) = RangeSize(r)
  <2>1. r[1] \in Int /\ r[2] \in Int /\ ~(r[1] > r[2])  BY <1>3
  <2>2. IsFiniteSet(r[1] .. r[2]) /\ Cardinality(r[1] .. r[2]) = r[2] - r[1] + 1
    BY <2>1, FS_Interval
  <2> QED  BY <2>2 DEF RangeSize
<1>9. Cardinality(Covered(ranges \ {r})) = Cardinality(Covered(ranges)) + RangeSize(r)
  <2> DEFINE C == Covered(ranges)
             I == r[1] .. r[2]
  <2>1. IsFiniteSet(C) /\ IsFiniteSet(I)  BY <1>7, <1>8
  <2>2. Cardinality(C \union I) = Cardinality(C) + Cardinality(I) - Cardinality(C \intersect I)
    <3> HIDE DEF C, I
    <3> QED  BY <2>1, FS_Union
  <2>3. Cardinality(C \intersect I) = 0  BY <1>6, FS_EmptySet
  <2>4. C \union I = Covered(ranges \ {r})  BY <1>5
  <2>5. Cardinality(C) \in Nat /\ Cardinality(I) = RangeSize(r) /\ RangeSize(r) \in Int
    BY <1>3, <1>7, <1>8 DEF RangeSize
  <2> HIDE DEF C, I
  <2>6. Cardinality(C \union I) = Cardinality(C) + RangeSize(r)  BY <2>2, <2>3, <2>5
  <2> QED  BY <2>4, <2>6 DEF C
<1>10. RangeSize(r) \in Nat  BY <1>3 DEF RangeSize
<1>11. TargetsTypeOK'  BY <1>1, <1>2, <1>7, <1>10 DEF TargetsTypeOK
<1>12. ReadInv'  BY <1>1 DEF ReadInv, Range, Requested
<1>13. CountInv'
  <2>1. Left(ranges)' = Left(ranges \ {r}) /\ Covered(ranges)' = Covered(ranges \ {r})
    BY <1>1 DEF Left, Covered
  <2>2. total' = Cardinality(Covered(ranges \ {r}))  BY <1>1, <1>2, <1>7, <1>9, <1>10
  <2> QED  BY <1>1, <1>3, <2>1, <2>2 DEF CountInv
<1>14. WriteInv'  BY <1>1 DEF WriteInv
<1> QED  BY <1>11, <1>12, <1>13, <1>14

LEMMA StepCheckCount ==
    ASSUME TargetsInv, CheckCount
    PROVE  TargetsInv'
<1> USE DEF TargetsInv
<1>1. /\ answer = "counting" /\ ranges = {}
      /\ UNCHANGED <<todo, given, limit, builder, total, cursor, list, strings>>
  BY DEF CheckCount
<1>2. builder \in SUBSET Address /\ limit \in Nat
  BY TargetsAssumption DEF TargetsTypeOK
<1>3. builder = Requested /\ total = Cardinality(builder)
      /\ cursor = Nowhere /\ list = <<>> /\ strings = <<>>
  BY <1>1, <1>2, AllRuns DEF ReadInv, CountInv
<1>4. Requested' = Requested  BY <1>1 DEF Requested
<1>5. CASE total > limit /\ answer' = "too_many" /\ UNCHANGED ranges
  <2>1. TargetsTypeOK'  BY <1>1, <1>5 DEF TargetsTypeOK
  <2>2. ReadInv'  BY <1>1, <1>3, <1>4, <1>5 DEF ReadInv
  <2> QED  BY <1>5, <2>1, <2>2 DEF CountInv, WriteInv
<1>6. CASE ~(total > limit) /\ answer' = "writing" /\ ranges' = Runs(builder)
  <2>1. TargetsTypeOK'  BY <1>1, <1>2, <1>6, AllRuns DEF TargetsTypeOK
  <2>2. ReadInv'  BY <1>1, <1>4, <1>6 DEF ReadInv, Range
  <2>3. CountInv'
    <3>1. total \in Nat  BY DEF TargetsTypeOK
    <3> QED  BY <1>1, <1>2, <1>3, <1>6, <3>1 DEF CountInv
  <2>4. Left(ranges)' /\ Covered(ranges)' = {}
    <3>1. Left(ranges)' = Left(Runs(builder)) /\ Covered(ranges)' = Covered(Runs(builder))
      BY <1>1, <1>6 DEF Left, Covered
    <3> QED  BY <1>2, <3>1, AllRuns
  <2>5. Written' = {} /\ Shown' = {}  BY <1>1, <1>3, <2>4 DEF Written, Shown
  <2>6. DOMAIN list' = {} /\ DOMAIN strings' = {} /\ Len(list') = 0  BY <1>1, <1>3
  <2>7. Range(list)' = {}  BY <2>6 DEF Range
  <2>8. Cardinality({}) = 0  BY FS_EmptySet
  <2>9. WriteInv'  BY <1>1, <1>3, <1>6, <2>4, <2>5, <2>6, <2>7, <2>8 DEF WriteInv
  <2> QED  BY <2>1, <2>2, <2>3, <2>9
<1> QED  BY <1>5, <1>6 DEF CheckCount

\* The addresses the ranges of a sequence stand for.
Spread(q) == UNION {Interval(q[n]) : n \in DOMAIN q}

LEMMA SpreadOut ==
    ASSUME NEW S, NEW q \in Seq(S), NEW e \in S
    PROVE  Spread(Append(q, e)) = Spread(q) \union Interval(e)
<1>1. \A w : Spread(w) = UNION {Interval(x) : x \in Range(w)}  BY DEF Spread, Range
<1>2. Range(Append(q, e)) = Range(q) \union {e}  BY Appended
<1> QED  BY <1>1, <1>2

LEMMA StepWriteRange ==
    ASSUME TargetsInv, WriteRange
    PROVE  TargetsInv'
<1> USE DEF TargetsInv
<1>0. PICK r : r = Lowest(ranges)  OBVIOUS
<1>1. /\ answer = "writing" /\ ranges # {} /\ cursor = Nowhere
      /\ strings' = Append(strings, r) /\ cursor' = r[1]
      /\ UNCHANGED <<todo, given, limit, builder, ranges, total, list, answer>>
  BY <1>0 DEF WriteRange
<1>2. builder \in SUBSET Address /\ strings \in Seq(Address \X Address)  BY DEF TargetsTypeOK
<1>3. /\ Left(ranges) /\ Range(list) = Written /\ Len(list) = Cardinality(Written)
      /\ \A m, n \in DOMAIN list : m < n => list[m] < list[n]
      /\ Spread(strings) = Shown
  BY <1>1 DEF WriteInv, Spread
<1>4. /\ r \in ranges /\ r \in Runs(builder) /\ r \in Address \X Address
      /\ r[1] \in Nat /\ r[2] \in Nat /\ r[1] <= r[2]
      /\ \A x \in Nat : r[1] <= x /\ x <= r[2] => x \in builder
      /\ Covered(ranges) = {x \in builder : x < r[1]}
      /\ Covered(ranges \ {r}) = {x \in builder : x <= r[2]}
  <2>1. Left(ranges) /\ ranges # {} /\ builder \in SUBSET Address  BY <1>1, <1>2, <1>3
  <2> QED  BY <1>0, <2>1, NextRun
<1>5. r[1] # Nowhere /\ r[1] \in Address  BY <1>4 DEF Nowhere
<1>6. TargetsTypeOK'
  <2>1. strings' \in Seq(Address \X Address)  BY <1>1, <1>2, <1>4, Appended
  <2> QED  BY <1>1, <1>5, <2>1 DEF TargetsTypeOK
<1>7. ReadInv'  BY <1>1 DEF ReadInv, Range, Requested
<1>8. CountInv'  BY <1>1 DEF CountInv
<1>9. Written' = Written
  <2>1. Written' = {x \in builder : x < r[1]}  BY <1>1, <1>5 DEF Written
  <2> QED  BY <1>1, <1>4, <2>1 DEF Written
<1>10. Spread(strings)' = Shown'
  <2>1. Shown = Covered(ranges)  BY <1>1 DEF Shown
  <2>2. Shown' = Covered(ranges \ {r})  BY <1>0, <1>1, <1>5 DEF Shown, Covered
  <2>3. Spread(strings)' = Spread(strings) \union Interval(r)
    <3>1. Spread(Append(strings, r)) = Spread(strings) \union Interval(r)  BY <1>2, <1>4, SpreadOut
    <3> QED  BY <1>1, <3>1 DEF Spread
  <2>4. \A x \in builder : x \in Nat  BY <1>2, Families
  <2>5. Covered(ranges \ {r}) = Covered(ranges) \union Interval(r)
    BY <1>4, <2>4 DEF Interval
  <2> QED  BY <1>3, <2>1, <2>2, <2>3, <2>5
<1>11. Left(ranges)'  BY <1>1, <1>3 DEF Left
<1>12. Lowest(ranges)' = r  BY <1>0, <1>1
<1>13. Range(list)' = Written' /\ Len(list)' = Cardinality(Written)'
  BY <1>1, <1>3, <1>9 DEF Range
<1>14. WriteInv'
  <2>1. r[1] <= cursor' /\ cursor' <= r[2] /\ ranges' # {}  BY <1>1, <1>4
  <2> QED  BY <1>1, <1>3, <1>10, <1>11, <1>12, <1>13, <2>1 DEF WriteInv, Spread
<1> QED  BY <1>6, <1>7, <1>8, <1>14

LEMMA StepWriteAddress ==
    ASSUME TargetsInv, WriteAddress
    PROVE  TargetsInv'
<1> USE DEF TargetsInv
<1>0. PICK r : r = Lowest(ranges)  OBVIOUS
<1>1. /\ answer = "writing" /\ cursor # Nowhere /\ list' = Append(list, cursor)
      /\ UNCHANGED <<todo, given, limit, builder, total, strings, answer>>
  BY DEF WriteAddress
<1>2. \/ cursor = r[2] /\ cursor' = Nowhere /\ ranges' = ranges \ {r}
      \/ cursor # r[2] /\ cursor' = cursor + 1 /\ ranges' = ranges
  BY <1>0 DEF WriteAddress
<1>3. /\ Left(ranges) /\ ranges # {} /\ r[1] <= cursor /\ cursor <= r[2]
      /\ Range(list) = Written /\ Len(list) = Cardinality(Written)
      /\ \A m, n \in DOMAIN list : m < n => list[m] < list[n]
      /\ Spread(strings) = Shown
  BY <1>0, <1>1 DEF WriteInv, Spread
<1>4. /\ builder \in SUBSET Address /\ list \in Seq(Address) /\ cursor \in Address
      /\ ranges \subseteq Address \X Address
  BY <1>1 DEF TargetsTypeOK
<1>5. /\ r \in ranges /\ Left(ranges \ {r}) /\ r[1] \in Nat /\ r[2] \in Nat
      /\ \A x \in Nat : r[1] <= x /\ x <= r[2] => x \in builder
      /\ Covered(ranges \ {r}) = {x \in builder : x <= r[2]}
  <2>1. Left(ranges) /\ ranges # {} /\ builder \in SUBSET Address  BY <1>3, <1>4
  <2> QED  BY <1>0, <2>1, NextRun
<1>6. cursor \in Nat /\ \A x \in builder : x \in Nat /\ x \in Address  BY <1>4, Families
<1>7. cursor \in builder  BY <1>3, <1>5, <1>6
<1>8. Written = {x \in builder : x < cursor}  BY <1>1 DEF Written
<1>9. /\ list' \in Seq(Address) /\ Range(list)' = Range(list) \union {cursor}
      /\ Len(list)' = Len(list) + 1 /\ DOMAIN list' = 1 .. Len(list) + 1
      /\ list'[Len(list) + 1] = cursor
      /\ \A n \in DOMAIN list : n \in 1 .. Len(list) /\ list'[n] = list[n]
  <2>1. Range(list)' = Range(Append(list, cursor))  BY <1>1 DEF Range
  <2> QED  BY <1>1, <1>4, <2>1, Appended
<1>10. Written' = Written \union {cursor} /\ Shown' = Shown /\ Left(ranges)'
  <2>1. Shown = Covered(ranges \ {r})  BY <1>0, <1>1 DEF Shown
  <2>2. CASE cursor = r[2] /\ cursor' = Nowhere /\ ranges' = ranges \ {r}
    <3>1. Written' = Covered(ranges \ {r}) /\ Shown' = Covered(ranges \ {r})
      BY <1>1, <2>2 DEF Written, Shown, Covered
    <3>2. Covered(ranges \ {r}) = Written \union {cursor}
      <4>1. \A x \in builder : x <= r[2] <=> x < cursor \/ x = cursor  BY <1>6, <2>2
      <4>2. Covered(ranges \ {r}) = {x \in builder : x < cursor \/ x = cursor}  BY <1>5, <4>1
      <4> QED  BY <1>7, <1>8, <4>2
    <3>3. Left(ranges)'  BY <1>1, <1>5, <2>2 DEF Left
    <3> QED  BY <2>1, <3>1, <3>2, <3>3
  <2>3. CASE cursor # r[2] /\ cursor' = cursor + 1 /\ ranges' = ranges
    <3>1. cursor' # Nowhere  BY <1>6, <2>3 DEF Nowhere
    <3>2. Written' = {x \in builder : x < cursor + 1}  BY <1>1, <2>3, <3>1 DEF Written
    <3>3. Written' = Written \union {cursor}
      <4>1. \A x \in builder : x < cursor + 1 <=> x < cursor \/ x = cursor  BY <1>6
      <4>2. Written' = {x \in builder : x < cursor \/ x = cursor}  BY <3>2, <4>1
      <4> QED  BY <1>7, <1>8, <4>2
    <3>4. Shown' = Covered(ranges \ {r})  BY <1>0, <1>1, <2>3, <3>1 DEF Shown, Covered
    <3>5. Left(ranges)'  BY <1>1, <1>3, <2>3 DEF Left
    <3> QED  BY <2>1, <3>3, <3>4, <3>5
  <2> QED  BY <1>2, <2>2, <2>3
<1>11. cursor' # Nowhere => /\ ranges' # {} /\ Lowest(ranges)' = r
                            /\ r[1] <= cursor' /\ cursor' <= r[2] /\ cursor' \in Address
  <2> SUFFICES ASSUME cursor' # Nowhere
               PROVE  /\ ranges' # {} /\ Lowest(ranges)' = r
                      /\ r[1] <= cursor' /\ cursor' <= r[2] /\ cursor' \in Address
      OBVIOUS
  <2>1. cursor # r[2] /\ cursor' = cursor + 1 /\ ranges' = ranges  BY <1>2
  <2>2. cursor + 1 \in Nat /\ r[1] <= cursor + 1 /\ cursor + 1 <= r[2]  BY <1>3, <1>5, <1>6, <2>1
  <2>3. cursor + 1 \in Address  BY <1>5, <1>6, <2>2
  <2> QED  BY <1>0, <1>3, <2>1, <2>2, <2>3
<1>12. TargetsTypeOK'
  <2>1. cursor' \in Address \union {Nowhere}  BY <1>11
  <2>2. ranges' \subseteq Address \X Address  BY <1>2, <1>4
  <2> QED  BY <1>1, <1>9, <2>1, <2>2 DEF TargetsTypeOK
<1>13. ReadInv'  BY <1>1 DEF ReadInv, Range, Requested
<1>14. CountInv'  BY <1>1 DEF CountInv
<1>15. Len(list)' = Cardinality(Written)'
  <2>1. IsFiniteSet(builder) /\ cursor \notin Written /\ Written \subseteq builder
    BY <1>6, <1>8, RequestedIsFinite
  <2>2. IsFiniteSet(Written)  BY <2>1, FS_Subset
  <2>3. Cardinality(Written \union {cursor}) = Cardinality(Written) + 1
    BY <2>1, <2>2, FS_AddElement
  <2> QED  BY <1>3, <1>9, <1>10, <2>3
<1>16. ASSUME NEW m \in DOMAIN list', NEW n \in DOMAIN list', m < n PROVE list'[m] < list'[n]
  <2>1. Len(list) \in Nat /\ DOMAIN list = 1 .. Len(list)  BY <1>4
  <2>2. m \in DOMAIN list /\ list'[m] = list[m]  BY <1>9, <1>16, <2>1
  <2>3. list[m] \in Written  BY <1>3, <2>2 DEF Range
  <2>4. CASE n = Len(list) + 1  BY <1>8, <1>9, <2>2, <2>3, <2>4
  <2>5. CASE n # Len(list) + 1
    <3>1. n \in DOMAIN list /\ list'[n] = list[n]  BY <1>9, <2>1, <2>5
    <3> QED  BY <1>3, <1>16, <2>2, <3>1
  <2> QED  BY <2>4, <2>5
<1>17. WriteInv'
  <2>1. Range(list)' = Written'  BY <1>3, <1>9, <1>10
  <2>2. Spread(strings)' = Shown'  BY <1>1, <1>3, <1>10 DEF Spread
  <2> QED  BY <1>1, <1>10, <1>11, <1>15, <1>16, <2>1, <2>2 DEF WriteInv, Spread
<1> QED  BY <1>12, <1>13, <1>14, <1>17

LEMMA StepListIsDone ==
    ASSUME TargetsInv, ListIsDone
    PROVE  TargetsInv'
<1> USE DEF TargetsInv
<1>1. /\ answer = "writing" /\ ranges = {} /\ answer' = "ok"
      /\ UNCHANGED <<todo, given, limit, builder, ranges, total, cursor, list, strings>>
  BY DEF ListIsDone
<1>2. cursor = Nowhere  BY <1>1 DEF WriteInv
<1>3. TargetsTypeOK'  BY <1>1 DEF TargetsTypeOK
<1>4. ReadInv'  BY <1>1 DEF ReadInv, Range, Requested
<1>5. CountInv'  BY <1>1 DEF CountInv
<1>6. Written' = Written /\ Shown' = Shown  BY <1>1 DEF Written, Shown, Covered
<1>7. Left(ranges)' /\ Range(list)' = Range(list)  BY <1>1 DEF WriteInv, Left, Range
<1>8. WriteInv'  BY <1>1, <1>2, <1>6, <1>7 DEF WriteInv
<1> QED  BY <1>3, <1>4, <1>5, <1>8

LEMMA StepTargets == TargetsInv /\ [TargetsNext]_targetVars => TargetsInv'
<1> SUFFICES ASSUME TargetsInv, [TargetsNext]_targetVars PROVE TargetsInv'
    OBVIOUS
<1>1. CASE UNCHANGED targetVars
  <2>1. /\ TargetsTypeOK /\ ReadInv /\ CountInv /\ WriteInv
        /\ UNCHANGED <<todo, given, limit, builder, ranges, total, cursor, list, strings, answer>>
    BY <1>1 DEF targetVars, TargetsInv
  <2>2. TargetsTypeOK'  BY <2>1 DEF TargetsTypeOK
  <2>3. ReadInv'  BY <2>1 DEF ReadInv, Range, Means, Requested
  <2>4. CountInv'  BY <2>1 DEF CountInv, Left, Covered
  <2>5. WriteInv'
    <3>1. Written' = Written /\ Shown' = Shown /\ (Left(ranges)' <=> Left(ranges))
          /\ Range(list)' = Range(list)
      BY <2>1 DEF Written, Shown, Left, Covered, Range
    <3> QED  BY <2>1, <3>1 DEF WriteInv
  <2> QED  BY <2>2, <2>3, <2>4, <2>5 DEF TargetsInv
<1> QED  BY <1>1, StepAddToken, StepBuildSet, StepCountRange, StepCheckCount, StepWriteRange,
            StepWriteAddress, StepListIsDone DEF TargetsNext

\* When the list is done, it is the set.
LEMMA ListIsTheSet == TargetsInv => TargetsAreExact
<1> SUFFICES ASSUME TargetsInv PROVE TargetsAreExact
    OBVIOUS
<1> USE DEF TargetsInv
<1>1. builder \in SUBSET Address  BY DEF TargetsTypeOK
<1>2. ASSUME answer = "ok"
      PROVE  /\ {list[n] : n \in DOMAIN list} = Requested
             /\ \A m, n \in DOMAIN list : m < n => list[m] < list[n]
             /\ Len(list) <= limit
             /\ UNION {Interval(strings[n]) : n \in DOMAIN strings} = Requested
             /\ \A n \in DOMAIN given : ~Invalid(given[n])
  <2>1. builder = Requested /\ \A x \in Range(given) : ~Invalid(x)  BY <1>2 DEF ReadInv
  <2>2. Cardinality(builder) <= limit  BY <1>2 DEF CountInv
  <2>3. Written = builder /\ Shown = builder
    BY <1>1, <1>2, AllRuns DEF WriteInv, Written, Shown
  <2> QED  BY <1>2, <2>1, <2>2, <2>3 DEF WriteInv, Range
<1>3. /\ answer = "too_many" => Cardinality(Requested) > limit
      /\ answer = "invalid" => \E n \in DOMAIN given : Invalid(given[n])
  BY DEF ReadInv, Range
<1> QED  BY <1>2, <1>3 DEF TargetsAreExact

\* The list that --targets expands to is every address that was asked for, once and in
\* order, within the limit; a refusal has its reason (utils.go:30-32, ParseIPsWithLimit).
THEOREM TargetsAreWritten == TargetsSpec => []TargetsAreExact
<1>1. TargetsSpec => []TargetsInv  BY InitTargets, StepTargets, PTL DEF TargetsSpec
<1> QED  BY <1>1, ListIsTheSet, PTL

\* Every variable of Targets keeps its type: what ParseIPsWithLimit writes out are addresses,
\* also after the last one there is.
THEOREM TargetsTypeCorrect == TargetsSpec => []TargetsTypeOK
<1>1. TargetsInv => TargetsTypeOK  BY DEF TargetsInv
<1> QED  BY <1>1, InitTargets, StepTargets, PTL DEF TargetsSpec

=============================================================================
