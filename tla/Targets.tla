------------------------------ MODULE Targets ------------------------------
(***************************************************************************)
(* The expansion of --targets (ParseIPsWithLimit,                          *)
(* internal/utils/utils.go, and internal/utils/ip_helper.go): the tokens   *)
(* are added to a set one after the other, the ranges of the set are       *)
(* counted, and only then they are written out, address by address.        *)
(*                                                                         *)
(* An address is a number. Those of IPv4 have two octets here and come     *)
(* first, as the set sorts them; the others are IPv6. A token is what its  *)
(* syntax says: one address, ranges of octets, a range from one address to *)
(* another, a prefix, or a name; "bad" is one that does not parse.         *)
(***************************************************************************)
EXTENDS Integers, FiniteSets, Sequences

CONSTANTS Octets,       \* values of an octet, 256 in the program
          Sixes,        \* number of IPv6 addresses
          Tokens,       \* what may stand between two commas
          Lists,        \* the values of --targets, as sequences of them
          Limits        \* values of --max-targets

Border == Octets * Octets    \* the first address of IPv6
V4 == 0 .. Border - 1
V6 == Border .. Border + Sixes - 1
Address == V4 \union V6

\* validateNumericFlags refuses a limit below 1.
ASSUME TargetsAssumption == /\ Octets \in Nat \ {0} /\ Sixes \in Nat
                            /\ Lists \subseteq Seq(Tokens)
                            /\ Limits \subseteq Nat \ {0}
ASSUME TokensAssumption ==
    \A t \in Tokens :
        \/ t.form = "octets" /\ t.high \subseteq 0 .. Octets - 1 /\ t.low \subseteq 0 .. Octets - 1
        \/ t.form \in {"one", "range", "prefix"} /\ t.first \in Address /\ t.last \in Address
        \/ t.form = "name" /\ t.found \subseteq Address
        \/ t.form = "bad"

VARIABLES todo,     \* the tokens that are left
          given,    \* --targets as a whole
          limit,    \* --max-targets
          builder,  \* the set built so far
          ranges,   \* its ranges that are left in the loop that runs
          total,    \* the sum of ipSetCardinality
          cursor,   \* the next address of the range that is written out, or Nowhere
          list,     \* individualIPs
          strings,  \* stringAddresses
          answer    \* "reading", "counting", "writing", or how it ends

targetVars == <<todo, given, limit, builder, ranges, total, cursor, list, strings, answer>>

Nowhere == -1

TargetsTypeOK ==
    /\ todo \in Seq(Tokens) /\ given \in Lists /\ limit \in Limits
    /\ builder \subseteq Address
    /\ ranges \subseteq Address \X Address /\ strings \in Seq(Address \X Address)
    /\ total \in Nat
    /\ cursor \in Address \union {Nowhere}
    /\ list \in Seq(Address)
    /\ answer \in {"reading", "counting", "writing", "ok", "too_many", "invalid"}

TargetsInit ==
    /\ given \in Lists /\ todo = given
    /\ limit \in Limits
    /\ builder = {} /\ ranges = {} /\ total = 0 /\ cursor = Nowhere
    /\ list = <<>> /\ strings = <<>>
    /\ answer = "reading"

-----------------------------------------------------------------------------
(* addTargetToSet.                                                         *)

Interval(r) == r[1] .. r[2]
\* Four nested loops in the program, two here.
OctetLoops(t) == {a * Octets + b : a \in t.high, b \in t.low}

\* Only the two forms of ranges are counted before they are added, so that no loop
\* runs long. A prefix is added as it stands, a name for all it resolves to.
Expanded(t) == IF t.form = "octets" THEN Cardinality(t.high) * Cardinality(t.low)
               ELSE IF t.form = "range" THEN t.last - t.first + 1
               ELSE 0

SameFamily(t) == {t.first, t.last} \subseteq V4 \/ {t.first, t.last} \subseteq V6
Invalid(t) == \/ t.form = "bad"
              \/ t.form = "name" /\ t.found = {}
              \/ t.form = "range" /\ (~SameFamily(t) \/ t.first > t.last)

Meaning(t) == IF t.form = "octets" THEN OctetLoops(t)
              ELSE IF t.form = "name" THEN t.found
              ELSE IF t.form = "bad" THEN {}
              ELSE t.first .. t.last

AddToken ==
    /\ answer = "reading" /\ todo # <<>>
    /\ LET t == Head(todo) IN
         IF Invalid(t) THEN answer' = "invalid" /\ UNCHANGED <<builder, todo>>
         ELSE IF Expanded(t) > limit THEN answer' = "too_many" /\ UNCHANGED <<builder, todo>>
         ELSE builder' = builder \union Meaning(t) /\ todo' = Tail(todo) /\ UNCHANGED answer
    /\ UNCHANGED <<given, limit, ranges, total, cursor, list, strings>>

-----------------------------------------------------------------------------
\* IPSet.Ranges of the netaddr library: the longest runs of one family. Both loops
\* take them in ascending order.
Runs(s) == {r \in s \X s : /\ r[1] <= r[2] /\ Interval(r) \subseteq s
                           /\ Interval(r) \subseteq V4 \/ Interval(r) \subseteq V6
                           /\ r[1] - 1 \notin s \/ r[1] \in {0, Border}
                           /\ r[2] + 1 \notin s \/ r[2] + 1 = Border}
Lowest(rs) == CHOOSE r \in rs : \A q \in rs : r[1] <= q[1]

BuildSet == /\ answer = "reading" /\ todo = <<>>
            /\ answer' = "counting" /\ ranges' = Runs(builder)
            /\ UNCHANGED <<todo, given, limit, builder, total, cursor, list, strings>>

\* Mistake: a range counts for one address less than it has.
RangeSize_Open(r) == r[2] - r[1]

RangeSize(r) == r[2] - r[1] + 1

\* One turn of the loop of ipSetCardinality.
CountRange == /\ answer = "counting" /\ ranges # {}
              /\ total' = total + RangeSize(Lowest(ranges))
              /\ ranges' = ranges \ {Lowest(ranges)}
              /\ UNCHANGED <<todo, given, limit, builder, cursor, list, strings, answer>>

CheckCount == /\ answer = "counting" /\ ranges = {}
              /\ IF total > limit THEN answer' = "too_many" /\ UNCHANGED ranges
                 ELSE answer' = "writing" /\ ranges' = Runs(builder)
              /\ UNCHANGED <<todo, given, limit, builder, total, cursor, list, strings>>

\* extractIPsAndRanges: the inner loop ends after the range's last address, which may
\* be the last one there is.
WriteRange == /\ answer = "writing" /\ ranges # {} /\ cursor = Nowhere
              /\ strings' = Append(strings, Lowest(ranges))
              /\ cursor' = Lowest(ranges)[1]
              /\ UNCHANGED <<todo, given, limit, builder, ranges, total, list, answer>>

WriteAddress ==
    /\ answer = "writing" /\ cursor # Nowhere
    /\ list' = Append(list, cursor)
    /\ IF cursor = Lowest(ranges)[2]
       THEN cursor' = Nowhere /\ ranges' = ranges \ {Lowest(ranges)}
       ELSE cursor' = cursor + 1 /\ UNCHANGED ranges
    /\ UNCHANGED <<todo, given, limit, builder, total, strings, answer>>

ListIsDone == /\ answer = "writing" /\ ranges = {}
              /\ answer' = "ok"
              /\ UNCHANGED <<todo, given, limit, builder, ranges, total, cursor, list, strings>>

TargetsNext == \/ AddToken \/ BuildSet \/ CountRange \/ CheckCount
               \/ WriteRange \/ WriteAddress \/ ListIsDone

TargetsSpec == TargetsInit /\ [][TargetsNext]_targetVars

-----------------------------------------------------------------------------
(* Property.                                                               *)

Requested == UNION {Meaning(given[n]) : n \in DOMAIN given}

\* "parses, deduplicates, and sorts targets while refusing to materialize more than
\* maxTargets addresses" (utils.go:30-32): what comes out is every address that was
\* asked for, once and in order, also the last one of a family, and the ranges that
\* are shown say the same. A list is refused as too long only if the addresses it
\* names, overlaps counted once, are more than the limit, although two forms of
\* tokens are counted one by one; it is refused as invalid only if a token is.
TargetsAreExact ==
    /\ answer = "ok" =>
         /\ {list[n] : n \in DOMAIN list} = Requested
         /\ \A m, n \in DOMAIN list : m < n => list[m] < list[n]
         /\ Len(list) <= limit
         /\ UNION {Interval(strings[n]) : n \in DOMAIN strings} = Requested
    /\ answer = "too_many" => Cardinality(Requested) > limit
    /\ answer = "invalid" => \E n \in DOMAIN given : Invalid(given[n])
    /\ answer = "ok" => \A n \in DOMAIN given : ~Invalid(given[n])
=============================================================================
