------------------------------ MODULE Routing ------------------------------
(***************************************************************************)
(* The parts of routing that are algorithms: the match of a model name      *)
(* against a pattern with wildcards, the weighted choice among routes of    *)
(* one priority, and the sticky map that remembers which upstream served a  *)
(* key last.  The matcher is the loop of the code, step by step.            *)
(***************************************************************************)
EXTENDS Integers, Sequences, SequencesExt, FiniteSetsExt

CONSTANTS
    Letters,        \* characters of names; "*" is the wildcard
    MaxPattern, MaxName,    \* bounds on the lengths
    Weights,        \* values of model_routes.weight
    MaxGroup,       \* routes in a priority group
    StickyKeys,     \* pairs of an API key and a model
    Homes,          \* upstreams
    StickyTtl,      \* STICKY_TTL, in ticks
    StickyCap,      \* STICKY_CAP
    MaxTicks        \* bound on the clock

ASSUME RoutingAssumption ==
    /\ {MaxPattern, MaxName, MaxGroup, StickyTtl, MaxTicks} \subseteq Nat /\ StickyCap \in Nat \ {0}
    /\ Weights \subseteq Int

VARIABLES
    pat, txt,           \* the pattern and the name, chosen at the start
    p, t,               \* positions (1 is the first)
    star, star_match,   \* the last wildcard and the position it is tried at
    match,              \* "running", "yes" or "no"
    group,              \* the weights of a priority group
    sticky,             \* StickyMap: key -> upstream and time of the last use
    ticks,              \* the clock of the sticky map
    served              \* ghost: key -> the last success or hit, and its time

matchVars == <<pat, txt, p, t, star, star_match, match>>
stickyVars == <<sticky, ticks, served>>

NoStar == 0

MatchInit ==
    /\ pat \in BoundedSeq(Letters \cup {"*"}, MaxPattern) /\ txt \in BoundedSeq(Letters, MaxName)
    /\ p = 1 /\ t = 1 /\ star = NoStar /\ star_match = 1 /\ match = "running"

StickyInit == sticky = [k \in {} |-> <<>>] /\ ticks = 0 /\ served = [k \in {} |-> <<>>]

PickInit == group \in BoundedSeq(Weights, MaxGroup)

-----------------------------------------------------------------------------
(* pattern_matches                                                           *)
AtStar == p <= Len(pat) /\ pat[p] = "*"
AtEqual == p <= Len(pat) /\ pat[p] # "*" /\ pat[p] = txt[t]
Matching == match = "running" /\ t <= Len(txt)

MeetStar ==
    /\ Matching /\ AtStar
    /\ star' = p /\ star_match' = t /\ p' = p + 1
    /\ UNCHANGED <<pat, txt, t, match>>

MeetEqual ==
    /\ Matching /\ AtEqual
    /\ p' = p + 1 /\ t' = t + 1
    /\ UNCHANGED <<pat, txt, star, star_match, match>>

\* Bug: the wildcard is tried again where it stood
Backtrack_Stays ==
    /\ Matching /\ ~AtStar /\ ~AtEqual
    /\ IF star = NoStar THEN match' = "no" /\ UNCHANGED <<p, t, star_match>>
       ELSE star_match' = star_match + 1 /\ t' = t + 1 /\ p' = star + 1 /\ UNCHANGED match
    /\ UNCHANGED <<pat, txt, star>>

\* The last wildcard takes one more character; without one there is no match.
Backtrack ==
    /\ Matching /\ ~AtStar /\ ~AtEqual
    /\ IF star = NoStar THEN match' = "no" /\ UNCHANGED <<p, t, star_match>>
       ELSE star_match' = star_match + 1 /\ t' = star_match + 1 /\ p' = star + 1 /\ UNCHANGED match
    /\ UNCHANGED <<pat, txt, star>>

\* At the end of the name the rest of the pattern must be wildcards.
EndOfName ==
    /\ match = "running" /\ t > Len(txt)
    /\ match' = IF \A i \in p .. Len(pat) : pat[i] = "*" THEN "yes" ELSE "no"
    /\ UNCHANGED <<pat, txt, p, t, star, star_match>>

pattern_matches == MeetStar \/ MeetEqual \/ Backtrack \/ EndOfName

-----------------------------------------------------------------------------
weight_of(w) == IF w <= 0 THEN 1 ELSE w

\* The weights of the first i routes together
WeightTo ==
    LET sum[i \in 0 .. Len(group)] == IF i = 0 THEN 0 ELSE sum[i - 1] + weight_of(group[i])
    IN  sum
TotalWeight == WeightTo[Len(group)]

(* weighted_pick with the number it draws from 0 .. TotalWeight - 1          *)
weighted_pick(draw) == Min({i \in DOMAIN group : draw < WeightTo[i]})

-----------------------------------------------------------------------------
(* StickyMap                                                                 *)
Put(map, k, v) == [x \in DOMAIN map \cup {k} |-> IF x = k THEN v ELSE map[x]]
Only(map, ks) == [x \in ks |-> map[x]]

Fresh(map) == {k \in DOMAIN map : ticks - map[k].at <= StickyTtl}

sticky_get(k) ==
    /\ k \in DOMAIN sticky
    /\ IF k \in Fresh(sticky)
       THEN /\ sticky' = Put(sticky, k, [up |-> sticky[k].up, at |-> ticks])
            /\ served' = Put(served, k, [up |-> sticky[k].up, at |-> ticks])
       ELSE sticky' = Only(sticky, DOMAIN sticky \ {k}) /\ UNCHANGED served
    /\ UNCHANGED ticks

\* A full table: the expired entries go, then one of the oldest.
MakeRoom(map) ==
    IF Cardinality(DOMAIN map) < StickyCap THEN {map}
    ELSE LET fresh == Only(map, Fresh(map))
             oldest == {k \in DOMAIN fresh : \A j \in DOMAIN fresh : fresh[k].at <= fresh[j].at}
         IN  IF Cardinality(DOMAIN fresh) < StickyCap THEN {fresh}
             ELSE {Only(fresh, DOMAIN fresh \ {k}) : k \in oldest}

\* After a success
sticky_pin(k, up) ==
    /\ \E room \in MakeRoom(sticky) : sticky' = Put(room, k, [up |-> up, at |-> ticks])
    /\ served' = Put(served, k, [up |-> up, at |-> ticks])
    /\ UNCHANGED ticks

StickyTick == ticks < MaxTicks /\ ticks' = ticks + 1 /\ UNCHANGED <<sticky, served>>

StickyNext == StickyTick \/ \E k \in StickyKeys : sticky_get(k) \/ \E u \in Homes : sticky_pin(k, u)

MatchSpec == MatchInit /\ [][pattern_matches]_matchVars
PickSpec == PickInit /\ [][UNCHANGED group]_group
StickySpec == StickyInit /\ [][StickyNext]_stickyVars

-----------------------------------------------------------------------------
RoutingTypeOK ==
    /\ match \in {"running", "yes", "no"} /\ p \in 1 .. MaxPattern + 1 /\ t \in 1 .. MaxName + 1
    /\ ticks \in 0 .. MaxTicks /\ DOMAIN sticky \subseteq StickyKeys

\* The reference: the ways to lay the pattern along the name.  The first i characters of the
\* pattern stand for the first f[i] of the name, a wildcard for any number of them and every
\* other character for itself.
Layings ==
    {f \in [0 .. Len(pat) -> 0 .. Len(txt)] :
        /\ f[0] = 0 /\ f[Len(pat)] = Len(txt)
        /\ \A i \in 1 .. Len(pat) : IF pat[i] = "*" THEN f[i - 1] <= f[i]
                                   ELSE f[i] = f[i - 1] + 1 /\ txt[f[i]] = pat[i]}

\* The answer of the loop, which only ever goes back to the last wildcard, is
\* "yes" exactly if there is such a way.
MatcherExact == match # "running" => (match = "yes" <=> Layings # {})

\* Each route of a group is drawn in exact proportion to its weight.
PickProportional ==
    \A i \in DOMAIN group :
        Cardinality({d \in 0 .. TotalWeight - 1 : weighted_pick(d) = i}) = weight_of(group[i])

\* The table keeps to its capacity, whatever expires and whoever comes back,
\* and never names an upstream other than the last that served the key.
StickyHonest ==
    /\ Cardinality(DOMAIN sticky) <= StickyCap
    /\ \A k \in DOMAIN sticky : sticky[k] = served[k]

\* The steps that choose a route compute what they stand for: the pattern's language, the
\* weights' proportions, and the upstream that served the key last.
RoutingExact == RoutingTypeOK /\ MatcherExact /\ PickProportional /\ StickyHonest
=============================================================================
