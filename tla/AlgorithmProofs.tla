--------------------------- MODULE AlgorithmProofs ---------------------------
(***************************************************************************)
(* Proofs about algorithms over data, for inputs of any length: the match  *)
(* of a name against a pattern, the weighted choice, the sticky map, the   *)
(* client's address, the export and import of the price table and the      *)
(* parser of an event stream.                                              *)
(***************************************************************************)
EXTENDS Routing, ClientIp, PriceTransfer, Sse, Recursion, SequenceTheorems, FiniteSetTheorems

-----------------------------------------------------------------------------
(* The matcher.                                                              *)

\* The ways to lay the first k characters of the pattern along the first n of the name.
LaidTo(k, n) ==
    {f \in [0 .. k -> 0 .. Len(txt)] :
        /\ f[0] = 0 /\ f[k] = n
        /\ \A i \in 1 .. k : IF pat[i] = "*" THEN f[i - 1] <= f[i]
                             ELSE f[i] = f[i - 1] + 1 /\ txt[f[i]] = pat[i]}

Plain(i, j) == \A k \in i .. j : pat[k] # "*"

MatchTypes ==
    /\ pat \in Seq(Letters \cup {"*"}) /\ txt \in Seq(Letters)
    /\ Len(pat) <= MaxPattern /\ Len(txt) <= MaxName
    /\ p \in 1 .. Len(pat) + 1 /\ t \in 1 .. Len(txt) + 1
    /\ star \in 0 .. Len(pat) /\ star_match \in 1 .. Len(txt) + 1
    /\ match \in {"running", "yes", "no"}

\* What the loop has matched can be laid; since the last wildcard only plain characters.
Sound ==
    /\ LaidTo(p - 1, t - 1) # {}
    /\ star = NoStar => p = t /\ Plain(1, p - 1)
    /\ star # NoStar =>
        /\ pat[star] = "*" /\ star < p /\ p - star - 1 = t - star_match
        /\ Plain(star + 1, p - 1) /\ LaidTo(star, star_match - 1) # {}

\* No way to lay the pattern ends the last wildcard earlier than the loop tries it.
Complete == star # NoStar => \A f \in Layings : f[star] >= star_match - 1

MatchInv == MatchTypes /\ Sound /\ Complete /\ MatcherExact

\* The pattern is laid from left to right.
LEMMA LayingRises ==
    ASSUME MatchTypes, NEW f \in Layings, NEW i \in 0 .. Len(pat), NEW j \in 0 .. Len(pat), i <= j
    PROVE  f[i] <= f[j]
<1>1. Len(pat) \in Nat /\ Len(txt) \in Nat /\ f \in [0 .. Len(pat) -> 0 .. Len(txt)]
    BY DEF MatchTypes, Layings
<1> DEFINE S == {k \in 0 .. Len(pat) : i <= k => f[i] <= f[k]}
<1>2. 0 \in S
    BY <1>1
<1>3. ASSUME NEW k \in 0 .. Len(pat) - 1, k \in S PROVE k + 1 \in S
    <2>1. k + 1 \in 1 .. Len(pat) /\ (k + 1) - 1 = k /\ k \in 0 .. Len(pat)
        BY <1>1
    <2>2. f[k] <= f[k + 1]
        <3>1. pat[k + 1] = "*" => f[k] <= f[k + 1]
            BY <2>1 DEF Layings
        <3>2. pat[k + 1] # "*" => f[k + 1] = f[k] + 1
            BY <2>1 DEF Layings
        <3> QED BY <1>1, <2>1, <3>1, <3>2
    <2> QED BY <1>1, <1>3, <2>1, <2>2
<1> HIDE DEF S
<1>4. \A k \in 0 .. Len(pat) : k \in S
    BY <1>1, <1>2, <1>3, BoundedInduction
<1> QED BY <1>4 DEF S

\* Plain characters stand for one character each.
LEMMA PlainAdvances ==
    ASSUME MatchTypes, NEW f \in Layings, NEW i \in 0 .. Len(pat), NEW j \in 0 .. Len(pat), i <= j,
           Plain(i + 1, j)
    PROVE  f[j] = f[i] + (j - i)
<1>1. Len(pat) \in Nat /\ Len(txt) \in Nat /\ f \in [0 .. Len(pat) -> 0 .. Len(txt)]
    BY DEF MatchTypes, Layings
<1> DEFINE S == {k \in 0 .. Len(pat) : i <= k /\ k <= j => f[k] = f[i] + (k - i)}
<1>2. 0 \in S
    BY <1>1
<1>3. ASSUME NEW k \in 0 .. Len(pat) - 1, k \in S PROVE k + 1 \in S
    <2>1. k + 1 \in 1 .. Len(pat) /\ (k + 1) - 1 = k /\ k \in 0 .. Len(pat)
        BY <1>1
    <2>2. CASE i <= k /\ k + 1 <= j
        <3>1. pat[k + 1] # "*"
            BY <2>1, <2>2 DEF Plain
        <3>2. f[k + 1] = f[k] + 1
            BY <2>1, <3>1 DEF Layings
        <3>3. f[k] = f[i] + (k - i)
            BY <1>3, <2>1, <2>2
        <3>4. f[i] \in Nat /\ i \in Nat /\ k \in Nat
            BY <1>1
        <3>5. f[k + 1] = f[i] + ((k + 1) - i)
            BY <3>2, <3>3, <3>4
        <3> QED BY <2>1, <3>5
    <2>3. CASE ~(i <= k /\ k + 1 <= j)
        BY <1>1, <2>1, <2>3
    <2> QED BY <2>2, <2>3
<1> HIDE DEF S
<1>4. \A k \in 0 .. Len(pat) : k \in S
    BY <1>1, <1>2, <1>3, BoundedInduction
<1> QED BY <1>4 DEF S

\* A laying is continued by the next character.
LEMMA LayingGrows ==
    ASSUME MatchTypes, NEW k \in 0 .. Len(pat) - 1, NEW n \in 0 .. Len(txt), NEW m \in 0 .. Len(txt),
           LaidTo(k, n) # {},
           IF pat[k + 1] = "*" THEN n <= m ELSE m = n + 1 /\ txt[m] = pat[k + 1]
    PROVE  LaidTo(k + 1, m) # {}
<1>1. PICK f : f \in LaidTo(k, n)
    OBVIOUS
<1>2. f \in [0 .. k -> 0 .. Len(txt)] /\ f[0] = 0 /\ f[k] = n /\ k \in Nat
    BY <1>1 DEF LaidTo, MatchTypes
<1> DEFINE g == [i \in 0 .. k + 1 |-> IF i = k + 1 THEN m ELSE f[i]]
<1>3. g \in [0 .. k + 1 -> 0 .. Len(txt)] /\ g[0] = 0 /\ g[k + 1] = m
    BY <1>2
<1>4. ASSUME NEW i \in 1 .. k + 1
      PROVE  IF pat[i] = "*" THEN g[i - 1] <= g[i] ELSE g[i] = g[i - 1] + 1 /\ txt[g[i]] = pat[i]
    <2>1. CASE i = k + 1
        <3>1. g[i] = m /\ g[i - 1] = n
            BY <1>2, <2>1
        <3> HIDE DEF g
        <3> QED BY <2>1, <3>1
    <2>2. CASE i # k + 1
        <3>1. i \in 1 .. k /\ g[i] = f[i] /\ g[i - 1] = f[i - 1]
            BY <1>2, <2>2
        <3> HIDE DEF g
        <3> QED BY <1>1, <3>1 DEF LaidTo
    <2> QED BY <2>1, <2>2
<1> HIDE DEF g
<1>5. g \in LaidTo(k + 1, m)
    BY <1>3, <1>4 DEF LaidTo
<1> QED BY <1>5

\* A wildcard at the end may stand for more.
LEMMA WildcardTakes ==
    ASSUME MatchTypes, NEW k \in 1 .. Len(pat), NEW n \in 0 .. Len(txt), NEW m \in 0 .. Len(txt), n <= m,
           LaidTo(k, n) # {}, pat[k] = "*"
    PROVE  LaidTo(k, m) # {}
<1>1. PICK f : f \in LaidTo(k, n)
    OBVIOUS
<1>0. Len(pat) \in Nat /\ Len(txt) \in Nat
    BY DEF MatchTypes
<1>2. f \in [0 .. k -> 0 .. Len(txt)] /\ f[0] = 0 /\ f[k] = n /\ k \in Nat
    BY <1>0, <1>1 DEF LaidTo
<1> DEFINE g == [i \in 0 .. k |-> IF i = k THEN m ELSE f[i]]
<1>3. g \in [0 .. k -> 0 .. Len(txt)] /\ g[0] = 0 /\ g[k] = m
    BY <1>2
<1>4. ASSUME NEW i \in 1 .. k
      PROVE  IF pat[i] = "*" THEN g[i - 1] <= g[i] ELSE g[i] = g[i - 1] + 1 /\ txt[g[i]] = pat[i]
    <2>1. CASE i = k
        <3>1. g[i] = m /\ g[i - 1] = f[i - 1] /\ f[i - 1] \in 0 .. Len(txt)
            BY <1>2, <2>1
        <3>2. f[i - 1] <= n
            BY <1>1, <1>2, <2>1 DEF LaidTo
        <3> HIDE DEF g
        <3> QED BY <2>1, <3>1, <3>2
    <2>2. CASE i # k
        <3>1. g[i] = f[i] /\ g[i - 1] = f[i - 1]
            BY <1>2, <2>2
        <3> HIDE DEF g
        <3> QED BY <1>1, <3>1 DEF LaidTo
    <2> QED BY <2>1, <2>2
<1> HIDE DEF g
<1>5. g \in LaidTo(k, m)
    BY <1>3, <1>4 DEF LaidTo
<1> QED BY <1>5

\* Wildcards at the end of the pattern stand for nothing.
LEMMA WildcardsEnd ==
    ASSUME MatchTypes, LaidTo(p - 1, Len(txt)) # {}, \A i \in p .. Len(pat) : pat[i] = "*"
    PROVE  Layings # {}
<1>1. PICK f : f \in LaidTo(p - 1, Len(txt))
    OBVIOUS
<1>2. /\ f \in [0 .. p - 1 -> 0 .. Len(txt)] /\ f[0] = 0 /\ f[p - 1] = Len(txt)
      /\ Len(pat) \in Nat /\ Len(txt) \in Nat /\ p \in 1 .. Len(pat) + 1
    BY <1>1 DEF LaidTo, MatchTypes
<1> DEFINE g == [i \in 0 .. Len(pat) |-> IF i < p THEN f[i] ELSE Len(txt)]
<1>3. g \in [0 .. Len(pat) -> 0 .. Len(txt)] /\ g[0] = 0 /\ g[Len(pat)] = Len(txt)
    BY <1>2
<1>4. ASSUME NEW i \in 1 .. Len(pat)
      PROVE  IF pat[i] = "*" THEN g[i - 1] <= g[i] ELSE g[i] = g[i - 1] + 1 /\ txt[g[i]] = pat[i]
    <2>1. CASE i >= p
        <3>1. pat[i] = "*" /\ g[i] = Len(txt) /\ g[i - 1] \in 0 .. Len(txt)
            BY <1>2, <1>3, <2>1
        <3> HIDE DEF g
        <3> QED BY <1>2, <3>1
    <2>2. CASE i < p
        <3>1. i \in 1 .. p - 1 /\ g[i] = f[i] /\ g[i - 1] = f[i - 1]
            BY <1>2, <2>2
        <3> HIDE DEF g
        <3> QED BY <1>1, <3>1 DEF LaidTo
    <2> QED BY <1>2, <2>1, <2>2
<1> HIDE DEF g
<1>5. g \in Layings
    BY <1>3, <1>4 DEF Layings
<1> QED BY <1>5

\* No way to lay the pattern is behind the loop.
LEMMA LoopIsLeast ==
    ASSUME MatchTypes, Sound, Complete, NEW f \in Layings
    PROVE  /\ f[p - 1] >= t - 1 /\ f[p - 1] \in 0 .. Len(txt)
           /\ star = NoStar => f[p - 1] = t - 1
           /\ star # NoStar => f[p - 1] - (t - 1) = f[star] - (star_match - 1)
<1>1. /\ Len(pat) \in Nat /\ Len(txt) \in Nat /\ f \in [0 .. Len(pat) -> 0 .. Len(txt)] /\ f[0] = 0
      /\ p \in 1 .. Len(pat) + 1 /\ t \in 1 .. Len(txt) + 1 /\ star \in 0 .. Len(pat)
      /\ star_match \in 1 .. Len(txt) + 1
    BY DEF MatchTypes, Layings
<1>0. f[p - 1] \in 0 .. Len(txt) /\ f[star] \in 0 .. Len(txt)
    <2>1. p - 1 \in 0 .. Len(pat) /\ star \in 0 .. Len(pat)
        BY <1>1
    <2> QED BY <1>1, <2>1
<1>2. CASE star = NoStar
    <2>1. f[p - 1] = f[0] + ((p - 1) - 0)
        BY <1>1, <1>2, PlainAdvances DEF Sound, NoStar
    <2> QED BY <1>0, <1>1, <1>2, <2>1 DEF Sound
<1>3. CASE star # NoStar
    <2>1. star < p /\ p - star - 1 = t - star_match /\ Plain(star + 1, p - 1) /\ f[star] >= star_match - 1
        BY <1>3 DEF Sound, Complete
    <2>2. f[p - 1] = f[star] + ((p - 1) - star)
        BY <1>1, <2>1, PlainAdvances
    <2>3. PICK a \in Nat, b \in Nat : a = f[p - 1] /\ b = f[star]
        BY <1>0
    <2>4. p \in Int /\ t \in Int /\ star \in Int /\ star_match \in Int
        BY <1>1
    <2>5. a >= t - 1 /\ a - (t - 1) = b - (star_match - 1)
        BY <2>1, <2>2, <2>3, <2>4
    <2> QED BY <1>0, <1>3, <2>3, <2>5
<1> QED BY <1>2, <1>3

\* The loop begins at the start of both.
LEMMA MatchStarts == MatchInit => MatchInv
<1> SUFFICES ASSUME MatchInit PROVE MatchInv
    OBVIOUS
<1>1. MatchTypes
    <2>1. PICK m \in 0 .. MaxPattern : pat \in [1 .. m -> Letters \cup {"*"}]
        BY DEF MatchInit, BoundedSeq, SeqOf
    <2>2. PICK n \in 0 .. MaxName : txt \in [1 .. n -> Letters]
        BY DEF MatchInit, BoundedSeq, SeqOf
    <2>3. pat \in Seq(Letters \cup {"*"}) /\ Len(pat) = m /\ txt \in Seq(Letters) /\ Len(txt) = n
        BY <2>1, <2>2, RoutingAssumption
    <2> QED BY <2>3, RoutingAssumption DEF MatchInit, MatchTypes, NoStar
<1>2. [i \in 0 .. 0 |-> 0] \in LaidTo(0, 0)
    BY <1>1 DEF LaidTo, MatchTypes
<1> QED BY <1>1, <1>2 DEF MatchInit, MatchInv, Sound, Complete, MatcherExact, NoStar, Plain

\* What does not change when the loop moves on.
MatchKept == UNCHANGED <<pat, txt>>

\* While pattern and name stand, so do the ways to lay one along the other.
LEMMA LaidKept ==
    ASSUME MatchKept
    PROVE  /\ Layings' = Layings
           /\ \A k, n : LaidTo(k, n)' = LaidTo(k, n)
           /\ \A i, j : Plain(i, j)' = Plain(i, j)
BY DEF MatchKept, Layings, LaidTo, Plain

\* A step that moves no cursor keeps what the loop knows.
LEMMA LoopStands ==
    ASSUME Sound, Complete, UNCHANGED <<pat, txt, p, t, star, star_match>>
    PROVE  Sound' /\ Complete'
<1>1. LaidTo(p - 1, t - 1)' = LaidTo(p - 1, t - 1) /\ LaidTo(star, star_match - 1)' = LaidTo(star, star_match - 1)
    BY Zenon DEF LaidTo
<1>2. Plain(1, p - 1)' = Plain(1, p - 1) /\ Plain(star + 1, p - 1)' = Plain(star + 1, p - 1)
    BY Zenon DEF Plain
<1>3. Layings' = Layings
    BY Zenon DEF Layings
<1> QED BY <1>1, <1>2, <1>3 DEF Sound, Complete

\* At a wildcard the loop notes where it stands.
LEMMA MeetStarKeeps == MatchInv /\ MeetStar => MatchInv'
<1> SUFFICES ASSUME MatchInv, MeetStar PROVE MatchInv'
    OBVIOUS
<1>1. /\ Len(pat) \in Nat /\ Len(txt) \in Nat /\ p \in 1 .. Len(pat) /\ t \in 1 .. Len(txt)
      /\ pat[p] = "*" /\ match = "running" /\ star' = p /\ star_match' = t /\ p' = p + 1
      /\ t' = t /\ pat' = pat /\ txt' = txt /\ match' = match
    BY DEF MatchInv, MatchTypes, MeetStar, Matching, AtStar
<1>2. MatchTypes /\ Sound /\ Complete
    BY DEF MatchInv
<1>3. MatchTypes'
    BY <1>1, <1>2 DEF MatchTypes
<1>4. MatchKept
    BY <1>1 DEF MatchKept
<1>5. p - 1 \in 0 .. Len(pat) - 1 /\ t - 1 \in 0 .. Len(txt) /\ (p - 1) + 1 = p
    BY <1>1
<1>6. LaidTo(p - 1, t - 1) # {}
    BY <1>2 DEF Sound
<1>7. LaidTo(p, t - 1) # {}
    <2>1. LaidTo((p - 1) + 1, t - 1) # {}
        BY <1>1, <1>2, <1>5, <1>6, LayingGrows
    <2> QED BY <1>5, <2>1
<1>8. Sound'
    <2>1. p' - 1 = p /\ t' - 1 = t - 1 /\ star' = p /\ star_match' - 1 = t - 1
        BY <1>1
    <2>2. (LaidTo(p - 1, t - 1) # {})' /\ (LaidTo(star, star_match - 1) # {})'
        BY <1>1, <1>7, <2>1 DEF LaidTo
    <2>3. pat'[star'] = "*" /\ star' < p' /\ p' - star' - 1 = t' - star_match' /\ star' # NoStar
        BY <1>1 DEF NoStar
    <2>4. Plain(star + 1, p - 1)'
        BY <1>1 DEF Plain
    <2> QED BY <2>2, <2>3, <2>4 DEF Sound
<1>9. Complete'
    <2>1. ASSUME NEW f \in Layings PROVE f[p] >= t - 1
        <3>1. f[p - 1] >= t - 1 /\ f[p - 1] \in 0 .. Len(txt)
            BY <1>2, LoopIsLeast
        <3>2. f[p - 1] <= f[p]
            BY <1>1, <1>2, <1>5, LayingRises
        <3>3. f[p] \in 0 .. Len(txt)
            BY <1>1 DEF Layings
        <3> QED BY <1>1, <3>1, <3>2, <3>3
    <2> QED BY <1>1, <1>4, <2>1, LaidKept DEF Complete
<1> QED BY <1>1, <1>3, <1>8, <1>9 DEF MatchInv, MatcherExact

\* Equal characters are laid on each other.
LEMMA MeetEqualKeeps == MatchInv /\ MeetEqual => MatchInv'
<1> SUFFICES ASSUME MatchInv, MeetEqual PROVE MatchInv'
    OBVIOUS
<1>1. /\ Len(pat) \in Nat /\ Len(txt) \in Nat /\ p \in 1 .. Len(pat) /\ t \in 1 .. Len(txt)
      /\ pat[p] # "*" /\ pat[p] = txt[t] /\ match = "running" /\ p' = p + 1 /\ t' = t + 1
      /\ star' = star /\ star_match' = star_match /\ pat' = pat /\ txt' = txt /\ match' = match
      /\ star \in 0 .. Len(pat) /\ star_match \in 1 .. Len(txt) + 1
    BY DEF MatchInv, MatchTypes, MeetEqual, Matching, AtEqual
<1>2. MatchTypes /\ Sound /\ Complete
    BY DEF MatchInv
<1>3. MatchTypes'
    BY <1>1, <1>2 DEF MatchTypes
<1>4. MatchKept
    BY <1>1 DEF MatchKept
<1>5. /\ p - 1 \in 0 .. Len(pat) - 1 /\ t - 1 \in 0 .. Len(txt) /\ (p - 1) + 1 = p /\ t = (t - 1) + 1
      /\ t \in 0 .. Len(txt)
    BY <1>1
<1>6. LaidTo(p - 1, t - 1) # {}
    BY <1>2 DEF Sound
<1>7. LaidTo(p, t) # {}
    <2>1. LaidTo((p - 1) + 1, t) # {}
        BY <1>1, <1>2, <1>5, <1>6, LayingGrows
    <2> QED BY <1>5, <2>1
<1>8. Sound'
    <2>1. p' - 1 = p /\ t' - 1 = t
        BY <1>1
    <2>2. (LaidTo(p - 1, t - 1) # {})'
        <3>1. LaidTo(p - 1, t - 1)' = LaidTo(p, t)
            BY <1>1, <2>1, Zenon DEF LaidTo
        <3> QED BY <1>7, <3>1
    <2>3. CASE star = NoStar
        <3>1. p' = t'
            BY <1>1, <1>2, <2>3 DEF Sound
        <3>2. Plain(1, p - 1)'
            BY <1>1, <1>2, <2>3 DEF Sound, Plain
        <3> QED BY <1>1, <2>2, <2>3, <3>1, <3>2 DEF Sound
    <2>4. CASE star # NoStar
        <3>1. /\ pat[star] = "*" /\ star < p /\ p - star - 1 = t - star_match /\ Plain(star + 1, p - 1)
              /\ LaidTo(star, star_match - 1) # {}
            BY <1>2, <2>4 DEF Sound
        <3>2. pat'[star'] = "*" /\ star' < p' /\ p' - star' - 1 = t' - star_match'
            BY <1>1, <3>1
        <3>3. Plain(star + 1, p - 1)'
            BY <1>1, <3>1 DEF Plain
        <3>4. (LaidTo(star, star_match - 1) # {})'
            BY <1>1, <3>1 DEF LaidTo
        <3> QED BY <1>1, <2>2, <2>4, <3>2, <3>3, <3>4 DEF Sound
    <2> QED BY <2>3, <2>4
<1>9. Complete'
    BY <1>1, <1>2, <1>4, LaidKept DEF Complete
<1> QED BY <1>1, <1>3, <1>8, <1>9 DEF MatchInv, MatcherExact

\* The loop cannot go on: no way to lay the pattern is where the loop is.
LEMMA NoneHere ==
    ASSUME MatchTypes, Matching, ~AtStar, ~AtEqual, NEW f \in Layings, f[p - 1] = t - 1
    PROVE  FALSE
<1>1. /\ Len(pat) \in Nat /\ Len(txt) \in Nat /\ p \in 1 .. Len(pat) + 1 /\ t \in 1 .. Len(txt)
      /\ f \in [0 .. Len(pat) -> 0 .. Len(txt)] /\ f[Len(pat)] = Len(txt)
    BY DEF MatchTypes, Layings, Matching
<1>2. CASE p = Len(pat) + 1
    <2>1. p - 1 = Len(pat)
        BY <1>1, <1>2
    <2> QED BY <1>1, <2>1
<1>3. CASE p # Len(pat) + 1
    <2>1. p \in 1 .. Len(pat) /\ pat[p] # "*" /\ pat[p] # txt[t]
        BY <1>1, <1>3 DEF AtStar, AtEqual
    <2>2. f[p] = f[p - 1] + 1 /\ txt[f[p]] = pat[p]
        BY <2>1 DEF Layings
    <2>3. f[p] = t
        BY <1>1, <2>2
    <2> QED BY <2>1, <2>2, <2>3
<1> QED BY <1>2, <1>3

\* At a mismatch the last wildcard takes one character more.
LEMMA BacktrackKeeps == MatchInv /\ Backtrack => MatchInv'
<1> SUFFICES ASSUME MatchInv, Backtrack PROVE MatchInv'
    OBVIOUS
<1>1. /\ Len(pat) \in Nat /\ Len(txt) \in Nat /\ p \in 1 .. Len(pat) + 1 /\ t \in 1 .. Len(txt)
      /\ star \in 0 .. Len(pat) /\ star_match \in 1 .. Len(txt) + 1 /\ match = "running"
      /\ star' = star /\ pat' = pat /\ txt' = txt
    BY DEF MatchInv, MatchTypes, Backtrack, Matching
<1>2. MatchTypes /\ Sound /\ Complete /\ Matching /\ ~AtStar /\ ~AtEqual
    BY DEF MatchInv, Backtrack
<1>3. MatchKept
    BY <1>1 DEF MatchKept
<1>4. CASE star = NoStar
    <2>1. match' = "no" /\ p' = p /\ t' = t /\ star_match' = star_match
        BY <1>4 DEF Backtrack
    <2>2. Layings = {}
        BY <1>2, <1>4, LoopIsLeast, NoneHere
    <2>3. MatchTypes' /\ Sound' /\ Complete'
        BY <1>1, <1>2, <2>1, LoopStands DEF MatchTypes
    <2> QED BY <1>3, <2>1, <2>2, <2>3, LaidKept DEF MatchInv, MatcherExact
<1>5. CASE star # NoStar
    <2>1. match' = match /\ p' = star + 1 /\ t' = star_match + 1 /\ star_match' = star_match + 1
        BY <1>5 DEF Backtrack
    <2>2. /\ pat[star] = "*" /\ star < p /\ p - star - 1 = t - star_match
          /\ LaidTo(star, star_match - 1) # {}
        BY <1>2, <1>5 DEF Sound
    <2>3. star_match \in 1 .. Len(txt) /\ star \in 1 .. Len(pat)
        BY <1>1, <1>5, <2>2 DEF NoStar
    <2>4. MatchTypes'
        BY <1>1, <1>2, <2>1, <2>3 DEF MatchTypes
    <2>5. LaidTo(star, star_match) # {}
        <3>1. star_match - 1 \in 0 .. Len(txt) /\ star_match \in 0 .. Len(txt) /\ star_match - 1 <= star_match
            BY <1>1, <2>3
        <3> QED BY <1>2, <2>2, <2>3, <3>1, WildcardTakes
    <2>6. Sound'
        <3>1. p' - 1 = star /\ t' - 1 = star_match /\ star_match' - 1 = star_match
            BY <1>1, <2>1
        <3>2. (LaidTo(p - 1, t - 1) # {})' /\ (LaidTo(star, star_match - 1) # {})'
            BY <1>1, <2>5, <3>1 DEF LaidTo
        <3>3. pat'[star'] = "*" /\ star' < p' /\ p' - star' - 1 = t' - star_match'
            BY <1>1, <2>1, <2>2
        <3>4. Plain(star + 1, p - 1)'
            BY <1>1, <2>1 DEF Plain
        <3> QED BY <1>1, <1>5, <3>2, <3>3, <3>4 DEF Sound
    <2>7. Complete'
        <3>1. ASSUME NEW f \in Layings PROVE f[star] >= star_match
            <4>1. f[star] \in 0 .. Len(txt) /\ f[star] >= star_match - 1
                BY <1>1, <1>2, <1>5 DEF Layings, Complete
            <4>2. f[p - 1] # t - 1
                BY <1>2, NoneHere
            <4>3. f[p - 1] - (t - 1) = f[star] - (star_match - 1) /\ f[p - 1] \in 0 .. Len(txt)
                BY <1>2, <1>5, LoopIsLeast
            <4> QED BY <1>1, <4>1, <4>2, <4>3
        <3>2. star_match' - 1 = star_match
            BY <1>1, <2>1
        <3> QED BY <1>1, <1>3, <3>1, <3>2, LaidKept DEF Complete
    <2> QED BY <1>1, <2>1, <2>4, <2>6, <2>7 DEF MatchInv, MatcherExact
<1> QED BY <1>4, <1>5

\* At the end of the name what is left of the pattern decides.
LEMMA EndOfNameKeeps == MatchInv /\ EndOfName => MatchInv'
<1> SUFFICES ASSUME MatchInv, EndOfName PROVE MatchInv'
    OBVIOUS
<1>1. /\ Len(pat) \in Nat /\ Len(txt) \in Nat /\ p \in 1 .. Len(pat) + 1 /\ t = Len(txt) + 1
      /\ UNCHANGED <<pat, txt, p, t, star, star_match>>
    BY DEF MatchInv, MatchTypes, EndOfName
<1>2. MatchTypes /\ Sound /\ Complete
    BY DEF MatchInv
<1>3. match' \in {"yes", "no"} /\ (match' = "yes" <=> \A i \in p .. Len(pat) : pat[i] = "*")
    BY DEF EndOfName
<1>4. MatchTypes' /\ Sound' /\ Complete'
    <2>1. MatchTypes'
        BY <1>1, <1>2, <1>3 DEF MatchTypes
    <2>2. Sound' /\ Complete'
        BY <1>1, <1>2, LoopStands
    <2> QED BY <2>1, <2>2
<1>5. (\A i \in p .. Len(pat) : pat[i] = "*") => Layings # {}
    <2>1. t - 1 = Len(txt)
        BY <1>1
    <2> QED BY <1>2, <2>1, WildcardsEnd DEF Sound
<1>6. ASSUME NEW f \in Layings, NEW i \in p .. Len(pat), pat[i] # "*" PROVE FALSE
    <2>1. i \in 1 .. Len(pat) /\ i - 1 \in 0 .. Len(pat) /\ p - 1 \in 0 .. Len(pat) /\ p - 1 <= i - 1
        BY <1>1
    <2>2. f[i - 1] \in 0 .. Len(txt) /\ f[i] \in 0 .. Len(txt) /\ f[i] = f[i - 1] + 1
        BY <1>6, <2>1 DEF Layings
    <2>3. f[p - 1] <= f[i - 1]
        BY <1>2, <2>1, LayingRises
    <2>4. f[p - 1] >= t - 1 /\ f[p - 1] \in 0 .. Len(txt)
        BY <1>2, LoopIsLeast
    <2> QED BY <1>1, <2>2, <2>3, <2>4
<1>7. MatcherExact'
    BY <1>1, <1>3, <1>5, <1>6 DEF MatcherExact, Layings
<1> QED BY <1>4, <1>7 DEF MatchInv

\* pattern_matches answers yes exactly for the names the pattern stands for.
THEOREM MatcherAnswers == MatchSpec => []MatchInv
<1>1. MatchInit => MatchInv
    BY MatchStarts
<1>2. MatchInv /\ [pattern_matches]_matchVars => MatchInv'
    <2> SUFFICES ASSUME MatchInv, [pattern_matches]_matchVars PROVE MatchInv'
        OBVIOUS
    <2>1. CASE UNCHANGED matchVars
        <3>1. MatchTypes' /\ Sound' /\ Complete'
            BY <2>1, LoopStands DEF matchVars, MatchInv, MatchTypes
        <3>2. MatcherExact'
            BY <2>1 DEF matchVars, MatchInv, MatcherExact, Layings
        <3> QED BY <3>1, <3>2 DEF MatchInv
    <2> QED BY <2>1, MeetStarKeeps, MeetEqualKeeps, BacktrackKeeps, EndOfNameKeeps DEF pattern_matches
<1> QED BY <1>1, <1>2, PTL DEF MatchSpec

-----------------------------------------------------------------------------
(* The weighted choice.                                                      *)

GroupTypes == group \in Seq(Int)

\* The weights of the first routes are summed up from left to right.
LEMMA WeightEquation ==
    ASSUME GroupTypes
    PROVE  WeightTo = [i \in 0 .. Len(group) |-> IF i = 0 THEN 0 ELSE WeightTo[i - 1] + weight_of(group[i])]
<1>1. PICK n \in Nat : n = Len(group)
    BY DEF GroupTypes
<1> DEFINE step == [i \in 1 .. n |-> [x \in Int |-> x + weight_of(group[i])]]
<1>2. \A i \in 1 .. n : weight_of(group[i]) \in Int
    BY <1>1 DEF weight_of, GroupTypes
<1>3. step \in [1 .. n -> [Int -> Int]]
    BY <1>2
<1>4. PICK f \in Runs(n, Int, 0, step) : TRUE
    <2> HIDE DEF step
    <2>1. Runs(n, Int, 0, step) # {}
        BY <1>3, 0 \in Int, RunExists, Zenon
    <2> QED BY <2>1
<1>5. f = [i \in 0 .. n |-> IF i = 0 THEN 0 ELSE step[i][f[i - 1]]]
    <2> HIDE DEF step
    <2> QED BY <1>4, RunIsRecursive
<1>6. f = [i \in 0 .. n |-> IF i = 0 THEN 0 ELSE f[i - 1] + weight_of(group[i])]
    <2>1. \A i \in 1 .. n : step[i][f[i - 1]] = f[i - 1] + weight_of(group[i])
        <3> TAKE i \in 1 .. n
        <3>1. i - 1 \in 0 .. n
            OBVIOUS
        <3>2. f[i - 1] \in Int
            BY <1>4, <3>1 DEF Runs
        <3> QED BY <3>2
    <2> HIDE DEF step
    <2>2. \A i \in 0 .. n : f[i] = IF i = 0 THEN 0 ELSE f[i - 1] + weight_of(group[i])
        <3> TAKE i \in 0 .. n
        <3>1. i = 0 \/ i \in 1 .. n
            OBVIOUS
        <3> QED BY <1>5, <2>1, <3>1
    <2>3. f = [i \in 0 .. n |-> f[i]]
        BY <1>4 DEF Runs
    <2> QED BY <2>2, <2>3
<1>7. WeightTo = CHOOSE g : g = [i \in 0 .. n |-> IF i = 0 THEN 0 ELSE g[i - 1] + weight_of(group[i])]
    BY <1>1, Zenon DEF WeightTo
<1> HIDE DEF step
<1> QED BY <1>1, <1>6, <1>7, Zenon

\* They are numbers, and rise by the weight of each route.
LEMMA WeightRises ==
    ASSUME GroupTypes
    PROVE  /\ WeightTo[0] = 0
           /\ \A i \in 0 .. Len(group) : WeightTo[i] \in Nat
           /\ \A i \in 1 .. Len(group) : /\ WeightTo[i] = WeightTo[i - 1] + weight_of(group[i])
                                         /\ weight_of(group[i]) \in Nat \ {0}
<1>1. PICK n \in Nat : n = Len(group)
    BY DEF GroupTypes
<1>2. ASSUME NEW i \in 0 .. n
      PROVE  WeightTo[i] = IF i = 0 THEN 0 ELSE WeightTo[i - 1] + weight_of(group[i])
    <2> DEFINE rhs == [k \in 0 .. n |-> IF k = 0 THEN 0 ELSE WeightTo[k - 1] + weight_of(group[k])]
    <2>1. WeightTo = rhs
        BY <1>1, WeightEquation
    <2>2. rhs[i] = IF i = 0 THEN 0 ELSE WeightTo[i - 1] + weight_of(group[i])
        OBVIOUS
    <2> HIDE DEF rhs
    <2> QED BY <2>1, <2>2
<1>3. WeightTo[0] = 0
    BY <1>2
<1>4. \A i \in 1 .. n : weight_of(group[i]) \in Nat \ {0}
    BY <1>1 DEF weight_of, GroupTypes
<1>5. \A i \in 1 .. n : WeightTo[i] = WeightTo[i - 1] + weight_of(group[i])
    BY <1>2
<1>6. \A i \in 0 .. n : WeightTo[i] \in Nat
    <2>1. \A i \in 1 .. n : WeightTo[i - 1] \in Nat => WeightTo[i] \in Nat
        BY <1>4, <1>5
    <2>2. WeightTo[0] \in Nat
        BY <1>3
    <2> QED BY <2>1, <2>2, RunStays, Zenon
<1> QED BY <1>1, <1>3, <1>4, <1>5, <1>6

\* They are in order.
LEMMA WeightOrdered ==
    ASSUME GroupTypes, NEW i \in 0 .. Len(group), NEW j \in 0 .. Len(group), i <= j
    PROVE  WeightTo[i] <= WeightTo[j]
<1>1. PICK n \in Nat : n = Len(group)
    BY DEF GroupTypes
<1> DEFINE S == {k \in 0 .. n : i <= k => WeightTo[i] <= WeightTo[k]}
<1>2. \A k \in 0 .. n : WeightTo[k] \in Nat
    BY <1>1, WeightRises
<1>3. 0 \in S
    BY <1>1, <1>2
<1>4. ASSUME NEW k \in 0 .. n - 1, k \in S PROVE k + 1 \in S
    <2>1. k + 1 \in 1 .. n /\ (k + 1) - 1 = k /\ k \in 0 .. n /\ i \in 0 .. n /\ k + 1 \in 0 .. n
        BY <1>1
    <2>2. WeightTo[k + 1] = WeightTo[(k + 1) - 1] + weight_of(group[k + 1]) /\ weight_of(group[k + 1]) \in Nat \ {0}
        BY <1>1, <2>1, WeightRises
    <2>3. WeightTo[k] \in Nat /\ WeightTo[i] \in Nat /\ WeightTo[k + 1] \in Nat
        BY <1>2, <2>1
    <2>4. WeightTo[k + 1] >= WeightTo[k]
        BY <2>1, <2>2, <2>3
    <2>5. i <= k + 1 => i <= k \/ i = k + 1
        BY <1>1
    <2> QED BY <1>4, <2>1, <2>3, <2>4, <2>5
<1> HIDE DEF S
<1>5. \A k \in 0 .. n : k \in S
    BY <1>3, <1>4, BoundedInduction
<1> QED BY <1>1, <1>5 DEF S

\* A number goes to the route in whose stretch it lies.
LEMMA PickedIn ==
    ASSUME GroupTypes, NEW d \in 0 .. TotalWeight - 1, NEW i \in 1 .. Len(group)
    PROVE  weighted_pick(d) = i <=> WeightTo[i - 1] <= d /\ d < WeightTo[i]
<1>1. PICK n \in Nat : n = Len(group)
    BY DEF GroupTypes
<1> DEFINE H == {k \in 1 .. n : d < WeightTo[k]}
<1>2. \A k \in 0 .. n : WeightTo[k] \in Nat
    BY <1>1, WeightRises
<1>0. WeightTo[0] = 0
    BY WeightRises
<1>3. DOMAIN group = 1 .. n
    BY <1>1 DEF GroupTypes
<1>4. d \in Nat /\ d < WeightTo[n] /\ n \in 1 .. n
    BY <1>1, <1>2 DEF TotalWeight
<1>5. weighted_pick(d) = CHOOSE x \in H : \A y \in H : x <= y
    BY <1>3 DEF weighted_pick, Min
<1>6. ASSUME NEW k \in H PROVE (\A y \in H : k <= y) <=> WeightTo[k - 1] <= d
    <2>1. k \in 1 .. n /\ k - 1 \in 0 .. n /\ WeightTo[k - 1] \in Nat
        BY <1>2
    <2>2. ASSUME WeightTo[k - 1] > d PROVE \E y \in H : y < k
        <3>1. k - 1 # 0
            BY <1>0, <1>4, <2>2
        <3> QED BY <2>1, <2>2, <3>1
    <2>3. ASSUME WeightTo[k - 1] <= d, NEW y \in H PROVE k <= y
        <3> SUFFICES ASSUME y < k PROVE FALSE
            BY <2>1
        <3>1. y \in 0 .. n /\ y <= k - 1 /\ d < WeightTo[y] /\ WeightTo[y] \in Nat
            BY <1>2, <2>1
        <3>2. WeightTo[y] <= WeightTo[k - 1]
            BY <1>1, <2>1, <3>1, WeightOrdered
        <3> QED BY <1>4, <2>1, <2>3, <3>1, <3>2
    <2> QED BY <1>4, <2>1, <2>2, <2>3
<1>7. \E x \in H : \A y \in H : x <= y
    <2> DEFINE S == {k \in 0 .. n : WeightTo[k] <= d}
    <2> SUFFICES ASSUME ~ \E x \in H : \A y \in H : x <= y PROVE FALSE
        OBVIOUS
    <2>1. 0 \in S
        BY <1>0, <1>4
    <2>2. ASSUME NEW k \in 0 .. n - 1, k \in S PROVE k + 1 \in S
        <3>1. k + 1 \in 1 .. n /\ (k + 1) - 1 = k /\ WeightTo[k] \in Nat /\ WeightTo[k + 1] \in Nat /\ WeightTo[k] <= d
            BY <1>2, <2>2
        <3>2. ASSUME WeightTo[k + 1] > d PROVE FALSE
            <4>1. k + 1 \in H
                BY <3>1, <3>2
            <4> HIDE DEF H
            <4> QED BY <1>6, <3>1, <4>1
        <3> QED BY <1>4, <3>1, <3>2
    <2> HIDE DEF S
    <2>3. \A k \in 0 .. n : k \in S
        BY <2>1, <2>2, BoundedInduction
    <2> QED BY <1>2, <1>4, <2>3 DEF S
<1>8. \A x, z \in H : (\A y \in H : x <= y) /\ (\A y \in H : z <= y) => x = z
    OBVIOUS
<1>9. i \in H <=> d < WeightTo[i]
    BY <1>1
<1> HIDE DEF H
<1>10. weighted_pick(d) \in H /\ \A y \in H : weighted_pick(d) <= y
    BY <1>5, <1>7
<1> QED BY <1>6, <1>8, <1>9, <1>10

\* Each route is drawn in proportion to its weight.
LEMMA PickIsProportional == GroupTypes => PickProportional
<1> SUFFICES ASSUME GroupTypes, NEW i \in DOMAIN group
             PROVE  Cardinality({d \in 0 .. TotalWeight - 1 : weighted_pick(d) = i}) = weight_of(group[i])
    BY DEF PickProportional
<1>1. PICK n \in Nat : n = Len(group)
    BY DEF GroupTypes
<1>2. i \in 1 .. n /\ i - 1 \in 0 .. n /\ i \in 0 .. n /\ n \in 0 .. n /\ i <= n
    BY <1>1 DEF GroupTypes
<1>3. PICK a \in Nat, b \in Nat, w \in Nat :
        a = WeightTo[i - 1] /\ b = WeightTo[i] /\ w = WeightTo[n]
    BY <1>1, <1>2, WeightRises
<1>4. b = a + weight_of(group[i]) /\ weight_of(group[i]) \in Nat \ {0}
    BY <1>1, <1>2, <1>3, WeightRises
<1>5. b <= w
    BY <1>1, <1>2, <1>3, WeightOrdered
<1>6. TotalWeight = w
    BY <1>1, <1>3 DEF TotalWeight
<1>7. ASSUME NEW d \in 0 .. TotalWeight - 1 PROVE weighted_pick(d) = i <=> a <= d /\ d < b
    BY <1>1, <1>2, <1>3, PickedIn
<1>8. {d \in 0 .. TotalWeight - 1 : weighted_pick(d) = i} = a .. b - 1
    <2>1. \A d \in 0 .. w - 1 : weighted_pick(d) = i <=> a <= d /\ d < b
        BY <1>6, <1>7
    <2>2. a .. b - 1 \subseteq 0 .. w - 1
        BY <1>5
    <2> QED BY <1>6, <2>1, <2>2
<1>9. Cardinality(a .. b - 1) = (b - 1) - a + 1
    <2>1. a \in Int /\ b - 1 \in Int /\ ~(a > b - 1)
        BY <1>4
    <2> QED BY <2>1, FS_Interval
<1>10. (b - 1) - a + 1 = weight_of(group[i])
    BY <1>4
<1> QED BY <1>8, <1>9, <1>10

-----------------------------------------------------------------------------
(* The sticky map.                                                           *)

StickyInv ==
    /\ ticks \in 0 .. MaxTicks
    /\ IsFiniteSet(DOMAIN sticky) /\ DOMAIN sticky \subseteq StickyKeys \cap DOMAIN served
    /\ StickyHonest

\* Where room was made there is room, and what is left is as it was.
LEMMA RoomMade ==
    ASSUME StickyInv, NEW room \in MakeRoom(sticky)
    PROVE  /\ DOMAIN room \subseteq DOMAIN sticky /\ IsFiniteSet(DOMAIN room)
           /\ Cardinality(DOMAIN room) \in Nat /\ Cardinality(DOMAIN room) < StickyCap
           /\ \A x \in DOMAIN room : room[x] = sticky[x]
<1>1. IsFiniteSet(DOMAIN sticky) /\ Cardinality(DOMAIN sticky) <= StickyCap /\ Cardinality(DOMAIN sticky) \in Nat
    BY FS_CardinalityType DEF StickyInv, StickyHonest
<1>2. CASE Cardinality(DOMAIN sticky) < StickyCap
    BY <1>1, <1>2 DEF MakeRoom
<1>3. CASE ~(Cardinality(DOMAIN sticky) < StickyCap)
    <2> DEFINE fresh == Only(sticky, Fresh(sticky))
               oldest == {k \in DOMAIN fresh : \A j \in DOMAIN fresh : fresh[k].at <= fresh[j].at}
    <2>1. DOMAIN fresh = Fresh(sticky) /\ Fresh(sticky) \subseteq DOMAIN sticky
        BY DEF Only, Fresh
    <2>2. \A x \in DOMAIN fresh : fresh[x] = sticky[x]
        BY DEF Only
    <2>3. room \in (IF Cardinality(DOMAIN fresh) < StickyCap THEN {fresh}
                    ELSE {Only(fresh, DOMAIN fresh \ {k}) : k \in oldest})
        BY <1>3 DEF MakeRoom
    <2>4. oldest \subseteq DOMAIN fresh
        OBVIOUS
    <2> HIDE DEF fresh, oldest
    <2>5. IsFiniteSet(DOMAIN fresh) /\ Cardinality(DOMAIN fresh) <= Cardinality(DOMAIN sticky)
          /\ Cardinality(DOMAIN fresh) \in Nat
        BY <1>1, <2>1, FS_Subset, FS_CardinalityType
    <2>6. CASE Cardinality(DOMAIN fresh) < StickyCap
        BY <2>1, <2>2, <2>3, <2>5, <2>6
    <2>7. CASE ~(Cardinality(DOMAIN fresh) < StickyCap)
        <3>1. PICK k \in DOMAIN fresh : room = Only(fresh, DOMAIN fresh \ {k})
            BY <2>3, <2>4, <2>7
        <3>2. DOMAIN room = DOMAIN fresh \ {k} /\ \A x \in DOMAIN room : room[x] = fresh[x]
            BY <3>1 DEF Only
        <3>3. IsFiniteSet(DOMAIN room) /\ Cardinality(DOMAIN room) = Cardinality(DOMAIN fresh) - 1
            BY <2>5, <3>2, FS_RemoveElement
        <3>4. Cardinality(DOMAIN room) \in Nat
            BY <3>3, FS_CardinalityType
        <3> QED BY <1>1, <2>1, <2>2, <2>5, <3>2, <3>3, <3>4, RoutingAssumption
    <2> QED BY <2>6, <2>7
<1> QED BY <1>2, <1>3

\* A pin, with the eviction that makes room for it, keeps the map honest.
LEMMA StickyPinKeeps ==
    ASSUME StickyInv, NEW k \in StickyKeys, NEW u \in Homes, sticky_pin(k, u)
    PROVE  StickyInv'
<1>1. PICK room \in MakeRoom(sticky) : sticky' = Put(room, k, [up |-> u, at |-> ticks])
    BY DEF sticky_pin
<1>2. served' = Put(served, k, [up |-> u, at |-> ticks]) /\ ticks' = ticks
    BY DEF sticky_pin
<1>3. /\ DOMAIN room \subseteq DOMAIN sticky /\ IsFiniteSet(DOMAIN room)
      /\ Cardinality(DOMAIN room) \in Nat /\ Cardinality(DOMAIN room) < StickyCap
      /\ \A x \in DOMAIN room : room[x] = sticky[x]
    BY RoomMade
<1>4. DOMAIN sticky' = DOMAIN room \cup {k} /\ DOMAIN served' = DOMAIN served \cup {k}
    BY <1>1, <1>2 DEF Put
<1>5. IsFiniteSet(DOMAIN sticky') /\ Cardinality(DOMAIN sticky') <= StickyCap
    <2>1. /\ IsFiniteSet(DOMAIN room \cup {k})
          /\ Cardinality(DOMAIN room \cup {k}) =
                IF k \in DOMAIN room THEN Cardinality(DOMAIN room) ELSE Cardinality(DOMAIN room) + 1
        BY <1>3, FS_AddElement, Zenon
    <2>2. Cardinality(DOMAIN room \cup {k}) <= StickyCap
        BY <1>3, <2>1, RoutingAssumption
    <2> QED BY <1>4, <2>1, <2>2
<1>6. \A x \in DOMAIN sticky' : sticky'[x] = served'[x]
    BY <1>1, <1>2, <1>3, <1>4 DEF Put, StickyInv, StickyHonest
<1> QED BY <1>2, <1>3, <1>4, <1>5, <1>6 DEF StickyInv, StickyHonest

\* A look-up that refreshes or drops an entry keeps the map honest.
LEMMA StickyGetKeeps ==
    ASSUME StickyInv, NEW k \in StickyKeys, sticky_get(k)
    PROVE  StickyInv'
<1>1. k \in DOMAIN sticky /\ ticks' = ticks
    BY DEF sticky_get
<1>2. CASE k \in Fresh(sticky)
    <2>1. /\ sticky' = Put(sticky, k, [up |-> sticky[k].up, at |-> ticks])
          /\ served' = Put(served, k, [up |-> sticky[k].up, at |-> ticks])
        BY <1>2 DEF sticky_get
    <2>2. DOMAIN sticky' = DOMAIN sticky /\ DOMAIN served' = DOMAIN served \cup {k}
        BY <1>1, <2>1 DEF Put
    <2>3. \A x \in DOMAIN sticky' : sticky'[x] = served'[x]
        BY <1>1, <2>1, <2>2 DEF Put, StickyInv, StickyHonest
    <2> QED BY <1>1, <2>2, <2>3 DEF StickyInv, StickyHonest
<1>3. CASE k \notin Fresh(sticky)
    <2>1. sticky' = Only(sticky, DOMAIN sticky \ {k}) /\ served' = served
        BY <1>3 DEF sticky_get
    <2>2. DOMAIN sticky' = DOMAIN sticky \ {k} /\ \A x \in DOMAIN sticky' : sticky'[x] = sticky[x]
        BY <2>1 DEF Only
    <2>3. Cardinality(DOMAIN sticky) \in Nat /\ Cardinality(DOMAIN sticky) <= StickyCap
        BY FS_CardinalityType DEF StickyInv, StickyHonest
    <2>4. IsFiniteSet(DOMAIN sticky') /\ Cardinality(DOMAIN sticky') = Cardinality(DOMAIN sticky) - 1
        BY <1>1, <2>2, FS_RemoveElement DEF StickyInv
    <2>5. Cardinality(DOMAIN sticky') <= StickyCap
        BY <2>3, <2>4, RoutingAssumption
    <2> QED BY <1>1, <2>1, <2>2, <2>4, <2>5 DEF StickyInv, StickyHonest
<1> QED BY <1>2, <1>3

\* The sticky map keeps to its capacity and names the upstream that served last.
THEOREM StickyIsHonest == StickySpec => []StickyInv
<1>1. StickyInit => StickyInv
    <2> SUFFICES ASSUME StickyInit PROVE StickyInv
        OBVIOUS
    <2>1. DOMAIN sticky = {} /\ ticks = 0
        BY DEF StickyInit
    <2>2. IsFiniteSet(DOMAIN sticky) /\ Cardinality(DOMAIN sticky) = 0
        BY <2>1, FS_EmptySet
    <2> QED BY <2>1, <2>2, RoutingAssumption DEF StickyInv, StickyHonest
<1>2. StickyInv /\ [StickyNext]_stickyVars => StickyInv'
    <2> SUFFICES ASSUME StickyInv, [StickyNext]_stickyVars PROVE StickyInv'
        OBVIOUS
    <2>1. CASE StickyTick
        BY <2>1, RoutingAssumption DEF StickyTick, StickyInv, StickyHonest
    <2>2. CASE UNCHANGED stickyVars
        BY <2>2 DEF stickyVars, StickyInv, StickyHonest
    <2> QED BY <2>1, <2>2, StickyPinKeeps, StickyGetKeeps DEF StickyNext
<1> QED BY <1>1, <1>2, PTL DEF StickySpec

-----------------------------------------------------------------------------
\* Choosing a route does what it stands for: for patterns and names, groups and tables of any
\* size, the matcher answers for exactly the names of the pattern, the draw is proportional to
\* the weights, and the sticky map is within its capacity and names the upstream that served last.
THEOREM RoutingIsExact == MatchSpec /\ PickSpec /\ StickySpec => []RoutingExact
<1>1. PickSpec => []GroupTypes
    <2>1. PickInit => GroupTypes
        <3> SUFFICES ASSUME PickInit PROVE GroupTypes
            OBVIOUS
        <3>1. PICK m \in 0 .. MaxGroup : group \in [1 .. m -> Weights]
            BY DEF PickInit, BoundedSeq, SeqOf
        <3>2. group \in [1 .. m -> Int] /\ m \in Nat
            <4>1. m \in Nat /\ Weights \subseteq Int
                BY <3>1, RoutingAssumption
            <4> QED BY <3>1, <4>1
        <3> QED BY <3>2 DEF GroupTypes
    <2>2. GroupTypes /\ [UNCHANGED group]_group => GroupTypes'
        BY DEF GroupTypes
    <2> QED BY <2>1, <2>2, PTL DEF PickSpec
<1>2. MatchInv /\ GroupTypes /\ StickyInv => RoutingExact
    <2> SUFFICES ASSUME MatchInv, GroupTypes, StickyInv PROVE RoutingExact
        OBVIOUS
    <2>1. p \in 1 .. MaxPattern + 1 /\ t \in 1 .. MaxName + 1 /\ match \in {"running", "yes", "no"}
        <3>1. Len(pat) \in Nat /\ Len(txt) \in Nat
            BY DEF MatchInv, MatchTypes
        <3> QED BY <3>1, RoutingAssumption DEF MatchInv, MatchTypes
    <2>2. RoutingTypeOK
        BY <2>1 DEF RoutingTypeOK, StickyInv
    <2> QED BY <2>2, PickIsProportional DEF RoutingExact, MatchInv, StickyInv
<1> QED BY <1>1, <1>2, MatcherAnswers, StickyIsHonest, PTL

-----------------------------------------------------------------------------
(* Nets: comparing quotients is comparing the first bits.                    *)

\* Pow2 satisfies its equation and is positive.
LEMMA PowersOfTwo ==
    /\ Pow2[0] = 1
    /\ \A n \in Nat : Pow2[n] \in Nat \ {0} /\ Pow2[n + 1] = 2 * Pow2[n]
<1> DEFINE step == [n \in Nat |-> [x \in Nat |-> 2 * x]]
<1>1. step \in [Nat -> [Nat -> Nat]]
    OBVIOUS
<1>1a. 1 \in Nat
    OBVIOUS
<1>2. PICK f \in [Nat -> Nat] : f[0] = 1 /\ \A n \in Nat : f[n + 1] = step[n + 1][f[n]]
    <2> HIDE DEF step
    <2>1. Solutions(Nat, 1, step) # {}
        BY <1>1, <1>1a, RecursionExists, Zenon
    <2> QED BY <2>1 DEF Solutions
<1>3. \A n \in Nat : f[n + 1] = 2 * f[n]
    <2> TAKE n \in Nat
    <2>1. n + 1 \in Nat /\ f[n] \in Nat
        BY <1>2
    <2>2. step[n + 1][f[n]] = 2 * f[n]
        BY <2>1
    <2> HIDE DEF step
    <2> QED BY <1>2, <2>2
<1> HIDE DEF step
<1>4. f = [n \in Nat |-> IF n = 0 THEN 1 ELSE 2 * f[n - 1]]
    <2>1. \A n \in Nat : f[n] = IF n = 0 THEN 1 ELSE 2 * f[n - 1]
        <3> TAKE n \in Nat
        <3>1. n = 0 \/ (n - 1 \in Nat /\ (n - 1) + 1 = n)
            OBVIOUS
        <3> QED BY <1>2, <1>3, <3>1
    <2>2. f = [n \in Nat |-> f[n]]
        BY <1>2
    <2> QED BY <2>1, <2>2
<1>5. Pow2 = CHOOSE g : g = [n \in Nat |-> IF n = 0 THEN 1 ELSE 2 * g[n - 1]]
    BY Zenon DEF Pow2
<1>6. Pow2 = [n \in Nat |-> IF n = 0 THEN 1 ELSE 2 * Pow2[n - 1]]
    BY <1>4, <1>5, Zenon
<1>7. ASSUME NEW n \in Nat PROVE Pow2[n] = IF n = 0 THEN 1 ELSE 2 * Pow2[n - 1]
    <2> DEFINE rhs == [k \in Nat |-> IF k = 0 THEN 1 ELSE 2 * Pow2[k - 1]]
    <2>1. Pow2 = rhs
        BY <1>6
    <2>2. rhs[n] = IF n = 0 THEN 1 ELSE 2 * Pow2[n - 1]
        OBVIOUS
    <2> HIDE DEF rhs
    <2> QED BY <2>1, <2>2
<1>8. Pow2[0] = 1
    BY <1>7
<1>9. \A n \in Nat : Pow2[n + 1] = 2 * Pow2[n]
    <2> TAKE n \in Nat
    <2>1. n + 1 \in Nat /\ n + 1 # 0 /\ (n + 1) - 1 = n
        OBVIOUS
    <2> QED BY <1>7, <2>1
<1> DEFINE T == {n \in Nat : Pow2[n] \in Nat \ {0}}
<1>10. 0 \in T
    BY <1>8
<1>10a. \A n \in T : n + 1 \in T
    BY <1>9
<1>11. T \in SUBSET Nat
    OBVIOUS
<1> HIDE DEF T
<1>12. T = Nat
    BY <1>10, <1>10a, <1>11, NaturalInduction, Zenon
<1>13. \A n \in Nat : n \in T
    BY <1>12
<1> QED BY <1>8, <1>9, <1>13 DEF T

\* Division with remainder.
LEMMA Euclid ==
    ASSUME NEW x \in Nat, NEW m \in Nat \ {0}
    PROVE  x \div m \in Nat /\ x % m \in Nat /\ x % m < m /\ x = ((x \div m) * m) + (x % m)
OBVIOUS

\* A quotient is known by its remainder.
LEMMA QuotientIs ==
    ASSUME NEW x \in Nat, NEW m \in Nat \ {0}, NEW q \in Nat, NEW r \in Nat, x = q * m + r, r < m
    PROVE  x \div m = q
OBVIOUS

\* Dividing by 2 * h is dividing by h and then by 2.
LEMMA QuotientHalves ==
    ASSUME NEW x \in Nat, NEW h \in Nat \ {0}
    PROVE  x \div (2 * h) = (x \div h) \div 2
<1>1. PICK q \in Nat, r \in Nat : q = x \div h /\ r < h /\ x = q * h + r
    BY Euclid
<1>2. PICK s \in Nat, c \in Nat : s = q \div 2 /\ c < 2 /\ q = s * 2 + c
    BY Euclid
<1>3. PICK k \in Nat \ {0} : k = 2 * h
    OBVIOUS
<1>4. q * h = (s * 2) * h + c * h
    BY <1>2
<1>5. (s * 2) * h = s * k
    BY <1>3
<1>6. PICK rest \in Nat : rest = c * h + r
    OBVIOUS
<1>7. rest < k
    <2>1. c = 0 \/ c = 1
        BY <1>2
    <2> QED BY <1>1, <1>3, <1>6, <2>1
<1>8. x = s * k + rest
    BY <1>1, <1>4, <1>5, <1>6
<1>9. x \div k = s
    BY <1>3, <1>7, <1>8, QuotientIs
<1> QED BY <1>1, <1>2, <1>3, <1>9

\* Two numbers agree when their halves and their last bits do.
LEMMA HalvesAndParity ==
    ASSUME NEW x \in Nat, NEW y \in Nat
    PROVE  x = y <=> x \div 2 = y \div 2 /\ x % 2 = y % 2
OBVIOUS

Bit(x, w, b) == (x \div Pow2[w - b]) % 2

\* Two numbers of w bits agree in the first n bits exactly if their quotients agree.
LEMMA FirstBits ==
    ASSUME NEW w \in Nat, NEW n \in 0 .. w, NEW x \in 0 .. Pow2[w] - 1, NEW y \in 0 .. Pow2[w] - 1
    PROVE  x \div Pow2[w - n] = y \div Pow2[w - n] <=> \A b \in 1 .. n : Bit(x, w, b) = Bit(y, w, b)
<1> DEFINE Same(k) == x \div Pow2[w - k] = y \div Pow2[w - k] <=> \A b \in 1 .. k : Bit(x, w, b) = Bit(y, w, b)
           T == {k \in 0 .. w : Same(k)}
<1>0. x \in Nat /\ y \in Nat /\ Pow2[w] \in Nat \ {0} /\ x < Pow2[w] /\ y < Pow2[w]
    BY PowersOfTwo
<1>1. 0 \in T
    <2>1. x \div Pow2[w] = 0 /\ y \div Pow2[w] = 0
        BY <1>0
    <2>2. w - 0 = w /\ 1 .. 0 = {}
        OBVIOUS
    <2> QED BY <2>1, <2>2
<1>2. ASSUME NEW k \in 0 .. w - 1, k \in T PROVE k + 1 \in T
    <2>1. w - (k + 1) \in Nat /\ w - k = (w - (k + 1)) + 1 /\ k + 1 \in 0 .. w
        OBVIOUS
    <2>2. PICK h \in Nat \ {0} : h = Pow2[w - (k + 1)] /\ Pow2[w - k] = 2 * h
        BY <2>1, PowersOfTwo
    <2>3. PICK u \in Nat, v \in Nat : u = x \div h /\ v = y \div h
        BY <1>0, Euclid
    <2>4. x \div Pow2[w - k] = u \div 2 /\ y \div Pow2[w - k] = v \div 2
        BY <1>0, <2>2, <2>3, QuotientHalves
    <2>5. Bit(x, w, k + 1) = u % 2 /\ Bit(y, w, k + 1) = v % 2
        BY <2>2, <2>3 DEF Bit
    <2>6. u = v <=> u \div 2 = v \div 2 /\ u % 2 = v % 2
        BY HalvesAndParity
    <2>7. (\A b \in 1 .. k + 1 : Bit(x, w, b) = Bit(y, w, b)) <=>
            (\A b \in 1 .. k : Bit(x, w, b) = Bit(y, w, b)) /\ Bit(x, w, k + 1) = Bit(y, w, k + 1)
        <3>1. 1 .. k + 1 = (1 .. k) \cup {k + 1}
            OBVIOUS
        <3> QED BY <3>1
    <2>8. Same(k)
        BY <1>2
    <2>9. Same(k + 1)
        BY <2>2, <2>3, <2>4, <2>5, <2>6, <2>7, <2>8
    <2> QED BY <2>1, <2>9
<1> HIDE DEF T
<1>3. \A k \in 0 .. w : k \in T
    BY <1>1, <1>2, BoundedInduction
<1> QED BY <1>3 DEF T

\* A net that the code reads from the list, and an address, by their first bits.
LEMMA NetIsItsBits ==
    ASSUME NEW a \in Addresses, NEW e \in [parses : BOOLEAN, ip : Addresses, prefix : Nat],
           e.ip.v = a.v, e.prefix <= Width(a.v)
    PROVE  InNet(e, a) <=> \A b \in 1 .. e.prefix : Bit(a.bits, Width(a.v), b) = Bit(e.ip.bits, Width(a.v), b)
<1>1. PICK w \in Nat : w = Width(a.v)
    BY IpAssumption DEF Width
<1>2. e.ip \in Addresses /\ e.prefix \in Nat
    OBVIOUS
<1>3. a.bits \in Nat /\ e.ip.bits \in Nat /\ a.bits < Pow2[w] /\ e.ip.bits < Pow2[w] /\ Pow2[w] \in Nat
    BY <1>1, <1>2, PowersOfTwo DEF Addresses
<1>4. PICK n \in 0 .. w : n = e.prefix
    BY <1>1, <1>2
<1>5. PICK x \in 0 .. Pow2[w] - 1, y \in 0 .. Pow2[w] - 1 : x = a.bits /\ y = e.ip.bits
    BY <1>3
<1>6. InNet(e, a) <=> (n = 0 \/ x \div Pow2[w - n] = y \div Pow2[w - n])
    BY <1>1, <1>4, <1>5 DEF InNet
<1>7. x \div Pow2[w - n] = y \div Pow2[w - n] <=> \A b \in 1 .. n : Bit(x, w, b) = Bit(y, w, b)
    BY FirstBits
<1>8. n = 0 => \A b \in 1 .. n : Bit(x, w, b) = Bit(y, w, b)
    OBVIOUS
<1> QED BY <1>1, <1>4, <1>5, <1>6, <1>7, <1>8

\* The code trusts the addresses that lie in a net of the list.
LEMMA TrustIsMembership ==
    ASSUME trusted_proxies \in ProxyConfigs, NEW a \in Addresses
    PROVE  ip_in_trusted(a, parse_trusted_nets(trusted_proxies)) <=> Trusted(a)
<1>1. trusted_proxies \in Seq([parses : BOOLEAN, ip : Addresses, prefix : Nat])
    BY IpAssumption
<1> DEFINE Bits(e) == \A b \in 1 .. e.prefix : Bit(a.bits, Width(a.v), b) = Bit(e.ip.bits, Width(a.v), b)
           In(e) == e.parses /\ e.ip.v = a.v /\ e.prefix <= Width(a.v)
<1>2. \A i \in DOMAIN trusted_proxies : In(trusted_proxies[i]) => (InNet(trusted_proxies[i], a) <=> Bits(trusted_proxies[i]))
    <2> TAKE i \in DOMAIN trusted_proxies
    <2>0. \A T : \A c \in Seq(T) : \A k \in DOMAIN c : c[k] \in T
        OBVIOUS
    <2>1. PICK e \in [parses : BOOLEAN, ip : Addresses, prefix : Nat] : e = trusted_proxies[i]
        BY <1>1, <2>0, Zenon
    <2>2. In(e) => (InNet(e, a) <=> Bits(e))
        BY NetIsItsBits
    <2> QED BY <2>1, <2>2, Zenon
<1>3. Trusted(a) <=> \E i \in DOMAIN trusted_proxies : In(trusted_proxies[i]) /\ Bits(trusted_proxies[i])
    BY Zenon DEF Trusted, Bit
<1> HIDE DEF Bits
<1>4. ip_in_trusted(a, parse_trusted_nets(trusted_proxies)) <=>
        \E i \in DOMAIN trusted_proxies : In(trusted_proxies[i]) /\ InNet(trusted_proxies[i], a)
    <2>1. ip_in_trusted(a, parse_trusted_nets(trusted_proxies)) <=>
            \E i \in DOMAIN trusted_proxies : LET e == trusted_proxies[i]
                                             IN  e.parses /\ e.prefix <= Width(e.ip.v) /\ InNet(e, a)
        BY DEF ip_in_trusted, parse_trusted_nets, Range
    <2>2. \A e : InNet(e, a) => e.ip.v = a.v
        BY DEF InNet
    <2> QED BY <2>1, <2>2
<1> QED BY <1>2, <1>3, <1>4

-----------------------------------------------------------------------------
(* The client's address.                                                     *)

Passed(i) == [bad |-> FALSE, ip |-> path[i]]

\* The end of X-Forwarded-For is the way of the request: each proxy has appended its sender.
\* Where an older part was removed, X-Real-IP holds an address of the way.
IpInv ==
    /\ trusted_proxies \in ProxyConfigs
    /\ path \in Seq(Wanderers) /\ Len(path) \in 1 .. MaxHops + 1
    /\ xff \in Seq(HeaderEntries)
    /\ \A k \in 1 .. Len(xff) : k + (Len(path) - 1 - Len(xff)) >= 1 => xff[k] = Passed(k + (Len(path) - 1 - Len(xff)))
    /\ Len(xff) < Len(path) - 1 => \E i \in 1 .. Len(path) : real_ip = <<Passed(i)>>

\* A request that no proxy has touched.
LEMMA IpStarts == IpInit => IpInv
<1> SUFFICES ASSUME IpInit PROVE IpInv
    OBVIOUS
<1>1. PICK a \in Wanderers : path = <<a>>
    BY DEF IpInit
<1>2. path \in Seq(Wanderers) /\ Len(path) = 1
    BY <1>1
<1>3. PICK n \in 0 .. MaxForged : xff \in [1 .. n -> HeaderEntries]
    BY DEF IpInit, BoundedSeq, SeqOf
<1>4. n \in Nat /\ MaxHops \in Nat
    BY <1>3, IpAssumption
<1>5. xff \in Seq(HeaderEntries) /\ Len(xff) \in Nat
    BY <1>3, <1>4
<1> QED BY <1>2, <1>4, <1>5 DEF IpInv, IpInit

\* A proxy that appends to X-Forwarded-For keeps the invariant.
LEMMA ForwardKeeps ==
    ASSUME IpInv, NEW q \in Wanderers, Forward(q)
    PROVE  IpInv'
<1>1. PICK n \in Nat, m \in Nat : n = Len(path) /\ m = Len(xff)
    BY DEF IpInv
<1>2. path \in Seq(Wanderers) /\ xff \in Seq(HeaderEntries) /\ n >= 1 /\ n <= MaxHops /\ MaxHops \in Nat
    BY <1>1, IpAssumption DEF IpInv, Forward
<1>3. path' = Append(path, q) /\ xff' = Append(xff, Passed(n)) /\ trusted_proxies' = trusted_proxies
      /\ real_ip' \in {real_ip, <<Passed(n)>>}
    BY <1>1 DEF Forward, Peer, Last, Passed
<1>4. path' \in Seq(Wanderers) /\ Len(path') = n + 1 /\ \A i \in 1 .. n : path'[i] = path[i]
    BY <1>1, <1>2, <1>3
<1>5. path[n] \in Wanderers
    BY <1>1, <1>2
<1>6. Passed(n) \in HeaderEntries
    BY <1>5 DEF Passed, HeaderEntries
<1>7. xff' \in Seq(HeaderEntries) /\ Len(xff') = m + 1 /\ xff'[m + 1] = Passed(n) /\ \A k \in 1 .. m : xff'[k] = xff[k]
    BY <1>1, <1>2, <1>3, <1>6
<1>8. \A i \in 1 .. n : Passed(i)' = Passed(i)
    BY <1>4 DEF Passed
<1>9. ASSUME NEW k \in 1 .. Len(xff'), k + (Len(path') - 1 - Len(xff')) >= 1
      PROVE  xff'[k] = [bad |-> FALSE, ip |-> path'[k + (Len(path') - 1 - Len(xff'))]]
    <2>1. Len(path') - 1 - Len(xff') = n - 1 - m
        BY <1>1, <1>4, <1>7
    <2>2. CASE k = m + 1
        <3>1. k + (n - 1 - m) = n /\ n \in 1 .. n
            BY <1>1, <1>2, <2>2
        <3> QED BY <1>4, <1>7, <2>1, <2>2, <3>1 DEF Passed
    <2>3. CASE k # m + 1
        <3>1. k \in 1 .. m
            BY <1>7, <2>3
        <3>2. k + (n - 1 - m) \in 1 .. n
            BY <1>1, <1>2, <1>9, <2>1, <3>1
        <3>3. xff[k] = Passed(k + (n - 1 - m))
            BY <1>1, <3>1, <3>2 DEF IpInv
        <3> QED BY <1>4, <1>7, <2>1, <3>1, <3>2, <3>3 DEF Passed
    <2> QED BY <2>2, <2>3
<1>10. ASSUME Len(xff') < Len(path') - 1
       PROVE  \E i \in 1 .. Len(path') : real_ip' = <<[bad |-> FALSE, ip |-> path'[i]]>>
    <2>1. m < n - 1
        BY <1>1, <1>4, <1>7, <1>10
    <2>2. PICK i \in 1 .. n : real_ip = <<Passed(i)>>
        BY <1>1, <2>1 DEF IpInv
    <2>3. PICK j \in 1 .. n : real_ip' = <<Passed(j)>>
        <3>1. n \in 1 .. n
            BY <1>2
        <3> QED BY <1>3, <2>2, <3>1, Zenon
    <2>4. j \in 1 .. Len(path') /\ path'[j] = path[j]
        BY <1>4
    <2>5. real_ip' = <<[bad |-> FALSE, ip |-> path'[j]]>>
        BY <2>3, <2>4, Zenon DEF Passed
    <2> QED BY <2>4, <2>5, Zenon
<1>11. trusted_proxies' \in ProxyConfigs /\ Len(path') \in 1 .. MaxHops + 1
    BY <1>2, <1>3, <1>4 DEF IpInv
<1> QED BY <1>4, <1>7, <1>9, <1>10, <1>11 DEF IpInv, Passed

\* A proxy that sets X-Real-IP keeps the invariant.
LEMMA ForwardRealIpKeeps ==
    ASSUME IpInv, NEW q \in Wanderers, ForwardRealIp(q)
    PROVE  IpInv'
<1>1. PICK n \in Nat : n = Len(path)
    BY DEF IpInv
<1>2. path \in Seq(Wanderers) /\ n >= 1 /\ n <= MaxHops /\ MaxHops \in Nat
    BY <1>1, IpAssumption DEF IpInv, ForwardRealIp
<1>3. path' = Append(path, q) /\ xff' = <<>> /\ trusted_proxies' = trusted_proxies /\ real_ip' = <<Passed(n)>>
    BY <1>1 DEF ForwardRealIp, Peer, Last, Passed
<1>4. path' \in Seq(Wanderers) /\ Len(path') = n + 1 /\ \A i \in 1 .. n : path'[i] = path[i]
    BY <1>1, <1>2, <1>3
<1>5. xff' \in Seq(HeaderEntries) /\ Len(xff') = 0
    BY <1>3
<1>6. n \in 1 .. Len(path') /\ real_ip' = <<[bad |-> FALSE, ip |-> path'[n]]>>
    <2>1. n \in 1 .. Len(path') /\ path'[n] = path[n]
        BY <1>2, <1>4
    <2> QED BY <1>3, <2>1, Zenon DEF Passed
<1>7. trusted_proxies' \in ProxyConfigs /\ Len(path') \in 1 .. MaxHops + 1
    BY <1>2, <1>3, <1>4 DEF IpInv
<1>8. \E i \in 1 .. Len(path') : real_ip' = <<[bad |-> FALSE, ip |-> path'[i]]>>
    BY <1>6, Zenon
<1>9. 1 .. Len(xff') = {}
    BY <1>5
<1> QED BY <1>4, <1>5, <1>7, <1>8, <1>9, Zenon DEF IpInv, Passed

\* Every hop keeps the invariant.
LEMMA IpStep == IpInv /\ [IpNext]_ipVars => IpInv'
<1> SUFFICES ASSUME IpInv, [IpNext]_ipVars PROVE IpInv'
    OBVIOUS
<1>1. CASE UNCHANGED ipVars
    BY <1>1 DEF ipVars, IpInv, Passed
<1> QED BY <1>1, ForwardKeeps, ForwardRealIpKeeps DEF IpNext

\* SelectLastInSeq finds the last element that passes a test.
LEMMA LastIs ==
    ASSUME NEW n \in Nat, NEW I \in SUBSET (1 .. n), I # {}
    PROVE  Max(I) \in I /\ \A j \in I : j <= Max(I)
<1>5. \E x \in I : \A y \in I : x >= y
    BY GreatestExists
<1>6. Max(I) \in I /\ \A j \in I : Max(I) >= j
    BY <1>5, Zenon DEF Max
<1> QED BY <1>6

\* What the search of the header answers.
LEMMA ForwardedIs ==
    ASSUME IpInv, NEW nets, NEW k \in 1 .. Len(xff), Stops(xff[k], nets),
           \A j \in k + 1 .. Len(xff) : ~Stops(xff[j], nets)
    PROVE  FromForwarded(nets) = IpOf(xff[k])
<1> DEFINE I == {j \in 1 .. Len(xff) : Stops(xff[j], nets)}
<1>1. PICK n \in Nat : n = Len(xff)
    BY DEF IpInv
<1>2. I \in SUBSET (1 .. n) /\ I # {} /\ k \in I /\ \A j \in I : j <= k
    BY <1>1
<1>3. FromForwarded(nets) = IF (IF I # {} THEN Max(I) ELSE 0) > 0 THEN IpOf(xff[IF I # {} THEN Max(I) ELSE 0])
                            ELSE IF xff # <<>> /\ xff[1] # Blank THEN IpOf(xff[1]) ELSE FromRealIp
    BY DEF FromForwarded, SelectLastInSeq
<1> HIDE DEF I
<1>4. Max(I) \in I /\ \A j \in I : j <= Max(I)
    BY <1>1, <1>2, LastIs
<1>5. Max(I) = k /\ k > 0
    <2>1. PICK x \in 1 .. n : x = Max(I)
        BY <1>2, <1>4
    <2>2. x <= k /\ k <= x /\ k \in 1 .. n
        BY <1>1, <1>2, <1>4, <2>1
    <2> QED BY <2>1, <2>2
<1> QED BY <1>2, <1>3, <1>5

\* An entry that a proxy has appended is a stop unless its address is trusted.
LEMMA PassedStops ==
    ASSUME NEW i, NEW nets
    PROVE  /\ Stops(Passed(i), nets) <=> ~ip_in_trusted(path[i], nets)
           /\ IpOf(Passed(i)) = path[i] /\ Passed(i) # Blank /\ Passed(i).ip = path[i] /\ Passed(i).bad = FALSE
<1>1. Passed(i).bad = FALSE /\ Blank.bad = TRUE /\ Passed(i).ip = path[i]
    BY DEF Passed, Blank
<1>2. Passed(i) # Blank
    BY <1>1
<1> QED BY <1>1, <1>2, Zenon DEF Stops, IpOf

\* The address the code resolves, from the invariant.
LEMMA ResolvedIsPassed ==
    ASSUME IpInv, NEW c \in 1 .. Len(path), ~Trusted(path[c]), \A j \in c + 1 .. Len(path) : Trusted(path[j])
    PROVE  /\ Len(xff) >= Len(path) - 1 => resolve_client_ip = path[c]
           /\ \E i \in 1 .. Len(path) : resolve_client_ip = path[i]
<1> DEFINE nets == parse_trusted_nets(trusted_proxies)
<1>1. PICK n \in Nat, m \in Nat : n = Len(path) /\ m = Len(xff)
    BY DEF IpInv
<1>2. n >= 1 /\ c \in 1 .. n
    BY <1>1 DEF IpInv
<1>3. \A i \in 1 .. n : ip_in_trusted(path[i], nets) <=> Trusted(path[i])
    <2> TAKE i \in 1 .. n
    <2>1. path[i] \in Addresses
        BY <1>1, IpAssumption DEF IpInv
    <2> QED BY <2>1, TrustIsMembership DEF IpInv
<1>4. Peer = path[n]
    BY <1>1 DEF Peer, Last
<1>5. resolve_client_ip = IF nets = {} \/ ~ip_in_trusted(Peer, nets) THEN Peer ELSE FromForwarded(nets)
    BY DEF resolve_client_ip
<1> HIDE DEF nets
<1>6. CASE c = n
    <2>1. resolve_client_ip = path[c]
        BY <1>2, <1>3, <1>4, <1>5, <1>6
    <2> QED BY <1>1, <1>2, <2>1
<1>7. CASE c # n
    <2>1. c < n /\ n \in c + 1 .. n
        BY <1>2, <1>7
    <2>2. ip_in_trusted(Peer, nets) /\ nets # {}
        <3>1. ip_in_trusted(Peer, nets)
            BY <1>1, <1>2, <1>3, <1>4, <2>1
        <3> QED BY <3>1 DEF ip_in_trusted
    <2>3. resolve_client_ip = FromForwarded(nets)
        BY <1>5, <2>2
    <2>4. \A k \in 1 .. m : k + (n - 1 - m) >= 1 => xff[k] = Passed(k + (n - 1 - m))
        BY <1>1 DEF IpInv
    <2>5. CASE m >= n - 1
        <3>1. PICK k \in 1 .. m : k + (n - 1 - m) = c
            <4>1. c - (n - 1 - m) \in 1 .. m /\ (c - (n - 1 - m)) + (n - 1 - m) = c
                BY <1>2, <2>1, <2>5
            <4> QED BY <4>1
        <3>2. xff[k] = Passed(c)
            BY <1>2, <2>4, <3>1
        <3>3. Stops(xff[k], nets)
            BY <1>2, <1>3, <3>2, PassedStops
        <3>4. ASSUME NEW j \in k + 1 .. m PROVE ~Stops(xff[j], nets)
            <4>1. j \in 1 .. m /\ j + (n - 1 - m) \in 1 .. n /\ j + (n - 1 - m) \in c + 1 .. n
                BY <1>2, <2>5, <3>1
            <4>2. PICK i \in 1 .. n : i = j + (n - 1 - m)
                BY <4>1
            <4>3. xff[j] = Passed(i) /\ i \in c + 1 .. n
                BY <2>4, <4>1, <4>2
            <4>4. Trusted(path[i])
                BY <1>1, <4>3
            <4> QED BY <1>3, <4>3, <4>4, PassedStops
        <3>5. FromForwarded(nets) = IpOf(xff[k])
            BY <1>1, <3>3, <3>4, ForwardedIs
        <3>6. resolve_client_ip = path[c]
            BY <2>3, <3>2, <3>5, PassedStops
        <3> QED BY <1>1, <1>2, <3>6
    <2>6. CASE m < n - 1
        <3>1. \A k \in 1 .. m : \E i \in 1 .. n : xff[k] = Passed(i)
            <4> TAKE k \in 1 .. m
            <4>1. k + (n - 1 - m) \in 1 .. n /\ k + (n - 1 - m) >= 1
                BY <2>6
            <4> QED BY <2>4, <4>1
        <3>2. PICK r \in 1 .. n : real_ip = <<Passed(r)>>
            BY <1>1, <2>6 DEF IpInv
        <3>3. FromRealIp = path[r]
            <4>1. real_ip # NoHeader /\ real_ip[1] = Passed(r)
                BY <3>2 DEF NoHeader
            <4> QED BY <4>1, PassedStops DEF FromRealIp
        <3>4. FromForwarded(nets) = FromRealIp \/ \E k \in 1 .. m : FromForwarded(nets) = IpOf(xff[k])
            <4> DEFINE I == {j \in 1 .. Len(xff) : Stops(xff[j], nets)}
                       x == IF I # {} THEN Max(I) ELSE 0
            <4>1. FromForwarded(nets) = IF x > 0 THEN IpOf(xff[x])
                                        ELSE IF xff # <<>> /\ xff[1] # Blank THEN IpOf(xff[1]) ELSE FromRealIp
                BY DEF FromForwarded, SelectLastInSeq
            <4>2. I \in SUBSET (1 .. m)
                BY <1>1
            <4> HIDE DEF I
            <4>3. x = 0 \/ x \in 1 .. m
                BY <4>2, LastIs
            <4>4. xff # <<>> => 1 \in 1 .. m
                BY <1>1 DEF IpInv
            <4> HIDE DEF x
            <4> QED BY <4>1, <4>3, <4>4
        <3>5. \E i \in 1 .. n : FromForwarded(nets) = path[i]
            <4>1. CASE FromForwarded(nets) = FromRealIp
                BY <3>2, <3>3, <4>1
            <4>2. CASE \E k \in 1 .. m : FromForwarded(nets) = IpOf(xff[k])
                <5>1. PICK k \in 1 .. m : FromForwarded(nets) = IpOf(xff[k])
                    BY <4>2
                <5>2. PICK i \in 1 .. n : xff[k] = Passed(i)
                    BY <3>1
                <5> QED BY <5>1, <5>2, PassedStops, Zenon
            <4> QED BY <3>4, <4>1, <4>2
        <3> QED BY <1>1, <2>3, <2>6, <3>5
    <2> QED BY <1>1, <2>5, <2>6
<1> QED BY <1>6, <1>7

\* The address that limits and logs use is one the request really came from, for lists of nets,
\* headers and ways of any length: an untrusted sender cannot choose it.
THEOREM AddressIsTrue == IpSpec => []AddressTrue
<1>1. IpInv => AddressTrue
    <2> SUFFICES ASSUME IpInv PROVE AddressTrue
        OBVIOUS
    <2>1. IpTypeOK
        BY DEF IpInv, IpTypeOK
    <2> DEFINE U == {i \in 1 .. Len(path) : ~Trusted(path[i])}
               last == IF U # {} THEN Max(U) ELSE 0
    <2>2. SelectLastInSeq(path, LAMBDA a : ~Trusted(a)) = last
        BY DEF SelectLastInSeq
    <2>3. PICK n \in Nat : n = Len(path) /\ DOMAIN path = 1 .. n
        BY DEF IpInv
    <2>4. ASSUME last > 0
          PROVE  /\ last \in 1 .. n
                 /\ Len(xff) >= Len(path) - 1 => resolve_client_ip = path[last]
                 /\ \E i \in 1 .. Len(path) : resolve_client_ip = path[i]
        <3>1. U # {} /\ last = Max(U) /\ U \in SUBSET (1 .. n)
            BY <2>3, <2>4
        <3>2. last \in U /\ \A j \in U : j <= last
            <4> HIDE DEF U, last
            <4> QED BY <3>1, LastIs
        <3>3. last \in 1 .. n /\ ~Trusted(path[last]) /\ \A j \in last + 1 .. n : Trusted(path[j])
            <4> HIDE DEF last
            <4>1. last \in 1 .. n /\ ~Trusted(path[last])
                BY <2>3, <3>2
            <4>2. ASSUME NEW j \in last + 1 .. n, ~Trusted(path[j]) PROVE FALSE
                <5>1. j \in 1 .. n /\ ~(j <= last)
                    BY <4>1
                <5>2. j \in U
                    BY <2>3, <4>2, <5>1
                <5> HIDE DEF U
                <5> QED BY <3>2, <5>1, <5>2
            <4> QED BY <4>1, <4>2
        <3> HIDE DEF last, U
        <3> QED BY <2>3, <3>3, ResolvedIsPassed
    <2> HIDE DEF last
    <2>5. SenderCannotChoose
        BY <2>2, <2>3, <2>4 DEF SenderCannotChoose, Range
    <2> QED BY <2>1, <2>5 DEF AddressTrue
<1> QED BY <1>1, IpStarts, IpStep, PTL DEF IpSpec

-----------------------------------------------------------------------------
(* Sequences made of sets and of sequences.                                  *)

\* SetToSeq names each element of a finite set once.
LEMMA SetToSeqLists ==
    ASSUME NEW S, IsFiniteSet(S)
    PROVE  /\ SetToSeq(S) \in Seq(S) /\ ToSet(SetToSeq(S)) = S
           /\ \A i, j \in DOMAIN SetToSeq(S) : SetToSeq(S)[i] = SetToSeq(S)[j] => i = j
<1>1. PICK n \in Nat : n = Cardinality(S)
    BY FS_CardinalityType
<1>2. PICK g : g \in Bijection(1 .. n, S)
    BY <1>1, FS_CardinalityType DEF ExistsBijection
<1>3. g \in [1 .. n -> S] /\ IsInjective(g)
    BY <1>2, Zenon DEF Bijection, Injection
<1> DEFINE f == SetToSeq(S)
<1>4. f \in [1 .. n -> S] /\ IsInjective(f)
    BY <1>1, <1>3, Zenon DEF SetToSeq
<1>5. f \in Injection(1 .. n, S)
    BY <1>4, Zenon DEF Injection
<1> HIDE DEF f
<1>6. f \in Surjection(1 .. n, S)
    <2>1. Cardinality(1 .. n) = n
        BY FS_Interval, 0 \in Int, n \in Int, n - 1 + 1 = n
    <2> QED BY <1>1, <1>5, <2>1, FS_Injection
<1>7. f \in Seq(S) /\ DOMAIN f = 1 .. n
    BY <1>4, SeqDef
<1>8. ToSet(f) = S
    BY <1>4, <1>6, <1>7 DEF ToSet, Surjection
<1> QED BY <1>4, <1>7, <1>8 DEF f, IsInjective

\* The ways to join the sequences from the first on.
Joinings(R, ss, n) ==
    {h \in [0 .. n -> Seq(R)] : h[0] = <<>> /\ FlattenSeq(ss) = h[n] /\ \A i \in 1 .. n : h[i] = h[i - 1] \o ss[i]}

\* FlattenSeq joins one sequence after the other.
LEMMA FlattenAlong ==
    ASSUME NEW R, NEW ss \in Seq(Seq(R)), NEW n \in Nat, n = Len(ss)
    PROVE  Joinings(R, ss, n) # {}
<1>2. DOMAIN ss = 1 .. n /\ \A i \in 1 .. n : ss[i] \in Seq(R)
    OBVIOUS
<1>3. CASE n = 0
    <2>1. FlattenSeq(ss) = ss
        BY <1>3, Zenon DEF FlattenSeq
    <2>2. ss = <<>>
        <3> DEFINE Q == Seq(R)
        <3>1. ss \in Seq(Q)
            OBVIOUS
        <3> HIDE DEF Q
        <3> QED BY <1>3, <3>1, EmptySeq
    <2> DEFINE e == <<>>
               h == [i \in 0 .. 0 |-> e]
    <2>3. e \in Seq(R) /\ ss = e
        BY <2>2, EmptySeq
    <2> HIDE DEF e
    <2>4. h \in [0 .. n -> Seq(R)] /\ h[0] = e /\ h[n] = e /\ \A i \in 1 .. n : h[i] = h[i - 1] \o ss[i]
        BY <1>3, <2>3
    <2> HIDE DEF h
    <2>5. h \in Joinings(R, ss, n)
        BY <2>1, <2>3, <2>4, Zenon DEF Joinings, e
    <2> QED BY <2>5
<1>4. CASE n # 0
    <2> DEFINE Eq(g) == g = [i \in 1 .. n |-> IF i = 1 THEN ss[i] ELSE g[i - 1] \o ss[i]]
               step == [i \in 1 .. n |-> [s \in Seq(R) |-> s \o ss[i]]]
               flatten == CHOOSE g : Eq(g)
    <2>1. step \in [1 .. n -> [Seq(R) -> Seq(R)]]
        BY <1>2
    <2>2. PICK h : h \in Runs(n, Seq(R), <<>>, step)
        <3> DEFINE Q == Seq(R)
                   e == <<>>
        <3>1. e \in Q /\ step \in [1 .. n -> [Q -> Q]]
            BY <2>1
        <3> HIDE DEF step, Q, e
        <3>2. Runs(n, Q, e, step) # {}
            BY <3>1, RunExists
        <3> QED BY <3>2 DEF Q, e
    <2>3. h \in [0 .. n -> Seq(R)] /\ h[0] = <<>> /\ \A i \in 1 .. n : h[i] = step[i][h[i - 1]]
        BY <2>2, Zenon DEF Runs
    <2>4. \A i \in 1 .. n : h[i] = h[i - 1] \o ss[i]
        <3> TAKE i \in 1 .. n
        <3>1. h[i - 1] \in Seq(R)
            BY <2>3, i - 1 \in 0 .. n
        <3>2. step[i] = [s \in Seq(R) |-> s \o ss[i]]
            OBVIOUS
        <3> QED BY <2>3, <3>1, <3>2
    <2> DEFINE g0 == [i \in 1 .. n |-> h[i]]
    <2>5. Eq(g0)
        <3>1. \A i \in 1 .. n : h[i] = IF i = 1 THEN ss[i] ELSE g0[i - 1] \o ss[i]
            <4> TAKE i \in 1 .. n
            <4>1. CASE i = 1
                <5>1. h[i] = h[i - 1] \o ss[i]
                    BY <2>4
                <5>2. ss[i] \in Seq(R) /\ i - 1 = 0
                    BY <1>2, <4>1
                <5>3. h[i] = <<>> \o ss[i]
                    BY <2>3, <5>1, <5>2
                <5> QED BY <4>1, <5>2, <5>3
            <4>2. CASE i # 1
                <5>1. i - 1 \in 1 .. n
                    BY <4>2
                <5> QED BY <2>4, <4>2, <5>1
            <4> QED BY <4>1, <4>2
        <3> QED BY <3>1
    <2>6. Eq(flatten)
        <3> HIDE DEF g0, Eq
        <3> QED BY <2>5
    <2>7. FlattenSeq(ss) = flatten[n]
        BY <1>4, Zenon DEF FlattenSeq
    <2> HIDE DEF flatten, step
    <2> DEFINE S == {i \in 0 .. n : i # 0 => flatten[i] = h[i]}
    <2>8. 0 \in S
        OBVIOUS
    <2>9. ASSUME NEW i \in 0 .. n - 1, i \in S PROVE i + 1 \in S
        <3>1. i + 1 \in 1 .. n /\ (i + 1) - 1 = i
            OBVIOUS
        <3>2. flatten[i + 1] = IF i + 1 = 1 THEN ss[i + 1] ELSE flatten[i] \o ss[i + 1]
            <4>1. flatten[i + 1] = IF i + 1 = 1 THEN ss[i + 1] ELSE flatten[(i + 1) - 1] \o ss[i + 1]
                BY <2>6, <3>1, Zenon
            <4> QED BY <3>1, <4>1
        <3>3. g0[i + 1] = IF i + 1 = 1 THEN ss[i + 1] ELSE g0[i] \o ss[i + 1]
            <4>1. g0[i + 1] = IF i + 1 = 1 THEN ss[i + 1] ELSE g0[(i + 1) - 1] \o ss[i + 1]
                <5> HIDE DEF g0
                <5> QED BY <2>5, <3>1, Zenon
            <4> QED BY <3>1, <4>1
        <3>4. CASE i = 0
            BY <3>1, <3>2, <3>3, <3>4
        <3>5. CASE i # 0
            <4>1. i \in 1 .. n /\ flatten[i] = h[i]
                BY <2>9, <3>5
            <4> QED BY <3>1, <3>2, <3>3, <3>5, <4>1
        <3> QED BY <3>4, <3>5
    <2> HIDE DEF S
    <2>10. \A i \in 0 .. n : i \in S
        BY <2>8, <2>9, BoundedInduction
    <2>11. FlattenSeq(ss) = h[n]
        BY <1>4, <2>7, <2>10, n \in 0 .. n DEF S
    <2>12. h \in Joinings(R, ss, n)
        BY <2>3, <2>4, <2>11, Zenon DEF Joinings
    <2> QED BY <2>12
<1> QED BY <1>3, <1>4

\* FlattenSeq lists what the sequences list.
LEMMA FlattenLists ==
    ASSUME NEW R, NEW ss \in Seq(Seq(R))
    PROVE  FlattenSeq(ss) \in Seq(R) /\ ToSet(FlattenSeq(ss)) = UNION {ToSet(ss[i]) : i \in DOMAIN ss}
<1>1. PICK n \in Nat : n = Len(ss)
    OBVIOUS
<1>2. DOMAIN ss = 1 .. n /\ \A i \in 1 .. n : ss[i] \in Seq(R)
    BY <1>1
<1>3. PICK h : h \in Joinings(R, ss, n)
    BY <1>1, FlattenAlong
<1>4. h \in [0 .. n -> Seq(R)] /\ h[0] = <<>> /\ FlattenSeq(ss) = h[n] /\ \A i \in 1 .. n : h[i] = h[i - 1] \o ss[i]
    BY <1>3, Zenon DEF Joinings
<1> DEFINE All(i) == UNION {ToSet(ss[j]) : j \in 1 .. i}
           S == {i \in 0 .. n : ToSet(h[i]) = All(i)}
<1>5. 0 \in S
    <2>1. ToSet(h[0]) = {}
        BY <1>4 DEF ToSet
    <2>2. All(0) = {}
        BY \A j \in 1 .. 0 : FALSE
    <2> HIDE DEF All
    <2> QED BY <2>1, <2>2, 0 \in 0 .. n
<1>6. ASSUME NEW i \in 0 .. n - 1, i \in S PROVE i + 1 \in S
    <2>1. i + 1 \in 1 .. n /\ i + 1 \in 0 .. n /\ (i + 1) - 1 = i /\ i \in 0 .. n /\ 1 .. i + 1 = (1 .. i) \cup {i + 1}
        OBVIOUS
    <2>2. All(i + 1) = All(i) \cup ToSet(ss[i + 1])
        BY <2>1, Zenon
    <2>3. h[i + 1] = h[i] \o ss[i + 1]
        BY <1>4, <2>1
    <2>4. ToSet(h[i] \o ss[i + 1]) = ToSet(h[i]) \cup ToSet(ss[i + 1])
        <3> DEFINE a == h[i]
                   b == ss[i + 1]
        <3>1. a \in Seq(R) /\ b \in Seq(R)
            BY <1>2, <1>4, <2>1
        <3> HIDE DEF a, b
        <3>2. a \o b \in Seq(R) /\ Range(a \o b) = Range(a) \cup Range(b)
            BY <3>1, RangeConcatenation
        <3> QED BY <3>2, Zenon DEF Range, ToSet, a, b
    <2>5. ToSet(h[i]) = All(i)
        BY <1>6
    <2> HIDE DEF All
    <2> QED BY <2>1, <2>2, <2>3, <2>4, <2>5
<1> HIDE DEF S
<1>7. \A i \in 0 .. n : i \in S
    BY <1>5, <1>6, BoundedInduction
<1>8. n \in S /\ h[n] \in Seq(R)
    BY <1>4, <1>7, n \in 0 .. n
<1> QED BY <1>2, <1>4, <1>8 DEF S

-----------------------------------------------------------------------------
(* The import.                                                               *)

ImportRows ==
    [channel : STRING, unit : TokenColumns \cup MediaUnits, currency : STRING, dim : Dimensions, price : Int,
     segments : SegmentKinds]

\* The rows of an item as the file has them, before they are validated.
FileRows ==
    [channel : STRING, unit : TokenColumns \cup MediaUnits, currency : STRING, dim : Dimensions \cup {Scalar}, price : Int,
     segments : SegmentKinds \cup {Scalar}]
FileRules == [unit : MediaUnits, price : Int, dim : Dimensions \cup {Scalar}, segments : SegmentKinds \cup {Scalar}]

\* The table: a finite set of rules with keys of their own.
GoodTable(T) ==
    /\ T \in SUBSET Rules /\ IsFiniteSet(T)
    /\ \A a, b \in T : RuleKey(a) = RuleKey(b) => a = b

\* What an import makes of a row.
RuleOf(row, e) ==
    [channel |-> row.channel, unit |-> row.unit, currency |-> row.currency, dim |-> row.dim, price |-> row.price,
     segments |-> row.segments, basis |-> "prompt_tokens", enabled |-> e]

\* Whether the rule that the row replaces is enabled.
WasEnabled(T, row, e) == \A r \in T : RuleKey(r) = RuleKey(row) => e = r.enabled

\* A row of an import becomes a rule with the same key.
LEMMA RuleOfRow ==
    ASSUME NEW row \in ImportRows, NEW e \in BOOLEAN
    PROVE  RuleOf(row, e) \in Rules /\ RuleKey(RuleOf(row, e)) = RuleKey(row) /\ RuleOf(row, e).enabled = e
<1>1. RuleKey(RuleOf(row, e)) = RuleKey(row) /\ RuleOf(row, e).enabled = e
    BY DEF RuleOf, RuleKey
<1>2. RuleOf(row, e) \in Rules
    <2>1. /\ row.channel \in STRING /\ row.unit \in TokenColumns \cup MediaUnits /\ row.currency \in STRING
          /\ row.dim \in Dimensions /\ row.price \in Int /\ row.segments \in SegmentKinds
        BY DEF ImportRows
    <2>2. "prompt_tokens" \in ContextBases
        BY DEF ContextBases
    <2> QED BY <2>1, <2>2, Zenon DEF RuleOf, Rules
<1> QED BY <1>1, <1>2

\* One row is written.
LEMMA UpsertWrites ==
    ASSUME NEW T, GoodTable(T), NEW row \in ImportRows
    PROVE  /\ GoodTable(Upserted(T, row))
           /\ \E e \in BOOLEAN :
                /\ WasEnabled(T, row, e)
                /\ Upserted(T, row) = {r \in T : RuleKey(r) # RuleKey(row)} \cup {RuleOf(row, e)}
<1> DEFINE old == {r \in T : RuleKey(r) = RuleKey(row)}
           e == IF old = {} THEN TRUE ELSE (CHOOSE r \in old : TRUE).enabled
           U == {r \in T : RuleKey(r) # RuleKey(row)} \cup {RuleOf(row, e)}
<1>1. e \in BOOLEAN /\ WasEnabled(T, row, e)
    <2>1. CASE old = {}
        BY <2>1 DEF WasEnabled
    <2>2. CASE old # {}
        <3>1. (CHOOSE r \in old : TRUE) \in old
            BY <2>2
        <3>2. PICK r \in old : r = CHOOSE x \in old : TRUE
            BY <3>1
        <3>3. r \in Rules /\ \A x \in old : x = r
            BY <3>2 DEF GoodTable
        <3>4. e = r.enabled
            BY <2>2, <3>2
        <3> HIDE DEF e
        <3> QED BY <3>3, <3>4 DEF WasEnabled, Rules
    <2> QED BY <2>1, <2>2
<1>2. Upserted(T, row) = U
    <2>1. Upserted(T, row) = (T \ old) \cup {RuleOf(row, e)}
        BY Zenon DEF Upserted, RuleOf
    <2> HIDE DEF e
    <2> QED BY <2>1
<1> HIDE DEF e
<1>3. RuleOf(row, e) \in Rules /\ RuleKey(RuleOf(row, e)) = RuleKey(row)
    BY <1>1, RuleOfRow
<1>4. IsFiniteSet(U)
    <2>1. IsFiniteSet({r \in T : RuleKey(r) # RuleKey(row)})
        BY FS_Subset, {r \in T : RuleKey(r) # RuleKey(row)} \in SUBSET T DEF GoodTable
    <2> QED BY <2>1, FS_AddElement
<1>5. U \in SUBSET Rules /\ \A a, b \in U : RuleKey(a) = RuleKey(b) => a = b
    BY <1>3 DEF GoodTable
<1> QED BY <1>1, <1>2, <1>4, <1>5, Zenon DEF GoodTable

\* U is what the first n rows make of T.
Follows(U, T, rows, n) ==
    /\ GoodTable(U)
    /\ \A r \in T : (\A i \in 1 .. n : RuleKey(rows[i]) # RuleKey(r)) => r \in U
    /\ \A r \in U : \/ r \in T /\ (\A i \in 1 .. n : RuleKey(rows[i]) # RuleKey(r))
                    \/ \E i \in 1 .. n : \E e \in BOOLEAN : r = RuleOf(rows[i], e) /\ WasEnabled(T, rows[i], e)
    /\ \A i \in 1 .. n : \E r \in U : RuleKey(r) = RuleKey(rows[i])

\* Rows written one after the other: the last of a key stays, the rule is enabled as it was.
LEMMA StoredFollows ==
    ASSUME NEW T, GoodTable(T), NEW rows \in Seq(ImportRows)
    PROVE  Follows(Stored(T, rows), T, rows, Len(rows))
<1>1. PICK n \in Nat : n = Len(rows)
    OBVIOUS
<1>2. \A i \in 1 .. n : rows[i] \in ImportRows
    BY <1>1
<1> DEFINE Eq(g) == g = [i \in 0 .. n |-> IF i = 0 THEN T ELSE Upserted(g[i - 1], rows[i])]
           after == CHOOSE g : Eq(g)
<1>3. \E g : Eq(g)
    <2> DEFINE Q == {X \in SUBSET Rules : GoodTable(X)}
               step == [i \in 1 .. n |-> [X \in Q |-> Upserted(X, rows[i])]]
    <2>1. T \in Q
        BY DEF GoodTable
    <2>2. step \in [1 .. n -> [Q -> Q]]
        <3>1. \A i \in 1 .. n : \A X \in Q : Upserted(X, rows[i]) \in Q
            <4> TAKE i \in 1 .. n
            <4> TAKE X \in Q
            <4>1. GoodTable(Upserted(X, rows[i]))
                BY <1>2, UpsertWrites
            <4> QED BY <4>1 DEF GoodTable
        <3> HIDE DEF Q
        <3> QED BY <3>1
    <2> HIDE DEF Q
    <2>3. PICK g : g \in Runs(n, Q, T, step)
        <3> HIDE DEF step
        <3>1. Runs(n, Q, T, step) # {}
            BY <2>1, <2>2, RunExists
        <3> QED BY <3>1
    <2>4. g = [i \in 0 .. n |-> IF i = 0 THEN T ELSE step[i][g[i - 1]]] /\ g \in [0 .. n -> Q]
        <3>1. g = [i \in 0 .. n |-> IF i = 0 THEN T ELSE step[i][g[i - 1]]]
            <4> HIDE DEF step
            <4> QED BY <2>3, RunIsRecursive
        <3> QED BY <2>3, <3>1, Zenon DEF Runs
    <2>5. \A i \in 0 .. n : i # 0 => step[i][g[i - 1]] = Upserted(g[i - 1], rows[i])
        <3> TAKE i \in 0 .. n
        <3> HAVE i # 0
        <3>1. i \in 1 .. n /\ i - 1 \in 0 .. n
            OBVIOUS
        <3>2. g[i - 1] \in Q /\ step[i] = [X \in Q |-> Upserted(X, rows[i])]
            BY <2>4, <3>1
        <3> QED BY <3>2
    <2> HIDE DEF step
    <2>6. Eq(g)
        BY <2>4, <2>5
    <2> QED BY <2>6
<1>4. Eq(after)
    <2> HIDE DEF Eq
    <2> QED BY <1>3
<1>5. Stored(T, rows) = after[n]
    BY <1>1, Zenon DEF Stored
<1> HIDE DEF after
<1> DEFINE S == {i \in 0 .. n : Follows(after[i], T, rows, i)}
<1>6. 0 \in S
    <2>1. after[0] = T
        BY <1>4
    <2> QED BY <2>1 DEF Follows
<1>7. ASSUME NEW i \in 0 .. n - 1, i \in S PROVE i + 1 \in S
    <2>1. i + 1 \in 1 .. n /\ (i + 1) - 1 = i /\ i + 1 \in 0 .. n /\ i + 1 # 0
        OBVIOUS
    <2>2. after[i + 1] = Upserted(after[i], rows[i + 1])
        BY <1>4, <2>1
    <2>3. rows[i + 1] \in ImportRows /\ Follows(after[i], T, rows, i)
        BY <1>2, <1>7, <2>1
    <2>4. \A j : j \in 1 .. i + 1 <=> j \in 1 .. i \/ j = i + 1
        OBVIOUS
    <2> DEFINE A == after[i]
               B == after[i + 1]
               row == rows[i + 1]
    <2>5. PICK e \in BOOLEAN :
            WasEnabled(A, row, e) /\ B = {r \in A : RuleKey(r) # RuleKey(row)} \cup {RuleOf(row, e)}
        <3>1. GoodTable(A)
            BY <2>3 DEF Follows
        <3> QED BY <2>2, <2>3, <3>1, UpsertWrites
    <2>6. GoodTable(B)
        <3>1. GoodTable(A)
            BY <2>3 DEF Follows
        <3> QED BY <2>2, <2>3, <3>1, UpsertWrites
    <2>7. RuleKey(RuleOf(row, e)) = RuleKey(row)
        BY <2>3, RuleOfRow
    <2> HIDE DEF A, B, row
    <2>8. Follows(A, T, rows, i)
        BY <2>3 DEF A
    <2>9. ASSUME NEW r \in T, \A j \in 1 .. i + 1 : RuleKey(rows[j]) # RuleKey(r) PROVE r \in B
        BY <2>4, <2>5, <2>8, <2>9 DEF Follows, row
    <2>10. WasEnabled(T, row, e)
        <3> SUFFICES ASSUME NEW r \in T, RuleKey(r) = RuleKey(row) PROVE e = r.enabled
            BY DEF WasEnabled
        <3>1. CASE \A j \in 1 .. i : RuleKey(rows[j]) # RuleKey(r)
            <4>1. r \in A
                BY <2>8, <3>1 DEF Follows
            <4> QED BY <2>5, <4>1 DEF WasEnabled
        <3>2. CASE \E j \in 1 .. i : RuleKey(rows[j]) = RuleKey(r)
            <4>1. PICK x \in A : RuleKey(x) = RuleKey(r)
                BY <2>8, <3>2 DEF Follows
            <4>2. e = x.enabled
                BY <2>5, <4>1 DEF WasEnabled
            <4>3. PICK k \in 1 .. i : \E d \in BOOLEAN : x = RuleOf(rows[k], d) /\ WasEnabled(T, rows[k], d)
                <5>1. ~ \A k \in 1 .. i : RuleKey(rows[k]) # RuleKey(x)
                    BY <3>2, <4>1
                <5> QED BY <2>8, <5>1 DEF Follows
            <4>4. PICK d \in BOOLEAN : x = RuleOf(rows[k], d) /\ WasEnabled(T, rows[k], d)
                BY <4>3
            <4>5. rows[k] \in ImportRows
                BY <1>2, k \in 1 .. n
            <4>6. RuleKey(x) = RuleKey(rows[k]) /\ x.enabled = d
                BY <4>4, <4>5, RuleOfRow
            <4>7. d = r.enabled
                BY <4>1, <4>4, <4>6 DEF WasEnabled
            <4> QED BY <4>2, <4>6, <4>7
        <3> QED BY <3>1, <3>2
    <2>11. ASSUME NEW r \in B
           PROVE  \/ r \in T /\ (\A j \in 1 .. i + 1 : RuleKey(rows[j]) # RuleKey(r))
                  \/ \E j \in 1 .. i + 1 : \E d \in BOOLEAN : r = RuleOf(rows[j], d) /\ WasEnabled(T, rows[j], d)
        <3>1. CASE r = RuleOf(row, e)
            BY <2>4, <2>10, <3>1 DEF row
        <3>2. CASE r \in A /\ RuleKey(r) # RuleKey(row)
            BY <2>4, <2>8, <3>2 DEF Follows, row
        <3> QED BY <2>5, <3>1, <3>2
    <2>12. ASSUME NEW j \in 1 .. i + 1 PROVE \E r \in B : RuleKey(r) = RuleKey(rows[j])
        <3>1. CASE RuleKey(rows[j]) = RuleKey(row)
            BY <2>5, <2>7, <3>1
        <3>2. CASE RuleKey(rows[j]) # RuleKey(row)
            BY <2>4, <2>5, <2>8, <3>2 DEF Follows, row
        <3> QED BY <3>1, <3>2
    <2>13. Follows(B, T, rows, i + 1)
        BY <2>6, <2>9, <2>11, <2>12 DEF Follows
    <2> QED BY <2>1, <2>13 DEF B
<1> HIDE DEF S, Eq
<1>8. \A i \in 0 .. n : i \in S
    BY <1>6, <1>7, BoundedInduction
<1> QED BY <1>1, <1>5, <1>8, n \in 0 .. n DEF S

\* The rows of an item: its columns that have a price, and its media rules.
ColumnRows(item) ==
    {ImportRow(item, u, item.column[u].price, "", item.column[u].segments) :
        u \in {v \in TokenColumns : item.column[v].price # NoPrice}}
MediaRows(item) == {ImportRow(item, m.unit, m.price, m.dim, m.segments) : m \in ToSet(item.media)}

\* The rows of an item are its columns that have a price and its media rules.
LEMMA ExpandLists ==
    ASSUME NEW item \in Items
    PROVE  /\ expand_item(item) \in Seq(FileRows)
           /\ ToSet(expand_item(item)) = ColumnRows(item) \cup MediaRows(item)
<1> DEFINE C == {u \in TokenColumns : item.column[u].price # NoPrice}
           columns == SetToSeq(C)
           a == [i \in DOMAIN columns |->
                    ImportRow(item, columns[i], item.column[columns[i]].price, "", item.column[columns[i]].segments)]
           b == [i \in DOMAIN item.media |->
                    ImportRow(item, item.media[i].unit, item.media[i].price, item.media[i].dim, item.media[i].segments)]
<1>1. expand_item(item) = a \o b
    BY Zenon DEF expand_item
<1>2. IsFiniteSet(C)
    <2>1. IsFiniteSet(TokenColumns)
        <3> DEFINE A == {"token_in"}
                   B == A \cup {"token_out"}
                   D == B \cup {"token_cache_write"}
        <3>1. IsFiniteSet(A)
            BY FS_Singleton
        <3>2. IsFiniteSet(B)
            BY <3>1, FS_AddElement
        <3>3. IsFiniteSet(D)
            BY <3>2, FS_AddElement
        <3>4. IsFiniteSet(D \cup {"token_cache_read"})
            BY <3>3, FS_AddElement
        <3>5. TokenColumns = D \cup {"token_cache_read"}
            BY DEF TokenColumns
        <3> QED BY <3>4, <3>5
    <2> QED BY <2>1, FS_Subset, C \in SUBSET TokenColumns
<1>3. columns \in Seq(C) /\ ToSet(columns) = C
    <2> HIDE DEF C
    <2> QED BY <1>2, SetToSeqLists
<1>4. PICK n \in Nat : DOMAIN columns = 1 .. n
    <2> HIDE DEF columns
    <2> QED BY <1>3
<1>5. PICK k \in Nat : DOMAIN item.media = 1 .. k
    BY DEF Items
<1>6. ASSUME NEW u \in TokenColumns PROVE item.column[u].price \in Int /\ item.column[u].segments \in SegmentKinds \cup {Scalar}
    BY DEF Items
<1>7. ASSUME NEW i \in 1 .. k PROVE item.media[i] \in FileRules
    <2>1. item.media \in Seq(FileRules)
        BY DEF Items, FileRules
    <2> QED BY <1>5, <2>1
<1>8. ASSUME NEW i \in 1 .. n PROVE columns[i] \in C
    <2> HIDE DEF columns, C
    <2> QED BY <1>3, <1>4
<1>9. a \in Seq(FileRows)
    <2>1. \A i \in 1 .. n : a[i] \in FileRows
        <3> TAKE i \in 1 .. n
        <3>1. PICK u \in TokenColumns : u = columns[i]
            BY <1>8
        <3>2. a[i] = ImportRow(item, u, item.column[u].price, "", item.column[u].segments)
            BY <1>4, <3>1
        <3>3. item.channel \in STRING /\ item.currency \in STRING
            BY DEF Items
        <3>4. u \in TokenColumns \cup MediaUnits /\ "" \in Dimensions \cup {Scalar}
            BY DEF Dimensions
        <3>5. item.column[u].price \in Int /\ item.column[u].segments \in SegmentKinds \cup {Scalar}
            BY <1>6
        <3>6. ImportRow(item, u, item.column[u].price, "", item.column[u].segments) \in FileRows
            BY <3>3, <3>4, <3>5, Zenon DEF ImportRow, FileRows
        <3> QED BY <3>2, <3>6
    <2>2. DOMAIN a = 1 .. n
        BY <1>4
    <2> HIDE DEF a
    <2>3. a = [i \in 1 .. n |-> a[i]]
        BY <2>2 DEF a
    <2> QED BY <2>1, <2>3, SeqDef
<1>10. b \in Seq(FileRows)
    <2>1. \A i \in 1 .. k : b[i] \in FileRows
        <3> TAKE i \in 1 .. k
        <3>1. b[i] = ImportRow(item, item.media[i].unit, item.media[i].price, item.media[i].dim, item.media[i].segments)
            BY <1>5
        <3> QED BY <1>7, <3>1 DEF ImportRow, FileRows, FileRules, Items
    <2>2. DOMAIN b = 1 .. k
        BY <1>5
    <2> HIDE DEF b
    <2>3. b = [i \in 1 .. k |-> b[i]]
        BY <2>2 DEF b
    <2> QED BY <2>1, <2>3, SeqDef
<1>11. ToSet(a) = ColumnRows(item)
    <2>1. \A x : x \in ToSet(a) <=> \E i \in DOMAIN columns :
            x = ImportRow(item, columns[i], item.column[columns[i]].price, "", item.column[columns[i]].segments)
        BY Zenon DEF ToSet
    <2>2. \A u : u \in C <=> \E i \in DOMAIN columns : u = columns[i]
        <3> HIDE DEF columns, C
        <3> QED BY <1>3 DEF ToSet
    <2>3. \A x : x \in ColumnRows(item) <=> \E u \in C : x = ImportRow(item, u, item.column[u].price, "", item.column[u].segments)
        BY Zenon DEF ColumnRows
    <2> HIDE DEF a, columns, C
    <2> QED BY <2>1, <2>2, <2>3, Zenon
<1>12. ToSet(b) = MediaRows(item)
    BY Zenon DEF ToSet, MediaRows
<1> HIDE DEF a, b
<1>13. a \o b \in Seq(FileRows) /\ Range(a \o b) = Range(a) \cup Range(b)
    BY <1>9, <1>10, RangeConcatenation
<1>14. ToSet(a \o b) = ToSet(a) \cup ToSet(b)
    BY <1>13, Zenon DEF Range, ToSet
<1> QED BY <1>1, <1>11, <1>12, <1>13, <1>14

\* The rows of an item that was accepted can be stored.
LEMMA RowsFit ==
    ASSUME NEW items \in Seq(Items), NEW i \in analyze_import(items)
    PROVE  expand_item(items[i]) \in Seq(ImportRows)
<1> DEFINE rows == expand_item(items[i])
<1>1. i \in DOMAIN items /\ ItemOK(items[i])
    BY DEF analyze_import
<1>2. rows \in Seq(FileRows)
    BY <1>1, ExpandLists
<1>3. PICK n \in Nat : DOMAIN rows = 1 .. n
    <2> HIDE DEF rows
    <2> QED BY <1>2
<1>4. \A k \in 1 .. n : rows[k] \in FileRows /\ validate_row(rows[k])
    <2>1. \A k \in DOMAIN rows : validate_row(rows[k])
        BY <1>1 DEF ItemOK
    <2> HIDE DEF rows
    <2> QED BY <1>2, <1>3, <2>1
<1> HIDE DEF rows
<1>5. \A k \in 1 .. n : rows[k] \in ImportRows
    BY <1>4 DEF FileRows, ImportRows, validate_row
<1>6. rows = [k \in 1 .. n |-> rows[k]]
    BY <1>2, <1>3
<1> QED BY <1>5, <1>6, SeqDef DEF rows

\* They are the rows that are written.
LEMMA RowsOfItems ==
    ASSUME NEW items \in Seq(Items)
    PROVE  /\ RowsToStore(items) \in Seq(ImportRows)
           /\ \A row : row \in ToSet(RowsToStore(items)) <=>
                \E i \in analyze_import(items) : row \in ToSet(expand_item(items[i]))
<1> DEFINE ss == [i \in DOMAIN items |-> IF i \in analyze_import(items) THEN expand_item(items[i]) ELSE <<>>]
<1>1. PICK n \in Nat : DOMAIN items = 1 .. n /\ \A i \in 1 .. n : items[i] \in Items
    OBVIOUS
<1>2. \A i \in 1 .. n : ss[i] \in Seq(ImportRows)
    <2> TAKE i \in 1 .. n
    <2>1. i \in analyze_import(items) => expand_item(items[i]) \in Seq(ImportRows)
        BY RowsFit
    <2> QED BY <1>1, <2>1
<1>3. analyze_import(items) \subseteq 1 .. n
    BY <1>1 DEF analyze_import
<1>4. RowsToStore(items) = FlattenSeq(ss)
    BY Zenon DEF RowsToStore
<1>5. \A i \in 1 .. n : ss[i] = IF i \in analyze_import(items) THEN expand_item(items[i]) ELSE <<>>
    BY <1>1
<1>6. DOMAIN ss = 1 .. n /\ ss = [i \in 1 .. n |-> ss[i]]
    BY <1>1
<1> HIDE DEF ss
<1>7. ss \in Seq(Seq(ImportRows))
    <2> DEFINE Q == Seq(ImportRows)
    <2>1. \A i \in 1 .. n : ss[i] \in Q
        BY <1>2
    <2> HIDE DEF Q
    <2>2. ss \in Seq(Q)
        BY <1>6, <2>1, SeqDef
    <2> QED BY <2>2 DEF Q
<1>8. FlattenSeq(ss) \in Seq(ImportRows) /\ ToSet(FlattenSeq(ss)) = UNION {ToSet(ss[i]) : i \in DOMAIN ss}
    BY <1>7, FlattenLists
<1>9. ToSet(<<>>) = {}
    BY DEF ToSet
<1>10. \A row : row \in UNION {ToSet(ss[i]) : i \in DOMAIN ss} <=> \E i \in 1 .. n : row \in ToSet(ss[i])
    BY <1>6, Zenon
<1>11. \A row : (\E i \in 1 .. n : row \in ToSet(ss[i])) <=> \E i \in analyze_import(items) : row \in ToSet(expand_item(items[i]))
    <2> TAKE row
    <2>1. ASSUME NEW i \in 1 .. n, row \in ToSet(ss[i]) PROVE i \in analyze_import(items) /\ row \in ToSet(expand_item(items[i]))
        <3>1. i \in analyze_import(items)
            BY <1>5, <1>9, <2>1, Zenon
        <3> QED BY <1>5, <2>1, <3>1
    <2>2. ASSUME NEW i \in analyze_import(items), row \in ToSet(expand_item(items[i])) PROVE i \in 1 .. n /\ row \in ToSet(ss[i])
        <3>1. i \in 1 .. n
            BY <1>3
        <3>2. ss[i] = expand_item(items[i])
            BY <1>5, <3>1
        <3> QED BY <2>2, <3>1, <3>2
    <2> QED BY <2>1, <2>2, Zenon
<1> QED BY <1>4, <1>8, <1>10, <1>11, Zenon

RowsAt(items, i) == ToSet(expand_item(items[i]))

\* Each row that is written has a place among the rows, and the other way around.
LEMMA RowsHavePlaces ==
    ASSUME NEW items \in Seq(Items)
    PROVE  /\ \A j \in 1 .. Len(RowsToStore(items)) : \E i \in analyze_import(items) : RowsToStore(items)[j] \in RowsAt(items, i)
           /\ \A i \in analyze_import(items) : \A row \in RowsAt(items, i) :
                \E j \in 1 .. Len(RowsToStore(items)) : RowsToStore(items)[j] = row
<1>1. RowsToStore(items) \in Seq(ImportRows) /\ DOMAIN RowsToStore(items) = 1 .. Len(RowsToStore(items))
    BY RowsOfItems
<1>2. \A row : row \in ToSet(RowsToStore(items)) <=> \E i \in analyze_import(items) : row \in RowsAt(items, i)
    BY RowsOfItems, Zenon DEF RowsAt
<1>3. \A row : row \in ToSet(RowsToStore(items)) <=> \E j \in 1 .. Len(RowsToStore(items)) : RowsToStore(items)[j] = row
    BY <1>1, Zenon DEF ToSet
<1> QED BY <1>2, <1>3, Zenon

\* ImportHonest, of any import.
Honest(file, good, before, after, dry) ==
    LET named == UNION {KeysOf(file[i]) : i \in good}
    IN  /\ dry => before = after
        /\ {r \in before : RuleKey(r) \notin named} = {r \in after : RuleKey(r) \notin named}
        /\ \A i \in good : \A row \in RowsAt(file, i) : row.price >= 0 /\ row.dim # Scalar /\ row.segments # Scalar
        /\ ~dry => \A k \in named : \E r \in after, i \in good :
            RuleKey(r) = k /\ \E row \in RowsAt(file, i) : RuleKey(row) = k /\ row.price = r.price

\* The rows of an accepted item are fit to be stored.
LEMMA AcceptedRows ==
    ASSUME NEW items \in Seq(Items), NEW i \in analyze_import(items), NEW row \in RowsAt(items, i)
    PROVE  /\ i \in DOMAIN items /\ items[i] \in Items /\ row \in ImportRows /\ row.price >= 0
           /\ row.currency \in {"CNY", "USD"} /\ row.channel \in priceChannels
           /\ row.dim # Scalar /\ row.segments # Scalar
<1>1. i \in DOMAIN items /\ ItemOK(items[i])
    BY DEF analyze_import
<1>2. items[i] \in Items
    BY <1>1
<1>3. expand_item(items[i]) \in Seq(ImportRows) /\ row \in ColumnRows(items[i]) \cup MediaRows(items[i])
    BY <1>2, ExpandLists, RowsFit DEF RowsAt
<1>4. PICK j \in DOMAIN expand_item(items[i]) : row = expand_item(items[i])[j]
    BY Zenon DEF RowsAt, ToSet
<1>5. row \in ImportRows
    BY <1>3, <1>4
<1>6. validate_row(row) /\ items[i].channel \in priceChannels
    BY <1>1, <1>4 DEF ItemOK
<1>7. row.channel = items[i].channel
    <2>1. \A u, q, d, s : ImportRow(items[i], u, q, d, s).channel = items[i].channel
        BY DEF ImportRow
    <2>2. \E u, q, d, s : row = ImportRow(items[i], u, q, d, s)
        BY <1>3, Zenon DEF ColumnRows, MediaRows
    <2> QED BY <2>1, <2>2
<1> QED BY <1>1, <1>2, <1>5, <1>6, <1>7 DEF validate_row

\* What an import does to a table, whatever the file says.
LEMMA ImportDoes ==
    ASSUME NEW T, GoodTable(T), NEW items \in Seq(Items)
    PROVE  /\ GoodTable(Stored(T, RowsToStore(items)))
           /\ \A r \in Stored(T, RowsToStore(items)) :
                r \in T \/ (r.price >= 0 /\ r.currency \in {"CNY", "USD"} /\ r.channel \in priceChannels)
           /\ Honest(items, analyze_import(items), T, Stored(T, RowsToStore(items)), FALSE)
<1> DEFINE rows == RowsToStore(items)
           U == Stored(T, rows)
           good == analyze_import(items)
           n == Len(rows)
           named == UNION {KeysOf(items[i]) : i \in good}
<1>1. rows \in Seq(ImportRows)
    BY RowsOfItems
<1>2. Follows(U, T, rows, n)
    BY <1>1, StoredFollows
<1>3. \A j \in 1 .. n : \E i \in good : rows[j] \in RowsAt(items, i)
    BY RowsHavePlaces, Zenon
<1>4. \A i \in good : \A row \in RowsAt(items, i) : \E j \in 1 .. n : rows[j] = row
    BY RowsHavePlaces, Zenon
<1>5. \A k : k \in named <=> \E i \in good : \E row \in RowsAt(items, i) : k = RuleKey(row)
    <2>1. \A i, k : k \in KeysOf(items[i]) <=> \E row \in RowsAt(items, i) : k = RuleKey(row)
        BY DEF KeysOf, RowsAt
    <2>2. \A k : k \in named <=> \E i \in good : k \in KeysOf(items[i])
        OBVIOUS
    <2> TAKE k
    <2>3. ASSUME k \in named PROVE \E i \in good : \E row \in RowsAt(items, i) : k = RuleKey(row)
        <3>1. PICK i \in good : k \in KeysOf(items[i])
            BY <2>3
        <3>2. \E row \in RowsAt(items, i) : k = RuleKey(row)
            BY <2>1, <3>1
        <3> QED BY <3>2
    <2>4. ASSUME NEW i \in good, NEW row \in RowsAt(items, i), k = RuleKey(row) PROVE k \in named
        <3>1. k \in KeysOf(items[i])
            BY <2>1, <2>4
        <3> QED BY <3>1
    <2> QED BY <2>3, <2>4
<1> HIDE DEF U, rows, good, named, n
<1>6. \A k : k \in named <=> \E j \in 1 .. n : k = RuleKey(rows[j])
    BY <1>3, <1>4, <1>5, Zenon
<1>7. ASSUME NEW i \in good, NEW row \in RowsAt(items, i)
      PROVE  /\ row \in ImportRows /\ row.price >= 0 /\ row.currency \in {"CNY", "USD"} /\ row.channel \in priceChannels
             /\ row.dim # Scalar /\ row.segments # Scalar
    BY AcceptedRows DEF good
<1>8. ASSUME NEW j \in 1 .. n, NEW e \in BOOLEAN
      PROVE  /\ RuleKey(RuleOf(rows[j], e)) = RuleKey(rows[j]) /\ RuleOf(rows[j], e).price = rows[j].price
             /\ RuleOf(rows[j], e).currency = rows[j].currency /\ RuleOf(rows[j], e).channel = rows[j].channel
    BY DEF RuleOf, RuleKey
<1>9. ASSUME NEW r \in U
      PROVE  r \in T \/ (r.price >= 0 /\ r.currency \in {"CNY", "USD"} /\ r.channel \in priceChannels)
    <2>1. CASE r \in T
        BY <2>1
    <2>2. CASE \E j \in 1 .. n : \E e \in BOOLEAN : r = RuleOf(rows[j], e)
        <3>1. PICK j \in 1 .. n, e \in BOOLEAN : r = RuleOf(rows[j], e)
            BY <2>2
        <3>2. PICK i \in good : rows[j] \in RowsAt(items, i)
            BY <1>3
        <3> QED BY <1>7, <1>8, <3>1, <3>2
    <2> QED BY <1>2, <2>1, <2>2 DEF Follows
<1>10. {r \in T : RuleKey(r) \notin named} = {r \in U : RuleKey(r) \notin named}
    <2>1. ASSUME NEW r \in T, RuleKey(r) \notin named PROVE r \in U
        BY <1>2, <1>6, <2>1 DEF Follows
    <2>2. ASSUME NEW r \in U, RuleKey(r) \notin named PROVE r \in T
        BY <1>2, <1>6, <1>8, <2>2 DEF Follows
    <2> QED BY <2>1, <2>2
<1>11. ASSUME NEW k \in named
       PROVE  \E r \in U, i \in good : RuleKey(r) = k /\ \E row \in RowsAt(items, i) : RuleKey(row) = k /\ row.price = r.price
    <2>1. PICK j \in 1 .. n : k = RuleKey(rows[j])
        BY <1>6
    <2>2. PICK r \in U : RuleKey(r) = k
        BY <1>2, <2>1 DEF Follows
    <2>3. PICK l \in 1 .. n, e \in BOOLEAN : r = RuleOf(rows[l], e)
        BY <1>2, <2>1, <2>2 DEF Follows
    <2>4. RuleKey(rows[l]) = k /\ rows[l].price = r.price
        BY <1>8, <2>2, <2>3
    <2>5. PICK i \in good : rows[l] \in RowsAt(items, i)
        BY <1>3
    <2> QED BY <2>2, <2>4, <2>5, Zenon
<1>12. GoodTable(U)
    BY <1>2 DEF Follows
<1>13. Honest(items, good, T, U, FALSE)
    BY <1>7, <1>10, <1>11, Zenon DEF Honest, named
<1> QED BY <1>9, <1>12, <1>13 DEF U, rows, good

-----------------------------------------------------------------------------
(* The export.                                                               *)

\* InOrder names each of the rules.
LEMMA InOrderLists ==
    ASSUME NEW R, IsFiniteSet(R), \A r \in R : r.dim \in Dimensions
    PROVE  InOrder(R) \in Seq(R) /\ ToSet(InOrder(R)) = R
<1> DEFINE P(i) == {r \in R : r.dim = DimOrder[i]}
           ss == [i \in 1 .. 3 |-> SetToSeq(P(i))]
<1>1. \A i \in 1 .. 3 : ss[i] \in Seq(R) /\ ToSet(ss[i]) = P(i)
    <2> TAKE i \in 1 .. 3
    <2>1. IsFiniteSet(P(i)) /\ P(i) \in SUBSET R
        BY FS_Subset, P(i) \in SUBSET R
    <2>2. SetToSeq(P(i)) \in Seq(P(i)) /\ ToSet(SetToSeq(P(i))) = P(i)
        <3> HIDE DEF P
        <3> QED BY <2>1, SetToSeqLists
    <2>3. SetToSeq(P(i)) \in Seq(R)
        <3> HIDE DEF P
        <3> QED BY <2>1, <2>2, SeqMonotonic
    <2> QED BY <2>2, <2>3
<1>2. InOrder(R) = FlattenSeq(ss)
    BY Zenon DEF InOrder
<1>3. DOMAIN ss = 1 .. 3 /\ ss = [i \in 1 .. 3 |-> ss[i]]
    OBVIOUS
<1> HIDE DEF ss
<1>4. ss \in Seq(Seq(R))
    <2> DEFINE Q == Seq(R)
    <2>1. \A i \in 1 .. 3 : ss[i] \in Q
        BY <1>1
    <2> HIDE DEF Q
    <2>2. ss \in Seq(Q)
        BY <1>3, <2>1, SeqDef, 3 \in Nat
    <2> QED BY <2>2 DEF Q
<1>5. FlattenSeq(ss) \in Seq(R) /\ ToSet(FlattenSeq(ss)) = UNION {ToSet(ss[i]) : i \in DOMAIN ss}
    BY <1>4, FlattenLists
<1>6. \A r : r \in UNION {ToSet(ss[i]) : i \in DOMAIN ss} <=> \E i \in 1 .. 3 : r \in P(i)
    <2> HIDE DEF P
    <2> QED BY <1>1, <1>3, Zenon
<1>7. \A r \in R : \E i \in 1 .. 3 : r \in P(i)
    <2> TAKE r \in R
    <2>1. DimOrder[1] = "" /\ DimOrder[2] = "text" /\ DimOrder[3] = "number"
        BY DEF DimOrder
    <2>2. r.dim = DimOrder[1] \/ r.dim = DimOrder[2] \/ r.dim = DimOrder[3]
        BY <2>1 DEF Dimensions
    <2>3. r \in P(1) \/ r \in P(2) \/ r \in P(3)
        BY <2>2, Zenon
    <2> HIDE DEF P
    <2> QED BY <2>3, 1 \in 1 .. 3, 2 \in 1 .. 3, 3 \in 1 .. 3, Zenon
<1>8. UNION {ToSet(ss[i]) : i \in DOMAIN ss} = R
    BY <1>6, <1>7
<1> QED BY <1>2, <1>5, <1>8

\* The rules of a channel and currency for a unit, in the order of the export.
Ruled(T, channel, currency, u) == {r \in T : r.channel = channel /\ r.currency = currency /\ r.unit = u}

\* So it does for the rules of one unit of one channel and currency.
LEMMA RuledLists ==
    ASSUME NEW T, GoodTable(T), NEW channel, NEW currency, NEW u
    PROVE  LET R == Ruled(T, channel, currency, u) IN InOrder(R) \in Seq(R) /\ ToSet(InOrder(R)) = R
<1> DEFINE R == Ruled(T, channel, currency, u)
<1>1. R \in SUBSET T /\ R \in SUBSET Rules
    BY DEF Ruled, GoodTable
<1> HIDE DEF R
<1>2. IsFiniteSet(R)
    BY <1>1, FS_Subset DEF GoodTable
<1>3. \A r \in R : r.dim \in Dimensions
    BY <1>1 DEF Rules
<1>4. InOrder(R) \in Seq(R) /\ ToSet(InOrder(R)) = R
    BY <1>2, <1>3, InOrderLists
<1> QED BY <1>4 DEF R

\* A column has the price and the segments of a rule; if there is only one, its own.
LEMMA ColumnIs ==
    ASSUME NEW R \in SUBSET Rules, NEW s \in Seq(R), ToSet(s) = R
    PROVE  /\ PriceAt(s) \in Int /\ SegmentsAt(s) \in SegmentKinds
           /\ R = {} => PriceAt(s) = NoPrice
           /\ R # {} => \E r \in R : PriceAt(s) = r.price
           /\ \A r : R = {r} => PriceAt(s) = r.price /\ SegmentsAt(s) = r.segments
<1>1. PICK n \in Nat : n = Len(s) /\ DOMAIN s = 1 .. n /\ \A i \in 1 .. n : s[i] \in R
    OBVIOUS
<1>2. CASE n = 0
    <2>1. s = <<>> /\ R = {}
        BY <1>1, <1>2, EmptySeq DEF ToSet
    <2>2. SelectLastInSeq(s, LAMBDA r : r.segments # "none") = 0
        BY <1>1, <1>2 DEF SelectLastInSeq
    <2> QED BY <2>1, <2>2 DEF PriceAt, SegmentsAt, NoPrice, SegmentKinds
<1>3. CASE n # 0
    <2>1. s # <<>> /\ s[n] \in R /\ Last(s) = s[n]
        BY <1>1, <1>3 DEF Last
    <2>2. PriceAt(s) = s[n].price /\ s[n].price \in Int
        BY <2>1 DEF PriceAt, Rules
    <2> DEFINE I == {i \in 1 .. Len(s) : s[i].segments # "none"}
    <2>3. CASE I = {}
        <3>1. SegmentsAt(s) = "none"
            BY <2>3 DEF SegmentsAt, SelectLastInSeq
        <3>2. \A i \in 1 .. n : s[i].segments = "none"
            BY <1>1, <2>3
        <3> QED BY <1>1, <1>3, <2>1, <2>2, <3>1, <3>2 DEF SegmentKinds
    <2>4. CASE I # {}
        <3>1. PICK x \in I : \A y \in I : x >= y
            <4>1. I \in SUBSET (1 .. n)
                BY <1>1
            <4> HIDE DEF I
            <4> QED BY <2>4, <4>1, GreatestExists
        <3>2. Max(I) = x
            <4>1. \A y \in I : y \in Int
                BY <1>1
            <4> HIDE DEF I
            <4> QED BY <3>1, <4>1 DEF Max
        <3>3. SegmentsAt(s) = s[x].segments /\ s[x] \in R
            <4>1. SelectLastInSeq(s, LAMBDA r : r.segments # "none") = x
                BY <2>4, <3>2 DEF SelectLastInSeq
            <4>2. x # 0 /\ x \in 1 .. n
                BY <1>1, <3>1
            <4> QED BY <1>1, <4>1, <4>2 DEF SegmentsAt
        <3>4. s[x].segments \in SegmentKinds
            BY <3>3 DEF Rules
        <3> QED BY <2>1, <2>2, <3>3, <3>4
    <2> QED BY <2>3, <2>4
<1> QED BY <1>2, <1>3

MediaRules == [unit : MediaUnits, price : Int, dim : Dimensions, segments : SegmentKinds]

\* A dimension after a file of the format, and whether a media rule of a file is that of r.
DimIn(format, d) == IF format = "xml" THEN XmlDimension(d) ELSE d
MediaOf(m, r, format) ==
    /\ m.unit = r.unit /\ m.price = r.price /\ m.dim = DimIn(format, r.dim)
    /\ XmlSegments(m.segments) = XmlSegments(r.segments)

\* An item without scalars is an item.
LEMMA PlainItem ==
    ASSUME NEW channel \in STRING, NEW currency \in STRING,
           NEW column \in [TokenColumns -> [price : Int, segments : SegmentKinds]], NEW media \in Seq(MediaRules)
    PROVE  [channel |-> channel, currency |-> currency, column |-> column, media |-> media] \in Items
<1>1. column \in [TokenColumns -> [price : Int, segments : SegmentKinds \cup {Scalar}]]
    OBVIOUS
<1>2. media \in Seq(FileRules)
    <2>1. MediaRules \subseteq FileRules
        BY DEF MediaRules, FileRules
    <2> QED BY <2>1, SeqMonotonic
<1> QED BY <1>1, <1>2, Zenon DEF Items, FileRules

\* What the item of a file says of the rules of its channel and currency.
Carries(item, T, channel, currency, format) ==
    /\ item \in Items /\ item.channel = channel /\ item.currency = currency
    /\ item.column \in [TokenColumns -> [price : Int, segments : SegmentKinds]] /\ item.media \in Seq(MediaRules)
    /\ \A u \in TokenColumns :
        /\ Ruled(T, channel, currency, u) = {} => item.column[u].price = NoPrice
        /\ Ruled(T, channel, currency, u) # {} => \E r \in Ruled(T, channel, currency, u) : item.column[u].price = r.price
        /\ \A r : Ruled(T, channel, currency, u) = {r} =>
                    item.column[u].price = r.price /\ XmlSegments(item.column[u].segments) = XmlSegments(r.segments)
    /\ \A m \in ToSet(item.media) :
        \E u \in MediaUnits : \E r \in Ruled(T, channel, currency, u) : MediaOf(m, r, format)
    /\ \A u \in MediaUnits : \A r \in Ruled(T, channel, currency, u) :
        \E m \in ToSet(item.media) : MediaOf(m, r, format)

\* An item of the JSON export carries the rules it was made of.
LEMMA ItemCarries ==
    ASSUME NEW T, GoodTable(T), NEW channel \in STRING, NEW currency \in STRING
    PROVE  Carries(build_export_item(T, channel, currency), T, channel, currency, "json")
<1> DEFINE of(u) == InOrder(Ruled(T, channel, currency, u))
           Of(u) == [j \in DOMAIN of(u) |-> [unit |-> u, price |-> of(u)[j].price, dim |-> of(u)[j].dim, segments |-> of(u)[j].segments]]
           ss == [i \in 1 .. 2 |-> Of(<<"image", "video_second">>[i])]
           column == [u \in TokenColumns |-> [price |-> PriceAt(of(u)), segments |-> SegmentsAt(of(u))]]
           item == build_export_item(T, channel, currency)
<1>1. item = [channel |-> channel, currency |-> currency, column |-> column, media |-> FlattenSeq(ss)]
    BY Zenon DEF build_export_item, Ruled
<1>2. ASSUME NEW u PROVE of(u) \in Seq(Ruled(T, channel, currency, u)) /\ ToSet(of(u)) = Ruled(T, channel, currency, u)
    BY RuledLists
<1>3. ASSUME NEW u PROVE Ruled(T, channel, currency, u) \in SUBSET Rules
    BY DEF Ruled, GoodTable
<1>4. ASSUME NEW u \in TokenColumns
      PROVE  /\ column[u] = [price |-> PriceAt(of(u)), segments |-> SegmentsAt(of(u))]
             /\ column[u] \in [price : Int, segments : SegmentKinds]
             /\ Ruled(T, channel, currency, u) = {} => column[u].price = NoPrice
             /\ Ruled(T, channel, currency, u) # {} => \E r \in Ruled(T, channel, currency, u) : column[u].price = r.price
             /\ \A r : Ruled(T, channel, currency, u) = {r} =>
                    column[u].price = r.price /\ column[u].segments = r.segments
    <2> DEFINE R == Ruled(T, channel, currency, u)
               s == of(u)
    <2>1. column[u] = [price |-> PriceAt(s), segments |-> SegmentsAt(s)]
        OBVIOUS
    <2>2. R \in SUBSET Rules /\ s \in Seq(R) /\ ToSet(s) = R
        BY <1>2, <1>3
    <2> HIDE DEF R, s, column
    <2>3. /\ PriceAt(s) \in Int /\ SegmentsAt(s) \in SegmentKinds
          /\ R = {} => PriceAt(s) = NoPrice
          /\ R # {} => \E r \in R : PriceAt(s) = r.price
          /\ \A r : R = {r} => PriceAt(s) = r.price /\ SegmentsAt(s) = r.segments
        BY <2>2, ColumnIs
    <2>4. column[u].price = PriceAt(s) /\ column[u].segments = SegmentsAt(s)
        BY <2>1
    <2>5. column[u] \in [price : Int, segments : SegmentKinds]
        BY <2>1, <2>3
    <2> QED BY <2>1, <2>3, <2>4, <2>5 DEF R, s
<1>5. column \in [TokenColumns -> [price : Int, segments : SegmentKinds]]
    <2>1. column = [u \in TokenColumns |-> column[u]]
        OBVIOUS
    <2> HIDE DEF column
    <2> QED BY <1>4, <2>1
<1> HIDE DEF column
<1>6. ASSUME NEW u \in MediaUnits
      PROVE  /\ Of(u) \in Seq(MediaRules)
             /\ \A m : m \in ToSet(Of(u)) <=>
                    \E r \in Ruled(T, channel, currency, u) : m = [unit |-> u, price |-> r.price, dim |-> r.dim, segments |-> r.segments]
    <2> DEFINE R == Ruled(T, channel, currency, u)
               s == of(u)
               M(r) == [unit |-> u, price |-> r.price, dim |-> r.dim, segments |-> r.segments]
    <2>1. R \in SUBSET Rules /\ s \in Seq(R) /\ ToSet(s) = R
        BY <1>2, <1>3
    <2>2. Of(u) = [j \in DOMAIN s |-> M(s[j])]
        OBVIOUS
    <2> HIDE DEF R, s, Of
    <2>3. PICK n \in Nat : DOMAIN s = 1 .. n /\ \A j \in 1 .. n : s[j] \in R
        BY <2>1
    <2>4. \A r \in R : M(r) \in MediaRules
        BY <2>1 DEF Rules, MediaRules
    <2>5. Of(u) \in Seq(MediaRules)
        <3>1. Of(u) \in [1 .. n -> MediaRules]
            <4> HIDE DEF M
            <4> QED BY <2>2, <2>3, <2>4
        <3> QED BY <3>1, SeqDef
    <2>6. \A m : m \in ToSet(Of(u)) <=> \E j \in DOMAIN s : m = M(s[j])
        <3> HIDE DEF M
        <3> QED BY <2>2 DEF ToSet
    <2>7. \A r : r \in R <=> \E j \in DOMAIN s : r = s[j]
        BY <2>1 DEF ToSet
    <2>8. \A m : m \in ToSet(Of(u)) <=> \E r \in R : m = M(r)
        <3> HIDE DEF M
        <3> QED BY <2>6, <2>7, Zenon
    <2> QED BY <2>5, <2>8 DEF R
<1>7. DOMAIN ss = 1 .. 2 /\ ss[1] = Of("image") /\ ss[2] = Of("video_second")
    OBVIOUS
<1> HIDE DEF of, Of
<1>8. ss \in Seq(Seq(MediaRules))
    <2> DEFINE Q == Seq(MediaRules)
    <2>1. Of("image") \in Q /\ Of("video_second") \in Q
        BY <1>6 DEF MediaUnits
    <2> HIDE DEF Q
    <2>2. \A i \in 1 .. 2 : ss[i] \in Q
        BY <1>7, <2>1
    <2>3. ss = [i \in 1 .. 2 |-> ss[i]]
        OBVIOUS
    <2> HIDE DEF ss
    <2>4. ss \in Seq(Q)
        BY <2>2, <2>3, SeqDef, 2 \in Nat
    <2> QED BY <2>4 DEF Q
<1> HIDE DEF ss
<1>9. FlattenSeq(ss) \in Seq(MediaRules) /\ ToSet(FlattenSeq(ss)) = UNION {ToSet(ss[i]) : i \in DOMAIN ss}
    BY <1>8, FlattenLists
<1>10. \A m : m \in ToSet(FlattenSeq(ss)) <=> \E u \in MediaUnits : m \in ToSet(Of(u))
    <2> TAKE m
    <2>1. m \in ToSet(FlattenSeq(ss)) <=> \E i \in 1 .. 2 : m \in ToSet(ss[i])
        BY <1>7, <1>9, Zenon
    <2>2. \A i \in 1 .. 2 : i = 1 \/ i = 2
        OBVIOUS
    <2>3. (\E i \in 1 .. 2 : m \in ToSet(ss[i])) <=> m \in ToSet(Of("image")) \/ m \in ToSet(Of("video_second"))
        BY <1>7, <2>2, 1 \in 1 .. 2, 2 \in 1 .. 2, Zenon
    <2> QED BY <2>1, <2>3, Zenon DEF MediaUnits
<1>11. /\ item \in Items /\ item.channel = channel /\ item.currency = currency /\ item.column = column
       /\ item.media = FlattenSeq(ss) /\ item.media \in Seq(MediaRules)
       /\ item.column \in [TokenColumns -> [price : Int, segments : SegmentKinds]]
    <2> HIDE DEF item
    <2> QED BY <1>1, <1>5, <1>9, PlainItem
<1> HIDE DEF item
<1>12. ASSUME NEW m \in ToSet(item.media)
       PROVE  \E u \in MediaUnits : \E r \in Ruled(T, channel, currency, u) : MediaOf(m, r, "json")
    <2>1. PICK u \in MediaUnits : m \in ToSet(Of(u))
        BY <1>10, <1>11
    <2>2. PICK r \in Ruled(T, channel, currency, u) : m = [unit |-> u, price |-> r.price, dim |-> r.dim, segments |-> r.segments]
        BY <1>6, <2>1
    <2>3. MediaOf(m, r, "json")
        BY <2>2 DEF MediaOf, DimIn, Ruled
    <2> QED BY <2>3
<1>13. ASSUME NEW u \in MediaUnits, NEW r \in Ruled(T, channel, currency, u)
       PROVE  \E m \in ToSet(item.media) : MediaOf(m, r, "json")
    <2> DEFINE m == [unit |-> u, price |-> r.price, dim |-> r.dim, segments |-> r.segments]
    <2>1. m \in ToSet(item.media)
        <3>1. m \in ToSet(Of(u))
            BY <1>6
        <3> HIDE DEF m
        <3> QED BY <1>10, <1>11, <3>1
    <2>2. MediaOf(m, r, "json")
        BY DEF MediaOf, DimIn, Ruled
    <2> QED BY <2>1, <2>2, Zenon
<1>14. ASSUME NEW u \in TokenColumns
       PROVE  /\ Ruled(T, channel, currency, u) = {} => item.column[u].price = NoPrice
              /\ Ruled(T, channel, currency, u) # {} => \E r \in Ruled(T, channel, currency, u) : item.column[u].price = r.price
              /\ \A r : Ruled(T, channel, currency, u) = {r} =>
                    item.column[u].price = r.price /\ XmlSegments(item.column[u].segments) = XmlSegments(r.segments)
    BY <1>4, <1>11
<1>15. Carries(item, T, channel, currency, "json")
    BY <1>11, <1>12, <1>13, <1>14 DEF Carries
<1> QED BY <1>15 DEF item

\* The XML form of an item carries them too, up to what XML says of segments.
LEMMA XmlCarries ==
    ASSUME NEW T, NEW channel, NEW currency, NEW item, Carries(item, T, channel, currency, "json")
    PROVE  Carries(XmlItem(item), T, channel, currency, "xml")
<1> DEFINE x == XmlItem(item)
<1>1. item \in Items /\ item.media \in Seq(MediaRules) /\ item.column \in [TokenColumns -> [price : Int, segments : SegmentKinds]]
    BY DEF Carries
<1>2. ASSUME NEW s PROVE XmlSegments(XmlSegments(s)) = XmlSegments(s) /\ (s \in SegmentKinds => XmlSegments(s) \in SegmentKinds)
    BY DEF XmlSegments, SegmentKinds
<1>3. /\ x.channel = item.channel /\ x.currency = item.currency
      /\ x.column = [u \in TokenColumns |-> XmlColumn(item.column[u])]
      /\ x.media = [i \in DOMAIN item.media |-> XmlMedia(item.media[i])]
      /\ x = [channel |-> x.channel, currency |-> x.currency, column |-> x.column, media |-> x.media]
    <2> DEFINE column == [u \in TokenColumns |-> XmlColumn(item.column[u])]
               media == [i \in DOMAIN item.media |-> XmlMedia(item.media[i])]
    <2>1. item = [channel |-> item.channel, currency |-> item.currency, column |-> item.column, media |-> item.media]
        BY <1>1 DEF Items
    <2>2. x = [item EXCEPT !.column = column, !.media = media]
        BY Zenon DEF XmlItem
    <2> HIDE DEF x, column, media
    <2>3. x = [channel |-> item.channel, currency |-> item.currency, column |-> column, media |-> media]
        BY <2>1, <2>2
    <2> QED BY <2>3 DEF column, media
<1> HIDE DEF x
<1>4. ASSUME NEW u \in TokenColumns
      PROVE  /\ x.column[u] \in [price : Int, segments : SegmentKinds]
             /\ x.column[u].price = item.column[u].price /\ x.column[u].segments = XmlSegments(item.column[u].segments)
    <2>1. item.column[u] \in [price : Int, segments : SegmentKinds] /\ x.column[u] = XmlColumn(item.column[u])
        BY <1>1, <1>3
    <2> QED BY <1>2, <2>1 DEF XmlColumn
<1>5. ASSUME NEW m \in MediaRules
      PROVE  /\ XmlMedia(m) \in MediaRules /\ XmlMedia(m).unit = m.unit /\ XmlMedia(m).price = m.price
             /\ XmlMedia(m).dim = XmlDimension(m.dim) /\ XmlMedia(m).segments = XmlSegments(m.segments)
    BY <1>2 DEF XmlMedia, MediaRules, XmlDimension, Dimensions
<1>6. PICK n \in Nat : DOMAIN item.media = 1 .. n /\ \A i \in 1 .. n : item.media[i] \in MediaRules
    BY <1>1
<1>7. x.media \in Seq(MediaRules)
    <2>1. x.media \in [1 .. n -> MediaRules]
        BY <1>3, <1>5, <1>6
    <2> QED BY <2>1, SeqDef
<1>8. \A y : y \in ToSet(x.media) <=> \E m \in ToSet(item.media) : y = XmlMedia(m)
    <2>1. \A y : y \in ToSet(x.media) <=> \E i \in 1 .. n : y = XmlMedia(item.media[i])
        BY <1>3, <1>6 DEF ToSet
    <2>2. \A m : m \in ToSet(item.media) <=> \E i \in 1 .. n : m = item.media[i]
        BY <1>6, Zenon DEF ToSet
    <2> QED BY <2>1, <2>2, Zenon
<1>9. ToSet(item.media) \subseteq MediaRules
    BY <1>6 DEF ToSet
<1>10. x \in Items /\ x.column \in [TokenColumns -> [price : Int, segments : SegmentKinds]]
    <2>1. x.column \in [TokenColumns -> [price : Int, segments : SegmentKinds]]
        <3>1. x.column = [u \in TokenColumns |-> x.column[u]]
            BY <1>3
        <3> QED BY <1>4, <3>1
    <2>2. x.channel \in STRING /\ x.currency \in STRING
        BY <1>1, <1>3 DEF Items
    <2> QED BY <1>3, <1>7, <2>1, <2>2, PlainItem
<1>11. ASSUME NEW m \in MediaRules, NEW r, MediaOf(m, r, "json") PROVE MediaOf(XmlMedia(m), r, "xml")
    BY <1>2, <1>5, <1>11 DEF MediaOf, DimIn
<1>12. ASSUME NEW y \in ToSet(x.media)
       PROVE  \E u \in MediaUnits : \E r \in Ruled(T, channel, currency, u) : MediaOf(y, r, "xml")
    <2>1. PICK m \in ToSet(item.media) : y = XmlMedia(m)
        BY <1>8
    <2>2. PICK u \in MediaUnits : \E r \in Ruled(T, channel, currency, u) : MediaOf(m, r, "json")
        BY DEF Carries
    <2>2a. PICK r \in Ruled(T, channel, currency, u) : MediaOf(m, r, "json")
        BY <2>2
    <2>3. MediaOf(y, r, "xml")
        BY <1>9, <1>11, <2>1, <2>2a
    <2> QED BY <2>3
<1>13. ASSUME NEW u \in MediaUnits, NEW r \in Ruled(T, channel, currency, u)
       PROVE  \E y \in ToSet(x.media) : MediaOf(y, r, "xml")
    <2>1. PICK m \in ToSet(item.media) : MediaOf(m, r, "json")
        BY DEF Carries
    <2>2. XmlMedia(m) \in ToSet(x.media) /\ MediaOf(XmlMedia(m), r, "xml")
        BY <1>8, <1>9, <1>11, <2>1
    <2> QED BY <2>2
<1>14. ASSUME NEW u \in TokenColumns
       PROVE  /\ Ruled(T, channel, currency, u) = {} => x.column[u].price = NoPrice
              /\ Ruled(T, channel, currency, u) # {} => \E r \in Ruled(T, channel, currency, u) : x.column[u].price = r.price
              /\ \A r : Ruled(T, channel, currency, u) = {r} =>
                    x.column[u].price = r.price /\ XmlSegments(x.column[u].segments) = XmlSegments(r.segments)
    <2>1. /\ Ruled(T, channel, currency, u) = {} => item.column[u].price = NoPrice
          /\ Ruled(T, channel, currency, u) # {} => \E r \in Ruled(T, channel, currency, u) : item.column[u].price = r.price
          /\ \A r : Ruled(T, channel, currency, u) = {r} =>
                item.column[u].price = r.price /\ XmlSegments(item.column[u].segments) = XmlSegments(r.segments)
        BY DEF Carries
    <2>2. x.column[u].price = item.column[u].price /\ XmlSegments(x.column[u].segments) = XmlSegments(item.column[u].segments)
        BY <1>2, <1>4
    <2> QED BY <2>1, <2>2
<1>15. x.channel = channel /\ x.currency = currency
    BY <1>3 DEF Carries
<1> QED BY <1>7, <1>10, <1>12, <1>13, <1>14, <1>15, Zenon DEF Carries, x

\* The file of a table.
FileItems(T, format) ==
    LET items == build_export_items(T) IN IF format = "xml" THEN [i \in DOMAIN items |-> XmlItem(items[i])] ELSE items

\* A file has one item for each channel and currency of the table.
LEMMA FileCarries ==
    ASSUME NEW T, GoodTable(T), NEW format \in {"xml", "json"}
    PROVE  /\ FileItems(T, format) \in Seq(Items)
           /\ \A i \in DOMAIN FileItems(T, format) : \E r \in T : Carries(FileItems(T, format)[i], T, r.channel, r.currency, format)
           /\ \A r \in T : \E i \in DOMAIN FileItems(T, format) : Carries(FileItems(T, format)[i], T, r.channel, r.currency, format)
           /\ \A i, j \in DOMAIN FileItems(T, format) :
                /\ FileItems(T, format)[i].channel = FileItems(T, format)[j].channel
                /\ FileItems(T, format)[i].currency = FileItems(T, format)[j].currency
                => i = j
<1> DEFINE K == {<<r.channel, r.currency>> : r \in T}
           B(k) == build_export_item(T, k[1], k[2])
           E == {B(k) : k \in K}
           items == build_export_items(T)
           file == FileItems(T, format)
<1>1. IsFiniteSet(E)
    <2>1. IsFiniteSet(K)
        <3> DEFINE f == [r \in T |-> <<r.channel, r.currency>>]
        <3>1. f \in Surjection(T, K)
            BY Zenon DEF Surjection
        <3> HIDE DEF f, K
        <3> QED BY <3>1, FS_Surjection DEF GoodTable
    <2> DEFINE f == [k \in K |-> B(k)]
    <2>2. f \in Surjection(K, E)
        <3> HIDE DEF K, B
        <3> QED BY Zenon DEF Surjection
    <2> HIDE DEF f, K, E
    <2> QED BY <2>1, <2>2, FS_Surjection
<1>2. items = SetToSeq(E)
    BY Zenon DEF build_export_items
<1>3. \A r \in T : r.channel \in STRING /\ r.currency \in STRING
    BY DEF GoodTable, Rules
<1>4. \A b : b \in E <=> \E r \in T : b = build_export_item(T, r.channel, r.currency)
    <2>1. \A b : b \in E <=> \E k \in K : b = B(k)
        BY Zenon
    <2>2. \A k : k \in K <=> \E r \in T : k = <<r.channel, r.currency>>
        BY Zenon
    <2>3. \A r \in T : B(<<r.channel, r.currency>>) = build_export_item(T, r.channel, r.currency)
        OBVIOUS
    <2> HIDE DEF E, K, B
    <2> TAKE b
    <2>4. ASSUME b \in E PROVE \E r \in T : b = build_export_item(T, r.channel, r.currency)
        <3>1. PICK k \in K : b = B(k)
            BY <2>1, <2>4
        <3>2. PICK r \in T : k = <<r.channel, r.currency>>
            BY <2>2
        <3> QED BY <2>3, <3>1, <3>2
    <2>5. ASSUME NEW r \in T, b = build_export_item(T, r.channel, r.currency) PROVE b \in E
        <3>1. <<r.channel, r.currency>> \in K
            BY <2>2
        <3> QED BY <2>1, <2>3, <2>5, <3>1
    <2> QED BY <2>4, <2>5
<1>5. ASSUME NEW r \in T PROVE Carries(build_export_item(T, r.channel, r.currency), T, r.channel, r.currency, "json")
    BY <1>3, ItemCarries
<1> HIDE DEF E, items
<1>6. /\ items \in Seq(E) /\ ToSet(items) = E
      /\ \A i, j \in DOMAIN items : items[i] = items[j] => i = j
    BY <1>1, <1>2, SetToSeqLists
<1>7. PICK n \in Nat : DOMAIN items = 1 .. n /\ \A i \in 1 .. n : items[i] \in E
    BY <1>6
<1>8. DOMAIN file = 1 .. n /\ \A i \in 1 .. n : file[i] = IF format = "xml" THEN XmlItem(items[i]) ELSE items[i]
    BY <1>7 DEF FileItems, items
<1>9. file = [i \in 1 .. n |-> file[i]]
    <2>1. items = [i \in 1 .. n |-> items[i]]
        BY <1>6, <1>7
    <2>2. file = IF format = "xml" THEN [i \in DOMAIN items |-> XmlItem(items[i])] ELSE items
        BY Zenon DEF FileItems, items
    <2> QED BY <1>7, <2>1, <2>2
<1> HIDE DEF file
<1>10. ASSUME NEW i \in 1 .. n, NEW r \in T, items[i] = build_export_item(T, r.channel, r.currency)
       PROVE  Carries(file[i], T, r.channel, r.currency, format)
    <2>1. Carries(items[i], T, r.channel, r.currency, "json")
        BY <1>5, <1>10
    <2>2. CASE format = "xml"
        BY <1>8, <2>1, <2>2, XmlCarries
    <2>3. CASE format = "json"
        BY <1>8, <2>1, <2>3
    <2> QED BY <2>2, <2>3
<1>11. ASSUME NEW i \in 1 .. n
       PROVE  \E r \in T : Carries(file[i], T, r.channel, r.currency, format) /\ items[i] = build_export_item(T, r.channel, r.currency)
    BY <1>4, <1>7, <1>10
<1>12. ASSUME NEW r \in T PROVE \E i \in 1 .. n : Carries(file[i], T, r.channel, r.currency, format)
    <2>1. build_export_item(T, r.channel, r.currency) \in ToSet(items)
        BY <1>4, <1>6
    <2>2. PICK i \in 1 .. n : items[i] = build_export_item(T, r.channel, r.currency)
        BY <1>7, <2>1, Zenon DEF ToSet
    <2> QED BY <1>10, <2>2
<1>13. ASSUME NEW i \in 1 .. n, NEW j \in 1 .. n, file[i].channel = file[j].channel, file[i].currency = file[j].currency
       PROVE  i = j
    <2>1. PICK r \in T : Carries(file[i], T, r.channel, r.currency, format) /\ items[i] = build_export_item(T, r.channel, r.currency)
        BY <1>11
    <2>2. PICK q \in T : Carries(file[j], T, q.channel, q.currency, format) /\ items[j] = build_export_item(T, q.channel, q.currency)
        BY <1>11
    <2>3. r.channel = q.channel /\ r.currency = q.currency
        BY <1>13, <2>1, <2>2 DEF Carries
    <2> QED BY <1>6, <1>7, <2>1, <2>2, <2>3
<1>14. file \in Seq(Items)
    <2>1. \A i \in 1 .. n : file[i] \in Items
        BY <1>11 DEF Carries
    <2> QED BY <1>9, <2>1, SeqDef
<1> QED BY <1>8, <1>11, <1>12, <1>13, <1>14 DEF file

-----------------------------------------------------------------------------
(* There and back.                                                           *)

\* A table whose rules an import accepts.
SoundTable(T) ==
    /\ GoodTable(T)
    /\ \A r \in T : r.price >= 0 /\ r.currency \in {"CNY", "USD"} /\ r.channel \in priceChannels

\* Each row of an item comes from one of its columns or media rules.
LEMMA RowOfItem ==
    ASSUME NEW item \in Items, NEW row \in ToSet(expand_item(item))
    PROVE  /\ row.channel = item.channel /\ row.currency = item.currency
           /\ \/ \E u \in TokenColumns : /\ item.column[u].price # NoPrice /\ row.unit = u /\ row.dim = ""
                                         /\ row.price = item.column[u].price /\ row.segments = item.column[u].segments
              \/ \E m \in ToSet(item.media) : row.unit = m.unit /\ row.dim = m.dim /\ row.price = m.price /\ row.segments = m.segments
<1>1. row \in ColumnRows(item) \/ row \in MediaRows(item)
    BY ExpandLists
<1>2. CASE row \in ColumnRows(item)
    <2>1. PICK u \in TokenColumns : /\ item.column[u].price # NoPrice
                                    /\ row = ImportRow(item, u, item.column[u].price, "", item.column[u].segments)
        BY <1>2, Zenon DEF ColumnRows
    <2> QED BY <2>1 DEF ImportRow
<1>3. CASE row \in MediaRows(item)
    <2>1. PICK m \in ToSet(item.media) : row = ImportRow(item, m.unit, m.price, m.dim, m.segments)
        BY <1>3, Zenon DEF MediaRows
    <2> QED BY <2>1 DEF ImportRow
<1> QED BY <1>1, <1>2, <1>3

\* Every item of the file of a sound table has a row, and is accepted.
LEMMA CarriedIsAccepted ==
    ASSUME NEW T, SoundTable(T), NEW format \in {"xml", "json"}, NEW r \in T,
           NEW item, Carries(item, T, r.channel, r.currency, format)
    PROVE  /\ ItemOK(item) /\ ToSet(expand_item(item)) # {}
           /\ \A k \in KeysOf(item) : k[1] = r.channel /\ k[3] = r.currency
<1>1. item \in Items /\ item.channel = r.channel /\ item.currency = r.currency
    BY DEF Carries
<1>2. r \in Rules /\ \A u : Ruled(T, r.channel, r.currency, u) \subseteq T
    BY DEF SoundTable, GoodTable, Ruled
<1>3. ToSet(expand_item(item)) = ColumnRows(item) \cup MediaRows(item) /\ expand_item(item) \in Seq(FileRows)
    BY <1>1, ExpandLists
<1>4. ToSet(expand_item(item)) # {}
    <2>1. r \in Ruled(T, r.channel, r.currency, r.unit)
        BY DEF Ruled
    <2>2. CASE r.unit \in TokenColumns
        <3>1. PICK q \in Ruled(T, r.channel, r.currency, r.unit) : item.column[r.unit].price = q.price
            BY <2>1, <2>2 DEF Carries
        <3>2. item.column[r.unit].price # NoPrice
            <4>1. q \in Rules /\ q.price >= 0
                BY <1>2 DEF SoundTable, GoodTable
            <4> QED BY <3>1, <4>1 DEF Rules, NoPrice
        <3>3. ColumnRows(item) # {}
            BY <2>2, <3>2 DEF ColumnRows
        <3> QED BY <1>3, <3>3
    <2>3. CASE r.unit \in MediaUnits
        <3>1. \E m \in ToSet(item.media) : MediaOf(m, r, format)
            BY <2>1, <2>3 DEF Carries
        <3>2. MediaRows(item) # {}
            BY <3>1 DEF MediaRows
        <3> QED BY <1>3, <3>2
    <2> QED BY <1>2, <2>2, <2>3 DEF Rules
<1>5. ASSUME NEW row \in ToSet(expand_item(item)) PROVE row.price >= 0
    <2>1. CASE \E u \in TokenColumns : item.column[u].price # NoPrice /\ row.price = item.column[u].price
        <3>1. PICK u \in TokenColumns : item.column[u].price # NoPrice /\ row.price = item.column[u].price
            BY <2>1
        <3>2. Ruled(T, r.channel, r.currency, u) # {}
            BY <3>1 DEF Carries
        <3>3. PICK q \in Ruled(T, r.channel, r.currency, u) : item.column[u].price = q.price
            BY <3>2 DEF Carries
        <3> QED BY <1>2, <3>1, <3>3 DEF SoundTable
    <2>2. CASE \E m \in ToSet(item.media) : row.price = m.price
        <3>1. PICK m \in ToSet(item.media) : row.price = m.price
            BY <2>2
        <3>2. PICK u \in MediaUnits : \E q \in Ruled(T, r.channel, r.currency, u) : MediaOf(m, q, format)
            BY DEF Carries
        <3>3. PICK q \in Ruled(T, r.channel, r.currency, u) : MediaOf(m, q, format)
            BY <3>2
        <3> QED BY <1>2, <3>1, <3>3 DEF SoundTable, MediaOf
    <2> QED BY <1>1, <2>1, <2>2, RowOfItem
<1>6. ItemOK(item)
    <2>1. item.channel \in priceChannels /\ item.currency \in {"CNY", "USD"}
        BY <1>1 DEF SoundTable
    <2>2. expand_item(item) # <<>>
        BY <1>4 DEF ToSet
    <2>3. ASSUME NEW i \in DOMAIN expand_item(item) PROVE validate_row(expand_item(item)[i])
        <3>1. PICK row \in ToSet(expand_item(item)) : row = expand_item(item)[i]
            BY DEF ToSet
        <3>2. row.currency = item.currency
            BY <1>1, RowOfItem
        <3>3. row.dim # Scalar /\ row.segments # Scalar
            <4>1. \A d \in Dimensions, g \in SegmentKinds : d # Scalar /\ g # Scalar
                BY DEF Dimensions, SegmentKinds, Scalar
            <4>2. "" \in Dimensions /\ \A u \in TokenColumns : item.column[u].segments \in SegmentKinds
                BY DEF Carries, Dimensions
            <4>3. \A m \in ToSet(item.media) : m.dim \in Dimensions /\ m.segments \in SegmentKinds
                <5>1. item.media \in Seq(MediaRules)
                    BY DEF Carries
                <5>2. ToSet(item.media) \subseteq MediaRules
                    BY <5>1 DEF ToSet
                <5> QED BY <5>2 DEF MediaRules
            <4>4. row.dim \in Dimensions /\ row.segments \in SegmentKinds
                BY <1>1, <4>2, <4>3, RowOfItem
            <4> QED BY <4>1, <4>4
        <3> QED BY <1>5, <2>1, <3>1, <3>2, <3>3 DEF validate_row
    <2> QED BY <2>1, <2>2, <2>3 DEF ItemOK
<1>7. ASSUME NEW k \in KeysOf(item) PROVE k[1] = r.channel /\ k[3] = r.currency
    <2>1. PICK row \in ToSet(expand_item(item)) : k = RuleKey(row)
        BY DEF KeysOf
    <2>2. row.channel = item.channel /\ row.currency = item.currency
        BY <1>1, RowOfItem
    <2> QED BY <1>1, <2>1, <2>2 DEF RuleKey
<1> QED BY <1>4, <1>6, <1>7

\* An item has a row of its own for a rule that the file can carry, and no other of its key.
LEMMA PortableIsCarried ==
    ASSUME NEW T, SoundTable(T), NEW format \in {"xml", "json"}, NEW r \in T, Portable(r, T, format),
           NEW item, Carries(item, T, r.channel, r.currency, format)
    PROVE  /\ \E row \in ToSet(expand_item(item)) : RuleKey(row) = RuleKey(r)
           /\ \A row \in ToSet(expand_item(item)) : RuleKey(row) = RuleKey(r) =>
                row.price = r.price /\ XmlSegments(row.segments) = XmlSegments(r.segments)
<1>1. item \in Items /\ item.channel = r.channel /\ item.currency = r.currency
    BY DEF Carries
<1>2. r \in Rules /\ r.price >= 0 /\ r.price \in Int /\ T \in SUBSET Rules
    BY DEF SoundTable, GoodTable, Rules
<1>3. ToSet(expand_item(item)) = ColumnRows(item) \cup MediaRows(item)
    BY <1>1, ExpandLists
<1>4. TokenColumns \cap MediaUnits = {}
    BY DEF TokenColumns, MediaUnits
<1>5. ASSUME NEW x \in ToSet(item.media) PROVE x.unit \in MediaUnits
    <2>1. PICK u \in MediaUnits : \E q \in Ruled(T, r.channel, r.currency, u) : MediaOf(x, q, format)
        BY DEF Carries
    <2> QED BY <2>1 DEF MediaOf, Ruled
<1>6. ASSUME NEW row \in ToSet(expand_item(item)), RuleKey(row) = RuleKey(r)
      PROVE  row.unit = r.unit /\ row.dim = r.dim
    BY <1>6 DEF RuleKey
<1>7. CASE r.unit \in TokenColumns
    <2> DEFINE u == r.unit
    <2>1. Ruled(T, r.channel, r.currency, u) = {r} /\ r.dim = ""
        BY <1>7 DEF Portable, Ruled
    <2>2. item.column[u].price = r.price /\ XmlSegments(item.column[u].segments) = XmlSegments(r.segments)
        BY <1>7, <2>1 DEF Carries
    <2>3. item.column[u].price # NoPrice
        BY <1>2, <2>2 DEF NoPrice
    <2> DEFINE new == ImportRow(item, u, item.column[u].price, "", item.column[u].segments)
    <2>4. new \in ToSet(expand_item(item))
        BY <1>3, <1>7, <2>3 DEF ColumnRows
    <2>5. RuleKey(new) = RuleKey(r)
        BY <1>1, <2>1 DEF ImportRow, RuleKey
    <2>6. ASSUME NEW row \in ToSet(expand_item(item)), RuleKey(row) = RuleKey(r)
          PROVE  row.price = r.price /\ XmlSegments(row.segments) = XmlSegments(r.segments)
        <3>1. row.unit = u
            BY <1>6, <2>6
        <3>2. ~ \E m \in ToSet(item.media) : row.unit = m.unit
            BY <1>4, <1>5, <1>7, <3>1
        <3>3. row.price = item.column[u].price /\ row.segments = item.column[u].segments
            <4>1. PICK w \in TokenColumns : row.unit = w /\ row.price = item.column[w].price /\ row.segments = item.column[w].segments
                BY <1>1, <3>2, RowOfItem
            <4> QED BY <3>1, <4>1
        <3> QED BY <2>2, <3>3
    <2> QED BY <2>4, <2>5, <2>6
<1>8. CASE r.unit \in MediaUnits
    <2> DEFINE u == r.unit
    <2>1. r \in Ruled(T, r.channel, r.currency, u)
        BY DEF Ruled
    <2>2. PICK m \in ToSet(item.media) : MediaOf(m, r, format)
        BY <1>8, <2>1 DEF Carries
    <2>3. DimIn(format, r.dim) = r.dim
        BY DEF DimIn, XmlDimension, Portable
    <2> DEFINE new == ImportRow(item, m.unit, m.price, m.dim, m.segments)
    <2>4. new \in ToSet(expand_item(item))
        BY <1>3 DEF MediaRows
    <2>5. RuleKey(new) = RuleKey(r)
        BY <1>1, <2>2, <2>3 DEF ImportRow, RuleKey, MediaOf
    <2>6. ASSUME NEW row \in ToSet(expand_item(item)), RuleKey(row) = RuleKey(r)
          PROVE  row.price = r.price /\ XmlSegments(row.segments) = XmlSegments(r.segments)
        <3>1. row.unit = u /\ row.dim = r.dim
            BY <1>6, <2>6
        <3>2. PICK x \in ToSet(item.media) : row.unit = x.unit /\ row.dim = x.dim /\ row.price = x.price /\ row.segments = x.segments
            BY <1>1, <1>4, <1>8, <3>1, RowOfItem
        <3>3. PICK v \in MediaUnits : \E q \in Ruled(T, r.channel, r.currency, v) : MediaOf(x, q, format)
            BY DEF Carries
        <3>4. PICK q \in Ruled(T, r.channel, r.currency, v) : MediaOf(x, q, format)
            BY <3>3
        <3>5. q \in T /\ q.channel = r.channel /\ q.currency = r.currency /\ q.unit = r.unit /\ DimIn(format, q.dim) = r.dim
            BY <3>1, <3>2, <3>4 DEF Ruled, MediaOf
        <3>6. q.dim = r.dim
            <4>1. CASE format = "json"
                BY <3>5, <4>1 DEF DimIn
            <4>2. CASE format = "xml"
                <5>1. q.dim \in Dimensions /\ r.dim \in Dimensions
                    BY <1>2, <3>5 DEF Rules
                <5>2. r.dim = "text" => q.dim # "number"
                    BY <3>5, <4>2 DEF Portable
                <5> QED BY <3>5, <4>2, <5>1, <5>2 DEF DimIn, XmlDimension, Dimensions
            <4> QED BY <4>1, <4>2
        <3>7. q = r
            BY <3>5, <3>6 DEF SoundTable, GoodTable, RuleKey
        <3> QED BY <3>2, <3>4, <3>7 DEF MediaOf
    <2> QED BY <2>4, <2>5, <2>6
<1> QED BY <1>2, <1>7, <1>8 DEF Rules

\* A file that is imported into the table it was made of brings back what it can carry.
LEMMA ComesBack ==
    ASSUME NEW T, SoundTable(T), NEW format \in {"xml", "json"}, NEW r \in T, Portable(r, T, format)
    PROVE  \E s \in Stored(T, RowsToStore(FileItems(T, format))) : SamePrice(r, s)
<1> DEFINE items == FileItems(T, format)
           rows == RowsToStore(items)
           U == Stored(T, rows)
           n == Len(rows)
<1>1. GoodTable(T)
    BY DEF SoundTable
<1>2. /\ items \in Seq(Items)
      /\ \A i \in DOMAIN items : \E q \in T : Carries(items[i], T, q.channel, q.currency, format)
      /\ \A q \in T : \E i \in DOMAIN items : Carries(items[i], T, q.channel, q.currency, format)
      /\ \A i, j \in DOMAIN items : items[i].channel = items[j].channel /\ items[i].currency = items[j].currency => i = j
    BY <1>1, FileCarries
<1> HIDE DEF items
<1>3. PICK i \in DOMAIN items : Carries(items[i], T, r.channel, r.currency, format)
    BY <1>2
<1>4. ASSUME NEW j \in DOMAIN items
      PROVE  ItemOK(items[j]) /\ \A k \in KeysOf(items[j]) : k[1] = items[j].channel /\ k[3] = items[j].currency
    <2>1. PICK q \in T : Carries(items[j], T, q.channel, q.currency, format)
        BY <1>2
    <2>2. items[j].channel = q.channel /\ items[j].currency = q.currency
        BY <2>1 DEF Carries
    <2> QED BY <2>1, <2>2, CarriedIsAccepted
<1>5. i \in analyze_import(items)
    <2>1. PICK k : k \in KeysOf(items[i])
        <3>1. ToSet(expand_item(items[i])) # {}
            BY <1>3, CarriedIsAccepted
        <3> QED BY <3>1 DEF KeysOf
    <2>2. k[1] = items[i].channel /\ k[3] = items[i].currency
        BY <1>4, <2>1
    <2>3. ASSUME NEW j \in 1 .. i - 1, k \in KeysOf(items[j]) PROVE FALSE
        <3>1. j \in DOMAIN items /\ j # i
            BY <1>2
        <3> QED BY <1>2, <1>4, <2>2, <2>3, <3>1
    <2>4. ~(KeysOf(items[i]) \subseteq UNION {KeysOf(items[j]) : j \in {l \in 1 .. i - 1 : ItemOK(items[l])}})
        BY <2>1, <2>3, Zenon
    <2>5. ItemOK(items[i])
        BY <1>4
    <2> QED BY <2>4, <2>5, Zenon DEF analyze_import
<1>6. Follows(U, T, rows, n)
    BY <1>1, <1>2, RowsOfItems, StoredFollows
<1>7. PICK row \in RowsAt(items, i) : RuleKey(row) = RuleKey(r)
    BY <1>3, PortableIsCarried DEF RowsAt
<1>8. PICK l \in 1 .. n : rows[l] = row
    BY <1>2, <1>5, RowsHavePlaces
<1>9. ASSUME NEW j \in 1 .. n, RuleKey(rows[j]) = RuleKey(r)
      PROVE  rows[j] \in ImportRows /\ rows[j].price = r.price /\ XmlSegments(rows[j].segments) = XmlSegments(r.segments)
    <2>1. PICK h \in analyze_import(items) : rows[j] \in RowsAt(items, h)
        BY <1>2, RowsHavePlaces
    <2>2. h \in DOMAIN items /\ rows[j] \in ImportRows
        BY <1>2, <2>1, AcceptedRows
    <2>3. RuleKey(rows[j]) \in KeysOf(items[h])
        BY <2>1 DEF RowsAt, KeysOf
    <2>4. items[h].channel = r.channel /\ items[h].currency = r.currency
        BY <1>4, <1>9, <2>2, <2>3 DEF RuleKey
    <2>5. h = i
        BY <1>2, <1>3, <2>2, <2>4 DEF Carries
    <2> QED BY <1>3, <1>9, <2>1, <2>2, <2>5, PortableIsCarried DEF RowsAt
<1> HIDE DEF rows, U, n
<1>10. PICK s \in U : RuleKey(s) = RuleKey(r)
    BY <1>6, <1>7, <1>8 DEF Follows
<1>11. PICK j \in 1 .. n : \E e \in BOOLEAN : s = RuleOf(rows[j], e) /\ WasEnabled(T, rows[j], e)
    <2>1. ~ \A j \in 1 .. n : RuleKey(rows[j]) # RuleKey(s)
        BY <1>7, <1>8, <1>10
    <2> QED BY <1>6, <2>1 DEF Follows
<1>12. PICK e \in BOOLEAN : s = RuleOf(rows[j], e) /\ WasEnabled(T, rows[j], e)
    BY <1>11
<1>13. RuleKey(rows[j]) = RuleKey(r)
    BY <1>10, <1>12 DEF RuleOf, RuleKey
<1>14. e = r.enabled
    BY <1>12, <1>13 DEF WasEnabled
<1>15. /\ s.channel = r.channel /\ s.unit = r.unit /\ s.currency = r.currency /\ s.dim = r.dim /\ s.price = r.price
       /\ s.basis = r.basis /\ s.enabled = r.enabled /\ XmlSegments(s.segments) = XmlSegments(r.segments)
       /\ s \in Rules /\ r \in Rules
    <2>1. s.price = rows[j].price /\ s.segments = rows[j].segments /\ s.basis = "prompt_tokens" /\ s.enabled = e
        BY <1>12 DEF RuleOf
    <2>2. s.channel = r.channel /\ s.unit = r.unit /\ s.currency = r.currency /\ s.dim = r.dim
        BY <1>10 DEF RuleKey
    <2>3. s \in Rules /\ r \in Rules
        BY <1>1, <1>6 DEF Follows, GoodTable
    <2>4. r.basis = "prompt_tokens"
        BY DEF Portable
    <2> QED BY <1>9, <1>13, <1>14, <2>1, <2>2, <2>3, <2>4
<1>16. SamePrice(r, s)
    <2> DEFINE F(x, g) == [channel |-> x.channel, unit |-> x.unit, currency |-> x.currency, dim |-> x.dim, price |-> x.price,
                           segments |-> g, basis |-> x.basis, enabled |-> x.enabled]
    <2>1. ASSUME NEW x \in Rules PROVE [x EXCEPT !.segments = XmlSegments(@)] = F(x, XmlSegments(x.segments))
        BY DEF Rules
    <2>2. F(r, XmlSegments(r.segments)) = F(s, XmlSegments(s.segments))
        BY <1>15
    <2> HIDE DEF F
    <2> QED BY <1>15, <2>1, <2>2 DEF SamePrice
<1> QED BY <1>16 DEF U, rows, items

-----------------------------------------------------------------------------
(* The table and its files.                                                  *)

\* A rule that is being edited is one the table could hold; a file is that of the table it was made of.
EditTyped == priceEdit = NoRule \/ (priceEdit \in Rules /\ priceEdit.currency \in {"CNY", "USD"})
FileTyped ==
    priceFile = NoFile \/ /\ priceFile.format \in {"xml", "json"} /\ GoodTable(priceFile.of)
                          /\ priceFile.items = FileItems(priceFile.of, priceFile.format)

TransferInv ==
    /\ priceSteps \in 0 .. MaxPriceSteps /\ priceChannels \subseteq PriceChannels
    /\ SoundTable(priceTable) /\ EditTyped /\ FileTyped /\ RoundTrip /\ ImportHonest

\* What no step but an import changes.
LEMMA ImportStays ==
    ASSUME UNCHANGED imported, RoundTrip, ImportHonest
    PROVE  RoundTrip' /\ ImportHonest'
<1>1. RoundTrip'
    BY DEF RoundTrip
<1>2. ImportHonest'
    BY DEF ImportHonest
<1> QED BY <1>1, <1>2

\* The empty table is sound and no file is about.
LEMMA TransferStarts == TransferInit => TransferInv
<1> SUFFICES ASSUME TransferInit PROVE TransferInv
    OBVIOUS
<1>1. SoundTable(priceTable)
    BY FS_EmptySet DEF TransferInit, SoundTable, GoodTable
<1>2. RoundTrip
    BY DEF TransferInit, NoImport, RoundTrip
<1>3. ImportHonest
    <2>1. imported.file = <<>> /\ imported.good = {} /\ imported.before = {} /\ imported.after = {} /\ imported.dry = TRUE
        BY DEF TransferInit, NoImport
    <2> QED BY <2>1 DEF ImportHonest
<1> QED BY <1>1, <1>2, <1>3, TransferAssumption DEF TransferInit, TransferInv, EditTyped, FileTyped

\* An edit leaves a table with keys of their own.
LEMMA TableEdited ==
    ASSUME SoundTable(priceTable), NEW old \in SUBSET priceTable, NEW r \in Rules,
           \A o \in priceTable \ old : RuleKey(o) # RuleKey(r),
           r.price >= 0, r.currency \in {"CNY", "USD"}, r.channel \in priceChannels
    PROVE  SoundTable((priceTable \ old) \cup {r})
<1> DEFINE T == (priceTable \ old) \cup {r}
<1>1. T \in SUBSET Rules /\ \A a, b \in T : RuleKey(a) = RuleKey(b) => a = b
    BY DEF SoundTable, GoodTable
<1>2. IsFiniteSet(T)
    <2>1. IsFiniteSet(priceTable \ old)
        BY FS_Subset, priceTable \ old \in SUBSET priceTable DEF SoundTable, GoodTable
    <2> QED BY <2>1, FS_AddElement
<1>3. \A q \in T : q.price >= 0 /\ q.currency \in {"CNY", "USD"} /\ q.channel \in priceChannels
    BY DEF SoundTable
<1> QED BY <1>1, <1>2, <1>3 DEF SoundTable, GoodTable

\* A sound table stays sound when rules are taken from it.
LEMMA SmallerTable ==
    ASSUME SoundTable(priceTable), NEW T \in SUBSET priceTable
    PROVE  SoundTable(T)
<1>1. IsFiniteSet(T)
    BY FS_Subset DEF SoundTable, GoodTable
<1> QED BY <1>1 DEF SoundTable, GoodTable

\* The import of any file leaves a sound table and an honest account.
LEMMA ImportKeeps ==
    ASSUME TransferInv, NEW file, NEW dry_run \in BOOLEAN, import_rules(file, dry_run), file.items \in Seq(Items),
           file.of # {} => file.format \in {"xml", "json"} /\ file.items = FileItems(file.of, file.format)
    PROVE  TransferInv'
<1> DEFINE items == file.items
           T == priceTable
           U == Stored(T, RowsToStore(items))
           good == analyze_import(items)
<1>1. SoundTable(T) /\ GoodTable(T)
    BY DEF TransferInv, SoundTable
<1>2. /\ GoodTable(U) /\ Honest(items, good, T, U, FALSE)
      /\ \A r \in U : r \in T \/ (r.price >= 0 /\ r.currency \in {"CNY", "USD"} /\ r.channel \in priceChannels)
    BY <1>1, ImportDoes
<1>3. /\ imported'.file = items /\ imported'.good = good /\ imported'.before = T /\ imported'.after = priceTable'
      /\ imported'.dry = dry_run /\ imported'.of = file.of /\ imported'.format = file.format
    BY DEF import_rules
<1>4. /\ priceTable' = IF dry_run THEN T ELSE U
      /\ UNCHANGED <<priceChannels, priceEdit, priceFile>> /\ PriceStep
    BY DEF import_rules
<1> HIDE DEF U, T, good
<1>5. SoundTable(priceTable)'
    <2>1. SoundTable(U)
        BY <1>1, <1>2 DEF SoundTable
    <2>2. \A X : SoundTable(X) /\ priceTable' = X => SoundTable(priceTable)'
        BY <1>4 DEF SoundTable, GoodTable
    <2> QED BY <1>1, <1>4, <2>1, <2>2
<1>6. RoundTrip'
    <2> SUFFICES ASSUME imported'.of # {}, imported'.of = imported'.before, ~imported'.dry,
                        NEW r \in imported'.before, Portable(r, imported'.before, imported'.format)
                 PROVE  \E s \in imported'.after : SamePrice(r, s)
        BY DEF RoundTrip
    <2>1. file.of = T /\ file.format \in {"xml", "json"} /\ items = FileItems(T, file.format) /\ priceTable' = U
        BY <1>3, <1>4
    <2>2. r \in T /\ Portable(r, T, file.format)
        BY <1>3, <2>1
    <2>3. \E s \in Stored(T, RowsToStore(FileItems(T, file.format))) : SamePrice(r, s)
        BY <1>1, <2>1, <2>2, ComesBack
    <2> QED BY <1>3, <2>1, <2>3 DEF U
<1>7. ImportHonest'
    <2>1. good \subseteq DOMAIN items
        BY DEF good, analyze_import
    <2>2. {i \in DOMAIN items : i \in good} = good
        BY <2>1
    <2>3. Honest(items, good, T, priceTable', dry_run)
        <3>1. CASE dry_run
            <4>1. priceTable' = T
                BY <1>4, <3>1
            <4>2. \A i \in good : \A row \in RowsAt(items, i) : row.price >= 0 /\ row.dim # Scalar /\ row.segments # Scalar
                BY <1>2, Zenon DEF Honest
            <4> QED BY <3>1, <4>1, <4>2 DEF Honest
        <3>2. CASE ~dry_run
            BY <1>2, <1>4, <3>2 DEF Honest
        <3> QED BY <3>1, <3>2
    <2> HIDE DEF items
    <2> DEFINE imp == imported'
    <2>4. Honest(imp.file, imp.good, imp.before, imp.after, imp.dry) /\ {i \in DOMAIN imp.file : i \in imp.good} = imp.good
        BY <1>3, <2>2, <2>3
    <2> DEFINE named == UNION {KeysOf(imp.file[i]) : i \in imp.good}
               ok == {i \in DOMAIN imp.file : i \in imp.good}
    <2>5. /\ imp.dry => imp.before = imp.after
          /\ {r \in imp.before : RuleKey(r) \notin named} = {r \in imp.after : RuleKey(r) \notin named}
          /\ \A i \in ok : \A row \in ToSet(expand_item(imp.file[i])) : row.price >= 0 /\ row.dim # Scalar /\ row.segments # Scalar
          /\ ~imp.dry => \A k \in named : \E r \in imp.after, i \in ok :
                RuleKey(r) = k /\ \E row \in ToSet(expand_item(imp.file[i])) : RuleKey(row) = k /\ row.price = r.price
        BY <2>4, Zenon DEF Honest, RowsAt
    <2>6. named = UNION {KeysOf(imp.file[i]) : i \in ok}
        BY <2>4, Zenon
    <2> QED BY <2>5, <2>6, Zenon DEF ImportHonest
<1>8. EditTyped' /\ FileTyped'
    BY <1>4 DEF TransferInv, EditTyped, FileTyped, GoodTable
<1>9. priceSteps' \in 0 .. MaxPriceSteps /\ priceChannels' \subseteq PriceChannels
    BY <1>4, TransferAssumption DEF TransferInv, PriceStep
<1> QED BY <1>5, <1>6, <1>7, <1>8, <1>9 DEF TransferInv

\* A rule edited in price and switch is a rule.
LEMMA RuleEdited ==
    ASSUME NEW q \in Rules, NEW price \in {1, 2}, NEW enabled \in BOOLEAN
    PROVE  [q EXCEPT !.price = price, !.enabled = enabled] \in Rules
<1> DEFINE a == [q EXCEPT !.price = price]
           b == [a EXCEPT !.enabled = enabled]
<1>1. a \in Rules
    BY price \in Int DEF Rules
<1> HIDE DEF a
<1>2. b \in Rules
    BY <1>1 DEF Rules
<1>3. [q EXCEPT !.price = price, !.enabled = enabled] = b
    BY DEF a
<1> QED BY <1>2, <1>3

\* Every step keeps the invariant.
LEMMA TransferStep ==
    ASSUME TransferInv, [TransferNext]_transferVars
    PROVE  TransferInv'
<1>1. CASE UNCHANGED transferVars
    <2>1. SoundTable(priceTable)' /\ EditTyped' /\ FileTyped'
        BY <1>1 DEF transferVars, TransferInv, SoundTable, GoodTable, EditTyped, FileTyped
    <2> QED BY <1>1, <2>1, ImportStays DEF transferVars, TransferInv
<1>2. ASSUME NEW X, SoundTable(X), priceTable' = X, priceChannels' = priceChannels PROVE SoundTable(priceTable)'
    BY <1>2 DEF SoundTable, GoodTable
<1>3. ASSUME PriceStep PROVE priceSteps' \in 0 .. MaxPriceSteps
    BY <1>3, TransferAssumption DEF TransferInv, PriceStep
<1>4. ASSUME UNCHANGED priceFile PROVE FileTyped'
    BY <1>4 DEF TransferInv, FileTyped, GoodTable
<1>5. ASSUME UNCHANGED priceEdit PROVE EditTyped'
    BY <1>5 DEF TransferInv, EditTyped
<1>6. SoundTable(priceTable) /\ RoundTrip /\ ImportHonest /\ priceChannels \subseteq PriceChannels
    BY DEF TransferInv
<1>7. ASSUME NEW r \in RuleChoices, create_rule(r) PROVE TransferInv'
    <2>1. r \in Rules
        BY TransferAssumption
    <2>2. SoundTable((priceTable \ {}) \cup {r})
        BY <1>6, <1>7, <2>1, TableEdited DEF create_rule, Acceptable
    <2>3. (priceTable \ {}) \cup {r} = priceTable'
        BY <1>7 DEF create_rule
    <2>4. SoundTable(priceTable)'
        BY <1>2, <1>7, <2>2, <2>3 DEF create_rule
    <2> QED BY <1>3, <1>4, <1>5, <1>6, <1>7, <2>4, ImportStays DEF create_rule, TransferInv
<1>8. ASSUME NEW r \in priceTable, fetch_rule(r) PROVE TransferInv'
    <2>1. EditTyped'
        BY <1>6, <1>8 DEF fetch_rule, EditTyped, SoundTable, GoodTable
    <2>2. SoundTable(priceTable)'
        BY <1>2, <1>6, <1>8 DEF fetch_rule
    <2> QED BY <1>3, <1>4, <1>6, <1>8, <2>1, <2>2, ImportStays DEF fetch_rule, TransferInv
<1>9. ASSUME NEW r \in priceTable, delete_rule(r) PROVE TransferInv'
    <2>1. SoundTable(priceTable \ {r})
        BY <1>6, SmallerTable, priceTable \ {r} \in SUBSET priceTable
    <2>2. SoundTable(priceTable)'
        BY <1>2, <1>9, <2>1 DEF delete_rule
    <2> QED BY <1>3, <1>4, <1>5, <1>6, <1>9, <2>2, ImportStays DEF delete_rule, TransferInv
<1>10. ASSUME NEW price \in {1, 2}, NEW enabled \in BOOLEAN, update_rule(price, enabled) PROVE TransferInv'
    <2> DEFINE row == {o \in priceTable : RuleKey(o) = RuleKey(priceEdit)}
               r == [priceEdit EXCEPT !.price = price, !.enabled = enabled]
    <2>1. priceEdit \in Rules /\ priceEdit.currency \in {"CNY", "USD"}
        BY <1>10 DEF update_rule, TransferInv, EditTyped
    <2>2. r \in Rules /\ r.price = price /\ r.currency = priceEdit.currency /\ r.channel = priceEdit.channel /\ RuleKey(r) = RuleKey(priceEdit)
        <3>1. r \in Rules
            BY <2>1, RuleEdited
        <3>2. /\ r.price = price /\ r.currency = priceEdit.currency /\ r.channel = priceEdit.channel
              /\ r.unit = priceEdit.unit /\ r.dim = priceEdit.dim
            BY <2>1 DEF Rules
        <3> QED BY <3>1, <3>2 DEF RuleKey
    <2>3. SoundTable(priceTable)'
        <3>1. CASE row = {}
            <4>1. priceTable' = priceTable /\ priceChannels' = priceChannels
                BY <1>10, <3>1 DEF update_rule
            <4> QED BY <1>2, <1>6, <4>1
        <3>2. CASE row # {}
            <4>1. priceTable' = (priceTable \ row) \cup {r} /\ priceChannels' = priceChannels
                BY <1>10, <3>2 DEF update_rule
            <4>2. PICK o \in priceTable : RuleKey(o) = RuleKey(priceEdit)
                BY <3>2
            <4>3. r.channel \in priceChannels
                BY <1>6, <2>2, <4>2 DEF RuleKey, SoundTable
            <4>4. row \in SUBSET priceTable /\ \A x \in priceTable \ row : RuleKey(x) # RuleKey(r)
                BY <2>2
            <4>5. r.price >= 0 /\ r.currency \in {"CNY", "USD"}
                BY <2>1, <2>2
            <4> HIDE DEF row, r
            <4>6. SoundTable((priceTable \ row) \cup {r})
                BY <1>6, <2>2, <4>3, <4>4, <4>5, TableEdited
            <4> QED BY <1>2, <4>1, <4>6
        <3> QED BY <3>1, <3>2
    <2>4. EditTyped' /\ priceSteps' = priceSteps
        BY <1>10 DEF update_rule, EditTyped
    <2> QED BY <1>4, <1>6, <1>10, <2>3, <2>4, ImportStays DEF update_rule, TransferInv
<1>11. ASSUME NEW c \in priceChannels, DropChannel(c) PROVE TransferInv'
    <2> DEFINE T == {r \in priceTable : r.channel # c}
    <2>1. SoundTable(T)
        BY <1>6, SmallerTable, T \in SUBSET priceTable
    <2>2. SoundTable(priceTable)'
        <3>1. priceTable' = T /\ priceChannels' = priceChannels \ {c}
            BY <1>11 DEF DropChannel
        <3>2. GoodTable(T) /\ \A r \in T : r.price >= 0 /\ r.currency \in {"CNY", "USD"} /\ r.channel \in priceChannels \ {c}
            BY <2>1 DEF SoundTable
        <3> HIDE DEF T
        <3> QED BY <3>1, <3>2 DEF SoundTable, GoodTable
    <2> QED BY <1>3, <1>4, <1>5, <1>6, <1>11, <2>2, ImportStays DEF DropChannel, TransferInv
<1>12. ASSUME NEW format \in {"xml", "json"}, export_rules(format) PROVE TransferInv'
    <2>1. FileTyped'
        <3>1. priceFile'.format = format /\ priceFile'.of = priceTable /\ priceFile'.items = FileItems(priceTable, format)
            BY <1>12 DEF export_rules, FileItems
        <3>2. GoodTable(priceFile'.of)
            BY <1>6, <3>1 DEF SoundTable
        <3>3. priceFile'.items = FileItems(priceFile'.of, priceFile'.format)
            BY <3>1
        <3> QED BY <3>1, <3>2, <3>3 DEF FileTyped, GoodTable
    <2>2. SoundTable(priceTable)'
        BY <1>2, <1>6, <1>12 DEF export_rules
    <2> QED BY <1>3, <1>5, <1>6, <1>12, <2>1, <2>2, ImportStays DEF export_rules, TransferInv
<1>13. ASSUME NEW dry_run \in BOOLEAN, priceFile # NoFile, import_rules(priceFile, dry_run) PROVE TransferInv'
    <2>1. priceFile.format \in {"xml", "json"} /\ GoodTable(priceFile.of) /\ priceFile.items = FileItems(priceFile.of, priceFile.format)
        BY <1>13 DEF TransferInv, FileTyped
    <2>2. priceFile.items \in Seq(Items)
        BY <2>1, FileCarries
    <2> QED BY <1>13, <2>1, <2>2, ImportKeeps
<1>14. ASSUME NEW items \in HandFiles, import_rules([format |-> "hand", items |-> items, of |-> {}], FALSE) PROVE TransferInv'
    <2> DEFINE file == [format |-> "hand", items |-> items, of |-> {}]
    <2>1. file.items \in Seq(Items) /\ file.of = {}
        BY TransferAssumption
    <2>2. import_rules(file, FALSE)
        BY <1>14
    <2> HIDE DEF file
    <2> QED BY <2>1, <2>2, ImportKeeps
<1> QED BY <1>1, <1>7, <1>8, <1>9, <1>10, <1>11, <1>12, <1>13, <1>14 DEF TransferNext

\* The price table has one rule for a key; a file that is imported into the table it was
\* made of brings back every rule it can carry; an import changes the rules its accepted
\* items name and no others, and a trial run none: for every table, file and sequence of
\* edits (build_export_items, expand_item, analyze_import and import_rules).
THEOREM TransferIsSound == TransferSpec => []TransferSound
<1>1. TransferInv => TransferSound
    BY DEF TransferInv, TransferSound, TransferTypeOK, SoundTable, GoodTable
<1> QED BY <1>1, TransferStarts, TransferStep, PTL DEF TransferSpec

-----------------------------------------------------------------------------
(* Sequences that grow at their end.                                         *)

\* A sequence is empty or grows from a shorter one.
LEMMA Grown ==
    ASSUME NEW B, NEW s \in Seq(B)
    PROVE  s = <<>> \/ \E r \in Seq(B), b \in B : s = Append(r, b)
BY SequenceEmptyOrAppend

\* What a sequence that grows by one element is made of.
LEMMA GrownIs ==
    ASSUME NEW B, NEW r \in Seq(B), NEW b \in B
    PROVE  /\ Append(r, b) \in Seq(B) /\ Append(r, b) # <<>> /\ Len(Append(r, b)) = Len(r) + 1
           /\ Front(Append(r, b)) = r /\ Last(Append(r, b)) = b
           /\ \A i \in 1 .. Len(r) : Append(r, b)[i] = r[i]
           /\ Append(r, b)[Len(r) + 1] = b
<1> DEFINE s == Append(r, b)
<1>1. PICK n \in Nat : n = Len(r)
    OBVIOUS
<1>2. /\ s \in Seq(B) /\ s # <<>> /\ Len(s) = n + 1 /\ \A i \in 1 .. n : s[i] = r[i]
      /\ s[n + 1] = b
    BY <1>1, AppendProperties
<1> HIDE DEF s
<1>3. Last(s) = b
    BY <1>2 DEF Last
<1>4. Front(s) = r
    <2>1. Front(s) = [i \in 1 .. n |-> s[i]]
        BY <1>2, (n + 1) - 1 = n DEF Front
    <2>2. r = [i \in 1 .. n |-> r[i]]
        BY <1>1
    <2> QED BY <1>2, <2>1, <2>2
<1> QED BY <1>1, <1>2, <1>3, <1>4 DEF s

\* Induction: what holds of the empty sequence and of every longer one holds of all.
LEMMA GrowthInduction ==
    ASSUME NEW B, NEW S \in SUBSET Seq(B), <<>> \in S,
           \A r \in S, b \in B : Append(r, b) \in S
    PROVE  S = Seq(B)
<1> DEFINE T == {n \in Nat : \A s \in Seq(B) : Len(s) = n => s \in S}
<1>1. 0 \in T
    BY EmptySeq
<1>2. ASSUME NEW n \in T PROVE n + 1 \in T
    <2> SUFFICES ASSUME NEW s \in Seq(B), Len(s) = n + 1 PROVE s \in S
        OBVIOUS
    <2>1. s # <<>>
        BY Len(<<>>) = 0
    <2>2. PICK r \in Seq(B), b \in B : s = Append(r, b)
        BY <2>1, Grown
    <2>3. Len(r) = n
        BY <2>2, GrownIs
    <2> QED BY <1>2, <2>2, <2>3
<1> HIDE DEF T
<1>3. T = Nat
    <2>1. T \in SUBSET Nat
        BY DEF T
    <2> QED BY <1>1, <1>2, <2>1, NaturalInduction
<1>4. \A s \in Seq(B) : s \in S
    <2> TAKE s \in Seq(B)
    <2>1. Len(s) \in T
        BY <1>3
    <2> QED BY <2>1 DEF T
<1> QED BY <1>4

\* A fold along a sequence.
Foldings(B, S, base, step) ==
    {h \in [Seq(B) -> S] : h[<<>>] = base /\ \A r \in Seq(B), b \in B : h[Append(r, b)] = step[h[r]][b]}

\* It exists.
LEMMA FoldExists ==
    ASSUME NEW B, NEW S, NEW base \in S, NEW step \in [S -> [B -> S]]
    PROVE  Foldings(B, S, base, step) # {}
<1> DEFINE along(s) == [i \in 1 .. Len(s) |-> [x \in S |-> step[x][s[i]]]]
           R(s) == Runs(Len(s), S, base, along(s))
           h == [s \in Seq(B) |-> (CHOOSE f \in R(s) : TRUE)[Len(s)]]
<1>1. ASSUME NEW s \in Seq(B) PROVE R(s) # {} /\ \A f \in R(s) : f[Len(s)] = h[s] /\ h[s] \in S
    <2>1. PICK n \in Nat : n = Len(s)
        OBVIOUS
    <2>2. along(s) \in [1 .. n -> [S -> S]]
        <3>1. \A i \in 1 .. n : s[i] \in B
            BY <2>1
        <3> QED BY <2>1, <3>1
    <2> DEFINE a == along(s)
    <2>3. R(s) = Runs(n, S, base, a)
        BY <2>1
    <2> HIDE DEF a
    <2>4. Runs(n, S, base, a) # {}
        BY <2>2, RunExists DEF a
    <2>5. \A f, g \in Runs(n, S, base, a) : f = g
        BY RunIsUnique
    <2> DEFINE c == CHOOSE f \in R(s) : TRUE
    <2>6. c \in Runs(n, S, base, a)
        BY <2>3, <2>4
    <2>7. h[s] = c[n]
        BY <2>1
    <2> HIDE DEF c, h, R
    <2>8. c[n] \in S
        BY <2>6, n \in 0 .. n DEF Runs
    <2> QED BY <2>1, <2>3, <2>4, <2>5, <2>6, <2>7, <2>8
<1>2. h \in [Seq(B) -> S]
    <2> HIDE DEF R
    <2> SUFFICES ASSUME NEW s \in Seq(B) PROVE (CHOOSE f \in R(s) : TRUE)[Len(s)] \in S
        OBVIOUS
    <2> QED BY <1>1
<1>3. h[<<>>] = base
    <2> DEFINE e == <<>>
    <2>1. e \in Seq(B) /\ Len(e) = 0
        BY EmptySeq
    <2> HIDE DEF e
    <2>2. PICK f : f \in R(e)
        <3> HIDE DEF R
        <3> QED BY <1>1, <2>1
    <2>3. f[0] = base
        BY <2>2 DEF Runs
    <2>4. h[e] = base
        <3> HIDE DEF h, R
        <3> QED BY <1>1, <2>1, <2>2, <2>3
    <2> HIDE DEF h
    <2> QED BY <2>4 DEF e
<1>4. ASSUME NEW r \in Seq(B), NEW b \in B PROVE h[Append(r, b)] = step[h[r]][b]
    <2> DEFINE s == Append(r, b)
    <2>1. PICK n \in Nat : n = Len(r)
        OBVIOUS
    <2>2. s \in Seq(B) /\ Len(s) = n + 1 /\ s[n + 1] = b /\ \A i \in 1 .. n : s[i] = r[i]
        BY <2>1, GrownIs
    <2> HIDE DEF s
    <2>3. PICK f : f \in R(s)
        BY <1>1, <2>2
    <2>4. f \in [0 .. n + 1 -> S] /\ f[0] = base /\ \A i \in 1 .. n + 1 : f[i] = step[f[i - 1]][s[i]]
        <3>1. f \in [0 .. n + 1 -> S] /\ f[0] = base /\ \A i \in 1 .. n + 1 : f[i] = along(s)[i][f[i - 1]]
            BY <2>2, <2>3 DEF Runs
        <3>2. \A i \in 1 .. n + 1 : f[i - 1] \in S
            BY <3>1
        <3>3. \A i \in 1 .. n + 1 : along(s)[i] = [x \in S |-> step[x][s[i]]]
            BY <2>2
        <3> HIDE DEF along
        <3>4. ASSUME NEW i \in 1 .. n + 1 PROVE f[i] = step[f[i - 1]][s[i]]
            <4>1. f[i] = along(s)[i][f[i - 1]] /\ f[i - 1] \in S /\ along(s)[i] = [x \in S |-> step[x][s[i]]]
                BY <3>1, <3>2, <3>3
            <4>2. f[i] = [x \in S |-> step[x][s[i]]][f[i - 1]]
                BY <4>1, Zenon
            <4> QED BY <4>1, <4>2, Zenon
        <3> QED BY <3>1, <3>4
    <2> DEFINE g == [i \in 0 .. n |-> f[i]]
    <2>5. g \in R(r)
        <3>1. g \in [0 .. n -> S] /\ g[0] = base
            BY <2>4
        <3>2. ASSUME NEW i \in 1 .. n PROVE g[i] = along(r)[i][g[i - 1]]
            <4>1. i \in 1 .. n + 1 /\ i \in 0 .. n /\ i - 1 \in 0 .. n
                OBVIOUS
            <4>2. f[i] = step[f[i - 1]][s[i]] /\ s[i] = r[i] /\ f[i - 1] \in S
                <5>1. f[i - 1] \in S
                    BY <2>4, <4>1, i - 1 \in 0 .. n + 1
                <5> QED BY <2>2, <2>4, <4>1, <5>1
            <4>3. along(r)[i] = [x \in S |-> step[x][r[i]]]
                BY <2>1
            <4> QED BY <4>1, <4>2, <4>3
        <3> HIDE DEF g, along
        <3> QED BY <2>1, <3>1, <3>2 DEF Runs
    <2>6. h[r] = f[n] /\ h[s] = f[n + 1]
        <3>1. g[n] = f[n]
            OBVIOUS
        <3> HIDE DEF g, h, R
        <3> QED BY <1>1, <2>1, <2>2, <2>3, <2>5, <3>1
    <2>7. f[n + 1] = step[f[n]][b]
        <3>1. n + 1 \in 1 .. n + 1 /\ (n + 1) - 1 = n
            OBVIOUS
        <3> QED BY <2>2, <2>4, <3>1
    <2> HIDE DEF h
    <2> QED BY <2>6, <2>7 DEF s
<1> HIDE DEF h
<1>5. h \in Foldings(B, S, base, step)
    BY <1>2, <1>3, <1>4 DEF Foldings
<1> QED BY <1>5

-----------------------------------------------------------------------------
(* Lines.                                                                    *)

CutStates == [lines : Seq(Seq(Bytes)), rest : Seq(Bytes)]
Uncut == [lines |-> <<>>, rest |-> <<>>]
CutByte(x, b) ==
    IF b = "n" THEN [lines |-> Append(x.lines, Append(x.rest, b)), rest |-> <<>>]
    ELSE [lines |-> x.lines, rest |-> Append(x.rest, b)]

\* Cutting goes from byte to byte.
LEMMA CutGrows ==
    /\ Cut \in [Seq(Bytes) -> CutStates] /\ Cut[<<>>] = Uncut
    /\ \A s \in Seq(Bytes), b \in Bytes : Cut[Append(s, b)] = CutByte(Cut[s], b)
<1> DEFINE step == [x \in CutStates |-> [b \in Bytes |-> CutByte(x, b)]]
           Eq(g) == g = [bytes \in Seq(Bytes) |->
               IF bytes = <<>> THEN [lines |-> <<>>, rest |-> <<>>]
               ELSE LET before == g[Front(bytes)]
                        line   == Append(before.rest, Last(bytes))
                    IN  IF Last(bytes) = "n" THEN [lines |-> Append(before.lines, line), rest |-> <<>>]
                        ELSE [lines |-> before.lines, rest |-> line]]
<1>1. Uncut \in CutStates
    BY EmptySeq DEF Uncut, CutStates
<1>2. \A x \in CutStates, b \in Bytes : CutByte(x, b) \in CutStates
    <2> TAKE x \in CutStates, b \in Bytes
    <2> DEFINE Q == Seq(Bytes)
    <2>1. x.lines \in Seq(Q) /\ x.rest \in Q
        BY DEF CutStates
    <2>2. Append(x.rest, b) \in Q /\ <<>> \in Q
        BY <2>1, EmptySeq
    <2> HIDE DEF Q
    <2>3. Append(x.lines, Append(x.rest, b)) \in Seq(Q)
        BY <2>1, <2>2, AppendProperties
    <2> QED BY <2>1, <2>2, <2>3 DEF CutByte, CutStates, Q
<1>3. PICK h : h \in Foldings(Bytes, CutStates, Uncut, step)
    <2>1. step \in [CutStates -> [Bytes -> CutStates]]
        BY <1>2
    <2> HIDE DEF step
    <2>2. Foldings(Bytes, CutStates, Uncut, step) # {}
        BY <1>1, <2>1, FoldExists
    <2> QED BY <2>2
<1>4. h \in [Seq(Bytes) -> CutStates] /\ h[<<>>] = Uncut
    BY <1>3 DEF Foldings
<1>5. \A s \in Seq(Bytes), b \in Bytes : h[Append(s, b)] = CutByte(h[s], b)
    <2> TAKE s \in Seq(Bytes), b \in Bytes
    <2>1. h[Append(s, b)] = step[h[s]][b] /\ h[s] \in CutStates
        <3> HIDE DEF step
        <3> QED BY <1>3, Zenon DEF Foldings
    <2> QED BY <2>1
<1>6. Eq(h)
    <2> DEFINE body(bytes) ==
            IF bytes = <<>> THEN [lines |-> <<>>, rest |-> <<>>]
            ELSE LET before == h[Front(bytes)]
                     line   == Append(before.rest, Last(bytes))
                 IN  IF Last(bytes) = "n" THEN [lines |-> Append(before.lines, line), rest |-> <<>>]
                     ELSE [lines |-> before.lines, rest |-> line]
    <2>1. ASSUME NEW s \in Seq(Bytes) PROVE h[s] = body(s)
        <3>1. CASE s = <<>>
            BY <1>4, <3>1 DEF Uncut
        <3>2. CASE s # <<>>
            <4>1. PICK r \in Seq(Bytes), b \in Bytes : s = Append(r, b)
                BY <3>2, Grown
            <4>2. Front(s) = r /\ Last(s) = b
                BY <4>1, GrownIs
            <4>3. h[s] = CutByte(h[r], b)
                BY <1>5, <4>1
            <4> QED BY <3>2, <4>2, <4>3, Zenon DEF CutByte
        <3> QED BY <3>1, <3>2
    <2>2. h = [s \in Seq(Bytes) |-> h[s]]
        BY <1>4
    <2> HIDE DEF body
    <2>3. h = [s \in Seq(Bytes) |-> body(s)]
        BY <2>1, <2>2
    <2> QED BY <2>3, Zenon DEF body
<1>7. Cut = CHOOSE g : Eq(g)
    BY Zenon DEF Cut
<1>8. Eq(Cut)
    <2> HIDE DEF Eq
    <2> QED BY <1>6, <1>7
<1>9. ASSUME NEW s \in Seq(Bytes), NEW b \in Bytes PROVE Cut[Append(s, b)] = CutByte(Cut[s], b)
    <2> DEFINE r == Append(s, b)
    <2>1. r \in Seq(Bytes) /\ r # <<>> /\ Front(r) = s /\ Last(r) = b
        BY GrownIs
    <2> HIDE DEF r
    <2> DEFINE line == Append(Cut[Front(r)].rest, Last(r))
    <2>2. Cut[r] = IF r = <<>> THEN [lines |-> <<>>, rest |-> <<>>]
                   ELSE IF Last(r) = "n" THEN [lines |-> Append(Cut[Front(r)].lines, line), rest |-> <<>>]
                        ELSE [lines |-> Cut[Front(r)].lines, rest |-> line]
        BY <1>8, <2>1, Zenon
    <2> QED BY <2>1, <2>2, Zenon DEF CutByte, r
<1>10. Cut[<<>>] = Uncut
    <2>1. <<>> \in Seq(Bytes)
        BY EmptySeq
    <2> QED BY <1>8, <2>1, Zenon DEF Uncut
<1>11. Cut = h
    <2> DEFINE S == {s \in Seq(Bytes) : Cut[s] = h[s]}
    <2>1. <<>> \in S
        BY <1>4, <1>10, EmptySeq
    <2>2. \A r \in S, b \in Bytes : Append(r, b) \in S
        BY <1>5, <1>9, GrownIs
    <2>3. S = Seq(Bytes)
        <3>1. S \in SUBSET Seq(Bytes)
            OBVIOUS
        <3> HIDE DEF S
        <3> QED BY <2>1, <2>2, <3>1, GrowthInduction
    <2>4. Cut = [s \in Seq(Bytes) |-> Cut[s]] /\ h = [s \in Seq(Bytes) |-> h[s]]
        <3>1. Cut = [s \in Seq(Bytes) |-> Cut[s]]
            BY <1>8, Zenon
        <3> QED BY <1>4, <3>1
    <2>5. \A s \in Seq(Bytes) : Cut[s] = h[s]
        BY <2>3
    <2> QED BY <2>4, <2>5
<1> QED BY <1>4, <1>9, <1>10, <1>11

-----------------------------------------------------------------------------
(* The state of the parser.                                                  *)

\* What a line without its end can be: no line feed, and no CR at its end.
Clean == {l \in Seq(Bytes) : (\A i \in 1 .. Len(l) : l[i] # "n") /\ (l # <<>> => l[Len(l)] # "r")}
CleanEvents == {ev \in Seq(Clean) : ev # <<>>}
\* A line as it is cut: a line feed is at its end, if anywhere.
CutLines == {l \in Seq(Bytes) : \A i \in 1 .. Len(l) - 1 : l[i] # "n"}
ParserStates == [lines : Seq(Clean), out : Seq(CleanEvents)]

\* A line without its end is the longest part of it that ends in neither CR nor LF.
LEMMA TrimIs ==
    ASSUME NEW l \in Seq(Bytes), NEW k \in 0 .. Len(l),
           \A j \in k + 1 .. Len(l) : l[j] \in {"r", "n"}, k > 0 => l[k] \notin {"r", "n"}
    PROVE  TrimEnd(l) = SubSeq(l, 1, k)
<1> DEFINE keep == {i \in DOMAIN l : l[i] \notin {"r", "n"}}
<1>1. PICK n \in Nat : n = Len(l) /\ DOMAIN l = 1 .. n
    OBVIOUS
<1>2. \A i \in keep : i \in 1 .. n /\ i <= k
    BY <1>1
<1>3. CASE k = 0
    <2>1. keep = {}
        BY <1>1, <1>2, <1>3
    <2>2. TrimEnd(l) = <<>>
        BY <2>1, Zenon DEF TrimEnd
    <2>3. SubSeq(l, 1, k) = <<>>
        BY <1>3
    <2> QED BY <2>2, <2>3
<1>4. CASE k > 0
    <2>1. k \in keep
        BY <1>1, <1>4
    <2> DEFINE top == CHOOSE i \in keep : \A j \in keep : j <= i
    <2> HIDE DEF keep
    <2>2. top \in keep /\ \A j \in keep : j <= top
        BY <1>2, <2>1
    <2>3. top = k
        <3> HIDE DEF top
        <3>1. top \in 1 .. n /\ top <= k /\ k <= top
            BY <1>2, <2>1, <2>2
        <3> QED BY <3>1
    <2>4. TrimEnd(l) = SubSeq(l, 1, top)
        <3>1. keep # {}
            BY <2>1
        <3> QED BY <3>1, Zenon DEF TrimEnd, keep
    <2> QED BY <2>3, <2>4
<1> QED BY <1>3, <1>4

\* There is such a part.
LEMMA TrimExists ==
    ASSUME NEW l \in Seq(Bytes)
    PROVE  \E k \in 0 .. Len(l) : /\ \A j \in k + 1 .. Len(l) : l[j] \in {"r", "n"}
                                  /\ k > 0 => l[k] \notin {"r", "n"}
<1> DEFINE keep == {i \in DOMAIN l : l[i] \notin {"r", "n"}}
<1>1. PICK n \in Nat : n = Len(l) /\ DOMAIN l = 1 .. n
    OBVIOUS
<1>2. CASE keep = {}
    <2>1. \A j \in 1 .. n : l[j] \in {"r", "n"}
        BY <1>1, <1>2
    <2> QED BY <1>1, <2>1, 0 \in 0 .. n
<1>3. CASE keep # {}
    <2>1. keep \in SUBSET (1 .. n)
        BY <1>1
    <2>2. PICK k \in keep : \A j \in keep : j <= k
        <3> HIDE DEF keep
        <3> QED BY <1>3, <2>1, GreatestExists
    <2>3. k \in 1 .. n /\ l[k] \notin {"r", "n"}
        BY <1>1, <2>2
    <2>4. ASSUME NEW j \in k + 1 .. n PROVE l[j] \in {"r", "n"}
        <3>1. j \in 1 .. n /\ ~(j <= k)
            BY <2>3
        <3> QED BY <1>1, <2>2, <3>1
    <2> QED BY <1>1, <2>3, <2>4
<1> QED BY <1>2, <1>3

\* A line that was cut is clean without its end.
LEMMA TrimmedIsClean ==
    ASSUME NEW l \in CutLines
    PROVE  TrimEnd(l) \in Clean /\ (IsData(TrimEnd(l)) => Tail(TrimEnd(l)) \in Clean)
<1>1. PICK n \in Nat : n = Len(l) /\ l \in Seq(Bytes)
    BY DEF CutLines
<1>2. PICK k \in 0 .. n : (\A j \in k + 1 .. n : l[j] \in {"r", "n"}) /\ (k > 0 => l[k] \notin {"r", "n"})
    BY <1>1, TrimExists
<1> DEFINE s == TrimEnd(l)
<1>3. s = SubSeq(l, 1, k)
    BY <1>1, <1>2, TrimIs
<1>4. s \in Seq(Bytes) /\ Len(s) = k /\ \A i \in 1 .. k : s[i] = l[i]
    BY <1>1, <1>3
<1> HIDE DEF s
<1>5. ASSUME NEW i \in 1 .. k PROVE s[i] # "n"
    BY <1>1, <1>2, <1>4 DEF CutLines
<1>6. s \in Clean
    BY <1>2, <1>4, <1>5, Len(<<>>) = 0 DEF Clean
<1>7. ASSUME IsData(s) PROVE Tail(s) \in Clean
    <2>1. k > 0
        BY <1>4, <1>7, EmptySeq DEF IsData
    <2>2. Tail(s) \in Seq(Bytes) /\ Len(Tail(s)) = k - 1 /\ \A i \in 1 .. k - 1 : Tail(s)[i] = s[i + 1]
        BY <1>4, <2>1
    <2> DEFINE u == Tail(s)
    <2> HIDE DEF u
    <2>3. ASSUME NEW i \in 1 .. k - 1 PROVE u[i] # "n"
        <3>1. i + 1 \in 1 .. k
            BY <2>1
        <3> QED BY <1>5, <2>2, <3>1 DEF u
    <2>4. u # <<>> => k - 1 > 0
        BY <2>2, EmptySeq DEF u
    <2>5. k - 1 > 0 => u[k - 1] # "r"
        BY <1>2, <1>4, <2>1, <2>2, (k - 1) + 1 = k DEF u
    <2> QED BY <2>2, <2>3, <2>4, <2>5 DEF Clean, u
<1> QED BY <1>6, <1>7 DEF s

\* Any state and any line.
LooseStates == [lines : Seq(Seq(Bytes)), out : Seq(Seq(Seq(Bytes)))]

\* One line, without the cases.
LEMMA ParseLineIs ==
    ASSUME NEW x \in LooseStates, NEW l, NEW c, c = TrimEnd(l)
    PROVE  ParseLine(x, l) =
               [lines |-> IF c = <<>> THEN <<>> ELSE IF IsData(c) THEN Append(x.lines, Tail(c)) ELSE x.lines,
                out   |-> IF c = <<>> /\ x.lines # <<>> THEN Append(x.out, x.lines) ELSE x.out]
<1>0. x = [lines |-> x.lines, out |-> x.out]
    BY DEF LooseStates
<1>1. CASE c = <<>> /\ x.lines # <<>>
    <2>1. ~IsData(c)
        BY <1>1 DEF IsData
    <2>2. ParseLine(x, l) = [lines |-> <<>>, out |-> Append(x.out, x.lines)]
        BY <1>1, <2>1, Zenon DEF ParseLine
    <2> QED BY <1>1, <2>2, Zenon
<1>2. CASE ~(c = <<>> /\ x.lines # <<>>) /\ IsData(c)
    <2>1. ParseLine(x, l) = [x EXCEPT !.lines = Append(@, Tail(c))]
        BY <1>2, Zenon DEF ParseLine
    <2>2. c # <<>>
        BY <1>2 DEF IsData
    <2> DEFINE a == Append(x.lines, Tail(c))
    <2> HIDE DEF a
    <2>3. [x EXCEPT !.lines = a] = [lines |-> a, out |-> x.out]
        BY DEF LooseStates
    <2> QED BY <1>2, <2>1, <2>2, <2>3, Zenon DEF a
<1>3. CASE ~(c = <<>> /\ x.lines # <<>>) /\ ~IsData(c)
    <2>1. ParseLine(x, l) = x
        BY <1>3, Zenon DEF ParseLine
    <2>2. c = <<>> => x.lines = <<>>
        BY <1>3
    <2> QED BY <1>0, <1>3, <2>1, <2>2, Zenon
<1> QED BY <1>1, <1>2, <1>3

\* A state stays one of what its lines are made of.
LEMMA ParsedWithin ==
    ASSUME NEW T, T \subseteq Seq(Bytes), NEW E, \A ev \in Seq(T) : ev # <<>> => ev \in E, E \subseteq Seq(Seq(Bytes)),
           NEW x \in [lines : Seq(T), out : Seq(E)], x \in LooseStates,
           NEW l, IsData(TrimEnd(l)) => Tail(TrimEnd(l)) \in T
    PROVE  ParseLine(x, l) \in [lines : Seq(T), out : Seq(E)]
<1> DEFINE c == TrimEnd(l)
<1> HIDE DEF c
<1>1. x.lines \in Seq(T) /\ x.out \in Seq(E)
    OBVIOUS
<1> DEFINE a == IF c = <<>> THEN <<>> ELSE IF IsData(c) THEN Append(x.lines, Tail(c)) ELSE x.lines
           o == IF c = <<>> /\ x.lines # <<>> THEN Append(x.out, x.lines) ELSE x.out
<1>2. a \in Seq(T)
    <2>1. <<>> \in Seq(T)
        BY EmptySeq
    <2>2. IsData(c) => Append(x.lines, Tail(c)) \in Seq(T)
        BY <1>1, AppendProperties DEF c
    <2> QED BY <1>1, <2>1, <2>2
<1>3. o \in Seq(E)
    <2>1. x.lines # <<>> => Append(x.out, x.lines) \in Seq(E)
        BY <1>1, AppendProperties
    <2> QED BY <1>1, <2>1
<1>4. ParseLine(x, l) = [lines |-> a, out |-> o]
    BY ParseLineIs DEF c
<1> HIDE DEF a, o
<1> QED BY <1>2, <1>3, <1>4

\* Clean states are states.
LEMMA ParserTypes == ParserStates \subseteq LooseStates
<1> SUFFICES ASSUME NEW x \in ParserStates PROVE x \in LooseStates
    OBVIOUS
<1>1. Clean \subseteq Seq(Bytes)
    BY DEF Clean
<1>2. \A s \in Seq(Clean) : s \in Seq(Seq(Bytes))
    BY <1>1
<1>3. CleanEvents \subseteq Seq(Seq(Bytes))
    BY <1>2 DEF CleanEvents
<1> DEFINE Q == Seq(Seq(Bytes))
<1> HIDE DEF Q
<1>4. \A s \in Seq(CleanEvents) : s \in Seq(Q)
    BY <1>3 DEF Q
<1>5. x = [lines |-> x.lines, out |-> x.out] /\ x.lines \in Q /\ x.out \in Seq(Q)
    BY <1>2, <1>4 DEF ParserStates, Q
<1> QED BY <1>5 DEF LooseStates, Q

\* The parser goes from line to line, and keeps clean lines only.
LEMMA ParsedCleanly ==
    ASSUME NEW x \in ParserStates, NEW l \in CutLines
    PROVE  ParseLine(x, l) \in ParserStates
<1>1. IsData(TrimEnd(l)) => Tail(TrimEnd(l)) \in Clean
    BY TrimmedIsClean
<1>2. Clean \subseteq Seq(Bytes) /\ CleanEvents \subseteq Seq(Seq(Bytes))
    <2>1. Clean \subseteq Seq(Bytes)
        BY DEF Clean
    <2>2. \A s \in Seq(Clean) : s \in Seq(Seq(Bytes))
        BY <2>1
    <2> QED BY <2>1, <2>2 DEF CleanEvents
<1>3. \A ev \in Seq(Clean) : ev # <<>> => ev \in CleanEvents
    BY DEF CleanEvents
<1>4. x \in LooseStates
    BY ParserTypes
<1> DEFINE T == Clean
           E == CleanEvents
<1>5. x \in [lines : Seq(T), out : Seq(E)]
    BY DEF ParserStates
<1> HIDE DEF T, E
<1>6. ParseLine(x, l) \in [lines : Seq(T), out : Seq(E)]
    BY <1>1, <1>2, <1>3, <1>4, <1>5, ParsedWithin DEF T, E
<1> QED BY <1>6 DEF ParserStates, T, E

\* ParseLines reads a line after what is before it.
LEMMA ParseGrows ==
    ASSUME NEW x \in LooseStates
    PROVE  /\ ParseLines(x, <<>>) = x
           /\ \A ls \in Seq(Seq(Bytes)) : ParseLines(x, ls) \in LooseStates
           /\ \A ls \in Seq(Seq(Bytes)), l \in Seq(Bytes) : ParseLines(x, Append(ls, l)) = ParseLine(ParseLines(x, ls), l)
<1> DEFINE L == Seq(Bytes)
           step == [y \in LooseStates |-> [l \in L |-> ParseLine(y, l)]]
           Eq(g) == g = [ls \in Seq(L) |-> IF ls = <<>> THEN x ELSE ParseLine(g[Front(ls)], Last(ls))]
           after == CHOOSE g : Eq(g)
<1>1. \A y \in LooseStates, l \in L : ParseLine(y, l) \in LooseStates
    <2> TAKE y \in LooseStates, l \in L
    <2>1. IsData(TrimEnd(l)) => Tail(TrimEnd(l)) \in L
        <3>1. PICK k \in 0 .. Len(l) : TrimEnd(l) = SubSeq(l, 1, k)
            BY TrimExists, TrimIs
        <3>2. TrimEnd(l) \in Seq(Bytes)
            BY <3>1
        <3> QED BY <3>2 DEF IsData
    <2> DEFINE E == Seq(L)
    <2>2. y \in [lines : Seq(L), out : Seq(E)]
        BY DEF LooseStates
    <2> HIDE DEF L, E
    <2>3. ParseLine(y, l) \in [lines : Seq(L), out : Seq(E)]
        BY <2>1, <2>2, ParsedWithin DEF L, E
    <2> QED BY <2>3 DEF LooseStates, L, E
<1>2. PICK h : h \in Foldings(L, LooseStates, x, step)
    <2>1. step \in [LooseStates -> [L -> LooseStates]]
        BY <1>1
    <2> HIDE DEF step, L
    <2>2. Foldings(L, LooseStates, x, step) # {}
        BY <2>1, FoldExists
    <2> QED BY <2>2
<1>3. h \in [Seq(L) -> LooseStates] /\ h[<<>>] = x
    BY <1>2, Zenon DEF Foldings
<1>4. \A ls \in Seq(L), l \in L : h[Append(ls, l)] = ParseLine(h[ls], l)
    <2> TAKE ls \in Seq(L), l \in L
    <2>1. h[Append(ls, l)] = step[h[ls]][l] /\ h[ls] \in LooseStates
        <3> HIDE DEF step, L
        <3> QED BY <1>2, Zenon DEF Foldings
    <2> HIDE DEF L
    <2> QED BY <2>1
<1> HIDE DEF L, step
<1>5. Eq(h)
    <2>1. ASSUME NEW s \in Seq(L) PROVE h[s] = IF s = <<>> THEN x ELSE ParseLine(h[Front(s)], Last(s))
        <3>1. CASE s = <<>>
            BY <1>3, <3>1
        <3>2. CASE s # <<>>
            <4>1. PICK r \in Seq(L), b \in L : s = Append(r, b)
                BY <3>2, Grown
            <4>2. Front(s) = r /\ Last(s) = b
                BY <4>1, GrownIs
            <4> QED BY <1>4, <3>2, <4>1, <4>2
        <3> QED BY <3>1, <3>2
    <2>2. h = [s \in Seq(L) |-> h[s]]
        BY <1>3
    <2> QED BY <2>1, <2>2
<1>6. Eq(after)
    <2> HIDE DEF Eq
    <2> QED BY <1>5
<1>7. \A ls \in Seq(L) : ParseLines(x, ls) = after[ls]
    BY Zenon DEF ParseLines, L
<1> HIDE DEF after
<1>8. <<>> \in Seq(L)
    BY EmptySeq
<1>9. after[<<>>] = x
    BY <1>6, <1>8, Zenon
<1>10. ASSUME NEW ls \in Seq(L), NEW l \in L PROVE after[Append(ls, l)] = ParseLine(after[ls], l)
    <2> DEFINE r == Append(ls, l)
    <2>1. r \in Seq(L) /\ r # <<>> /\ Front(r) = ls /\ Last(r) = l
        BY GrownIs
    <2> HIDE DEF r
    <2>2. after[r] = IF r = <<>> THEN x ELSE ParseLine(after[Front(r)], Last(r))
        BY <1>6, <2>1, Zenon
    <2> QED BY <2>1, <2>2, Zenon DEF r
<1>11. \A ls \in Seq(L) : after[ls] \in LooseStates
    <2> DEFINE S == {ls \in Seq(L) : after[ls] \in LooseStates}
    <2>1. <<>> \in S
        BY <1>8, <1>9
    <2>2. \A ls \in S, l \in L : Append(ls, l) \in S
        <3> TAKE ls \in S, l \in L
        <3>1. ParseLine(after[ls], l) \in LooseStates
            BY <1>1
        <3> QED BY <1>10, <3>1, GrownIs
    <2>3. S \in SUBSET Seq(L)
        OBVIOUS
    <2> HIDE DEF S
    <2>4. S = Seq(L)
        BY <2>1, <2>2, <2>3, GrowthInduction
    <2> QED BY <2>4 DEF S
<1>12. \A ls \in Seq(L), l \in L : Append(ls, l) \in Seq(L)
    BY GrownIs
<1> HIDE DEF Eq
<1> QED BY <1>7, <1>8, <1>9, <1>10, <1>11, <1>12 DEF L

-----------------------------------------------------------------------------
(* Numbers in ascending order.                                               *)

\* What Ascending makes of one number more.
Listed(S, r, i) == IF i \in S THEN Append(r, i) ELSE r

\* Ascending goes from number to number.
LEMMA AscendingGrows ==
    ASSUME NEW S
    PROVE  /\ Ascending(S, 0) = <<>>
           /\ \A n \in Nat : Ascending(S, n + 1) = Listed(S, Ascending(S, n), n + 1)
<1> DEFINE Q == Seq(Nat)
           step == [i \in Nat |-> [r \in Q |-> Listed(S, r, i)]]
           Eq(g) == g = [i \in Nat |-> IF i = 0 THEN <<>> ELSE IF i \in S THEN Append(g[i - 1], i) ELSE g[i - 1]]
           upto == CHOOSE g : Eq(g)
<1>1. step \in [Nat -> [Q -> Q]]
    <2>1. \A i \in Nat, r \in Q : Listed(S, r, i) \in Q
        BY AppendProperties DEF Listed
    <2> HIDE DEF Q
    <2> QED BY <2>1
<1>2. <<>> \in Q
    BY EmptySeq
<1>3. PICK h : h \in Solutions(Q, <<>>, step)
    <2> DEFINE e == <<>>
    <2>1. e \in Q
        BY <1>2
    <2> HIDE DEF step, Q, e
    <2>2. Solutions(Q, e, step) # {}
        BY <1>1, <2>1, RecursionExists
    <2> QED BY <2>2 DEF e
<1>4. h \in [Nat -> Q] /\ h[0] = <<>> /\ \A n \in Nat : h[n + 1] = step[n + 1][h[n]]
    BY <1>3, Zenon DEF Solutions
<1>5. \A n \in Nat : h[n + 1] = Listed(S, h[n], n + 1)
    <2> TAKE n \in Nat
    <2>1. h[n] \in Q /\ n + 1 \in Nat
        BY <1>4
    <2>2. step[n + 1] = [r \in Q |-> Listed(S, r, n + 1)]
        BY <2>1
    <2> HIDE DEF step, Q
    <2> QED BY <1>4, <2>1, <2>2
<1> HIDE DEF step, Q
<1>6. Eq(h)
    <2>1. ASSUME NEW i \in Nat
          PROVE h[i] = IF i = 0 THEN <<>> ELSE IF i \in S THEN Append(h[i - 1], i) ELSE h[i - 1]
        <3>1. CASE i = 0
            BY <1>4, <3>1
        <3>2. CASE i # 0
            <4>1. i - 1 \in Nat /\ (i - 1) + 1 = i
                BY <3>2
            <4>2. h[i] = Listed(S, h[i - 1], i)
                BY <1>5, <4>1
            <4> QED BY <3>2, <4>2, Zenon DEF Listed
        <3> QED BY <3>1, <3>2
    <2>2. h = [i \in Nat |-> h[i]]
        BY <1>4
    <2> QED BY <2>1, <2>2
<1>7. Eq(upto)
    <2> HIDE DEF Eq
    <2> QED BY <1>6
<1>8. \A n \in Nat : Ascending(S, n) = upto[n]
    BY Zenon DEF Ascending
<1> HIDE DEF upto
<1>9. upto[0] = <<>>
    BY <1>7, 0 \in Nat
<1>10. ASSUME NEW n \in Nat PROVE upto[n + 1] = Listed(S, upto[n], n + 1)
    <2>1. n + 1 \in Nat /\ n + 1 # 0 /\ (n + 1) - 1 = n
        OBVIOUS
    <2>2. upto[n + 1] = IF n + 1 = 0 THEN <<>> ELSE IF n + 1 \in S THEN Append(upto[(n + 1) - 1], n + 1) ELSE upto[(n + 1) - 1]
        BY <1>7, <2>1, Zenon
    <2> QED BY <2>1, <2>2, Zenon DEF Listed
<1> HIDE DEF Eq
<1> QED BY <1>8, <1>9, <1>10, 0 \in Nat

\* Only the numbers of the set up to n matter.
LEMMA AscendingAgree ==
    ASSUME NEW S, NEW T, NEW n \in Nat, \A i \in 1 .. n : i \in S <=> i \in T
    PROVE  Ascending(S, n) = Ascending(T, n)
<1> DEFINE P == {i \in 0 .. n : Ascending(S, i) = Ascending(T, i)}
<1>1. 0 \in P
    BY AscendingGrows
<1>2. ASSUME NEW i \in 0 .. n - 1, i \in P PROVE i + 1 \in P
    <2>1. i \in Nat /\ i + 1 \in 1 .. n /\ Ascending(S, i) = Ascending(T, i)
        BY <1>2
    <2>2. Ascending(S, i + 1) = Listed(S, Ascending(S, i), i + 1) /\ Ascending(T, i + 1) = Listed(T, Ascending(T, i), i + 1)
        BY <2>1, AscendingGrows
    <2>3. Ascending(S, i + 1) = Ascending(T, i + 1)
        BY <2>1, <2>2 DEF Listed
    <2> QED BY <2>1, <2>3
<1> HIDE DEF P
<1>3. \A i \in 0 .. n : i \in P
    BY <1>1, <1>2, BoundedInduction
<1> QED BY <1>3, n \in 0 .. n DEF P

\* They are listed, and nothing else is.
LEMMA AscendingLists ==
    ASSUME NEW S, NEW n \in Nat
    PROVE  /\ Ascending(S, n) \in Seq(1 .. n)
           /\ \A k \in DOMAIN Ascending(S, n) : Ascending(S, n)[k] \in S
           /\ Ascending(S, n) = <<>> <=> \A i \in 1 .. n : i \notin S
<1> DEFINE A(i) == Ascending(S, i)
           Good(i) == /\ A(i) \in Seq(1 .. i) /\ \A k \in DOMAIN A(i) : A(i)[k] \in S
                      /\ A(i) = <<>> <=> \A j \in 1 .. i : j \notin S
           P == {i \in 0 .. n : Good(i)}
<1>1. 0 \in P
    <2>1. A(0) = <<>>
        BY AscendingGrows
    <2> DEFINE e == <<>>
    <2>2. e \in Seq(1 .. 0) /\ DOMAIN e = {}
        BY EmptySeq
    <2> HIDE DEF A
    <2>3. \A j \in 1 .. 0 : j \notin S
        OBVIOUS
    <2>4. A(0) = e
        BY <2>1
    <2> HIDE DEF e
    <2>5. Good(0)
        BY <2>2, <2>3, <2>4, Zenon DEF e
    <2> QED BY <2>5, 0 \in 0 .. n
<1>2. ASSUME NEW i \in 0 .. n - 1, i \in P PROVE i + 1 \in P
    <2>1. i \in Nat /\ i + 1 \in 0 .. n /\ i + 1 \in 1 .. i + 1 /\ 1 .. i \subseteq 1 .. i + 1
        BY <1>2
    <2>2. A(i + 1) = Listed(S, A(i), i + 1)
        BY <2>1, AscendingGrows
    <2>3. Good(i)
        BY <1>2
    <2> HIDE DEF A
    <2> DEFINE B == 1 .. i + 1
               r == A(i)
    <2>4. r \in Seq(B)
        <3>1. A(i) \in Seq(1 .. i)
            BY <2>3
        <3> HIDE DEF B
        <3>2. 1 .. i \subseteq B
            BY <2>1 DEF B
        <3> QED BY <3>1, <3>2, SeqMonotonic
    <2>5. CASE i + 1 \in S
        <3>1. A(i + 1) = Append(r, i + 1)
            BY <2>2, <2>5 DEF Listed
        <3> HIDE DEF B, r
        <3>2. i + 1 \in B
            BY <2>1 DEF B
        <3>3. PICK m \in Nat : m = Len(r) /\ DOMAIN r = 1 .. m
            BY <2>4
        <3>4. /\ Append(r, i + 1) \in Seq(B) /\ Append(r, i + 1) # <<>> /\ Len(Append(r, i + 1)) = m + 1
              /\ \A k \in 1 .. m : Append(r, i + 1)[k] = r[k]
              /\ Append(r, i + 1)[m + 1] = i + 1
            BY <2>4, <3>2, <3>3, GrownIs
        <3>5. DOMAIN Append(r, i + 1) = 1 .. m + 1
            BY <3>4
        <3>6. \A k \in 1 .. m + 1 : Append(r, i + 1)[k] \in S
            <4> TAKE k \in 1 .. m + 1
            <4>1. k \in 1 .. m \/ k = m + 1
                OBVIOUS
            <4> QED BY <2>3, <2>5, <3>3, <3>4, <4>1 DEF r
        <3> QED BY <2>1, <2>5, <3>1, <3>4, <3>5, <3>6 DEF B
    <2>6. CASE i + 1 \notin S
        <3>1. A(i + 1) = r
            BY <2>2, <2>6 DEF Listed
        <3>2. (\A j \in 1 .. i : j \notin S) <=> (\A j \in 1 .. i + 1 : j \notin S)
            <4>1. \A j \in 1 .. i + 1 : j \in 1 .. i \/ j = i + 1
                OBVIOUS
            <4> QED BY <2>1, <2>6, <4>1
        <3> HIDE DEF B
        <3> QED BY <2>1, <2>3, <2>4, <3>1, <3>2 DEF B
    <2> QED BY <2>5, <2>6
<1> HIDE DEF P
<1>3. \A i \in 0 .. n : i \in P
    BY <1>1, <1>2, BoundedInduction
<1>4. n \in P
    BY <1>3, n \in 0 .. n
<1> QED BY <1>4 DEF P

-----------------------------------------------------------------------------
(* The reference, line by line.                                              *)

\* The values of a function along a sequence.
Mapped(f, s) == [i \in DOMAIN s |-> f[s[i]]]

\* One element more has one value more.
LEMMA MappedGrows ==
    ASSUME NEW B, NEW r \in Seq(B), NEW b \in B, NEW f
    PROVE  Mapped(f, Append(r, b)) = Append(Mapped(f, r), f[b])
<1>1. PICK m \in Nat : m = Len(r) /\ DOMAIN r = 1 .. m
    OBVIOUS
<1> DEFINE s == Append(r, b)
<1>2. s \in Seq(B) /\ Len(s) = m + 1 /\ (\A i \in 1 .. m : s[i] = r[i]) /\ s[m + 1] = b
    BY <1>1, GrownIs
<1> HIDE DEF s
<1> DEFINE R == {f[r[i]] : i \in 1 .. m} \cup {f[b]}
           u == Mapped(f, r)
<1>3. u \in Seq(R) /\ Len(u) = m /\ \A i \in 1 .. m : u[i] = f[r[i]]
    <2>1. u = [i \in 1 .. m |-> f[r[i]]]
        BY <1>1 DEF Mapped
    <2> QED BY <2>1, SeqDef
<1> HIDE DEF u, R
<1>4. f[b] \in R
    BY DEF R
<1> DEFINE v == Append(u, f[b])
<1>5. v \in Seq(R) /\ Len(v) = m + 1 /\ (\A i \in 1 .. m : v[i] = u[i]) /\ v[m + 1] = f[b]
    BY <1>3, <1>4, GrownIs
<1> HIDE DEF v
<1>6. v = [i \in 1 .. m + 1 |-> v[i]]
    BY <1>5
<1>7. \A i \in 1 .. m + 1 : v[i] = f[s[i]]
    <2> TAKE i \in 1 .. m + 1
    <2>1. i \in 1 .. m \/ i = m + 1
        OBVIOUS
    <2> QED BY <1>2, <1>3, <1>5, <2>1
<1>8. Mapped(f, s) = [i \in 1 .. m + 1 |-> f[s[i]]]
    BY <1>2 DEF Mapped
<1> QED BY <1>6, <1>7, <1>8 DEF s, u, v

\* Along the empty sequence there is none.
LEMMA MappedNone == ASSUME NEW f PROVE Mapped(f, <<>>) = <<>>
BY DEF Mapped

\* A sequence of values is empty only along an empty one.
LEMMA MappedEmpty ==
    ASSUME NEW B, NEW r \in Seq(B), NEW f
    PROVE  Mapped(f, r) = <<>> <=> r = <<>>
<1>1. CASE r = <<>>
    BY <1>1, MappedNone
<1>2. CASE r # <<>>
    <2>1. PICK q \in Seq(B), b \in B : r = Append(q, b)
        BY <1>2, Grown
    <2>2. 1 \in DOMAIN r
        BY <1>2
    <2>3. 1 \in DOMAIN Mapped(f, r)
        BY <2>2 DEF Mapped
    <2> QED BY <1>2, <2>3
<1> QED BY <1>1, <1>2

\* What each line adds to an event, were it a data line.
Texts(ls) == [k \in 1 .. Len(ls) |-> Tail(TrimEnd(ls[k]))]
\* The data lines of the event that ends with line e, and what it holds.
DataOf(ls, ends, e) == {i \in 1 .. e : IsData(TrimEnd(ls[i])) /\ \A f \in ends : f < i \/ e <= f}
Bodies(ls, ends) == [e \in 1 .. Len(ls) |-> Mapped(Texts(ls), Ascending(DataOf(ls, ends, e), e))]
\* The ends of an event that is not empty.
Full(ls, ends) == {e \in ends : DataOf(ls, ends, e) # {}}
\* The events of the first m lines.
Events(ls, ends, m) == Mapped(Bodies(ls, ends), Ascending(Full(ls, ends), m))
\* The data lines of the event that line m has not ended, and what they hold.
OpenAt(ls, ends, m) == {i \in 1 .. m : IsData(TrimEnd(ls[i])) /\ \A f \in ends : f <= m => f < i}
Pending(ls, ends, m) == Mapped(Texts(ls), Ascending(OpenAt(ls, ends, m), m))

\* The reference is the last of these.
LEMMA GroupedIs ==
    ASSUME NEW ls \in Seq(Seq(Bytes)), NEW ends \in SUBSET (1 .. Len(ls))
    PROVE  Grouped(ls, ends) = Events(ls, ends, Len(ls))
<1>1. PICK n \in Nat : n = Len(ls)
    OBVIOUS
<1> DEFINE body(e) == LET at == Ascending(DataOf(ls, ends, e), e) IN [i \in DOMAIN at |-> Tail(TrimEnd(ls[at[i]]))]
           order == Ascending(Full(ls, ends), n)
<1>2. Grouped(ls, ends) = [i \in DOMAIN order |-> body(order[i])]
    BY <1>1, Zenon DEF Grouped, DataOf, Full
<1>3. ASSUME NEW e \in 1 .. n PROVE body(e) = Bodies(ls, ends)[e]
    <2> DEFINE at == Ascending(DataOf(ls, ends, e), e)
    <2>1. at \in Seq(1 .. e)
        BY AscendingLists
    <2>2. \A i \in DOMAIN at : at[i] \in 1 .. n
        <3> HIDE DEF at
        <3> TAKE i \in DOMAIN at
        <3>1. at[i] \in 1 .. e
            BY <2>1
        <3> QED BY <3>1
    <2>3. \A i \in DOMAIN at : Texts(ls)[at[i]] = Tail(TrimEnd(ls[at[i]]))
        <3> HIDE DEF at
        <3> QED BY <1>1, <2>2 DEF Texts
    <2>4. body(e) = Mapped(Texts(ls), at)
        <3> HIDE DEF at
        <3>1. [i \in DOMAIN at |-> Tail(TrimEnd(ls[at[i]]))] = Mapped(Texts(ls), at)
            BY <2>3 DEF Mapped
        <3> QED BY <3>1 DEF at
    <2>5. Bodies(ls, ends)[e] = Mapped(Texts(ls), at)
        BY <1>1, Zenon DEF Bodies
    <2> QED BY <2>4, <2>5
<1>4. order \in Seq(1 .. n)
    BY AscendingLists
<1> HIDE DEF body, order
<1>5. \A i \in DOMAIN order : order[i] \in 1 .. n
    BY <1>4
<1>6. [i \in DOMAIN order |-> body(order[i])] = Mapped(Bodies(ls, ends), order)
    BY <1>3, <1>5 DEF Mapped
<1> QED BY <1>1, <1>2, <1>6 DEF Events, order

\* Another line adds at most the event that it ends.
LEMMA EventsGrow ==
    ASSUME NEW ls \in Seq(Seq(Bytes)), NEW ends \in SUBSET (1 .. Len(ls)), NEW m \in 0 .. Len(ls) - 1
    PROVE  /\ Events(ls, ends, 0) = <<>>
           /\ Events(ls, ends, m + 1) =
                  IF m + 1 \in Full(ls, ends) THEN Append(Events(ls, ends, m), Bodies(ls, ends)[m + 1])
                  ELSE Events(ls, ends, m)
<1> DEFINE S == Full(ls, ends)
           A(k) == Ascending(S, k)
           F == Bodies(ls, ends)
<1>1. A(0) = <<>> /\ A(m + 1) = Listed(S, A(m), m + 1)
    BY AscendingGrows, m \in Nat, 0 \in Nat
<1>2. A(m) \in Seq(1 .. m)
    BY AscendingLists, m \in Nat
<1>3. A(m) \in Seq(1 .. m + 1) /\ m + 1 \in 1 .. m + 1
    BY <1>2, 1 .. m \subseteq 1 .. m + 1, SeqMonotonic
<1>4. Mapped(F, Append(A(m), m + 1)) = Append(Mapped(F, A(m)), F[m + 1])
    <2> HIDE DEF A, F
    <2> QED BY <1>3, MappedGrows
<1> HIDE DEF F, S
<1>5. Mapped(F, A(m + 1)) = IF m + 1 \in S THEN Append(Mapped(F, A(m)), F[m + 1]) ELSE Mapped(F, A(m))
    BY <1>1, <1>4 DEF Listed
<1> QED BY <1>1, <1>5, MappedNone DEF Events, F, S

\* The open event gains a data line, and is gone after its end.
LEMMA PendingGrows ==
    ASSUME NEW ls \in Seq(Seq(Bytes)), NEW ends \in SUBSET (1 .. Len(ls)), NEW m \in 0 .. Len(ls) - 1
    PROVE  /\ Pending(ls, ends, 0) = <<>>
           /\ m + 1 \in ends => Pending(ls, ends, m + 1) = <<>>
           /\ m + 1 \notin ends => Pending(ls, ends, m + 1) =
                  IF IsData(TrimEnd(ls[m + 1])) THEN Append(Pending(ls, ends, m), Tail(TrimEnd(ls[m + 1])))
                  ELSE Pending(ls, ends, m)
<1> DEFINE O(k) == OpenAt(ls, ends, k)
           F == Texts(ls)
           x == IsData(TrimEnd(ls[m + 1]))
<1>1. PICK n \in Nat : n = Len(ls) /\ m \in 0 .. n - 1 /\ ends \in SUBSET (1 .. n)
    OBVIOUS
<1>2. m \in Nat /\ m + 1 \in Nat /\ m + 1 \in 1 .. n /\ m + 1 \in 1 .. m + 1 /\ 1 .. m \subseteq 1 .. m + 1
    BY <1>1
<1>3. Pending(ls, ends, 0) = <<>>
    BY AscendingGrows, MappedNone DEF Pending
<1>4. F[m + 1] = Tail(TrimEnd(ls[m + 1]))
    BY <1>1, <1>2 DEF Texts
<1> HIDE DEF F
<1>5. CASE m + 1 \in ends
    <2>1. \A i \in 1 .. m + 1 : i \notin O(m + 1)
        <3> SUFFICES ASSUME NEW i \in 1 .. m + 1, i \in O(m + 1) PROVE FALSE
            OBVIOUS
        <3>1. m + 1 < i
            BY <1>2, <1>5 DEF OpenAt
        <3> QED BY <1>2, <3>1
    <2> HIDE DEF O
    <2>2. Ascending(O(m + 1), m + 1) = <<>>
        BY <1>2, <2>1, AscendingLists
    <2> QED BY <1>3, <1>5, <2>2, MappedNone DEF Pending, O
<1>6. CASE m + 1 \notin ends
    <2>1. \A i \in 1 .. m : i \in O(m + 1) <=> i \in O(m)
        <3> TAKE i \in 1 .. m
        <3>1. ASSUME NEW f \in ends PROVE f <= m + 1 <=> f <= m
            <4>1. f \in 1 .. n /\ f # m + 1
                BY <1>1, <1>6
            <4> QED BY <1>2, <4>1
        <3>2. i \in 1 .. m + 1
            OBVIOUS
        <3> QED BY <3>1, <3>2 DEF OpenAt
    <2>2. m + 1 \in O(m + 1) <=> x
        <3>1. \A f \in ends : f <= m + 1 => f < m + 1
            BY <1>1, <1>6
        <3> QED BY <1>2, <3>1 DEF OpenAt
    <2> HIDE DEF O, x
    <2> DEFINE r == Ascending(O(m), m)
    <2>3. Ascending(O(m + 1), m) = r
        BY <1>2, <2>1, AscendingAgree
    <2>4. Ascending(O(m + 1), m + 1) = Listed(O(m + 1), r, m + 1)
        BY <1>2, <2>3, AscendingGrows
    <2>5. r \in Seq(1 .. m + 1)
        <3>1. r \in Seq(1 .. m)
            BY <1>2, AscendingLists
        <3> HIDE DEF r
        <3> QED BY <1>2, <3>1, SeqMonotonic
    <2> HIDE DEF r
    <2>6. Mapped(F, Append(r, m + 1)) = Append(Mapped(F, r), F[m + 1])
        BY <1>2, <2>5, MappedGrows
    <2>7. Mapped(F, Ascending(O(m + 1), m + 1)) = IF x THEN Append(Mapped(F, r), F[m + 1]) ELSE Mapped(F, r)
        BY <2>2, <2>4, <2>6 DEF Listed
    <2> QED BY <1>3, <1>4, <1>6, <2>7 DEF Pending, O, F, r, x
<1> QED BY <1>5, <1>6

\* What an event that ends with line m + 1 holds: what was open, and that line's data.
LEMMA BodyIs ==
    ASSUME NEW ls \in Seq(Seq(Bytes)), NEW ends \in SUBSET (1 .. Len(ls)), NEW m \in 0 .. Len(ls) - 1
    PROVE  LET x == TrimEnd(ls[m + 1])
               b == IF IsData(x) THEN Append(Pending(ls, ends, m), Tail(x)) ELSE Pending(ls, ends, m)
           IN  /\ Bodies(ls, ends)[m + 1] = b
               /\ DataOf(ls, ends, m + 1) = {} <=> b = <<>>
<1> DEFINE x == TrimEnd(ls[m + 1])
           b == IF IsData(x) THEN Append(Pending(ls, ends, m), Tail(x)) ELSE Pending(ls, ends, m)
           D == DataOf(ls, ends, m + 1)
           F == Texts(ls)
           O == OpenAt(ls, ends, m)
<1>1. PICK n \in Nat : n = Len(ls) /\ m \in 0 .. n - 1 /\ ends \in SUBSET (1 .. n)
    OBVIOUS
<1>2. m \in Nat /\ m + 1 \in Nat /\ m + 1 \in 1 .. n /\ m + 1 \in 1 .. m + 1 /\ 1 .. m \subseteq 1 .. m + 1
    BY <1>1
<1>3. F[m + 1] = Tail(x)
    BY <1>1, <1>2 DEF Texts
<1>4. Bodies(ls, ends)[m + 1] = Mapped(F, Ascending(D, m + 1))
    BY <1>1, <1>2, Zenon DEF Bodies
<1>5. \A i \in 1 .. m : i \in D <=> i \in O
    <2> TAKE i \in 1 .. m
    <2>1. \A f \in ends : (f < i \/ m + 1 <= f) <=> (f <= m => f < i)
        BY <1>1
    <2>2. i \in 1 .. m + 1
        OBVIOUS
    <2> QED BY <2>1, <2>2 DEF DataOf, OpenAt
<1>6. m + 1 \in D <=> IsData(x)
    <2>1. \A f \in ends : f < m + 1 \/ m + 1 <= f
        BY <1>1
    <2> QED BY <1>2, <2>1 DEF DataOf
<1>7. D \subseteq 1 .. m + 1
    BY DEF DataOf
<1> HIDE DEF F, x, D, O
<1> DEFINE r == Ascending(O, m)
<1>8. Ascending(D, m) = r
    BY <1>2, <1>5, AscendingAgree
<1>9. Ascending(D, m + 1) = Listed(D, r, m + 1)
    BY <1>2, <1>8, AscendingGrows
<1>10. r \in Seq(1 .. m + 1)
    <2>1. r \in Seq(1 .. m)
        BY <1>2, AscendingLists
    <2> HIDE DEF r
    <2> QED BY <1>2, <2>1, SeqMonotonic
<1>11. Pending(ls, ends, m) = Mapped(F, r)
    BY DEF Pending, F, O
<1> HIDE DEF r
<1>12. Mapped(F, Append(r, m + 1)) = Append(Mapped(F, r), F[m + 1])
    BY <1>2, <1>10, MappedGrows
<1>13. Mapped(F, Ascending(D, m + 1)) = b
    BY <1>3, <1>6, <1>9, <1>11, <1>12 DEF Listed
<1> HIDE DEF b
<1>14. D = {} <=> Ascending(D, m + 1) = <<>>
    BY <1>2, <1>7, AscendingLists
<1>15. Ascending(D, m + 1) \in Seq(1 .. m + 1)
    BY <1>2, AscendingLists
<1>16. Mapped(F, Ascending(D, m + 1)) = <<>> <=> Ascending(D, m + 1) = <<>>
    BY <1>15, MappedEmpty
<1> QED BY <1>4, <1>13, <1>14, <1>16 DEF b, D, x

\* Nothing read yet
Unread == [lines |-> <<>>, out |-> <<>>]

\* Nothing read is such a state.
LEMMA FreshIsLoose == Unread \in LooseStates /\ Unread \in ParserStates
<1> DEFINE e == <<>>
<1>1. e \in Seq(Seq(Bytes)) /\ e \in Seq(Seq(Seq(Bytes))) /\ e \in Seq(Clean) /\ e \in Seq(CleanEvents)
    BY EmptySeq
<1> HIDE DEF e
<1>2. Unread = [lines |-> e, out |-> e]
    BY DEF Unread, e
<1> QED BY <1>1, <1>2 DEF LooseStates, ParserStates

\* The first lines, and one more.
LEMMA PrefixGrows ==
    ASSUME NEW B, NEW ls \in Seq(B), NEW m \in 0 .. Len(ls) - 1
    PROVE  /\ SubSeq(ls, 1, m) \in Seq(B) /\ ls[m + 1] \in B
           /\ SubSeq(ls, 1, m + 1) = Append(SubSeq(ls, 1, m), ls[m + 1])
           /\ SubSeq(ls, 1, 0) = <<>>
<1>1. PICK n \in Nat : n = Len(ls) /\ m \in 0 .. n - 1
    OBVIOUS
<1> DEFINE s == SubSeq(ls, 1, m)
           z == SubSeq(ls, 1, m + 1)
<1>2. s \in Seq(B) /\ Len(s) = m /\ \A i \in 1 .. m : s[i] = ls[i]
    BY <1>1
<1>3. z \in Seq(B) /\ Len(z) = m + 1 /\ \A i \in 1 .. m + 1 : z[i] = ls[i]
    BY <1>1
<1>4. SubSeq(ls, 1, 0) = <<>>
    OBVIOUS
<1>5. ls[m + 1] \in B
    BY <1>1
<1> HIDE DEF s, z
<1> DEFINE u == Append(s, ls[m + 1])
<1>6. u \in Seq(B) /\ Len(u) = m + 1 /\ (\A i \in 1 .. m : u[i] = s[i]) /\ u[m + 1] = ls[m + 1]
    BY <1>2, <1>5, GrownIs
<1> HIDE DEF u
<1>7. z = [i \in 1 .. m + 1 |-> z[i]] /\ u = [i \in 1 .. m + 1 |-> u[i]]
    BY <1>3, <1>6
<1>8. \A i \in 1 .. m + 1 : z[i] = u[i]
    <2> TAKE i \in 1 .. m + 1
    <2>1. i \in 1 .. m \/ i = m + 1
        OBVIOUS
    <2> QED BY <1>2, <1>3, <1>6, <2>1
<1>9. z = u
    BY <1>7, <1>8
<1> QED BY <1>2, <1>4, <1>5, <1>9 DEF s, z, u

\* Line by line the parser has the events that are complete and the one that is open.
LEMMA ParsedIs ==
    ASSUME NEW ls \in Seq(Seq(Bytes)), NEW ends \in SUBSET (1 .. Len(ls)), NEW n \in 0 .. Len(ls),
           \A i \in 1 .. n : i \in ends <=> TrimEnd(ls[i]) = <<>>
    PROVE  ParseLines(Unread, SubSeq(ls, 1, n)) = [lines |-> Pending(ls, ends, n), out |-> Events(ls, ends, n)]
<1> DEFINE B == Seq(Bytes)
           P(m) == ParseLines(Unread, SubSeq(ls, 1, m))
           V(m) == [lines |-> Pending(ls, ends, m), out |-> Events(ls, ends, m)]
           S == {m \in 0 .. n : P(m) = V(m)}
<1>1. PICK k \in Nat : k = Len(ls) /\ n \in 0 .. k /\ ends \in SUBSET (1 .. k)
    OBVIOUS
<1>2. 0 \in S
    <2>1. P(0) = Unread
        <3>1. SubSeq(ls, 1, 0) = <<>>
            OBVIOUS
        <3> QED BY <3>1, FreshIsLoose, ParseGrows
    <2>2. Pending(ls, ends, 0) = <<>> /\ Events(ls, ends, 0) = <<>>
        BY AscendingGrows, MappedNone DEF Pending, Events
    <2> HIDE DEF P
    <2> QED BY <1>1, <2>1, <2>2, 0 \in 0 .. n DEF Unread
<1>3. ASSUME NEW m \in 0 .. n - 1, m \in S PROVE m + 1 \in S
    <2>1. m + 1 \in 0 .. n /\ m + 1 \in 1 .. n /\ m \in 0 .. k - 1
        BY <1>1
    <2>2. P(m) = V(m)
        BY <1>3
    <2> DEFINE l == ls[m + 1]
               c == TrimEnd(l)
    <2>3. P(m + 1) = ParseLine(P(m), l) /\ P(m) \in LooseStates
        <3> DEFINE s == SubSeq(ls, 1, m)
        <3>1. ls \in Seq(B)
            OBVIOUS
        <3>2. s \in Seq(B) /\ l \in B /\ SubSeq(ls, 1, m + 1) = Append(s, l)
            <4> HIDE DEF B
            <4> QED BY <1>1, <2>1, <3>1, PrefixGrows
        <3> HIDE DEF s, l
        <3>3. ParseLines(Unread, Append(s, l)) = ParseLine(ParseLines(Unread, s), l) /\ ParseLines(Unread, s) \in LooseStates
            BY <3>2, FreshIsLoose, ParseGrows
        <3> QED BY <3>2, <3>3 DEF s
    <2> HIDE DEF P
    <2> DEFINE q == Pending(ls, ends, m)
               o == Events(ls, ends, m)
    <2>4. P(m + 1) = [lines |-> IF c = <<>> THEN <<>> ELSE IF IsData(c) THEN Append(q, Tail(c)) ELSE q,
                      out   |-> IF c = <<>> /\ q # <<>> THEN Append(o, q) ELSE o]
        <3>1. P(m).lines = q /\ P(m).out = o
            BY <2>2
        <3> HIDE DEF q, o, c
        <3>2. c = TrimEnd(l)
            BY DEF c
        <3> HIDE DEF l
        <3> QED BY <2>3, <3>1, <3>2, ParseLineIs
    <2>5. m + 1 \in ends <=> c = <<>>
        BY <2>1
    <2>6. /\ m + 1 \in ends => Pending(ls, ends, m + 1) = <<>>
          /\ m + 1 \notin ends => Pending(ls, ends, m + 1) = IF IsData(c) THEN Append(q, Tail(c)) ELSE q
        BY <1>1, <2>1, PendingGrows
    <2>7. Events(ls, ends, m + 1) = IF m + 1 \in Full(ls, ends) THEN Append(o, Bodies(ls, ends)[m + 1]) ELSE o
        BY <1>1, <2>1, EventsGrow
    <2>8. c = <<>> => Bodies(ls, ends)[m + 1] = q /\ (DataOf(ls, ends, m + 1) = {} <=> q = <<>>)
        <3>1. c = <<>> => ~IsData(c)
            BY DEF IsData
        <3>2. LET b == IF IsData(c) THEN Append(q, Tail(c)) ELSE q
              IN  Bodies(ls, ends)[m + 1] = b /\ (DataOf(ls, ends, m + 1) = {} <=> b = <<>>)
            BY <1>1, <2>1, BodyIs
        <3> HIDE DEF c, q
        <3> QED BY <3>1, <3>2
    <2>9. m + 1 \in Full(ls, ends) <=> c = <<>> /\ q # <<>>
        <3>1. m + 1 \in Full(ls, ends) <=> m + 1 \in ends /\ DataOf(ls, ends, m + 1) # {}
            BY DEF Full
        <3> HIDE DEF c, q
        <3> QED BY <2>5, <2>8, <3>1
    <2> HIDE DEF q, o, c
    <2>10. P(m + 1) = V(m + 1)
        <3>1. CASE c = <<>>
            <4>1. Pending(ls, ends, m + 1) = <<>>
                BY <2>5, <2>6, <3>1
            <4>2. Events(ls, ends, m + 1) = IF q # <<>> THEN Append(o, q) ELSE o
                BY <2>7, <2>8, <2>9, <3>1
            <4> QED BY <2>4, <3>1, <4>1, <4>2
        <3>2. CASE c # <<>>
            <4>1. Pending(ls, ends, m + 1) = IF IsData(c) THEN Append(q, Tail(c)) ELSE q
                BY <2>5, <2>6, <3>2
            <4>2. Events(ls, ends, m + 1) = o
                BY <2>7, <2>9, <3>2
            <4> QED BY <2>4, <3>2, <4>1, <4>2
        <3> QED BY <3>1, <3>2
    <2> QED BY <2>1, <2>10
<1> HIDE DEF S
<1>4. \A m \in 0 .. n : m \in S
    BY <1>2, <1>3, BoundedInduction, n \in Nat
<1>5. n \in S
    BY <1>4, n \in 0 .. n
<1> QED BY <1>5 DEF S

\* What has been read when the bytes were cut into lines.
Read(bytes) == ParseLines(Unread, Lines(bytes))

\* Lines and Rest are made of the bytes that were cut.
LEMMA LinesTypes ==
    ASSUME NEW bytes \in Seq(Bytes)
    PROVE  Lines(bytes) \in Seq(Seq(Bytes)) /\ Rest(bytes) \in Seq(Bytes)
BY CutGrows DEF CutStates, Lines, Rest

\* The reference for a text is what the parser reads from all of it.
LEMMA RefIs ==
    ASSUME NEW bytes \in Seq(Bytes)
    PROVE  /\ RefEvents(bytes, FALSE) = Read(bytes).out
           /\ RefEvents(bytes, TRUE) = Read(bytes).out \o finish([buf |-> Rest(bytes), lines |-> Read(bytes).lines])
<1> DEFINE B == Seq(Bytes)
           last == Unfinished(Rest(bytes))
           ls == Append(Lines(bytes), last)
<1>1. Lines(bytes) \in Seq(B) /\ last \in B
    BY LinesTypes DEF Unfinished
<1>2. PICK k \in Nat : k = Len(Lines(bytes))
    BY <1>1
<1>3. /\ ls \in Seq(B) /\ Len(ls) = k + 1 /\ ls[k + 1] = last
      /\ \A i \in 1 .. k : ls[i] = Lines(bytes)[i]
    <2> HIDE DEF B
    <2> QED BY <1>1, <1>2, GrownIs
<1> DEFINE blank == {i \in 1 .. Len(ls) - 1 : TrimEnd(ls[i]) = <<>>}
<1>4. /\ RefEvents(bytes, FALSE) = Grouped(ls, blank \cup {})
      /\ RefEvents(bytes, TRUE) = Grouped(ls, blank \cup {Len(ls)})
    BY Zenon DEF RefEvents
<1>5. SubSeq(ls, 1, k) = Lines(bytes)
    <2> DEFINE s == SubSeq(ls, 1, k)
               z == Lines(bytes)
    <2> HIDE DEF B
    <2>1. s \in Seq(B) /\ Len(s) = k /\ \A i \in 1 .. k : s[i] = ls[i]
        <3> HIDE DEF ls
        <3> QED BY <1>3
    <2>2. s = [i \in 1 .. k |-> s[i]] /\ z = [i \in 1 .. k |-> z[i]]
        <3> HIDE DEF s, z
        <3> QED BY <1>1, <1>2, <2>1 DEF z
    <2>3. \A i \in 1 .. k : s[i] = z[i]
        BY <1>3, <2>1
    <2> HIDE DEF s, z
    <2> QED BY <2>2, <2>3 DEF s, z
<1> HIDE DEF ls
<1> DEFINE q == Read(bytes).lines
           o == Read(bytes).out
           c == TrimEnd(last)
<1>6. ASSUME NEW ends \in SUBSET (1 .. k + 1), \A i \in 1 .. k : i \in ends <=> i \in blank
      PROVE  /\ Pending(ls, ends, k) = q /\ Events(ls, ends, k) = o
             /\ Grouped(ls, ends) = IF k + 1 \in Full(ls, ends) THEN Append(o, Bodies(ls, ends)[k + 1]) ELSE o
             /\ Bodies(ls, ends)[k + 1] = IF IsData(c) THEN Append(q, Tail(c)) ELSE q
             /\ DataOf(ls, ends, k + 1) = {} <=> Bodies(ls, ends)[k + 1] = <<>>
    <2>1. \A i \in 1 .. k : i \in ends <=> TrimEnd(ls[i]) = <<>>
        <3>1. Len(ls) - 1 = k
            BY <1>3
        <3> QED BY <1>6, <3>1
    <2>2. ParseLines(Unread, SubSeq(ls, 1, k)) = [lines |-> Pending(ls, ends, k), out |-> Events(ls, ends, k)]
        <3>1. ends \in SUBSET (1 .. Len(ls)) /\ k \in 0 .. Len(ls)
            BY <1>3
        <3> HIDE DEF blank
        <3> QED BY <1>3, <2>1, <3>1, ParsedIs
    <2>3. Pending(ls, ends, k) = q /\ Events(ls, ends, k) = o
        <3>1. Read(bytes) = [lines |-> Pending(ls, ends, k), out |-> Events(ls, ends, k)]
            BY <1>5, <2>2, Zenon DEF Read
        <3> QED BY <3>1
    <2>4. k \in 0 .. Len(ls) - 1 /\ ends \in SUBSET (1 .. Len(ls))
        BY <1>3
    <2>5. Grouped(ls, ends) = Events(ls, ends, k + 1)
        BY <1>3, <2>4, GroupedIs
    <2>6. Events(ls, ends, k + 1) = IF k + 1 \in Full(ls, ends) THEN Append(Events(ls, ends, k), Bodies(ls, ends)[k + 1])
                                    ELSE Events(ls, ends, k)
        BY <1>3, <2>4, EventsGrow
    <2>7. LET x == TrimEnd(ls[k + 1])
              b == IF IsData(x) THEN Append(Pending(ls, ends, k), Tail(x)) ELSE Pending(ls, ends, k)
          IN  Bodies(ls, ends)[k + 1] = b /\ (DataOf(ls, ends, k + 1) = {} <=> b = <<>>)
        BY <1>3, <2>4, BodyIs
    <2> HIDE DEF q, o
    <2>8. /\ Bodies(ls, ends)[k + 1] = IF IsData(c) THEN Append(q, Tail(c)) ELSE q
          /\ DataOf(ls, ends, k + 1) = {} <=> Bodies(ls, ends)[k + 1] = <<>>
        BY <1>3, <2>3, <2>7
    <2> QED BY <2>3, <2>5, <2>6, <2>8
<1>7. blank \in SUBSET (1 .. k + 1) /\ k + 1 \notin blank
    BY <1>3
<1>8. RefEvents(bytes, FALSE) = o
    <2>1. Grouped(ls, blank) = IF k + 1 \in Full(ls, blank) THEN Append(o, Bodies(ls, blank)[k + 1]) ELSE o
        <3> HIDE DEF blank, o
        <3> QED BY <1>6, <1>7
    <2>2. k + 1 \notin Full(ls, blank)
        BY <1>7 DEF Full
    <2> HIDE DEF blank, o
    <2> QED BY <1>4, <2>1, <2>2
<1>9. RefEvents(bytes, TRUE) = o \o finish([buf |-> Rest(bytes), lines |-> q])
    <2> DEFINE ends == blank \cup {k + 1}
               b == IF IsData(c) THEN Append(q, Tail(c)) ELSE q
    <2>1. ends \in SUBSET (1 .. k + 1) /\ \A i \in 1 .. k : i \in ends <=> i \in blank
        <3> HIDE DEF blank
        <3>1. k + 1 \in 1 .. k + 1 /\ \A i \in 1 .. k : i # k + 1
            OBVIOUS
        <3> QED BY <1>7, <3>1
    <2>2. k + 1 \in ends
        OBVIOUS
    <2> HIDE DEF ends
    <2>3. /\ Grouped(ls, ends) = IF k + 1 \in Full(ls, ends) THEN Append(o, Bodies(ls, ends)[k + 1]) ELSE o
          /\ Bodies(ls, ends)[k + 1] = b
          /\ DataOf(ls, ends, k + 1) = {} <=> Bodies(ls, ends)[k + 1] = <<>>
        <3> HIDE DEF q, o, c, blank
        <3> QED BY <1>6, <2>1
    <2>4. k + 1 \in Full(ls, ends) <=> b # <<>>
        <3> HIDE DEF b
        <3> QED BY <2>2, <2>3 DEF Full
    <2>5. finish([buf |-> Rest(bytes), lines |-> q]) = IF b = <<>> THEN <<>> ELSE <<b>>
        <3> HIDE DEF q
        <3> QED BY Zenon DEF finish
    <2>6. q \in Seq(B) /\ o \in Seq(Seq(B))
        <3>1. Read(bytes) \in LooseStates
            BY <1>1, FreshIsLoose, ParseGrows DEF Read
        <3> QED BY <3>1 DEF LooseStates
    <2>7. b \in Seq(B)
        <3>1. IsData(c) => Tail(c) \in B
            <4>1. PICK j \in 0 .. Len(last) : c = SubSeq(last, 1, j)
                BY <1>1, TrimExists, TrimIs
            <4>2. c \in Seq(Bytes)
                BY <1>1, <4>1
            <4> QED BY <4>2 DEF IsData
        <3> HIDE DEF B, q, c
        <3> QED BY <2>6, <3>1, AppendProperties
    <2>8. ends = blank \cup {Len(ls)}
        BY <1>3 DEF ends
    <2>9. RefEvents(bytes, TRUE) = IF b # <<>> THEN Append(o, b) ELSE o
        <3> HIDE DEF b, o, q, blank
        <3> QED BY <1>4, <2>3, <2>4, <2>8
    <2>10. Append(o, b) = o \o <<b>> /\ o = o \o <<>>
        <3> DEFINE E == Seq(B)
        <3>1. o \in Seq(E) /\ b \in E
            BY <2>6, <2>7
        <3> HIDE DEF E, o, b
        <3> QED BY <3>1
    <2> HIDE DEF b, o, q
    <2> QED BY <2>5, <2>9, <2>10
<1> QED BY <1>8, <1>9

-----------------------------------------------------------------------------
(* Cutting a text in two.                                                    *)

\* What is joined, and one element more.
LEMMA JoinGrows ==
    ASSUME NEW B, NEW a \in Seq(B), NEW b \in Seq(B), NEW x \in B
    PROVE  /\ a \o b \in Seq(B) /\ a \o <<>> = a /\ <<>> \o a = a
           /\ a \o Append(b, x) = Append(a \o b, x)
<1>1. Append(b, x) = b \o <<x>> /\ Append(a \o b, x) = (a \o b) \o <<x>>
    BY AppendIsConcat, a \o b \in Seq(B)
<1>2. a \o (b \o <<x>>) = (a \o b) \o <<x>>
    BY ConcatAssociative, <<x>> \in Seq(B)
<1> QED BY <1>1, <1>2

\* One byte more.
LEMMA ByteIsCut ==
    ASSUME NEW s \in Seq(Bytes), NEW b \in Bytes
    PROVE  /\ Lines(Append(s, b)) = IF b = "n" THEN Append(Lines(s), Append(Rest(s), b)) ELSE Lines(s)
           /\ Rest(Append(s, b)) = IF b = "n" THEN <<>> ELSE Append(Rest(s), b)
<1> DEFINE l == Append(Rest(s), b)
<1> DEFINE c == Cut[s]
<1>1. Cut[Append(s, b)] = CutByte(c, b)
    BY CutGrows
<1>2. Append(c.rest, b) = l /\ Lines(s) = c.lines
    BY DEF Lines, Rest
<1>3. CutByte(c, b) = IF b = "n" THEN [lines |-> Append(c.lines, l), rest |-> <<>>] ELSE [lines |-> c.lines, rest |-> l]
    BY <1>2, Zenon DEF CutByte
<1> DEFINE z == Append(s, b)
<1> HIDE DEF c, z, l
<1>4. Cut[z].lines = IF b = "n" THEN Append(c.lines, l) ELSE c.lines
    BY <1>1, <1>3 DEF z
<1>5. Cut[z].rest = IF b = "n" THEN <<>> ELSE l
    BY <1>1, <1>3 DEF z
<1> QED BY <1>2, <1>4, <1>5 DEF Lines, Rest, z, l

\* No line feed is left, and in a line one is only at its end.
LEMMA CutIsClean ==
    ASSUME NEW bytes \in Seq(Bytes)
    PROVE  /\ Lines(bytes) \in Seq(CutLines) /\ Rest(bytes) \in CutLines
           /\ \A i \in DOMAIN Rest(bytes) : Rest(bytes)[i] # "n"
<1> DEFINE Good(s) == Lines(s) \in Seq(CutLines) /\ \A i \in 1 .. Len(Rest(s)) : Rest(s)[i] # "n"
           S == {s \in Seq(Bytes) : Good(s)}
<1>1. <<>> \in S
    <2> DEFINE e == <<>>
    <2>1. e \in Seq(Bytes) /\ e \in Seq(CutLines) /\ Len(e) = 0
        BY EmptySeq
    <2>2. Lines(e) = e /\ Rest(e) = e
        BY CutGrows DEF Lines, Rest, Uncut
    <2> HIDE DEF e
    <2>3. Good(e)
        BY <2>1, <2>2
    <2> QED BY <2>1, <2>3 DEF e
<1>2. ASSUME NEW s \in S, NEW b \in Bytes PROVE Append(s, b) \in S
    <2> DEFINE z == Append(s, b)
    <2>1. z \in Seq(Bytes) /\ s \in Seq(Bytes)
        BY GrownIs
    <2>2. /\ Lines(z) = IF b = "n" THEN Append(Lines(s), Append(Rest(s), b)) ELSE Lines(s)
          /\ Rest(z) = IF b = "n" THEN <<>> ELSE Append(Rest(s), b)
        BY ByteIsCut
    <2> HIDE DEF z
    <2>3. Rest(s) \in Seq(Bytes) /\ Lines(s) \in Seq(CutLines) /\ \A i \in 1 .. Len(Rest(s)) : Rest(s)[i] # "n"
        BY LinesTypes
    <2> DEFINE r == Rest(s)
               l == Append(r, b)
    <2>4. PICK m \in Nat : m = Len(r)
        BY <2>3
    <2>5. l \in Seq(Bytes) /\ Len(l) = m + 1 /\ (\A i \in 1 .. m : l[i] = r[i]) /\ l[m + 1] = b
        BY <2>3, <2>4, GrownIs
    <2>6. CASE b = "n"
        <3>1. Lines(z) = Append(Lines(s), l) /\ Rest(z) = <<>>
            BY <2>2, <2>6
        <3>2. l \in CutLines
            <4>1. \A i \in 1 .. Len(l) - 1 : l[i] # "n"
                BY <2>3, <2>4, <2>5
            <4> HIDE DEF l
            <4> QED BY <2>5, <4>1 DEF CutLines
        <3> HIDE DEF l
        <3>3. Append(Lines(s), l) \in Seq(CutLines)
            BY <2>3, <3>2, AppendProperties
        <3>4. \A i \in 1 .. Len(Rest(z)) : Rest(z)[i] # "n"
            <4>1. Len(Rest(z)) = 0
                BY <3>1
            <4> QED BY <4>1
        <3> QED BY <2>1, <3>1, <3>3, <3>4 DEF z
    <2>7. CASE b # "n"
        <3>1. Lines(z) = Lines(s) /\ Rest(z) = l
            BY <2>2, <2>7
        <3>2. \A i \in 1 .. m + 1 : l[i] # "n"
            <4> TAKE i \in 1 .. m + 1
            <4>1. i \in 1 .. m \/ i = m + 1
                OBVIOUS
            <4> QED BY <2>3, <2>4, <2>5, <2>7, <4>1
        <3> HIDE DEF l
        <3> QED BY <2>1, <2>3, <2>5, <3>1, <3>2 DEF z
    <2> QED BY <2>6, <2>7
<1> HIDE DEF Good
<1>3. S = Seq(Bytes)
    BY <1>1, <1>2, GrowthInduction
<1>4. Good(bytes)
    BY <1>3
<1>5. Rest(bytes) \in Seq(Bytes) /\ Lines(bytes) \in Seq(CutLines) /\ \A i \in 1 .. Len(Rest(bytes)) : Rest(bytes)[i] # "n"
    BY <1>4, LinesTypes DEF Good
<1>6. Rest(bytes) \in CutLines
    BY <1>5 DEF CutLines
<1> QED BY <1>5, <1>6

\* A text without a line feed is all left.
LEMMA NoFeed ==
    ASSUME NEW bytes \in Seq(Bytes), \A i \in 1 .. Len(bytes) : bytes[i] # "n"
    PROVE  Lines(bytes) = <<>> /\ Rest(bytes) = bytes
<1> DEFINE Plainly(s) == (\A i \in 1 .. Len(s) : s[i] # "n") => Lines(s) = <<>> /\ Rest(s) = s
           S == {s \in Seq(Bytes) : Plainly(s)}
<1>1. <<>> \in S
    <2>1. Lines(<<>>) = <<>> /\ Rest(<<>>) = <<>>
        BY CutGrows DEF Lines, Rest, Uncut
    <2> QED BY <2>1, EmptySeq
<1>2. ASSUME NEW s \in S, NEW b \in Bytes PROVE Append(s, b) \in S
    <2> DEFINE z == Append(s, b)
    <2>1. PICK m \in Nat : m = Len(s)
        OBVIOUS
    <2>2. z \in Seq(Bytes) /\ Len(z) = m + 1 /\ (\A i \in 1 .. m : z[i] = s[i]) /\ z[m + 1] = b
        BY <2>1, GrownIs
    <2>3. /\ Lines(z) = IF b = "n" THEN Append(Lines(s), Append(Rest(s), b)) ELSE Lines(s)
          /\ Rest(z) = IF b = "n" THEN <<>> ELSE Append(Rest(s), b)
        BY ByteIsCut
    <2>4. Plainly(z)
        <3> SUFFICES ASSUME \A i \in 1 .. Len(z) : z[i] # "n" PROVE Lines(z) = <<>> /\ Rest(z) = z
            OBVIOUS
        <3> HIDE DEF z
        <3>1. b # "n"
            BY <2>2
        <3>2. ASSUME NEW i \in 1 .. m PROVE s[i] # "n"
            <4>1. i \in 1 .. m + 1
                OBVIOUS
            <4> QED BY <2>2, <4>1
        <3>3. Lines(s) = <<>> /\ Rest(s) = s
            BY <2>1, <3>2
        <3> QED BY <2>3, <3>1, <3>3 DEF z
    <2> HIDE DEF Plainly
    <2> QED BY <2>2, <2>4
<1> HIDE DEF Plainly
<1>3. S = Seq(Bytes)
    BY <1>1, <1>2, GrowthInduction
<1>4. Plainly(bytes)
    BY <1>3
<1> QED BY <1>4 DEF Plainly

\* What was left is cut with what follows.
LEMMA CutJoins ==
    ASSUME NEW a \in Seq(Bytes), NEW b \in Seq(Bytes)
    PROVE  /\ Lines(a \o b) = Lines(a) \o Lines(Rest(a) \o b)
           /\ Rest(a \o b) = Rest(Rest(a) \o b)
<1> DEFINE r == Rest(a)
           Joins(s) == Lines(a \o s) = Lines(a) \o Lines(r \o s) /\ Rest(a \o s) = Rest(r \o s)
           S == {s \in Seq(Bytes) : Joins(s)}
           B == Seq(Bytes)
<1>0. r \in B /\ Lines(a) \in Seq(B) /\ \A i \in 1 .. Len(r) : r[i] # "n"
    BY LinesTypes, CutIsClean
<1>1. <<>> \in S
    <2>1. Lines(r) = <<>> /\ Rest(r) = r
        <3> HIDE DEF r
        <3> QED BY <1>0, NoFeed
    <2>2. a \o <<>> = a /\ r \o <<>> = r
        <3> HIDE DEF r
        <3> QED BY <1>0
    <2>3. Lines(a) \o <<>> = Lines(a)
        <3> HIDE DEF B
        <3> QED BY <1>0
    <2>4. Joins(<<>>)
        <3> DEFINE e == <<>>
        <3>1. a \o e = a /\ r \o e = r /\ Lines(a) \o e = Lines(a) /\ Lines(r) = e /\ Rest(r) = r /\ Rest(a) = r
            BY <2>1, <2>2, <2>3
        <3> HIDE DEF e, r
        <3>2. Joins(e)
            BY <3>1
        <3> QED BY <3>2 DEF e
    <2> HIDE DEF Joins
    <2> QED BY <2>4, EmptySeq
<1>2. ASSUME NEW s \in S, NEW x \in Bytes PROVE Append(s, x) \in S
    <2> DEFINE z == Append(s, x)
               u == a \o s
               v == r \o s
    <2>1. u \in Seq(Bytes) /\ v \in Seq(Bytes) /\ z \in Seq(Bytes) /\ a \o z = Append(u, x) /\ r \o z = Append(v, x)
        <3>1. u \in Seq(Bytes) /\ a \o Append(s, x) = Append(a \o s, x)
            BY JoinGrows
        <3>2. v \in Seq(Bytes) /\ r \o Append(s, x) = Append(r \o s, x)
            <4> HIDE DEF r
            <4> QED BY <1>0, JoinGrows
        <3>3. z \in Seq(Bytes)
            BY GrownIs
        <3> QED BY <3>1, <3>2, <3>3
    <2>2. Lines(u) = Lines(a) \o Lines(v) /\ Rest(u) = Rest(v)
        OBVIOUS
    <2> HIDE DEF z, u, v
    <2> DEFINE l == Append(Rest(u), x)
    <2>3. /\ Lines(a \o z) = IF x = "n" THEN Append(Lines(u), l) ELSE Lines(u)
          /\ Lines(r \o z) = IF x = "n" THEN Append(Lines(v), l) ELSE Lines(v)
          /\ Rest(a \o z) = IF x = "n" THEN <<>> ELSE l
          /\ Rest(r \o z) = IF x = "n" THEN <<>> ELSE l
        <3>1. /\ Lines(Append(u, x)) = IF x = "n" THEN Append(Lines(u), Append(Rest(u), x)) ELSE Lines(u)
              /\ Rest(Append(u, x)) = IF x = "n" THEN <<>> ELSE Append(Rest(u), x)
            BY <2>1, ByteIsCut
        <3>2. /\ Lines(Append(v, x)) = IF x = "n" THEN Append(Lines(v), Append(Rest(v), x)) ELSE Lines(v)
              /\ Rest(Append(v, x)) = IF x = "n" THEN <<>> ELSE Append(Rest(v), x)
            BY <2>1, ByteIsCut
        <3> QED BY <2>1, <2>2, <3>1, <3>2, Zenon
    <2>4. CASE x = "n"
        <3>1. Lines(a \o z) = Append(Lines(u), l) /\ Lines(r \o z) = Append(Lines(v), l)
            BY <2>3, <2>4
        <3>2. Rest(a \o z) = Rest(r \o z)
            BY <2>3, <2>4
        <3>3. Lines(v) \in Seq(B) /\ l \in B
            BY <2>1, LinesTypes, GrownIs
        <3>4. Lines(a) \o Append(Lines(v), l) = Append(Lines(a) \o Lines(v), l)
            <4> HIDE DEF B, l
            <4> QED BY <1>0, <3>3, JoinGrows
        <3> HIDE DEF l
        <3>5. Joins(z)
            BY <2>2, <3>1, <3>2, <3>4
        <3> HIDE DEF Joins
        <3> QED BY <2>1, <3>5 DEF z
    <2>5. CASE x # "n"
        <3>1. Lines(a \o z) = Lines(u) /\ Lines(r \o z) = Lines(v) /\ Rest(a \o z) = Rest(r \o z)
            BY <2>3, <2>5
        <3>2. Joins(z)
            BY <2>2, <3>1
        <3> HIDE DEF Joins
        <3> QED BY <2>1, <3>2 DEF z
    <2> QED BY <2>4, <2>5
<1> HIDE DEF Joins
<1>3. S = Seq(Bytes)
    BY <1>1, <1>2, GrowthInduction
<1>4. Joins(b)
    BY <1>3
<1> QED BY <1>4 DEF Joins

\* The parts of a parser's state.
LEMMA RecordParts == \A a, b : [lines |-> a, out |-> b].lines = a /\ [lines |-> a, out |-> b].out = b
OBVIOUS

\* Reading goes on from the lines that are left; the events come after the earlier ones.
LEMMA ParseJoins ==
    ASSUME NEW x \in LooseStates, NEW ls \in Seq(Seq(Bytes))
    PROVE  LET y == ParseLines([lines |-> x.lines, out |-> <<>>], ls)
           IN  /\ y \in LooseStates
               /\ ParseLines(x, ls) = [lines |-> y.lines, out |-> x.out \o y.out]
<1> DEFINE B == Seq(Bytes)
           E == Seq(B)
           x0 == [lines |-> x.lines, out |-> <<>>]
           Y(s) == ParseLines(x0, s)
           Joins(s) == ParseLines(x, s) = [lines |-> Y(s).lines, out |-> x.out \o Y(s).out]
           S == {s \in Seq(B) : Joins(s)}
<1>1. x = [lines |-> x.lines, out |-> x.out] /\ x.lines \in Seq(B) /\ x.out \in Seq(E)
    BY DEF LooseStates
<1>2. x0 \in LooseStates
    <2>1. <<>> \in Seq(E)
        BY EmptySeq
    <2> QED BY <1>1, <2>1 DEF LooseStates
<1>3. <<>> \in S
    <2>1. ParseLines(x, <<>>) = x /\ Y(<<>>) = x0
        <3> HIDE DEF x0
        <3> QED BY <1>2, ParseGrows
    <2>2. x.out \o <<>> = x.out
        <3> HIDE DEF E
        <3> QED BY <1>1
    <2>3. Y(<<>>).lines = x.lines /\ Y(<<>>).out = <<>>
        <3> HIDE DEF Y
        <3> QED BY <2>1
    <2>4. Joins(<<>>)
        <3> HIDE DEF Y
        <3> QED BY <1>1, <2>1, <2>2, <2>3
    <2> HIDE DEF Joins
    <2> QED BY <2>4, EmptySeq
<1> HIDE DEF x0
<1>4. ASSUME NEW s \in S, NEW l \in B PROVE Append(s, l) \in S
    <2> DEFINE z == Append(s, l)
               c == TrimEnd(l)
    <2>1. z \in Seq(B)
        <3> HIDE DEF B
        <3> QED BY GrownIs
    <2>2. /\ ParseLines(x, z) = ParseLine(ParseLines(x, s), l) /\ ParseLines(x, s) \in LooseStates
          /\ Y(z) = ParseLine(Y(s), l) /\ Y(s) \in LooseStates
        BY <1>2, ParseGrows
    <2>3. ParseLines(x, s) = [lines |-> Y(s).lines, out |-> x.out \o Y(s).out]
        OBVIOUS
    <2> HIDE DEF z, Y
    <2> DEFINE q == Y(s).lines
               o == Y(s).out
               xo == x.out \o o
    <2>4. q \in Seq(B) /\ o \in Seq(E)
        BY <2>2 DEF LooseStates
    <2>5. x.out \o Append(o, q) = Append(xo, q)
        <3>1. q \in E /\ o \in Seq(E) /\ x.out \in Seq(E)
            BY <1>1, <2>4
        <3> DEFINE w == x.out
        <3>1a. w \in Seq(E)
            BY <3>1
        <3> HIDE DEF E, q, o, w
        <3>2. w \o Append(o, q) = Append(w \o o, q)
            BY <3>1, <3>1a, JoinGrows
        <3> QED BY <3>2 DEF w
    <2>6. ParseLines(x, s).lines = q /\ ParseLines(x, s).out = xo
        BY <2>3, RecordParts, Zenon
    <2> HIDE DEF q, o, xo
    <2>7. c = TrimEnd(l)
        OBVIOUS
    <2> HIDE DEF c
    <2>8. ParseLines(x, z) = [lines |-> IF c = <<>> THEN <<>> ELSE IF IsData(c) THEN Append(q, Tail(c)) ELSE q,
                              out   |-> IF c = <<>> /\ q # <<>> THEN Append(xo, q) ELSE xo]
        BY <2>2, <2>6, <2>7, ParseLineIs
    <2>9. Y(z) = [lines |-> IF c = <<>> THEN <<>> ELSE IF IsData(c) THEN Append(q, Tail(c)) ELSE q,
                  out   |-> IF c = <<>> /\ q # <<>> THEN Append(o, q) ELSE o]
        <3>1. Y(s).lines = q /\ Y(s).out = o
            BY DEF q, o
        <3> QED BY <2>2, <2>7, <3>1, ParseLineIs
    <2>10. x.out \o o = xo
        BY DEF xo
    <2>11. Joins(z)
        <3>1. CASE c = <<>> /\ q # <<>>
            <4>1. Y(z) = [lines |-> <<>>, out |-> Append(o, q)] /\ ParseLines(x, z) = [lines |-> <<>>, out |-> Append(xo, q)]
                BY <2>8, <2>9, <3>1
            <4>2. Y(z).lines = <<>> /\ Y(z).out = Append(o, q)
                BY <4>1, RecordParts, Zenon
            <4> QED BY <2>5, <4>1, <4>2, Zenon
        <3>2. CASE ~(c = <<>> /\ q # <<>>)
            <4> DEFINE k == IF c = <<>> THEN <<>> ELSE IF IsData(c) THEN Append(q, Tail(c)) ELSE q
            <4>1. Y(z) = [lines |-> k, out |-> o] /\ ParseLines(x, z) = [lines |-> k, out |-> xo]
                BY <2>8, <2>9, <3>2
            <4> HIDE DEF k
            <4>2. Y(z).lines = k /\ Y(z).out = o
                BY <4>1, RecordParts, Zenon
            <4> QED BY <2>10, <4>1, <4>2, Zenon
        <3> QED BY <3>1, <3>2
    <2> HIDE DEF Joins
    <2> QED BY <2>1, <2>11 DEF z
<1>5. S = Seq(B)
    <2> HIDE DEF Joins, B
    <2> QED BY <1>3, <1>4, GrowthInduction
<1>6. Joins(ls)
    BY <1>5
<1>7. Y(ls) \in LooseStates
    BY <1>2, ParseGrows
<1> QED BY <1>6, <1>7 DEF x0

\* What is read of two lists of lines is read of one after the other.
LEMMA ParseConcat ==
    ASSUME NEW x \in LooseStates, NEW ks \in Seq(Seq(Bytes)), NEW ls \in Seq(Seq(Bytes))
    PROVE  ParseLines(x, ks \o ls) = ParseLines(ParseLines(x, ks), ls)
<1> DEFINE B == Seq(Bytes)
           z == ParseLines(x, ks)
           Joins(s) == ParseLines(x, ks \o s) = ParseLines(z, s)
           S == {s \in Seq(B) : Joins(s)}
<1>1. z \in LooseStates
    BY ParseGrows
<1> HIDE DEF z
<1>2. <<>> \in S
    <2>1. ks \o <<>> = ks
        <3>1. ks \in Seq(B)
            OBVIOUS
        <3> HIDE DEF B
        <3> QED BY <3>1
    <2>2. ParseLines(z, <<>>) = z
        BY <1>1, ParseGrows
    <2> QED BY <2>1, <2>2, EmptySeq DEF z
<1>3. ASSUME NEW s \in S, NEW l \in B PROVE Append(s, l) \in S
    <2>1. Append(s, l) \in Seq(B) /\ ks \o s \in Seq(B) /\ ks \o Append(s, l) = Append(ks \o s, l)
        <3>1. ks \in Seq(B) /\ s \in Seq(B)
            OBVIOUS
        <3> HIDE DEF B
        <3> QED BY <3>1, JoinGrows, GrownIs
    <2>2. ParseLines(x, Append(ks \o s, l)) = ParseLine(ParseLines(x, ks \o s), l)
        BY <2>1, ParseGrows
    <2>3. ParseLines(z, Append(s, l)) = ParseLine(ParseLines(z, s), l)
        BY <1>1, ParseGrows
    <2>4. Joins(Append(s, l))
        BY <2>1, <2>2, <2>3
    <2> HIDE DEF Joins
    <2> QED BY <2>1, <2>4
<1>4. S = Seq(B)
    <2> HIDE DEF Joins, B
    <2> QED BY <1>2, <1>3, GrowthInduction
<1>5. Joins(ls)
    BY <1>4
<1> QED BY <1>5 DEF z

\* The parser that has read a text reads on as if there were no cut.
LEMMA FeedReads ==
    ASSUME NEW a \in Seq(Bytes), NEW b \in Seq(Bytes)
    PROVE  LET y == feed([buf |-> Rest(a), lines |-> Read(a).lines], b)
           IN  /\ Read(a \o b).lines = y.lines /\ Read(a \o b).out = Read(a).out \o y.out
               /\ Rest(a \o b) = Rest(Rest(a) \o b)
<1> DEFINE r == Rest(a) \o b
           x == Read(a)
           y == feed([buf |-> Rest(a), lines |-> Read(a).lines], b)
<1>1. r \in Seq(Bytes) /\ Lines(a) \in Seq(Seq(Bytes)) /\ Rest(a) \in Seq(Bytes)
    BY LinesTypes
<1>2. Lines(a \o b) = Lines(a) \o Lines(r) /\ Rest(a \o b) = Rest(r)
    BY CutJoins
<1> HIDE DEF r
<1>3. Lines(r) \in Seq(Seq(Bytes))
    BY <1>1, LinesTypes
<1>4. x \in LooseStates
    BY <1>1, FreshIsLoose, ParseGrows DEF Read
<1>5. Read(a \o b) = ParseLines(x, Lines(r))
    BY <1>1, <1>2, <1>3, FreshIsLoose, ParseConcat DEF Read
<1>6. y = ParseLines([lines |-> x.lines, out |-> <<>>], Lines(r))
    BY DEF feed, r
<1> HIDE DEF x, y
<1>7. ParseLines(x, Lines(r)) = [lines |-> y.lines, out |-> x.out \o y.out]
    BY <1>3, <1>4, <1>6, ParseJoins
<1>8. Read(a \o b).lines = y.lines /\ Read(a \o b).out = x.out \o y.out
    <2> DEFINE l == y.lines
               o == x.out \o y.out
    <2>1. Read(a \o b) = [lines |-> l, out |-> o]
        BY <1>5, <1>7
    <2> HIDE DEF l, o
    <2>2. Read(a \o b).lines = l /\ Read(a \o b).out = o
        BY <2>1, RecordParts
    <2> QED BY <2>2 DEF l, o
<1> QED BY <1>2, <1>8 DEF x, y, r

-----------------------------------------------------------------------------
(* Writing an event out and reading it again.                                *)

\* The line that is written for a clean text is cut as one, and reads as the text.
LEMMA WrittenLine ==
    ASSUME NEW e \in Clean
    PROVE  LET l == <<"d">> \o e \o <<"n">>
           IN  /\ l \in Seq(Bytes) /\ Lines(l) = <<l>> /\ Rest(l) = <<>>
               /\ IsData(TrimEnd(l)) /\ Tail(TrimEnd(l)) = e
<1> DEFINE w == <<"d">> \o e
           l == w \o <<"n">>
<1>1. PICK m \in Nat : m = Len(e) /\ e \in Seq(Bytes)
    BY DEF Clean
<1>2. \A i \in 1 .. m : e[i] \in Bytes /\ e[i] # "n"
    BY <1>1 DEF Clean
<1>3. m > 0 => e[m] \notin {"r", "n"}
    <2>1. m > 0 => e # <<>> /\ m \in 1 .. m
        BY <1>1, EmptySeq
    <2> QED BY <1>1, <2>1 DEF Clean
<1>4. "d" \in Bytes /\ "n" \in Bytes /\ <<"d">> \in Seq(Bytes) /\ <<"n">> \in Seq(Bytes)
    BY DEF Bytes
<1>5. w \in Seq(Bytes) /\ Len(w) = m + 1 /\ w[1] = "d" /\ \A i \in 1 .. m : w[i + 1] = e[i]
    BY <1>1, <1>4
<1> HIDE DEF w
<1>6. \A i \in 1 .. m + 1 : w[i] # "n"
    <2> TAKE i \in 1 .. m + 1
    <2>1. CASE i = 1
        BY <1>5, <2>1
    <2>2. CASE i # 1
        <3>1. i - 1 \in 1 .. m /\ (i - 1) + 1 = i
            BY <2>2
        <3> QED BY <1>2, <1>5, <3>1
    <2> QED BY <2>1, <2>2
<1>7. l = Append(w, "n")
    BY <1>4, <1>5, AppendIsConcat
<1>8. l \in Seq(Bytes) /\ Len(l) = m + 2 /\ l[m + 2] = "n" /\ \A i \in 1 .. m + 1 : l[i] = w[i]
    <2>1. m + 1 + 1 = m + 2
        OBVIOUS
    <2> QED BY <1>4, <1>5, <1>7, <2>1, GrownIs
<1>9. Lines(l) = <<l>> /\ Rest(l) = <<>>
    <2>1. Lines(w) = <<>> /\ Rest(w) = w
        BY <1>5, <1>6, NoFeed
    <2>2. /\ Lines(Append(w, "n")) = Append(Lines(w), Append(Rest(w), "n"))
          /\ Rest(Append(w, "n")) = <<>>
        BY <1>4, <1>5, ByteIsCut
    <2>3. Lines(l) = Append(<<>>, l) /\ Rest(l) = <<>>
        BY <1>7, <2>1, <2>2, Zenon
    <2> HIDE DEF l
    <2> QED BY <2>3
<1> HIDE DEF l
<1>10. TrimEnd(l) = w
    <2>1. \A j \in m + 1 + 1 .. Len(l) : l[j] \in {"r", "n"}
        <3> TAKE j \in m + 1 + 1 .. Len(l)
        <3>1. j = m + 2
            BY <1>8
        <3> QED BY <1>8, <3>1
    <2>2. l[m + 1] \notin {"r", "n"}
        <3>1. CASE m = 0
            BY <1>5, <1>8, <3>1
        <3>2. CASE m # 0
            <4>1. m \in 1 .. m /\ m + 1 \in 1 .. m + 1 /\ m > 0
                BY <3>2
            <4> QED BY <1>3, <1>5, <1>8, <4>1
        <3> QED BY <3>1, <3>2
    <2>3. m + 1 \in 0 .. Len(l)
        BY <1>8
    <2>4. TrimEnd(l) = SubSeq(l, 1, m + 1)
        BY <1>8, <2>1, <2>2, <2>3, TrimIs
    <2> DEFINE s == SubSeq(l, 1, m + 1)
    <2>5. s \in Seq(Bytes) /\ Len(s) = m + 1 /\ \A i \in 1 .. m + 1 : s[i] = l[i]
        BY <1>8
    <2> HIDE DEF s
    <2>6. s = w
        BY <1>5, <1>8, <2>5, SeqEqual
    <2> QED BY <2>4, <2>6 DEF s
<1>11. IsData(w)
    BY <1>5 DEF IsData
<1>12. Tail(w) = e
    <2>1. Tail(w) \in Seq(Bytes) /\ Len(Tail(w)) = m /\ \A i \in 1 .. m : Tail(w)[i] = w[i + 1]
        BY <1>5
    <2> DEFINE z == Tail(w)
    <2> HIDE DEF z
    <2>2. z = e
        BY <1>1, <1>5, <2>1, SeqEqual DEF z
    <2> QED BY <2>2 DEF z
<1> QED BY <1>8, <1>9, <1>10, <1>11, <1>12 DEF l, w

\* A clean event reads as it was before it was written out.
LEMMA EventReads ==
    ASSUME NEW ev \in CleanEvents
    PROVE  RefEvents(encode_event(ev), FALSE) = <<ev>>
<1> DEFINE B == Seq(Bytes)
           w(i) == <<"d">> \o ev[i] \o <<"n">>
           ss == [i \in DOMAIN ev |-> w(i)]
<1>1. PICK n \in Nat : n = Len(ev) /\ ev \in Seq(Clean) /\ ev # <<>>
    BY DEF CleanEvents
<1>2. DOMAIN ev = 1 .. n /\ \A i \in 1 .. n : ev[i] \in Clean
    BY <1>1
<1>3. ASSUME NEW i \in 1 .. n
      PROVE  /\ w(i) \in B /\ Lines(w(i)) = <<w(i)>> /\ Rest(w(i)) = <<>>
             /\ IsData(TrimEnd(w(i))) /\ Tail(TrimEnd(w(i))) = ev[i]
    <2>1. ev[i] \in Clean
        BY <1>2
    <2> QED BY <2>1, WrittenLine
<1>4. /\ ss \in Seq(B) /\ Len(ss) = n
      /\ \A i \in 1 .. n : /\ ss[i] \in B /\ Lines(ss[i]) = <<ss[i]>> /\ Rest(ss[i]) = <<>>
                           /\ IsData(TrimEnd(ss[i])) /\ Tail(TrimEnd(ss[i])) = ev[i]
    <2>1. ss = [i \in 1 .. n |-> w(i)]
        BY <1>2
    <2> HIDE DEF w, B
    <2> QED BY <1>3, <2>1, SeqDef
<1>5. encode_event(ev) = FlattenSeq(ss) \o <<"n">>
    BY Zenon DEF encode_event
<1> HIDE DEF ss
<1>6. PICK h \in [0 .. n -> B] :
          h[0] = <<>> /\ FlattenSeq(ss) = h[n] /\ \A i \in 1 .. n : h[i] = h[i - 1] \o ss[i]
    <2>1. ss \in Seq(Seq(Bytes)) /\ n = Len(ss)
        BY <1>4
    <2>2. Joinings(Bytes, ss, n) # {}
        BY <2>1, FlattenAlong
    <2>3. PICK h : h \in Joinings(Bytes, ss, n)
        BY <2>2
    <2> QED BY <2>3, Zenon DEF Joinings
<1>7. \A i \in 0 .. n : h[i] \in B
    BY <1>6
<1> DEFINE Good(i) == Rest(h[i]) = <<>> /\ Read(h[i]) = [lines |-> SubSeq(ev, 1, i), out |-> <<>>]
           S == {i \in 0 .. n : Good(i)}
<1>8. 0 \in S
    <2>1. Lines(<<>>) = <<>> /\ Rest(<<>>) = <<>>
        BY CutGrows DEF Lines, Rest, Uncut
    <2>2. Read(<<>>) = Unread
        BY <2>1, FreshIsLoose, ParseGrows DEF Read
    <2>3. SubSeq(ev, 1, 0) = <<>>
        BY <1>1
    <2>4. Good(0)
        BY <1>6, <2>1, <2>2, <2>3, Zenon DEF Unread
    <2> HIDE DEF Good
    <2> QED BY <2>4, 0 \in 0 .. n
<1>9. ASSUME NEW i \in 0 .. n - 1, i \in S PROVE i + 1 \in S
    <2>1. i + 1 \in 1 .. n /\ i + 1 \in 0 .. n /\ i \in 0 .. n /\ (i + 1) - 1 = i
        BY <1>1
    <2>2. Good(i)
        BY <1>9
    <2> DEFINE a == h[i]
               b == ss[i + 1]
    <2>3. /\ b \in B /\ Lines(b) = <<b>> /\ Rest(b) = <<>> /\ IsData(TrimEnd(b)) /\ Tail(TrimEnd(b)) = ev[i + 1]
          /\ a \in B /\ Rest(a) = <<>>
        BY <1>4, <1>7, <2>1, <2>2
    <2>4. h[i + 1] = a \o b
        BY <1>6, <2>1
    <2>5. Read(a).lines = SubSeq(ev, 1, i) /\ Read(a).out = <<>>
        BY <2>2, RecordParts
    <2> HIDE DEF a, b
    <2>6. Lines(a \o b) = Append(Lines(a), b) /\ Rest(a \o b) = <<>>
        <3>1. <<>> \o b = b
            BY <2>3
        <3>2. Lines(a \o b) = Lines(a) \o <<b>> /\ Rest(a \o b) = <<>>
            <4>1. Lines(a \o b) = Lines(a) \o Lines(Rest(a) \o b) /\ Rest(a \o b) = Rest(Rest(a) \o b)
                BY <2>3, CutJoins
            <4> QED BY <2>3, <3>1, <4>1, Zenon
        <3>3. Lines(a) \in Seq(B)
            BY <2>3, LinesTypes
        <3> HIDE DEF B
        <3> QED BY <2>3, <3>2, <3>3, AppendIsConcat
    <2>7. Read(a \o b) = ParseLine(Read(a), b) /\ Read(a) \in LooseStates
        <3>1. Lines(a) \in Seq(Seq(Bytes))
            BY <2>3, LinesTypes
        <3> QED BY <2>3, <2>6, <3>1, FreshIsLoose, ParseGrows DEF Read
    <2>8. Read(a \o b) = [lines |-> Append(SubSeq(ev, 1, i), ev[i + 1]), out |-> <<>>]
        <3> DEFINE c == TrimEnd(b)
        <3>1. c # <<>> /\ IsData(c) /\ Tail(c) = ev[i + 1]
            BY <2>3 DEF IsData
        <3>2. c = TrimEnd(b)
            OBVIOUS
        <3> HIDE DEF c
        <3>3. ParseLine(Read(a), b) =
                  [lines |-> IF c = <<>> THEN <<>> ELSE IF IsData(c) THEN Append(Read(a).lines, Tail(c)) ELSE Read(a).lines,
                   out   |-> IF c = <<>> /\ Read(a).lines # <<>> THEN Append(Read(a).out, Read(a).lines) ELSE Read(a).out]
            BY <2>7, <3>2, ParseLineIs
        <3> QED BY <2>5, <2>7, <3>1, <3>3, Zenon
    <2>9. SubSeq(ev, 1, i + 1) = Append(SubSeq(ev, 1, i), ev[i + 1])
        <3> DEFINE C == Clean
        <3>1. ev \in Seq(C) /\ i \in 0 .. Len(ev) - 1
            BY <1>1
        <3> HIDE DEF C
        <3> QED BY <3>1, PrefixGrows
    <2>10. Good(i + 1)
        BY <2>4, <2>6, <2>8, <2>9, Zenon
    <2> HIDE DEF Good
    <2> QED BY <2>1, <2>10
<1> HIDE DEF S
<1>10. \A i \in 0 .. n : i \in S
    BY <1>8, <1>9, BoundedInduction
<1>11. Good(n)
    BY <1>10, n \in 0 .. n DEF S
<1> DEFINE z == h[n]
           l == <<"n">>
<1>12. z \in B /\ Rest(z) = <<>> /\ encode_event(ev) = Append(z, "n")
    <2>1. encode_event(ev) = z \o <<"n">> /\ z \in B
        BY <1>5, <1>6, <1>7, n \in 0 .. n
    <2>2. "n" \in Bytes
        BY DEF Bytes
    <2> HIDE DEF z
    <2>3. z \o <<"n">> = Append(z, "n")
        BY <2>1, <2>2, AppendIsConcat
    <2> QED BY <1>11, <2>1, <2>3 DEF z
<1>13. Read(z).lines = ev /\ Read(z).out = <<>>
    <2>1. SubSeq(ev, 1, n) = ev
        BY <1>1, SubSeqFull
    <2> QED BY <1>11, <2>1, RecordParts
<1> HIDE DEF z
<1>14. l \in Seq(Bytes) /\ TrimEnd(l) = <<>>
    <2>1. l \in Seq(Bytes) /\ Len(l) = 1 /\ l[1] = "n"
        BY DEF Bytes
    <2> HIDE DEF l
    <2> DEFINE k == 0
    <2>2. k \in 0 .. Len(l) /\ (k > 0 => l[k] \notin {"r", "n"})
        BY <2>1
    <2>3. \A j \in k + 1 .. Len(l) : l[j] \in {"r", "n"}
        BY <2>1
    <2>4. SubSeq(l, 1, k) = <<>>
        OBVIOUS
    <2> HIDE DEF k
    <2>5. TrimEnd(l) = SubSeq(l, 1, k)
        BY <2>1, <2>2, <2>3, TrimIs
    <2> QED BY <2>1, <2>4, <2>5
<1>15. Lines(Append(z, "n")) = Append(Lines(z), l)
    <2>1. Lines(Append(z, "n")) = Append(Lines(z), Append(Rest(z), "n"))
        BY <1>12, "n" \in Bytes, ByteIsCut DEF Bytes
    <2>2. Append(<<>>, "n") = l
        OBVIOUS
    <2> QED BY <1>12, <2>1, <2>2, Zenon
<1>16. Read(Append(z, "n")) = ParseLine(Read(z), l) /\ Read(z) \in LooseStates
    <2>1. Lines(z) \in Seq(Seq(Bytes))
        BY <1>12, LinesTypes
    <2> HIDE DEF l
    <2>2. /\ ParseLines(Unread, Append(Lines(z), l)) = ParseLine(ParseLines(Unread, Lines(z)), l)
          /\ ParseLines(Unread, Lines(z)) \in LooseStates
        BY <1>14, <2>1, FreshIsLoose, ParseGrows
    <2> QED BY <1>15, <2>2, Zenon DEF Read
<1>17. Read(Append(z, "n")).out = <<ev>>
    <2> DEFINE c == TrimEnd(l)
    <2>1. c = <<>> /\ c = TrimEnd(l)
        BY <1>14
    <2> HIDE DEF c, l
    <2>2. ParseLine(Read(z), l) =
              [lines |-> IF c = <<>> THEN <<>> ELSE IF IsData(c) THEN Append(Read(z).lines, Tail(c)) ELSE Read(z).lines,
               out   |-> IF c = <<>> /\ Read(z).lines # <<>> THEN Append(Read(z).out, Read(z).lines) ELSE Read(z).out]
        BY <1>16, <2>1, ParseLineIs
    <2>3. ParseLine(Read(z), l) = [lines |-> <<>>, out |-> Append(<<>>, ev)]
        BY <1>1, <1>13, <2>1, <2>2, Zenon
    <2>4. Append(<<>>, ev) = <<ev>>
        OBVIOUS
    <2> QED BY <1>16, <2>3, <2>4, RecordParts
<1>18. RefEvents(Append(z, "n"), FALSE) = Read(Append(z, "n")).out
    <2>1. Append(z, "n") \in Seq(Bytes)
        BY <1>12, "n" \in Bytes, GrownIs DEF Bytes
    <2> QED BY <2>1, RefIs
<1> QED BY <1>12, <1>17, <1>18

-----------------------------------------------------------------------------
(* The stream.                                                               *)

\* From clean lines the parser reads clean events.
LEMMA ReadCleanly ==
    ASSUME NEW bytes \in Seq(Bytes)
    PROVE  Read(bytes) \in ParserStates
<1> DEFINE B == Seq(Bytes)
           S == {ls \in Seq(CutLines) : ParseLines(Unread, ls) \in ParserStates}
<1>1. <<>> \in S
    BY FreshIsLoose, ParseGrows, EmptySeq
<1>2. ASSUME NEW ls \in S, NEW l \in CutLines PROVE Append(ls, l) \in S
    <2>1. ls \in Seq(CutLines) /\ ParseLines(Unread, ls) \in ParserStates
        OBVIOUS
    <2>2. CutLines \subseteq B
        BY DEF CutLines
    <2>3. ls \in Seq(B) /\ l \in B
        <3> HIDE DEF B
        <3> QED BY <2>1, <2>2, SeqMonotonic
    <2>4. ParseLines(Unread, Append(ls, l)) = ParseLine(ParseLines(Unread, ls), l)
        BY <2>3, FreshIsLoose, ParseGrows
    <2>5. ParseLine(ParseLines(Unread, ls), l) \in ParserStates
        BY <2>1, ParsedCleanly
    <2>6. Append(ls, l) \in Seq(CutLines)
        BY <2>1, GrownIs
    <2> QED BY <2>4, <2>5, <2>6
<1>3. S = Seq(CutLines)
    <2>1. S \in SUBSET Seq(CutLines)
        OBVIOUS
    <2> HIDE DEF S
    <2> QED BY <1>1, <1>2, <2>1, GrowthInduction
<1>4. Lines(bytes) \in S
    BY <1>3, CutIsClean
<1> QED BY <1>4 DEF Read

\* So are those of the reference.
LEMMA RefIsClean ==
    ASSUME NEW bytes \in Seq(Bytes), NEW ended \in BOOLEAN
    PROVE  RefEvents(bytes, ended) \in Seq(CleanEvents)
<1> DEFINE q == Read(bytes).lines
           o == Read(bytes).out
           c == TrimEnd(Unfinished(Rest(bytes)))
           b == IF IsData(c) THEN Append(q, Tail(c)) ELSE q
<1>1. q \in Seq(Clean) /\ o \in Seq(CleanEvents)
    BY ReadCleanly DEF ParserStates
<1>2. b \in Seq(Clean)
    <2>1. Rest(bytes) \in CutLines
        BY CutIsClean
    <2>1a. <<>> \in CutLines
        <3> DEFINE e == <<>>
        <3>1. e \in Seq(Bytes) /\ Len(e) = 0
            BY EmptySeq
        <3> HIDE DEF e
        <3>2. \A i \in 1 .. Len(e) - 1 : FALSE
            BY <3>1
        <3>3. e \in CutLines
            BY <3>1, <3>2 DEF CutLines
        <3> QED BY <3>3 DEF e
    <2>2. Unfinished(Rest(bytes)) \in CutLines
        BY <2>1, <2>1a DEF Unfinished
    <2>3. IsData(c) => Tail(c) \in Clean
        BY <2>2, TrimmedIsClean
    <2> HIDE DEF c, q
    <2> QED BY <1>1, <2>3, AppendProperties
<1>3. finish([buf |-> Rest(bytes), lines |-> q]) = IF b = <<>> THEN <<>> ELSE <<b>>
    <2> HIDE DEF q
    <2> QED BY Zenon DEF finish
<1> HIDE DEF b, q, o
<1>4. finish([buf |-> Rest(bytes), lines |-> q]) \in Seq(CleanEvents)
    <2>1. b # <<>> => b \in CleanEvents
        BY <1>2 DEF CleanEvents
    <2>2. <<>> \in Seq(CleanEvents) /\ (b \in CleanEvents => <<b>> \in Seq(CleanEvents))
        BY EmptySeq
    <2> QED BY <1>3, <2>1, <2>2
<1> DEFINE f == finish([buf |-> Rest(bytes), lines |-> q])
<1> HIDE DEF f
<1>5. o \o f \in Seq(CleanEvents)
    BY <1>1, <1>4 DEF f
<1>6. RefEvents(bytes, FALSE) = o /\ RefEvents(bytes, TRUE) = o \o f
    BY RefIs DEF f, o, q
<1> QED BY <1>1, <1>5, <1>6

\* Where a chunk begins.
LEMMA PrefixIs ==
    ASSUME NEW d \in Seq(Bytes), NEW c \in Seq(Bytes), NEW s, s = d \o c
    PROVE  SubSeq(s, 1, Len(s) - Len(c)) = d
<1>1. PICK m \in Nat, n \in Nat : m = Len(d) /\ n = Len(c)
    OBVIOUS
<1>2. s \in Seq(Bytes) /\ Len(s) = m + n /\ \A i \in 1 .. m : s[i] = d[i]
    BY <1>1
<1> DEFINE z == SubSeq(s, 1, m)
<1>3. z \in Seq(Bytes) /\ Len(z) = m /\ \A i \in 1 .. m : z[i] = s[i]
    BY <1>2
<1>4. Len(s) - Len(c) = m
    BY <1>1, <1>2
<1> HIDE DEF z
<1>5. z = d
    BY <1>1, <1>2, <1>3, SeqEqual
<1> QED BY <1>4, <1>5 DEF z

\* The parser has read what was delivered.
SseInv ==
    /\ sse_end \in {"open", "ended", "broken"}
    /\ chunk \in Seq(Bytes)
    /\ \E d \in Seq(Bytes) :
        /\ sent = d \o chunk
        /\ sse_end = "open" => buf = Rest(d) /\ data_lines = Read(d).lines /\ queue = Read(d).out
        /\ sse_end # "open" => buf = <<>> /\ queue = RefEvents(d, TRUE)

\* It has read nothing at the start.
LEMMA StreamStarts == SseInit => SseInv
<1> SUFFICES ASSUME SseInit PROVE SseInv
    OBVIOUS
<1>1. sent = <<>> /\ chunk = <<>> /\ buf = <<>> /\ data_lines = <<>> /\ queue = <<>> /\ sse_end = "open"
    BY DEF SseInit
<1>2. Lines(<<>>) = <<>> /\ Rest(<<>>) = <<>>
    BY CutGrows DEF Lines, Rest, Uncut
<1>3. Read(<<>>) = Unread
    BY <1>2, FreshIsLoose, ParseGrows DEF Read
<1>4. Read(<<>>).lines = <<>> /\ Read(<<>>).out = <<>>
    BY <1>3, RecordParts DEF Unread
<1> DEFINE d == <<>>
<1>5. d \in Seq(Bytes) /\ sent = d \o chunk /\ chunk \in Seq(Bytes)
    BY <1>1, EmptySeq
<1>6. buf = Rest(d) /\ data_lines = Read(d).lines /\ queue = Read(d).out
    BY <1>1, <1>2, <1>4
<1> HIDE DEF d
<1> QED BY <1>1, <1>5, <1>6 DEF SseInv

\* A byte that is not delivered changes nothing.
LEMMA WriteKeeps == SseInv /\ WriteByte => SseInv'
<1> SUFFICES ASSUME SseInv, WriteByte PROVE SseInv'
    OBVIOUS
<1>1. PICK b \in StreamBytes : sent' = Append(sent, b) /\ chunk' = Append(chunk, b)
    BY DEF WriteByte
<1>2. PICK d \in Seq(Bytes) :
          /\ sent = d \o chunk
          /\ sse_end = "open" => buf = Rest(d) /\ data_lines = Read(d).lines /\ queue = Read(d).out
          /\ sse_end # "open" => buf = <<>> /\ queue = RefEvents(d, TRUE)
    BY DEF SseInv
<1>3. chunk \in Seq(Bytes) /\ sse_end \in {"open", "ended", "broken"} /\ b \in Bytes
    BY SseAssumption DEF SseInv
<1>4. chunk' \in Seq(Bytes) /\ sent' = d \o chunk'
    <2>1. d \o Append(chunk, b) = Append(d \o chunk, b) /\ Append(chunk, b) \in Seq(Bytes)
        BY <1>3, JoinGrows, GrownIs
    <2> QED BY <1>1, <1>2, <2>1, Zenon
<1>5. UNCHANGED <<buf, data_lines, queue, sse_end>>
    BY DEF WriteByte
<1> QED BY <1>2, <1>3, <1>4, <1>5 DEF SseInv

\* feed reads on.
LEMMA DeliverKeeps == SseInv /\ DeliverChunk => SseInv'
<1> SUFFICES ASSUME SseInv, DeliverChunk PROVE SseInv'
    OBVIOUS
<1>1. /\ sse_end = "open" /\ sse_end' = "open" /\ sent' = sent /\ chunk' = <<>>
      /\ data_lines' = feed(Parser, chunk).lines /\ queue' = queue \o feed(Parser, chunk).out
      /\ buf' = Rest(buf \o chunk)
    BY DEF DeliverChunk
<1>2. PICK d \in Seq(Bytes) : sent = d \o chunk /\ buf = Rest(d) /\ data_lines = Read(d).lines /\ queue = Read(d).out
    BY <1>1 DEF SseInv
<1>3. chunk \in Seq(Bytes)
    BY DEF SseInv
<1> DEFINE y == feed([buf |-> Rest(d), lines |-> Read(d).lines], chunk)
           e == d \o chunk
<1>4. feed(Parser, chunk) = y
    BY <1>2, Zenon DEF Parser
<1>5. Read(e).lines = y.lines /\ Read(e).out = Read(d).out \o y.out /\ Rest(e) = Rest(Rest(d) \o chunk)
    BY <1>3, FeedReads
<1>6. e \in Seq(Bytes) /\ e \o <<>> = e
    BY <1>3, JoinGrows
<1> HIDE DEF y, e
<1>7. buf' = Rest(e) /\ data_lines' = Read(e).lines /\ queue' = Read(e).out
    BY <1>1, <1>2, <1>4, <1>5, Zenon
<1>8. sent' = e \o chunk' /\ chunk' \in Seq(Bytes)
    <2>1. <<>> \in Seq(Bytes)
        BY EmptySeq
    <2> QED BY <1>1, <1>2, <1>6, <2>1 DEF e
<1> QED BY <1>1, <1>6, <1>7, <1>8 DEF SseInv

\* finish reads what is left.
LEMMA EndKeeps == SseInv /\ EndStream => SseInv'
<1> SUFFICES ASSUME SseInv, EndStream PROVE SseInv'
    OBVIOUS
<1>1. /\ sse_end = "open" /\ sse_end' \in {"ended", "broken"} /\ sent' = sent /\ chunk' = chunk
      /\ queue' = queue \o finish(Parser) /\ buf' = <<>>
    BY DEF EndStream
<1>2. PICK d \in Seq(Bytes) : sent = d \o chunk /\ buf = Rest(d) /\ data_lines = Read(d).lines /\ queue = Read(d).out
    BY <1>1 DEF SseInv
<1>3. Parser = [buf |-> Rest(d), lines |-> Read(d).lines]
    BY <1>2, Zenon DEF Parser
<1>4. queue' = RefEvents(d, TRUE)
    BY <1>1, <1>2, <1>3, RefIs, Zenon
<1>5. chunk \in Seq(Bytes)
    BY DEF SseInv
<1> QED BY <1>1, <1>2, <1>4, <1>5 DEF SseInv

\* So every step keeps what the parser has read.
LEMMA StreamStep == SseInv /\ [SseNext]_sseVars => SseInv'
<1> SUFFICES ASSUME SseInv, [SseNext]_sseVars PROVE SseInv'
    OBVIOUS
<1>1. CASE WriteByte
    BY <1>1, WriteKeeps
<1>2. CASE DeliverChunk
    BY <1>2, DeliverKeeps
<1>3. CASE EndStream
    BY <1>3, EndKeeps
<1>4. CASE UNCHANGED sseVars
    BY <1>4 DEF SseInv, sseVars
<1> QED BY <1>1, <1>2, <1>3, <1>4 DEF SseNext

\* However the upstream's bytes are cut into chunks, SseParser (feed and finish) gives exactly
\* the events of the text, and an event that encode_event writes out is read as the same.
THEOREM EventsAreWhole == SseSpec => []EventsWhole
<1>1. SseInv => EventsWhole
    <2> SUFFICES ASSUME SseInv PROVE EventsWhole
        OBVIOUS
    <2>1. PICK d \in Seq(Bytes) :
              /\ sent = d \o chunk
              /\ sse_end = "open" => buf = Rest(d) /\ queue = Read(d).out
              /\ sse_end # "open" => buf = <<>> /\ queue = RefEvents(d, TRUE)
        BY DEF SseInv
    <2>2. sse_end \in {"open", "ended", "broken"} /\ chunk \in Seq(Bytes)
        BY DEF SseInv
    <2>3. Delivered = d
        BY <2>1, <2>2, PrefixIs DEF Delivered
    <2>4. SseTypeOK
        <3>1. ASSUME NEW i \in DOMAIN buf PROVE buf[i] # "n"
            <4>1. CASE sse_end = "open"
                BY <2>1, <3>1, <4>1, CutIsClean
            <4>2. CASE sse_end # "open"
                BY <2>1, <3>1, <4>2
            <4> QED BY <4>1, <4>2
        <3> QED BY <2>2, <3>1 DEF SseTypeOK
    <2>5. queue = RefEvents(d, sse_end # "open")
        <3>1. CASE sse_end = "open"
            <4>1. (sse_end # "open") = FALSE
                BY <3>1
            <4>2. queue = RefEvents(d, FALSE)
                BY <2>1, <3>1, RefIs
            <4> QED BY <4>1, <4>2
        <3>2. CASE sse_end # "open"
            <4>1. (sse_end # "open") = TRUE
                BY <3>2
            <4>2. queue = RefEvents(d, TRUE)
                BY <2>1, <3>2
            <4> QED BY <4>1, <4>2
        <3> QED BY <3>1, <3>2
    <2>6. CutsDoNotMatter
        BY <2>3, <2>5, Zenon DEF CutsDoNotMatter
    <2>7. queue \in Seq(CleanEvents)
        BY <2>5, RefIsClean
    <2>8. \A i \in DOMAIN queue : queue[i] \in CleanEvents
        BY <2>7
    <2>9. EncodingReads
        BY <2>8, EventReads DEF EncodingReads
    <2> QED BY <2>4, <2>6, <2>9 DEF EventsWhole
<1> QED BY <1>1, StreamStarts, StreamStep, PTL DEF SseSpec
=============================================================================
