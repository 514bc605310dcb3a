------------------------------ MODULE Recursion ------------------------------
(***************************************************************************)
(* Induction on numbers and definition by recursion, stated for sets and   *)
(* functions: the form in which the other proofs can cite them.            *)
(***************************************************************************)
EXTENDS Integers, WellFoundedInduction, TLAPS

\* A set of numbers that holds 0 and with each number the next holds them all.
LEMMA NaturalInduction ==
    ASSUME NEW S \in SUBSET Nat, 0 \in S, \A n \in S : n + 1 \in S
    PROVE  S = Nat
<1> DEFINE Below == OpToRel(<, Nat)
           Rest  == Nat \ S
<1> SUFFICES ASSUME Rest # {} PROVE FALSE
    OBVIOUS
<1>1. IsWellFoundedOn(Below, Nat)
    BY NatLessThanWellFounded, Zenon
<1>2. PICK x \in Rest : \A y \in Rest : ~(<<y, x>> \in Below)
    <2> HIDE DEF Below
    <2> QED BY <1>1, WFMin, Rest \subseteq Nat
<1>3. x \in Nat /\ x - 1 \in Nat
    OBVIOUS
<1>4. <<x - 1, x>> \in Below
    <2>1. x - 1 < x
        BY <1>3
    <2> QED BY <1>3, <2>1, Zenon DEF OpToRel
<1>5. x - 1 \in S
    BY <1>2, <1>3, <1>4
<1> QED BY <1>5, <1>3, (x - 1) + 1 = x

\* The same for the numbers up to n.
LEMMA BoundedInduction ==
    ASSUME NEW n \in Nat, NEW S, 0 \in S, \A i \in 0 .. n - 1 : i \in S => i + 1 \in S
    PROVE  \A i \in 0 .. n : i \in S
<1> DEFINE T == {i \in Nat : i <= n => i \in S}
<1>1. 0 \in T
    OBVIOUS
<1>2. ASSUME NEW i \in T PROVE i + 1 \in T
    <2>1. i + 1 <= n => i \in 0 .. n - 1 /\ i \in S
        OBVIOUS
    <2> QED BY <2>1
<1> HIDE DEF T
<1>3. T = Nat
    BY <1>1, <1>2, NaturalInduction DEF T
<1> QED BY <1>3 DEF T

\* A set of positions has a first and a last one.
LEMMA LeastExists ==
    ASSUME NEW n \in Nat, NEW I \in SUBSET (1 .. n), I # {}
    PROVE  \E x \in I : \A y \in I : x <= y
<1> DEFINE T == {k \in 0 .. n : \A j \in I : j > k}
<1> SUFFICES ASSUME ~ \E x \in I : \A y \in I : x <= y PROVE FALSE
    OBVIOUS
<1>1. 0 \in T
    OBVIOUS
<1>2. ASSUME NEW k \in 0 .. n - 1, k \in T PROVE k + 1 \in T
    <2>1. k + 1 \in I => \A y \in I : k + 1 <= y
        BY <1>2
    <2>2. k + 1 \notin I
        BY <2>1
    <2> QED BY <1>2, <2>2
<1> HIDE DEF T
<1>3. \A k \in 0 .. n : k \in T
    BY <1>1, <1>2, BoundedInduction
<1>4. n \in T
    BY <1>3, n \in 0 .. n
<1>5. \A j \in I : j > n
    BY <1>4, Zenon DEF T
<1>6. PICK j \in I : TRUE
    OBVIOUS
<1>7. j \in 1 .. n /\ j > n
    BY <1>5, <1>6
<1> QED BY <1>7

\* The same from the other end.
LEMMA GreatestExists ==
    ASSUME NEW n \in Nat, NEW I \in SUBSET (1 .. n), I # {}
    PROVE  \E x \in I : \A y \in I : x >= y
<1> DEFINE J == {k \in 1 .. n : n + 1 - k \in I}
<1>1. PICK i \in I : TRUE
    OBVIOUS
<1>2. n + 1 - i \in J
    BY <1>1
<1>3. PICK x \in J : \A y \in J : x <= y
    <2> HIDE DEF J
    <2>1. J # {}
        BY <1>2
    <2>2. J \in SUBSET (1 .. n)
        BY DEF J
    <2> QED BY <2>1, <2>2, LeastExists
<1>4. n + 1 - x \in I
    OBVIOUS
<1>5. ASSUME NEW y \in I PROVE n + 1 - x >= y
    <2>1. n + 1 - y \in J
        OBVIOUS
    <2>2. x \in 1 .. n /\ y \in 1 .. n
        OBVIOUS
    <2>3. x <= n + 1 - y
        BY <1>3, <2>1
    <2> QED BY <2>2, <2>3
<1> QED BY <1>4, <1>5

\* The functions that follow step from base up to n.
Runs(n, S, base, step) ==
    {f \in [0 .. n -> S] : f[0] = base /\ \A i \in 1 .. n : f[i] = step[i][f[i - 1]]}

\* A recursion up to n has a solution.
LEMMA RunExists ==
    ASSUME NEW n \in Nat, NEW S, NEW base \in S, NEW step \in [1 .. n -> [S -> S]]
    PROVE  Runs(n, S, base, step) # {}
<1> DEFINE T == {k \in 0 .. n : Runs(k, S, base, step) # {}}
<1>1. 0 \in T
    <2>1. [i \in 0 .. 0 |-> base] \in Runs(0, S, base, step)
        BY DEF Runs
    <2> QED BY <2>1
<1>2. ASSUME NEW k \in 0 .. n - 1, k \in T PROVE k + 1 \in T
    <2>1. PICK f \in Runs(k, S, base, step) : TRUE
        BY <1>2
    <2>2. f \in [0 .. k -> S] /\ k + 1 \in 1 .. n /\ k \in 0 .. k
        BY <2>1 DEF Runs
    <2>3. step[k + 1][f[k]] \in S
        BY <2>2
    <2> DEFINE g == [i \in 0 .. k + 1 |-> IF i = k + 1 THEN step[k + 1][f[k]] ELSE f[i]]
    <2>4. g \in [0 .. k + 1 -> S]
        BY <2>2, <2>3
    <2>5. ASSUME NEW i \in 1 .. k + 1 PROVE g[i] = step[i][g[i - 1]]
        <3>1. CASE i = k + 1
            <4>1. k \in 0 .. k + 1 /\ k # k + 1 /\ i - 1 = k
                BY <3>1
            <4> QED BY <3>1, <4>1
        <3>2. CASE i # k + 1
            <4>1. i \in 1 .. k /\ i - 1 \in 0 .. k + 1 /\ i - 1 # k + 1 /\ i \in 0 .. k + 1
                BY <3>2
            <4> QED BY <2>1, <3>2, <4>1 DEF Runs
        <3> QED BY <3>1, <3>2
    <2>6. g[0] = base
        BY <2>1 DEF Runs
    <2> HIDE DEF g
    <2>7. g \in Runs(k + 1, S, base, step)
        BY <2>4, <2>5, <2>6 DEF Runs
    <2> QED BY <2>7, <2>2
<1> HIDE DEF T
<1>3. \A k \in 0 .. n : k \in T
    BY <1>1, <1>2, BoundedInduction
<1> QED BY <1>3, n \in 0 .. n DEF T

\* A run satisfies the equation of a recursive definition.
LEMMA RunIsRecursive ==
    ASSUME NEW n \in Nat, NEW S, NEW base, NEW step, NEW f \in Runs(n, S, base, step)
    PROVE  f = [i \in 0 .. n |-> IF i = 0 THEN base ELSE step[i][f[i - 1]]]
<1>1. f = [i \in 0 .. n |-> f[i]]
    BY DEF Runs
<1>2. \A i \in 0 .. n : f[i] = IF i = 0 THEN base ELSE step[i][f[i - 1]]
    <2> TAKE i \in 0 .. n
    <2>1. i = 0 \/ i \in 1 .. n
        OBVIOUS
    <2> QED BY <2>1 DEF Runs
<1> QED BY <1>1, <1>2

\* What each step keeps holds of every value.
LEMMA RunStays ==
    ASSUME NEW n \in Nat, NEW S, NEW f, f[0] \in S,
           \A i \in 1 .. n : f[i - 1] \in S => f[i] \in S
    PROVE  \A i \in 0 .. n : f[i] \in S
<1> DEFINE T == {i \in 0 .. n : f[i] \in S}
<1>1. 0 \in T
    OBVIOUS
<1>2. ASSUME NEW i \in 0 .. n - 1, i \in T PROVE i + 1 \in T
    <2>1. i + 1 \in 1 .. n /\ (i + 1) - 1 = i /\ f[i] \in S
        BY <1>2
    <2> QED BY <2>1
<1> HIDE DEF T
<1>3. \A i \in 0 .. n : i \in T
    BY <1>1, <1>2, BoundedInduction
<1> QED BY <1>3 DEF T

\* A recursion has only one solution.
LEMMA RunIsUnique ==
    ASSUME NEW n \in Nat, NEW S, NEW base, NEW step,
           NEW f \in Runs(n, S, base, step), NEW g \in Runs(n, S, base, step)
    PROVE  f = g
<1> DEFINE T == {i \in 0 .. n : f[i] = g[i]}
<1>1. 0 \in T
    BY DEF Runs
<1>2. ASSUME NEW i \in 0 .. n - 1, i \in T PROVE i + 1 \in T
    <2>1. i + 1 \in 1 .. n /\ (i + 1) - 1 = i /\ f[i] = g[i]
        BY <1>2
    <2>2. f[i + 1] = step[i + 1][f[(i + 1) - 1]] /\ g[i + 1] = step[i + 1][g[(i + 1) - 1]]
        BY <2>1 DEF Runs
    <2> QED BY <2>1, <2>2
<1> HIDE DEF T
<1>3. \A i \in 0 .. n : i \in T
    BY <1>1, <1>2, BoundedInduction
<1>4. \A i \in 0 .. n : f[i] = g[i]
    BY <1>3 DEF T
<1> QED BY <1>4 DEF Runs

\* The functions that follow step from base over all numbers.
Solutions(S, base, step) ==
    {f \in [Nat -> S] : f[0] = base /\ \A n \in Nat : f[n + 1] = step[n + 1][f[n]]}

\* A recursion over all numbers has a solution.
LEMMA RecursionExists ==
    ASSUME NEW S, NEW base \in S, NEW step \in [Nat -> [S -> S]]
    PROVE  Solutions(S, base, step) # {}
<1> DEFINE R(n) == Runs(n, S, base, step)
           h == [n \in Nat |-> (CHOOSE f \in R(n) : TRUE)[n]]
<1>1. ASSUME NEW n \in Nat PROVE R(n) # {}
    <2> DEFINE cut == [i \in 1 .. n |-> step[i]]
    <2>1. cut \in [1 .. n -> [S -> S]] /\ \A i \in 1 .. n : cut[i] = step[i]
        OBVIOUS
    <2> HIDE DEF cut
    <2>2. Runs(n, S, base, cut) # {}
        BY <2>1, RunExists
    <2>3. \A f \in Runs(n, S, base, cut) : f \in R(n)
        BY <2>1 DEF Runs
    <2> QED BY <2>2, <2>3
<1>2. ASSUME NEW n \in Nat, NEW f \in R(n) PROVE h[n] = f[n]
    <2>1. (CHOOSE g \in R(n) : TRUE) \in R(n)
        BY <1>1
    <2>2. (CHOOSE g \in R(n) : TRUE) = f
        BY <2>1, RunIsUnique
    <2> QED BY <2>2
<1>3. ASSUME NEW n \in Nat PROVE h[n] \in S
    <2>1. PICK f : f \in R(n)
        BY <1>1
    <2>2. f[n] \in S
        BY <2>1 DEF Runs
    <2> QED BY <1>2, <2>1, <2>2
<1>4. h[0] = base
    <2>1. PICK f : f \in R(0)
        BY <1>1
    <2> QED BY <1>2, <2>1 DEF Runs
<1>5. ASSUME NEW n \in Nat PROVE h[n + 1] = step[n + 1][h[n]]
    <2>1. PICK f : f \in R(n + 1)
        BY <1>1
    <2> DEFINE cut == [i \in 0 .. n |-> f[i]]
    <2>2. cut \in R(n) /\ cut[n] = f[n]
        <3>1. f \in [0 .. n + 1 -> S] /\ f[0] = base /\ \A i \in 1 .. n + 1 : f[i] = step[i][f[i - 1]]
            BY <2>1 DEF Runs
        <3>2. \A i \in 0 .. n : cut[i] = f[i] /\ f[i] \in S
            BY <3>1
        <3>3. cut \in [0 .. n -> S]
            BY <3>1
        <3> HIDE DEF cut
        <3>4. \A i \in 1 .. n : cut[i] = step[i][cut[i - 1]]
            <4> TAKE i \in 1 .. n
            <4>1. i \in 0 .. n /\ i - 1 \in 0 .. n /\ i \in 1 .. n + 1
                OBVIOUS
            <4> QED BY <3>1, <3>2, <4>1
        <3>5. 0 \in 0 .. n /\ n \in 0 .. n
            OBVIOUS
        <3> QED BY <3>1, <3>2, <3>3, <3>4, <3>5 DEF Runs
    <2>3. h[n] = f[n] /\ h[n + 1] = f[n + 1]
        <3> HIDE DEF h, cut
        <3> QED BY <1>2, <2>1, <2>2
    <2>4. f[n + 1] = step[n + 1][f[(n + 1) - 1]]
        BY <2>1 DEF Runs
    <2> QED BY <2>3, <2>4, (n + 1) - 1 = n
<1>6. h \in [Nat -> S]
    BY <1>3
<1> HIDE DEF h
<1>7. h \in Solutions(S, base, step)
    BY <1>4, <1>5, <1>6 DEF Solutions
<1> QED BY <1>7
=============================================================================
