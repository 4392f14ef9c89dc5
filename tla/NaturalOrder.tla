----------------------------- MODULE NaturalOrder -----------------------------
(***************************************************************************)
(* Least and greatest elements of sets of naturals, which the proofs about *)
(* searches, hints and branch points rest on; induction over the indexes   *)
(* of a loop, and functions defined by recursion on them.                  *)
(***************************************************************************)
EXTENDS Naturals, WellFoundedInduction, TLAPS

\* A nonempty set of naturals has a least element.
LEMMA LeastNatural ==
  ASSUME NEW T, T \subseteq Nat, T # {}
  PROVE  \E x \in T : \A y \in T : x <= y
<1>1. PICK x \in T : \A y \in T : ~(<<y, x>> \in OpToRel(<, Nat))
  BY NatLessThanWellFounded, WFMin
<1>2. \A y \in T : ~(y < x)
  BY <1>1 DEF OpToRel
<1> QED
  BY <1>2

\* A nonempty bounded set of naturals has a greatest element.
LEMMA GreatestNatural ==
  ASSUME NEW n \in Nat, NEW T, T \subseteq 0..n, T # {}
  PROVE  \E x \in T : \A y \in T : y <= x
<1> DEFINE U == {n - y : y \in T}
<1>1. PICK t \in T : TRUE
  OBVIOUS
<1>2. U \subseteq Nat /\ U # {}
  <2>1. n - t \in U
    BY <1>1
  <2>2. ASSUME NEW y \in T PROVE n - y \in Nat
    OBVIOUS
  <2> QED
    BY <2>1, <2>2
<1>3. PICK u \in U : \A v \in U : u <= v
  BY <1>2, LeastNatural
<1>4. PICK x \in T : u = n - x
  BY <1>3
<1>5. \A y \in T : n - x <= n - y
  BY <1>3, <1>4
<1> QED
  BY <1>5

\* Induction up to n, for the indexes in a set.
LEMMA Induction ==
  ASSUME NEW n \in Nat, NEW T, 1 \in T, \A i \in 2..n : i - 1 \in T => i \in T
  PROVE  1..n \subseteq T
<1> DEFINE U == (1..n) \ T
<1>1. SUFFICES ASSUME U # {} PROVE FALSE
  OBVIOUS
<1>2. PICK m \in U : \A y \in U : m <= y
  <2> U \subseteq Nat
    OBVIOUS
  <2> QED
    BY <1>1, LeastNatural
<1>3. m \in 2..n /\ m - 1 \in 1..n
  BY <1>2
<1>4. m - 1 \in T
  BY <1>2, <1>3
<1> QED
  BY <1>2, <1>3, <1>4

StaysIn(S, n, step) == \A i \in 2..n : \A x \in S : step[i][x] \in S

GoesBy(f, n, base, step) == f[1] = base /\ \A i \in 2..n : f[i] = step[i][f[i - 1]]

\* A function may be defined by what it is at 1 and how it goes on.
LEMMA Recursion ==
  ASSUME NEW n \in Nat \ {0}, NEW S, NEW base \in S, NEW step, StaysIn(S, n, step)
  PROVE  \E f \in [1..n -> S] : GoesBy(f, n, base, step)
<1> USE DEF StaysIn, GoesBy
<1> DEFINE Goes(f, m) == GoesBy(f, m, base, step)
           T == {m \in 1..n : \E f \in [1..m -> S] : Goes(f, m)}
<1>1. 1 \in T
  <2>1. Goes([i \in 1..1 |-> base], 1) /\ [i \in 1..1 |-> base] \in [1..1 -> S]
    OBVIOUS
  <2>2. 1 \in 1..n
    OBVIOUS
  <2> QED
    BY <2>1, <2>2
<1>2. ASSUME NEW m \in 2..n, m - 1 \in T PROVE m \in T
  <2>1. PICK f \in [1..m - 1 -> S] : Goes(f, m - 1)
    BY <1>2
  <2> DEFINE g == [i \in 1..m |-> IF i = m THEN step[m][f[m - 1]] ELSE f[i]]
  <2>2. m - 1 \in 1..m - 1 /\ f[m - 1] \in S
    OBVIOUS
  <2>3. step[m][f[m - 1]] \in S
    BY <2>2
  <2>4. \A i \in 1..m : i # m => i \in 1..m - 1
    OBVIOUS
  <2>5. g \in [1..m -> S]
    BY <2>3, <2>4
  <2>6. g[1] = base
    BY <2>1
  <2>7. ASSUME NEW i \in 2..m PROVE g[i] = step[i][g[i - 1]]
    <3>1. i - 1 \in 1..m /\ i - 1 # m /\ g[i - 1] = f[i - 1]
      OBVIOUS
    <3>2. CASE i = m
      BY <3>1, <3>2
    <3>3. CASE i # m
      <4>1. i \in 2..m - 1 /\ g[i] = f[i]
        BY <3>3
      <4> QED
        BY <2>1, <3>1, <4>1
    <3> QED
      BY <3>2, <3>3
  <2> HIDE DEF g
  <2>8. Goes(g, m)
    BY <2>6, <2>7
  <2>9. m \in 1..n
    OBVIOUS
  <2> QED
    BY <2>5, <2>8, <2>9
<1> HIDE DEF T
<1>3. n \in 1..n /\ 1..n \subseteq T
  BY <1>1, <1>2, Induction
<1> QED
  BY <1>3 DEF T

\* The same, with indexes from zero.
LEMMA InductionFromZero ==
  ASSUME NEW n \in Nat, NEW T, 0 \in T, \A i \in 1..n : i - 1 \in T => i \in T
  PROVE  0..n \subseteq T
<1> DEFINE U == {i \in 1..n : i \in T}
<1>1. 1..n \subseteq U
  <2>1. CASE n = 0
    BY <2>1
  <2>2. CASE n # 0
    <3>1. 1 \in U
      <4>1. 1 \in 1..n /\ 1 - 1 = 0
        BY <2>2
      <4> QED
        BY <4>1
    <3>2. \A i \in 2..n : i - 1 \in U => i \in U
      OBVIOUS
    <3> HIDE DEF U
    <3> QED
      BY <3>1, <3>2, Induction
  <2> QED
    BY <2>1, <2>2
<1>2. \A i \in 0..n : i = 0 \/ i \in 1..n
  OBVIOUS
<1> QED
  BY <1>1, <1>2

\* A function starts and goes on as a recursive definition says.
Recurs(f, n, base, step) == f[0] = base /\ \A i \in 1..n : f[i] = step[i][f[i - 1]]

LEMMA RecursionFromZero ==
  ASSUME NEW n \in Nat, NEW S, NEW base \in S, NEW step, \A i \in 1..n : \A x \in S : step[i][x] \in S
  PROVE  \E f \in [0..n -> S] : Recurs(f, n, base, step)
<1> DEFINE later == [i \in 2..n + 1 |-> step[i - 1]]
<1>1. StaysIn(S, n + 1, later)
  <2>1. \A i \in 2..n + 1 : i - 1 \in 1..n
    OBVIOUS
  <2> QED
    BY <2>1 DEF StaysIn
<1>2. n + 1 \in Nat \ {0}
  OBVIOUS
<1>3. \A i \in 2..n + 1 : later[i] = step[i - 1]
  OBVIOUS
<1> HIDE DEF later
<1>4. PICK f \in [1..n + 1 -> S] : GoesBy(f, n + 1, base, later)
  BY <1>1, <1>2, Recursion
<1> DEFINE g == [i \in 0..n |-> f[i + 1]]
<1>5. g \in [0..n -> S] /\ \A i \in 0..n : g[i] = f[i + 1]
  OBVIOUS
<1> HIDE DEF g
<1>6. g[0] = base
  BY <1>4, <1>5 DEF GoesBy
<1>7. ASSUME NEW i \in 1..n PROVE g[i] = step[i][g[i - 1]]
  <2>1. i + 1 \in 2..n + 1 /\ i \in 0..n /\ i - 1 \in 0..n /\ (i - 1) + 1 = i /\ (i + 1) - 1 = i
    OBVIOUS
  <2>2. f[i + 1] = later[i + 1][f[i]]
    BY <1>4, <2>1 DEF GoesBy
  <2> QED
    BY <1>3, <1>5, <2>1, <2>2
<1> QED
  BY <1>5, <1>6, <1>7 DEF Recurs

OnFromZero(f, n) == f = [i \in 0..n |-> f[i]]
RecursWithin(f, n, S, step) == \A i \in 1..n : f[i - 1] \in S => f[i] = step[i][f[i - 1]] /\ f[i] \in S

\* A function that goes on from a set into that set stays in it.
LEMMA StaysFromZero ==
  ASSUME NEW n \in Nat, NEW S, NEW base \in S, NEW step,
         NEW f, OnFromZero(f, n), f[0] = base, RecursWithin(f, n, S, step)
  PROVE  f \in [0..n -> S] /\ Recurs(f, n, base, step)
<1> USE DEF OnFromZero, RecursWithin
<1> DEFINE T == {i \in 0..n : f[i] \in S}
<1>1. 0..n \subseteq T
  <2>1. 0 \in T
    OBVIOUS
  <2>2. ASSUME NEW i \in 1..n, i - 1 \in T PROVE i \in T
    <3>1. f[i - 1] \in S /\ i \in 0..n
      BY <2>2
    <3>2. f[i] \in S
      BY <3>1
    <3> QED
      BY <3>1, <3>2
  <2> HIDE DEF T
  <2> QED
    BY <2>1, <2>2, InductionFromZero
<1>2. \A i \in 0..n : f[i] \in S
  BY <1>1
<1>3. f \in [0..n -> S]
  BY <1>2
<1>4. \A i \in 1..n : i - 1 \in 0..n
  OBVIOUS
<1> QED
  BY <1>2, <1>3, <1>4 DEF Recurs

=============================================================================
