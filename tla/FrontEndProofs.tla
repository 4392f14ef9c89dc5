---------------------------- MODULE FrontEndProofs ----------------------------
(***************************************************************************)
(* What the front ends make of waypoints, for all inputs: what is left out *)
(* is near what is left in, segments are the motion, and every call of the *)
(* service has an outcome, with samples of the whole motion.  A request of *)
(* MoveIt that fails leaves the plan; one that succeeds is timed by it.    *)
(***************************************************************************)
EXTENDS MlModel, MoveIt, SequenceTheorems, NaturalOrder, TLAPS

Plane == Int \X Int

-----------------------------------------------------------------------------
(* Distances *)

LEMMA LinfFacts ==
  ASSUME NEW a \in Plane, NEW b \in Plane, NEW c \in Plane
  PROVE  /\ Linf(a, b) \in Nat /\ Linf(a, a) = 0 /\ Linf(a, b) = Linf(b, a)
         /\ Linf(a, c) <= Linf(a, b) + Linf(b, c)
<1>1. /\ a[1] \in Int /\ a[2] \in Int /\ b[1] \in Int /\ b[2] \in Int
      /\ c[1] \in Int /\ c[2] \in Int
  BY DEF Plane
<1> DEFINE Most(x, y) == IF Size(x) > Size(y) THEN Size(x) ELSE Size(y)
<1>2. \A p, q \in {a, b, c} : Linf(p, q) = Most(q[1] - p[1], q[2] - p[2])
  BY DEF Linf, Diff
<1>3. \A x, y \in Int : Most(x, y) \in Nat /\ Most(-x, -y) = Most(x, y) /\ Most(0, 0) = 0
  BY DEF Size
<1>4. \A x, y, z, w \in Int : Most(x + z, y + w) <= Most(x, y) + Most(z, w)
  BY DEF Size
<1> HIDE DEF Most
<1>5. Linf(a, b) \in Nat
  <2>1. Linf(a, b) = Most(b[1] - a[1], b[2] - a[2])
    BY <1>2
  <2>2. b[1] - a[1] \in Int /\ b[2] - a[2] \in Int
    BY <1>1
  <2> QED
    BY <1>3, <2>1, <2>2
<1>6. Linf(a, a) = 0
  <2>1. Linf(a, a) = Most(a[1] - a[1], a[2] - a[2])
    BY <1>2
  <2>2. a[1] - a[1] = 0 /\ a[2] - a[2] = 0
    BY <1>1
  <2>3. Linf(a, a) = Most(0, 0)
    BY <2>1, <2>2
  <2> QED
    BY <1>3, <2>3
<1>7. Linf(a, b) = Linf(b, a)
  <2> DEFINE x == b[1] - a[1]
             y == b[2] - a[2]
  <2>1. x \in Int /\ y \in Int /\ a[1] - b[1] = -x /\ a[2] - b[2] = -y
    BY <1>1
  <2> HIDE DEF x, y
  <2>2. Linf(a, b) = Most(x, y)
    BY <1>2 DEF x, y
  <2>3. Linf(b, a) = Most(-x, -y)
    BY <1>2, <2>1
  <2> QED
    BY <1>3, <2>1, <2>2, <2>3
<1>8. Linf(a, c) <= Linf(a, b) + Linf(b, c)
  <2> DEFINE x == b[1] - a[1]
             y == b[2] - a[2]
             z == c[1] - b[1]
             w == c[2] - b[2]
  <2>1. x \in Int /\ y \in Int /\ z \in Int /\ w \in Int /\ c[1] - a[1] = x + z /\ c[2] - a[2] = y + w
    BY <1>1
  <2>2. Linf(a, b) = Most(x, y) /\ Linf(b, c) = Most(z, w)
    BY <1>2
  <2> HIDE DEF x, y, z, w
  <2>3. Linf(a, c) = Most(x + z, y + w)
    BY <1>2, <2>1
  <2> QED
    BY <1>4, <2>1, <2>2, <2>3
<1> QED
  BY <1>5, <1>6, <1>7, <1>8

-----------------------------------------------------------------------------
(* Deduplication *)

\* What has been kept of the first i waypoints stands for them.
StandsFor(kept, given, i, tolerance) ==
  /\ kept \in Seq(Plane) /\ kept # <<>> /\ kept[1] = given[1]
  /\ \A j \in 1..i : \E k \in 1..Len(kept) : Linf(given[j], kept[k]) <= tolerance
  /\ Linf(given[i], kept[Len(kept)]) <= tolerance

LEMMA Appending ==
  ASSUME NEW S, NEW s \in Seq(S), NEW e \in S
  PROVE  /\ Append(s, e) \in Seq(S) /\ Append(s, e) # <<>>
         /\ Len(Append(s, e)) = Len(s) + 1 /\ Append(s, e)[Len(s) + 1] = e
         /\ \A k \in 1..Len(s) : Append(s, e)[k] = s[k]
OBVIOUS

DistinctStep(before, w, tolerance) ==
  IF Linf(Last(before), w) > tolerance THEN Append(before, w) ELSE before

\* The loop of deduplication goes on step by step.
DistinctLoop(kept, given, tolerance) ==
  /\ kept[1] = <<given[1]>>
  /\ \A i \in 2..Len(given) : kept[i] = DistinctStep(kept[i - 1], given[i], tolerance)
  /\ Distinct(given, tolerance) = kept[Len(given)]

LEMMA DistinctIsLoop ==
  ASSUME NEW given \in Seq(Plane), given # <<>>, NEW tolerance \in Nat
  PROVE  \E kept : DistinctLoop(kept, given, tolerance)
<1> DEFINE n == Len(given)
           Op(before, i) == DistinctStep(before, given[i], tolerance)
           R(f) == [i \in 1..n |-> IF i = 1 THEN <<given[1]>> ELSE Op(f[i - 1], i)]
           kept == CHOOSE f : f = R(f)
<1>1. Distinct(given, tolerance) = kept[n]
  BY DEF Distinct, DistinctStep
<1>2. n \in Nat \ {0} /\ \A i \in 1..n : given[i] \in Plane
  BY EmptySeq, LenProperties, ElementOfSeq
<1>3. \E f : f = R(f)
  <2> DEFINE step == [i \in 2..n |-> [x \in Seq(Plane) |-> Op(x, i)]]
  <2>1. \A i \in 2..n : \A x \in Seq(Plane) : Op(x, i) \in Seq(Plane)
    <3> SUFFICES ASSUME NEW i \in 2..n, NEW x \in Seq(Plane) PROVE Op(x, i) \in Seq(Plane)
      OBVIOUS
    <3>1. given[i] \in Plane
      BY <1>2
    <3> HIDE DEF n
    <3> QED
      BY <3>1, Appending DEF DistinctStep
  <2> HIDE DEF n, Op
  <2>2. \A i \in 2..n : \A x \in Seq(Plane) : step[i][x] \in Seq(Plane)
    BY <2>1
  <2>3. <<given[1]>> \in Seq(Plane)
    BY <1>2
  <2> DEFINE S == Seq(Plane)
             base == <<given[1]>>
  <2> HIDE DEF step, S, base
  <2>a. base \in S /\ StaysIn(S, n, step)
    BY <2>2, <2>3 DEF S, base, StaysIn
  <2>b. \E f \in [1..n -> S] : GoesBy(f, n, base, step)
    BY <1>2, <2>a, Recursion
  <2>4. PICK f \in [1..n -> Seq(Plane)] :
          f[1] = <<given[1]>> /\ \A i \in 2..n : f[i] = step[i][f[i - 1]]
    BY <2>b DEF S, base, GoesBy
  <2>5. ASSUME NEW i \in 1..n PROVE f[i] = IF i = 1 THEN <<given[1]>> ELSE Op(f[i - 1], i)
    <3>1. CASE i = 1
      BY <2>4, <3>1
    <3>2. CASE i # 1
      <4>1. i \in 2..n /\ i - 1 \in 1..n /\ f[i - 1] \in Seq(Plane)
        BY <1>2, <3>2
      <4>2. step[i][f[i - 1]] = Op(f[i - 1], i)
        BY <4>1 DEF step
      <4> QED
        BY <2>4, <3>2, <4>1, <4>2
    <3> QED
      BY <3>1, <3>2
  <2>6. f = R(f)
    BY <2>5
  <2> QED
    BY <2>6
<1>4. kept = R(kept)
  BY <1>3
<1> HIDE DEF kept, n, Op
<1>5. kept[1] = <<given[1]>> /\ \A i \in 2..n : kept[i] = Op(kept[i - 1], i)
  BY <1>2, <1>4
<1> QED
  BY <1>1, <1>5 DEF DistinctLoop, n, Op

LEMMA DistinctStands ==
  ASSUME NEW given \in Seq(Plane), given # <<>>, NEW tolerance \in Nat
  PROVE  StandsFor(Distinct(given, tolerance), given, Len(given), tolerance)
<1> DEFINE n == Len(given)
           Op(before, i) == DistinctStep(before, given[i], tolerance)
<1>0. PICK kept : DistinctLoop(kept, given, tolerance)
  BY DistinctIsLoop
<1>1. Distinct(given, tolerance) = kept[n]
  BY <1>0 DEF DistinctLoop
<1>2. n \in Nat \ {0} /\ \A i \in 1..n : given[i] \in Plane
  BY EmptySeq, LenProperties, ElementOfSeq
<1>5. kept[1] = <<given[1]>> /\ \A i \in 2..n : kept[i] = Op(kept[i - 1], i)
  BY <1>0 DEF DistinctLoop
<1> HIDE DEF n, Op
<1> DEFINE T == {i \in 1..n : StandsFor(kept[i], given, i, tolerance)}
<1>6. 1 \in T
  <2>1. given[1] \in Plane /\ 1 \in 1..n
    BY <1>2
  <2>2. Linf(given[1], given[1]) = 0
    BY <2>1, LinfFacts
  <2>3. kept[1] \in Seq(Plane) /\ kept[1] # <<>> /\ Len(kept[1]) = 1 /\ kept[1][1] = given[1]
    BY <1>5, <2>1
  <2> QED
    BY <2>1, <2>2, <2>3 DEF StandsFor
<1>7. ASSUME NEW i \in 2..n, i - 1 \in T PROVE i \in T
  <2> DEFINE x == kept[i - 1]
  <2>1. /\ i \in 1..n /\ i - 1 \in 1..n /\ given[i] \in Plane /\ given[i - 1] \in Plane
        /\ \A j \in 1..i : j \in 1..i - 1 \/ j = i
    BY <1>2
  <2>2. StandsFor(x, given, i - 1, tolerance) /\ kept[i] = Op(x, i)
    BY <1>5, <1>7
  <2> HIDE DEF x, T
  <2>3. x \in Seq(Plane) /\ Len(x) \in Nat \ {0} /\ Last(x) = x[Len(x)] /\ x[Len(x)] \in Plane
    BY <2>2, EmptySeq, LenProperties, ElementOfSeq DEF StandsFor, Last
  <2>4. Linf(x[Len(x)], given[i]) = Linf(given[i], x[Len(x)]) /\ Linf(given[i], x[Len(x)]) \in Nat
        /\ Linf(given[i], given[i]) = 0
    BY <2>1, <2>3, LinfFacts
  <2>5. StandsFor(kept[i], given, i, tolerance)
    <3> USE DEF Op, DistinctStep
    <3>1. CASE Linf(x[Len(x)], given[i]) > tolerance
      <4> DEFINE y == Append(x, given[i])
      <4>1. /\ y \in Seq(Plane) /\ y # <<>> /\ Len(y) = Len(x) + 1 /\ y[Len(x) + 1] = given[i]
            /\ \A k \in 1..Len(x) : y[k] = x[k]
        BY <2>1, <2>3, Appending
      <4>2. kept[i] = y
        BY <2>2, <2>3, <3>1
      <4> HIDE DEF y
      <4>3. y[1] = given[1]
        BY <2>2, <2>3, <4>1 DEF StandsFor
      <4>4. Len(y) \in 1..Len(y) /\ \A k \in 1..Len(x) : k \in 1..Len(y)
        BY <2>3, <4>1
      <4>5. Linf(given[i], y[Len(y)]) <= tolerance
        BY <2>4, <4>1
      <4>6. ASSUME NEW j \in 1..i PROVE \E k \in 1..Len(y) : Linf(given[j], y[k]) <= tolerance
        <5>1. CASE j = i
          BY <4>4, <4>5, <5>1
        <5>2. CASE j # i
          <6>1. PICK k \in 1..Len(x) : Linf(given[j], x[k]) <= tolerance
            BY <2>1, <2>2, <5>2 DEF StandsFor
          <6> QED
            BY <4>1, <4>4, <6>1
        <5> QED
          BY <5>1, <5>2
      <4> QED
        BY <4>1, <4>2, <4>3, <4>5, <4>6 DEF StandsFor
    <3>2. CASE ~(Linf(x[Len(x)], given[i]) > tolerance)
      <4>1. kept[i] = x
        BY <2>2, <2>3, <3>2
      <4>2. Linf(given[i], x[Len(x)]) <= tolerance
        BY <2>4, <3>2
      <4>3. Len(x) \in 1..Len(x)
        BY <2>3
      <4> QED
        BY <2>1, <2>2, <2>3, <4>1, <4>2, <4>3 DEF StandsFor
    <3> QED
      BY <3>1, <3>2
  <2> QED
    BY <2>1, <2>5 DEF T
<1> HIDE DEF T
<1>8. n \in T
  <2>1. \A i \in 2..n : i - 1 \in T => i \in T
    BY <1>7
  <2>2. 1..n \subseteq T
    BY <1>2, <1>6, <2>1, Induction
  <2>3. n \in 1..n
    BY <1>2
  <2> QED
    BY <2>2, <2>3
<1> QED
  BY <1>1, <1>8 DEF T, n

LEMMA ButLast ==
  ASSUME NEW S, NEW s \in Seq(S), s # <<>>
  PROVE  /\ Len(s) \in Nat \ {0} /\ Last(s) = s[Len(s)] /\ Last(s) \in S
         /\ Front(s) \in Seq(S) /\ Len(Front(s)) = Len(s) - 1
         /\ \A k \in 1..Len(s) - 1 : Front(s)[k] = s[k]
<1>1. Len(s) \in Nat \ {0}
  BY EmptySeq, LenProperties
<1>2. Last(s) = s[Len(s)] /\ Last(s) \in S
  BY <1>1, ElementOfSeq DEF Last
<1>3. Front(s) \in Seq(S) /\ Len(Front(s)) = Len(s) - 1
  <2> DEFINE n == Len(s) - 1
  <2>1. 1 \in Int /\ n \in Int /\ n >= 0
    BY <1>1
  <2>2. \A i \in 1..n : s[i] \in S
    BY <1>1, ElementOfSeq
  <2> HIDE DEF n
  <2>4. /\ SubSeq(s, 1, n) \in Seq(S)
        /\ Len(SubSeq(s, 1, n)) = IF 1 <= n THEN n - 1 + 1 ELSE 0
    BY <2>1, <2>2, SubSeqProperties
  <2>5. Front(s) = SubSeq(s, 1, n)
    BY DEF Front, n
  <2>6. Len(SubSeq(s, 1, n)) = n
    BY <2>1, <2>4
  <2> QED
    BY <2>4, <2>5, <2>6 DEF n
<1>4. \A k \in 1..Len(s) - 1 : Front(s)[k] = s[k]
  BY <1>1 DEF Front
<1> QED
  BY <1>1, <1>2, <1>3, <1>4

\* What is left of waypoints by deduplication: at least their first one.
Deduplicated(given, left, tolerance) ==
  /\ left \in Seq(Plane) /\ left # <<>>
  /\ Len(left) >= 2 =>
       /\ left[1] = given[1]
       /\ Last(left) = Last(given)
       /\ \A i \in 1..Len(given) :
            \/ \E k \in 1..Len(left) : Linf(given[i], left[k]) <= tolerance
            \/ Linf(given[i], Last(left)) <= 2 * tolerance

LEMMA DeduplicationFaithful ==
  ASSUME NEW given \in Seq(Plane), given # <<>>, NEW tolerance \in Nat
  PROVE  Deduplicated(given, deduplicate_waypoints(given, tolerance), tolerance)
<1> DEFINE kept == Distinct(given, tolerance)
           left == deduplicate_waypoints(given, tolerance)
           n == Len(given)
           m == Len(kept)
           end == given[n]
<1>1. StandsFor(kept, given, n, tolerance)
  BY DistinctStands
<1>2. n \in Nat \ {0} /\ \A i \in 1..n : given[i] \in Plane
  BY EmptySeq, LenProperties, ElementOfSeq
<1>3. kept \in Seq(Plane) /\ kept # <<>>
  BY <1>1 DEF StandsFor
<1>4. left = IF m > 1 THEN Append(Front(kept), end) ELSE kept
  BY DEF deduplicate_waypoints
<1>5. end = Last(given) /\ end \in Plane
  BY <1>2 DEF Last
<1>6. /\ m \in Nat \ {0} /\ Front(kept) \in Seq(Plane) /\ Len(Front(kept)) = m - 1
      /\ \A k \in 1..m - 1 : Front(kept)[k] = kept[k]
  BY <1>3, ButLast
<1>7. \A k \in 1..m : kept[k] \in Plane
  BY <1>3, ElementOfSeq
<1> HIDE DEF kept, left, n, m, end
<1>8. CASE m > 1
  <2>1. left = Append(Front(kept), end)
    BY <1>4, <1>8
  <2>2. /\ left \in Seq(Plane) /\ left # <<>> /\ Len(left) = m /\ left[m] = end
        /\ \A k \in 1..m - 1 : left[k] = kept[k]
    <3>1. (m - 1) + 1 = m
      BY <1>6
    <3>2. /\ Append(Front(kept), end) \in Seq(Plane) /\ Append(Front(kept), end) # <<>>
          /\ Len(Append(Front(kept), end)) = (m - 1) + 1 /\ Append(Front(kept), end)[(m - 1) + 1] = end
          /\ \A k \in 1..m - 1 : Append(Front(kept), end)[k] = Front(kept)[k]
      BY <1>5, <1>6, Appending
    <3> QED
      BY <1>6, <2>1, <3>1, <3>2
  <2>3. left[1] = given[1]
    <3>1. 1 \in 1..m - 1
      BY <1>6, <1>8
    <3> QED
      BY <1>1, <2>2, <3>1 DEF StandsFor
  <2>4. Last(left) = end
    BY <2>2 DEF Last
  <2>5. ASSUME NEW i \in 1..n
        PROVE  \/ \E k \in 1..Len(left) : Linf(given[i], left[k]) <= tolerance
               \/ Linf(given[i], Last(left)) <= 2 * tolerance
    <3>1. PICK k \in 1..m : Linf(given[i], kept[k]) <= tolerance
      BY <1>1 DEF StandsFor, m
    <3>2. CASE k < m
      <4>1. k \in 1..m - 1 /\ k \in 1..Len(left)
        BY <1>6, <2>2, <3>2
      <4> QED
        BY <2>2, <3>1, <4>1
    <3>3. CASE k = m
      <4>1. Linf(end, kept[m]) <= tolerance
        BY <1>1 DEF StandsFor, m, end
      <4>2. m \in 1..m
        BY <1>6
      <4>3. given[i] \in Plane /\ end \in Plane /\ kept[m] \in Plane
        BY <1>2, <1>5, <1>7, <4>2
      <4>4. Linf(kept[m], end) = Linf(end, kept[m]) /\ Linf(end, kept[m]) \in Nat
            /\ Linf(given[i], kept[m]) \in Nat /\ Linf(given[i], end) \in Nat
        BY <4>3, LinfFacts
      <4>5. Linf(given[i], end) <= Linf(given[i], kept[m]) + Linf(kept[m], end)
        BY <4>3, LinfFacts
      <4>6. Linf(given[i], kept[m]) <= tolerance
        BY <3>1, <3>3
      <4> QED
        BY <2>4, <4>1, <4>4, <4>5, <4>6
    <3> QED
      BY <1>6, <3>2, <3>3
  <2> QED
    BY <1>5, <2>2, <2>3, <2>4, <2>5 DEF Deduplicated, left, n
<1>9. CASE ~(m > 1)
  <2>1. left = kept /\ ~(Len(left) >= 2)
    BY <1>4, <1>6, <1>9 DEF m
  <2> QED
    BY <1>3, <2>1 DEF Deduplicated, left
<1> QED
  BY <1>8, <1>9

-----------------------------------------------------------------------------
(* Segments *)

Turns(w, i) == Reverses(w[i - 1], w[i], w[i + 1])

\* The segments made of the first i waypoints are cut at c.
CutAt(segs, w, i, c) ==
  /\ c \in [0..Len(segs) -> 1..i] /\ c[0] = 1 /\ c[Len(segs)] = i
  /\ \A k \in 1..Len(segs) : c[k - 1] <= c[k] /\ segs[k] = SubSeq(w, c[k - 1], c[k])
  /\ \A k \in 1..Len(segs) - 1 : c[k - 1] < c[k]
  /\ \A j \in 2..i : j < Len(w) => (Turns(w, j) <=> \E k \in 1..Len(segs) - 1 : c[k] = j)
  /\ i = Len(w) => c[Len(segs) - 1] < i

Segmented(segs, w, i) ==
  /\ segs \in Seq(Seq(Plane)) /\ segs # <<>>
  /\ \E c : CutAt(segs, w, i, c)

LEMMA OneMore ==
  ASSUME NEW w \in Seq(Plane), NEW a \in 1..Len(w), NEW i \in 2..Len(w), a < i
  PROVE  Append(SubSeq(w, a, i - 1), w[i]) = SubSeq(w, a, i)
<1>1. Len(w) \in Nat /\ a \in Int /\ i \in Int /\ i - 1 \in Int
  BY LenProperties
<1>2. \A k \in a..i : w[k] \in Plane
  BY <1>1, ElementOfSeq
<1>3. \A k \in a..i - 1 : w[k] \in Plane
  BY <1>1, <1>2
<1>4. /\ SubSeq(w, a, i) \in Seq(Plane) /\ Len(SubSeq(w, a, i)) = IF a <= i THEN i - a + 1 ELSE 0
      /\ \A k \in 1..i - a + 1 : SubSeq(w, a, i)[k] = w[a + k - 1]
  BY <1>1, <1>2, SubSeqProperties
<1> DEFINE b == i - 1
           s == SubSeq(w, a, b)
           t == SubSeq(w, a, i)
<1>5. /\ s \in Seq(Plane) /\ Len(s) = IF a <= b THEN b - a + 1 ELSE 0
      /\ \A k \in 1..b - a + 1 : s[k] = w[a + k - 1]
  BY <1>1, <1>3, SubSeqProperties
<1>6. Len(s) = i - a /\ Len(t) = i - a + 1 /\ t \in Seq(Plane)
  BY <1>1, <1>4, <1>5
<1> HIDE DEF s, t
<1>7. w[i] \in Plane
  BY <1>1, <1>2
<1>8. /\ Append(s, w[i]) \in Seq(Plane) /\ Len(Append(s, w[i])) = i - a + 1
      /\ Append(s, w[i])[i - a + 1] = w[i] /\ \A k \in 1..i - a : Append(s, w[i])[k] = s[k]
  <2>1. /\ Append(s, w[i]) \in Seq(Plane) /\ Len(Append(s, w[i])) = Len(s) + 1
        /\ Append(s, w[i])[Len(s) + 1] = w[i] /\ \A k \in 1..Len(s) : Append(s, w[i])[k] = s[k]
    BY <1>5, <1>7, Appending
  <2> QED
    BY <1>6, <2>1
<1>9. ASSUME NEW k \in 1..i - a + 1 PROVE Append(s, w[i])[k] = t[k]
  <2>1. t[k] = w[a + k - 1]
    BY <1>4 DEF t
  <2>2. CASE k = i - a + 1
    <3>1. a + k - 1 = i
      BY <1>1, <2>2
    <3> QED
      BY <1>8, <2>1, <2>2, <3>1
  <2>3. CASE k # i - a + 1
    <3>1. k \in 1..i - a /\ k \in 1..b - a + 1
      BY <1>1, <2>3
    <3> QED
      BY <1>5, <1>8, <2>1, <3>1
  <2> QED
    BY <2>2, <2>3
<1>10. Append(s, w[i]) = t
  <2> DEFINE u == Append(s, w[i])
  <2>1. u \in Seq(Plane) /\ Len(u) = Len(t) /\ \A k \in 1..Len(t) : u[k] = t[k]
    BY <1>6, <1>8, <1>9
  <2> HIDE DEF u
  <2>2. u = t
    BY <1>6, <2>1, SeqEqual
  <2> QED
    BY <2>2 DEF u
<1> QED
  BY <1>10 DEF s, t

LEMMA OneAlone ==
  ASSUME NEW w \in Seq(Plane), NEW i \in 1..Len(w)
  PROVE  SubSeq(w, i, i) = <<w[i]>>
<1>1. i \in Int /\ w[i] \in Plane
  BY LenProperties, ElementOfSeq
<1>2. \A k \in i..i : w[k] \in Plane
  BY <1>1
<1>3. /\ SubSeq(w, i, i) \in Seq(Plane) /\ Len(SubSeq(w, i, i)) = IF i <= i THEN i - i + 1 ELSE 0
      /\ \A k \in 1..i - i + 1 : SubSeq(w, i, i)[k] = w[i + k - 1]
  BY <1>1, <1>2, SubSeqProperties
<1>4. i - i + 1 = 1 /\ i <= i /\ i + 1 - 1 = i
  BY <1>1
<1>5. Len(SubSeq(w, i, i)) = 1 /\ SubSeq(w, i, i)[1] = w[i] /\ SubSeq(w, i, i) \in Seq(Plane)
  BY <1>3, <1>4
<1> DEFINE one == <<w[i]>>
<1>6. one \in Seq(Plane) /\ Len(one) = 1 /\ one[1] = w[i]
  BY <1>1
<1> HIDE DEF one
<1>7. \A k \in 1..1 : SubSeq(w, i, i)[k] = one[k]
  <2> TAKE k \in 1..1
  <2>1. k = 1
    OBVIOUS
  <2> QED
    BY <1>5, <1>6, <2>1
<1>8. SubSeq(w, i, i) = one
  <2> DEFINE s == SubSeq(w, i, i)
  <2>1. s \in Seq(Plane) /\ Len(s) = 1 /\ \A k \in 1..1 : s[k] = one[k]
    BY <1>5, <1>7
  <2> HIDE DEF s
  <2>2. s = one
    BY <1>6, <2>1, SeqEqual
  <2> QED
    BY <2>2 DEF s
<1> QED
  BY <1>8 DEF one

Extended(segs, w, i) == Append(Front(segs), Append(Last(segs), w[i]))

\* Where the segments are cut when the last of them has gone on to i.
CutOn(segs, w, i, c, d) ==
  LET on == Extended(segs, w, i)
      m == Len(segs)
  IN  /\ on \in Seq(Seq(Plane)) /\ on # <<>> /\ Len(on) = m /\ m \in Nat \ {0}
      /\ d \in [0..m -> 1..i] /\ d[0] = 1 /\ d[m] = i
      /\ \A k \in 1..m : d[k - 1] < d[k] /\ on[k] = SubSeq(w, d[k - 1], d[k])
      /\ \A k \in 1..m - 1 : d[k] = c[k] /\ d[k] # i

CutBefore(segs, w, i, c) == CutAt(segs, w, i - 1, c)

\* A segment goes on to the next waypoint.
LEMMA GoesOn ==
  ASSUME NEW w \in Seq(Plane), NEW i \in 2..Len(w), NEW segs, NEW c,
         segs \in Seq(Seq(Plane)), segs # <<>>, CutBefore(segs, w, i, c)
  PROVE  \E d : CutOn(segs, w, i, c, d)
<1> DEFINE m == Len(segs)
           grown == Append(Last(segs), w[i])
           on == Append(Front(segs), grown)
           d == [k \in 0..m |-> IF k = m THEN i ELSE c[k]]
<1>1. /\ m \in Nat \ {0} /\ Last(segs) = segs[m] /\ Last(segs) \in Seq(Plane)
      /\ Front(segs) \in Seq(Seq(Plane)) /\ Len(Front(segs)) = m - 1
      /\ \A k \in 1..m - 1 : Front(segs)[k] = segs[k]
  BY ButLast
<1>2. i \in Nat /\ i - 1 \in Nat /\ i - 1 < i /\ w[i] \in Plane
  BY LenProperties, ElementOfSeq
<1>3. /\ c \in [0..m -> 1..i - 1] /\ c[0] = 1 /\ c[m] = i - 1
      /\ \A k \in 1..m : segs[k] = SubSeq(w, c[k - 1], c[k])
      /\ \A k \in 1..m - 1 : c[k - 1] < c[k]
  BY DEF CutBefore, CutAt, m
<1>4. grown \in Seq(Plane)
  BY <1>1, <1>2, Appending
<1> HIDE DEF m, grown
<1>5. /\ on \in Seq(Seq(Plane)) /\ on # <<>> /\ Len(on) = m /\ on[m] = grown
      /\ \A k \in 1..m - 1 : on[k] = segs[k]
  <2>1. /\ on \in Seq(Seq(Plane)) /\ on # <<>> /\ Len(on) = Len(Front(segs)) + 1
        /\ on[Len(Front(segs)) + 1] = grown /\ \A k \in 1..Len(Front(segs)) : on[k] = Front(segs)[k]
    <3> DEFINE S == Seq(Plane)
               f == Front(segs)
    <3>1. f \in Seq(S) /\ grown \in S
      BY <1>1, <1>4
    <3> HIDE DEF S, f
    <3>2. /\ Append(f, grown) \in Seq(S) /\ Append(f, grown) # <<>>
          /\ Len(Append(f, grown)) = Len(f) + 1 /\ Append(f, grown)[Len(f) + 1] = grown
          /\ \A k \in 1..Len(f) : Append(f, grown)[k] = f[k]
      BY <3>1, Appending
    <3> QED
      BY <3>2 DEF S, f
  <2> HIDE DEF on
  <2>2. Len(Front(segs)) + 1 = m
    BY <1>1
  <2> QED
    BY <1>1, <2>1, <2>2
<1> HIDE DEF on
<1>6. \A k \in 0..m - 1 : d[k] = c[k] /\ c[k] \in 1..i - 1
  <2> TAKE k \in 0..m - 1
  <2>1. k \in 0..m /\ k # m
    BY <1>1
  <2> QED
    BY <1>3, <2>1
<1>7. d[m] = i /\ m \in 0..m
  BY <1>1
<1>8. d \in [0..m -> 1..i]
  <2> SUFFICES ASSUME NEW k \in 0..m PROVE (IF k = m THEN i ELSE c[k]) \in 1..i
    OBVIOUS
  <2>1. c[k] \in 1..i - 1
    BY <1>3
  <2> QED
    BY <1>2, <2>1
<1>9. d[0] = 1
  BY <1>1, <1>3, <1>6
<1> HIDE DEF d
<1>10. ASSUME NEW k \in 1..m PROVE d[k - 1] < d[k] /\ on[k] = SubSeq(w, d[k - 1], d[k])
  <2>1. k - 1 \in 0..m - 1 /\ d[k - 1] = c[k - 1] /\ c[k - 1] \in 1..i - 1
    BY <1>1, <1>6
  <2>2. CASE k = m
    <3>1. on[k] = Append(SubSeq(w, c[m - 1], i - 1), w[i])
      BY <1>1, <1>3, <1>5, <2>2 DEF grown
    <3>2. c[m - 1] \in 1..Len(w) /\ c[m - 1] < i
      BY <1>2, <2>1, <2>2
    <3>3. Append(SubSeq(w, c[m - 1], i - 1), w[i]) = SubSeq(w, c[m - 1], i)
      BY <3>2, OneMore
    <3> QED
      BY <1>7, <2>1, <2>2, <3>1, <3>2, <3>3
  <2>3. CASE k # m
    <3>1. k \in 1..m - 1 /\ k \in 0..m - 1
      BY <1>1, <2>3
    <3> QED
      BY <1>3, <1>5, <1>6, <2>1, <3>1
  <2> QED
    BY <2>2, <2>3
<1>11. \A k \in 1..m - 1 : d[k] = c[k] /\ d[k] # i
  <2> TAKE k \in 1..m - 1
  <2>1. k \in 0..m - 1
    OBVIOUS
  <2> QED
    BY <1>2, <1>6, <2>1
<1>12. on = Extended(segs, w, i)
  BY DEF on, grown, Extended
<1>13. CutOn(segs, w, i, c, d)
  BY <1>1, <1>5, <1>7, <1>8, <1>9, <1>10, <1>11, <1>12 DEF CutOn, m
<1> QED
  BY <1>13

SegmentStep(segs, w, i) ==
  IF i < Len(w) /\ Reverses(w[i - 1], w[i], w[i + 1])
    THEN Split(Extended(segs, w, i), w, i) ELSE Extended(segs, w, i)

LEMMA SegmentedNext ==
  ASSUME NEW w \in Seq(Plane), NEW i \in 2..Len(w), NEW segs, Segmented(segs, w, i - 1)
  PROVE  Segmented(SegmentStep(segs, w, i), w, i)
<1> DEFINE m == Len(segs)
           on == Extended(segs, w, i)
           n == Len(w)
<1>1. PICK c : CutAt(segs, w, i - 1, c)
  BY DEF Segmented
<1>0. PICK d : CutOn(segs, w, i, c, d)
  <2>1. segs \in Seq(Seq(Plane)) /\ segs # <<>>
    BY DEF Segmented
  <2>2. CutBefore(segs, w, i, c)
    BY <1>1 DEF CutBefore
  <2> QED
    BY <2>1, <2>2, GoesOn
<1>2. /\ on \in Seq(Seq(Plane)) /\ on # <<>> /\ Len(on) = m /\ m \in Nat \ {0}
      /\ d \in [0..m -> 1..i] /\ d[0] = 1 /\ d[m] = i
      /\ \A k \in 1..m : d[k - 1] < d[k] /\ on[k] = SubSeq(w, d[k - 1], d[k])
      /\ \A k \in 1..m - 1 : d[k] = c[k] /\ d[k] # i
  BY <1>0 DEF CutOn
<1>3. i \in Nat /\ n \in Nat /\ i <= n /\ i >= 2 /\ i \in 1..i
  BY LenProperties DEF n
<1>4. \A j \in 2..i - 1 : j < n => (Turns(w, j) <=> \E k \in 1..m - 1 : c[k] = j)
  BY <1>1 DEF CutAt
<1> HIDE DEF m, on, n
<1>5. \A j \in 2..i - 1 : j < n => (Turns(w, j) <=> \E k \in 1..m - 1 : d[k] = j)
  <2> SUFFICES ASSUME NEW j \in 2..i - 1, j < n
               PROVE  Turns(w, j) <=> \E k \in 1..m - 1 : d[k] = j
    OBVIOUS
  <2>1. Turns(w, j) <=> \E k \in 1..m - 1 : c[k] = j
    BY <1>4
  <2>2. \A k \in 1..m - 1 : d[k] = c[k]
    BY <1>2
  <2> QED
    BY <2>1, <2>2
<1>6. \A k \in 0..m : d[k] \in 1..i
  BY <1>2
<1>7. CASE i < n /\ Turns(w, i)
  <2> DEFINE next == Append(on, <<w[i]>>)
             e == [k \in 0..m + 1 |-> IF k = m + 1 THEN i ELSE d[k]]
  <2>1. SegmentStep(segs, w, i) = next
    BY <1>7 DEF SegmentStep, Turns, Split, on, n
  <2>2. w[i] \in Plane
    BY <1>3, ElementOfSeq DEF n
  <2>3. <<w[i]>> = SubSeq(w, i, i)
    BY <1>3, OneAlone DEF n
  <2>4. /\ next \in Seq(Seq(Plane)) /\ next # <<>> /\ Len(next) = m + 1
        /\ next[m + 1] = <<w[i]>> /\ \A k \in 1..m : next[k] = on[k]
    <3> DEFINE S == Seq(Plane)
               new == <<w[i]>>
    <3>1. on \in Seq(S) /\ new \in S
      BY <1>2, <2>2
    <3> HIDE DEF S, new
    <3>2. /\ Append(on, new) \in Seq(S) /\ Append(on, new) # <<>>
          /\ Len(Append(on, new)) = Len(on) + 1 /\ Append(on, new)[Len(on) + 1] = new
          /\ \A k \in 1..Len(on) : Append(on, new)[k] = on[k]
      BY <3>1, Appending
    <3> QED
      BY <1>2, <3>2 DEF S, new
  <2>5. /\ e[m + 1] = i /\ \A k \in 0..m : e[k] = d[k]
        /\ e \in [0..m + 1 -> 1..i]
    <3>1. \A k \in 0..m : k # m + 1 /\ k \in 0..m + 1
      BY <1>2
    <3>2. m + 1 \in 0..m + 1
      BY <1>2
    <3>3. \A k \in 0..m + 1 : k # m + 1 => k \in 0..m
      BY <1>2
    <3> QED
      BY <1>3, <1>6, <3>1, <3>2, <3>3
  <2> HIDE DEF next, e
  <2>6. e[0] = 1
    <3>1. 0 \in 0..m
      BY <1>2
    <3> QED
      BY <1>2, <2>5, <3>1
  <2>7. ASSUME NEW k \in 1..m PROVE e[k - 1] < e[k] /\ next[k] = SubSeq(w, e[k - 1], e[k])
    <3>1. k \in 0..m /\ k - 1 \in 0..m
      BY <1>2
    <3> QED
      BY <1>2, <2>4, <2>5, <3>1
  <2>8. e[m] = i /\ next[m + 1] = SubSeq(w, e[m], e[m + 1])
    <3>1. m \in 0..m
      BY <1>2
    <3> QED
      BY <1>2, <2>3, <2>4, <2>5, <3>1
  <2>9. ASSUME NEW k \in 1..m + 1 PROVE e[k - 1] <= e[k] /\ next[k] = SubSeq(w, e[k - 1], e[k])
    <3>1. CASE k = m + 1
      <4>1. k - 1 = m
        BY <1>2, <3>1
      <4>2. e[k - 1] = i /\ e[k] = i
        BY <2>5, <2>8, <3>1, <4>1
      <4>3. next[k] = SubSeq(w, e[k - 1], e[k])
        BY <2>8, <3>1, <4>1
      <4> QED
        BY <1>3, <4>2, <4>3
    <3>2. CASE k # m + 1
      <4>1. k \in 1..m /\ k \in 0..m /\ k - 1 \in 0..m
        BY <1>2, <3>2
      <4>2. e[k - 1] \in Int /\ e[k] \in Int
        BY <1>6, <2>5, <4>1
      <4> QED
        BY <2>7, <4>1, <4>2
    <3> QED
      BY <3>1, <3>2
  <2>10. ASSUME NEW j \in 2..i PROVE Turns(w, j) <=> \E k \in 1..m : e[k] = j
    <3>1. CASE j = i
      <4>1. m \in 1..m
        BY <1>2
      <4> QED
        BY <1>7, <2>8, <3>1, <4>1
    <3>2. CASE j # i
      <4>1. j \in 2..i - 1 /\ j < n
        BY <1>3, <3>2
      <4>2. Turns(w, j) <=> \E k \in 1..m - 1 : d[k] = j
        BY <1>5, <4>1
      <4>3. \A k \in 1..m - 1 : k \in 1..m /\ e[k] = d[k]
        BY <1>2, <2>5
      <4>4. \A k \in 1..m : e[k] = j => k \in 1..m - 1
        <5> SUFFICES ASSUME NEW k \in 1..m, e[k] = j PROVE k \in 1..m - 1
          OBVIOUS
        <5>1. k # m
          BY <2>8, <3>2
        <5> QED
          BY <1>2, <5>1
      <4> QED
        BY <4>2, <4>3, <4>4
    <3> QED
      BY <3>1, <3>2
  <2>11. m + 1 - 1 = m
    BY <1>2
  <2>a. \A k \in 1..m : e[k - 1] < e[k]
    BY <2>7
  <2>b. i # Len(w)
    BY <1>3, <1>7 DEF n
  <2>c. e \in [0..Len(next) -> 1..i] /\ e[Len(next)] = i
    BY <2>4, <2>5
  <2>d. \A k \in 1..Len(next) : e[k - 1] <= e[k] /\ next[k] = SubSeq(w, e[k - 1], e[k])
    BY <2>4, <2>9
  <2>e. Len(next) - 1 = m
    <3>0. m \in Nat
      BY <1>2
    <3>1. Len(next) = m + 1
      BY <2>4
    <3> QED
      BY <3>0, <3>1
  <2> HIDE DEF Turns
  <2>12. CutAt(next, w, i, e)
    BY <2>6, <2>10, <2>a, <2>b, <2>c, <2>d, <2>e DEF CutAt
  <2> QED
    BY <2>1, <2>4, <2>12 DEF Segmented
<1>8. CASE ~(i < n /\ Turns(w, i))
  <2>1. SegmentStep(segs, w, i) = on
    BY <1>8 DEF SegmentStep, Turns, on, n
  <2>2. ASSUME NEW j \in 2..i, j < n PROVE Turns(w, j) <=> \E k \in 1..m - 1 : d[k] = j
    <3>1. CASE j = i
      BY <1>2, <1>8, <2>2, <3>1
    <3>2. CASE j # i
      <4>1. j \in 2..i - 1
        BY <1>3, <3>2
      <4> QED
        BY <1>5, <2>2, <4>1
    <3> QED
      BY <3>1, <3>2
  <2>3. \A k \in 1..m : d[k - 1] <= d[k]
    <3> TAKE k \in 1..m
    <3>1. k \in 0..m /\ k - 1 \in 0..m
      BY <1>2
    <3>2. d[k - 1] \in Int /\ d[k] \in Int
      BY <1>6, <3>1
    <3>3. d[k - 1] < d[k]
      BY <1>2
    <3> QED
      BY <3>2, <3>3
  <2>4. m \in 1..m /\ \A k \in 1..m - 1 : k \in 1..m
    BY <1>2
  <2>5. CutAt(on, w, i, d)
    BY <1>2, <2>2, <2>3, <2>4 DEF CutAt, n
  <2> QED
    BY <1>2, <2>1, <2>5 DEF Segmented
<1> QED
  BY <1>7, <1>8

LEMMA SegmentsCut ==
  ASSUME NEW w \in Seq(Plane), Len(w) >= 2
  PROVE  Segmented(segment_at_reversals(w), w, Len(w))
<1> DEFINE n == Len(w)
           first == << <<w[1]>> >>
           R(f) == [i \in 1..n |-> IF i = 1 THEN first ELSE SegmentStep(f[i - 1], w, i)]
           made == CHOOSE f : f = R(f)
<1>1. n \in Nat /\ n >= 2 /\ \A i \in 1..n : w[i] \in Plane
  BY LenProperties, ElementOfSeq
<1>2. CASE n < 3
  <2> DEFINE segs == <<w>>
             c == [k \in 0..1 |-> IF k = 0 THEN 1 ELSE 2]
  <2>1. segment_at_reversals(w) = segs
    BY <1>2 DEF segment_at_reversals
  <2>2. segs \in Seq(Seq(Plane)) /\ segs # <<>> /\ Len(segs) = 1 /\ segs[1] = w
    OBVIOUS
  <2>3. n = 2
    <3> HIDE DEF n
    <3>1. n \in Nat /\ n >= 2 /\ n < 3
      BY <1>1, <1>2
    <3> QED
      BY <3>1
  <2>4. w = SubSeq(w, 1, 2)
    BY <2>3, SubSeqFull
  <2>5. c \in [0..1 -> 1..2] /\ c[0] = 1 /\ c[1] = 2
    OBVIOUS
  <2> HIDE DEF segs, c
  <2>6. 1..1 = {1} /\ 1..0 = {} /\ 2..2 = {2} /\ 1 - 1 = 0
    OBVIOUS
  <2>7. \A k \in 1..1 : c[k - 1] <= c[k] /\ segs[k] = SubSeq(w, c[k - 1], c[k])
    <3> TAKE k \in 1..1
    <3>1. k = 1 /\ k - 1 = 0
      OBVIOUS
    <3>2. c[k - 1] = 1 /\ c[k] = 2
      BY <2>5, <3>1
    <3>3. segs[k] = SubSeq(w, 1, 2)
      BY <2>2, <2>4, <3>1
    <3> QED
      BY <3>2, <3>3
  <2>8. CutAt(segs, w, 2, c)
    BY <2>2, <2>3, <2>5, <2>6, <2>7 DEF CutAt
  <2> QED
    BY <2>1, <2>2, <2>3, <2>8 DEF Segmented
<1>3. CASE ~(n < 3)
  <2>1. segment_at_reversals(w) = made[n]
    BY <1>3 DEF segment_at_reversals, SegmentStep, Extended
  <2> DEFINE S == Seq(Seq(Plane)) \ {<<>>}
             step == [i \in 2..n |-> [x \in S |-> SegmentStep(x, w, i)]]
  <2>2. ASSUME NEW i \in 2..n, NEW x \in S PROVE SegmentStep(x, w, i) \in S
    <3> DEFINE W == Seq(Plane)
               end == Append(Last(x), w[i])
               on == Append(Front(x), end)
               more == Append(on, <<w[i]>>)
    <3>1. w[i] \in Plane
      BY <1>1
    <3>2. x \in Seq(W) /\ x # <<>>
      OBVIOUS
    <3>3. Last(x) \in W /\ Front(x) \in Seq(W)
      <4> HIDE DEF W
      <4> QED
        BY <3>2, ButLast
    <3>4. end \in W /\ <<w[i]>> \in W
      BY <3>1, <3>3, Appending
    <3> HIDE DEF W, end
    <3>5. on \in Seq(W) /\ on # <<>>
      BY <3>3, <3>4, Appending
    <3> HIDE DEF on
    <3>6. more \in Seq(W) /\ more # <<>>
      BY <3>4, <3>5, Appending
    <3>7. SegmentStep(x, w, i) \in {on, more}
      BY DEF SegmentStep, Extended, Split, on, end
    <3> HIDE DEF more
    <3> QED
      BY <3>5, <3>6, <3>7 DEF W
  <2>3. first \in S
    BY <1>1
  <2> HIDE DEF S, first, n
  <2>4. StaysIn(S, n, step)
    BY <2>2 DEF StaysIn
  <2> HIDE DEF step
  <2>5. n \in Nat \ {0} /\ n >= 3
    BY <1>1, <1>3
  <2>6. PICK f \in [1..n -> S] : GoesBy(f, n, first, step)
    BY <2>3, <2>4, <2>5, Recursion
  <2>7. ASSUME NEW i \in 1..n PROVE f[i] = IF i = 1 THEN first ELSE SegmentStep(f[i - 1], w, i)
    <3>1. CASE i = 1
      BY <2>6, <3>1 DEF GoesBy
    <3>2. CASE i # 1
      <4>1. i \in 2..n /\ i - 1 \in 1..n /\ f[i - 1] \in S
        BY <2>5, <3>2
      <4>2. step[i][f[i - 1]] = SegmentStep(f[i - 1], w, i)
        BY <4>1 DEF step
      <4> QED
        BY <2>6, <3>2, <4>1, <4>2 DEF GoesBy
    <3> QED
      BY <3>1, <3>2
  <2>8. f = R(f)
    BY <2>7
  <2>9. made = R(made)
    BY <2>8
  <2> HIDE DEF made
  <2>10. made[1] = first /\ \A i \in 2..n : made[i] = SegmentStep(made[i - 1], w, i)
    BY <2>5, <2>9
  <2> DEFINE T == {i \in 1..n : Segmented(made[i], w, i)}
  <2>11. 1 \in T
    <3> DEFINE c == [k \in 0..1 |-> 1]
    <3>1. first \in Seq(Seq(Plane)) /\ first # <<>> /\ Len(first) = 1 /\ first[1] = <<w[1]>>
      BY <1>1, <2>5 DEF first
    <3>2. c \in [0..1 -> 1..1] /\ c[0] = 1 /\ c[1] = 1
      OBVIOUS
    <3> HIDE DEF c
    <3>3. SubSeq(w, 1, 1) = <<w[1]>>
      <4>1. 1 \in 1..Len(w)
        BY <2>5 DEF n
      <4> QED
        BY <4>1, OneAlone
    <3>4. 1..1 = {1} /\ 1..0 = {} /\ 2..1 = {} /\ 1 - 1 = 0
      OBVIOUS
    <3>5. \A k \in 1..1 : c[k - 1] <= c[k] /\ first[k] = SubSeq(w, c[k - 1], c[k])
      <4> TAKE k \in 1..1
      <4>1. k = 1 /\ k - 1 = 0
        OBVIOUS
      <4>2. c[k - 1] = 1 /\ c[k] = 1
        BY <3>2, <4>1
      <4>3. first[k] = SubSeq(w, 1, 1)
        BY <3>1, <3>3, <4>1
      <4> QED
        BY <4>2, <4>3
    <3>6. 1 # Len(w)
      <4>1. n # 1
        BY <2>5
      <4> QED
        BY <4>1 DEF n
    <3>7. CutAt(first, w, 1, c)
      BY <3>1, <3>2, <3>4, <3>5, <3>6 DEF CutAt
    <3>8. 1 \in 1..n
      BY <2>5
    <3> QED
      BY <2>10, <3>1, <3>7, <3>8 DEF Segmented
  <2>12. ASSUME NEW i \in 2..n, i - 1 \in T PROVE i \in T
    <3>1. i \in 2..Len(w) /\ i \in 1..n
      BY <2>5 DEF n
    <3>2. Segmented(made[i - 1], w, i - 1)
      BY <2>12
    <3>3. Segmented(SegmentStep(made[i - 1], w, i), w, i)
      BY <3>1, <3>2, SegmentedNext
    <3> QED
      BY <2>10, <3>1, <3>3
  <2> HIDE DEF T
  <2>13. \A i \in 2..n : i - 1 \in T => i \in T
    BY <2>12
  <2>14. 1..n \subseteq T
    BY <2>5, <2>11, <2>13, Induction
  <2>15. n \in T
    BY <2>5, <2>14
  <2> QED
    BY <2>1, <2>15 DEF T, n
<1> QED
  BY <1>2, <1>3

\* The cuts are where the lengths of the segments put them.
LEMMA CutsByLength ==
  ASSUME NEW w \in Seq(Plane), NEW segs, Segmented(segs, w, Len(w)), Len(w) >= 2
  PROVE  LET cut[k \in 0..Len(segs)] == IF k = 0 THEN 1 ELSE cut[k - 1] + Len(segs[k]) - 1
         IN  CutAt(segs, w, Len(w), cut)
<1> DEFINE m == Len(segs)
           n == Len(w)
           R(f) == [k \in 0..m |-> IF k = 0 THEN 1 ELSE f[k - 1] + Len(segs[k]) - 1]
           cut == CHOOSE f : f = R(f)
<1>1. PICK c : CutAt(segs, w, n, c)
  BY DEF Segmented
<1>2. m \in Nat \ {0} /\ n \in Nat
  <2>1. segs \in Seq(Seq(Plane)) /\ segs # <<>>
    BY DEF Segmented
  <2> QED
    BY <2>1, EmptySeq, LenProperties
<1>3. /\ c \in [0..m -> 1..n] /\ c[0] = 1
      /\ \A k \in 1..m : c[k - 1] <= c[k] /\ segs[k] = SubSeq(w, c[k - 1], c[k])
  BY <1>1 DEF CutAt
<1>4. ASSUME NEW k \in 1..m PROVE c[k] = c[k - 1] + Len(segs[k]) - 1 /\ c[k - 1] \in Int /\ Len(segs[k]) \in Int
  <2> DEFINE a == c[k - 1]
             b == c[k]
  <2>1. a \in 1..n /\ b \in 1..n
    <3>1. k - 1 \in 0..m /\ k \in 0..m
      BY <1>2
    <3> QED
      BY <1>3, <3>1
  <2>2. a <= b /\ segs[k] = SubSeq(w, a, b)
    BY <1>3
  <2> HIDE DEF a, b
  <2>3. a \in Int /\ b \in Int /\ \A j \in a..b : w[j] \in Plane
    <3>1. \A j \in a..b : j \in 1..n
      BY <1>2, <2>1
    <3> QED
      BY <2>1, <3>1, ElementOfSeq DEF n
  <2>4. Len(SubSeq(w, a, b)) = IF a <= b THEN b - a + 1 ELSE 0
    BY <2>3, SubSeqProperties
  <2>5. b = a + Len(segs[k]) - 1 /\ Len(segs[k]) \in Int
    BY <2>2, <2>3, <2>4
  <2> QED
    BY <2>3, <2>5 DEF a, b
<1> HIDE DEF m, n
<1>5. c = R(c)
  <2>1. \A k \in 0..m : c[k] = IF k = 0 THEN 1 ELSE c[k - 1] + Len(segs[k]) - 1
    <3> TAKE k \in 0..m
    <3>1. CASE k = 0
      BY <1>3, <3>1
    <3>2. CASE k # 0
      <4>1. k \in 1..m
        BY <1>2, <3>2
      <4> QED
        BY <1>4, <3>2, <4>1
    <3> QED
      BY <3>1, <3>2
  <2>2. c = [k \in 0..m |-> c[k]]
    BY <1>3
  <2> QED
    BY <2>1, <2>2
<1>6. cut = R(cut)
  BY <1>5
<1> HIDE DEF cut
<1> DEFINE T == {j \in 1..m + 1 : cut[j - 1] = c[j - 1]}
<1>7. 1 \in T
  <2>1. 1 \in 1..m + 1 /\ 1 - 1 = 0 /\ 0 \in 0..m
    BY <1>2
  <2>2. cut[0] = 1
    BY <1>6, <2>1
  <2> QED
    BY <1>3, <2>1, <2>2
<1>8. ASSUME NEW j \in 2..m + 1, j - 1 \in T PROVE j \in T
  <2> DEFINE k == j - 1
  <2>1. k \in 1..m /\ k \in 0..m /\ k # 0 /\ j \in 1..m + 1
    BY <1>2
  <2>2. cut[k - 1] = c[k - 1]
    BY <1>8
  <2> HIDE DEF k
  <2>3. cut[k] = cut[k - 1] + Len(segs[k]) - 1
    BY <1>6, <2>1
  <2>4. cut[k] = c[k]
    BY <1>4, <2>1, <2>2, <2>3
  <2> QED
    BY <2>1, <2>4 DEF k
<1> HIDE DEF T
<1>9. 1..m + 1 \subseteq T
  <2>1. \A j \in 2..m + 1 : j - 1 \in T => j \in T
    BY <1>8
  <2>2. m + 1 \in Nat
    BY <1>2
  <2> DEFINE h == m + 1
  <2>3. h \in Nat /\ \A j \in 2..h : j - 1 \in T => j \in T
    BY <2>1, <2>2
  <2> HIDE DEF h
  <2>4. 1..h \subseteq T
    BY <1>7, <2>3, Induction
  <2> QED
    BY <2>4 DEF h
<1>10. \A k \in 0..m : cut[k] = c[k]
  <2> TAKE k \in 0..m
  <2>1. k + 1 \in 1..m + 1 /\ (k + 1) - 1 = k
    BY <1>2
  <2> QED
    BY <1>9, <2>1 DEF T
<1>11. cut = c
  <2>1. cut = [k \in 0..m |-> cut[k]]
    BY <1>6
  <2>2. c = [k \in 0..m |-> c[k]]
    BY <1>3
  <2> QED
    BY <1>10, <2>1, <2>2
<1> QED
  BY <1>1, <1>11 DEF cut, m, n

-----------------------------------------------------------------------------
(* Colinearization *)

\* The indexes kept of the first i waypoints, and what has been skipped since.
KeepsClose(x, w, i, tolerance) ==
  /\ x \in Seq(Nat) /\ x # <<>> /\ x[1] = 1
  /\ \A p \in 1..Len(x) : x[p] \in 1..i
  /\ \A p \in 1..Len(x) - 1 : CylinderExtends(w, x[p], x[p + 1] - 1, tolerance)
  /\ i < Len(w) => CylinderExtends(w, x[Len(x)], i, tolerance)
  /\ i = Len(w) => x[Len(x)] = i

ColinearStep(x, w, i, tolerance) ==
  IF i < Len(w) /\ CylinderExtends(w, Last(x), i, tolerance) THEN x ELSE Append(x, i)

LEMMA KeepsCloseNext ==
  ASSUME NEW w \in Seq(Plane), NEW i \in 2..Len(w), NEW tolerance, NEW x,
         KeepsClose(x, w, i - 1, tolerance)
  PROVE  KeepsClose(ColinearStep(x, w, i, tolerance), w, i, tolerance)
<1> DEFINE n == Len(w)
           m == Len(x)
           y == Append(x, i)
<1>1. n \in Nat /\ i \in Nat /\ i <= n /\ i - 1 < n /\ i - 1 \in Nat
  BY LenProperties
<1>2. x \in Seq(Nat) /\ x # <<>> /\ x[1] = 1 /\ \A p \in 1..m : x[p] \in 1..i - 1
  BY DEF KeepsClose
<1>3. \A p \in 1..m - 1 : CylinderExtends(w, x[p], x[p + 1] - 1, tolerance)
  BY DEF KeepsClose
<1>4. CylinderExtends(w, x[m], i - 1, tolerance)
  BY <1>1 DEF KeepsClose
<1>5. m \in Nat \ {0} /\ Last(x) = x[m]
  BY <1>2, EmptySeq, LenProperties DEF Last
<1>6. /\ y \in Seq(Nat) /\ y # <<>> /\ Len(y) = m + 1 /\ y[m + 1] = i
      /\ \A p \in 1..m : y[p] = x[p]
  BY <1>1, <1>2, Appending
<1> HIDE DEF n, m, y
<1>7. CASE i < n /\ CylinderExtends(w, x[m], i, tolerance)
  <2>1. ColinearStep(x, w, i, tolerance) = x
    BY <1>5, <1>7 DEF ColinearStep, n
  <2>2. \A p \in 1..m : x[p] \in 1..i
    BY <1>1, <1>2
  <2>3. i # Len(w)
    BY <1>1, <1>7 DEF n
  <2> QED
    BY <1>2, <1>3, <1>7, <2>1, <2>2, <2>3 DEF KeepsClose, m, n
<1>8. CASE ~(i < n /\ CylinderExtends(w, x[m], i, tolerance))
  <2>1. ColinearStep(x, w, i, tolerance) = y
    BY <1>5, <1>8 DEF ColinearStep, n, y
  <2>2. y[1] = 1
    <3>1. 1 \in 1..m
      BY <1>5
    <3> QED
      BY <1>2, <1>6, <3>1
  <2>3. ASSUME NEW p \in 1..m + 1 PROVE y[p] \in 1..i
    <3>1. CASE p = m + 1
      BY <1>1, <1>6, <3>1
    <3>2. CASE p # m + 1
      <4>1. p \in 1..m
        BY <1>5, <3>2
      <4>2. y[p] \in 1..i - 1
        BY <1>2, <1>6, <4>1
      <4> QED
        BY <1>1, <4>2
    <3> QED
      BY <3>1, <3>2
  <2>4. ASSUME NEW p \in 1..m PROVE CylinderExtends(w, y[p], y[p + 1] - 1, tolerance)
    <3>1. CASE p = m
      BY <1>4, <1>6, <3>1
    <3>2. CASE p # m
      <4>1. p \in 1..m - 1 /\ p \in 1..m /\ p + 1 \in 1..m
        BY <1>5, <3>2
      <4> QED
        BY <1>3, <1>6, <4>1
    <3> QED
      BY <3>1, <3>2
  <2>5. CylinderExtends(w, i, i, tolerance)
    <3>1. i + 1..i = {}
      BY <1>1
    <3> QED
      BY <3>1 DEF CylinderExtends
  <2>6. (m + 1) - 1 = m
    BY <1>5
  <2> QED
    BY <1>6, <2>1, <2>2, <2>3, <2>4, <2>5, <2>6 DEF KeepsClose
<1> QED
  BY <1>7, <1>8

\* What a line stands for of the waypoints given for it.
ReplacedClosely(w, path, tolerance) ==
  \A i \in 1..Len(w) : \E j \in 1..Len(path) - 1 :
    \/ w[i] \in {path[j], path[j + 1]}
    \/ within_colinearization_tolerance(w[i], path[j], path[j + 1], tolerance)

\* The line ends where the waypoints do.
EndsAlike(w, path) == path \in Seq(Plane) /\ Len(path) >= 2 /\ path[Len(path)] = w[Len(w)]

LEMMA KeptIsClose ==
  ASSUME NEW w \in Seq(Plane), Len(w) >= 2, NEW tolerance, NEW x,
         KeepsClose(x, w, Len(w), tolerance)
  PROVE  LET path == [k \in 1..Len(x) |-> w[x[k]]] IN
         ReplacedClosely(w, path, tolerance) /\ EndsAlike(w, path)
<1> DEFINE n == Len(w)
           m == Len(x)
           path == [k \in 1..m |-> w[x[k]]]
<1>1. n \in Nat /\ n >= 2
  BY LenProperties
<1>2. x \in Seq(Nat) /\ x # <<>> /\ x[1] = 1 /\ x[m] = n
  BY DEF KeepsClose
<1>3. /\ \A p \in 1..m : x[p] \in 1..n
      /\ \A p \in 1..m - 1 : CylinderExtends(w, x[p], x[p + 1] - 1, tolerance)
  BY DEF KeepsClose
<1>4. m \in Nat /\ m >= 2
  <2>1. m \in Nat \ {0}
    BY <1>2, EmptySeq, LenProperties
  <2>2. m # 1
    BY <1>1, <1>2
  <2> HIDE DEF m
  <2> QED
    BY <2>1, <2>2
<1>5. path \in Seq({w[x[k]] : k \in 1..m}) /\ Len(path) = m /\ \A k \in 1..m : path[k] = w[x[k]]
  BY <1>4
<1> HIDE DEF n, m, path
<1>6. ASSUME NEW i \in 1..n
      PROVE  \E j \in 1..m - 1 :
               \/ w[i] \in {path[j], path[j + 1]}
               \/ within_colinearization_tolerance(w[i], path[j], path[j + 1], tolerance)
  <2> DEFINE U == {p \in 1..m : x[p] <= i}
  <2>1. U \subseteq 0..m /\ U # {}
    <3>1. 1 \in U
      BY <1>2, <1>4
    <3> QED
      BY <1>4, <3>1
  <2>2. PICK p \in U : \A q \in U : q <= p
    BY <1>4, <2>1, GreatestNatural
  <2>3. p \in 1..m /\ x[p] <= i /\ x[p] \in 1..n
    BY <1>3, <2>2
  <2>4. CASE p = m
    <3>1. i = n
      BY <1>1, <1>2, <2>3, <2>4
    <3>2. m - 1 \in 1..m - 1 /\ (m - 1) + 1 = m /\ m \in 1..m
      BY <1>4
    <3>3. w[i] = path[(m - 1) + 1]
      BY <1>2, <1>5, <3>1, <3>2
    <3> QED
      BY <3>2, <3>3
  <2>5. CASE p # m
    <3>1. p \in 1..m - 1 /\ p + 1 \in 1..m /\ ~(p + 1 <= p)
      BY <1>4, <2>3, <2>5
    <3>2. ~(x[p + 1] <= i) /\ x[p + 1] \in 1..n
      BY <1>3, <2>2, <3>1
    <3>3. path[p] = w[x[p]] /\ path[p + 1] = w[x[p + 1]]
      BY <1>5, <2>3, <3>1
    <3>4. CASE x[p] = i
      BY <3>1, <3>3, <3>4
    <3>5. CASE x[p] # i
      <4> DEFINE a == x[p]
                 b == x[p + 1] - 1
      <4>1. CylinderExtends(w, a, b, tolerance)
        BY <1>3, <3>1
      <4>2. i \in a + 1..b
        BY <2>3, <3>2, <3>5
      <4>3. b + 1 = x[p + 1]
        BY <3>2
      <4> HIDE DEF b
      <4>4. within_colinearization_tolerance(w[i], w[a], w[b + 1], tolerance)
        BY <4>1, <4>2 DEF CylinderExtends
      <4> QED
        BY <3>1, <3>3, <4>3, <4>4
    <3> QED
      BY <3>4, <3>5
  <2> QED
    BY <2>4, <2>5
<1>7. ReplacedClosely(w, path, tolerance)
  BY <1>5, <1>6 DEF ReplacedClosely, n
<1>8. EndsAlike(w, path)
  <2>1. {w[x[k]] : k \in 1..m} \subseteq Plane
    BY <1>3, ElementOfSeq DEF n
  <2>2. path \in Seq(Plane)
    BY <1>5, <2>1
  <2>3. m \in 1..m
    BY <1>4
  <2> QED
    BY <1>2, <1>4, <1>5, <2>2, <2>3 DEF EndsAlike, n
<1> QED
  BY <1>7, <1>8 DEF path, m

LEMMA ColinearizedClosely ==
  ASSUME NEW w \in Seq(Plane), Len(w) >= 2, NEW tolerance \in Nat
  PROVE  /\ ReplacedClosely(w, apply_colinearization(w, tolerance), tolerance)
         /\ EndsAlike(w, apply_colinearization(w, tolerance))
<1> DEFINE n == Len(w)
           R(f) == [i \in 1..n |-> IF i = 1 THEN <<1>> ELSE ColinearStep(f[i - 1], w, i, tolerance)]
           indexes == CHOOSE f : f = R(f)
           kept == ColinearKept(w, tolerance)
<1>1. n \in Nat /\ n >= 2
  BY LenProperties
<1>2. apply_colinearization(w, tolerance) = [k \in 1..Len(kept) |-> w[kept[k]]]
  BY DEF apply_colinearization
<1>3. CASE n <= 2 \/ tolerance <= 0
  <2>1. kept = [i \in 1..n |-> i]
    BY <1>3 DEF ColinearKept
  <2>2. Len(kept) = n /\ \A k \in 1..n : kept[k] = k
    BY <1>1, <2>1
  <2> DEFINE path == [k \in 1..n |-> w[kept[k]]]
  <2>3. Len(path) = n /\ \A k \in 1..n : path[k] = w[k]
    BY <1>1, <2>2
  <2>4. apply_colinearization(w, tolerance) = path
    BY <1>2, <2>2
  <2> HIDE DEF path, n, kept
  <2>5. ASSUME NEW i \in 1..n PROVE \E j \in 1..n - 1 : w[i] \in {path[j], path[j + 1]}
    <3>1. CASE i < n
      <4>1. i \in 1..n - 1
        BY <1>1, <3>1
      <4> QED
        BY <2>3, <4>1
    <3>2. CASE ~(i < n)
      <4>1. n - 1 \in 1..n - 1 /\ (n - 1) + 1 = i
        BY <1>1, <3>2
      <4> QED
        BY <2>3, <4>1
    <3> QED
      BY <3>1, <3>2
  <2>6. EndsAlike(w, path)
    <3>1. path \in Seq(Plane)
      <4>1. \A k \in 1..n : path[k] \in Plane
        BY <2>3, ElementOfSeq DEF n
      <4>2. path = [k \in 1..n |-> path[k]]
        BY DEF path
      <4> QED
        BY <1>1, <4>1, <4>2
    <3> QED
      BY <1>1, <2>3, <3>1 DEF EndsAlike, n
  <2> QED
    BY <2>3, <2>4, <2>5, <2>6 DEF ReplacedClosely, n
<1>4. CASE ~(n <= 2 \/ tolerance <= 0)
  <2>1. kept = indexes[n]
    BY <1>4 DEF ColinearKept, ColinearStep
  <2> DEFINE S == Seq(Nat)
             first == <<1>>
             step == [i \in 2..n |-> [x \in S |-> ColinearStep(x, w, i, tolerance)]]
  <2>2. ASSUME NEW i \in 2..n, NEW x \in S PROVE ColinearStep(x, w, i, tolerance) \in S
    BY <1>1, Appending DEF ColinearStep
  <2>3. first \in S
    OBVIOUS
  <2> HIDE DEF S, first, n, kept
  <2>4. StaysIn(S, n, step)
    BY <2>2 DEF StaysIn
  <2> HIDE DEF step
  <2>5. n \in Nat \ {0} /\ n >= 2
    BY <1>1
  <2>6. PICK f \in [1..n -> S] : GoesBy(f, n, first, step)
    BY <2>3, <2>4, <2>5, Recursion
  <2>7. ASSUME NEW i \in 1..n PROVE f[i] = IF i = 1 THEN first ELSE ColinearStep(f[i - 1], w, i, tolerance)
    <3>1. CASE i = 1
      BY <2>6, <3>1 DEF GoesBy
    <3>2. CASE i # 1
      <4>1. i \in 2..n /\ i - 1 \in 1..n /\ f[i - 1] \in S
        BY <2>5, <3>2
      <4>2. step[i][f[i - 1]] = ColinearStep(f[i - 1], w, i, tolerance)
        BY <4>1 DEF step
      <4> QED
        BY <2>6, <3>2, <4>1, <4>2 DEF GoesBy
    <3> QED
      BY <3>1, <3>2
  <2>8. f = R(f)
    BY <2>7 DEF first
  <2>9. indexes = R(indexes)
    BY <2>8
  <2> HIDE DEF indexes
  <2>10. indexes[1] = first /\ \A i \in 2..n : indexes[i] = ColinearStep(indexes[i - 1], w, i, tolerance)
    BY <2>5, <2>9 DEF first
  <2> DEFINE T == {i \in 1..n : KeepsClose(indexes[i], w, i, tolerance)}
  <2>11. 1 \in T
    <3>1. first \in Seq(Nat) /\ first # <<>> /\ Len(first) = 1 /\ first[1] = 1
      BY DEF first
    <3>2. CylinderExtends(w, 1, 1, tolerance)
      <4>1. 1 + 1..1 = {}
        OBVIOUS
      <4> QED
        BY <4>1 DEF CylinderExtends
    <3>3. 1 # n /\ 1 \in 1..n
      BY <2>5
    <3>4. \A p \in 1..1 : first[p] \in 1..1
      BY <3>1
    <3>5. 1 - 1 = 0 /\ 1..0 = {}
      OBVIOUS
    <3>6. KeepsClose(first, w, 1, tolerance)
      BY <3>1, <3>2, <3>3, <3>4, <3>5 DEF KeepsClose, n
    <3> QED
      BY <2>10, <3>3, <3>6
  <2>12. ASSUME NEW i \in 2..n, i - 1 \in T PROVE i \in T
    <3>1. i \in 2..Len(w) /\ i \in 1..n
      BY <2>5 DEF n
    <3>2. KeepsClose(indexes[i - 1], w, i - 1, tolerance)
      BY <2>12
    <3>3. KeepsClose(ColinearStep(indexes[i - 1], w, i, tolerance), w, i, tolerance)
      BY <3>1, <3>2, KeepsCloseNext
    <3> QED
      BY <2>10, <3>1, <3>3
  <2> HIDE DEF T
  <2>13. \A i \in 2..n : i - 1 \in T => i \in T
    BY <2>12
  <2>14. 1..n \subseteq T
    BY <2>5, <2>11, <2>13, Induction
  <2>15. n \in T
    BY <2>5, <2>14
  <2>16. KeepsClose(kept, w, Len(w), tolerance)
    BY <2>1, <2>15 DEF T, n
  <2> QED
    BY <1>2, <2>16, KeptIsClose
<1> QED
  BY <1>3, <1>4

-----------------------------------------------------------------------------
(* The service *)

Made(expected) == [path : {expected[k] : k \in 1..Len(expected)}, duration : Durations]

Received(outcome, r) == outcome = [receiver |-> <<r>>, error |-> FALSE]

\* A generator has failed, or has produced trajectories for the first segments.
Produces(outcome, expected) ==
  \/ outcome = [receiver |-> <<>>, error |-> TRUE]
  \/ \E r \in Seq(Made(expected)) :
       /\ Received(outcome, r) /\ Len(r) <= Len(expected)
       /\ \A k \in 1..Len(r) : r[k].path = expected[k]

Whole(outcome, expected) == \A r : Received(outcome, r) => Len(r) = Len(expected)

Straightened == [k \in 1..Len(segments) |-> apply_colinearization(segments[k], Diameter)]

Stands(outcome, generator, expected) ==
  IF generator \in config.generators THEN Produces(outcome, expected) ELSE outcome = NoOutcome

\* A call before its waypoints are looked at, or refused without that.
Untouched ==
  /\ phase \in {"idle", "done"} /\ result.kind \in {"none", "invalid_argument"}
  /\ waypoints = <<>> /\ segments = <<>> /\ totg = NoOutcome /\ legacy = NoOutcome

Trivial ==
  /\ Len(waypoints) < 2 /\ segments = <<>>
  /\ totg = NoOutcome /\ legacy = NoOutcome
  /\ phase \in {"decide", "done"}

Generating ==
  /\ Len(waypoints) >= 2
  /\ Segmented(segments, waypoints, Len(waypoints))
  /\ Stands(totg, "totg", totg_segments)
  /\ Stands(legacy, "legacy", Straightened)
  /\ phase \in {"totg", "legacy", "decide", "done"}
  /\ phase # "totg" => Whole(totg, totg_segments)
  /\ phase \in {"decide", "done"} => Whole(legacy, Straightened)

Prepared ==
  /\ input \in Seq(Plane) /\ input # <<>>
  /\ Deduplicated(input, waypoints, Tolerance)
  /\ Trivial \/ Generating

ServiceInv ==
  /\ config \in Config
  /\ Untouched \/ Prepared
  /\ phase # "done" => result = NoResult
  /\ phase = "done" => result.kind = "invalid_argument" \/ result = Decision
  /\ AlwaysAnOutcome

LEMMA SegmentsLong ==
  ASSUME NEW w \in Seq(Plane), NEW segs, Segmented(segs, w, Len(w))
  PROVE  /\ Len(segs) \in Nat \ {0}
         /\ \A k \in 1..Len(segs) : segs[k] \in Seq(Plane) /\ Len(segs[k]) >= 2
<1> DEFINE m == Len(segs)
           n == Len(w)
<1>1. segs \in Seq(Seq(Plane)) /\ segs # <<>>
  BY DEF Segmented
<1>2. m \in Nat \ {0} /\ n \in Nat
  BY <1>1, EmptySeq, LenProperties
<1>3. PICK c : CutAt(segs, w, n, c)
  BY DEF Segmented
<1>4. /\ c \in [0..m -> 1..n] /\ c[m] = n /\ c[m - 1] < n
      /\ \A k \in 1..m : segs[k] = SubSeq(w, c[k - 1], c[k])
      /\ \A k \in 1..m - 1 : c[k - 1] < c[k]
  BY <1>3 DEF CutAt
<1> HIDE DEF m, n
<1>5. ASSUME NEW k \in 1..m PROVE segs[k] \in Seq(Plane) /\ Len(segs[k]) >= 2
  <2> DEFINE a == c[k - 1]
             b == c[k]
  <2>1. a \in 1..n /\ b \in 1..n
    <3>1. k - 1 \in 0..m /\ k \in 0..m
      BY <1>2
    <3> QED
      BY <1>4, <3>1
  <2>2. a < b
    <3>1. k \in 1..m - 1 \/ k = m
      BY <1>2
    <3> QED
      BY <1>4, <3>1
  <2>3. segs[k] = SubSeq(w, a, b)
    BY <1>4
  <2> HIDE DEF a, b
  <2>4. a \in Int /\ b \in Int /\ \A j \in a..b : w[j] \in Plane
    <3>1. \A j \in a..b : j \in 1..n
      BY <1>2, <2>1
    <3> QED
      BY <2>1, <3>1, ElementOfSeq DEF n
  <2>5. SubSeq(w, a, b) \in Seq(Plane) /\ Len(SubSeq(w, a, b)) = IF a <= b THEN b - a + 1 ELSE 0
    BY <2>4, SubSeqProperties
  <2> QED
    BY <2>2, <2>3, <2>4, <2>5
<1> QED
  BY <1>2, <1>5 DEF m

LEMMA ServiceInvInit == Init => ServiceInv
<1> SUFFICES ASSUME Init PROVE ServiceInv
  OBVIOUS
<1>1. /\ config \in Config /\ phase = "idle" /\ waypoints = <<>> /\ segments = <<>>
      /\ totg = NoOutcome /\ legacy = NoOutcome /\ result = NoResult
  BY DEF Init, PlannerInit
<1>2. result.kind = "none"
  BY <1>1 DEF NoResult
<1>3. Untouched
  BY <1>1, <1>2 DEF Untouched
<1> QED
  BY <1>1, <1>2, <1>3 DEF ServiceInv, AlwaysAnOutcome

LEMMA ServiceInvExecute ==
  ASSUME ServiceInv, NEW given \in Input, infer(given)
  PROVE  ServiceInv'
<1> DEFINE n == Len(waypoints')
<1>1. given \in Seq(Plane) /\ given # <<>> /\ Tolerance \in Nat /\ Diameter \in Nat
  BY PlannerAssumption DEF infer, Plane
<1>2. /\ phase = "idle" /\ input' = given /\ config' = config /\ result' = result
      /\ waypoints' = deduplicate_waypoints(given, Tolerance)
  BY DEF infer, execute
<1>3. Deduplicated(given, waypoints', Tolerance)
  BY <1>1, <1>2, DeduplicationFaithful
<1>4. config' \in Config /\ result' = NoResult
  BY <1>2 DEF ServiceInv
<1>5. waypoints' \in Seq(Plane) /\ n \in Nat
  BY <1>3, LenProperties DEF Deduplicated
<1>6. CASE n < 2
  <2>1. phase' = "decide" /\ segments' = <<>> /\ totg' = NoOutcome /\ legacy' = NoOutcome
    BY <1>6 DEF infer, execute
  <2>2. Trivial'
    BY <1>6, <2>1 DEF Trivial, NoOutcome
  <2>3. Prepared'
    BY <1>1, <1>2, <1>3, <2>2 DEF Prepared
  <2> QED
    BY <1>4, <2>1, <2>3 DEF ServiceInv, AlwaysAnOutcome, NoResult
<1>7. CASE ~(n < 2)
  <2>1. /\ phase' = "totg" /\ segments' = segment_at_reversals(waypoints')
        /\ totg' = Outcome("totg") /\ legacy' = Outcome("legacy")
    BY <1>7 DEF infer, execute
  <2>2. n >= 2
    BY <1>5, <1>7
  <2>3. Segmented(segments', waypoints', n)
    BY <1>5, <2>1, <2>2, SegmentsCut
  <2>4. Len(segments') \in Nat
    BY <1>5, <2>3, SegmentsLong
  <2>5. ASSUME NEW g, NEW outcome, outcome = Outcome(g), NEW expected, Len(expected) \in Nat
        PROVE  IF g \in config.generators THEN Produces(outcome, expected) ELSE outcome = NoOutcome
    <3> DEFINE r == <<>>
    <3>1. r \in Seq(Made(expected)) /\ Len(r) = 0
      OBVIOUS
    <3>2. Started = [receiver |-> <<r>>, error |-> FALSE]
      BY DEF Started
    <3>3. CASE g \in config.generators
      <4>1. Received(outcome, r)
        BY <2>5, <3>2, <3>3 DEF Outcome, Received
      <4>2. Len(r) <= Len(expected) /\ \A k \in 1..Len(r) : r[k].path = expected[k]
        BY <2>5, <3>1
      <4> QED
        BY <3>1, <3>3, <4>1, <4>2 DEF Produces
    <3>4. CASE g \notin config.generators
      BY <2>5, <3>4 DEF Outcome
    <3> QED
      BY <3>3, <3>4
  <2>6. Len(totg_segments') \in Nat /\ Len(Straightened') \in Nat
    BY <2>4 DEF totg_segments, Straightened
  <2>7. Stands(totg, "totg", totg_segments)' /\ Stands(legacy, "legacy", Straightened)'
    BY <1>2, <2>1, <2>5, <2>6 DEF Stands
  <2>8. Generating'
    BY <2>1, <2>2, <2>3, <2>7 DEF Generating
  <2>9. Prepared'
    BY <1>1, <1>2, <1>3, <2>8 DEF Prepared
  <2> QED
    BY <1>4, <2>1, <2>9 DEF ServiceInv, AlwaysAnOutcome, NoResult
<1> QED
  BY <1>6, <1>7

\* A generator does its next segment, or fails.
LEMMA Produced ==
  ASSUME NEW outcome, NEW expected, Len(expected) \in Nat, Produces(outcome, expected),
         Runs(outcome, expected), NEW d \in Durations, NEW next,
         next = Failed(outcome)
           \/ next = Succeeded(outcome, [path |-> Next_of(outcome, expected), duration |-> d])
  PROVE  Produces(next, expected)
<1>1. CASE next = Failed(outcome)
  BY <1>1 DEF Failed, Produces
<1>2. CASE next = Succeeded(outcome, [path |-> Next_of(outcome, expected), duration |-> d])
  <2>1. outcome.receiver # <<>>
    BY DEF Runs
  <2>2. outcome # [receiver |-> <<>>, error |-> TRUE]
    BY <2>1
  <2>3. PICK r \in Seq(Made(expected)) :
          /\ Received(outcome, r) /\ Len(r) <= Len(expected)
          /\ \A k \in 1..Len(r) : r[k].path = expected[k]
    BY <2>2 DEF Produces
  <2> DEFINE n == Len(r) + 1
             made == [path |-> expected[n], duration |-> d]
             s == Append(r, made)
  <2>4. outcome.receiver[1] = r
    BY <2>3 DEF Received
  <2>5. Len(r) \in Nat /\ n \in 1..Len(expected)
    <3>1. Len(r) \in Nat
      BY LenProperties
    <3>2. Len(r) < Len(expected)
      BY <2>4 DEF Runs
    <3> QED
      BY <3>1, <3>2
  <2>6. made \in Made(expected)
    BY <2>5 DEF Made
  <2>7. next = [outcome EXCEPT !.receiver = <<Append(@[1], made)>>]
    BY <1>2, <2>4 DEF Succeeded, Next_of
  <2> HIDE DEF made
  <2>8. next = [receiver |-> <<s>>, error |-> FALSE]
    BY <2>3, <2>4, <2>7 DEF Received
  <2>9. /\ s \in Seq(Made(expected)) /\ Len(s) = n /\ s[n] = made
        /\ \A k \in 1..Len(r) : s[k] = r[k]
    <3> DEFINE M == Made(expected)
    <3>1. made \in M /\ r \in Seq(M)
      BY <2>6
    <3> HIDE DEF M
    <3> QED
      BY <3>1, Appending DEF M
  <2> HIDE DEF s
  <2>10. made.path = expected[n]
    BY DEF made
  <2>11. ASSUME NEW k \in 1..n PROVE s[k].path = expected[k]
    <3>1. CASE k = n
      BY <2>9, <2>10, <3>1
    <3>2. CASE k # n
      <4>1. k \in 1..Len(r)
        BY <2>5, <3>2
      <4> QED
        BY <2>3, <2>9, <4>1
    <3> QED
      BY <3>1, <3>2
  <2>12. Len(s) <= Len(expected)
    BY <2>5, <2>9
  <2> QED
    BY <2>8, <2>9, <2>11, <2>12 DEF Produces, Received
<1> QED
  BY <1>1, <1>2

\* A generator that is done has produced all it should.
LEMMA DoneIsWhole ==
  ASSUME NEW generator, NEW outcome, NEW expected, Len(expected) \in Nat,
         Stands(outcome, generator, expected), ~Runs(outcome, expected)
  PROVE  Whole(outcome, expected)
<1> SUFFICES ASSUME NEW r, Received(outcome, r) PROVE Len(r) = Len(expected)
  BY DEF Whole
<1>1. outcome.receiver = <<r>> /\ outcome.receiver # <<>> /\ outcome.receiver[1] = r
  BY DEF Received
<1>2. Produces(outcome, expected) \/ outcome = NoOutcome
  BY DEF Stands
<1>3. Produces(outcome, expected)
  BY <1>1, <1>2 DEF NoOutcome
<1>4. outcome # [receiver |-> <<>>, error |-> TRUE]
  BY <1>1
<1>5. PICK s \in Seq(Made(expected)) : Received(outcome, s) /\ Len(s) <= Len(expected)
  BY <1>3, <1>4 DEF Produces
<1>6. s = r
  BY <1>1, <1>5 DEF Received
<1>7. ~(Len(r) < Len(expected))
  BY <1>1 DEF Runs
<1>8. Len(r) \in Nat /\ Len(r) <= Len(expected)
  BY <1>5, <1>6, LenProperties
<1> QED
  BY <1>7, <1>8

\* The decider has an outcome of one of the generators, of which there is one at least.
LEMMA Decides == ServiceInv /\ phase = "decide" => Decision.kind # "logic_error"
<1> SUFFICES ASSUME ServiceInv, phase = "decide" PROVE Decision.kind # "logic_error"
  OBVIOUS
<1>1. Trivial \/ Generating
  BY DEF ServiceInv, Untouched, Prepared
<1>2. CASE Trivial
  BY <1>2 DEF Trivial, Decision, NoOutcome, NoResult
<1>3. CASE Generating
  <2>1. config.generators \in (SUBSET {"totg", "legacy"}) \ {{}}
    BY PlannerAssumption DEF ServiceInv
  <2>2. "totg" \in config.generators \/ "legacy" \in config.generators
    BY <2>1
  <2>3. ASSUME NEW outcome, NEW expected, Produces(outcome, expected)
        PROVE  outcome.receiver # <<>> \/ outcome.error
    <3>1. CASE outcome = [receiver |-> <<>>, error |-> TRUE]
      BY <3>1
    <3>2. CASE \E r : Received(outcome, r)
      <4>1. PICK r : outcome = [receiver |-> <<r>>, error |-> FALSE]
        BY <3>2 DEF Received
      <4>2. outcome.receiver = <<r>>
        BY <4>1
      <4> QED
        BY <4>2
    <3> QED
      BY <2>3, <3>1, <3>2 DEF Produces
  <2>4. totg.receiver # <<>> \/ totg.error \/ legacy.receiver # <<>> \/ legacy.error
    BY <1>3, <2>2, <2>3 DEF Generating, Stands
  <2>5. totg.receiver # <<>> => Decision.kind = "samples"
    BY DEF Decision
  <2>6. legacy.receiver # <<>> => Decision.kind = "samples"
    BY DEF Decision
  <2>7. totg.error \/ legacy.error => Decision.kind \in {"samples", "error"}
    BY DEF Decision, NoResult
  <2> QED
    BY <2>4, <2>5, <2>6, <2>7
<1> QED
  BY <1>1, <1>2, <1>3

LEMMA ServiceInvNext == ServiceInv /\ [Next]_vars => ServiceInv'
<1> SUFFICES ASSUME ServiceInv, [Next]_vars PROVE ServiceInv'
  OBVIOUS
<1> DEFINE Prep == Prepared /\ Generating
<1>g. (phase \in {"totg", "legacy"}) => Prepared /\ Generating
  BY DEF ServiceInv, Untouched, Prepared, Trivial
<1>s. ASSUME Generating, Prepared
      PROVE  Len(segments) \in Nat /\ Len(totg_segments) \in Nat /\ Len(Straightened) \in Nat
  <2>1. waypoints \in Seq(Plane)
    BY <1>s DEF Prepared, Deduplicated
  <2>2. Len(segments) \in Nat
    BY <1>s, <2>1, SegmentsLong DEF Generating
  <2> QED
    BY <2>2 DEF totg_segments, Straightened
<1>1. CASE infer_refused
  <2>1. phase = "idle" /\ Untouched
    BY <1>1 DEF infer_refused, ServiceInv, Prepared, Trivial, Generating
  <2>2. result'.kind = "invalid_argument"
    BY <1>1 DEF infer_refused, NoResult
  <2>3. Untouched' /\ phase' = "done" /\ config' = config
    BY <1>1, <2>1, <2>2 DEF infer_refused, Untouched
  <2> QED
    BY <2>2, <2>3 DEF ServiceInv, AlwaysAnOutcome
<1>2. ASSUME NEW given \in Input, infer(given) PROVE ServiceInv'
  BY <1>2, ServiceInvExecute
<1>3. CASE run_totg /\ UNCHANGED result
  <2>1. /\ phase = "totg" /\ Runs(totg, totg_segments)
        /\ config' = config /\ phase' = phase /\ input' = input /\ waypoints' = waypoints
        /\ segments' = segments /\ legacy' = legacy /\ result' = result
    BY <1>3 DEF run_totg
  <2>2. Prepared /\ Generating /\ Len(totg_segments) \in Nat
    BY <1>g, <1>s, <2>1
  <2>3. Produces(totg, totg_segments) /\ "totg" \in config.generators
    <3>1. totg # NoOutcome
      BY <2>1 DEF Runs, NoOutcome
    <3> QED
      BY <2>2, <3>1 DEF Generating, Stands
  <2>4. Produces(totg', totg_segments)
    <3>1. CASE totg' = Failed(totg)
      BY <3>1 DEF Failed, Produces
    <3>2. ASSUME NEW d \in Durations,
                 totg' = Succeeded(totg, [path |-> Next_of(totg, totg_segments), duration |-> d])
          PROVE  Produces(totg', totg_segments)
      BY <2>1, <2>2, <2>3, <3>2, Produced
    <3> QED
      BY <1>3, <3>1, <3>2 DEF run_totg
  <2>5. totg_segments' = totg_segments /\ Straightened' = Straightened
    BY <2>1 DEF totg_segments, Straightened
  <2>6. Stands(totg, "totg", totg_segments)' /\ Stands(legacy, "legacy", Straightened)'
    BY <2>1, <2>2, <2>3, <2>4, <2>5 DEF Stands, Generating
  <2>7. Generating'
    BY <2>1, <2>2, <2>6 DEF Generating
  <2>8. Prepared'
    BY <2>1, <2>2, <2>7 DEF Prepared
  <2> QED
    BY <2>1, <2>8 DEF ServiceInv, AlwaysAnOutcome
<1>4. CASE totg_done /\ UNCHANGED result
  <2>1. /\ phase = "totg" /\ ~Runs(totg, totg_segments) /\ phase' = "legacy"
        /\ config' = config /\ input' = input /\ waypoints' = waypoints
        /\ segments' = segments /\ totg' = totg /\ legacy' = legacy /\ result' = result
    BY <1>4 DEF totg_done
  <2>2. Prepared /\ Generating /\ Len(totg_segments) \in Nat
    BY <1>g, <1>s, <2>1
  <2>3. Stands(totg, "totg", totg_segments) /\ Stands(legacy, "legacy", Straightened)
    BY <2>2 DEF Generating
  <2>4. Whole(totg, totg_segments)
    BY <2>1, <2>2, <2>3, DoneIsWhole
  <2>5. totg_segments' = totg_segments /\ Straightened' = Straightened
    BY <2>1 DEF totg_segments, Straightened
  <2>6. Stands(totg, "totg", totg_segments)' /\ Stands(legacy, "legacy", Straightened)'
    BY <2>1, <2>3, <2>5 DEF Stands
  <2>7. Generating'
    BY <2>1, <2>2, <2>4, <2>5, <2>6 DEF Generating, Whole
  <2>8. Prepared'
    BY <2>1, <2>2, <2>7 DEF Prepared
  <2> QED
    BY <2>1, <2>8 DEF ServiceInv, AlwaysAnOutcome
<1>5. CASE run_legacy /\ UNCHANGED result
  <2>1. /\ phase = "legacy" /\ Runs(legacy, segments)
        /\ config' = config /\ phase' = phase /\ input' = input /\ waypoints' = waypoints
        /\ segments' = segments /\ totg' = totg /\ result' = result
    BY <1>5 DEF run_legacy
  <2>2. Prepared /\ Generating /\ Len(Straightened) \in Nat /\ Len(segments) \in Nat
    BY <1>g, <1>s, <2>1
  <2>3. Produces(legacy, Straightened) /\ "legacy" \in config.generators
    <3>1. legacy # NoOutcome
      BY <2>1 DEF Runs, NoOutcome
    <3> QED
      BY <2>2, <3>1 DEF Generating, Stands
  <2>a. Runs(legacy, Straightened)
    <3>1. Len(Straightened) = Len(segments)
      BY <2>2 DEF Straightened
    <3> QED
      BY <2>1, <3>1 DEF Runs
  <2>b. apply_colinearization(Next_of(legacy, segments), Diameter) = Next_of(legacy, Straightened)
    <3>1. PICK r \in Seq(Made(Straightened)) : Received(legacy, r)
      BY <2>1, <2>3 DEF Produces, Runs
    <3>2. Len(r) \in Nat /\ legacy.receiver[1] = r
      BY <3>1, LenProperties DEF Received
    <3>3. Len(r) + 1 \in 1..Len(segments)
      BY <2>1, <2>2, <3>2 DEF Runs
    <3>4. Straightened[Len(r) + 1] = apply_colinearization(segments[Len(r) + 1], Diameter)
      BY <3>3 DEF Straightened
    <3> QED
      BY <3>2, <3>4 DEF Next_of
  <2>4. Produces(legacy', Straightened)
    <3>1. CASE legacy' = Failed(legacy)
      BY <3>1 DEF Failed, Produces
    <3>2. ASSUME NEW d \in Durations,
                 legacy' = Succeeded(legacy,
                   [path |-> apply_colinearization(Next_of(legacy, segments), Diameter), duration |-> d])
          PROVE  Produces(legacy', Straightened)
      <4>1. legacy' = Succeeded(legacy, [path |-> Next_of(legacy, Straightened), duration |-> d])
        BY <2>b, <3>2
      <4> QED
        BY <2>2, <2>3, <2>a, <4>1, Produced
    <3> QED
      BY <1>5, <3>1, <3>2 DEF run_legacy
  <2>5. totg_segments' = totg_segments /\ Straightened' = Straightened
    BY <2>1 DEF totg_segments, Straightened
  <2>6. Stands(totg, "totg", totg_segments)' /\ Stands(legacy, "legacy", Straightened)'
    BY <2>1, <2>2, <2>3, <2>4, <2>5 DEF Stands, Generating
  <2>7. Generating'
    BY <2>1, <2>2, <2>5, <2>6 DEF Generating, Whole
  <2>8. Prepared'
    BY <2>1, <2>2, <2>7 DEF Prepared
  <2> QED
    BY <2>1, <2>8 DEF ServiceInv, AlwaysAnOutcome
<1>6. CASE legacy_done /\ UNCHANGED result
  <2>1. /\ phase = "legacy" /\ ~Runs(legacy, segments) /\ phase' = "decide"
        /\ config' = config /\ input' = input /\ waypoints' = waypoints
        /\ segments' = segments /\ totg' = totg /\ legacy' = legacy /\ result' = result
    BY <1>6 DEF legacy_done
  <2>2. Prepared /\ Generating /\ Len(Straightened) \in Nat /\ Len(segments) \in Nat
    BY <1>g, <1>s, <2>1
  <2>3. Stands(totg, "totg", totg_segments) /\ Stands(legacy, "legacy", Straightened)
    BY <2>2 DEF Generating
  <2>a. ~Runs(legacy, Straightened)
    <3>1. Len(Straightened) = Len(segments)
      BY <2>2 DEF Straightened
    <3> QED
      BY <2>1, <3>1 DEF Runs
  <2>4. Whole(legacy, Straightened) /\ Whole(totg, totg_segments)
    <3>1. Whole(legacy, Straightened)
      BY <2>2, <2>3, <2>a, DoneIsWhole
    <3> QED
      BY <2>1, <2>2, <3>1 DEF Generating
  <2>5. totg_segments' = totg_segments /\ Straightened' = Straightened
    BY <2>1 DEF totg_segments, Straightened
  <2>6. Stands(totg, "totg", totg_segments)' /\ Stands(legacy, "legacy", Straightened)'
    BY <2>1, <2>3, <2>5 DEF Stands
  <2>7. Generating'
    BY <2>1, <2>2, <2>4, <2>5, <2>6 DEF Generating, Whole
  <2>8. Prepared'
    BY <2>1, <2>2, <2>7 DEF Prepared
  <2> QED
    BY <2>1, <2>8 DEF ServiceInv, AlwaysAnOutcome
<1>7. CASE decide
  <2>1. /\ phase = "decide" /\ phase' = "done" /\ result' = Decision
        /\ config' = config /\ input' = input /\ waypoints' = waypoints
        /\ segments' = segments /\ totg' = totg /\ legacy' = legacy
    BY <1>7 DEF decide
  <2>2. Decision' = Decision
    BY <2>1 DEF Decision
  <2>3. Prepared
    BY <2>1 DEF ServiceInv, Untouched
  <2>4. totg_segments' = totg_segments /\ Straightened' = Straightened
    BY <2>1 DEF totg_segments, Straightened
  <2>5. Generating => Generating'
    BY <2>1, <2>4 DEF Generating, Whole, Stands
  <2>6. Trivial => Trivial'
    BY <2>1 DEF Trivial
  <2>7. Prepared'
    BY <2>1, <2>3, <2>5, <2>6 DEF Prepared
  <2>8. Decision.kind # "logic_error"
    BY <2>1, Decides
  <2> QED
    BY <2>1, <2>2, <2>7, <2>8 DEF ServiceInv, AlwaysAnOutcome
<1>8. CASE UNCHANGED vars
  <2>1. /\ phase' = phase /\ config' = config /\ input' = input /\ waypoints' = waypoints
        /\ segments' = segments /\ totg' = totg /\ legacy' = legacy /\ result' = result
    BY <1>8 DEF vars, plannerVars
  <2>2. Decision' = Decision /\ totg_segments' = totg_segments /\ Straightened' = Straightened
    BY <2>1 DEF Decision, totg_segments, Straightened
  <2>3. Generating' = Generating
    BY <2>1, <2>2 DEF Generating, Whole, Stands
  <2>4. (Prepared => Prepared') /\ (Untouched => Untouched')
    BY <2>1, <2>3 DEF Prepared, Trivial, Untouched
  <2> QED
    BY <2>1, <2>2, <2>4 DEF ServiceInv, AlwaysAnOutcome
<1> QED
  BY <1>1, <1>2, <1>3, <1>4, <1>5, <1>6, <1>7, <1>8 DEF Next

LEMMA ServiceInvImplies ==
  ServiceInv => PreprocessingFaithful /\ SegmentsAreTheMotion /\ ColinearizationStaysClose
<1> SUFFICES ASSUME ServiceInv PROVE PreprocessingFaithful /\ SegmentsAreTheMotion /\ ColinearizationStaysClose
  OBVIOUS
<1>1. PreprocessingFaithful
  <2>1. CASE Untouched
    <3>1. Len(waypoints) = 0
      BY <2>1 DEF Untouched
    <3> QED
      BY <3>1 DEF PreprocessingFaithful
  <2>2. CASE Prepared
    <3>1. Deduplicated(input, waypoints, Tolerance)
      BY <2>2 DEF Prepared
    <3> QED
      BY <3>1 DEF Deduplicated, PreprocessingFaithful
  <2> QED
    BY <2>1, <2>2 DEF ServiceInv
<1>2. SegmentsAreTheMotion
  <2>1. CASE segments = <<>>
    BY <2>1 DEF SegmentsAreTheMotion
  <2>2. CASE segments # <<>>
    <3> DEFINE n == Len(waypoints)
               m == Len(segments)
               cut == CHOOSE f : f = [k \in 0..m |-> IF k = 0 THEN 1 ELSE f[k - 1] + Len(segments[k]) - 1]
    <3>1. Prepared /\ Generating
      BY <2>2 DEF ServiceInv, Untouched, Prepared, Trivial
    <3>2. waypoints \in Seq(Plane) /\ n >= 2 /\ n \in Nat /\ Segmented(segments, waypoints, n)
      BY <3>1, LenProperties DEF Prepared, Generating, Deduplicated
    <3>3. CutAt(segments, waypoints, n, cut)
      BY <3>2, CutsByLength
    <3>4. m \in Nat \ {0}
      BY <3>2, SegmentsLong
    <3> HIDE DEF cut
    <3>5. /\ cut \in [0..m -> 1..n] /\ cut[m] = n /\ cut[m - 1] < n
          /\ \A k \in 1..m : segments[k] = SubSeq(waypoints, cut[k - 1], cut[k])
          /\ \A k \in 1..m - 1 : cut[k - 1] < cut[k]
      BY <3>3 DEF CutAt
    <3>6. \A j \in 2..n : j < n => (Turns(waypoints, j) <=> \E k \in 1..m - 1 : cut[k] = j)
      BY <3>3 DEF CutAt
    <3> HIDE DEF n, m
    <3>7. ASSUME NEW k \in 1..m PROVE cut[k - 1] < cut[k] /\ segments[k] = SubSeq(waypoints, cut[k - 1], cut[k])
      <4>1. k \in 1..m - 1 \/ k = m
        BY <3>4
      <4> QED
        BY <3>5, <4>1
    <3>8. ASSUME NEW i \in 2..n - 1
          PROVE  Reverses(waypoints[i - 1], waypoints[i], waypoints[i + 1]) <=> \E k \in 1..m - 1 : cut[k] = i
      <4>1. i \in 2..n /\ i < n
        BY <3>2
      <4>2. Turns(waypoints, i) <=> \E k \in 1..m - 1 : cut[k] = i
        BY <3>6, <4>1
      <4> QED
        BY <4>2 DEF Turns
    <3> QED
      BY <3>5, <3>7, <3>8 DEF SegmentsAreTheMotion, cut, n, m
  <2> QED
    BY <2>1, <2>2
<1>3. ColinearizationStaysClose
  <2> SUFFICES ASSUME NEW r \in {legacy.receiver[k] : k \in 1..Len(legacy.receiver)}, NEW k \in 1..Len(r)
               PROVE  ReplacedClosely(segments[k], r[k].path, Diameter)
    BY DEF ColinearizationStaysClose, ReplacedClosely
  <2>1. legacy # NoOutcome /\ legacy # [receiver |-> <<>>, error |-> TRUE]
    BY DEF NoOutcome
  <2>2. Prepared /\ Generating
    BY <2>1 DEF ServiceInv, Untouched, Prepared, Trivial
  <2>3. PICK s \in Seq(Made(Straightened)) :
          /\ Received(legacy, s) /\ Len(s) <= Len(Straightened)
          /\ \A j \in 1..Len(s) : s[j].path = Straightened[j]
    BY <2>1, <2>2 DEF Generating, Stands, Produces
  <2>4. r = s
    BY <2>3 DEF Received
  <2>5. waypoints \in Seq(Plane)
    BY <2>2 DEF Prepared, Deduplicated
  <2>6. /\ Len(segments) \in Nat
        /\ \A j \in 1..Len(segments) : segments[j] \in Seq(Plane) /\ Len(segments[j]) >= 2
    BY <2>2, <2>5, SegmentsLong DEF Generating
  <2>7. Len(Straightened) = Len(segments)
    BY <2>6 DEF Straightened
  <2>8. k \in 1..Len(segments) /\ r[k].path = Straightened[k]
    <3>1. Len(s) \in Nat
      BY LenProperties
    <3> QED
      BY <2>3, <2>4, <2>6, <2>7, <3>1
  <2>9. r[k].path = apply_colinearization(segments[k], Diameter)
    BY <2>8 DEF Straightened
  <2>10. Diameter \in Nat
    BY PlannerAssumption
  <2> QED
    BY <2>6, <2>8, <2>9, <2>10, ColinearizedClosely
<1> QED
  BY <1>1, <1>2, <1>3

\* With a generator registered, infer has always an outcome to choose: the error that the
\* decider keeps for the impossible is not raised (mlmodel::infer).
THEOREM AlwaysDecides == Spec => []AlwaysAnOutcome
<1>1. ServiceInv => AlwaysAnOutcome
  BY DEF ServiceInv
<1> QED
  BY <1>1, ServiceInvInit, ServiceInvNext, PTL DEF Spec

\* For all waypoints and every tolerance, deduplication leaves both ends and something
\* near each waypoint that it drops (deduplicate_waypoints).
THEOREM DroppedHaveStandIns == Spec => []PreprocessingFaithful
<1> QED
  BY ServiceInvInit, ServiceInvNext, ServiceInvImplies, PTL DEF Spec

\* For all waypoints, the segments are the motion, cut at every reversal and nowhere else
\* (segment_at_reversals).
THEOREM CutAtReversals == Spec => []SegmentsAreTheMotion
<1> QED
  BY ServiceInvInit, ServiceInvNext, ServiceInvImplies, PTL DEF Spec

\* For all segments and every diameter, what the legacy generator is not given lies in the
\* cylinder around the line that replaces it (apply_colinearization).
THEOREM LinesStayClose == Spec => []ColinearizationStaysClose
<1> QED
  BY ServiceInvInit, ServiceInvNext, ServiceInvImplies, PTL DEF Spec

-----------------------------------------------------------------------------
(* The samples of a motion *)

Reading == [time : Int, at : Plane \cup {<<>>}]

\* p counts from a to b the stops, in order, that the samples are at.
Counts(p, samples, stops, a, b) ==
  /\ p \in [0..Len(samples) -> a..b] /\ p[0] = a /\ p[Len(samples)] = b
  /\ \A i \in 1..Len(samples) :
       IF samples[i].at = <<>> THEN p[i] = p[i - 1]
       ELSE p[i] = p[i - 1] + 1 /\ samples[i].at = stops[p[i]]

\* The samples pass through the stops after a up to b, and end there.
PassesThrough(samples, stops, a, b) ==
  /\ samples \in Seq(Reading) /\ samples # <<>> /\ samples[Len(samples)].at # <<>>
  /\ \E p : Counts(p, samples, stops, a, b)

LEMMA PassesOn ==
  ASSUME NEW stops, NEW a \in Int, NEW b \in Int, NEW c \in Int, a <= b, b <= c, NEW s, NEW t,
         PassesThrough(s, stops, a, b), PassesThrough(t, stops, b, c)
  PROVE  PassesThrough(s \o t, stops, a, c)
<1> DEFINE l == Len(s)
           m == Len(t)
           u == s \o t
<1>1. s \in Seq(Reading) /\ t \in Seq(Reading) /\ s # <<>> /\ t # <<>> /\ t[m].at # <<>>
  BY DEF PassesThrough
<1>2. l \in Nat \ {0} /\ m \in Nat \ {0}
  BY <1>1, EmptySeq, LenProperties
<1>3. /\ u \in Seq(Reading) /\ Len(u) = l + m
      /\ \A i \in 1..l + m : u[i] = IF i <= l THEN s[i] ELSE t[i - l]
  <2> DEFINE S == Reading
  <2>1. s \in Seq(S) /\ t \in Seq(S)
    BY <1>1
  <2> HIDE DEF S
  <2> QED
    BY <2>1, ConcatProperties DEF S
<1>4. PICK p : Counts(p, s, stops, a, b)
  BY DEF PassesThrough
<1>5. PICK q : Counts(q, t, stops, b, c)
  BY DEF PassesThrough
<1>6. /\ p \in [0..l -> a..b] /\ p[0] = a /\ p[l] = b
      /\ \A i \in 1..l : IF s[i].at = <<>> THEN p[i] = p[i - 1] ELSE p[i] = p[i - 1] + 1 /\ s[i].at = stops[p[i]]
  BY <1>4 DEF Counts
<1>7. /\ q \in [0..m -> b..c] /\ q[0] = b /\ q[m] = c
      /\ \A i \in 1..m : IF t[i].at = <<>> THEN q[i] = q[i - 1] ELSE q[i] = q[i - 1] + 1 /\ t[i].at = stops[q[i]]
  BY <1>5 DEF Counts
<1> HIDE DEF l, m, u
<1> DEFINE n == l + m
           r == [i \in 0..n |-> IF i <= l THEN p[i] ELSE q[i - l]]
<1>8. r \in [0..n -> a..c]
  <2> SUFFICES ASSUME NEW i \in 0..n PROVE (IF i <= l THEN p[i] ELSE q[i - l]) \in a..c
    OBVIOUS
  <2>1. CASE i <= l
    <3>1. i \in 0..l
      BY <1>2, <2>1
    <3>2. p[i] \in a..b
      BY <1>6, <3>1
    <3> QED
      BY <2>1, <3>2
  <2>2. CASE ~(i <= l)
    <3>1. i - l \in 0..m
      BY <1>2, <2>2
    <3>2. q[i - l] \in b..c
      BY <1>7, <3>1
    <3> QED
      BY <2>2, <3>2
  <2> QED
    BY <2>1, <2>2
<1>9. r[0] = a /\ r[n] = c
  <2>1. 0 \in 0..n /\ n \in 0..n /\ 0 <= l /\ ~(n <= l) /\ n - l = m
    BY <1>2
  <2> QED
    BY <1>6, <1>7, <2>1
<1>10. ASSUME NEW i \in 1..n
       PROVE  IF u[i].at = <<>> THEN r[i] = r[i - 1] ELSE r[i] = r[i - 1] + 1 /\ u[i].at = stops[r[i]]
  <2>1. i \in 0..n /\ i - 1 \in 0..n /\ i \in Int
    BY <1>2
  <2>2. CASE i <= l
    <3>1. i \in 1..l /\ i - 1 <= l
      BY <1>2, <2>2
    <3>2. r[i] = p[i] /\ r[i - 1] = p[i - 1] /\ u[i] = s[i]
      BY <1>3, <2>1, <2>2, <3>1
    <3> QED
      BY <1>6, <3>1, <3>2
  <2>3. CASE ~(i <= l)
    <3> DEFINE j == i - l
    <3>1. j \in 1..m /\ j - 1 = (i - 1) - l
      BY <1>2, <2>3
    <3>2. r[i] = q[j] /\ u[i] = t[j]
      BY <1>3, <2>1, <2>3
    <3>3. r[i - 1] = q[j - 1]
      <4>1. CASE i - 1 <= l
        <5>1. j - 1 = 0 /\ i - 1 = l
          BY <1>2, <2>3, <4>1
        <5> QED
          BY <1>6, <1>7, <2>1, <4>1, <5>1
      <4>2. CASE ~(i - 1 <= l)
        BY <2>1, <3>1, <4>2
      <4> QED
        BY <4>1, <4>2
    <3> HIDE DEF j
    <3> QED
      BY <1>7, <3>1, <3>2, <3>3
  <2> QED
    BY <2>2, <2>3
<1> HIDE DEF r
<1>11. Counts(r, u, stops, a, c)
  BY <1>3, <1>8, <1>9, <1>10 DEF Counts
<1>12. u # <<>> /\ u[Len(u)].at # <<>>
  <2>1. n \in 1..n /\ ~(n <= l) /\ n - l = m /\ n # 0
    BY <1>2
  <2>2. u[n] = t[m]
    BY <1>3, <2>1
  <2> QED
    BY <1>1, <1>3, <2>1, <2>2 DEF m
<1> QED
  BY <1>3, <1>11, <1>12 DEF PassesThrough, u

\* Motions that pass through the stops between milestones do so together.
LEMMA TogetherPassThrough ==
  ASSUME NEW m \in Nat \ {0}, NEW stops, NEW at \in [0..m -> Int], NEW seqs, Len(seqs) = m,
         \A k \in 1..m : at[k - 1] <= at[k] /\ PassesThrough(seqs[k], stops, at[k - 1], at[k])
  PROVE  at[0] <= at[m] /\ PassesThrough(FlattenSeq(seqs), stops, at[0], at[m])
<1> DEFINE R(f) == [i \in 1..m |-> IF i = 1 THEN seqs[i] ELSE f[i - 1] \o seqs[i]]
           flatten == CHOOSE f : f = R(f)
<1>1. FlattenSeq(seqs) = flatten[m]
  BY DEF FlattenSeq
<1> DEFINE S == Seq(Reading)
           first == seqs[1]
           step == [i \in 2..m |-> [x \in S |-> x \o seqs[i]]]
<1>2. \A k \in 1..m : seqs[k] \in S
  BY DEF PassesThrough
<1>3. ASSUME NEW i \in 2..m, NEW x \in S PROVE x \o seqs[i] \in S
  <2>1. i \in 1..m
    OBVIOUS
  <2>2. x \in Seq(Reading) /\ seqs[i] \in Seq(Reading)
    BY <1>2, <2>1
  <2> HIDE DEF S
  <2> DEFINE y == seqs[i]
             Q == Reading
  <2>3. x \in Seq(Q) /\ y \in Seq(Q)
    BY <2>2
  <2> HIDE DEF y, Q
  <2>4. x \o y \in Seq(Q)
    BY <2>3, ConcatProperties
  <2> QED
    BY <2>4 DEF Q, y, S
<1>4. first \in S
  BY <1>2
<1> HIDE DEF S, first
<1>5. StaysIn(S, m, step)
  BY <1>3 DEF StaysIn
<1> HIDE DEF step
<1>6. PICK f \in [1..m -> S] : GoesBy(f, m, first, step)
  BY <1>4, <1>5, Recursion
<1>7. ASSUME NEW i \in 1..m PROVE f[i] = IF i = 1 THEN seqs[i] ELSE f[i - 1] \o seqs[i]
  <2>1. CASE i = 1
    BY <1>6, <2>1 DEF GoesBy, first
  <2>2. CASE i # 1
    <3>1. i \in 2..m /\ i - 1 \in 1..m /\ f[i - 1] \in S
      BY <2>2
    <3>2. step[i][f[i - 1]] = f[i - 1] \o seqs[i]
      BY <3>1 DEF step
    <3> QED
      BY <1>6, <2>2, <3>1, <3>2 DEF GoesBy
  <2> QED
    BY <2>1, <2>2
<1>8. f = R(f)
  <2>1. f = [i \in 1..m |-> f[i]]
    OBVIOUS
  <2> QED
    BY <1>7, <2>1
<1>9. flatten = R(flatten)
  BY <1>8
<1>10. ASSUME NEW i \in 1..m
       PROVE  flatten[i] = IF i = 1 THEN seqs[i] ELSE flatten[i - 1] \o seqs[i]
  BY <1>9
<1> HIDE DEF flatten
<1> DEFINE T == {i \in 1..m : at[0] <= at[i] /\ PassesThrough(flatten[i], stops, at[0], at[i])}
<1>11. 1 \in T
  <2>1. 1 \in 1..m /\ 1 - 1 = 0
    OBVIOUS
  <2>2. flatten[1] = seqs[1]
    BY <1>10, <2>1
  <2> QED
    BY <2>1, <2>2
<1>12. ASSUME NEW i \in 2..m, i - 1 \in T PROVE i \in T
  <2>1. i \in 1..m /\ i - 1 \in 1..m /\ i # 1
    OBVIOUS
  <2> DEFINE a == at[0]
             b == at[i - 1]
             c == at[i]
             s == flatten[i - 1]
             t == seqs[i]
  <2>2. a \in Int /\ b \in Int /\ c \in Int /\ a <= b /\ b <= c
    BY <1>12, <2>1
  <2>3. PassesThrough(s, stops, a, b) /\ PassesThrough(t, stops, b, c)
    BY <1>12, <2>1
  <2> HIDE DEF a, b, c, s, t
  <2>4. PassesThrough(s \o t, stops, a, c) /\ a <= c
    BY <2>2, <2>3, PassesOn
  <2>5. flatten[i] = s \o t
    BY <1>10, <2>1 DEF s, t
  <2> QED
    BY <2>1, <2>4, <2>5 DEF a, c
<1> HIDE DEF T
<1>13. 1..m \subseteq T /\ m \in 1..m
  <2>1. \A i \in 2..m : i - 1 \in T => i \in T
    BY <1>12
  <2>2. 1..m \subseteq T
    BY <1>11, <2>1, Induction
  <2> QED
    BY <2>2
<1>14. m \in T
  BY <1>13
<1> QED
  BY <1>1, <1>14 DEF T

\* A generated trajectory, whose samples start and end where its path does.
Motion == [path : Seq(Plane), duration : Nat \ {0}]

LEMMA SampledFacts ==
  ASSUME NEW made \in Motion, Len(made.path) >= 2
  PROVE  \E n \in Nat :
           /\ n >= 2 /\ Sampled(made) \in Seq(Reading) /\ Len(Sampled(made)) = n
           /\ \A i \in 1..n :
                Sampled(made)[i].at = IF i = 1 THEN made.path[1]
                                      ELSE IF i = n THEN made.path[Len(made.path)] ELSE <<>>
           /\ made.path[1] \in Plane /\ made.path[Len(made.path)] \in Plane
<1> DEFINE d == made.duration
           path == made.path
           n == quantized_samples(d)
<1>1. d \in Nat \ {0} /\ path \in Seq(Plane)
  BY DEF Motion
<1>2. n \in Nat /\ n >= 2
  <2> DEFINE q == (d + Period - 1) \div Period
  <2>1. Period \in Nat \ {0}
    BY ServiceAssumption
  <2>2. d + Period - 1 >= Period
    BY <1>1, <2>1
  <2>3. q \in Int /\ q >= 1
    <3> DEFINE x == d + Period - 1
    <3>1. x \in Int /\ x >= Period /\ Period \in Int /\ Period > 0
      BY <1>1, <2>1, <2>2
    <3> HIDE DEF x
    <3>2. x \div Period \in Int /\ x \div Period >= 1
      BY <3>1
    <3> QED
      BY <3>2 DEF x
  <2>4. n = q + 1
    BY DEF quantized_samples
  <2> HIDE DEF q, n
  <2> QED
    BY <2>3, <2>4
<1>3. path[1] \in Plane /\ path[Len(path)] \in Plane
  <2>1. Len(path) \in Nat /\ 1 \in 1..Len(path) /\ Len(path) \in 1..Len(path)
    BY <1>1, LenProperties
  <2> HIDE DEF path
  <2> QED
    BY <1>1, <2>1, ElementOfSeq
<1> HIDE DEF n
<1> DEFINE times == [i \in 1..n |-> IF i = n THEN d ELSE ((i - 1) * d) \div (n - 1)]
<1>4. Times(d) = times
  BY DEF Times, n
<1>5. Len(times) = n /\ \A i \in 1..n : times[i] \in Int
  <2>1. Len(times) = n
    BY <1>2
  <2>2. ASSUME NEW i \in 1..n PROVE ((i - 1) * d) \div (n - 1) \in Int
    <3> DEFINE x == (i - 1) * d
               y == n - 1
    <3>1. x \in Int /\ y \in Int /\ y > 0
      BY <1>1, <1>2
    <3> HIDE DEF x, y
    <3>2. x \div y \in Int
      BY <3>1
    <3> QED
      BY <3>2 DEF x, y
  <2>3. \A i \in 1..n : times[i] = IF i = n THEN d ELSE ((i - 1) * d) \div (n - 1)
    OBVIOUS
  <2> HIDE DEF times
  <2>4. \A i \in 1..n : times[i] \in Int
    BY <1>1, <2>2, <2>3
  <2> QED
    BY <2>1, <2>4
<1> HIDE DEF times
<1> DEFINE stop(i) == IF i = 1 THEN path[1] ELSE IF i = n THEN path[Len(path)] ELSE <<>>
           s == [i \in 1..n |-> [time |-> times[i], at |-> stop(i)]]
<1>6. Sampled(made) = s
  BY <1>4, <1>5 DEF Sampled
<1> HIDE DEF d, path
<1>7. s \in Seq(Reading) /\ Len(s) = n /\ \A i \in 1..n : s[i].at = stop(i)
  <2>1. \A i \in 1..n : stop(i) \in Plane \cup {<<>>}
    BY <1>3
  <2> HIDE DEF stop
  <2>2. \A i \in 1..n : [time |-> times[i], at |-> stop(i)] \in Reading
    BY <1>5, <2>1 DEF Reading
  <2> QED
    BY <1>2, <2>2
<1> QED
  BY <1>2, <1>3, <1>6, <1>7 DEF path

LEMMA PlaneNotEmpty == \A w \in Plane : w # <<>>
BY DEF Plane

\* The ends of the path of a trajectory are stops, and follow each other.
LEMMA SampledPasses ==
  ASSUME NEW made \in Motion, Len(made.path) >= 2, NEW a \in Int, NEW stops,
         stops[a + 1] = made.path[1], stops[a + 2] = made.path[Len(made.path)]
  PROVE  PassesThrough(Sampled(made), stops, a, a + 2)
<1> DEFINE s == Sampled(made)
           x == made.path[1]
           y == made.path[Len(made.path)]
<1>1. PICK n \in Nat :
        /\ n >= 2 /\ s \in Seq(Reading) /\ Len(s) = n
        /\ \A i \in 1..n : s[i].at = IF i = 1 THEN x ELSE IF i = n THEN y ELSE <<>>
        /\ x \in Plane /\ y \in Plane
  BY SampledFacts
<1>2. x # <<>> /\ y # <<>> /\ stops[a + 1] = x /\ stops[a + 2] = y
  BY <1>1, PlaneNotEmpty
<1> HIDE DEF s, x, y
<1> DEFINE p == [i \in 0..n |-> IF i = 0 THEN a ELSE IF i = n THEN a + 2 ELSE a + 1]
<1>3. p \in [0..n -> a..a + 2] /\ p[0] = a /\ p[n] = a + 2
  BY <1>1
<1>4. ASSUME NEW i \in 1..n
      PROVE  IF s[i].at = <<>> THEN p[i] = p[i - 1] ELSE p[i] = p[i - 1] + 1 /\ s[i].at = stops[p[i]]
  <2>1. i \in 0..n /\ i - 1 \in 0..n /\ i # 0 /\ i - 1 # n
    BY <1>1
  <2>2. CASE i = 1
    <3>1. p[i] = a + 1 /\ p[i - 1] = a /\ s[i].at = x
      BY <1>1, <2>1, <2>2
    <3> QED
      BY <1>2, <3>1
  <2>3. CASE i = n
    <3>1. p[i] = a + 2 /\ p[i - 1] = a + 1 /\ s[i].at = y
      BY <1>1, <2>1, <2>3
    <3> QED
      BY <1>2, <3>1
  <2>4. CASE i # 1 /\ i # n
    <3>1. p[i] = a + 1 /\ p[i - 1] = a + 1 /\ s[i].at = <<>>
      BY <1>1, <2>1, <2>4
    <3> QED
      BY <3>1
  <2> QED
    BY <2>2, <2>3, <2>4
<1> HIDE DEF p
<1>5. Counts(p, s, stops, a, a + 2)
  BY <1>1, <1>3, <1>4 DEF Counts
<1>6. s # <<>> /\ s[Len(s)].at # <<>>
  <2>1. n \in 1..n /\ n # 1 /\ n # 0
    BY <1>1
  <2> QED
    BY <1>1, <1>2, <2>1
<1> QED
  BY <1>1, <1>5, <1>6 DEF PassesThrough, s

\* Without its start, a trajectory passes through its end.
LEMMA TailPasses ==
  ASSUME NEW made \in Motion, Len(made.path) >= 2, NEW a \in Int, NEW stops,
         stops[a + 1] = made.path[Len(made.path)]
  PROVE  PassesThrough(Tail(Sampled(made)), stops, a, a + 1)
<1> DEFINE s == Sampled(made)
           t == Tail(s)
           x == made.path[1]
           y == made.path[Len(made.path)]
<1>1. PICK n \in Nat :
        /\ n >= 2 /\ s \in Seq(Reading) /\ Len(s) = n
        /\ \A i \in 1..n : s[i].at = IF i = 1 THEN x ELSE IF i = n THEN y ELSE <<>>
        /\ x \in Plane /\ y \in Plane
  BY SampledFacts
<1>2. y # <<>> /\ stops[a + 1] = y
  BY <1>1, PlaneNotEmpty
<1> HIDE DEF s, x, y
<1> DEFINE m == n - 1
<1>3. m \in Nat \ {0}
  BY <1>1
<1>4. t \in Seq(Reading) /\ Len(t) = m /\ \A i \in 1..m : t[i] = s[i + 1]
  <2> DEFINE Q == Reading
  <2>1. s \in Seq(Q) /\ s # <<>>
    BY <1>1
  <2> HIDE DEF Q
  <2>2. Tail(s) \in Seq(Q) /\ Len(Tail(s)) = Len(s) - 1 /\ \A i \in 1..Len(Tail(s)) : Tail(s)[i] = s[i + 1]
    BY <2>1, HeadTailProperties
  <2> QED
    BY <1>1, <2>2 DEF Q
<1>5. ASSUME NEW i \in 1..m PROVE t[i].at = IF i = m THEN y ELSE <<>>
  <2>1. i + 1 \in 1..n /\ i + 1 # 1 /\ (i + 1 = n <=> i = m)
    BY <1>1
  <2> QED
    BY <1>1, <1>4, <2>1
<1> HIDE DEF m, t
<1> DEFINE p == [i \in 0..m |-> IF i = m THEN a + 1 ELSE a]
<1>6. p \in [0..m -> a..a + 1] /\ p[0] = a /\ p[m] = a + 1
  BY <1>3
<1>7. ASSUME NEW i \in 1..m
      PROVE  IF t[i].at = <<>> THEN p[i] = p[i - 1] ELSE p[i] = p[i - 1] + 1 /\ t[i].at = stops[p[i]]
  <2>1. i \in 0..m /\ i - 1 \in 0..m /\ i - 1 # m
    BY <1>3
  <2>2. CASE i = m
    BY <1>2, <1>5, <2>1, <2>2
  <2>3. CASE i # m
    BY <1>5, <2>1, <2>3
  <2> QED
    BY <2>2, <2>3
<1> HIDE DEF p
<1>8. Counts(p, t, stops, a, a + 1)
  BY <1>4, <1>6, <1>7 DEF Counts
<1>9. t # <<>> /\ t[Len(t)].at # <<>>
  <2>1. m \in 1..m /\ m # 0
    BY <1>3
  <2> QED
    BY <1>2, <1>4, <1>5, <2>1
<1> QED
  BY <1>4, <1>8, <1>9 DEF PassesThrough, t, s

\* What ResultIsWhole counts.
AllPassed(samples, stops) ==
  LET n == Len(samples)
      passed[i \in 0..n] == IF i = 0 THEN 0
                            ELSE IF samples[i].at = <<>> THEN passed[i - 1] ELSE passed[i - 1] + 1
  IN  /\ passed[n] = Len(stops)
      /\ \A i \in 1..n : samples[i].at # <<>> => samples[i].at = stops[passed[i]]
      /\ Last(samples).at = stops[Len(stops)]

LEMMA Passed ==
  ASSUME NEW samples, NEW stops, NEW m \in Nat, Len(stops) = m, PassesThrough(samples, stops, 0, m)
  PROVE  AllPassed(samples, stops)
<1> DEFINE n == Len(samples)
           R(f) == [i \in 0..n |-> IF i = 0 THEN 0
                                   ELSE IF samples[i].at = <<>> THEN f[i - 1] ELSE f[i - 1] + 1]
           passed == CHOOSE f : f = R(f)
<1>1. samples \in Seq(Reading) /\ samples # <<>> /\ samples[n].at # <<>>
  BY DEF PassesThrough
<1>2. n \in Nat \ {0} /\ Last(samples) = samples[n]
  BY <1>1, EmptySeq, LenProperties DEF Last
<1>3. PICK p : Counts(p, samples, stops, 0, m)
  BY DEF PassesThrough
<1>4. /\ p \in [0..n -> 0..m] /\ p[0] = 0 /\ p[n] = m
      /\ \A i \in 1..n : IF samples[i].at = <<>> THEN p[i] = p[i - 1]
                         ELSE p[i] = p[i - 1] + 1 /\ samples[i].at = stops[p[i]]
  BY <1>3 DEF Counts
<1> HIDE DEF n
<1>5. p = R(p)
  <2>1. ASSUME NEW i \in 0..n
        PROVE  p[i] = IF i = 0 THEN 0 ELSE IF samples[i].at = <<>> THEN p[i - 1] ELSE p[i - 1] + 1
    <3>1. CASE i = 0
      BY <1>4, <3>1
    <3>2. CASE i # 0
      <4>1. i \in 1..n
        BY <1>2, <3>2
      <4> QED
        BY <1>4, <3>2, <4>1
    <3> QED
      BY <3>1, <3>2
  <2>2. p = [i \in 0..n |-> p[i]]
    BY <1>4
  <2> QED
    BY <2>1, <2>2
<1>6. passed = R(passed)
  BY <1>5
<1> HIDE DEF passed
<1> DEFINE T == {j \in 1..n + 1 : passed[j - 1] = p[j - 1]}
<1>7. 1 \in T
  <2>1. 1 \in 1..n + 1 /\ 1 - 1 = 0 /\ 0 \in 0..n
    BY <1>2
  <2>2. passed[0] = 0
    BY <1>6, <2>1
  <2> QED
    BY <1>4, <2>1, <2>2
<1>8. ASSUME NEW j \in 2..n + 1, j - 1 \in T PROVE j \in T
  <2> DEFINE k == j - 1
  <2>1. k \in 1..n /\ k \in 0..n /\ k # 0 /\ j \in 1..n + 1
    BY <1>2
  <2>2. passed[k - 1] = p[k - 1]
    BY <1>8
  <2> HIDE DEF k
  <2>3. passed[k] = IF samples[k].at = <<>> THEN passed[k - 1] ELSE passed[k - 1] + 1
    BY <1>6, <2>1
  <2>4. passed[k] = p[k]
    BY <1>4, <2>1, <2>2, <2>3
  <2> QED
    BY <2>1, <2>4 DEF k
<1> HIDE DEF T
<1>9. 1..n + 1 \subseteq T
  <2> DEFINE h == n + 1
  <2>1. h \in Nat /\ \A j \in 2..h : j - 1 \in T => j \in T
    BY <1>2, <1>8
  <2> HIDE DEF h
  <2>2. 1..h \subseteq T
    BY <1>7, <2>1, Induction
  <2> QED
    BY <2>2 DEF h
<1>10. \A k \in 0..n : passed[k] = p[k]
  <2> TAKE k \in 0..n
  <2>1. k + 1 \in 1..n + 1 /\ (k + 1) - 1 = k
    BY <1>2
  <2> QED
    BY <1>9, <2>1 DEF T
<1>11. /\ passed[n] = m
       /\ \A i \in 1..n : samples[i].at # <<>> => samples[i].at = stops[passed[i]]
  <2>1. n \in 0..n /\ \A i \in 1..n : i \in 0..n
    BY <1>2
  <2> QED
    BY <1>4, <1>10, <2>1
<1>12. Last(samples).at = stops[m]
  <2>1. n \in 1..n
    BY <1>2
  <2> QED
    BY <1>1, <1>2, <1>4, <2>1
<1> QED
  BY <1>11, <1>12 DEF AllPassed, passed, n

\* A sequence of motions to go through.
Routes(of, m) ==
  /\ Len(of) = m
  /\ \A k \in 1..m : of[k] \in Seq(Plane) /\ Len(of[k]) >= 2

\* A generator that has kept a receiver has trajectories of all its segments in it.
LEMMA ReceivedAll ==
  ASSUME NEW outcome, NEW generator, NEW of, NEW m \in Nat, Routes(of, m),
         Stands(outcome, generator, of), Whole(outcome, of), outcome.receiver # <<>>
  PROVE  LET r == outcome.receiver[1] IN
         /\ Len(r) = m
         /\ \A k \in 1..m : r[k] \in Motion /\ r[k].path = of[k] /\ Len(r[k].path) >= 2
<1>1. Produces(outcome, of)
  BY DEF Stands, NoOutcome
<1>2. PICK r \in Seq(Made(of)) :
        Received(outcome, r) /\ Len(r) <= Len(of) /\ \A k \in 1..Len(r) : r[k].path = of[k]
  BY <1>1 DEF Produces
<1>3. Len(r) = m
  BY <1>2 DEF Whole, Routes
<1>4. outcome.receiver[1] = r
  BY <1>2 DEF Received
<1>5. ASSUME NEW k \in 1..m PROVE r[k] \in Motion /\ r[k].path = of[k] /\ Len(r[k].path) >= 2
  <2> DEFINE M == Made(of)
  <2>1. r \in Seq(M)
    BY <1>2
  <2> HIDE DEF M
  <2>2. r[k] \in M
    BY <1>3, <2>1, ElementOfSeq
  <2>3. r[k] \in [path : {of[j] : j \in 1..Len(of)}, duration : Durations]
    BY <2>2 DEF M, Made
  <2>4. r[k].path = of[k] /\ of[k] \in Seq(Plane) /\ Len(of[k]) >= 2
    BY <1>2, <1>3 DEF Routes
  <2>5. r[k] = [path |-> r[k].path, duration |-> r[k].duration] /\ r[k].duration \in Nat \ {0}
    BY <2>3, PlannerAssumption
  <2> QED
    BY <2>4, <2>5 DEF Motion
<1> QED
  BY <1>3, <1>4, <1>5

\* The stops of a motion of several segments, with and without their starts.
BothEnds(of) == [k \in 1..2 * Len(of) |-> IF k % 2 = 1 THEN of[(k + 1) \div 2][1] ELSE Last(of[k \div 2])]
LastEnds(of) == [k \in 1..Len(of) |-> Last(of[k])]

LEMMA TotgPasses ==
  ASSUME NEW m \in Nat \ {0}, NEW of, Routes(of, m), NEW r, Len(r) = m,
         \A k \in 1..m : r[k] \in Motion /\ r[k].path = of[k] /\ Len(r[k].path) >= 2
  PROVE  PassesThrough(totg_samples(r), BothEnds(of), 0, 2 * m)
<1> DEFINE stops == BothEnds(of)
           at == [k \in 0..m |-> 2 * k]
           seqs == [k \in 1..Len(r) |-> Sampled(r[k])]
<1>1. at \in [0..m -> Int] /\ at[0] = 0 /\ at[m] = 2 * m
  OBVIOUS
<1>2. Len(seqs) = m /\ totg_samples(r) = FlattenSeq(seqs)
  BY DEF totg_samples
<1>3. ASSUME NEW k \in 1..m
      PROVE  at[k - 1] <= at[k] /\ PassesThrough(seqs[k], stops, at[k - 1], at[k])
  <2> DEFINE a == 2 * (k - 1)
  <2>1. at[k - 1] = a /\ at[k] = a + 2 /\ a \in Int
    OBVIOUS
  <2>2. /\ a + 1 \in 1..2 * m /\ (a + 1) % 2 = 1 /\ ((a + 1) + 1) \div 2 = k
        /\ a + 2 \in 1..2 * m /\ (a + 2) % 2 = 0 /\ (a + 2) \div 2 = k
    OBVIOUS
  <2> HIDE DEF a
  <2>3. stops[a + 1] = of[k][1] /\ stops[a + 2] = Last(of[k])
    <3>1. stops = [j \in 1..2 * m |-> IF j % 2 = 1 THEN of[(j + 1) \div 2][1] ELSE Last(of[j \div 2])]
      BY DEF BothEnds, Routes
    <3> HIDE DEF stops
    <3> QED
      BY <2>2, <3>1
  <2>4. Last(of[k]) = of[k][Len(of[k])]
    BY DEF Last
  <2> HIDE DEF stops
  <2>5. PassesThrough(Sampled(r[k]), stops, a, a + 2)
    BY <2>1, <2>3, <2>4, SampledPasses
  <2>6. seqs[k] = Sampled(r[k])
    OBVIOUS
  <2> HIDE DEF seqs, at
  <2> QED
    BY <2>1, <2>5, <2>6
<1> HIDE DEF seqs, at, stops
<1>4. PassesThrough(FlattenSeq(seqs), stops, at[0], at[m])
  BY <1>1, <1>2, <1>3, TogetherPassThrough
<1> QED
  BY <1>1, <1>2, <1>4 DEF stops

LEMMA LegacyPasses ==
  ASSUME NEW m \in Nat \ {0}, NEW of, Len(of) = m, NEW r, Len(r) = m,
         \A k \in 1..m : r[k] \in Motion /\ Len(r[k].path) >= 2
                           /\ r[k].path[Len(r[k].path)] = Last(of[k])
  PROVE  PassesThrough(legacy_samples(r), LastEnds(of), 0, m)
<1> DEFINE stops == LastEnds(of)
           at == [k \in 0..m |-> k]
           seqs == [k \in 1..Len(r) |-> Tail(Sampled(r[k]))]
<1>1. at \in [0..m -> Int] /\ at[0] = 0 /\ at[m] = m
  OBVIOUS
<1>2. Len(seqs) = m /\ legacy_samples(r) = FlattenSeq(seqs)
  BY DEF legacy_samples
<1>3. ASSUME NEW k \in 1..m
      PROVE  at[k - 1] <= at[k] /\ PassesThrough(seqs[k], stops, at[k - 1], at[k])
  <2> DEFINE a == k - 1
  <2>1. at[k - 1] = a /\ at[k] = a + 1 /\ a \in Int /\ a + 1 = k
    OBVIOUS
  <2> HIDE DEF a
  <2>2. stops[a + 1] = Last(of[k])
    BY <2>1 DEF LastEnds
  <2> HIDE DEF stops
  <2>3. PassesThrough(Tail(Sampled(r[k])), stops, a, a + 1)
    BY <2>1, <2>2, TailPasses
  <2>4. seqs[k] = Tail(Sampled(r[k]))
    OBVIOUS
  <2> HIDE DEF seqs, at
  <2> QED
    BY <2>1, <2>3, <2>4
<1> HIDE DEF seqs, at, stops
<1>4. PassesThrough(FlattenSeq(seqs), stops, at[0], at[m])
  BY <1>1, <1>2, <1>3, TogetherPassThrough
<1> QED
  BY <1>1, <1>2, <1>4 DEF stops

\* The last segment ends where the motion does.
LEMMA EndsTogether ==
  ASSUME NEW w \in Seq(Plane), NEW segs, Segmented(segs, w, Len(w))
  PROVE  Last(segs[Len(segs)]) = Last(w)
<1> DEFINE m == Len(segs)
           n == Len(w)
<1>1. m \in Nat \ {0} /\ n \in Nat
  BY SegmentsLong, LenProperties
<1>2. PICK c : CutAt(segs, w, n, c)
  BY DEF Segmented
<1>3. c \in [0..m -> 1..n] /\ c[m] = n /\ c[m - 1] < n /\ segs[m] = SubSeq(w, c[m - 1], c[m])
  <2>1. m \in 1..m
    BY <1>1
  <2> QED
    BY <1>2, <2>1 DEF CutAt
<1> HIDE DEF m, n
<1> DEFINE a == c[m - 1]
           s == SubSeq(w, a, n)
<1>4. a \in 1..n /\ a < n /\ segs[m] = s
  BY <1>1, <1>3
<1> HIDE DEF a
<1>5. \A j \in a..n : w[j] \in Plane
  BY <1>1, <1>4, ElementOfSeq DEF n
<1>6. /\ Len(s) = IF a <= n THEN n - a + 1 ELSE 0
      /\ \A j \in 1..n - a + 1 : s[j] = w[a + j - 1]
  BY <1>1, <1>4, <1>5, SubSeqProperties
<1> HIDE DEF s
<1>7. Len(s) = n - a + 1 /\ Len(s) \in 1..n - a + 1 /\ a + Len(s) - 1 = n
  BY <1>1, <1>4, <1>6
<1>8. s[Len(s)] = w[n]
  BY <1>6, <1>7
<1> QED
  BY <1>4, <1>8 DEF Last, m, n

LEMMA WholeWhenDone ==
  ASSUME ServiceInv
  PROVE  ResultIsWhole
<1> SUFFICES ASSUME result.kind = "samples"
             PROVE  ResultIsWhole
  BY DEF ResultIsWhole
<1> DEFINE samples == result.samples
           of == IF result.from = "totg" THEN totg_segments ELSE segments
           ends == IF result.from = "totg"
                     THEN [k \in 1..2 * Len(of) |->
                             IF k % 2 = 1 THEN of[(k + 1) \div 2][1] ELSE Last(of[k \div 2])]
                     ELSE [k \in 1..Len(of) |-> Last(of[k])]
<1>all. AllPassed(samples, ends) /\ ends[Len(ends)] = Last(input) => ResultIsWhole
  BY DEF ResultIsWhole, AllPassed
<1>when. ASSUME NEW j \in Nat, Len(ends) = j, PassesThrough(samples, ends, 0, j), ends[j] = Last(input)
      PROVE  AllPassed(samples, ends) /\ ends[Len(ends)] = Last(input)
  <2> HIDE DEF samples, ends
  <2> QED
    BY <1>when, Passed
<1>1. phase = "done" /\ result = Decision
  <2>1. NoResult.kind = "none"
    BY DEF NoResult
  <2> QED
    BY <2>1 DEF ServiceInv
<1>2. totg.receiver # <<>> \/ legacy.receiver # <<>>
  BY <1>1 DEF Decision, NoResult
<1>3. totg # NoOutcome \/ legacy # NoOutcome
  BY <1>2 DEF NoOutcome
<1>4. Prepared /\ Generating
  BY <1>3 DEF ServiceInv, Untouched, Prepared, Trivial
<1> DEFINE m == Len(segments)
           n == Len(totg_segments)
<1>5. waypoints \in Seq(Plane) /\ Len(waypoints) >= 2 /\ Last(waypoints) = Last(input)
  BY <1>4 DEF Prepared, Generating, Deduplicated
<1>6. m \in Nat \ {0} /\ Routes(segments, m) /\ Last(segments[m]) = Last(input)
  BY <1>4, <1>5, SegmentsLong, EndsTogether DEF Generating, Routes
<1>7. n \in Nat \ {0} /\ Routes(totg_segments, n) /\ Last(totg_segments[n]) = Last(input)
  <2>1. CASE config.segment_totg
    BY <1>6, <2>1 DEF totg_segments
  <2>2. CASE ~config.segment_totg
    <3> DEFINE s == <<waypoints>>
    <3>1. totg_segments = s /\ Len(s) = 1 /\ s[1] = waypoints
      BY <2>2 DEF totg_segments
    <3> HIDE DEF s
    <3> QED
      BY <1>5, <3>1 DEF Routes
  <2> QED
    BY <2>1, <2>2
<1> HIDE DEF m, n
<1>8. CASE totg.receiver # <<>>
  <2> DEFINE r == totg.receiver[1]
             stops == BothEnds(totg_segments)
  <2>1. result.from = "totg" /\ samples = totg_samples(r)
    BY <1>1, <1>8 DEF Decision
  <2>ends. ends = stops
    BY <2>1 DEF BothEnds
  <2>2. Stands(totg, "totg", totg_segments) /\ Whole(totg, totg_segments)
    BY <1>1, <1>4 DEF Generating
  <2>3. Len(r) = n /\ \A k \in 1..n : r[k] \in Motion /\ r[k].path = totg_segments[k] /\ Len(r[k].path) >= 2
    BY <1>7, <1>8, <2>2, ReceivedAll
  <2> HIDE DEF r
  <2>4. PassesThrough(samples, stops, 0, 2 * n)
    BY <1>7, <2>1, <2>3, TotgPasses
  <2>5. 2 * n \in Nat /\ Len(stops) = 2 * n
    BY <1>7 DEF BothEnds, n
  <2>6. stops[2 * n] = Last(input)
    <3>1. 2 * n \in 1..2 * n /\ (2 * n) % 2 = 0 /\ (2 * n) \div 2 = n
      BY <1>7
    <3>2. stops[2 * n] = Last(totg_segments[n])
      BY <3>1 DEF BothEnds, n
    <3> QED
      BY <1>7, <3>2
  <2> HIDE DEF samples, stops, ends
  <2> DEFINE j == 2 * n
  <2>7. j \in Nat /\ Len(ends) = j /\ PassesThrough(samples, ends, 0, j) /\ ends[j] = Last(input)
    BY <2>ends, <2>4, <2>5, <2>6
  <2> HIDE DEF j
  <2> QED
    BY <1>all, <1>when, <2>7
<1>9. CASE totg.receiver = <<>>
  <2> DEFINE r == legacy.receiver[1]
             stops == LastEnds(segments)
  <2>1. result.from = "legacy" /\ samples = legacy_samples(r) /\ legacy.receiver # <<>>
    BY <1>1, <1>2, <1>9 DEF Decision
  <2>ends. ends = stops
    BY <2>1 DEF LastEnds
  <2>2. Stands(legacy, "legacy", Straightened) /\ Whole(legacy, Straightened)
    BY <1>1, <1>4 DEF Generating
  <2>3. Len(Straightened) = m /\ \A k \in 1..m : EndsAlike(segments[k], Straightened[k])
    <3>1. Diameter \in Nat
      BY PlannerAssumption
    <3>2. \A k \in 1..m : EndsAlike(segments[k], apply_colinearization(segments[k], Diameter))
      BY <1>6, <3>1, ColinearizedClosely DEF Routes
    <3> QED
      BY <1>6, <3>2 DEF Straightened, m
  <2>4. Routes(Straightened, m)
    BY <2>3 DEF Routes, EndsAlike
  <2>5. Len(r) = m /\ \A k \in 1..m : r[k] \in Motion /\ r[k].path = Straightened[k] /\ Len(r[k].path) >= 2
    BY <1>6, <2>1, <2>2, <2>4, ReceivedAll
  <2> HIDE DEF r
  <2>6. \A k \in 1..m : r[k].path[Len(r[k].path)] = Last(segments[k])
    BY <2>3, <2>5 DEF EndsAlike, Last
  <2>7. PassesThrough(samples, stops, 0, m)
    BY <1>6, <2>1, <2>5, <2>6, LegacyPasses DEF Routes
  <2>8. Len(stops) = m /\ stops[m] = Last(input)
    BY <1>6 DEF LastEnds, m
  <2> HIDE DEF samples, stops, ends
  <2> QED
    BY <1>all, <1>when, <1>6, <2>ends, <2>7, <2>8
<1> QED
  BY <1>8, <1>9

\* Whatever fails, and for all waypoints and configurations, samples that infer returns are
\* those of the whole motion (the success callbacks and the decider of infer).
THEOREM SamplesAreWhole == Spec => []ResultIsWhole
<1> QED
  BY ServiceInvInit, ServiceInvNext, WholeWhenDone, PTL DEF Spec

-----------------------------------------------------------------------------
(* The MoveIt front end *)

State == [at : Plane, other : Nat, wait : Nat]

LEMMA Multiples ==
  ASSUME NEW t \in Nat \ {0}, NEW q \in Int
  PROVE  (t * q) % t = 0
<1> DEFINE d == (t * q) \div t
           r == (t * q) % t
<1>1. t * q \in Int
  OBVIOUS
<1>2. d \in Int /\ r \in 0..t - 1 /\ t * q = t * d + r
  BY <1>1
<1> HIDE DEF d, r
<1>3. t * (q - d) = r
  BY <1>2
<1>4. CASE q - d >= 1
  <2>1. t * (q - d) >= t
    BY <1>2, <1>4
  <2> QED
    BY <1>2, <1>3, <2>1
<1>5. CASE q - d <= -1
  <2>1. t * (q - d) <= -t
    BY <1>2, <1>5
  <2> QED
    BY <1>2, <1>3, <2>1
<1>6. CASE q - d = 0
  <2>1. t * (q - d) = 0
    BY <1>6
  <2> QED
    BY <1>3, <2>1 DEF r
<1> QED
  BY <1>2, <1>4, <1>5, <1>6

\* A state that differs from another one by full turns of the first joint.
TurnedFrom(s, of) ==
  /\ s \in State
  /\ \E q \in Int : s.at[1] = of.at[1] + Turn * q
  /\ s.at[2] = of.at[2] /\ s.other = of.other /\ s.wait = of.wait

LEMMA TurnedIsSame ==
  ASSUME NEW of \in State, NEW s, TurnedFrom(s, of)
  PROVE  SamePlace(s.at, of.at) /\ [s EXCEPT !.at = <<>>] = [of EXCEPT !.at = <<>>]
<1>1. Turn \in Nat \ {0}
  BY MoveItAssumption
<1>2. s \in State /\ s.at[2] = of.at[2] /\ s.other = of.other /\ s.wait = of.wait
  BY DEF TurnedFrom
<1>3. PICK q \in Int : s.at[1] = of.at[1] + Turn * q
  BY DEF TurnedFrom
<1>4. of.at[1] \in Int
  BY DEF State, Plane
<1>5. Turn * q \in Int
  BY <1>1
<1>6. s.at[1] - of.at[1] = Turn * q
  BY <1>3, <1>4, <1>5
<1>7. SamePlace(s.at, of.at)
  BY <1>1, <1>2, <1>6, Multiples DEF SamePlace
<1>8. [s EXCEPT !.at = <<>>] = [of EXCEPT !.at = <<>>]
  BY <1>2 DEF State
<1> QED
  BY <1>7, <1>8

LEMMA SelfTurned ==
  ASSUME NEW s \in State
  PROVE  TurnedFrom(s, s)
<1>1. s.at[1] \in Int /\ Turn \in Nat /\ 0 \in Int
  BY MoveItAssumption DEF State, Plane
<1>2. s.at[1] = s.at[1] + Turn * 0
  BY <1>1
<1> QED
  BY <1>1, <1>2 DEF TurnedFrom

UnwindStep(s, last) ==
  LET near(position) == position + (Turn * ((2 * (last.at[1] - position) + Turn) \div (2 * Turn)))
  IN  [s EXCEPT !.at = <<near(@[1]), @[2]>>]

\* No more than half a turn apart in the first joint.
Near(s, last) == 2 * Size(s.at[1] - last.at[1]) <= Turn

LEMMA UnwindTurns ==
  ASSUME NEW s \in State, NEW last \in State
  PROVE  TurnedFrom(UnwindStep(s, last), s) /\ Near(UnwindStep(s, last), last)
<1> DEFINE x == s.at[1]
           y == s.at[2]
           q == (2 * (last.at[1] - x) + Turn) \div (2 * Turn)
           z == last.at[1]
           new == [s EXCEPT !.at = <<x + Turn * q, y>>]
<1>1. x \in Int /\ y \in Int /\ last.at[1] \in Int /\ Turn \in Nat \ {0}
  BY MoveItAssumption DEF State, Plane
<1>2. q \in Int /\ 2 * (z - (x + Turn * q)) <= Turn /\ -Turn <= 2 * (z - (x + Turn * q))
  <2> DEFINE u == 2 * (z - x) + Turn
             v == 2 * Turn
  <2>1. u \in Int /\ v \in Nat \ {0} /\ q = u \div v
    BY <1>1
  <2> HIDE DEF u, v, q
  <2>2. q \in Int /\ v * q <= u /\ u < v * q + v
    BY <2>1
  <2>3. v * q = 2 * (Turn * q) /\ Turn * q \in Int
    BY <1>1, <2>2 DEF v
  <2> QED
    BY <1>1, <2>2, <2>3 DEF u, v
<1>3. UnwindStep(s, last) = new
  BY DEF UnwindStep
<1> HIDE DEF q
<1>4. x + Turn * q \in Int
  BY <1>1, <1>2
<1>5. <<x + Turn * q, y>> \in Plane
  BY <1>1, <1>4 DEF Plane
<1> DEFINE place == <<x + Turn * q, y>>
<1>6. place[1] = x + Turn * q /\ place[2] = y
  OBVIOUS
<1>7. new = [s EXCEPT !.at = place]
  OBVIOUS
<1> HIDE DEF place, new
<1>8. new \in State /\ new.at = place /\ new.other = s.other /\ new.wait = s.wait
  BY <1>5, <1>7 DEF State, place
<1>9. new.at[1] = s.at[1] + Turn * q /\ new.at[2] = s.at[2]
  BY <1>6, <1>8
<1>10. Near(new, last)
  BY <1>1, <1>2, <1>4, <1>9 DEF Near, Size
<1> QED
  BY <1>2, <1>3, <1>8, <1>9, <1>10 DEF TurnedFrom

\* The same motion, but for full turns.
Unwound(states, of) ==
  /\ states \in Seq(State) /\ Len(states) = Len(of)
  /\ \A k \in 1..Len(of) : TurnedFrom(states[k], of[k])

LEMMA UnwindKeeps ==
  ASSUME NEW states \in Seq(State)
  PROVE  /\ Unwound(unwind(states), states)
         /\ \A k \in 2..Len(states) : Near(unwind(states)[k], unwind(states)[k - 1])
<1> DEFINE n == Len(states)
           first == states[1]
           R(f) == [k \in 1..n |-> IF k = 1 THEN first ELSE UnwindStep(states[k], f[k - 1])]
           unwound == CHOOSE f : f = R(f)
<1>1. n \in Nat /\ \A k \in 1..n : states[k] \in State
  BY LenProperties, ElementOfSeq
<1>2. unwind(states) = unwound
  BY DEF unwind, UnwindStep
<1>3. \E f : f = R(f)
  <2>1. CASE n = 0
    <3> DEFINE none == [k \in 1..0 |-> first]
    <3>1. none = R(none)
      BY <2>1
    <3> QED
      BY <3>1
  <2>2. CASE n # 0
    <3> DEFINE step == [k \in 2..n |-> [x \in State |-> UnwindStep(states[k], x)]]
    <3>1. ASSUME NEW k \in 2..n, NEW x \in State PROVE UnwindStep(states[k], x) \in State
      <4>1. states[k] \in State
        BY <1>1
      <4> QED
        BY <4>1, UnwindTurns DEF TurnedFrom
    <3>2. first \in State /\ n \in Nat \ {0}
      BY <1>1, <2>2
    <3> HIDE DEF n, first
    <3>3. StaysIn(State, n, step)
      BY <3>1 DEF StaysIn
    <3> HIDE DEF step
    <3>4. PICK f \in [1..n -> State] : GoesBy(f, n, first, step)
      BY <3>2, <3>3, Recursion
    <3>5. ASSUME NEW k \in 1..n PROVE f[k] = IF k = 1 THEN first ELSE UnwindStep(states[k], f[k - 1])
      <4>1. CASE k = 1
        BY <3>4, <4>1 DEF GoesBy
      <4>2. CASE k # 1
        <5>1. k \in 2..n /\ k - 1 \in 1..n /\ f[k - 1] \in State
          BY <3>2, <4>2
        <5>2. step[k][f[k - 1]] = UnwindStep(states[k], f[k - 1])
          BY <5>1 DEF step
        <5> QED
          BY <3>4, <4>2, <5>1, <5>2 DEF GoesBy
      <4> QED
        BY <4>1, <4>2
    <3>6. f = R(f)
      BY <3>5
    <3> QED
      BY <3>6
  <2> QED
    BY <2>1, <2>2
<1>4. unwound = R(unwound)
  BY <1>3
<1> HIDE DEF unwound, n
<1> DEFINE T == {k \in 1..n : TurnedFrom(unwound[k], states[k])}
<1>c. ASSUME NEW k \in 2..n, TurnedFrom(unwound[k - 1], states[k - 1])
      PROVE  TurnedFrom(unwound[k], states[k]) /\ Near(unwound[k], unwound[k - 1])
  <2>1. k \in 1..n /\ k # 1
    BY <1>1
  <2>2. unwound[k] = UnwindStep(states[k], unwound[k - 1])
    BY <1>4, <2>1
  <2>3. unwound[k - 1] \in State
    BY <1>c DEF TurnedFrom
  <2>4. states[k] \in State
    BY <1>1, <2>1
  <2> QED
    BY <2>2, <2>3, <2>4, UnwindTurns
<1>5. 1..n \subseteq T
  <2>1. CASE n = 0
    BY <2>1
  <2>2. CASE n # 0
    <3>1. 1 \in 1..n
      BY <1>1, <2>2
    <3>2. unwound[1] = states[1]
      BY <1>4, <3>1
    <3>3. 1 \in T
      BY <1>1, <3>1, <3>2, SelfTurned
    <3>4. ASSUME NEW k \in 2..n, k - 1 \in T PROVE k \in T
      <4>1. k \in 1..n
        BY <1>1
      <4>2. TurnedFrom(unwound[k], states[k])
        BY <1>c, <3>4
      <4> QED
        BY <4>1, <4>2
    <3> HIDE DEF T
    <3>5. \A k \in 2..n : k - 1 \in T => k \in T
      BY <3>4
    <3> QED
      BY <1>1, <3>3, <3>5, Induction
  <2> QED
    BY <2>1, <2>2
<1>6. \A k \in 1..n : TurnedFrom(unwound[k], states[k])
  BY <1>5
<1>7. unwound = [k \in 1..n |-> unwound[k]]
  BY <1>4
<1>8. unwound \in [1..n -> State]
  BY <1>6, <1>7 DEF TurnedFrom
<1>9. unwound \in Seq(State) /\ Len(unwound) = n
  BY <1>1, <1>8
<1>10. \A k \in 2..n : Near(unwound[k], unwound[k - 1])
  <2> TAKE k \in 2..n
  <2>1. k - 1 \in 1..n
    BY <1>1
  <2> QED
    BY <1>c, <1>6, <2>1
<1> QED
  BY <1>2, <1>6, <1>9, <1>10 DEF Unwound, n

LEMMA UnwoundItself ==
  ASSUME NEW states \in Seq(State)
  PROVE  Unwound(states, states)
<1>1. \A k \in 1..Len(states) : states[k] \in State
  BY LenProperties, ElementOfSeq
<1> QED
  BY <1>1, SelfTurned DEF Unwound

-----------------------------------------------------------------------------
(* Ways *)

LEMMA MostOfTwo ==
  ASSUME NEW x \in Int, NEW y \in Int
  PROVE  /\ Max({x, y}) = IF x >= y THEN x ELSE y
         /\ Min({x, y}) = IF x <= y THEN x ELSE y
<1>1. Max({x, y}) = IF x >= y THEN x ELSE y
  <2> DEFINE P(m) == m \in {x, y} /\ \A z \in {x, y} : m >= z
  <2>1. \E m : P(m)
    <3>1. P(x) \/ P(y)
      OBVIOUS
    <3> QED
      BY <3>1
  <2>2. P(CHOOSE m : P(m))
    BY <2>1
  <2>3. Max({x, y}) = CHOOSE m : P(m)
    BY DEF Max
  <2> QED
    BY <2>2, <2>3
<1>2. Min({x, y}) = IF x <= y THEN x ELSE y
  <2> DEFINE P(m) == m \in {x, y} /\ \A z \in {x, y} : m <= z
  <2>1. \E m : P(m)
    <3>1. P(x) \/ P(y)
      OBVIOUS
    <3> QED
      BY <3>1
  <2>2. P(CHOOSE m : P(m))
    BY <2>1
  <2>3. Min({x, y}) = CHOOSE m : P(m)
    BY DEF Min
  <2> QED
    BY <2>2, <2>3
<1> QED
  BY <1>1, <1>2

\* What is rounded up is the least that suffices.
LEMMA RoundedUp ==
  ASSUME NEW x \in Nat, NEW y \in Nat \ {0}
  PROVE  /\ (x + y - 1) \div y \in Nat
         /\ x <= y * ((x + y - 1) \div y)
         /\ \A p \in Nat : x <= y * p => (x + y - 1) \div y <= p
<1> DEFINE u == x + y - 1
           q == u \div y
<1>1. u \in Nat
  OBVIOUS
<1> HIDE DEF u
<1>2. q \in Int /\ y * q <= u /\ u < y * q + y
  BY <1>1
<1> HIDE DEF q
<1>3. q >= 0
  <2>1. CASE q <= -1
    <3>1. y * q <= -y
      BY <1>2, <2>1
    <3> QED
      BY <1>1, <1>2, <3>1
  <2> QED
    BY <1>2, <2>1
<1>4. y * q \in Nat /\ x <= y * q
  BY <1>2, <1>3 DEF u
<1>5. ASSUME NEW p \in Nat, x <= y * p PROVE q <= p
  <2>1. CASE q >= p + 1
    <3>1. y * q >= y * (p + 1)
      BY <1>2, <1>3, <2>1
    <3>2. y * (p + 1) = y * p + y /\ y * p \in Nat
      OBVIOUS
    <3> QED
      BY <1>2, <1>4, <1>5, <3>1, <3>2 DEF u
  <2> QED
    BY <1>2, <2>1
<1> QED
  BY <1>2, <1>3, <1>4, <1>5 DEF q, u

\* The shortest way around is no longer than any, and one of at most half a turn is it.
LEMMA AroundLeast ==
  ASSUME NEW a \in Int, NEW b \in Int, NEW d \in Int, NEW q \in Int, b - a = d + Turn * q
  PROVE  /\ Around(a, b) \in Nat /\ Around(a, b) <= Size(d)
         /\ 2 * Size(d) <= Turn => Around(a, b) = Size(d)
<1> DEFINE e == b - a
           r == e % Turn
           p == e \div Turn
<1>1. Turn \in Nat \ {0} /\ e \in Int
  BY MoveItAssumption
<1> HIDE DEF e
<1>2. p \in Int /\ r \in 0..Turn - 1 /\ e = Turn * p + r
  BY <1>1
<1>3. Around(a, b) = Min({r, Turn - r})
  BY DEF Around, e
<1> HIDE DEF r, p
<1>4. Around(a, b) = IF r <= Turn - r THEN r ELSE Turn - r
  <2>1. r \in Int /\ Turn - r \in Int
    BY <1>1, <1>2
  <2> QED
    BY <1>3, <2>1, MostOfTwo
<1> DEFINE m == p - q
<1>5. d = Turn * m + r /\ m \in Int
  <2>1. Turn * (p - q) = Turn * p - Turn * q /\ Turn * p \in Int /\ Turn * q \in Int
    BY <1>1, <1>2
  <2> QED
    BY <1>2, <2>1 DEF e
<1> HIDE DEF m
<1>6. CASE m >= 1
  <2>1. Turn * m >= Turn
    BY <1>1, <1>5, <1>6
  <2> QED
    BY <1>1, <1>2, <1>4, <1>5, <2>1 DEF Size
<1>7. CASE m = 0
  <2>1. d = r
    BY <1>1, <1>2, <1>5, <1>7
  <2> QED
    BY <1>1, <1>2, <1>4, <2>1 DEF Size
<1>8. CASE m = -1
  <2>1. d = r - Turn
    BY <1>1, <1>2, <1>5, <1>8
  <2> QED
    BY <1>1, <1>2, <1>4, <2>1 DEF Size
<1>9. CASE m <= -2
  <2>1. Turn * m <= -(2 * Turn)
    BY <1>1, <1>5, <1>9
  <2> QED
    BY <1>1, <1>2, <1>4, <1>5, <2>1 DEF Size
<1> QED
  BY <1>5, <1>6, <1>7, <1>8, <1>9

Adds(sum, numbers, n) ==
  sum[0] = 0 /\ \A k \in 1..n : sum[k] = sum[k - 1] + numbers[k]

LEMMA SumIs ==
  ASSUME NEW n \in Nat, NEW numbers \in [1..n -> Int]
  PROVE  \E sum \in [0..n -> Int] : Adds(sum, numbers, n) /\ Sum(numbers) = sum[n]
<1> DEFINE R(f) == [k \in 0..n |-> IF k = 0 THEN 0 ELSE f[k - 1] + numbers[k]]
           sum == CHOOSE f : f = R(f)
<1>1. Len(numbers) = n
  OBVIOUS
<1>2. Sum(numbers) = sum[n]
  BY <1>1 DEF Sum
<1>3. \E f \in [0..n -> Int] : f = R(f)
  <2> DEFINE step == [i \in 2..n + 1 |-> [x \in Int |-> x + numbers[i - 1]]]
  <2>1. ASSUME NEW i \in 2..n + 1, NEW x \in Int PROVE x + numbers[i - 1] \in Int
    <3>1. i - 1 \in 1..n
      OBVIOUS
    <3> QED
      BY <3>1
  <2>2. n + 1 \in Nat \ {0} /\ 0 \in Int
    OBVIOUS
  <2>3. StaysIn(Int, n + 1, step)
    BY <2>1 DEF StaysIn
  <2>4. \A i \in 2..n + 1 : \A x \in Int : step[i][x] = x + numbers[i - 1]
    OBVIOUS
  <2> HIDE DEF step
  <2>5. PICK f \in [1..n + 1 -> Int] : GoesBy(f, n + 1, 0, step)
    BY <2>2, <2>3, Recursion
  <2> DEFINE g == [k \in 0..n |-> f[k + 1]]
  <2>6. g \in [0..n -> Int] /\ \A k \in 0..n : g[k] = f[k + 1]
    OBVIOUS
  <2> HIDE DEF g
  <2>7. ASSUME NEW k \in 0..n PROVE g[k] = IF k = 0 THEN 0 ELSE g[k - 1] + numbers[k]
    <3>1. CASE k = 0
      BY <2>5, <2>6, <3>1 DEF GoesBy
    <3>2. CASE k # 0
      <4>1. k + 1 \in 2..n + 1 /\ (k + 1) - 1 = k /\ k - 1 \in 0..n /\ (k - 1) + 1 = k /\ k \in 1..n + 1
        BY <3>2
      <4>2. f[k + 1] = step[k + 1][f[k]]
        BY <2>5, <4>1 DEF GoesBy
      <4>3. step[k + 1][f[k]] = f[k] + numbers[k]
        BY <2>4, <4>1
      <4> QED
        BY <2>6, <3>2, <4>1, <4>2, <4>3
    <3> QED
      BY <3>1, <3>2
  <2>8. g = R(g)
    BY <2>6, <2>7
  <2> QED
    BY <2>6, <2>8
<1>4. sum = R(sum)
  BY <1>3
<1> HIDE DEF sum
<1>5. \A k \in 0..n : sum[k] = IF k = 0 THEN 0 ELSE sum[k - 1] + numbers[k]
  BY <1>4
<1>6. sum[0] = 0 /\ \A k \in 1..n : sum[k] = sum[k - 1] + numbers[k]
  BY <1>5
<1> DEFINE T == {k \in 1..n : sum[k] \in Int}
<1>7. 1..n \subseteq T
  <2>1. CASE n = 0
    BY <2>1
  <2>2. CASE n # 0
    <3>1. 1 \in T
      BY <1>6, <2>2
    <3>2. \A k \in 2..n : k - 1 \in T => k \in T
      BY <1>6
    <3> HIDE DEF T
    <3> QED
      BY <3>1, <3>2, Induction
  <2> QED
    BY <2>1, <2>2
<1>8. \A k \in 0..n : sum[k] \in Int
  BY <1>6, <1>7
<1>9. sum \in [0..n -> Int]
  <2>1. sum = [k \in 0..n |-> sum[k]]
    BY <1>4
  <2> QED
    BY <1>8, <2>1
<1> QED
  BY <1>2, <1>6, <1>9 DEF Adds

\* The way there is through points.
LengthOf(points) == Sum([k \in 1..Len(points) - 1 |-> Linf(points[k], points[k + 1])])

\* The way that has been covered at each point.
Along(at, points) ==
  /\ at \in [1..Len(points) -> Nat] /\ at[1] = 0
  /\ \A k \in 2..Len(points) : at[k] = at[k - 1] + Linf(points[k - 1], points[k])
  /\ LengthOf(points) = at[Len(points)]

LEMMA Milestones ==
  ASSUME NEW points \in Seq(Plane), points # <<>>
  PROVE  \E at : Along(at, points)
<1> DEFINE n == Len(points)
           legs == [k \in 1..n - 1 |-> Linf(points[k], points[k + 1])]
<1>1. n \in Nat \ {0} /\ \A k \in 1..n : points[k] \in Plane
  BY EmptySeq, LenProperties, ElementOfSeq
<1>2. LengthOf(points) = Sum(legs)
  BY DEF LengthOf
<1> HIDE DEF n
<1>3. n - 1 \in Nat
  BY <1>1
<1>4. ASSUME NEW k \in 1..n - 1 PROVE legs[k] = Linf(points[k], points[k + 1]) /\ legs[k] \in Nat
  <2>1. k \in 1..n /\ k + 1 \in 1..n
    BY <1>1
  <2> QED
    BY <1>1, <2>1, LinfFacts
<1>5. legs \in [1..n - 1 -> Int]
  BY <1>4
<1> DEFINE m == n - 1
<1> HIDE DEF legs, m
<1>6. PICK sum \in [0..m -> Int] : Adds(sum, legs, m) /\ Sum(legs) = sum[m]
  BY <1>3, <1>5, SumIs DEF m
<1> DEFINE at == [k \in 1..n |-> sum[k - 1]]
<1>7. m + 1 = n /\ m \in Nat
  BY <1>1, <1>3 DEF m
<1>8. \A k \in 1..n : at[k] = sum[k - 1]
  OBVIOUS
<1>9. at = [k \in 1..n |-> at[k]]
  OBVIOUS
<1> HIDE DEF at
<1>10. at[1] = 0
  BY <1>1, <1>6, <1>8 DEF Adds
<1>11. ASSUME NEW k \in 2..n
       PROVE  at[k] = at[k - 1] + Linf(points[k - 1], points[k]) /\ Linf(points[k - 1], points[k]) \in Nat
  <2>1. k \in 1..n /\ k - 1 \in 1..n /\ k - 1 \in 1..m /\ (k - 1) + 1 = k
    BY <1>1, <1>7
  <2>2. sum[k - 1] = sum[(k - 1) - 1] + legs[k - 1]
    BY <1>6, <2>1 DEF Adds
  <2>3. legs[k - 1] = Linf(points[k - 1], points[k]) /\ legs[k - 1] \in Nat
    BY <1>4, <2>1 DEF m
  <2> QED
    BY <1>8, <2>1, <2>2, <2>3
<1> DEFINE T == {k \in 1..n : at[k] \in Nat}
<1>12. 1..n \subseteq T
  <2>1. 1 \in T
    BY <1>1, <1>10
  <2>2. ASSUME NEW k \in 2..n, k - 1 \in T PROVE k \in T
    BY <1>11, <2>2
  <2> HIDE DEF T
  <2>3. \A k \in 2..n : k - 1 \in T => k \in T
    BY <2>2
  <2>4. n \in Nat
    BY <1>1
  <2> QED
    BY <2>1, <2>3, <2>4, Induction
<1>13. at \in [1..n -> Nat]
  BY <1>9, <1>12
<1>14. LengthOf(points) = at[n]
  <2>1. n \in 1..n /\ n - 1 = m
    BY <1>1, <1>7
  <2> QED
    BY <1>2, <1>6, <1>8, <2>1
<1> QED
  BY <1>10, <1>11, <1>13, <1>14 DEF Along, n

\* Nothing is shorter than straight.
LEMMA StraightIsShortest ==
  ASSUME NEW points \in Seq(Plane), NEW at, Along(at, points),
         NEW i \in 1..Len(points), NEW j \in i..Len(points)
  PROVE  at[i] + Linf(points[i], points[j]) <= at[j]
<1> DEFINE n == Len(points)
           T == {k \in 1..n : k >= i => at[i] + Linf(points[i], points[k]) <= at[k]}
<1>1. n \in Nat /\ \A k \in 1..n : points[k] \in Plane
  BY LenProperties, ElementOfSeq
<1>2. /\ i \in 1..n /\ j \in 1..n /\ j >= i
      /\ \A k \in 1..n : at[k] \in Nat
      /\ \A k \in 2..n : at[k] = at[k - 1] + Linf(points[k - 1], points[k])
  BY <1>1 DEF Along
<1> HIDE DEF n
<1>3. at[i] + Linf(points[i], points[i]) <= at[i]
  <2>1. Linf(points[i], points[i]) = 0
    BY <1>1, <1>2, LinfFacts
  <2> QED
    BY <1>2, <2>1
<1>4. 1 \in T
  <2>1. 1 >= i => i = 1
    BY <1>1, <1>2
  <2>2. 1 \in 1..n
    BY <1>1, <1>2
  <2> QED
    BY <1>3, <2>1, <2>2
<1>5. ASSUME NEW k \in 2..n, k - 1 \in T PROVE k \in T
  <2>1. k \in 1..n /\ k - 1 \in 1..n
    BY <1>1
  <2>2. CASE k < i
    BY <1>1, <1>2, <2>1, <2>2
  <2>3. CASE k = i
    BY <1>3, <2>1, <2>3
  <2>4. CASE k > i
    <3>1. k - 1 >= i
      BY <1>1, <1>2, <2>4
    <3>2. at[i] + Linf(points[i], points[k - 1]) <= at[k - 1]
      BY <1>5, <3>1
    <3>3. /\ Linf(points[i], points[k]) <= Linf(points[i], points[k - 1]) + Linf(points[k - 1], points[k])
          /\ Linf(points[i], points[k]) \in Nat /\ Linf(points[i], points[k - 1]) \in Nat
          /\ Linf(points[k - 1], points[k]) \in Nat
      BY <1>1, <1>2, <2>1, LinfFacts
    <3>4. at[k] = at[k - 1] + Linf(points[k - 1], points[k]) /\ at[i] \in Nat /\ at[k] \in Nat /\ at[k - 1] \in Nat
      BY <1>2, <2>1
    <3>5. at[i] + Linf(points[i], points[k]) <= at[k]
      <4> DEFINE now == at[k]
                 before == at[k - 1]
                 start == at[i]
                 whole == Linf(points[i], points[k])
                 first == Linf(points[i], points[k - 1])
                 second == Linf(points[k - 1], points[k])
      <4>1. /\ now \in Nat /\ before \in Nat /\ start \in Nat /\ whole \in Nat /\ first \in Nat /\ second \in Nat
            /\ start + first <= before /\ whole <= first + second /\ now = before + second
        BY <3>2, <3>3, <3>4
      <4> HIDE DEF now, before, start, whole, first, second
      <4>2. start + whole <= now
        BY <4>1
      <4> QED
        BY <4>2 DEF now, start, whole
    <3> QED
      BY <2>1, <3>5
  <2> QED
    BY <1>1, <1>2, <2>1, <2>2, <2>3, <2>4
<1> HIDE DEF T
<1>6. 1..n \subseteq T
  <2>1. \A k \in 2..n : k - 1 \in T => k \in T
    BY <1>5
  <2> QED
    BY <1>1, <1>4, <2>1, Induction
<1> QED
  BY <1>2, <1>6 DEF T

\* Points picked in order from others, from the first one to the last one.
InOrder(g, picked, points) ==
  /\ g \in [1..Len(picked) -> 1..Len(points)]
  /\ g[1] = 1 /\ g[Len(picked)] = Len(points)
  /\ \A k \in 2..Len(picked) : g[k - 1] <= g[k]
  /\ \A k \in 1..Len(picked) : picked[k] = points[g[k]]

LEMMA ShortcutsAreShorter ==
  ASSUME NEW points \in Seq(Plane), NEW picked \in Seq(Plane), points # <<>>, picked # <<>>,
         NEW g, InOrder(g, picked, points)
  PROVE  LengthOf(picked) <= LengthOf(points)
<1> DEFINE n == Len(points)
           m == Len(picked)
<1>1. n \in Nat \ {0} /\ m \in Nat \ {0}
  BY EmptySeq, LenProperties
<1>2. PICK at : Along(at, points)
  BY Milestones
<1>3. PICK by : Along(by, picked)
  BY Milestones
<1>4. /\ at \in [1..n -> Nat] /\ LengthOf(points) = at[n]
      /\ by \in [1..m -> Nat] /\ by[1] = 0 /\ LengthOf(picked) = by[m]
      /\ \A k \in 2..m : by[k] = by[k - 1] + Linf(picked[k - 1], picked[k])
  BY <1>2, <1>3 DEF Along
<1>5. /\ \A k \in 1..m : g[k] \in 1..n /\ picked[k] = points[g[k]]
      /\ g[1] = 1 /\ g[m] = n
      /\ \A k \in 2..m : g[k - 1] <= g[k]
  BY DEF InOrder
<1>6. ASSUME NEW i \in 1..n, NEW j \in i..n PROVE at[i] + Linf(points[i], points[j]) <= at[j]
  BY <1>2, <1>6, StraightIsShortest
<1>a. \A k \in 1..m : picked[k] \in Plane
  BY ElementOfSeq
<1> DEFINE T == {k \in 1..m : by[k] <= at[g[k]]}
<1> HIDE DEF n, m
<1>7. 1 \in T
  <2>1. 1 \in 1..m /\ 1 \in 1..n
    BY <1>1
  <2> QED
    BY <1>4, <1>5, <2>1
<1>8. ASSUME NEW k \in 2..m, k - 1 \in T PROVE k \in T
  <2>1. k \in 1..m /\ k - 1 \in 1..m
    BY <1>1
  <2>2. g[k - 1] \in 1..n /\ g[k] \in g[k - 1]..n
    BY <1>1, <1>5, <2>1
  <2>3. at[g[k - 1]] + Linf(picked[k - 1], picked[k]) <= at[g[k]]
    BY <1>5, <1>6, <2>1, <2>2
  <2>4. by[k] = by[k - 1] + Linf(picked[k - 1], picked[k]) /\ by[k - 1] <= at[g[k - 1]]
    BY <1>4, <1>8
  <2>5. Linf(picked[k - 1], picked[k]) \in Nat
    BY <1>a, <2>1, LinfFacts
  <2>6. by[k - 1] \in Nat /\ at[g[k - 1]] \in Nat /\ at[g[k]] \in Nat
    BY <1>4, <1>5, <2>1
  <2>7. by[k] <= at[g[k]]
    <3> DEFINE start == at[g[k - 1]]
               end == at[g[k]]
               before == by[k - 1]
               leg == Linf(picked[k - 1], picked[k])
    <3>1. /\ start \in Nat /\ end \in Nat /\ before \in Nat /\ leg \in Nat
          /\ start + leg <= end /\ before <= start /\ by[k] = before + leg
      BY <2>3, <2>4, <2>5, <2>6
    <3> HIDE DEF start, end, before, leg
    <3>2. by[k] <= end
      BY <3>1
    <3> QED
      BY <3>2 DEF end
  <2> QED
    BY <2>1, <2>7
<1> HIDE DEF T
<1>9. 1..m \subseteq T
  <2>1. \A k \in 2..m : k - 1 \in T => k \in T
    BY <1>8
  <2>2. m \in Nat
    BY <1>1
  <2> QED
    BY <1>7, <2>1, <2>2, Induction
<1>10. m \in T
  BY <1>1, <1>9
<1> QED
  BY <1>4, <1>5, <1>10 DEF T

-----------------------------------------------------------------------------
(* What deduplication picks *)

\* What has been kept of the first i waypoints, in their order.
Selected(kept, given, i) ==
  /\ kept \in Seq(Plane) /\ kept # <<>>
  /\ \E g \in [1..Len(kept) -> 1..i] :
       /\ g[1] = 1
       /\ \A k \in 2..Len(kept) : g[k - 1] <= g[k]
       /\ \A k \in 1..Len(kept) : kept[k] = given[g[k]]

LEMMA DistinctSelects ==
  ASSUME NEW given \in Seq(Plane), given # <<>>, NEW tolerance \in Nat
  PROVE  Selected(Distinct(given, tolerance), given, Len(given))
<1> DEFINE n == Len(given)
<1>1. PICK kept : DistinctLoop(kept, given, tolerance)
  BY DistinctIsLoop
<1>2. n \in Nat \ {0} /\ \A i \in 1..n : given[i] \in Plane
  BY EmptySeq, LenProperties, ElementOfSeq
<1>3. /\ kept[1] = <<given[1]>> /\ \A i \in 2..n : kept[i] = DistinctStep(kept[i - 1], given[i], tolerance)
      /\ Distinct(given, tolerance) = kept[n]
  BY <1>1 DEF DistinctLoop
<1> HIDE DEF n
<1> DEFINE T == {i \in 1..n : Selected(kept[i], given, i)}
<1>4. 1 \in T
  <2>1. 1 \in 1..n /\ given[1] \in Plane
    BY <1>2
  <2>2. kept[1] \in Seq(Plane) /\ kept[1] # <<>> /\ Len(kept[1]) = 1 /\ kept[1][1] = given[1]
    BY <1>3, <2>1
  <2> DEFINE g == [k \in 1..1 |-> 1]
  <2>3. g \in [1..1 -> 1..1] /\ g[1] = 1
    OBVIOUS
  <2> HIDE DEF g
  <2>4. Selected(kept[1], given, 1)
    BY <2>2, <2>3 DEF Selected
  <2> QED
    BY <2>1, <2>4
<1>5. ASSUME NEW i \in 2..n, i - 1 \in T PROVE i \in T
  <2> DEFINE x == kept[i - 1]
             m == Len(x)
             w == given[i]
  <2>1. i \in 1..n /\ i - 1 \in Nat /\ i \in Nat /\ w \in Plane
    BY <1>2
  <2>2. Selected(x, given, i - 1) /\ kept[i] = DistinctStep(x, w, tolerance)
    BY <1>3, <1>5
  <2> HIDE DEF T
  <2>3. x \in Seq(Plane) /\ x # <<>>
    BY <2>2 DEF Selected
  <2>4. m \in Nat \ {0} /\ Last(x) = x[m]
    BY <2>3, EmptySeq, LenProperties DEF Last
  <2>5. PICK g \in [1..m -> 1..i - 1] :
          /\ g[1] = 1
          /\ \A k \in 2..m : g[k - 1] <= g[k]
          /\ \A k \in 1..m : x[k] = given[g[k]]
    BY <2>2 DEF Selected
  <2> DEFINE y == Append(x, w)
  <2>6. y \in Seq(Plane) /\ y # <<>> /\ Len(y) = m + 1 /\ y[m + 1] = w /\ \A k \in 1..m : y[k] = x[k]
    <3> HIDE DEF x, w
    <3> QED
      BY <2>1, <2>3, Appending
  <2>7. CASE Linf(Last(x), w) > tolerance
    <3>1. kept[i] = y
      BY <2>2, <2>7 DEF DistinctStep
    <3> HIDE DEF x, y, m, w
    <3> DEFINE h == [k \in 1..m + 1 |-> IF k = m + 1 THEN i ELSE g[k]]
    <3>2. \A k \in 1..m + 1 : k = m + 1 \/ k \in 1..m
      BY <2>4
    <3>3. h[m + 1] = i /\ \A k \in 1..m : h[k] = g[k]
      BY <2>4
    <3>4. h \in [1..m + 1 -> 1..i]
      BY <2>1, <2>5, <3>2
    <3> HIDE DEF h
    <3>5. h[1] = 1
      BY <2>4, <2>5, <3>3
    <3>6. ASSUME NEW k \in 2..m + 1 PROVE h[k - 1] <= h[k]
      <4>1. k - 1 \in 1..m
        BY <2>4
      <4>2. CASE k = m + 1
        <5>1. g[m] \in 1..i - 1 /\ m \in 1..m /\ k - 1 = m
          BY <2>4, <2>5, <4>2
        <5>2. h[k - 1] = g[m] /\ h[k] = i
          BY <3>3, <4>2, <5>1
        <5> QED
          BY <2>1, <5>1, <5>2
      <4>3. CASE k # m + 1
        <5>1. k \in 2..m /\ k \in 1..m
          BY <2>4, <4>3
        <5> QED
          BY <2>5, <3>3, <4>1, <5>1
      <4> QED
        BY <4>2, <4>3
    <3>7. ASSUME NEW k \in 1..m + 1 PROVE y[k] = given[h[k]]
      BY <2>5, <2>6, <3>2, <3>3 DEF w
    <3>8. Selected(y, given, i)
      BY <2>6, <3>4, <3>5, <3>6, <3>7 DEF Selected
    <3> QED
      BY <2>1, <3>1, <3>8 DEF T
  <2>8. CASE ~(Linf(Last(x), w) > tolerance)
    <3>1. kept[i] = x
      BY <2>2, <2>8 DEF DistinctStep
    <3> HIDE DEF x, m
    <3>2. g \in [1..m -> 1..i]
      BY <2>1, <2>5
    <3>3. Selected(x, given, i)
      BY <2>3, <2>5, <3>2 DEF Selected, m
    <3> QED
      BY <2>1, <3>1, <3>3 DEF T
  <2> QED
    BY <2>7, <2>8
<1> HIDE DEF T
<1>6. n \in T
  <2>1. \A i \in 2..n : i - 1 \in T => i \in T
    BY <1>5
  <2>2. 1..n \subseteq T
    BY <1>2, <1>4, <2>1, Induction
  <2> QED
    BY <1>2, <2>2
<1> QED
  BY <1>3, <1>6 DEF T, n

\* What is left is picked in order, or all is one point.
Picked(given, left, tolerance) ==
  /\ left \in Seq(Plane) /\ left # <<>>
  /\ Len(left) >= 2 => \E g : InOrder(g, left, given)
  /\ ~(Len(left) >= 2) => \A i \in 1..Len(given) : Linf(given[i], given[1]) <= tolerance

LEMMA DeduplicationPicks ==
  ASSUME NEW given \in Seq(Plane), given # <<>>, NEW tolerance \in Nat
  PROVE  Picked(given, deduplicate_waypoints(given, tolerance), tolerance)
<1> DEFINE kept == Distinct(given, tolerance)
           left == deduplicate_waypoints(given, tolerance)
           n == Len(given)
           m == Len(kept)
           end == given[n]
<1>1. StandsFor(kept, given, n, tolerance) /\ Selected(kept, given, n)
  BY DistinctStands, DistinctSelects
<1>2. n \in Nat \ {0} /\ \A i \in 1..n : given[i] \in Plane
  BY EmptySeq, LenProperties, ElementOfSeq
<1>3. kept \in Seq(Plane) /\ kept # <<>>
  BY <1>1 DEF StandsFor
<1>4. left = IF m > 1 THEN Append(Front(kept), end) ELSE kept
  BY DEF deduplicate_waypoints
<1>5. end \in Plane
  BY <1>2
<1>6. /\ m \in Nat \ {0} /\ Front(kept) \in Seq(Plane) /\ Len(Front(kept)) = m - 1
      /\ \A k \in 1..m - 1 : Front(kept)[k] = kept[k]
  BY <1>3, ButLast
<1>7. \A k \in 1..m : kept[k] \in Plane
  BY <1>3, ElementOfSeq
<1>8. /\ kept[1] = given[1] /\ Linf(end, kept[m]) <= tolerance
      /\ \A j \in 1..n : \E k \in 1..m : Linf(given[j], kept[k]) <= tolerance
  BY <1>1 DEF Selected, StandsFor
<1>9. PICK g \in [1..m -> 1..n] :
        /\ g[1] = 1
        /\ \A k \in 2..m : g[k - 1] <= g[k]
        /\ \A k \in 1..m : kept[k] = given[g[k]]
  BY <1>1 DEF Selected
<1> HIDE DEF kept, left, n, m, end
<1>10. CASE m > 1
  <2>1. /\ left \in Seq(Plane) /\ left # <<>> /\ Len(left) = m /\ left[m] = end
        /\ \A k \in 1..m - 1 : left[k] = kept[k]
    <3>1. (m - 1) + 1 = m
      BY <1>6
    <3>2. /\ Append(Front(kept), end) \in Seq(Plane) /\ Append(Front(kept), end) # <<>>
          /\ Len(Append(Front(kept), end)) = (m - 1) + 1 /\ Append(Front(kept), end)[(m - 1) + 1] = end
          /\ \A k \in 1..m - 1 : Append(Front(kept), end)[k] = Front(kept)[k]
      BY <1>5, <1>6, Appending
    <3> QED
      BY <1>4, <1>6, <1>10, <3>1, <3>2
  <2> DEFINE h == [k \in 1..m |-> IF k = m THEN n ELSE g[k]]
  <2>2. h \in [1..m -> 1..n] /\ h[m] = n /\ \A k \in 1..m - 1 : h[k] = g[k]
    BY <1>2, <1>6
  <2> HIDE DEF h
  <2>3. h[1] = 1
    BY <1>6, <1>9, <1>10, <2>2
  <2>4. ASSUME NEW k \in 2..m PROVE h[k - 1] <= h[k]
    <3>1. k - 1 \in 1..m - 1 /\ k - 1 \in 1..m
      BY <1>6
    <3>2. CASE k = m
      BY <1>2, <1>9, <2>2, <3>1, <3>2
    <3>3. CASE k # m
      <4>1. k \in 1..m - 1
        BY <1>6, <3>3
      <4> QED
        BY <1>9, <2>2, <3>1, <4>1
    <3> QED
      BY <3>2, <3>3
  <2>5. ASSUME NEW k \in 1..m PROVE left[k] = given[h[k]]
    <3>1. CASE k = m
      BY <2>1, <2>2, <3>1 DEF end
    <3>2. CASE k # m
      <4>1. k \in 1..m - 1
        BY <1>6, <3>2
      <4> QED
        BY <1>9, <2>1, <2>2, <4>1
    <3> QED
      BY <3>1, <3>2
  <2>6. InOrder(h, left, given)
    BY <2>1, <2>2, <2>3, <2>4, <2>5 DEF InOrder, n
  <2>8. Len(left) >= 2
    BY <1>6, <1>10, <2>1
  <2> QED
    BY <2>1, <2>6, <2>8 DEF Picked, left
<1>11. CASE ~(m > 1)
  <2>1. m = 1 /\ left = kept /\ ~(Len(left) >= 2)
    BY <1>4, <1>6, <1>11 DEF m
  <2>2. ASSUME NEW i \in 1..n PROVE Linf(given[i], given[1]) <= tolerance
    <3>1. PICK k \in 1..m : Linf(given[i], kept[k]) <= tolerance
      BY <1>8
    <3>2. k = 1
      BY <2>1, <3>1
    <3> QED
      BY <1>8, <3>1, <3>2
  <2> QED
    BY <1>3, <2>1, <2>2 DEF Picked, left, n
<1> QED
  BY <1>10, <1>11

-----------------------------------------------------------------------------
(* The timed trajectory *)

LEMMA EvenSteps ==
  ASSUME NEW D \in Nat, NEW s \in Nat \ {0}, NEW p \in Nat, D <= s * p, NEW k \in Nat
  PROVE  /\ (k * D) \div s \in Nat /\ ((k + 1) * D) \div s \in Nat
         /\ ((k + 1) * D) \div s - (k * D) \div s \in 0..p
         /\ (0 * D) \div s = 0 /\ (s * D) \div s = D
<1> DEFINE u == k * D
           v == (k + 1) * D
           a == u \div s
           b == v \div s
<1>1. u \in Nat /\ v = u + D /\ v \in Nat
  OBVIOUS
<1> HIDE DEF u, v
<1>2. a \in Int /\ s * a <= u /\ u < s * a + s
  BY <1>1
<1>3. b \in Int /\ s * b <= v /\ v < s * b + s
  BY <1>1
<1> HIDE DEF a, b
<1>4. a >= 0
  <2>1. CASE a <= -1
    <3>1. s * a <= -s
      BY <1>2, <2>1
    <3> QED
      BY <1>1, <1>2, <3>1
  <2> QED
    BY <1>2, <2>1
<1>5. b >= a
  <2>1. CASE b <= a - 1
    <3>1. s * b <= s * (a - 1) /\ s * (a - 1) = s * a - s /\ s * a \in Int /\ s * b \in Int
      BY <1>2, <1>3, <2>1
    <3> QED
      BY <1>1, <1>2, <1>3, <3>1
  <2> QED
    BY <1>2, <1>3, <2>1
<1>6. b <= a + p
  <2>1. CASE b >= a + p + 1
    <3>1. s * b >= s * (a + p + 1)
      BY <1>2, <1>3, <2>1
    <3>2. s * (a + p + 1) = s * (a + p) + s
      BY <1>2
    <3>3. s * (a + p) = s * a + s * p
      BY <1>2
    <3>4. s * a \in Int /\ s * p \in Int /\ s * b \in Int
      BY <1>2, <1>3
    <3> QED
      BY <1>1, <1>2, <1>3, <3>1, <3>2, <3>3, <3>4
  <2> QED
    BY <1>2, <1>3, <2>1
<1>7. (0 * D) \div s = 0
  <2>1. 0 * D = 0
    OBVIOUS
  <2> QED
    BY <2>1
<1>8. (s * D) \div s = D
  <2> DEFINE w == s * D
             c == w \div s
  <2>1. w \in Nat
    OBVIOUS
  <2>2. c \in Int /\ s * c <= w /\ w < s * c + s
    <3> HIDE DEF w
    <3> QED
      BY <2>1
  <2> HIDE DEF c
  <2>3. CASE c >= D + 1
    <3>1. s * c >= s * (D + 1) /\ s * (D + 1) = s * D + s
      BY <2>2, <2>3
    <3> QED
      BY <2>1, <2>2, <3>1
  <2>4. CASE c <= D - 1
    <3>1. s * c <= s * (D - 1) /\ s * (D - 1) = s * D - s
      BY <2>2, <2>4
    <3> QED
      BY <2>1, <2>2, <3>1
  <2>5. c = D
    BY <2>2, <2>3, <2>4
  <2> QED
    BY <2>5 DEF c, w
<1> QED
  BY <1>2, <1>3, <1>4, <1>5, <1>6, <1>7, <1>8 DEF a, b, u, v


\* An even spacing of samples takes the time of the motion, in steps of at most a period.
LEMMA SamplesAreTimed ==
  ASSUME NEW period \in Nat \ {0}, timed.duration \in Nat \ {0}
  PROVE  /\ Steps(period) \in Nat \ {0}
         /\ \A k \in 1..Steps(period) + 1 : Sample(k, period).wait \in 0..period
         /\ Sum([k \in 1..Steps(period) + 1 |-> Sample(k, period).wait]) = timed.duration
<1> DEFINE D == timed.duration
           s == Steps(period)
           n == s + 1
           time(k) == (k * D) \div s
           waits == [k \in 1..n |-> Sample(k, period).wait]
<1>1. D \in Nat \ {0} /\ s = (D + period - 1) \div period
  BY DEF Steps
<1>2. \A k \in 1..n : waits[k] = IF k = 1 THEN 0 ELSE time(k - 1) - time((k - 1) - 1)
  BY DEF Sample, TimeOf
<1>3. \A k \in 1..n : waits[k] = Sample(k, period).wait
  OBVIOUS
<1>a. waits = [k \in 1..n |-> waits[k]]
  OBVIOUS
<1> HIDE DEF D, s, waits
<1>4. s \in Nat /\ D <= period * s
  BY <1>1, RoundedUp
<1>5. s # 0
  <2>1. CASE s = 0
    BY <1>1, <1>4, <2>1
  <2> QED
    BY <2>1
<1>6. s \in Nat \ {0} /\ D <= s * period
  <2>1. period * s = s * period
    BY <1>4
  <2> QED
    BY <1>4, <1>5, <2>1
<1>7. \A k \in Nat : time(k) \in Nat /\ time(k + 1) - time(k) \in 0..period /\ time(0) = 0 /\ time(s) = D
  BY <1>1, <1>6, EvenSteps
<1>8. n \in Nat \ {0} /\ n - 1 = s
  BY <1>6
<1> HIDE DEF time, n
<1>9. ASSUME NEW k \in 1..n PROVE waits[k] \in 0..period
  <2>1. CASE k = 1
    BY <1>2, <1>8, <2>1
  <2>2. CASE k # 1
    <3>1. (k - 1) - 1 \in Nat /\ ((k - 1) - 1) + 1 = k - 1
      BY <1>8, <2>2
    <3>2. time(k - 1) - time((k - 1) - 1) \in 0..period
      BY <1>7, <3>1
    <3> QED
      BY <1>2, <2>2, <3>2
  <2> QED
    BY <2>1, <2>2
<1>10. waits \in [1..n -> Int]
  BY <1>9, <1>a
<1>11. PICK sum \in [0..n -> Int] : Adds(sum, waits, n) /\ Sum(waits) = sum[n]
  BY <1>8, <1>10, SumIs
<1>12. sum[0] = 0 /\ \A k \in 1..n : sum[k] = sum[k - 1] + waits[k]
  BY <1>11 DEF Adds
<1> DEFINE T == {k \in 1..n : sum[k] = time(k - 1)}
<1>13. 1 \in T
  <2>1. 1 \in 1..n /\ sum[1] = sum[1 - 1] + waits[1] /\ waits[1] = 0
    BY <1>2, <1>8, <1>12
  <2>2. sum[1] = 0
    BY <1>12, <2>1
  <2>3. time(1 - 1) = 0
    BY <1>7
  <2> QED
    BY <2>1, <2>2, <2>3
<1>14. ASSUME NEW k \in 2..n, k - 1 \in T PROVE k \in T
  <2>1. k \in 1..n /\ k # 1 /\ k - 1 \in Nat /\ (k - 1) - 1 \in Nat
    BY <1>8
  <2>2. sum[k] = sum[k - 1] + waits[k] /\ waits[k] = time(k - 1) - time((k - 1) - 1)
    BY <1>2, <1>12, <2>1
  <2>3. sum[k - 1] = time((k - 1) - 1)
    BY <1>14
  <2>4. time(k - 1) \in Nat /\ time((k - 1) - 1) \in Nat
    BY <1>7, <2>1
  <2>5. sum[k] = time(k - 1)
    BY <2>2, <2>3, <2>4
  <2> QED
    BY <2>1, <2>5
<1> HIDE DEF T
<1>15. n \in T
  <2>1. \A k \in 2..n : k - 1 \in T => k \in T
    BY <1>14
  <2>2. 1..n \subseteq T
    BY <1>8, <1>13, <2>1, Induction
  <2> QED
    BY <1>8, <2>2
<1>16. Sum(waits) = D
  <2>1. sum[n] = time(s)
    BY <1>8, <1>15 DEF T
  <2>2. time(s) = D
    BY <1>4, <1>7
  <2> QED
    BY <1>11, <2>1, <2>2
<1> QED
  BY <1>3, <1>6, <1>9, <1>16 DEF D, s, n, waits

\* Turned places are as far apart as the way around, or farther.
LEMMA WayOfTurned ==
  ASSUME NEW p \in State, NEW q \in State, NEW u, NEW v, TurnedFrom(u, p), TurnedFrom(v, q)
  PROVE  /\ Way(p.at, q.at) \in Nat /\ Way(p.at, q.at) <= Linf(u.at, v.at)
         /\ Near(v, u) => Way(p.at, q.at) = Linf(u.at, v.at)
<1>1. u \in State /\ v \in State /\ u.at[2] = p.at[2] /\ v.at[2] = q.at[2]
  BY DEF TurnedFrom
<1>2. /\ u.at[1] \in Int /\ v.at[1] \in Int /\ p.at[1] \in Int /\ q.at[1] \in Int
      /\ u.at[2] \in Int /\ v.at[2] \in Int
  BY <1>1 DEF State, Plane
<1>3. PICK i \in Int : u.at[1] = p.at[1] + Turn * i
  BY DEF TurnedFrom
<1>4. PICK j \in Int : v.at[1] = q.at[1] + Turn * j
  BY DEF TurnedFrom
<1> DEFINE a == p.at[1]
           b == q.at[1]
           d == v.at[1] - u.at[1]
           y == Size(v.at[2] - u.at[2])
           m == i - j
           x == Around(a, b)
<1>5. d \in Int /\ m \in Int /\ a \in Int /\ b \in Int /\ y \in Nat /\ Size(d) \in Nat
  BY <1>2 DEF Size
<1>6. b - a = d + Turn * m
  <2>1. Turn \in Nat
    BY MoveItAssumption
  <2>2. Turn * (i - j) = Turn * i - Turn * j /\ Turn * i \in Int /\ Turn * j \in Int
    BY <2>1
  <2> QED
    BY <1>2, <1>3, <1>4, <2>2
<1>7. Way(p.at, q.at) = Max({x, y})
  BY <1>1 DEF Way
<1>8. Linf(u.at, v.at) = IF Size(d) > y THEN Size(d) ELSE y
  BY DEF Linf, Diff
<1>9. Near(v, u) => 2 * Size(d) <= Turn
  BY DEF Near
<1> HIDE DEF a, b, d, y, m
<1>10. x \in Nat /\ x <= Size(d) /\ (2 * Size(d) <= Turn => x = Size(d))
  BY <1>5, <1>6, AroundLeast
<1> HIDE DEF x
<1>11. Max({x, y}) = IF x >= y THEN x ELSE y
  BY <1>5, <1>10, MostOfTwo
<1> QED
  BY <1>5, <1>7, <1>8, <1>9, <1>10, <1>11

-----------------------------------------------------------------------------
(* The waypoints of a plan *)

Places(states) == [k \in 1..Len(states) |-> states[k].at]

LEMMA UnwoundPlaces ==
  ASSUME NEW plan \in Seq(State), plan # <<>>
  PROVE  /\ Places(unwind(plan)) \in Seq(Plane) /\ Places(unwind(plan)) # <<>>
         /\ Len(Places(unwind(plan))) = Len(plan)
         /\ \A k \in 1..Len(plan) : /\ TurnedFrom(unwind(plan)[k], plan[k])
                                    /\ Places(unwind(plan))[k] = unwind(plan)[k].at
         /\ LengthOf(Places(unwind(plan))) = Sum([k \in 1..Len(plan) - 1 |-> Way(plan[k].at, plan[k + 1].at)])
<1> DEFINE u == unwind(plan)
           n == Len(plan)
           w == Places(u)
<1>1. Unwound(u, plan) /\ \A k \in 2..n : Near(u[k], u[k - 1])
  BY UnwindKeeps
<1>2. n \in Nat \ {0} /\ \A k \in 1..n : plan[k] \in State
  BY EmptySeq, LenProperties, ElementOfSeq
<1> HIDE DEF u
<1>3. Len(u) = n /\ \A k \in 1..n : TurnedFrom(u[k], plan[k])
  BY <1>1 DEF Unwound
<1>4. w = [k \in 1..n |-> u[k].at]
  BY <1>3 DEF Places
<1> HIDE DEF n, w
<1>5. ASSUME NEW k \in 1..n PROVE w[k] = u[k].at /\ w[k] \in Plane
  BY <1>3, <1>4, <1>5 DEF TurnedFrom, State
<1>6. w \in Seq(Plane) /\ Len(w) = n
  BY <1>2, <1>4, <1>5
<1>7. ASSUME NEW k \in 1..n - 1 PROVE Linf(w[k], w[k + 1]) = Way(plan[k].at, plan[k + 1].at)
  <2>1. k \in 1..n /\ k + 1 \in 1..n /\ k + 1 \in 2..n /\ (k + 1) - 1 = k
    BY <1>2
  <2>2. Near(u[k + 1], u[k])
    <3>1. Near(u[k + 1], u[(k + 1) - 1])
      BY <1>1, <2>1 DEF n
    <3> QED
      BY <2>1, <3>1
  <2>3. plan[k] \in State /\ plan[k + 1] \in State /\ TurnedFrom(u[k], plan[k]) /\ TurnedFrom(u[k + 1], plan[k + 1])
    BY <1>2, <1>3, <2>1
  <2>4. Way(plan[k].at, plan[k + 1].at) = Linf(u[k].at, u[k + 1].at)
    BY <2>2, <2>3, WayOfTurned
  <2> QED
    BY <1>5, <2>1, <2>4
<1>8. LengthOf(w) = Sum([k \in 1..n - 1 |-> Way(plan[k].at, plan[k + 1].at)])
  <2>1. [k \in 1..n - 1 |-> Linf(w[k], w[k + 1])] = [k \in 1..n - 1 |-> Way(plan[k].at, plan[k + 1].at)]
    BY <1>7
  <2>2. LengthOf(w) = Sum([k \in 1..n - 1 |-> Linf(w[k], w[k + 1])])
    BY <1>6 DEF LengthOf
  <2> QED
    BY <2>1, <2>2
<1>9. w # <<>>
  BY <1>2, <1>6
<1> QED
  BY <1>3, <1>5, <1>6, <1>8, <1>9 DEF n, w, u

\* The waypoints that a path is made of.
Unique(plan, tolerance) == deduplicate_waypoints(Places(unwind(plan)), tolerance)

\* A plan that does not leave the tolerance.
LEMMA PlanAtRest ==
  ASSUME NEW plan \in Seq(State), plan # <<>>, NEW tolerance \in Nat,
         Len(Unique(plan, tolerance)) < 2
  PROVE  \A k \in 1..Len(plan) : Way(plan[1].at, plan[k].at) <= tolerance
<1> DEFINE u == unwind(plan)
           n == Len(plan)
           w == Places(u)
<1>1. n \in Nat \ {0} /\ \A k \in 1..n : plan[k] \in State
  BY EmptySeq, LenProperties, ElementOfSeq
<1>2. /\ w \in Seq(Plane) /\ Len(w) = n /\ w # <<>>
      /\ \A k \in 1..n : TurnedFrom(u[k], plan[k]) /\ w[k] = u[k].at
  BY UnwoundPlaces
<1>3. Picked(w, Unique(plan, tolerance), tolerance)
  BY <1>2, DeduplicationPicks DEF Unique
<1>4. ~(Len(Unique(plan, tolerance)) >= 2)
  <2>1. Len(Unique(plan, tolerance)) \in Nat
    BY <1>3, LenProperties DEF Picked
  <2> QED
    BY <2>1
<1>5. \A k \in 1..n : Linf(w[k], w[1]) <= tolerance
  BY <1>2, <1>3, <1>4 DEF Picked
<1> HIDE DEF u, w, n
<1>6. ASSUME NEW k \in 1..n PROVE Way(plan[1].at, plan[k].at) <= tolerance
  <2>1. 1 \in 1..n
    BY <1>1
  <2>2. w[1] \in Plane /\ w[k] \in Plane
    BY <1>2, <2>1, ElementOfSeq
  <2>3. Linf(w[1], w[k]) = Linf(w[k], w[1]) /\ Linf(w[1], w[k]) \in Nat
    BY <2>2, LinfFacts
  <2>4. Way(plan[1].at, plan[k].at) \in Nat /\ Way(plan[1].at, plan[k].at) <= Linf(u[1].at, u[k].at)
    BY <1>1, <1>2, <2>1, WayOfTurned
  <2>5. Linf(u[1].at, u[k].at) = Linf(w[1], w[k])
    BY <1>2, <2>1
  <2> QED
    BY <1>5, <2>3, <2>4, <2>5
<1> QED
  BY <1>6 DEF n

\* What is promised of the points that a plan is replaced by.
Follow(points, plan, tolerance) ==
  /\ points \in Seq(Plane) /\ points # <<>>
  /\ SamePlace(points[1], plan[1].at) /\ SamePlace(Last(points), Last(plan).at)
  /\ \A k \in 1..Len(plan) : \E j \in 1..Len(points) : Way(points[j], plan[k].at) <= 2 * tolerance
  /\ Sum([k \in 1..Len(points) - 1 |-> Linf(points[k], points[k + 1])])
       <= Sum([k \in 1..Len(plan) - 1 |-> Way(plan[k].at, plan[k + 1].at)])

LEMMA PlanIsFollowed ==
  ASSUME NEW plan \in Seq(State), plan # <<>>, NEW tolerance \in Nat,
         Len(Unique(plan, tolerance)) >= 2
  PROVE  Follow(Unique(plan, tolerance), plan, tolerance)
<1> DEFINE u == unwind(plan)
           n == Len(plan)
           w == Places(u)
           points == Unique(plan, tolerance)
           m == Len(points)
<1>1. n \in Nat \ {0} /\ \A k \in 1..n : plan[k] \in State
  BY EmptySeq, LenProperties, ElementOfSeq
<1>2. /\ w \in Seq(Plane) /\ Len(w) = n /\ w # <<>>
      /\ \A k \in 1..n : TurnedFrom(u[k], plan[k]) /\ w[k] = u[k].at
      /\ LengthOf(w) = Sum([k \in 1..n - 1 |-> Way(plan[k].at, plan[k + 1].at)])
  BY UnwoundPlaces
<1>3. points \in Seq(Plane) /\ points # <<>> /\ \E g : InOrder(g, points, w)
  <2>1. Picked(w, points, tolerance)
    BY <1>2, DeduplicationPicks DEF Unique
  <2> QED
    BY <2>1 DEF Picked
<1>4. \A i \in 1..n : \/ \E k \in 1..m : Linf(w[i], points[k]) <= tolerance
                      \/ Linf(w[i], Last(points)) <= 2 * tolerance
  <2>1. Deduplicated(w, points, tolerance)
    BY <1>2, DeduplicationFaithful DEF Unique
  <2> QED
    BY <1>2, <2>1 DEF Deduplicated
<1>5. LengthOf(points) <= LengthOf(w)
  BY <1>2, <1>3, ShortcutsAreShorter
<1>6. PICK g : InOrder(g, points, w)
  BY <1>3
<1> HIDE DEF u, w, n
<1>7. /\ \A j \in 1..m : g[j] \in 1..n /\ points[j] = w[g[j]]
      /\ g[1] = 1 /\ g[m] = n
  BY <1>2, <1>6 DEF InOrder
<1>8. m \in Nat \ {0}
  BY <1>3, EmptySeq, LenProperties
<1> HIDE DEF points, m
<1>9. ASSUME NEW k \in 1..n, NEW j \in 1..m
      PROVE  Way(points[j], plan[k].at) \in Nat /\ Way(points[j], plan[k].at) <= Linf(w[k], points[j])
  <2> DEFINE i == g[j]
  <2>1. i \in 1..n /\ points[j] = w[i]
    BY <1>7
  <2> HIDE DEF i
  <2>2. TurnedFrom(u[k], plan[k]) /\ TurnedFrom(u[i], plan[i]) /\ w[k] = u[k].at /\ w[i] = u[i].at
    BY <1>2, <2>1
  <2>3. u[i] \in State /\ plan[k] \in State
    BY <1>1, <2>2 DEF TurnedFrom
  <2>4. TurnedFrom(u[i], u[i])
    BY <2>3, SelfTurned
  <2>5. Way(u[i].at, plan[k].at) \in Nat /\ Way(u[i].at, plan[k].at) <= Linf(u[i].at, u[k].at)
    BY <2>2, <2>3, <2>4, WayOfTurned
  <2>6. w[i] \in Plane /\ w[k] \in Plane
    BY <1>2, <2>1, ElementOfSeq
  <2>7. Linf(w[i], w[k]) = Linf(w[k], w[i])
    BY <2>6, LinfFacts
  <2> QED
    BY <2>1, <2>2, <2>5, <2>7
<1>10. ASSUME NEW k \in 1..n PROVE \E j \in 1..m : Way(points[j], plan[k].at) <= 2 * tolerance
  <2>1. w[k] \in Plane /\ \A j \in 1..m : points[j] \in Plane
    BY <1>2, <1>3, <1>10, ElementOfSeq DEF m
  <2>2. ASSUME NEW j \in 1..m PROVE Linf(w[k], points[j]) \in Nat
    BY <2>1, LinfFacts
  <2>3. CASE \E j \in 1..m : Linf(w[k], points[j]) <= tolerance
    <3>1. PICK j \in 1..m : Linf(w[k], points[j]) <= tolerance
      BY <2>3
    <3>2. Way(points[j], plan[k].at) <= 2 * tolerance
      BY <1>9, <2>2, <3>1
    <3> QED
      BY <3>2
  <2>4. CASE Linf(w[k], Last(points)) <= 2 * tolerance
    <3>1. m \in 1..m /\ Last(points) = points[m]
      BY <1>8 DEF Last, m
    <3>2. Way(points[m], plan[k].at) <= 2 * tolerance
      BY <1>9, <2>2, <2>4, <3>1
    <3> QED
      BY <3>1, <3>2
  <2> QED
    BY <1>4, <2>3, <2>4
<1>11. ASSUME NEW j \in 1..m, NEW k \in 1..n, g[j] = k PROVE SamePlace(points[j], plan[k].at)
  <2>1. points[j] = u[k].at /\ TurnedFrom(u[k], plan[k]) /\ plan[k] \in State
    BY <1>1, <1>2, <1>7, <1>11
  <2> QED
    BY <2>1, TurnedIsSame
<1>12. SamePlace(points[1], plan[1].at) /\ SamePlace(Last(points), Last(plan).at)
  <2>1. 1 \in 1..m /\ m \in 1..m /\ 1 \in 1..n /\ n \in 1..n
    BY <1>1, <1>8
  <2>2. SamePlace(points[1], plan[1].at) /\ SamePlace(points[m], plan[n].at)
    BY <1>7, <1>11, <2>1
  <2>3. Last(points) = points[m] /\ Last(plan) = plan[n]
    BY DEF Last, m, n
  <2> QED
    BY <2>2, <2>3
<1>13. Sum([k \in 1..m - 1 |-> Linf(points[k], points[k + 1])])
         <= Sum([k \in 1..n - 1 |-> Way(plan[k].at, plan[k + 1].at)])
  <2>1. LengthOf(points) = Sum([k \in 1..m - 1 |-> Linf(points[k], points[k + 1])])
    BY DEF LengthOf, m
  <2> QED
    BY <1>2, <1>5, <2>1 DEF n
<1>14. Follow(points, plan, tolerance)
  BY <1>3, <1>10, <1>12, <1>13 DEF Follow, m, n
<1> QED
  BY <1>14 DEF points

-----------------------------------------------------------------------------
(* What a request may ask for *)

Served ==
  [states : Seq(State), grouped : BOOLEAN, present : BOOLEAN, scaling : [kinds -> Int],
   bounds : [1..2 -> [kinds -> {<<>>} \cup Plane]],
   messages : Seq([joint : 1..2, velocity : Int, acceleration : Int])]

LEMMA LatestMessage ==
  ASSUME NEW n \in Nat, NEW of, of \subseteq 1..n, of # {}
  PROVE  Max(of) \in of /\ \A k \in of : k <= Max(of)
<1> DEFINE P(m) == m \in of /\ \A z \in of : m >= z
<1>1. \E x \in of : \A y \in of : y <= x
  <2>1. of \subseteq 0..n
    OBVIOUS
  <2> QED
    BY <2>1, GreatestNatural
<1>2. PICK x \in of : \A y \in of : y <= x
  BY <1>1
<1>3. P(x)
  BY <1>2
<1>4. P(CHOOSE m : P(m))
  BY <1>3
<1>5. Max(of) = CHOOSE m : P(m)
  BY DEF Max
<1> QED
  BY <1>4, <1>5

LEMMA LimitsAreWithin ==
  ASSUME request \in Served, NEW joint \in 1..2, NEW kind \in kinds, Usable(given_limit(joint, kind))
  PROVE  Within(resolve_limit(joint, kind), joint, kind)
<1> DEFINE messages == request.messages
           n == Len(messages)
           named == {k \in 1..n : messages[k].joint = joint /\ messages[k][kind] # Unlimited}
           bound == request.bounds[joint][kind]
           factor == IF request.scaling[kind] \in {1, 2} THEN request.scaling[kind] ELSE 2
           given == given_limit(joint, kind)
<1>1. n \in Nat /\ \A k \in 1..n : messages[k][kind] \in Int
  <2> DEFINE S == [joint : 1..2, velocity : Int, acceleration : Int]
  <2>1. messages \in Seq(S)
    BY DEF Served
  <2>2. \A m \in S : m["velocity"] \in Int /\ m["acceleration"] \in Int
    OBVIOUS
  <2>3. kind = "velocity" \/ kind = "acceleration"
    BY DEF kinds
  <2> HIDE DEF S, messages
  <2>4. n \in Nat /\ \A k \in 1..n : messages[k] \in S
    BY <2>1, LenProperties, ElementOfSeq
  <2> QED
    BY <2>2, <2>3, <2>4
<1>2. bound \in {<<>>} \cup Plane
  BY DEF Served
<1>3. given = IF named # {} THEN messages[Max(named)][kind]
              ELSE IF bound = <<>> THEN Unlimited ELSE Min({Size(bound[1]), Size(bound[2])})
  BY DEF given_limit
<1>4. factor \in 1..2 /\ resolve_limit(joint, kind) = given * factor
  <2>1. verified_scaling_factor(kind) = factor
    BY DEF verified_scaling_factor
  <2> QED
    BY <2>1 DEF resolve_limit
<1>5. given # Unlimited
  BY DEF Usable
<1>6. named \subseteq 1..n
  OBVIOUS
<1> DEFINE limit == resolve_limit(joint, kind)
<1>7. SUFFICES IF named # {}
                 THEN \E k \in named : (\A j \in named : j <= k) /\ limit = factor * messages[k][kind]
                 ELSE \A i \in 1..2 : limit <= factor * Size(bound[i])
  BY DEF Within
<1> HIDE DEF messages, n, named, bound, factor, given, limit
<1>8. limit = given * factor
  BY <1>4 DEF limit
<1>9. CASE named # {}
  <2>1. Max(named) \in named /\ \A j \in named : j <= Max(named)
    BY <1>1, <1>6, <1>9, LatestMessage
  <2>2. given = messages[Max(named)][kind] /\ given \in Int
    BY <1>1, <1>3, <1>6, <1>9, <2>1
  <2>3. limit = factor * given
    BY <1>4, <1>8, <2>2
  <2> QED
    BY <1>9, <2>1, <2>2, <2>3
<1>10. CASE named = {}
  <2>1. bound # <<>>
    BY <1>3, <1>5, <1>10
  <2>2. bound[1] \in Int /\ bound[2] \in Int
    BY <1>2, <2>1 DEF Plane
  <2> DEFINE x == Size(bound[1])
             y == Size(bound[2])
  <2>3. x \in Int /\ y \in Int
    BY <2>2 DEF Size
  <2>4. given = Min({x, y})
    BY <1>3, <1>10, <2>1
  <2>5. ASSUME NEW i \in 1..2 PROVE Size(bound[i]) = x \/ Size(bound[i]) = y
    <3>1. i = 1 \/ i = 2
      OBVIOUS
    <3> QED
      BY <3>1
  <2> HIDE DEF x, y
  <2>6. given \in Int /\ given <= x /\ given <= y
    <3>1. Min({x, y}) = IF x <= y THEN x ELSE y
      BY <2>3, MostOfTwo
    <3> QED
      BY <2>3, <2>4, <3>1
  <2>7. limit <= factor * x /\ limit <= factor * y
    <3>1. CASE factor = 1
      BY <1>8, <2>3, <2>6, <3>1
    <3>2. CASE factor = 2
      BY <1>8, <2>3, <2>6, <3>2
    <3> QED
      BY <1>4, <3>1, <3>2
  <2> QED
    BY <1>10, <2>5, <2>7
<1> QED
  BY <1>9, <1>10

-----------------------------------------------------------------------------
(* What is read for a request *)

Parameters == {"deviation", "tolerance", "period"}

Shaped == response = [states |-> response.states, error |-> response.error]

LEMMA Answers ==
  ASSUME Shaped, NEW states
  PROVE  /\ Keeps(states) => Shaped' /\ response'.states = states /\ response'.error = response.error
         /\ Respond(states, TRUE) => Shaped' /\ response'.states = states /\ response'.error = "SUCCESS"
         /\ Respond(states, FALSE) => Shaped' /\ response'.states = states /\ response'.error = "FAILURE"
<1>1. ASSUME NEW error, response' = [states |-> states, error |-> error]
      PROVE  Shaped' /\ response'.states = states /\ response'.error = error
  <2>1. response'.states = states /\ response'.error = error
    BY <1>1
  <2> QED
    BY <1>1, <2>1 DEF Shaped
<1>2. ASSUME Keeps(states) PROVE response' = [states |-> states, error |-> response.error]
  BY <1>2 DEF Shaped, Keeps
<1>3. ASSUME Respond(states, TRUE) PROVE response' = [states |-> states, error |-> "SUCCESS"]
  BY <1>3 DEF Respond
<1>4. ASSUME Respond(states, FALSE) PROVE response' = [states |-> states, error |-> "FAILURE"]
  BY <1>4 DEF Respond
<1> QED
  BY <1>1, <1>2, <1>3, <1>4

\* What SettingsReadInOrder says of readings and of the settings there were.
ReadFrom(read, had) ==
  \E from \in [1..Len(read) -> 1..Len(had)] :
    /\ \A k \in 1..Len(read) : read[k] = had[from[k]][parameters[k]]
    /\ \A j, k \in 1..Len(read) : j < k => from[j] <= from[k]

LEMMA NothingRead ==
  ASSUME NEW had
  PROVE  ReadFrom(<<>>, had)
<1> DEFINE from == [k \in 1..0 |-> 1]
<1>1. Len(<<>>) = 0 /\ 1..0 = {}
  OBVIOUS
<1>2. from \in [1..0 -> 1..Len(had)]
  OBVIOUS
<1> QED
  BY <1>1, <1>2 DEF ReadFrom

\* Until all is read, what may be read next is what is in force.
ReadInv ==
  /\ Shaped
  /\ settings \in [Parameters -> Int]
  /\ inforce \in Seq([Parameters -> Int])
  /\ taken \in Seq(Int) /\ Len(taken) <= 3
  /\ response.error = "none" => taken = <<>>
  /\ response.error = "pending" => inforce # <<>> /\ (Len(taken) < 3 => settings = inforce[Len(inforce)])
  /\ ReadFrom(taken, inforce)

\* The steps of the time parameterization.
Computes ==
  computeTimeStamps \/ Generate \/ AssembleOne \/ clear \/ addSuffixWayPoint \/ Throws

\* They leave what was asked and read alone, and answer a request that is pending.
LEMMA ComputesOnly ==
  ASSUME Shaped, Computes
  PROVE  /\ response.error = "pending" /\ response'.error \in {"pending", "SUCCESS", "FAILURE"} /\ Shaped'
         /\ settings' = settings /\ taken' = taken /\ inforce' = inforce /\ request' = request
<1>1. ASSUME response.error = "pending",
             \/ response' = response
             \/ \E states : Keeps(states) \/ Respond(states, TRUE) \/ Respond(states, FALSE)
      PROVE  response'.error \in {"pending", "SUCCESS", "FAILURE"} /\ Shaped'
  <2>1. CASE response' = response
    BY <1>1, <2>1 DEF Shaped
  <2>2. ASSUME NEW states, Keeps(states) \/ Respond(states, TRUE) \/ Respond(states, FALSE)
        PROVE  response'.error \in {"pending", "SUCCESS", "FAILURE"} /\ Shaped'
    BY <1>1, <2>2, Answers
  <2> QED
    BY <1>1, <2>1, <2>2
<1>2. CASE computeTimeStamps
  BY <1>1, <1>2 DEF computeTimeStamps
<1>3. CASE Generate
  BY <1>1, <1>3 DEF Generate, InPlace
<1>4. CASE AssembleOne
  BY <1>1, <1>4 DEF AssembleOne
<1>5. CASE clear
  BY <1>1, <1>5 DEF clear
<1>6. CASE addSuffixWayPoint
  BY <1>1, <1>6 DEF addSuffixWayPoint
<1>7. CASE Throws
  BY <1>1, <1>7 DEF Throws
<1> QED
  BY <1>2, <1>3, <1>4, <1>5, <1>6, <1>7 DEF Computes

LEMMA ReadInvInit == MoveItInit => ReadInv
<1> SUFFICES ASSUME MoveItInit PROVE ReadInv
  OBVIOUS
<1>1. /\ response = [states |-> <<>>, error |-> "none"] /\ settings \in Settings
      /\ taken = <<>> /\ inforce = <<>>
  BY DEF MoveItInit
<1>2. settings \in [Parameters -> Int]
  BY <1>1, MoveItAssumption DEF Parameters
<1>3. ReadFrom(taken, inforce)
  BY <1>1, NothingRead
<1>4. Shaped /\ response.error = "none"
  BY <1>1 DEF Shaped
<1>5. taken \in Seq(Int) /\ Len(taken) <= 3 /\ inforce \in Seq([Parameters -> Int])
  BY <1>1
<1> QED
  BY <1>1, <1>2, <1>3, <1>4, <1>5 DEF ReadInv

LEMMA ReadInvNext == ReadInv /\ [MoveItNext]_moveitVars => ReadInv'
<1> SUFFICES ASSUME ReadInv, [MoveItNext]_moveitVars PROVE ReadInv'
  OBVIOUS
<1>1. /\ Shaped /\ settings \in [Parameters -> Int] /\ inforce \in Seq([Parameters -> Int])
      /\ taken \in Seq(Int) /\ Len(taken) <= 3
      /\ response.error = "none" => taken = <<>>
      /\ response.error = "pending" => inforce # <<>> /\ (Len(taken) < 3 => settings = inforce[Len(inforce)])
      /\ ReadFrom(taken, inforce)
  BY DEF ReadInv
<1>2. ASSUME taken' = taken, inforce' = inforce PROVE ReadFrom(taken', inforce')
  BY <1>1, <1>2 DEF ReadFrom
<1>3. CASE UNCHANGED moveitVars
  <2>1. response' = response /\ settings' = settings /\ taken' = taken /\ inforce' = inforce
    BY <1>3 DEF moveitVars
  <2> QED
    BY <1>1, <1>2, <2>1 DEF ReadInv, Shaped
<1>4. CASE destroy_node
  <2>1. response' = response /\ settings' = settings /\ taken' = taken /\ inforce' = inforce
    BY <1>4 DEF destroy_node
  <2> QED
    BY <1>1, <1>2, <2>1 DEF ReadInv, Shaped
<1>5. CASE initialize
  <2>1. /\ response.error = "none" /\ response' = response /\ taken' = taken /\ inforce' = inforce
        /\ settings' = [p \in DOMAIN settings |-> IF settings[p] = 0 THEN defaults[p] ELSE settings[p]]
    BY <1>5 DEF initialize
  <2>2. \A p \in Parameters : defaults[p] \in Int
    BY DEF defaults, Parameters
  <2>3. settings' \in [Parameters -> Int]
    BY <1>1, <2>1, <2>2
  <2> QED
    BY <1>1, <1>2, <2>1, <2>3 DEF ReadInv, Shaped
<1>6. CASE set_parameter
  <2>1. PICK values \in Settings, p \in DOMAIN settings : settings' = [settings EXCEPT ![p] = values[p]]
    BY <1>6 DEF set_parameter
  <2>2. /\ response' = response /\ taken' = taken
        /\ response.error \in {"none", "pending"}
        /\ inforce' = IF response.error = "pending" THEN Append(inforce, settings') ELSE <<>>
    BY <1>6 DEF set_parameter
  <2>3. p \in Parameters /\ values \in [Parameters -> Int]
    BY <1>1, <2>1, MoveItAssumption DEF Parameters
  <2>4. settings' \in [Parameters -> Int]
    BY <1>1, <2>1, <2>3
  <2>5. CASE response.error = "none"
    <3>1. taken' = <<>> /\ inforce' = <<>>
      BY <1>1, <2>2, <2>5
    <3>2. ReadFrom(taken', inforce')
      BY <3>1, NothingRead
    <3> QED
      BY <1>1, <2>2, <2>4, <2>5, <3>1, <3>2 DEF ReadInv, Shaped
  <2>6. CASE response.error = "pending"
    <3> DEFINE n == Len(inforce)
    <3>1. inforce' = Append(inforce, settings')
      BY <2>2, <2>6
    <3>2. /\ inforce' \in Seq([Parameters -> Int]) /\ inforce' # <<>> /\ Len(inforce') = n + 1
          /\ inforce'[n + 1] = settings' /\ \A i \in 1..n : inforce'[i] = inforce[i]
      <4> DEFINE S == [Parameters -> Int]
                 e == settings'
      <4>1. inforce \in Seq(S) /\ e \in S
        BY <1>1, <2>4
      <4> HIDE DEF S, e
      <4>2. /\ Append(inforce, e) \in Seq(S) /\ Append(inforce, e) # <<>>
            /\ Len(Append(inforce, e)) = Len(inforce) + 1 /\ Append(inforce, e)[Len(inforce) + 1] = e
            /\ \A i \in 1..Len(inforce) : Append(inforce, e)[i] = inforce[i]
        BY <4>1, Appending
      <4> QED
        BY <3>1, <4>2 DEF S, e
    <3>3. n \in Nat
      BY <1>1, LenProperties
    <3>4. PICK from \in [1..Len(taken) -> 1..n] :
            /\ \A k \in 1..Len(taken) : taken[k] = inforce[from[k]][parameters[k]]
            /\ \A j, k \in 1..Len(taken) : j < k => from[j] <= from[k]
      BY <1>1 DEF ReadFrom
    <3> HIDE DEF n
    <3>5. from \in [1..Len(taken) -> 1..n + 1]
      BY <3>3, <3>4
    <3>6. ASSUME NEW k \in 1..Len(taken) PROVE taken'[k] = inforce'[from[k]][parameters[k]]
      <4>1. from[k] \in 1..n
        BY <3>4
      <4> QED
        BY <2>2, <3>2, <3>4, <4>1
    <3>7. ReadFrom(taken', inforce')
      <4> DEFINE read == taken'
                 had == inforce'
                 m == Len(taken)
      <4>1. Len(read) = m /\ Len(had) = n + 1
        BY <2>2, <3>2
      <4>2. /\ from \in [1..m -> 1..n + 1]
            /\ \A k \in 1..m : read[k] = had[from[k]][parameters[k]]
            /\ \A j, k \in 1..m : j < k => from[j] <= from[k]
        BY <3>4, <3>5, <3>6
      <4> HIDE DEF read, had, m
      <4>3. /\ from \in [1..Len(read) -> 1..Len(had)]
            /\ \A k \in 1..Len(read) : read[k] = had[from[k]][parameters[k]]
            /\ \A j, k \in 1..Len(read) : j < k => from[j] <= from[k]
        BY <4>1, <4>2
      <4>4. ReadFrom(read, had)
        BY <4>3 DEF ReadFrom
      <4> QED
        BY <4>4 DEF read, had
    <3> QED
      BY <1>1, <2>2, <2>4, <2>6, <3>2, <3>7 DEF ReadInv, Shaped
  <2> QED
    BY <2>2, <2>5, <2>6
<1>7. CASE adapt
  <2>1. inforce' = <<settings>> /\ taken' = <<>> /\ settings' = settings
    BY <1>7 DEF adapt
  <2>a. PICK given \in Requests :
          response' = [states |-> given.states,
                       error |-> IF ~given.present THEN "INVALID_MOTION_PLAN"
                                 ELSE IF node # "alive" THEN "FAILURE" ELSE "pending"]
    BY <1>7 DEF adapt
  <2>2. ReadFrom(taken', inforce')
    BY <2>1, NothingRead
  <2>3. Shaped' /\ response'.error # "none"
    <3> DEFINE error == IF ~given.present THEN "INVALID_MOTION_PLAN"
                        ELSE IF node # "alive" THEN "FAILURE" ELSE "pending"
    <3>1. error # "none"
      OBVIOUS
    <3>2. response' = [states |-> given.states, error |-> error]
      BY <2>a
    <3> HIDE DEF error
    <3>3. response'.states = given.states /\ response'.error = error
      BY <3>2
    <3> QED
      BY <3>1, <3>2, <3>3 DEF Shaped
  <2>4. /\ inforce' \in Seq([Parameters -> Int]) /\ inforce' # <<>>
        /\ inforce'[Len(inforce')] = settings'
        /\ taken' \in Seq(Int) /\ Len(taken') <= 3
    BY <1>1, <2>1
  <2> QED
    BY <1>1, <2>1, <2>2, <2>3, <2>4 DEF ReadInv
<1>8. CASE CalledDirectly
  <2>1. /\ settings' = settings /\ inforce' = <<defaults>>
        /\ taken' = [k \in 1..Len(parameters) |-> defaults[parameters[k]]]
    BY <1>8 DEF CalledDirectly
  <2>a. PICK given \in Requests : response' = [states |-> given.states, error |-> "pending"]
    BY <1>8 DEF CalledDirectly
  <2>2. defaults \in [Parameters -> Int] /\ Len(parameters) = 3
        /\ \A k \in 1..3 : parameters[k] \in Parameters
    BY DEF defaults, Parameters, parameters
  <2>3. taken' \in Seq(Int) /\ Len(taken') = 3 /\ \A k \in 1..3 : taken'[k] = defaults[parameters[k]]
    <3>1. \A k \in 1..3 : defaults[parameters[k]] \in Int
      BY <2>2
    <3> QED
      BY <2>1, <2>2, <3>1
  <2>4. /\ inforce' \in Seq([Parameters -> Int]) /\ inforce' # <<>>
        /\ Len(inforce') = 1 /\ inforce'[1] = defaults
    BY <2>1, <2>2
  <2>5. Shaped' /\ response'.error = "pending"
    <3>1. response'.states = given.states /\ response'.error = "pending"
      BY <2>a
    <3> QED
      BY <2>a, <3>1 DEF Shaped
  <2> DEFINE from == [k \in 1..3 |-> 1]
  <2>6. from \in [1..3 -> 1..1] /\ \A k \in 1..3 : from[k] = 1
    OBVIOUS
  <2> HIDE DEF from
  <2>7. ReadFrom(taken', inforce')
    <3>1. \A k \in 1..3 : taken'[k] = inforce'[from[k]][parameters[k]]
      BY <2>3, <2>4, <2>6
    <3>2. \A j, k \in 1..3 : j < k => from[j] <= from[k]
      BY <2>6
    <3> DEFINE read == taken'
               had == inforce'
    <3>3. Len(read) = 3 /\ Len(had) = 1
      BY <2>3, <2>4
    <3> HIDE DEF read, had
    <3>4. \A k \in 1..3 : read[k] = had[from[k]][parameters[k]]
      BY <3>1 DEF read, had
    <3>5. /\ from \in [1..Len(read) -> 1..Len(had)]
          /\ \A k \in 1..Len(read) : read[k] = had[from[k]][parameters[k]]
          /\ \A j, k \in 1..Len(read) : j < k => from[j] <= from[k]
      BY <2>6, <3>2, <3>3, <3>4
    <3>6. ReadFrom(read, had)
      BY <3>5 DEF ReadFrom
    <3> QED
      BY <3>6 DEF read, had
  <2>8. Len(taken') <= 3 /\ ~(Len(taken') < 3) /\ settings' \in [Parameters -> Int]
    <3>1. settings' = settings
      BY <2>1
    <3>2. Len(taken') = 3
      BY <2>3
    <3> QED
      BY <1>1, <3>1, <3>2
  <2>9. taken' \in Seq(Int) /\ inforce' \in Seq([Parameters -> Int]) /\ inforce' # <<>>
    BY <2>3, <2>4
  <2>10. response'.error # "none"
    BY <2>5
  <2>11. response'.error = "pending" =>
           inforce' # <<>> /\ (Len(taken') < 3 => settings' = inforce'[Len(inforce')])
    BY <2>8, <2>9
  <2> QED
    BY <2>5, <2>7, <2>8, <2>9, <2>10, <2>11 DEF ReadInv
<1>9. CASE ReadParameter
  <2> DEFINE n == Len(taken)
             name == parameters[n + 1]
             value == settings[name]
  <2>1. /\ response.error = "pending" /\ n < 3
        /\ taken' = Append(taken, value)
        /\ response' = response /\ settings' = settings /\ inforce' = inforce
    BY <1>9 DEF ReadParameter, make, parameters
  <2>2. n \in Nat /\ inforce # <<>> /\ settings = inforce[Len(inforce)]
    BY <1>1, <2>1, LenProperties
  <2>3. Len(inforce) \in Nat \ {0}
    BY <1>1, <2>2, EmptySeq, LenProperties
  <2>4. name \in Parameters
    <3> HIDE DEF n
    <3>1. n + 1 = 1 \/ n + 1 = 2 \/ n + 1 = 3
      BY <2>1, <2>2
    <3>2. parameters[1] \in Parameters /\ parameters[2] \in Parameters /\ parameters[3] \in Parameters
      BY DEF parameters, Parameters
    <3> QED
      BY <3>1, <3>2
  <2>5. value \in Int
    BY <1>1, <2>4
  <2> HIDE DEF value
  <2>6. /\ taken' \in Seq(Int) /\ Len(taken') = n + 1 /\ taken'[n + 1] = value
        /\ \A k \in 1..n : taken'[k] = taken[k]
    BY <1>1, <2>1, <2>5, Appending
  <2>7. PICK from \in [1..n -> 1..Len(inforce)] :
          /\ \A k \in 1..n : taken[k] = inforce[from[k]][parameters[k]]
          /\ \A j, k \in 1..n : j < k => from[j] <= from[k]
    BY <1>1 DEF ReadFrom
  <2> HIDE DEF n
  <2> DEFINE last == Len(inforce)
             next == [k \in 1..n + 1 |-> IF k = n + 1 THEN last ELSE from[k]]
  <2>8. \A k \in 1..n + 1 : k = n + 1 \/ k \in 1..n
    BY <2>2
  <2>9. next[n + 1] = last /\ \A k \in 1..n : next[k] = from[k]
    BY <2>2
  <2> HIDE DEF last
  <2>10. next \in [1..n + 1 -> 1..last]
    BY <2>3, <2>7, <2>8 DEF last
  <2> HIDE DEF next
  <2>11. ASSUME NEW k \in 1..n + 1 PROVE taken'[k] = inforce[next[k]][parameters[k]]
    <3>1. CASE k = n + 1
      BY <2>2, <2>6, <2>9, <3>1 DEF last, value, name
    <3>2. CASE k # n + 1
      BY <2>6, <2>7, <2>8, <2>9, <3>2
    <3> QED
      BY <3>1, <3>2
  <2>12. ASSUME NEW j \in 1..n + 1, NEW k \in 1..n + 1, j < k PROVE next[j] <= next[k]
    <3>1. j \in 1..n
      BY <2>2, <2>12
    <3>2. CASE k = n + 1
      <4>1. from[j] \in 1..last
        BY <2>7, <3>1 DEF last
      <4> QED
        BY <2>3, <2>9, <3>1, <3>2, <4>1 DEF last
    <3>3. CASE k # n + 1
      <4>1. k \in 1..n
        BY <2>8, <3>3
      <4> QED
        BY <2>7, <2>9, <2>12, <3>1, <4>1
    <3> QED
      BY <3>2, <3>3
  <2>13. ReadFrom(taken', inforce')
    BY <2>1, <2>6, <2>10, <2>11, <2>12 DEF ReadFrom, last
  <2>14. n + 1 <= 3
    BY <2>1, <2>2 DEF n
  <2> QED
    BY <1>1, <2>1, <2>2, <2>6, <2>13, <2>14 DEF ReadInv, Shaped
<1>10. CASE Computes
  <2>1. /\ response.error = "pending" /\ response'.error \in {"pending", "SUCCESS", "FAILURE"} /\ Shaped'
        /\ settings' = settings /\ taken' = taken /\ inforce' = inforce
    BY <1>1, <1>10, ComputesOnly
  <2> QED
    BY <1>1, <1>2, <2>1 DEF ReadInv
<1> QED
  BY <1>3, <1>4, <1>5, <1>6, <1>7, <1>8, <1>9, <1>10 DEF MoveItNext, Computes

\* For every setting and whatever is set meanwhile, each part of what is read for a request
\* was in force while it was served, and none is older than the part before (make_).
THEOREM ReadInOrder == MoveItSpec => []SettingsReadInOrder
<1>1. ReadInv => SettingsReadInOrder
  BY DEF ReadInv, ReadFrom, SettingsReadInOrder
<1> QED
  BY <1>1, ReadInvInit, ReadInvNext, PTL DEF MoveItSpec


-----------------------------------------------------------------------------
(* From request to answer *)

Entry == [at : Plane \cup {<<>>}, other : Nat, wait : Nat]

\* What compute_ has checked before it touches the trajectory.
Accepted ==
  /\ request.states # <<>> /\ Len(taken) = 3
  /\ taken[2] \in Nat /\ taken[3] \in Nat \ {0}
  /\ \A joint \in 1..2, kind \in kinds : Usable(given_limit(joint, kind))

PlanInPlace ==
  response.error \in {"pending", "FAILURE"} /\ response.states = unwind(request.states)

MotionMade ==
  /\ timed.points = Unique(request.states, taken[2]) /\ Len(timed.points) >= 2
  /\ timed.duration \in Nat \ {0} /\ timed.other = request.states[1].other
  /\ timed.limits = [joint \in 1..2 |-> [kind \in kinds |-> resolve_limit(joint, kind)]]

SamplesSoFar ==
  assembled \in Seq(Entry) /\ \A k \in 1..Len(assembled) : assembled[k] = Sample(k, taken[3])

\* All that is to replace the plan: one state at rest, or each sample of the motion.
Complete ==
  \/ /\ Len(Unique(request.states, taken[2])) < 2 /\ timed = NotTimed
     /\ assembled = AtRest(unwind(request.states)[1])
  \/ MotionMade /\ SamplesSoFar /\ Len(assembled) = Steps(taken[3]) + 1

PartlyAdded ==
  /\ response.error \in {"pending", "FAILURE", "SUCCESS"}
  /\ response.states \in Seq(Entry) /\ Len(response.states) <= Len(assembled)
  /\ response.error = "SUCCESS" <=> Len(response.states) = Len(assembled)
  /\ \A k \in 1..Len(response.states) : response.states[k] = assembled[k]

AtReading ==
  /\ stage = "reading" /\ timed = NotTimed /\ assembled = <<>>
  /\ response.states = request.states
  /\ response.error = "SUCCESS" => request.states = <<>>

AtUnwound == stage = "unwound" /\ Accepted /\ PlanInPlace /\ timed = NotTimed /\ assembled = <<>>

AtSampling ==
  stage = "sampling" /\ Accepted /\ PlanInPlace /\ MotionMade /\ SamplesSoFar /\ Len(assembled) <= Steps(taken[3])

AtAssembled == stage = "assembled" /\ Accepted /\ PlanInPlace /\ Complete

AtAdding == stage = "adding" /\ Accepted /\ Complete /\ PartlyAdded

StageInv == AtReading \/ AtUnwound \/ AtSampling \/ AtAssembled \/ AtAdding

AnswerInv ==
  /\ request.states \in Seq(State)
  /\ response.error # "none" => request \in Served
  /\ StageInv

\* What depends on nothing but what stays.
LEMMA AcceptedStays ==
  ASSUME request' = request, taken' = taken
  PROVE  /\ Accepted => Accepted'
         /\ \A joint, kind : resolve_limit(joint, kind)' = resolve_limit(joint, kind)
<1>1. \A joint, kind : given_limit(joint, kind)' = given_limit(joint, kind)
  BY DEF given_limit
<1>2. \A kind : verified_scaling_factor(kind)' = verified_scaling_factor(kind)
  BY DEF verified_scaling_factor
<1>3. \A joint, kind : resolve_limit(joint, kind)' = resolve_limit(joint, kind)
  BY <1>1, <1>2 DEF resolve_limit
<1>4. Accepted => Accepted'
  BY <1>1 DEF Accepted
<1> QED
  BY <1>3, <1>4

LEMMA MotionStays ==
  ASSUME request' = request, taken' = taken, timed' = timed
  PROVE  /\ MotionMade => MotionMade'
         /\ Steps(taken[3])' = Steps(taken[3])
         /\ \A k : Sample(k, taken[3])' = Sample(k, taken[3])
<1>1. \A joint, kind : resolve_limit(joint, kind)' = resolve_limit(joint, kind)
  BY AcceptedStays
<1>2. MotionMade => MotionMade'
  BY <1>1 DEF MotionMade
<1>3. Steps(taken[3])' = Steps(taken[3])
  BY DEF Steps
<1>4. \A k : TimeOf(k, taken[3])' = TimeOf(k, taken[3])
  BY <1>3 DEF TimeOf
<1>5. \A k : Sample(k, taken[3])' = Sample(k, taken[3])
  BY <1>3, <1>4 DEF Sample
<1> QED
  BY <1>2, <1>3, <1>5

LEMMA CompleteStays ==
  ASSUME request' = request, taken' = taken, timed' = timed, assembled' = assembled
  PROVE  /\ SamplesSoFar => SamplesSoFar'
         /\ Complete => Complete'
<1>1. /\ MotionMade => MotionMade'
      /\ Steps(taken[3])' = Steps(taken[3])
      /\ \A k : Sample(k, taken[3])' = Sample(k, taken[3])
  BY MotionStays
<1>2. SamplesSoFar => SamplesSoFar'
  BY <1>1 DEF SamplesSoFar
<1>3. Complete => Complete'
  BY <1>1, <1>2 DEF Complete
<1> QED
  BY <1>2, <1>3

LEMMA StageStays ==
  ASSUME StageInv, request' = request, response' = response, taken' = taken,
         stage' = stage, timed' = timed, assembled' = assembled
  PROVE  StageInv'
<1>1. /\ Accepted => Accepted'
      /\ MotionMade => MotionMade'
      /\ Steps(taken[3])' = Steps(taken[3])
      /\ SamplesSoFar => SamplesSoFar'
      /\ Complete => Complete'
  BY AcceptedStays, MotionStays, CompleteStays
<1>2. /\ PlanInPlace => PlanInPlace'
      /\ PartlyAdded => PartlyAdded'
  BY DEF PlanInPlace, PartlyAdded
<1>3. CASE AtReading
  BY <1>3 DEF AtReading, StageInv
<1>4. CASE AtUnwound
  BY <1>1, <1>2, <1>4 DEF AtUnwound, StageInv
<1>5. CASE AtSampling
  BY <1>1, <1>2, <1>5 DEF AtSampling, StageInv
<1>6. CASE AtAssembled
  BY <1>1, <1>2, <1>6 DEF AtAssembled, StageInv
<1>7. CASE AtAdding
  BY <1>1, <1>2, <1>7 DEF AtAdding, StageInv
<1> QED
  BY <1>3, <1>4, <1>5, <1>6, <1>7 DEF StageInv

LEMMA RequestsAreServed == Requests \subseteq Served
<1>1. State = [at : Int \X Int, other : Nat, wait : Nat] /\ Plane = Int \X Int
  BY DEF State, Plane
<1> QED
  BY <1>1, MoveItAssumption DEF Served

\* The plan after unwinding, and where its first state is.
LEMMA UnwoundFirst ==
  ASSUME NEW plan \in Seq(State), plan # <<>>
  PROVE  /\ unwind(plan) \in Seq(State) /\ unwind(plan) # <<>> /\ Len(unwind(plan)) = Len(plan)
         /\ unwind(plan)[1] \in State /\ unwind(plan)[1].other = plan[1].other
         /\ SamePlace(unwind(plan)[1].at, plan[1].at) /\ plan[1].other \in Nat
<1> DEFINE u == unwind(plan)
           n == Len(plan)
<1>1. Unwound(u, plan)
  BY UnwindKeeps
<1>2. n \in Nat \ {0} /\ plan[1] \in State
  BY EmptySeq, LenProperties, ElementOfSeq
<1>3. u \in Seq(State) /\ Len(u) = n /\ TurnedFrom(u[1], plan[1])
  BY <1>1, <1>2 DEF Unwound
<1>4. SamePlace(u[1].at, plan[1].at)
  BY <1>2, <1>3, TurnedIsSame
<1>5. u[1] \in State /\ u[1].other = plan[1].other
  BY <1>3 DEF TurnedFrom
<1>6. u # <<>>
  BY <1>2, <1>3, EmptySeq
<1>7. plan[1].other \in Nat
  BY <1>2 DEF State
<1> QED
  BY <1>3, <1>4, <1>5, <1>6, <1>7

LEMMA SamplesAreEntries ==
  ASSUME request.states \in Seq(State), Accepted, MotionMade
  PROVE  /\ Steps(taken[3]) \in Nat \ {0}
         /\ \A k \in 1..Steps(taken[3]) + 1 : Sample(k, taken[3]) \in Entry
<1> DEFINE plan == request.states
           points == timed.points
           period == taken[3]
<1>1. /\ plan \in Seq(State) /\ plan # <<>> /\ period \in Nat \ {0} /\ taken[2] \in Nat
      /\ points = Unique(plan, taken[2]) /\ Len(points) >= 2
      /\ timed.duration \in Nat \ {0} /\ timed.other = plan[1].other
  BY DEF Accepted, MotionMade
<1>2. Follow(points, plan, taken[2])
  BY <1>1, PlanIsFollowed
<1>3. points \in Seq(Plane) /\ points # <<>>
  BY <1>2 DEF Follow
<1>4. points[1] \in Plane /\ Last(points) \in Plane
  BY <1>3, EmptySeq, LenProperties, ElementOfSeq DEF Last
<1>5. timed.other \in Nat
  BY <1>1, UnwoundFirst
<1>6. /\ Steps(period) \in Nat \ {0}
      /\ \A k \in 1..Steps(period) + 1 : Sample(k, period).wait \in 0..period
  BY <1>1, SamplesAreTimed
<1>7. ASSUME NEW k \in 1..Steps(period) + 1 PROVE Sample(k, period) \in Entry
  <2> DEFINE at == IF k = 1 THEN points[1] ELSE IF k = Steps(period) + 1 THEN Last(points) ELSE <<>>
             wait == IF k = 1 THEN 0 ELSE TimeOf(k, period) - TimeOf(k - 1, period)
  <2>1. Sample(k, period) = [at |-> at, other |-> timed.other, wait |-> wait]
    BY DEF Sample
  <2>2. at \in Plane \cup {<<>>}
    BY <1>4
  <2> HIDE DEF at, wait
  <2>3. wait = Sample(k, period).wait
    BY <2>1
  <2>4. wait \in Nat
    BY <1>1, <1>6, <1>7, <2>3
  <2> QED
    BY <1>5, <2>1, <2>2, <2>4 DEF Entry
<1> QED
  BY <1>6, <1>7

LEMMA AnswerInvInit == MoveItInit => AnswerInv
<1> SUFFICES ASSUME MoveItInit PROVE AnswerInv
  OBVIOUS
<1>1. /\ request = NoRequest /\ response = [states |-> <<>>, error |-> "none"]
      /\ stage = "reading" /\ timed = NotTimed /\ assembled = <<>>
  BY DEF MoveItInit
<1>2. request.states = <<>> /\ response.states = <<>> /\ response.error = "none"
  BY <1>1 DEF NoRequest
<1>3. AtReading
  BY <1>1, <1>2 DEF AtReading
<1> QED
  BY <1>2, <1>3 DEF AnswerInv, StageInv

\* Each step from a stage to the next, or to an answer.
LEMMA ComputeStarts ==
  ASSUME ReadInv, AnswerInv, computeTimeStamps
  PROVE  StageInv'
<1>1. /\ response.error = "pending" /\ stage = "reading" /\ Len(taken) = 3
      /\ request' = request /\ taken' = taken /\ timed' = timed /\ assembled' = assembled
  BY DEF computeTimeStamps, parameters
<1>2. AtReading
  BY <1>1 DEF AnswerInv, StageInv, AtUnwound, AtSampling, AtAssembled, AtAdding
<1>3. timed = NotTimed /\ assembled = <<>> /\ response.states = request.states
  BY <1>2 DEF AtReading
<1>4. Shaped
  BY DEF ReadInv
<1>5. CASE Respond(response.states, FALSE) /\ UNCHANGED stage
  <2>1. response'.states = response.states /\ response'.error = "FAILURE"
    BY <1>4, <1>5, Answers
  <2>2. AtReading'
    BY <1>1, <1>3, <1>5, <2>1 DEF AtReading
  <2> QED
    BY <2>2 DEF StageInv
<1>6. CASE response.states = <<>> /\ Respond(<<>>, TRUE) /\ UNCHANGED stage
  <2>1. response'.states = <<>> /\ response'.error = "SUCCESS"
    BY <1>4, <1>6, Answers
  <2>2. AtReading'
    BY <1>1, <1>3, <1>6, <2>1 DEF AtReading
  <2> QED
    BY <2>2 DEF StageInv
<1>7. CASE ~Refused /\ response.states # <<>> /\ Keeps(unwind(response.states)) /\ stage' = "unwound"
  <2>1. response'.states = unwind(response.states) /\ response'.error = "pending"
    BY <1>1, <1>4, <1>7, Answers
  <2>2. taken[2] \in Int /\ taken[3] \in Int
    <3>1. taken \in Seq(Int)
      BY DEF ReadInv
    <3>2. Len(taken) = 3
      BY <1>1
    <3>3. 2 \in 1..Len(taken) /\ 3 \in 1..Len(taken)
      BY <3>2
    <3> QED
      BY <3>1, <3>3, ElementOfSeq
  <2>3. /\ ~(taken[2] < 0) /\ ~(taken[3] <= 0)
        /\ \A joint \in 1..2, kind \in kinds : Usable(given_limit(joint, kind))
    BY <1>7 DEF Refused
  <2>4. taken[2] \in Nat /\ taken[3] \in Nat \ {0}
    BY <2>2, <2>3
  <2>5. Accepted
    BY <1>1, <1>3, <1>7, <2>3, <2>4 DEF Accepted
  <2>6. Accepted'
    BY <1>1, <2>5, AcceptedStays
  <2>7. PlanInPlace'
    <3>1. unwind(request.states)' = unwind(request.states)
      BY <1>1 DEF unwind
    <3> QED
      BY <1>3, <2>1, <3>1 DEF PlanInPlace
  <2>8. AtUnwound'
    BY <1>1, <1>3, <1>7, <2>6, <2>7 DEF AtUnwound
  <2> QED
    BY <2>8 DEF StageInv
<1> QED
  BY <1>5, <1>6, <1>7 DEF computeTimeStamps

LEMMA GenerateMakes ==
  ASSUME ReadInv, AnswerInv, Generate
  PROVE  StageInv'
<1> DEFINE plan == request.states
           states == response.states
           unique == Unique(plan, taken[2])
<1>1. /\ response.error = "pending" /\ stage = "unwound"
      /\ request' = request /\ taken' = taken
  BY DEF Generate
<1>2. AtUnwound
  BY <1>1 DEF AnswerInv, StageInv, AtReading, AtSampling, AtAssembled, AtAdding
<1>3. Accepted /\ PlanInPlace /\ timed = NotTimed /\ assembled = <<>> /\ states = unwind(plan)
  BY <1>2 DEF AtUnwound, PlanInPlace
<1>4. plan \in Seq(State) /\ plan # <<>>
  BY <1>3 DEF AnswerInv, Accepted
<1>5. unique = deduplicate_waypoints([k \in 1..Len(states) |-> states[k].at], taken[2])
  BY <1>3 DEF Unique, Places
<1>6. Accepted'
  BY <1>1, <1>3, AcceptedStays
<1>7. ASSUME response' = response PROVE PlanInPlace'
  BY <1>1, <1>3, <1>7 DEF PlanInPlace
<1>8. unique' = unique
  BY <1>1
<1>9. CASE /\ Len(unique) < 2 /\ assembled' = AtRest(states[1])
           /\ stage' = "assembled" /\ response' = response /\ timed' = timed
  <2>1. assembled' = AtRest(unwind(plan)[1])
    BY <1>3, <1>9
  <2>2. Complete'
    BY <1>1, <1>3, <1>8, <1>9, <2>1 DEF Complete
  <2>3. AtAssembled'
    BY <1>6, <1>7, <1>9, <2>2 DEF AtAssembled
  <2> QED
    BY <2>3 DEF StageInv
<1>10. CASE /\ Len(unique) >= 2 /\ (\E duration \in TravelTimes : timed' = Created(unique, duration))
            /\ stage' = "sampling" /\ response' = response /\ assembled' = assembled
  <2>1. PICK duration \in TravelTimes : timed' = Created(unique, duration)
    BY <1>10
  <2>2. duration \in Nat \ {0}
    BY MoveItAssumption
  <2>3. /\ timed'.points = unique /\ timed'.duration = duration /\ timed'.other = states[1].other
        /\ timed'.limits = [joint \in 1..2 |-> [kind \in kinds |-> resolve_limit(joint, kind)]]
    BY <2>1 DEF Created
  <2>4. states[1].other = plan[1].other
    BY <1>3, <1>4, UnwoundFirst
  <2>5. \A joint, kind : resolve_limit(joint, kind)' = resolve_limit(joint, kind)
    BY <1>1, AcceptedStays
  <2>6. MotionMade'
    BY <1>1, <1>8, <1>10, <2>2, <2>3, <2>4, <2>5 DEF MotionMade
  <2>7. SamplesSoFar' /\ Len(assembled') = 0
    BY <1>3, <1>10 DEF SamplesSoFar
  <2>8. Steps(taken[3])' \in Nat
    <3>1. /\ timed'.duration \in Nat \ {0} /\ taken'[3] \in Nat \ {0}
      BY <1>6, <2>6 DEF Accepted, MotionMade
    <3>2. (timed'.duration + taken'[3] - 1) \div taken'[3] \in Nat
      BY <3>1, RoundedUp
    <3> QED
      BY <3>2 DEF Steps
  <2>9. AtSampling'
    BY <1>6, <1>7, <1>10, <2>6, <2>7, <2>8 DEF AtSampling
  <2> QED
    BY <2>9 DEF StageInv
<1>11. \/ /\ Len(unique) < 2
          /\ assembled' = AtRest(states[1])
          /\ stage' = "assembled"
          /\ response' = response /\ timed' = timed
       \/ /\ Len(unique) >= 2
          /\ \E duration \in TravelTimes : timed' = Created(unique, duration)
          /\ stage' = "sampling"
          /\ response' = response
          /\ assembled' = assembled
  BY <1>5 DEF Generate, InPlace
<1> QED
  BY <1>9, <1>10, <1>11

LEMMA AssembleAdds ==
  ASSUME ReadInv, AnswerInv, AssembleOne
  PROVE  StageInv'
<1> DEFINE period == taken[3]
           n == Len(assembled)
           next == Sample(n + 1, period)
<1>1. /\ response.error = "pending" /\ stage = "sampling"
      /\ assembled' = Append(assembled, next)
      /\ stage' = IF Len(assembled') = Steps(period) + 1 THEN "assembled" ELSE stage
      /\ request' = request /\ response' = response /\ taken' = taken /\ timed' = timed
  BY DEF AssembleOne
<1>2. AtSampling
  BY <1>1 DEF AnswerInv, StageInv, AtReading, AtUnwound, AtAssembled, AtAdding
<1>3. Accepted /\ PlanInPlace /\ MotionMade /\ SamplesSoFar /\ n <= Steps(period)
  BY <1>2 DEF AtSampling
<1>4. /\ Steps(period) \in Nat \ {0}
      /\ \A k \in 1..Steps(period) + 1 : Sample(k, period) \in Entry
  BY <1>3, SamplesAreEntries DEF AnswerInv
<1>5. assembled \in Seq(Entry) /\ n \in Nat /\ \A k \in 1..n : assembled[k] = Sample(k, period)
  BY <1>3, LenProperties DEF SamplesSoFar
<1>6. next \in Entry
  <2> HIDE DEF n, period
  <2>1. n + 1 \in 1..Steps(period) + 1
    BY <1>3, <1>4, <1>5
  <2> QED
    BY <1>4, <2>1
<1> HIDE DEF next
<1>7. /\ assembled' \in Seq(Entry) /\ Len(assembled') = n + 1 /\ assembled'[n + 1] = next
      /\ \A k \in 1..n : assembled'[k] = assembled[k]
  BY <1>1, <1>5, <1>6, Appending
<1>8. /\ Accepted' /\ MotionMade' /\ Steps(taken[3])' = Steps(taken[3])
      /\ \A k : Sample(k, taken[3])' = Sample(k, taken[3])
  BY <1>1, <1>3, AcceptedStays, MotionStays
<1>9. PlanInPlace'
  BY <1>1, <1>3 DEF PlanInPlace
<1>10. SamplesSoFar'
  <2>1. ASSUME NEW k \in 1..n + 1 PROVE assembled'[k] = Sample(k, period)
    <3>1. CASE k = n + 1
      BY <1>7, <3>1 DEF next
    <3>2. CASE k # n + 1
      <4>1. k \in 1..n
        BY <1>5, <3>2
      <4> QED
        BY <1>5, <1>7, <4>1
    <3> QED
      BY <3>1, <3>2
  <2>2. ASSUME NEW k \in 1..Len(assembled') PROVE assembled'[k] = Sample(k, taken[3])'
    BY <1>7, <1>8, <2>1
  <2> QED
    BY <1>7, <2>2 DEF SamplesSoFar
<1>11. CASE Len(assembled') = Steps(period) + 1
  <2>1. Complete'
    BY <1>8, <1>10, <1>11 DEF Complete
  <2>2. AtAssembled'
    BY <1>1, <1>8, <1>9, <1>11, <2>1 DEF AtAssembled
  <2> QED
    BY <2>2 DEF StageInv
<1>12. CASE Len(assembled') # Steps(period) + 1
  <2>1. Len(assembled') <= Steps(taken[3])'
    <3>1. n + 1 <= Steps(period) + 1 /\ n + 1 # Steps(period) + 1
      BY <1>3, <1>4, <1>5, <1>7, <1>12
    <3>2. n + 1 <= Steps(period)
      <4> HIDE DEF n, period
      <4> QED
        BY <1>4, <1>5, <3>1
    <3> QED
      BY <1>7, <1>8, <3>2
  <2>2. AtSampling'
    BY <1>1, <1>8, <1>9, <1>10, <1>12, <2>1 DEF AtSampling
  <2> QED
    BY <2>2 DEF StageInv
<1> QED
  BY <1>11, <1>12

LEMMA CompleteEntries ==
  ASSUME request.states \in Seq(State), Accepted, Complete
  PROVE  assembled \in Seq(Entry) /\ Len(assembled) \in Nat \ {0}
<1> DEFINE first == unwind(request.states)[1]
<1>1. first \in State
  BY UnwoundFirst DEF Accepted
<1>2. CASE assembled = AtRest(first)
  <2>1. [first EXCEPT !.wait = 0] \in Entry
    BY <1>1 DEF State, Entry
  <2> QED
    BY <1>2, <2>1 DEF AtRest
<1>3. CASE MotionMade /\ SamplesSoFar /\ Len(assembled) = Steps(taken[3]) + 1
  <2>1. Steps(taken[3]) \in Nat \ {0}
    BY <1>3, SamplesAreEntries
  <2> QED
    BY <1>3, <2>1 DEF SamplesSoFar
<1> QED
  BY <1>2, <1>3 DEF Complete

LEMMA ClearEmpties ==
  ASSUME ReadInv, AnswerInv, clear
  PROVE  StageInv'
<1>1. /\ response.error = "pending" /\ stage = "assembled" /\ stage' = "adding" /\ Keeps(<<>>)
      /\ request' = request /\ taken' = taken /\ timed' = timed /\ assembled' = assembled
  BY DEF clear
<1>2. AtAssembled
  BY <1>1 DEF AnswerInv, StageInv, AtReading, AtUnwound, AtSampling, AtAdding
<1>3. Accepted /\ Complete /\ request.states \in Seq(State)
  BY <1>2 DEF AtAssembled, AnswerInv
<1>4. response'.states = <<>> /\ response'.error = "pending"
  <2>1. Shaped
    BY DEF ReadInv
  <2>2. Keeps(<<>>)
    BY <1>1
  <2> QED
    BY <1>1, <2>1, <2>2, Answers
<1>5. Accepted' /\ Complete'
  BY <1>1, <1>3, AcceptedStays, CompleteStays
<1>6. Len(assembled') \in Nat \ {0}
  BY <1>1, <1>3, CompleteEntries
<1>7. response'.states \in Seq(Entry) /\ Len(response'.states) = 0
  BY <1>4
<1>8. PartlyAdded'
  BY <1>4, <1>6, <1>7 DEF PartlyAdded
<1> QED
  BY <1>1, <1>5, <1>8 DEF StageInv, AtAdding

LEMMA OneIsAdded ==
  ASSUME ReadInv, AnswerInv, addSuffixWayPoint
  PROVE  StageInv'
<1> DEFINE had == response.states
           n == Len(had)
           m == Len(assembled)
           next == assembled[n + 1]
           states == Append(had, next)
<1>1. /\ response.error = "pending" /\ stage = "adding"
      /\ request' = request /\ taken' = taken
      /\ stage' = stage /\ timed' = timed /\ assembled' = assembled
  BY DEF addSuffixWayPoint, work
<1>2. AtAdding
  BY <1>1 DEF AnswerInv, StageInv, AtReading, AtUnwound, AtSampling, AtAssembled
<1>3. /\ Accepted /\ Complete /\ request.states \in Seq(State)
      /\ had \in Seq(Entry) /\ n <= m /\ n # m
      /\ \A k \in 1..n : had[k] = assembled[k]
  BY <1>1, <1>2 DEF AtAdding, AnswerInv, PartlyAdded
<1>4. assembled \in Seq(Entry) /\ m \in Nat \ {0} /\ n \in Nat
  BY <1>3, CompleteEntries, LenProperties
<1>5. next \in Entry
  <2> HIDE DEF n
  <2>1. n + 1 \in 1..m
    BY <1>3, <1>4
  <2> QED
    BY <1>4, <2>1, ElementOfSeq
<1>6. /\ Accepted' /\ Complete'
  BY <1>1, <1>3, AcceptedStays, CompleteStays
<1> HIDE DEF next
<1>7. /\ states \in Seq(Entry) /\ Len(states) = n + 1 /\ states[n + 1] = next
      /\ \A k \in 1..n : states[k] = had[k]
  BY <1>3, <1>5, Appending
<1>8. IF Len(states) = m THEN Respond(states, TRUE) ELSE Keeps(states)
  BY DEF addSuffixWayPoint, next
<1> HIDE DEF states
<1>9. /\ response'.states = states
      /\ response'.error = IF Len(states) = m THEN "SUCCESS" ELSE "pending"
  <2>1. Shaped
    BY DEF ReadInv
  <2> QED
    BY <1>1, <1>8, <2>1, Answers
<1>10. ASSUME NEW k \in 1..n + 1 PROVE states[k] = assembled[k]
  <2>1. CASE k = n + 1
    BY <1>7, <2>1 DEF next
  <2>2. CASE k # n + 1
    <3>1. k \in 1..n
      BY <1>4, <2>2
    <3> QED
      BY <1>3, <1>7, <3>1
  <2> QED
    BY <2>1, <2>2
<1>11. n + 1 <= m
  <2> HIDE DEF n, m
  <2> QED
    BY <1>3, <1>4
<1>12. PartlyAdded'
  <2>1. assembled' = assembled /\ response'.states = states /\ Len(states) = n + 1
    BY <1>1, <1>7, <1>9
  <2>2. /\ response'.error \in {"pending", "FAILURE", "SUCCESS"}
        /\ response'.error = "SUCCESS" <=> Len(response'.states) = Len(assembled')
    BY <1>9, <2>1
  <2>3. response'.states \in Seq(Entry) /\ Len(response'.states) <= Len(assembled')
    BY <1>7, <1>11, <2>1
  <2>4. \A k \in 1..Len(response'.states) : response'.states[k] = assembled'[k]
    BY <1>10, <2>1
  <2> QED
    BY <2>2, <2>3, <2>4 DEF PartlyAdded
<1> QED
  BY <1>1, <1>6, <1>12 DEF StageInv, AtAdding

LEMMA ThrownAnywhere ==
  ASSUME ReadInv, AnswerInv, Throws
  PROVE  StageInv'
<1>1. /\ response.error = "pending" /\ Respond(response.states, FALSE)
      /\ request' = request /\ taken' = taken
      /\ stage' = stage /\ timed' = timed /\ assembled' = assembled
  BY DEF Throws, work
<1>2. response'.states = response.states /\ response'.error = "FAILURE"
  <2>1. Shaped
    BY DEF ReadInv
  <2>2. Respond(response.states, FALSE)
    BY <1>1
  <2> QED
    BY <2>1, <2>2, Answers
<1>3. /\ Accepted => Accepted'
      /\ MotionMade => MotionMade'
      /\ Steps(taken[3])' = Steps(taken[3])
      /\ SamplesSoFar => SamplesSoFar'
      /\ Complete => Complete'
  BY <1>1, AcceptedStays, MotionStays, CompleteStays
<1>4. /\ PlanInPlace => PlanInPlace'
      /\ PartlyAdded => PartlyAdded'
  <2>1. unwind(request.states)' = unwind(request.states)
    BY <1>1 DEF unwind
  <2>2. PlanInPlace => PlanInPlace'
    BY <1>2, <2>1 DEF PlanInPlace
  <2>3. PartlyAdded => PartlyAdded'
    <3>1. response.error = "pending" /\ assembled' = assembled
      BY <1>1
    <3> QED
      BY <1>2, <3>1 DEF PartlyAdded
  <2> QED
    BY <2>2, <2>3
<1>5. CASE AtReading
  BY <1>1, <1>2, <1>5 DEF AtReading, StageInv
<1>6. CASE AtUnwound
  BY <1>1, <1>3, <1>4, <1>6 DEF AtUnwound, StageInv
<1>7. CASE AtSampling
  BY <1>1, <1>3, <1>4, <1>7 DEF AtSampling, StageInv
<1>8. CASE AtAssembled
  BY <1>1, <1>3, <1>4, <1>8 DEF AtAssembled, StageInv
<1>9. CASE AtAdding
  BY <1>1, <1>3, <1>4, <1>9 DEF AtAdding, StageInv
<1> QED
  BY <1>5, <1>6, <1>7, <1>8, <1>9 DEF AnswerInv, StageInv

\* A request is received.
LEMMA RequestStarts ==
  ASSUME AnswerInv, response.error = "none", adapt \/ CalledDirectly
  PROVE  request' \in Served /\ StageInv' /\ response'.error # "none"
<1>1. AtReading
  BY DEF AnswerInv, StageInv, AtUnwound, AtSampling, AtAssembled, AtAdding, PlanInPlace, PartlyAdded
<1>2. PICK given \in Requests :
        /\ request' = given
        /\ \E error \in {"INVALID_MOTION_PLAN", "FAILURE", "pending"} :
             response' = [states |-> given.states, error |-> error]
  BY DEF adapt, CalledDirectly
<1>3. PICK error \in {"INVALID_MOTION_PLAN", "FAILURE", "pending"} :
        response' = [states |-> given.states, error |-> error]
  BY <1>2
<1>4. response'.states = given.states /\ response'.error = error
  BY <1>3
<1>5. stage' = stage /\ timed' = timed /\ assembled' = assembled
  BY DEF adapt, CalledDirectly, work
<1>6. request' \in Served
  BY <1>2, RequestsAreServed
<1>7. AtReading'
  BY <1>1, <1>2, <1>4, <1>5 DEF AtReading
<1> QED
  BY <1>4, <1>6, <1>7 DEF StageInv

LEMMA AnswerInvNext == ReadInv /\ AnswerInv /\ [MoveItNext]_moveitVars => AnswerInv'
<1> SUFFICES ASSUME ReadInv, AnswerInv, [MoveItNext]_moveitVars PROVE AnswerInv'
  OBVIOUS
<1>1. /\ request.states \in Seq(State) /\ StageInv
      /\ response.error # "none" => request \in Served
  BY DEF AnswerInv
<1>2. ASSUME request' = request, response' = response, taken' = taken,
             stage' = stage, timed' = timed, assembled' = assembled
      PROVE  AnswerInv'
  <2>1. StageInv'
    BY <1>1, <1>2, StageStays
  <2> QED
    BY <1>1, <1>2, <2>1 DEF AnswerInv
<1>3. CASE UNCHANGED moveitVars
  <2>1. /\ request' = request /\ response' = response /\ taken' = taken
        /\ stage' = stage /\ timed' = timed /\ assembled' = assembled
    BY <1>3 DEF moveitVars
  <2> QED
    BY <1>2, <2>1
<1>4. CASE initialize \/ set_parameter \/ destroy_node
  <2>1. /\ request' = request /\ response' = response /\ taken' = taken
        /\ stage' = stage /\ timed' = timed /\ assembled' = assembled
    BY <1>4 DEF initialize, set_parameter, destroy_node, work
  <2> QED
    BY <1>2, <2>1
<1>5. CASE adapt \/ CalledDirectly
  <2>1. response.error = "none"
    BY <1>5 DEF adapt, CalledDirectly
  <2>2. request' \in Served /\ StageInv'
    BY <1>5, <2>1, RequestStarts
  <2>3. request'.states \in Seq(State)
    BY <2>2 DEF Served
  <2> QED
    BY <2>2, <2>3 DEF AnswerInv
<1>6. CASE ReadParameter
  <2>1. /\ Len(taken) < 3 /\ request' = request /\ response' = response
        /\ stage' = stage /\ timed' = timed /\ assembled' = assembled
    BY <1>6 DEF ReadParameter, parameters, work
  <2>2. AtReading
    BY <1>1, <2>1 DEF StageInv, AtUnwound, AtSampling, AtAssembled, AtAdding, Accepted
  <2>3. AtReading'
    BY <2>1, <2>2 DEF AtReading
  <2> QED
    BY <1>1, <2>1, <2>3 DEF AnswerInv, StageInv
<1>7. CASE Computes
  <2>1. response.error = "pending" /\ request' = request
    BY <1>7, ComputesOnly DEF ReadInv
  <2>2. StageInv'
    BY <1>7, ComputeStarts, GenerateMakes, AssembleAdds, ClearEmpties, OneIsAdded, ThrownAnywhere
      DEF Computes
  <2>3. request' \in Served /\ request'.states \in Seq(State)
    BY <1>1, <2>1
  <2> QED
    BY <2>2, <2>3 DEF AnswerInv
<1> QED
  BY <1>3, <1>4, <1>5, <1>6, <1>7 DEF MoveItNext, Computes

LEMMA UnwoundIsSameMotion ==
  ASSUME NEW plan \in Seq(State), NEW states, Unwound(states, plan)
  PROVE  SameMotion(states, plan)
<1>1. ASSUME NEW k \in 1..Len(plan)
      PROVE  /\ SamePlace(states[k].at, plan[k].at)
             /\ [states[k] EXCEPT !.at = <<>>] = [plan[k] EXCEPT !.at = <<>>]
  <2>1. plan[k] \in State
    BY LenProperties, ElementOfSeq
  <2>2. TurnedFrom(states[k], plan[k])
    BY DEF Unwound
  <2> QED
    BY <2>1, <2>2, TurnedIsSame
<1>2. Len(states) = Len(plan)
  BY DEF Unwound
<1> QED
  BY <1>1, <1>2 DEF SameMotion

\* What is assembled is as long as the timed motion.
LEMMA AssembledLasts ==
  ASSUME request.states \in Seq(State), Accepted, Complete
  PROVE  Duration(assembled) = timed.duration
<1> DEFINE period == taken[3]
           first == unwind(request.states)[1]
<1>1. CASE MotionMade /\ SamplesSoFar /\ Len(assembled) = Steps(period) + 1
  <2> DEFINE n == Steps(period) + 1
             waits == [k \in 1..Len(assembled) |-> assembled[k].wait]
             spaced == [k \in 1..n |-> Sample(k, period).wait]
  <2>1. Sum(spaced) = timed.duration
    BY <1>1, SamplesAreTimed DEF Accepted, MotionMade
  <2>2. \A k \in 1..n : assembled[k] = Sample(k, period)
    BY <1>1 DEF SamplesSoFar
  <2>3. waits = spaced
    BY <1>1, <2>2
  <2>4. Duration(assembled) = Sum(waits)
    BY DEF Duration
  <2> HIDE DEF waits, spaced
  <2> QED
    BY <2>1, <2>3, <2>4
<1>2. CASE timed = NotTimed /\ assembled = AtRest(first)
  <2> DEFINE waits == [k \in 1..Len(assembled) |-> assembled[k].wait]
  <2>1. first \in State
    BY UnwoundFirst DEF Accepted
  <2>2. [first EXCEPT !.wait = 0].wait = 0
    BY <2>1 DEF State
  <2>3. Len(assembled) = 1 /\ assembled[1].wait = 0
    BY <1>2, <2>2 DEF AtRest
  <2>4. waits \in [1..1 -> Int] /\ waits[1] = 0
    BY <2>3
  <2>5. Duration(assembled) = Sum(waits)
    BY DEF Duration
  <2> HIDE DEF waits
  <2>6. PICK sum \in [0..1 -> Int] : Adds(sum, waits, 1) /\ Sum(waits) = sum[1]
    BY <2>4, SumIs
  <2>7. sum[1] = 0
    <3>1. sum[0] = 0 /\ sum[1] = sum[1 - 1] + waits[1]
      BY <2>6 DEF Adds
    <3> QED
      BY <2>4, <3>1
  <2>8. timed.duration = 0
    BY <1>2 DEF NotTimed
  <2> QED
    BY <2>5, <2>6, <2>7, <2>8
<1> QED
  BY <1>1, <1>2 DEF Complete

\* For every trajectory of the planner, every set of parameters and wherever something
\* throws, a request that fails leaves the motion as it was until all that is to replace it
\* has been assembled, and after that the part that was put in its place (compute_, adapt).
THEOREM FailureKeepsPlan == MoveItSpec => []PlanSurvivesUntilReplaced
<1>1. ASSUME AnswerInv PROVE PlanSurvivesUntilReplaced
  <2> SUFFICES ASSUME response.error \in {"FAILURE", "INVALID_MOTION_PLAN"}
               PROVE  \/ SameMotion(response.states, request.states)
                      \/ /\ Duration(assembled) = timed.duration
                         /\ Len(response.states) < Len(assembled)
                         /\ \A k \in 1..Len(response.states) : response.states[k] = assembled[k]
    BY DEF PlanSurvivesUntilReplaced
  <2>1. request.states \in Seq(State)
    BY <1>1 DEF AnswerInv
  <2>2. CASE AtReading
    <3>1. Unwound(response.states, request.states)
      BY <2>1, <2>2, UnwoundItself DEF AtReading
    <3> QED
      BY <2>1, <3>1, UnwoundIsSameMotion
  <2>3. CASE AtUnwound \/ AtSampling \/ AtAssembled
    <3>1. Unwound(response.states, request.states)
      BY <2>1, <2>3, UnwindKeeps DEF AtUnwound, AtSampling, AtAssembled, PlanInPlace
    <3> QED
      BY <2>1, <3>1, UnwoundIsSameMotion
  <2>4. CASE AtAdding
    <3>1. Accepted /\ Complete
      BY <2>4 DEF AtAdding
    <3>2. /\ Len(response.states) <= Len(assembled) /\ Len(response.states) # Len(assembled)
          /\ response.states \in Seq(Entry)
          /\ \A k \in 1..Len(response.states) : response.states[k] = assembled[k]
      BY <2>4 DEF AtAdding, PartlyAdded
    <3>3. Len(response.states) \in Nat /\ Len(assembled) \in Nat
      BY <2>1, <3>1, <3>2, CompleteEntries, LenProperties
    <3>4. Len(response.states) < Len(assembled)
      BY <3>2, <3>3
    <3>5. Duration(assembled) = timed.duration
      BY <2>1, <3>1, AssembledLasts
    <3> QED
      BY <3>2, <3>4, <3>5
  <2> QED
    BY <1>1, <2>2, <2>3, <2>4 DEF AnswerInv, StageInv
<1> QED
  BY <1>1, ReadInvInit, ReadInvNext, AnswerInvInit, AnswerInvNext, PTL DEF MoveItSpec

\* What SuccessIsTimed says of the states of an answer.
IsTimed(states) ==
  LET plan == request.states
      points == timed.points
  IN  /\ states # <<>> /\ SamePlace(states[1].at, plan[1].at) /\ states[1].wait = 0
      /\ \A k \in 1..Len(states) : states[k].other = plan[1].other /\ states[k].wait \in 0..taken[3]
      /\ Duration(states) = timed.duration
      /\ Len(states) = 1 => \A k \in 1..Len(plan) : Way(plan[1].at, plan[k].at) <= taken[2]
      /\ Len(states) > 1 =>
           /\ SamePlace(Last(states).at, Last(plan).at)
           /\ \A k \in 1..Len(plan) : \E j \in 1..Len(points) : Way(points[j], plan[k].at) <= 2 * taken[2]
           /\ Sum([k \in 1..Len(points) - 1 |-> Linf(points[k], points[k + 1])])
                <= Sum([k \in 1..Len(plan) - 1 |-> Way(plan[k].at, plan[k + 1].at)])
           /\ \A joint \in 1..2, kind \in kinds : Within(timed.limits[joint][kind], joint, kind)

LEMMA RestIsTimed ==
  ASSUME request.states \in Seq(State), Accepted, Complete,
         Len(Unique(request.states, taken[2])) < 2, assembled = AtRest(unwind(request.states)[1])
  PROVE  IsTimed(assembled)
<1> DEFINE plan == request.states
           first == unwind(plan)[1]
           state == [first EXCEPT !.wait = 0]
<1>1. /\ plan \in Seq(State) /\ plan # <<>> /\ taken[2] \in Nat /\ taken[3] \in Nat \ {0}
  BY DEF Accepted
<1>2. first \in State /\ first.other = plan[1].other /\ SamePlace(first.at, plan[1].at)
  BY <1>1, UnwoundFirst
<1>3. state.at = first.at /\ state.other = first.other /\ state.wait = 0
  BY <1>2 DEF State
<1>4. assembled = <<state>>
  BY DEF AtRest
<1> HIDE DEF state, first, plan
<1>5. assembled # <<>> /\ Len(assembled) = 1 /\ assembled[1] = state
  BY <1>4
<1>6. SamePlace(assembled[1].at, plan[1].at) /\ assembled[1].wait = 0
  BY <1>2, <1>3, <1>5
<1>7. \A k \in 1..Len(assembled) : assembled[k].other = plan[1].other /\ assembled[k].wait \in 0..taken[3]
  BY <1>1, <1>2, <1>3, <1>5
<1>8. \A k \in 1..Len(plan) : Way(plan[1].at, plan[k].at) <= taken[2]
  BY <1>1, PlanAtRest DEF plan
<1>9. Duration(assembled) = timed.duration
  BY AssembledLasts
<1>10. ~(Len(assembled) > 1)
  BY <1>5
<1> QED
  BY <1>5, <1>6, <1>7, <1>8, <1>9, <1>10 DEF IsTimed, plan

LEMMA MotionIsTimed ==
  ASSUME request \in Served, Accepted, Complete,
         MotionMade, SamplesSoFar, Len(assembled) = Steps(taken[3]) + 1
  PROVE  IsTimed(assembled)
<1> DEFINE plan == request.states
           points == timed.points
           period == taken[3]
           n == Steps(period) + 1
<1>1. /\ plan \in Seq(State) /\ plan # <<>> /\ taken[2] \in Nat /\ period \in Nat \ {0}
      /\ \A joint \in 1..2, kind \in kinds : Usable(given_limit(joint, kind))
  BY DEF Accepted, Served
<1>2. /\ points = Unique(plan, taken[2]) /\ Len(points) >= 2
      /\ timed.duration \in Nat \ {0} /\ timed.other = plan[1].other
      /\ timed.limits = [joint \in 1..2 |-> [kind \in kinds |-> resolve_limit(joint, kind)]]
  BY DEF MotionMade
<1>3. Follow(points, plan, taken[2])
  BY <1>1, <1>2, PlanIsFollowed
<1>4. /\ SamePlace(points[1], plan[1].at) /\ SamePlace(Last(points), Last(plan).at)
      /\ \A k \in 1..Len(plan) : \E j \in 1..Len(points) : Way(points[j], plan[k].at) <= 2 * taken[2]
      /\ Sum([k \in 1..Len(points) - 1 |-> Linf(points[k], points[k + 1])])
           <= Sum([k \in 1..Len(plan) - 1 |-> Way(plan[k].at, plan[k + 1].at)])
  BY <1>3 DEF Follow
<1>5. ASSUME NEW joint \in 1..2, NEW kind \in kinds PROVE Within(timed.limits[joint][kind], joint, kind)
  <2>1. timed.limits[joint][kind] = resolve_limit(joint, kind)
    BY <1>2
  <2>2. Within(resolve_limit(joint, kind), joint, kind)
    BY <1>1, LimitsAreWithin
  <2> QED
    BY <2>1, <2>2
<1>6. /\ Steps(period) \in Nat \ {0}
      /\ \A k \in 1..n : Sample(k, period).wait \in 0..period
  BY <1>1, <1>2, SamplesAreTimed
<1>7. Len(assembled) = n /\ assembled # <<>> /\ \A k \in 1..n : assembled[k] = Sample(k, period)
  <2>1. Len(assembled) = n
    OBVIOUS
  <2>2. \A k \in 1..n : assembled[k] = Sample(k, period)
    BY <2>1 DEF SamplesSoFar
  <2>3. n # 0
    BY <1>6
  <2> QED
    BY <2>1, <2>2, <2>3, EmptySeq
<1>8. /\ \A k : Sample(k, period).other = timed.other
      /\ Sample(1, period).at = points[1] /\ Sample(1, period).wait = 0
      /\ n # 1 => Sample(n, period).at = Last(points)
  BY DEF Sample
<1>9. n \in Nat /\ n > 1 /\ 1 \in 1..n /\ n \in 1..n
  BY <1>6
<1>10. Last(assembled) = assembled[n]
  BY <1>7 DEF Last
<1>11. Duration(assembled) = timed.duration
  BY <1>1, AssembledLasts
<1> HIDE DEF n, period, points, plan
<1>12. /\ SamePlace(assembled[1].at, plan[1].at) /\ assembled[1].wait = 0
       /\ SamePlace(Last(assembled).at, Last(plan).at)
  BY <1>4, <1>7, <1>8, <1>9, <1>10
<1>13. \A k \in 1..Len(assembled) : assembled[k].other = plan[1].other /\ assembled[k].wait \in 0..period
  BY <1>2, <1>6, <1>7, <1>8
<1>14. ~(Len(assembled) = 1)
  BY <1>7, <1>9
<1> QED
  BY <1>4, <1>5, <1>7, <1>11, <1>12, <1>13, <1>14 DEF IsTimed, period, points, plan

\* For every trajectory of the planner, every set of limits, scalings and parameters and
\* every generated motion, a request that succeeds starts and ends where the plan does,
\* passes its states and takes no longer way, and lasts as long as the generated motion, in
\* steps of at most a period and under limits that the request allows (compute_).
THEOREM SuccessTimed == MoveItSpec => []SuccessIsTimed
<1>1. ASSUME AnswerInv PROVE SuccessIsTimed
  <2> SUFFICES ASSUME response.error = "SUCCESS", request.states # <<>> PROVE IsTimed(response.states)
    BY DEF SuccessIsTimed, IsTimed
  <2>1. request \in Served /\ request.states \in Seq(State)
    BY <1>1 DEF AnswerInv
  <2>2. AtAdding
    BY <1>1 DEF AnswerInv, StageInv, AtReading, AtUnwound, AtSampling, AtAssembled, PlanInPlace
  <2>3. /\ Accepted /\ Complete
        /\ response.states \in Seq(Entry) /\ Len(response.states) = Len(assembled)
        /\ \A k \in 1..Len(response.states) : response.states[k] = assembled[k]
    BY <2>2 DEF AtAdding, PartlyAdded
  <2>4. assembled \in Seq(Entry)
    BY <2>1, <2>3, CompleteEntries
  <2>5. response.states = assembled
    BY <2>3, <2>4, SeqEqual
  <2>6. IsTimed(assembled)
    BY <2>1, <2>3, RestIsTimed, MotionIsTimed DEF Complete
  <2> QED
    BY <2>5, <2>6
<1> QED
  BY <1>1, ReadInvInit, ReadInvNext, AnswerInvInit, AnswerInvNext, PTL DEF MoveItSpec
=============================================================================
