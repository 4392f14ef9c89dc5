--------------------------- MODULE KinematicsProofs ---------------------------
(***************************************************************************)
(* Proofs about kinematic chains: that forward kinematics, base to tip in  *)
(* world coordinates, and the Jacobian give the motion that relative       *)
(* kinematics gives from tip to base, for every chain of any number of     *)
(* joints, every position, velocity and acceleration of them; and that the *)
(* chain made of an arm's model has its end where the model has the tool.  *)
(*                                                                         *)
(* Vectors and rotations come first, then what each recursive function of  *)
(* the walk, the sums and the motion is.  WorldsAre ties the two           *)
(* directions: w[i] is the motion of the tip, seen from the base, when the *)
(* joints up to i stand still.  From there the joints are added one by one.*)
(*                                                                         *)
(* For an arm, rigid transforms are composed (ThenRules), the model's own  *)
(* walk up to its root is what the way down comes to (TransformIs), and    *)
(* Converted says what links and joints have become of the frames so far.  *)
(***************************************************************************)
EXTENDS ArmModel, SequenceTheorems, FiniteSetTheorems, NaturalOrder, TLAPS

-----------------------------------------------------------------------------
(* Vectors *)

LEMMA VectorParts ==
  ASSUME NEW u \in Vectors
  PROVE  u[1] \in Int /\ u[2] \in Int /\ u[3] \in Int /\ u = <<u[1], u[2], u[3]>>
BY DEF Vectors

LEMMA VectorsEqual ==
  ASSUME NEW u \in Vectors, NEW v \in Vectors, u[1] = v[1], u[2] = v[2], u[3] = v[3]
  PROVE  u = v
BY VectorParts

LEMMA VectorOf ==
  ASSUME NEW x \in Int, NEW y \in Int, NEW z \in Int
  PROVE  <<x, y, z>> \in Vectors
BY DEF Vectors

LEMMA VectorsClosed ==
  ASSUME NEW u \in Vectors, NEW v \in Vectors, NEW n \in Int
  PROVE  /\ add(u, v) \in Vectors /\ by(n, u) \in Vectors /\ sub(u, v) \in Vectors
         /\ cross(u, v) \in Vectors /\ zero3 \in Vectors
<1>1. /\ u[1] \in Int /\ u[2] \in Int /\ u[3] \in Int
      /\ v[1] \in Int /\ v[2] \in Int /\ v[3] \in Int
  BY VectorParts
<1>2. add(u, v) \in Vectors
  BY <1>1, VectorOf DEF add
<1>3. by(n, u) \in Vectors
  BY <1>1, VectorOf DEF by
<1>4. cross(u, v) \in Vectors
  BY <1>1, VectorOf DEF cross
<1>5. sub(u, v) \in Vectors
  <2> DEFINE m == by(-1, v)
  <2>1. m \in Vectors
    BY <1>1, VectorOf DEF by
  <2>2. sub(u, v) = add(u, m)
    BY DEF sub
  <2> HIDE DEF m
  <2>3. m[1] \in Int /\ m[2] \in Int /\ m[3] \in Int
    BY <2>1, VectorParts
  <2> QED
    BY <1>1, <2>2, <2>3, VectorOf DEF add
<1>6. zero3 \in Vectors
  BY VectorOf DEF zero3
<1> QED
  BY <1>2, <1>3, <1>4, <1>5, <1>6

\* Sums and multiples, and what is across them.
LEMMA AsParts ==
  ASSUME NEW u \in Vectors
  PROVE  \E a, b, c \in Int : u = <<a, b, c>>
BY VectorParts

LEMMA CrossOfSum ==
  ASSUME NEW u \in Vectors, NEW v \in Vectors, NEW w \in Vectors
  PROVE  /\ cross(add(u, v), w) = add(cross(u, w), cross(v, w))
         /\ cross(w, add(u, v)) = add(cross(w, u), cross(w, v))
<1>1. PICK a, b, c \in Int : u = <<a, b, c>>
  BY AsParts
<1>2. PICK d, e, f \in Int : v = <<d, e, f>>
  BY AsParts
<1>3. PICK x, y, z \in Int : w = <<x, y, z>>
  BY AsParts
<1>4. cross(add(u, v), w) = add(cross(u, w), cross(v, w))
  <2>1. /\ (b + e) * z - (c + f) * y = (b * z - c * y) + (e * z - f * y)
        /\ (c + f) * x - (a + d) * z = (c * x - a * z) + (f * x - d * z)
        /\ (a + d) * y - (b + e) * x = (a * y - b * x) + (d * y - e * x)
    OBVIOUS
  <2>2. add(u, v) = <<a + d, b + e, c + f>>
    BY <1>1, <1>2 DEF add
  <2>3. cross(add(u, v), w) = <<(b + e) * z - (c + f) * y, (c + f) * x - (a + d) * z, (a + d) * y - (b + e) * x>>
    BY <1>3, <2>2 DEF cross
  <2>4. /\ cross(u, w) = <<b * z - c * y, c * x - a * z, a * y - b * x>>
        /\ cross(v, w) = <<e * z - f * y, f * x - d * z, d * y - e * x>>
    BY <1>1, <1>2, <1>3 DEF cross
  <2>5. add(cross(u, w), cross(v, w))
          = <<(b * z - c * y) + (e * z - f * y), (c * x - a * z) + (f * x - d * z), (a * y - b * x) + (d * y - e * x)>>
    BY <2>4 DEF add
  <2> QED
    BY <2>1, <2>3, <2>5
<1>5. cross(w, add(u, v)) = add(cross(w, u), cross(w, v))
  <2>1. /\ y * (c + f) - z * (b + e) = (y * c - z * b) + (y * f - z * e)
        /\ z * (a + d) - x * (c + f) = (z * a - x * c) + (z * d - x * f)
        /\ x * (b + e) - y * (a + d) = (x * b - y * a) + (x * e - y * d)
    OBVIOUS
  <2>2. add(u, v) = <<a + d, b + e, c + f>>
    BY <1>1, <1>2 DEF add
  <2>3. cross(w, add(u, v)) = <<y * (c + f) - z * (b + e), z * (a + d) - x * (c + f), x * (b + e) - y * (a + d)>>
    BY <1>3, <2>2 DEF cross
  <2>4. /\ cross(w, u) = <<y * c - z * b, z * a - x * c, x * b - y * a>>
        /\ cross(w, v) = <<y * f - z * e, z * d - x * f, x * e - y * d>>
    BY <1>1, <1>2, <1>3 DEF cross
  <2>5. add(cross(w, u), cross(w, v))
          = <<(y * c - z * b) + (y * f - z * e), (z * a - x * c) + (z * d - x * f), (x * b - y * a) + (x * e - y * d)>>
    BY <2>4 DEF add
  <2> QED
    BY <2>1, <2>3, <2>5
<1> QED
  BY <1>4, <1>5

LEMMA CrossOfMultiple ==
  ASSUME NEW u \in Vectors, NEW v \in Vectors, NEW n \in Int
  PROVE  cross(by(n, u), v) = by(n, cross(u, v)) /\ cross(u, by(n, v)) = by(n, cross(u, v))
<1>1. PICK a, b, c \in Int : u = <<a, b, c>>
  BY AsParts
<1>2. PICK d, e, f \in Int : v = <<d, e, f>>
  BY AsParts
<1>3. cross(by(n, u), v) = by(n, cross(u, v))
  <2>1. /\ (n * b) * f - (n * c) * e = n * (b * f - c * e)
        /\ (n * c) * d - (n * a) * f = n * (c * d - a * f)
        /\ (n * a) * e - (n * b) * d = n * (a * e - b * d)
    OBVIOUS
  <2> QED
    BY <1>1, <1>2, <2>1 DEF cross, by
<1>4. cross(u, by(n, v)) = by(n, cross(u, v))
  <2>1. /\ b * (n * f) - c * (n * e) = n * (b * f - c * e)
        /\ c * (n * d) - a * (n * f) = n * (c * d - a * f)
        /\ a * (n * e) - b * (n * d) = n * (a * e - b * d)
    OBVIOUS
  <2> QED
    BY <1>1, <1>2, <2>1 DEF cross, by
<1> QED
  BY <1>3, <1>4

LEMMA Jacobi ==
  ASSUME NEW u \in Vectors, NEW v \in Vectors, NEW w \in Vectors
  PROVE  cross(u, cross(v, w)) = add(cross(cross(u, v), w), cross(v, cross(u, w)))
<1>1. PICK a, b, c \in Int : u = <<a, b, c>>
  BY AsParts
<1>2. PICK d, e, f \in Int : v = <<d, e, f>>
  BY AsParts
<1>3. PICK x, y, z \in Int : w = <<x, y, z>>
  BY AsParts
<1>4. b * (d * y - e * x) - c * (f * x - d * z)
        = ((c * d - a * f) * z - (a * e - b * d) * y) + (e * (a * y - b * x) - f * (c * x - a * z))
  OBVIOUS
<1>5. c * (e * z - f * y) - a * (d * y - e * x)
        = ((a * e - b * d) * x - (b * f - c * e) * z) + (f * (b * z - c * y) - d * (a * y - b * x))
  OBVIOUS
<1>6. a * (f * x - d * z) - b * (e * z - f * y)
        = ((b * f - c * e) * y - (c * d - a * f) * x) + (d * (c * x - a * z) - e * (b * z - c * y))
  OBVIOUS
<1>7. /\ cross(v, w) = <<e * z - f * y, f * x - d * z, d * y - e * x>>
      /\ cross(u, v) = <<b * f - c * e, c * d - a * f, a * e - b * d>>
      /\ cross(u, w) = <<b * z - c * y, c * x - a * z, a * y - b * x>>
  BY <1>1, <1>2, <1>3 DEF cross
<1>8. cross(u, cross(v, w))
        = <<b * (d * y - e * x) - c * (f * x - d * z), c * (e * z - f * y) - a * (d * y - e * x),
            a * (f * x - d * z) - b * (e * z - f * y)>>
  BY <1>1, <1>7 DEF cross
<1>9. cross(cross(u, v), w)
        = <<(c * d - a * f) * z - (a * e - b * d) * y, (a * e - b * d) * x - (b * f - c * e) * z,
            (b * f - c * e) * y - (c * d - a * f) * x>>
  BY <1>3, <1>7 DEF cross
<1>10. cross(v, cross(u, w))
         = <<e * (a * y - b * x) - f * (c * x - a * z), f * (b * z - c * y) - d * (a * y - b * x),
             d * (c * x - a * z) - e * (b * z - c * y)>>
  BY <1>2, <1>7 DEF cross
<1>11. add(cross(cross(u, v), w), cross(v, cross(u, w)))
         = <<((c * d - a * f) * z - (a * e - b * d) * y) + (e * (a * y - b * x) - f * (c * x - a * z)),
             ((a * e - b * d) * x - (b * f - c * e) * z) + (f * (b * z - c * y) - d * (a * y - b * x)),
             ((b * f - c * e) * y - (c * d - a * f) * x) + (d * (c * x - a * z) - e * (b * z - c * y))>>
  BY <1>9, <1>10 DEF add
<1> QED
  BY <1>4, <1>5, <1>6, <1>8, <1>11

LEMMA PartsOf ==
  ASSUME NEW u \in Vectors, NEW v \in Vectors, NEW n \in Int
  PROVE  /\ add(u, v)[1] = u[1] + v[1] /\ add(u, v)[2] = u[2] + v[2] /\ add(u, v)[3] = u[3] + v[3]
         /\ by(n, u)[1] = n * u[1] /\ by(n, u)[2] = n * u[2] /\ by(n, u)[3] = n * u[3]
         /\ sub(u, v)[1] = u[1] - v[1] /\ sub(u, v)[2] = u[2] - v[2] /\ sub(u, v)[3] = u[3] - v[3]
         /\ zero3[1] = 0 /\ zero3[2] = 0 /\ zero3[3] = 0
<1>1. /\ u[1] \in Int /\ u[2] \in Int /\ u[3] \in Int
      /\ v[1] \in Int /\ v[2] \in Int /\ v[3] \in Int
  BY VectorParts
<1>2. add(u, v)[1] = u[1] + v[1] /\ add(u, v)[2] = u[2] + v[2] /\ add(u, v)[3] = u[3] + v[3]
  BY DEF add
<1>3. by(n, u)[1] = n * u[1] /\ by(n, u)[2] = n * u[2] /\ by(n, u)[3] = n * u[3]
  BY DEF by
<1>4. zero3[1] = 0 /\ zero3[2] = 0 /\ zero3[3] = 0
  BY DEF zero3
<1>5. sub(u, v)[1] = u[1] - v[1] /\ sub(u, v)[2] = u[2] - v[2] /\ sub(u, v)[3] = u[3] - v[3]
  <2> DEFINE m == by(-1, v)
  <2>1. m[1] = -v[1] /\ m[2] = -v[2] /\ m[3] = -v[3]
    BY <1>1 DEF by
  <2>2. sub(u, v) = add(u, m)
    BY DEF sub
  <2> HIDE DEF m
  <2>3. add(u, m)[1] = u[1] + m[1] /\ add(u, m)[2] = u[2] + m[2] /\ add(u, m)[3] = u[3] + m[3]
    BY DEF add
  <2> QED
    BY <1>1, <2>1, <2>2, <2>3
<1> QED
  BY <1>2, <1>3, <1>4, <1>5

LEMMA SumRules ==
  ASSUME NEW u \in Vectors, NEW v \in Vectors, NEW w \in Vectors
  PROVE  /\ add(u, v) = add(v, u) /\ add(add(u, v), w) = add(u, add(v, w))
         /\ add(u, zero3) = u /\ add(zero3, u) = u /\ sub(add(u, v), v) = u /\ add(sub(u, v), v) = u
<1>1. /\ u[1] \in Int /\ u[2] \in Int /\ u[3] \in Int
      /\ v[1] \in Int /\ v[2] \in Int /\ v[3] \in Int
      /\ w[1] \in Int /\ w[2] \in Int /\ w[3] \in Int
  BY VectorParts
<1>2. add(u, v) = add(v, u)
  BY <1>1 DEF add
<1>3. add(add(u, v), w) = add(u, add(v, w))
  BY <1>1 DEF add
<1>4. add(u, zero3) = u /\ add(zero3, u) = u
  <2>1. add(u, zero3) = <<u[1], u[2], u[3]>> /\ add(zero3, u) = <<u[1], u[2], u[3]>>
    BY <1>1 DEF add, zero3
  <2> QED
    BY <2>1, VectorParts
<1>5. sub(add(u, v), v) = u
  <2>1. add(u, v) \in Vectors /\ sub(add(u, v), v) \in Vectors
    <3>1. \A x \in Vectors : sub(x, v) \in Vectors
      BY VectorsClosed, 1 \in Int
    <3> QED
      BY <3>1, VectorsClosed, 1 \in Int
  <2> DEFINE x == add(u, v)
  <2>2. x[1] = u[1] + v[1] /\ x[2] = u[2] + v[2] /\ x[3] = u[3] + v[3]
    BY DEF add
  <2> HIDE DEF x
  <2>3. sub(x, v)[1] = x[1] - v[1] /\ sub(x, v)[2] = x[2] - v[2] /\ sub(x, v)[3] = x[3] - v[3]
    BY <2>1, PartsOf, 1 \in Int DEF x
  <2>4. sub(x, v)[1] = u[1] /\ sub(x, v)[2] = u[2] /\ sub(x, v)[3] = u[3]
    BY <1>1, <2>2, <2>3
  <2> QED
    BY <2>1, <2>4, VectorsEqual DEF x
<1>6. add(sub(u, v), v) = u
  <2> DEFINE x == sub(u, v)
  <2>1. x \in Vectors
    BY VectorsClosed, 1 \in Int
  <2>2. x[1] = u[1] - v[1] /\ x[2] = u[2] - v[2] /\ x[3] = u[3] - v[3]
    BY PartsOf, 1 \in Int
  <2> HIDE DEF x
  <2>3. add(x, v) = <<u[1], u[2], u[3]>>
    BY <1>1, <2>1, <2>2 DEF add
  <2> QED
    BY <2>3, VectorParts DEF x
<1> QED
  BY <1>2, <1>3, <1>4, <1>5, <1>6

LEMMA MultipleRules ==
  ASSUME NEW u \in Vectors, NEW v \in Vectors, NEW n \in Int, NEW m \in Int
  PROVE  /\ by(n, add(u, v)) = add(by(n, u), by(n, v))
         /\ by(n, by(m, u)) = by(n * m, u) /\ by(0, u) = zero3 /\ by(n, zero3) = zero3 /\ by(1, u) = u
<1>1. /\ u[1] \in Int /\ u[2] \in Int /\ u[3] \in Int
      /\ v[1] \in Int /\ v[2] \in Int /\ v[3] \in Int
  BY VectorParts
<1>2. by(n, add(u, v)) = add(by(n, u), by(n, v))
  <2>1. \A x, y \in Int : n * (x + y) = n * x + n * y
    OBVIOUS
  <2> QED
    BY <1>1, <2>1 DEF by, add
<1>3. by(n, by(m, u)) = by(n * m, u)
  <2>1. \A x \in Int : n * (m * x) = (n * m) * x
    OBVIOUS
  <2> QED
    BY <1>1, <2>1 DEF by
<1>4. by(0, u) = zero3 /\ by(n, zero3) = zero3
  BY <1>1 DEF by, zero3
<1>5. by(1, u) = u
  <2>1. by(1, u) = <<u[1], u[2], u[3]>>
    BY <1>1 DEF by
  <2> QED
    BY <2>1, VectorParts
<1> QED
  BY <1>2, <1>3, <1>4, <1>5

LEMMA MultipleOfSum ==
  ASSUME NEW u \in Vectors, NEW v \in Vectors, NEW n \in Int
  PROVE  by(n, add(u, v)) = add(by(n, u), by(n, v))
BY MultipleRules, 1 \in Int

LEMMA MultiplesAdd ==
  ASSUME NEW u \in Vectors, NEW n \in Int, NEW m \in Int
  PROVE  by(n + m, u) = add(by(n, u), by(m, u))
<1>1. u[1] \in Int /\ u[2] \in Int /\ u[3] \in Int
  BY VectorParts
<1>2. \A x \in Int : (n + m) * x = n * x + m * x
  OBVIOUS
<1> QED
  BY <1>1, <1>2 DEF by, add

\* Three sums of two are the sum of two sums of three.
SixVectors(a, b, c, d, e, f) == {a, b, c, d, e, f} \subseteq Vectors

LEMMA SumsOfThree ==
  ASSUME NEW a, NEW b, NEW c, NEW d, NEW e, NEW f, SixVectors(a, b, c, d, e, f)
  PROVE  add(add(a, d), add(add(b, e), add(c, f))) = add(add(a, add(b, c)), add(d, add(e, f)))
<1>1. /\ a[1] \in Int /\ a[2] \in Int /\ a[3] \in Int /\ b[1] \in Int /\ b[2] \in Int /\ b[3] \in Int
      /\ c[1] \in Int /\ c[2] \in Int /\ c[3] \in Int /\ d[1] \in Int /\ d[2] \in Int /\ d[3] \in Int
      /\ e[1] \in Int /\ e[2] \in Int /\ e[3] \in Int /\ f[1] \in Int /\ f[2] \in Int /\ f[3] \in Int
  BY VectorParts DEF SixVectors
<1> QED
  BY <1>1 DEF add

-----------------------------------------------------------------------------
(* Rotations *)

Matrices == Vectors \X Vectors \X Vectors

LEMMA RotateIsLinear ==
  ASSUME NEW r \in Matrices, NEW u \in Vectors, NEW v \in Vectors, NEW n \in Int
  PROVE  /\ rotate(r, u) \in Vectors
         /\ rotate(r, add(u, v)) = add(rotate(r, u), rotate(r, v))
         /\ rotate(r, by(n, u)) = by(n, rotate(r, u))
         /\ rotate(r, zero3) = zero3
<1> DEFINE x == r[1]
           y == r[2]
           z == r[3]
<1>1. x \in Vectors /\ y \in Vectors /\ z \in Vectors
  BY DEF Matrices
<1>2. \A a : rotate(r, a) = add(by(a[1], x), add(by(a[2], y), by(a[3], z)))
  BY DEF rotate
<1> HIDE DEF x, y, z
<1>3. /\ u[1] \in Int /\ u[2] \in Int /\ u[3] \in Int
      /\ v[1] \in Int /\ v[2] \in Int /\ v[3] \in Int
  BY VectorParts
<1>4. \A m \in Int : by(m, x) \in Vectors /\ by(m, y) \in Vectors /\ by(m, z) \in Vectors
  BY <1>1, VectorsClosed
<1>5. rotate(r, u) \in Vectors
  <2>1. add(by(u[2], y), by(u[3], z)) \in Vectors
    BY <1>3, <1>4, VectorsClosed, 1 \in Int
  <2> QED
    BY <1>2, <1>3, <1>4, <2>1, VectorsClosed, 1 \in Int
<1>6. rotate(r, add(u, v)) = add(rotate(r, u), rotate(r, v))
  <2> DEFINE w == add(u, v)
  <2>1. w[1] = u[1] + v[1] /\ w[2] = u[2] + v[2] /\ w[3] = u[3] + v[3]
    BY DEF add
  <2> HIDE DEF w
  <2>2. /\ by(w[1], x) = add(by(u[1], x), by(v[1], x))
        /\ by(w[2], y) = add(by(u[2], y), by(v[2], y))
        /\ by(w[3], z) = add(by(u[3], z), by(v[3], z))
    <3>1. \A k \in 1..3 : \A m \in Vectors : by(w[k], m) = add(by(u[k], m), by(v[k], m))
      <4> SUFFICES ASSUME NEW k \in 1..3, NEW m \in Vectors PROVE by(w[k], m) = add(by(u[k], m), by(v[k], m))
        OBVIOUS
      <4>1. u[k] \in Int /\ v[k] \in Int /\ w[k] = u[k] + v[k]
        BY <1>3, <2>1
      <4>2. by(u[k] + v[k], m) = add(by(u[k], m), by(v[k], m))
        BY <4>1, MultiplesAdd
      <4> QED
        BY <4>1, <4>2
    <3> QED
      BY <1>1, <3>1
  <2>3. rotate(r, w) = add(rotate(r, u), rotate(r, v))
    <3> DEFINE a == by(u[1], x)
               b == by(u[2], y)
               c == by(u[3], z)
               d == by(v[1], x)
               e == by(v[2], y)
               f == by(v[3], z)
    <3>1. a \in Vectors /\ b \in Vectors /\ c \in Vectors /\ d \in Vectors /\ e \in Vectors /\ f \in Vectors
      BY <1>3, <1>4
    <3>2. rotate(r, w) = add(add(a, d), add(add(b, e), add(c, f)))
      BY <1>2, <2>2
    <3>3. rotate(r, u) = add(a, add(b, c)) /\ rotate(r, v) = add(d, add(e, f))
      BY <1>2
    <3> HIDE DEF a, b, c, d, e, f
    <3>4. add(add(a, d), add(add(b, e), add(c, f))) = add(add(a, add(b, c)), add(d, add(e, f)))
      <4>1. SixVectors(a, b, c, d, e, f)
        BY <3>1 DEF SixVectors
      <4> QED
        BY <4>1, SumsOfThree
    <3> QED
      BY <3>2, <3>3, <3>4
  <2> QED
    BY <2>3 DEF w
<1>7. rotate(r, by(n, u)) = by(n, rotate(r, u))
  <2> DEFINE w == by(n, u)
  <2>1. w[1] = n * u[1] /\ w[2] = n * u[2] /\ w[3] = n * u[3]
    BY DEF by
  <2> HIDE DEF w
  <2>2. by(w[1], x) = by(n, by(u[1], x))
    BY <1>1, <1>3, <2>1, MultipleRules
  <2>3. by(w[2], y) = by(n, by(u[2], y))
    BY <1>1, <1>3, <2>1, MultipleRules
  <2>4. by(w[3], z) = by(n, by(u[3], z))
    BY <1>1, <1>3, <2>1, MultipleRules
  <2>5. add(by(u[2], y), by(u[3], z)) \in Vectors
    BY <1>3, <1>4, VectorsClosed, 1 \in Int
  <2>6. add(by(n, by(u[2], y)), by(n, by(u[3], z))) = by(n, add(by(u[2], y), by(u[3], z)))
    BY <1>3, <1>4, MultipleOfSum
  <2>7. add(by(n, by(u[1], x)), by(n, add(by(u[2], y), by(u[3], z)))) = by(n, rotate(r, u))
    BY <1>2, <1>3, <1>4, <2>5, MultipleOfSum
  <2> QED
    BY <1>2, <2>2, <2>3, <2>4, <2>6, <2>7 DEF w
<1>8. rotate(r, zero3) = zero3
  <2>1. zero3 \in Vectors /\ zero3[1] = 0 /\ zero3[2] = 0 /\ zero3[3] = 0
    BY VectorOf DEF zero3
  <2>2. by(0, x) = zero3 /\ by(0, y) = zero3 /\ by(0, z) = zero3
    BY <1>1, MultipleRules, 0 \in Int
  <2>3. add(zero3, zero3) = zero3
    BY <2>1, SumRules
  <2> QED
    BY <1>2, <2>1, <2>2, <2>3
<1> QED
  BY <1>5, <1>6, <1>7, <1>8

LEMMA RotateIdentity ==
  ASSUME NEW u \in Vectors
  PROVE  rotate(identity, u) = u
<1>1. u[1] \in Int /\ u[2] \in Int /\ u[3] \in Int /\ u = <<u[1], u[2], u[3]>>
  BY VectorParts
<1>2. \A n \in Int : /\ by(n, <<1, 0, 0>>) = <<n, 0, 0>> /\ by(n, <<0, 1, 0>>) = <<0, n, 0>>
                     /\ by(n, <<0, 0, 1>>) = <<0, 0, n>>
  BY DEF by
<1>3. rotate(identity, u) = add(<<u[1], 0, 0>>, add(<<0, u[2], 0>>, <<0, 0, u[3]>>))
  BY <1>1, <1>2 DEF rotate, identity
<1>4. add(<<u[1], 0, 0>>, add(<<0, u[2], 0>>, <<0, 0, u[3]>>)) = <<u[1], u[2], u[3]>>
  BY <1>1 DEF add
<1> QED
  BY <1>1, <1>3, <1>4

\* A product of two turns by one after the other.
LEMMA RotateProduct ==
  ASSUME NEW r \in Matrices, NEW s \in Matrices, NEW u \in Vectors
  PROVE  rotate(multiply(r, s), u) = rotate(r, rotate(s, u)) /\ multiply(r, s) \in Matrices
<1>1. s[1] \in Vectors /\ s[2] \in Vectors /\ s[3] \in Vectors
  BY DEF Matrices
<1>2. u[1] \in Int /\ u[2] \in Int /\ u[3] \in Int
  BY VectorParts
<1> DEFINE a == s[1]
           b == s[2]
           c == s[3]
           p == by(u[1], a)
           q == by(u[2], b)
           t == by(u[3], c)
<1>3. p \in Vectors /\ q \in Vectors /\ t \in Vectors
  BY <1>1, <1>2, VectorsClosed
<1>4. rotate(s, u) = add(p, add(q, t))
  BY DEF rotate
<1>5. multiply(r, s) = <<rotate(r, a), rotate(r, b), rotate(r, c)>>
  BY DEF multiply
<1>6. rotate(multiply(r, s), u) = add(by(u[1], rotate(r, a)), add(by(u[2], rotate(r, b)), by(u[3], rotate(r, c))))
  BY <1>5 DEF rotate
<1>7. \A n \in Int : \A v \in Vectors : rotate(r, by(n, v)) = by(n, rotate(r, v)) /\ rotate(r, v) \in Vectors
  BY RotateIsLinear
<1>8. \A v, w \in Vectors : rotate(r, add(v, w)) = add(rotate(r, v), rotate(r, w))
  BY RotateIsLinear, 1 \in Int
<1>9. /\ by(u[1], rotate(r, a)) = rotate(r, p) /\ by(u[2], rotate(r, b)) = rotate(r, q)
      /\ by(u[3], rotate(r, c)) = rotate(r, t)
  BY <1>1, <1>2, <1>7
<1>10. multiply(r, s) \in Matrices
  BY <1>1, <1>5, <1>7, 1 \in Int DEF Matrices
<1> HIDE DEF p, q, t
<1>11. add(q, t) \in Vectors
  BY <1>3, VectorsClosed, 1 \in Int
<1>12. rotate(r, add(p, add(q, t))) = add(rotate(r, p), add(rotate(r, q), rotate(r, t)))
  BY <1>3, <1>8, <1>11
<1> QED
  BY <1>4, <1>6, <1>9, <1>10, <1>12

LEMMA RotationParts ==
  ASSUME NEW r \in Rotations
  PROVE  r \in Matrices /\ cross(r[1], r[2]) = r[3] /\ cross(r[2], r[3]) = r[1] /\ cross(r[3], r[1]) = r[2]
BY DEF Rotations, Matrices

\* What is across two combinations of the same three vectors, in numbers.
LEMMA MinorsOfProduct ==
  ASSUME NEW d \in Int, NEW e \in Int, NEW f \in Int, NEW g \in Int, NEW h \in Int, NEW i \in Int,
         NEW j \in Int, NEW k \in Int, NEW l \in Int, NEW m \in Int, NEW n \in Int, NEW o \in Int
  PROVE  (d * j + (e * l + f * n)) * (g * k + (h * m + i * o)) - (d * k + (e * m + f * o)) * (g * j + (h * l + i * n))
           = (e * i - f * h) * (l * o - m * n) + ((f * g - d * i) * (n * k - o * j) + (d * h - e * g) * (j * m - k * l))
OBVIOUS

LEMMA CrossInSpan ==
  ASSUME NEW x \in Vectors, NEW y \in Vectors, NEW z \in Vectors,
         NEW d \in Int, NEW e \in Int, NEW f \in Int, NEW g \in Int, NEW h \in Int, NEW i \in Int
  PROVE  cross(add(by(d, x), add(by(e, y), by(f, z))), add(by(g, x), add(by(h, y), by(i, z))))
           = add(by(e * i - f * h, cross(y, z)), add(by(f * g - d * i, cross(z, x)), by(d * h - e * g, cross(x, y))))
<1>1. PICK x1 \in Int, x2 \in Int, x3 \in Int : x = <<x1, x2, x3>>
  BY VectorParts
<1>2. PICK y1 \in Int, y2 \in Int, y3 \in Int : y = <<y1, y2, y3>>
  BY VectorParts
<1>3. PICK z1 \in Int, z2 \in Int, z3 \in Int : z = <<z1, z2, z3>>
  BY VectorParts
<1>4. /\ add(by(d, x), add(by(e, y), by(f, z)))
           = <<d * x1 + (e * y1 + f * z1), d * x2 + (e * y2 + f * z2), d * x3 + (e * y3 + f * z3)>>
      /\ add(by(g, x), add(by(h, y), by(i, z)))
           = <<g * x1 + (h * y1 + i * z1), g * x2 + (h * y2 + i * z2), g * x3 + (h * y3 + i * z3)>>
  BY <1>1, <1>2, <1>3 DEF add, by
<1>5. /\ cross(y, z) = <<y2 * z3 - y3 * z2, y3 * z1 - y1 * z3, y1 * z2 - y2 * z1>>
      /\ cross(z, x) = <<z2 * x3 - z3 * x2, z3 * x1 - z1 * x3, z1 * x2 - z2 * x1>>
      /\ cross(x, y) = <<x2 * y3 - x3 * y2, x3 * y1 - x1 * y3, x1 * y2 - x2 * y1>>
  BY <1>1, <1>2, <1>3 DEF cross
<1> DEFINE a == e * i - f * h
           b == f * g - d * i
           c == d * h - e * g
           left(j, k, l, m, n, o) == (d * j + (e * l + f * n)) * (g * k + (h * m + i * o))
                                       - (d * k + (e * m + f * o)) * (g * j + (h * l + i * n))
           right(j, k, l, m, n, o) == a * (l * o - m * n) + (b * (n * k - o * j) + c * (j * m - k * l))
<1>6. add(by(a, cross(y, z)), add(by(b, cross(z, x)), by(c, cross(x, y))))
        = <<right(x2, x3, y2, y3, z2, z3), right(x3, x1, y3, y1, z3, z1), right(x1, x2, y1, y2, z1, z2)>>
  <2> HIDE DEF a, b, c
  <2> QED
    BY <1>5 DEF add, by
<1>7. cross(add(by(d, x), add(by(e, y), by(f, z))), add(by(g, x), add(by(h, y), by(i, z))))
        = <<left(x2, x3, y2, y3, z2, z3), left(x3, x1, y3, y1, z3, z1), left(x1, x2, y1, y2, z1, z2)>>
  BY <1>4 DEF cross
<1>8. left(x2, x3, y2, y3, z2, z3) = right(x2, x3, y2, y3, z2, z3)
  BY MinorsOfProduct
<1>9. left(x3, x1, y3, y1, z3, z1) = right(x3, x1, y3, y1, z3, z1)
  BY MinorsOfProduct
<1>10. left(x1, x2, y1, y2, z1, z2) = right(x1, x2, y1, y2, z1, z2)
  BY MinorsOfProduct
<1> HIDE DEF left, right
<1>11. cross(add(by(d, x), add(by(e, y), by(f, z))), add(by(g, x), add(by(h, y), by(i, z))))
         = add(by(a, cross(y, z)), add(by(b, cross(z, x)), by(c, cross(x, y))))
  BY <1>6, <1>7, <1>8, <1>9, <1>10
<1> QED
  BY <1>11 DEF a, b, c

\* Turning by a rotation keeps what is across what.
LEMMA RotateCross ==
  ASSUME NEW r \in Rotations, NEW u \in Vectors, NEW v \in Vectors
  PROVE  cross(rotate(r, u), rotate(r, v)) = rotate(r, cross(u, v))
<1> DEFINE a == u[2] * v[3] - u[3] * v[2]
           b == u[3] * v[1] - u[1] * v[3]
           c == u[1] * v[2] - u[2] * v[1]
<1>1. r[1] \in Vectors /\ r[2] \in Vectors /\ r[3] \in Vectors
  BY RotationParts DEF Matrices
<1>2. cross(r[2], r[3]) = r[1] /\ cross(r[3], r[1]) = r[2] /\ cross(r[1], r[2]) = r[3]
  BY RotationParts
<1>3. \A w : rotate(r, w) = add(by(w[1], r[1]), add(by(w[2], r[2]), by(w[3], r[3])))
  BY DEF rotate
<1>4. rotate(r, cross(u, v)) = add(by(a, r[1]), add(by(b, r[2]), by(c, r[3])))
  <2>1. cross(u, v) = <<a, b, c>>
    BY DEF cross
  <2> HIDE DEF a, b, c
  <2> QED
    BY <1>3, <2>1
<1>5. u[1] \in Int /\ u[2] \in Int /\ u[3] \in Int /\ v[1] \in Int /\ v[2] \in Int /\ v[3] \in Int
  BY VectorParts
<1>6. cross(rotate(r, u), rotate(r, v))
        = add(by(a, cross(r[2], r[3])), add(by(b, cross(r[3], r[1])), by(c, cross(r[1], r[2]))))
  <2> DEFINE d == u[1]
             e == u[2]
             f == u[3]
             g == v[1]
             h == v[2]
             i == v[3]
             x == r[1]
             y == r[2]
             z == r[3]
  <2>1. /\ d \in Int /\ e \in Int /\ f \in Int /\ g \in Int /\ h \in Int /\ i \in Int
        /\ x \in Vectors /\ y \in Vectors /\ z \in Vectors
    BY <1>1, <1>5
  <2>2. /\ rotate(r, u) = add(by(d, x), add(by(e, y), by(f, z)))
        /\ rotate(r, v) = add(by(g, x), add(by(h, y), by(i, z)))
    BY <1>3
  <2> HIDE DEF d, e, f, g, h, i, x, y, z
  <2>3. cross(add(by(d, x), add(by(e, y), by(f, z))), add(by(g, x), add(by(h, y), by(i, z))))
          = add(by(e * i - f * h, cross(y, z)), add(by(f * g - d * i, cross(z, x)), by(d * h - e * g, cross(x, y))))
    BY <2>1, CrossInSpan
  <2> QED
    BY <2>2, <2>3 DEF d, e, f, g, h, i, x, y, z
<1> QED
  BY <1>2, <1>4, <1>6

LEMMA RotationsClosed ==
  /\ identity \in Rotations
  /\ \A r, s \in Rotations : multiply(r, s) \in Rotations
<1>1. identity \in Rotations
  <2>1. <<1, 0, 0>> \in Vectors /\ <<0, 1, 0>> \in Vectors /\ <<0, 0, 1>> \in Vectors
    BY VectorOf
  <2>2. /\ cross(<<1, 0, 0>>, <<0, 1, 0>>) = <<0, 0, 1>> /\ cross(<<0, 1, 0>>, <<0, 0, 1>>) = <<1, 0, 0>>
        /\ cross(<<0, 0, 1>>, <<1, 0, 0>>) = <<0, 1, 0>>
    BY DEF cross
  <2> QED
    BY <2>1, <2>2 DEF identity, Rotations
<1>2. ASSUME NEW r \in Rotations, NEW s \in Rotations PROVE multiply(r, s) \in Rotations
  <2> DEFINE m == multiply(r, s)
  <2>1. m[1] = rotate(r, s[1]) /\ m[2] = rotate(r, s[2]) /\ m[3] = rotate(r, s[3])
    BY DEF multiply
  <2>2. /\ s[1] \in Vectors /\ s[2] \in Vectors /\ s[3] \in Vectors
        /\ cross(s[1], s[2]) = s[3] /\ cross(s[2], s[3]) = s[1] /\ cross(s[3], s[1]) = s[2]
    BY RotationParts DEF Matrices
  <2>3. m \in Matrices
    BY RotationParts, RotateProduct, VectorOf, 0 \in Int
  <2> HIDE DEF m
  <2>4. cross(m[1], m[2]) = m[3] /\ cross(m[2], m[3]) = m[1] /\ cross(m[3], m[1]) = m[2]
    BY <2>1, <2>2, RotateCross
  <2> QED
    BY <2>3, <2>4 DEF Rotations, Matrices, m
<1> QED
  BY <1>1, <1>2

UnitAxes == {u \in Vectors : \E i \in 1..3 : u[i] \in {-1, 1} /\ \A k \in (1..3) \ {i} : u[k] = 0}

\* A turn about a coordinate axis is a rotation.
LEMMA TurnsAreRotations ==
  ASSUME NEW axis \in UnitAxes, NEW quarters \in Int
  PROVE  axis_rotation(axis, quarters) \in Rotations
<1>1. axis \in {<<1, 0, 0>>, <<-1, 0, 0>>, <<0, 1, 0>>, <<0, -1, 0>>, <<0, 0, 1>>, <<0, 0, -1>>}
  <2>1. PICK i \in 1..3 : axis[i] \in {-1, 1} /\ \A k \in (1..3) \ {i} : axis[k] = 0
    BY DEF UnitAxes
  <2>2. axis = <<axis[1], axis[2], axis[3]>>
    BY VectorParts DEF UnitAxes
  <2>3. i = 1 \/ i = 2 \/ i = 3
    OBVIOUS
  <2>4. CASE i = 1
    <3>1. axis[1] \in {-1, 1} /\ axis[2] = 0 /\ axis[3] = 0
      BY <2>1, <2>4
    <3> QED
      BY <2>2, <3>1
  <2>5. CASE i = 2
    <3>1. axis[2] \in {-1, 1} /\ axis[1] = 0 /\ axis[3] = 0
      BY <2>1, <2>5
    <3> QED
      BY <2>2, <3>1
  <2>6. CASE i = 3
    <3>1. axis[3] \in {-1, 1} /\ axis[1] = 0 /\ axis[2] = 0
      BY <2>1, <2>6
    <3> QED
      BY <2>2, <3>1
  <2> QED
    BY <2>3, <2>4, <2>5, <2>6
<1> DEFINE C == CASE quarters % 4 = 0 -> 1 [] quarters % 4 = 2 -> -1 [] OTHER -> 0
           S == CASE quarters % 4 = 1 -> 1 [] quarters % 4 = 3 -> -1 [] OTHER -> 0
           turned(v) == add(by(C, v), add(by(S, cross(axis, v)), by((1 - C) * dot(axis, v), axis)))
<1>2. axis_rotation(axis, quarters) = <<turned(<<1, 0, 0>>), turned(<<0, 1, 0>>), turned(<<0, 0, 1>>)>>
  BY DEF axis_rotation, identity
<1>3. /\ C \in {-1, 0, 1} /\ S \in {-1, 0, 1} /\ C \in Int /\ S \in Int
      /\ C * C + S * S = 1
  <2>1. quarters % 4 \in 0..3
    OBVIOUS
  <2> QED
    BY <2>1
<1> HIDE DEF C, S
<1>4. <<turned(<<1, 0, 0>>), turned(<<0, 1, 0>>), turned(<<0, 0, 1>>)>> \in Matrices
  <2>1. axis \in Vectors
    BY DEF UnitAxes
  <2>2. ASSUME NEW v \in Vectors PROVE turned(v) \in Vectors
    <3>1. dot(axis, v) \in Int
      BY <2>1, VectorParts DEF dot
    <3>2. (1 - C) * dot(axis, v) \in Int
      BY <1>3, <3>1
    <3> DEFINE k == (1 - C) * dot(axis, v)
    <3> HIDE DEF k
    <3>3. by(C, v) \in Vectors /\ by(S, cross(axis, v)) \in Vectors /\ by(k, axis) \in Vectors
      <4>1. cross(axis, v) \in Vectors
        BY <2>1, VectorsClosed, 0 \in Int
      <4>2. k \in Int
        BY <3>2 DEF k
      <4> QED
        BY <1>3, <2>1, <4>1, <4>2, VectorsClosed
    <3>4. add(by(S, cross(axis, v)), by(k, axis)) \in Vectors
      BY <3>3, VectorsClosed, 0 \in Int
    <3>5. add(by(C, v), add(by(S, cross(axis, v)), by(k, axis))) \in Vectors
      BY <3>3, <3>4, VectorsClosed, 0 \in Int
    <3> QED
      BY <3>5 DEF k
  <2>3. <<1, 0, 0>> \in Vectors /\ <<0, 1, 0>> \in Vectors /\ <<0, 0, 1>> \in Vectors
    BY VectorOf
  <2> HIDE DEF turned
  <2> QED
    BY <2>2, <2>3 DEF Matrices
<1> DEFINE p == turned(<<1, 0, 0>>)
           q == turned(<<0, 1, 0>>)
           r == turned(<<0, 0, 1>>)
<1>5. cross(p, q) = r /\ cross(q, r) = p /\ cross(r, p) = q
  <2>1. CASE axis = <<1, 0, 0>>
    <3>1. p = <<1, 0, 0>> /\ q = <<0, C, S>> /\ r = <<0, -S, C>>
      <4>1. p = <<1, 0, 0>>
        <5>1. cross(<<1, 0, 0>>, <<1, 0, 0>>) = <<0, 0, 0>> /\ dot(<<1, 0, 0>>, <<1, 0, 0>>) = 1
          BY DEF cross, dot
        <5>2. p = add(by(C, <<1, 0, 0>>), add(by(S, <<0, 0, 0>>), by((1 - C) * 1, <<1, 0, 0>>)))
          BY <2>1, <5>1
        <5>3. /\ by(C, <<1, 0, 0>>) = <<C, 0, 0>> /\ by(S, <<0, 0, 0>>) = <<0, 0, 0>>
              /\ by((1 - C) * 1, <<1, 0, 0>>) = <<1 - C, 0, 0>>
          BY <1>3 DEF by
        <5> QED
          BY <1>3, <5>2, <5>3 DEF add
      <4>2. q = <<0, C, S>>
        <5>1. cross(<<1, 0, 0>>, <<0, 1, 0>>) = <<0, 0, 1>> /\ dot(<<1, 0, 0>>, <<0, 1, 0>>) = 0
          BY DEF cross, dot
        <5>2. q = add(by(C, <<0, 1, 0>>), add(by(S, <<0, 0, 1>>), by((1 - C) * 0, <<1, 0, 0>>)))
          BY <2>1, <5>1
        <5>3. /\ by(C, <<0, 1, 0>>) = <<0, C, 0>> /\ by(S, <<0, 0, 1>>) = <<0, 0, S>>
              /\ by((1 - C) * 0, <<1, 0, 0>>) = <<0, 0, 0>>
          BY <1>3 DEF by
        <5> QED
          BY <1>3, <5>2, <5>3 DEF add
      <4>3. r = <<0, -S, C>>
        <5>1. cross(<<1, 0, 0>>, <<0, 0, 1>>) = <<0, -1, 0>> /\ dot(<<1, 0, 0>>, <<0, 0, 1>>) = 0
          BY DEF cross, dot
        <5>2. r = add(by(C, <<0, 0, 1>>), add(by(S, <<0, -1, 0>>), by((1 - C) * 0, <<1, 0, 0>>)))
          BY <2>1, <5>1
        <5>3. /\ by(C, <<0, 0, 1>>) = <<0, 0, C>> /\ by(S, <<0, -1, 0>>) = <<0, -S, 0>>
              /\ by((1 - C) * 0, <<1, 0, 0>>) = <<0, 0, 0>>
          BY <1>3 DEF by
        <5> QED
          BY <1>3, <5>2, <5>3 DEF add
      <4> QED
        BY <4>1, <4>2, <4>3
    <3> HIDE DEF p, q, r
    <3> QED
      BY <1>3, <3>1 DEF cross
  <2>2. CASE axis = <<-1, 0, 0>>
    <3>1. p = <<1, 0, 0>> /\ q = <<0, C, -S>> /\ r = <<0, S, C>>
      <4>1. p = <<1, 0, 0>>
        <5>1. cross(<<-1, 0, 0>>, <<1, 0, 0>>) = <<0, 0, 0>> /\ dot(<<-1, 0, 0>>, <<1, 0, 0>>) = -1
          BY DEF cross, dot
        <5>2. p = add(by(C, <<1, 0, 0>>), add(by(S, <<0, 0, 0>>), by((1 - C) * (-1), <<-1, 0, 0>>)))
          BY <2>2, <5>1
        <5>3. /\ by(C, <<1, 0, 0>>) = <<C, 0, 0>> /\ by(S, <<0, 0, 0>>) = <<0, 0, 0>>
              /\ by((1 - C) * (-1), <<-1, 0, 0>>) = <<1 - C, 0, 0>>
          BY <1>3 DEF by
        <5> QED
          BY <1>3, <5>2, <5>3 DEF add
      <4>2. q = <<0, C, -S>>
        <5>1. cross(<<-1, 0, 0>>, <<0, 1, 0>>) = <<0, 0, -1>> /\ dot(<<-1, 0, 0>>, <<0, 1, 0>>) = 0
          BY DEF cross, dot
        <5>2. q = add(by(C, <<0, 1, 0>>), add(by(S, <<0, 0, -1>>), by((1 - C) * 0, <<-1, 0, 0>>)))
          BY <2>2, <5>1
        <5>3. /\ by(C, <<0, 1, 0>>) = <<0, C, 0>> /\ by(S, <<0, 0, -1>>) = <<0, 0, -S>>
              /\ by((1 - C) * 0, <<-1, 0, 0>>) = <<0, 0, 0>>
          BY <1>3 DEF by
        <5> QED
          BY <1>3, <5>2, <5>3 DEF add
      <4>3. r = <<0, S, C>>
        <5>1. cross(<<-1, 0, 0>>, <<0, 0, 1>>) = <<0, 1, 0>> /\ dot(<<-1, 0, 0>>, <<0, 0, 1>>) = 0
          BY DEF cross, dot
        <5>2. r = add(by(C, <<0, 0, 1>>), add(by(S, <<0, 1, 0>>), by((1 - C) * 0, <<-1, 0, 0>>)))
          BY <2>2, <5>1
        <5>3. /\ by(C, <<0, 0, 1>>) = <<0, 0, C>> /\ by(S, <<0, 1, 0>>) = <<0, S, 0>>
              /\ by((1 - C) * 0, <<-1, 0, 0>>) = <<0, 0, 0>>
          BY <1>3 DEF by
        <5> QED
          BY <1>3, <5>2, <5>3 DEF add
      <4> QED
        BY <4>1, <4>2, <4>3
    <3> HIDE DEF p, q, r
    <3> QED
      BY <1>3, <3>1 DEF cross
  <2>3. CASE axis = <<0, 1, 0>>
    <3>1. p = <<C, 0, -S>> /\ q = <<0, 1, 0>> /\ r = <<S, 0, C>>
      <4>1. p = <<C, 0, -S>>
        <5>1. cross(<<0, 1, 0>>, <<1, 0, 0>>) = <<0, 0, -1>> /\ dot(<<0, 1, 0>>, <<1, 0, 0>>) = 0
          BY DEF cross, dot
        <5>2. p = add(by(C, <<1, 0, 0>>), add(by(S, <<0, 0, -1>>), by((1 - C) * 0, <<0, 1, 0>>)))
          BY <2>3, <5>1
        <5>3. /\ by(C, <<1, 0, 0>>) = <<C, 0, 0>> /\ by(S, <<0, 0, -1>>) = <<0, 0, -S>>
              /\ by((1 - C) * 0, <<0, 1, 0>>) = <<0, 0, 0>>
          BY <1>3 DEF by
        <5> QED
          BY <1>3, <5>2, <5>3 DEF add
      <4>2. q = <<0, 1, 0>>
        <5>1. cross(<<0, 1, 0>>, <<0, 1, 0>>) = <<0, 0, 0>> /\ dot(<<0, 1, 0>>, <<0, 1, 0>>) = 1
          BY DEF cross, dot
        <5>2. q = add(by(C, <<0, 1, 0>>), add(by(S, <<0, 0, 0>>), by((1 - C) * 1, <<0, 1, 0>>)))
          BY <2>3, <5>1
        <5>3. /\ by(C, <<0, 1, 0>>) = <<0, C, 0>> /\ by(S, <<0, 0, 0>>) = <<0, 0, 0>>
              /\ by((1 - C) * 1, <<0, 1, 0>>) = <<0, 1 - C, 0>>
          BY <1>3 DEF by
        <5> QED
          BY <1>3, <5>2, <5>3 DEF add
      <4>3. r = <<S, 0, C>>
        <5>1. cross(<<0, 1, 0>>, <<0, 0, 1>>) = <<1, 0, 0>> /\ dot(<<0, 1, 0>>, <<0, 0, 1>>) = 0
          BY DEF cross, dot
        <5>2. r = add(by(C, <<0, 0, 1>>), add(by(S, <<1, 0, 0>>), by((1 - C) * 0, <<0, 1, 0>>)))
          BY <2>3, <5>1
        <5>3. /\ by(C, <<0, 0, 1>>) = <<0, 0, C>> /\ by(S, <<1, 0, 0>>) = <<S, 0, 0>>
              /\ by((1 - C) * 0, <<0, 1, 0>>) = <<0, 0, 0>>
          BY <1>3 DEF by
        <5> QED
          BY <1>3, <5>2, <5>3 DEF add
      <4> QED
        BY <4>1, <4>2, <4>3
    <3> HIDE DEF p, q, r
    <3> QED
      BY <1>3, <3>1 DEF cross
  <2>4. CASE axis = <<0, -1, 0>>
    <3>1. p = <<C, 0, S>> /\ q = <<0, 1, 0>> /\ r = <<-S, 0, C>>
      <4>1. p = <<C, 0, S>>
        <5>1. cross(<<0, -1, 0>>, <<1, 0, 0>>) = <<0, 0, 1>> /\ dot(<<0, -1, 0>>, <<1, 0, 0>>) = 0
          BY DEF cross, dot
        <5>2. p = add(by(C, <<1, 0, 0>>), add(by(S, <<0, 0, 1>>), by((1 - C) * 0, <<0, -1, 0>>)))
          BY <2>4, <5>1
        <5>3. /\ by(C, <<1, 0, 0>>) = <<C, 0, 0>> /\ by(S, <<0, 0, 1>>) = <<0, 0, S>>
              /\ by((1 - C) * 0, <<0, -1, 0>>) = <<0, 0, 0>>
          BY <1>3 DEF by
        <5> QED
          BY <1>3, <5>2, <5>3 DEF add
      <4>2. q = <<0, 1, 0>>
        <5>1. cross(<<0, -1, 0>>, <<0, 1, 0>>) = <<0, 0, 0>> /\ dot(<<0, -1, 0>>, <<0, 1, 0>>) = -1
          BY DEF cross, dot
        <5>2. q = add(by(C, <<0, 1, 0>>), add(by(S, <<0, 0, 0>>), by((1 - C) * (-1), <<0, -1, 0>>)))
          BY <2>4, <5>1
        <5>3. /\ by(C, <<0, 1, 0>>) = <<0, C, 0>> /\ by(S, <<0, 0, 0>>) = <<0, 0, 0>>
              /\ by((1 - C) * (-1), <<0, -1, 0>>) = <<0, 1 - C, 0>>
          BY <1>3 DEF by
        <5> QED
          BY <1>3, <5>2, <5>3 DEF add
      <4>3. r = <<-S, 0, C>>
        <5>1. cross(<<0, -1, 0>>, <<0, 0, 1>>) = <<-1, 0, 0>> /\ dot(<<0, -1, 0>>, <<0, 0, 1>>) = 0
          BY DEF cross, dot
        <5>2. r = add(by(C, <<0, 0, 1>>), add(by(S, <<-1, 0, 0>>), by((1 - C) * 0, <<0, -1, 0>>)))
          BY <2>4, <5>1
        <5>3. /\ by(C, <<0, 0, 1>>) = <<0, 0, C>> /\ by(S, <<-1, 0, 0>>) = <<-S, 0, 0>>
              /\ by((1 - C) * 0, <<0, -1, 0>>) = <<0, 0, 0>>
          BY <1>3 DEF by
        <5> QED
          BY <1>3, <5>2, <5>3 DEF add
      <4> QED
        BY <4>1, <4>2, <4>3
    <3> HIDE DEF p, q, r
    <3> QED
      BY <1>3, <3>1 DEF cross
  <2>5. CASE axis = <<0, 0, 1>>
    <3>1. p = <<C, S, 0>> /\ q = <<-S, C, 0>> /\ r = <<0, 0, 1>>
      <4>1. p = <<C, S, 0>>
        <5>1. cross(<<0, 0, 1>>, <<1, 0, 0>>) = <<0, 1, 0>> /\ dot(<<0, 0, 1>>, <<1, 0, 0>>) = 0
          BY DEF cross, dot
        <5>2. p = add(by(C, <<1, 0, 0>>), add(by(S, <<0, 1, 0>>), by((1 - C) * 0, <<0, 0, 1>>)))
          BY <2>5, <5>1
        <5>3. /\ by(C, <<1, 0, 0>>) = <<C, 0, 0>> /\ by(S, <<0, 1, 0>>) = <<0, S, 0>>
              /\ by((1 - C) * 0, <<0, 0, 1>>) = <<0, 0, 0>>
          BY <1>3 DEF by
        <5> QED
          BY <1>3, <5>2, <5>3 DEF add
      <4>2. q = <<-S, C, 0>>
        <5>1. cross(<<0, 0, 1>>, <<0, 1, 0>>) = <<-1, 0, 0>> /\ dot(<<0, 0, 1>>, <<0, 1, 0>>) = 0
          BY DEF cross, dot
        <5>2. q = add(by(C, <<0, 1, 0>>), add(by(S, <<-1, 0, 0>>), by((1 - C) * 0, <<0, 0, 1>>)))
          BY <2>5, <5>1
        <5>3. /\ by(C, <<0, 1, 0>>) = <<0, C, 0>> /\ by(S, <<-1, 0, 0>>) = <<-S, 0, 0>>
              /\ by((1 - C) * 0, <<0, 0, 1>>) = <<0, 0, 0>>
          BY <1>3 DEF by
        <5> QED
          BY <1>3, <5>2, <5>3 DEF add
      <4>3. r = <<0, 0, 1>>
        <5>1. cross(<<0, 0, 1>>, <<0, 0, 1>>) = <<0, 0, 0>> /\ dot(<<0, 0, 1>>, <<0, 0, 1>>) = 1
          BY DEF cross, dot
        <5>2. r = add(by(C, <<0, 0, 1>>), add(by(S, <<0, 0, 0>>), by((1 - C) * 1, <<0, 0, 1>>)))
          BY <2>5, <5>1
        <5>3. /\ by(C, <<0, 0, 1>>) = <<0, 0, C>> /\ by(S, <<0, 0, 0>>) = <<0, 0, 0>>
              /\ by((1 - C) * 1, <<0, 0, 1>>) = <<0, 0, 1 - C>>
          BY <1>3 DEF by
        <5> QED
          BY <1>3, <5>2, <5>3 DEF add
      <4> QED
        BY <4>1, <4>2, <4>3
    <3> HIDE DEF p, q, r
    <3> QED
      BY <1>3, <3>1 DEF cross
  <2>6. CASE axis = <<0, 0, -1>>
    <3>1. p = <<C, -S, 0>> /\ q = <<S, C, 0>> /\ r = <<0, 0, 1>>
      <4>1. p = <<C, -S, 0>>
        <5>1. cross(<<0, 0, -1>>, <<1, 0, 0>>) = <<0, -1, 0>> /\ dot(<<0, 0, -1>>, <<1, 0, 0>>) = 0
          BY DEF cross, dot
        <5>2. p = add(by(C, <<1, 0, 0>>), add(by(S, <<0, -1, 0>>), by((1 - C) * 0, <<0, 0, -1>>)))
          BY <2>6, <5>1
        <5>3. by(C, <<1, 0, 0>>) = <<C, 0, 0>> /\ by(S, <<0, -1, 0>>) = <<0, -S, 0>>
              /\ by((1 - C) * 0, <<0, 0, -1>>) = <<0, 0, 0>>
          BY <1>3 DEF by
        <5> QED
          BY <1>3, <5>2, <5>3 DEF add
      <4>2. q = <<S, C, 0>>
        <5>1. cross(<<0, 0, -1>>, <<0, 1, 0>>) = <<1, 0, 0>> /\ dot(<<0, 0, -1>>, <<0, 1, 0>>) = 0
          BY DEF cross, dot
        <5>2. q = add(by(C, <<0, 1, 0>>), add(by(S, <<1, 0, 0>>), by((1 - C) * 0, <<0, 0, -1>>)))
          BY <2>6, <5>1
        <5>3. by(C, <<0, 1, 0>>) = <<0, C, 0>> /\ by(S, <<1, 0, 0>>) = <<S, 0, 0>>
              /\ by((1 - C) * 0, <<0, 0, -1>>) = <<0, 0, 0>>
          BY <1>3 DEF by
        <5> QED
          BY <1>3, <5>2, <5>3 DEF add
      <4>3. r = <<0, 0, 1>>
        <5>1. cross(<<0, 0, -1>>, <<0, 0, 1>>) = <<0, 0, 0>> /\ dot(<<0, 0, -1>>, <<0, 0, 1>>) = -1
          BY DEF cross, dot
        <5>2. r = add(by(C, <<0, 0, 1>>), add(by(S, <<0, 0, 0>>), by((1 - C) * (-1), <<0, 0, -1>>)))
          BY <2>6, <5>1
        <5>3. /\ by(C, <<0, 0, 1>>) = <<0, 0, C>> /\ by(S, <<0, 0, 0>>) = <<0, 0, 0>>
              /\ by((1 - C) * (-1), <<0, 0, -1>>) = <<0, 0, 1 - C>>
          BY <1>3 DEF by
        <5> QED
          BY <1>3, <5>2, <5>3 DEF add
      <4> QED
        BY <4>1, <4>2, <4>3
    <3> HIDE DEF p, q, r
    <3> QED
      BY <1>3, <3>1 DEF cross
  <2> QED
    BY <1>1, <2>1, <2>2, <2>3, <2>4, <2>5, <2>6
<1> HIDE DEF turned
<1> QED
  BY <1>2, <1>4, <1>5 DEF Rotations, Matrices

\* A multiple of a coordinate axis becomes that axis, one way or the other.
LEMMA NormalizedIsUnit ==
  ASSUME NEW u \in Vectors, Axial(u), norm(u) # 0
  PROVE  normalized(u) \in UnitAxes
<1>1. PICK i \in 1..3 : \A k \in (1..3) \ {i} : u[k] = 0
  BY DEF Axial
<1>2. u[1] \in Int /\ u[2] \in Int /\ u[3] \in Int
  BY VectorParts
<1> DEFINE x == u[i]
           size == IF x < 0 THEN -x ELSE x
<1>3. norm(u) = size /\ x \in Int
  <2>1. i = 1 \/ i = 2 \/ i = 3
    OBVIOUS
  <2> QED
    BY <1>1, <1>2, <2>1 DEF norm
<1>4. x # 0 /\ size \in Nat \ {0} /\ (size = x \/ size = -x)
  BY <1>3
<1>5. 0 \div size = 0
  <2> HIDE DEF size
  <2> QED
    BY <1>4
<1>6. x \div size \in {-1, 1}
  <2>1. CASE x > 0
    <3>1. x \div x = 1
      BY <1>3, <2>1
    <3> QED
      BY <1>3, <2>1, <3>1
  <2>2. CASE x < 0
    <3>1. x = -1 * size /\ size \in Nat \ {0}
      BY <1>3, <2>2
    <3> HIDE DEF size
    <3>2. (-1 * size) \div size = -1
      BY <3>1
    <3> QED
      BY <3>1, <3>2
  <2> QED
    BY <1>3, <1>4, <2>1, <2>2
<1>7. normalized(u) = <<u[1] \div size, u[2] \div size, u[3] \div size>>
  BY <1>3 DEF normalized
<1> DEFINE v == normalized(u)
<1>8. v[i] \in {-1, 1} /\ \A k \in (1..3) \ {i} : v[k] = 0
  <2>1. \A k \in 1..3 : v[k] = u[k] \div size
    BY <1>7
  <2> HIDE DEF v, size
  <2> QED
    BY <1>1, <1>5, <1>6, <2>1
<1>9. v \in Vectors
  <2>1. \A k \in 1..3 : v[k] \in Int
    <3> HIDE DEF v
    <3> QED
      BY <1>8
  <2>2. v = <<v[1], v[2], v[3]>>
    BY <1>7
  <2> HIDE DEF v
  <2> QED
    BY <2>1, <2>2, VectorOf
<1> QED
  BY <1>8, <1>9 DEF UnitAxes

-----------------------------------------------------------------------------
(* Chains *)

\* Joints as the builder leaves them.
Built ==
  {j \in [kind : {"fixed", "rotating", "translating"}, translation : Vectors, rotation : Rotations,
          norm : Nat, axis : Vectors] : Moves(j) => j.axis \in UnitAxes}

\* The joints before joint i that move.
LEMMA MovingBeforeIs ==
  ASSUME chain \in Seq(Built), NEW i \in 1..Len(chain) + 1
  PROVE  MovingBefore(i) = Cardinality({k \in 1..i - 1 : Moves(chain[k])})
<1>1. Len(chain) \in Nat
  BY LenProperties
<1> DEFINE s == SubSeq(chain, 1, i - 1)
<1>2. Len(s) = i - 1 /\ \A k \in 1..i - 1 : s[k] = chain[k]
  <2>1. i - 1 \in 0..Len(chain) /\ 1 \in 1..Len(chain) + 1 /\ i - 1 <= Len(chain)
    BY <1>1
  <2>2. s = [k \in 1..i - 1 |-> chain[k]]
    BY <1>1, <2>1, SubSeqProperties
  <2> QED
    BY <2>1, <2>2, <1>1
<1>3. {k \in 1..Len(s) : Moves(s[k])} = {k \in 1..i - 1 : Moves(chain[k])}
  <2> HIDE DEF s
  <2> QED
    BY <1>2
<1>4. MovingBefore(i) = Cardinality({k \in 1..Len(s) : Moves(s[k])})
  BY DEF MovingBefore, dof
<1> QED
  BY <1>3, <1>4

LEMMA MovingCounts ==
  ASSUME chain \in Seq(Built)
  PROVE  /\ MovingBefore(1) = 0 /\ MovingBefore(Len(chain) + 1) = dof(chain)
         /\ \A i \in 1..Len(chain) + 1 : MovingBefore(i) \in Nat
         /\ \A i \in 1..Len(chain) : MovingBefore(i + 1) = MovingBefore(i) + (IF Moves(chain[i]) THEN 1 ELSE 0)
<1> DEFINE n == Len(chain)
           S(i) == {k \in 1..i - 1 : Moves(chain[k])}
<1>1. n \in Nat
  BY LenProperties
<1>2. \A i \in 1..n + 1 : MovingBefore(i) = Cardinality(S(i))
  BY MovingBeforeIs
<1>3. ASSUME NEW i \in 1..n + 1 PROVE IsFiniteSet(S(i)) /\ Cardinality(S(i)) \in Nat
  <2>1. IsFiniteSet(1..i - 1)
    BY FS_Interval
  <2>2. S(i) \subseteq 1..i - 1
    OBVIOUS
  <2>3. IsFiniteSet(S(i))
    BY <2>1, <2>2, FS_Subset
  <2> QED
    BY <2>3, FS_CardinalityType
<1>4. MovingBefore(1) = 0
  <2>1. 1 \in 1..n + 1 /\ S(1) = {}
    BY <1>1
  <2> QED
    BY <1>2, <2>1, FS_EmptySet
<1>5. MovingBefore(n + 1) = dof(chain)
  <2>1. n + 1 \in 1..n + 1 /\ (n + 1) - 1 = n
    BY <1>1
  <2> QED
    BY <1>2, <2>1 DEF dof
<1>6. ASSUME NEW i \in 1..n
      PROVE  MovingBefore(i + 1) = MovingBefore(i) + (IF Moves(chain[i]) THEN 1 ELSE 0)
  <2>1. i \in 1..n + 1 /\ i + 1 \in 1..n + 1 /\ (i + 1) - 1 = i
    BY <1>1
  <2>2. MovingBefore(i) = Cardinality(S(i)) /\ MovingBefore(i + 1) = Cardinality(S(i + 1)) /\ Cardinality(S(i)) \in Nat
    BY <1>2, <1>3, <2>1
  <2>3. CASE Moves(chain[i])
    <3>1. S(i + 1) = S(i) \cup {i} /\ i \notin S(i)
      BY <1>1, <2>1, <2>3
    <3>2. IsFiniteSet(S(i))
      BY <1>3, <2>1
    <3> HIDE DEF S
    <3>3. Cardinality(S(i) \cup {i}) = Cardinality(S(i)) + 1
      BY <3>1, <3>2, FS_AddElement
    <3> QED
      BY <2>2, <2>3, <3>1, <3>3
  <2>4. CASE ~Moves(chain[i])
    <3>1. S(i + 1) = S(i)
      BY <1>1, <2>1, <2>4
    <3> HIDE DEF S
    <3> QED
      BY <2>2, <2>4, <3>1
  <2> QED
    BY <2>3, <2>4
<1>7. \A i \in 1..n + 1 : MovingBefore(i) \in Nat
  BY <1>2, <1>3
<1> QED
  BY <1>4, <1>5, <1>6, <1>7

\* The moving joints before a joint are no more than those before a later one.
LEMMA MovingGrows ==
  ASSUME chain \in Seq(Built), NEW i \in 1..Len(chain) + 1, NEW j \in 1..Len(chain) + 1, i <= j
  PROVE  MovingBefore(i) <= MovingBefore(j) /\ (j <= Len(chain) /\ Moves(chain[j]) => MovingBefore(j) < dof(chain))
<1> DEFINE n == Len(chain)
           S(k) == {l \in 1..k - 1 : Moves(chain[l])}
<1>1. n \in Nat
  BY LenProperties
<1>2. ASSUME NEW k \in 1..n + 1, NEW l \in 1..n + 1, k <= l PROVE MovingBefore(k) <= MovingBefore(l)
  <2>1. S(k) \subseteq S(l) /\ S(l) \subseteq 1..l - 1
    BY <1>1, <1>2
  <2>2. IsFiniteSet(1..l - 1)
    BY FS_Interval
  <2>3. IsFiniteSet(S(l))
    BY <2>1, <2>2, FS_Subset
  <2>4. Cardinality(S(k)) <= Cardinality(S(l))
    <3> HIDE DEF S
    <3> QED
      BY <2>1, <2>3, FS_Subset
  <2> QED
    BY <2>4, MovingBeforeIs
<1>3. ASSUME j <= n, Moves(chain[j]) PROVE MovingBefore(j) < dof(chain)
  <2>1. j \in 1..n /\ j + 1 \in 1..n + 1 /\ n + 1 \in 1..n + 1 /\ j + 1 <= n + 1
    BY <1>1, <1>3
  <2>2. MovingBefore(j + 1) = MovingBefore(j) + 1 /\ MovingBefore(j) \in Nat
    BY <1>3, <2>1, MovingCounts
  <2>3. MovingBefore(j + 1) <= MovingBefore(n + 1) /\ MovingBefore(n + 1) = dof(chain) /\ MovingBefore(n + 1) \in Nat
    BY <1>2, <2>1, MovingCounts
  <2> QED
    BY <2>2, <2>3
<1> QED
  BY <1>2, <1>3

-----------------------------------------------------------------------------
(* The walk *)

Kept == [axis : Vectors, position : Vectors, translates : BOOLEAN]
WalkStates == [running : Poses, joints : Seq(Kept)]
Base == [running |-> [rotation |-> identity, translation |-> zero3], joints |-> <<>>]

LEMMA MatricesHoldRotations ==
  ASSUME NEW r \in Rotations
  PROVE  r \in Matrices
BY RotationParts

LEMMA BuiltParts ==
  ASSUME NEW joint \in Built
  PROVE  /\ joint.kind \in {"fixed", "rotating", "translating"} /\ joint.translation \in Vectors
         /\ joint.rotation \in Rotations /\ joint.axis \in Vectors /\ (Moves(joint) => joint.axis \in UnitAxes)
         /\ (Moves(joint) <=> joint.kind # "fixed")
BY DEF Built, Moves

LEMMA PosesStay ==
  ASSUME NEW running \in Poses, NEW joint \in Built, NEW value \in Int
  PROVE  LET placed == compose(running, joint.rotation, joint.translation)
         IN  /\ placed \in Poses /\ Captured(placed, joint) \in Kept
             /\ Moved(placed, joint, value) \in Poses
<1> DEFINE placed == compose(running, joint.rotation, joint.translation)
           axis == rotate(placed.rotation, joint.axis)
<1>1. running.rotation \in Rotations /\ running.translation \in Vectors
  BY DEF Poses
<1>2. placed \in Poses
  <2>1. multiply(running.rotation, joint.rotation) \in Rotations
    BY <1>1, BuiltParts, RotationsClosed
  <2>2. rotate(running.rotation, joint.translation) \in Vectors
    BY <1>1, BuiltParts, MatricesHoldRotations, RotateIsLinear, 0 \in Int
  <2>3. add(running.translation, rotate(running.rotation, joint.translation)) \in Vectors
    BY <1>1, <2>2, VectorsClosed, 0 \in Int
  <2> QED
    BY <2>1, <2>3 DEF compose, Poses
<1> HIDE DEF placed
<1>3. placed.rotation \in Rotations /\ placed.translation \in Vectors
  BY <1>2 DEF Poses
<1>4. axis \in Vectors
  BY <1>3, BuiltParts, MatricesHoldRotations, RotateIsLinear, 0 \in Int
<1>5. Captured(placed, joint) \in Kept
  <2>1. (joint.kind = "translating") \in BOOLEAN
    OBVIOUS
  <2> QED
    BY <1>3, <1>4, <2>1 DEF Captured, Kept
<1>6. Moved(placed, joint, value) \in Poses
  <2>1. CASE joint.kind = "fixed"
    BY <1>2, <2>1 DEF Moved
  <2>2. CASE joint.kind = "translating"
    <3>1. by(value, axis) \in Vectors
      BY <1>4, VectorsClosed
    <3>2. add(placed.translation, by(value, axis)) \in Vectors
      BY <1>3, <3>1, VectorsClosed
    <3>3. Moved(placed, joint, value) = [placed EXCEPT !.translation = add(placed.translation, by(value, axis))]
      BY <2>2 DEF Moved
    <3> QED
      BY <1>2, <3>2, <3>3 DEF Poses
  <2>3. CASE joint.kind = "rotating"
    <3>1. axis_rotation(joint.axis, value) \in Rotations
      BY <2>3, BuiltParts, TurnsAreRotations
    <3>2. multiply(placed.rotation, axis_rotation(joint.axis, value)) \in Rotations
      BY <1>3, <3>1, RotationsClosed
    <3>3. Moved(placed, joint, value)
            = [placed EXCEPT !.rotation = multiply(placed.rotation, axis_rotation(joint.axis, value))]
      BY <2>3 DEF Moved
    <3> QED
      BY <1>2, <3>2, <3>3 DEF Poses
  <2> QED
    BY <2>1, <2>2, <2>3, BuiltParts
<1> QED
  BY <1>2, <1>5, <1>6 DEF placed

LEMMA WalkedStays ==
  ASSUME NEW state \in WalkStates, NEW joint \in Built, NEW value \in Int
  PROVE  Walked(state, joint, value) \in WalkStates
<1> DEFINE placed == compose(state.running, joint.rotation, joint.translation)
<1>1. state.running \in Poses /\ state.joints \in Seq(Kept)
  BY DEF WalkStates
<1>2. Captured(placed, joint) \in Kept /\ Moved(placed, joint, value) \in Poses
  BY <1>1, PosesStay
<1>3. Walked(state, joint, value) =
        [running |-> Moved(placed, joint, value),
         joints |-> IF Moves(joint) THEN Append(state.joints, Captured(placed, joint)) ELSE state.joints]
  BY DEF Walked
<1> HIDE DEF placed
<1>4. Append(state.joints, Captured(placed, joint)) \in Seq(Kept)
  BY <1>1, <1>2, AppendProperties
<1> QED
  BY <1>1, <1>2, <1>3, <1>4 DEF WalkStates

LEMMA ValuesAreNumbers ==
  ASSUME chain \in Seq(Built), NEW q \in [1..dof(chain) -> Int], NEW i \in 1..Len(chain)
  PROVE  ValueFor(q, i) \in Int
<1>1. Len(chain) \in Nat /\ i \in 1..Len(chain) + 1
  <2>1. Len(chain) \in Nat
    BY LenProperties
  <2> QED
    BY <2>1
<1>2. CASE Moves(chain[i])
  <2>1. MovingBefore(i) < dof(chain) /\ MovingBefore(i) \in Nat /\ dof(chain) \in Nat
    <3>1. Len(chain) + 1 \in 1..Len(chain) + 1
      BY <1>1
    <3> QED
      BY <1>1, <1>2, <3>1, MovingGrows, MovingCounts
  <2>2. MovingBefore(i) + 1 \in 1..dof(chain)
    BY <2>1
  <2> QED
    BY <1>2, <2>2 DEF ValueFor
<1>3. CASE ~Moves(chain[i])
  BY <1>3 DEF ValueFor
<1> QED
  BY <1>2, <1>3

Walks(states, last, q) ==
  states[0] = Base /\ \A i \in 1..last : states[i] = Walked(states[i - 1], chain[i], ValueFor(q, i))

LEMMA WalkIs ==
  ASSUME chain \in Seq(Built), NEW last \in 1..Len(chain), NEW q \in [1..dof(chain) -> Int]
  PROVE  \E states \in [0..last -> WalkStates] :
           /\ Walks(states, last, q)
           /\ Walk(q, last, <<>>) = [joints |-> states[last].joints, p_e |-> states[last].running.translation]
<1>1. last \in Nat /\ \A i \in 1..last : i \in 1..Len(chain)
  <2>1. Len(chain) \in Nat
    BY LenProperties
  <2> QED
    BY <2>1
<1> DEFINE R(f) == [i \in 0..last |->
                      IF i = 0 THEN [running |-> [rotation |-> identity, translation |-> zero3], joints |-> <<>>]
                      ELSE Walked(f[i - 1], chain[i], ValueFor(q, i))]
           states == CHOOSE f : f = R(f)
           step == [i \in 1..last |-> [x \in WalkStates |-> Walked(x, chain[i], ValueFor(q, i))]]
<1>2. Walk(q, last, <<>>) = [joints |-> states[last].joints, p_e |-> states[last].running.translation]
  BY DEF Walk
<1>3. Base \in WalkStates
  <2>1. zero3 \in Vectors
    BY VectorOf DEF zero3
  <2>2. <<>> \in Seq(Kept)
    BY EmptySeq
  <2> QED
    BY <2>1, <2>2, RotationsClosed DEF Base, WalkStates, Poses
<1>4. \A i \in 1..last : \A x \in WalkStates :
        step[i][x] = Walked(x, chain[i], ValueFor(q, i)) /\ Walked(x, chain[i], ValueFor(q, i)) \in WalkStates
  <2> SUFFICES ASSUME NEW i \in 1..last, NEW x \in WalkStates
               PROVE  Walked(x, chain[i], ValueFor(q, i)) \in WalkStates
    OBVIOUS
  <2>1. chain[i] \in Built /\ ValueFor(q, i) \in Int
    BY <1>1, ValuesAreNumbers, ElementOfSeq
  <2> QED
    BY <2>1, WalkedStays
<1> HIDE DEF step
<1>5. PICK h \in [0..last -> WalkStates] : Recurs(h, last, Base, step)
  <2>1. \A i \in 1..last : \A x \in WalkStates : step[i][x] \in WalkStates
    BY <1>4
  <2> QED
    BY <1>1, <1>3, <2>1, RecursionFromZero
<1>6. h[0] = Base /\ \A i \in 1..last : h[i] = Walked(h[i - 1], chain[i], ValueFor(q, i))
  <2>1. \A i \in 1..last : h[i - 1] \in WalkStates
    BY <1>1
  <2> QED
    BY <1>4, <1>5, <2>1 DEF Recurs
<1>7. h = R(h)
  <2>1. h = [i \in 0..last |-> h[i]]
    OBVIOUS
  <2>2. ASSUME NEW i \in 0..last PROVE h[i] = R(h)[i]
    <3>1. i = 0 \/ i \in 1..last
      BY <1>1
    <3> QED
      BY <1>1, <1>6, <3>1 DEF Base
  <2> QED
    BY <2>1, <2>2
<1>8. states = R(states)
  BY <1>7
<1> HIDE DEF states
<1>9. OnFromZero(states, last)
  <2>1. states = [i \in 0..last |-> states[i]]
    BY <1>8
  <2> QED
    BY <2>1 DEF OnFromZero
<1>10. states[0] = Base
  BY <1>1, <1>8 DEF Base
<1>11. \A i \in 1..last : states[i] = Walked(states[i - 1], chain[i], ValueFor(q, i))
  <2>1. \A i \in 1..last : i \in 0..last /\ i # 0
    BY <1>1
  <2> QED
    BY <1>8, <2>1
<1>12. states \in [0..last -> WalkStates]
  <2>1. RecursWithin(states, last, WalkStates, step)
    BY <1>4, <1>11 DEF RecursWithin
  <2> QED
    BY <1>1, <1>3, <1>9, <1>10, <2>1, StaysFromZero
<1> QED
  BY <1>2, <1>10, <1>11, <1>12 DEF Walks

-----------------------------------------------------------------------------
(* The sums and the loop *)

Totals(total, terms) == total[0] = zero3 /\ \A i \in 1..Len(terms) : total[i] = add(total[i - 1], terms[i])

LEMMA TotalIs ==
  ASSUME NEW terms \in Seq(Vectors)
  PROVE  \E total \in [0..Len(terms) -> Vectors] : Totals(total, terms) /\ Total(terms) = total[Len(terms)]
<1> DEFINE n == Len(terms)
           R(f) == [i \in 0..n |-> IF i = 0 THEN zero3 ELSE add(f[i - 1], terms[i])]
           total == CHOOSE f : f = R(f)
           step == [i \in 1..n |-> [x \in Vectors |-> add(x, terms[i])]]
<1>1. n \in Nat
  BY LenProperties
<1>2. Total(terms) = total[n]
  BY DEF Total
<1>3. \A i \in 1..n : \A x \in Vectors : step[i][x] = add(x, terms[i]) /\ add(x, terms[i]) \in Vectors
  <2> SUFFICES ASSUME NEW i \in 1..n, NEW x \in Vectors PROVE add(x, terms[i]) \in Vectors
    OBVIOUS
  <2>1. terms[i] \in Vectors
    BY ElementOfSeq
  <2> QED
    BY <2>1, VectorsClosed, 0 \in Int
<1>4. zero3 \in Vectors
  BY VectorOf DEF zero3
<1> HIDE DEF step, n
<1>5. PICK h \in [0..n -> Vectors] : Recurs(h, n, zero3, step)
  <2>1. \A i \in 1..n : \A x \in Vectors : step[i][x] \in Vectors
    BY <1>3
  <2> QED
    BY <1>1, <1>4, <2>1, RecursionFromZero
<1>6. h[0] = zero3 /\ \A i \in 1..n : h[i] = add(h[i - 1], terms[i])
  <2>1. \A i \in 1..n : h[i - 1] \in Vectors
    BY <1>1
  <2> QED
    BY <1>3, <1>5, <2>1 DEF Recurs
<1>7. h = R(h)
  <2>1. h = [i \in 0..n |-> h[i]]
    OBVIOUS
  <2>2. ASSUME NEW i \in 0..n PROVE h[i] = R(h)[i]
    <3>1. i = 0 \/ i \in 1..n
      BY <1>1
    <3> QED
      BY <1>1, <1>6, <3>1
  <2> QED
    BY <2>1, <2>2
<1>8. total = R(total)
  BY <1>7
<1> HIDE DEF total
<1>9. OnFromZero(total, n)
  <2>1. total = [i \in 0..n |-> total[i]]
    BY <1>8
  <2> QED
    BY <2>1 DEF OnFromZero
<1>10. total[0] = zero3
  BY <1>1, <1>8
<1>11. \A i \in 1..n : total[i] = add(total[i - 1], terms[i])
  <2>1. \A i \in 1..n : i \in 0..n /\ i # 0
    BY <1>1
  <2> QED
    BY <1>8, <2>1
<1>12. total \in [0..n -> Vectors]
  <2>1. RecursWithin(total, n, Vectors, step)
    BY <1>3, <1>11 DEF RecursWithin
  <2> QED
    BY <1>1, <1>4, <1>9, <1>10, <2>1, StaysFromZero
<1> QED
  BY <1>2, <1>10, <1>11, <1>12 DEF Totals, n

LoopStates == [dv : Vectors, omega : Vectors, c : Vectors, t : Vectors]
AtRest == [dv |-> zero3, omega |-> zero3, c |-> zero3, t |-> zero3]

LEMMA ColumnsAreVectors ==
  ASSUME NEW joint \in Kept, NEW p_e \in Vectors
  PROVE  /\ linear_column(joint, p_e) \in Vectors
         /\ joint.axis \in Vectors /\ joint.position \in Vectors /\ joint.translates \in BOOLEAN
<1>1. joint.axis \in Vectors /\ joint.position \in Vectors /\ joint.translates \in BOOLEAN
  BY DEF Kept
<1>2. sub(p_e, joint.position) \in Vectors
  BY <1>1, VectorsClosed, 0 \in Int
<1>3. cross(joint.axis, sub(p_e, joint.position)) \in Vectors
  BY <1>1, <1>2, VectorsClosed, 0 \in Int
<1> QED
  BY <1>1, <1>3 DEF linear_column

LEMMA LoopStepStays ==
  ASSUME NEW p_e \in Vectors, NEW v \in Vectors, NEW x \in LoopStates, NEW joint \in Kept,
         NEW rate \in Int, NEW acceleration \in Int
  PROVE  loop_step(p_e, v, x, joint, rate, acceleration) \in LoopStates
<1> DEFINE w == joint.axis
           wq == by(rate, w)
           dw == cross(x.omega, w)
           r == sub(p_e, joint.position)
           v_point == add(sub(cross(x.omega, joint.position), x.c), x.t)
           col == linear_column(joint, p_e)
           d_col == IF joint.translates THEN dw ELSE add(cross(dw, r), cross(w, sub(v, v_point)))
           dv == add(x.dv, add(by(rate, d_col), by(acceleration, col)))
           turned == [x EXCEPT !.dv = dv]
<1>1. loop_step(p_e, v, x, joint, rate, acceleration) =
        IF joint.translates THEN [turned EXCEPT !.t = add(x.t, wq)]
        ELSE [turned EXCEPT !.omega = add(x.omega, wq), !.c = add(x.c, cross(wq, joint.position))]
  BY DEF loop_step, LoopStates
<1>2. x.dv \in Vectors /\ x.omega \in Vectors /\ x.c \in Vectors /\ x.t \in Vectors
  BY DEF LoopStates
<1>3. w \in Vectors /\ joint.position \in Vectors /\ col \in Vectors
  BY ColumnsAreVectors
<1>4. \A a, b \in Vectors : add(a, b) \in Vectors /\ sub(a, b) \in Vectors /\ cross(a, b) \in Vectors
  BY VectorsClosed, 0 \in Int
<1>5. \A n \in Int, a \in Vectors : by(n, a) \in Vectors
  BY VectorsClosed
<1> HIDE DEF w, col
<1>6. wq \in Vectors /\ dw \in Vectors /\ r \in Vectors
  BY <1>2, <1>3, <1>4, <1>5
<1>7. v_point \in Vectors
  BY <1>2, <1>3, <1>4
<1> HIDE DEF v_point, r, dw
<1>8. d_col \in Vectors
  BY <1>3, <1>4, <1>6, <1>7
<1> HIDE DEF d_col
<1>9. dv \in Vectors
  BY <1>2, <1>3, <1>4, <1>5, <1>8
<1> HIDE DEF dv, wq
<1>10. turned \in LoopStates
  BY <1>9 DEF LoopStates
<1>11. add(x.t, wq) \in Vectors /\ add(x.omega, wq) \in Vectors /\ add(x.c, cross(wq, joint.position)) \in Vectors
  BY <1>2, <1>3, <1>4, <1>6
<1> HIDE DEF turned
<1> QED
  BY <1>1, <1>10, <1>11 DEF LoopStates

Loops(loop, storage, v, q_dot, q_ddot) ==
  /\ loop[0] = AtRest
  /\ \A i \in 1..Len(storage.joints) :
       loop[i] = loop_step(storage.p_e, v, loop[i - 1], storage.joints[i], q_dot[i], q_ddot[i])

AreNumbers(q_dot, q_ddot, n) == \A i \in 1..n : q_dot[i] \in Int /\ q_ddot[i] \in Int

\* The loop comes out as the velocity's derivative.
LoopRuns(storage, v, q_dot, q_ddot) ==
  \E loop \in [0..Len(storage.joints) -> LoopStates] :
    Loops(loop, storage, v, q_dot, q_ddot) /\ Differentiated(storage, v, q_dot, q_ddot) = loop[Len(storage.joints)].dv

LEMMA LoopIs ==
  ASSUME NEW storage, storage.joints \in Seq(Kept), storage.p_e \in Vectors, NEW v \in Vectors, NEW q_dot, NEW q_ddot,
         AreNumbers(q_dot, q_ddot, Len(storage.joints))
  PROVE  LoopRuns(storage, v, q_dot, q_ddot)
<1> DEFINE n == Len(storage.joints)
           Next1(i, x) == loop_step(storage.p_e, v, x, storage.joints[i], q_dot[i], q_ddot[i])
           R(f) == [i \in 0..n |-> IF i = 0 THEN [dv |-> zero3, omega |-> zero3, c |-> zero3, t |-> zero3]
                                   ELSE loop_step(storage.p_e, v, f[i - 1], storage.joints[i], q_dot[i], q_ddot[i])]
           loop == CHOOSE f : f = R(f)
           step == [i \in 1..n |-> [x \in LoopStates |-> Next1(i, x)]]
<1>1. n \in Nat
  BY LenProperties
<1>2. Differentiated(storage, v, q_dot, q_ddot) = loop[n].dv
  BY DEF Differentiated
<1>3. \A i \in 1..n : \A x \in LoopStates : step[i][x] = Next1(i, x) /\ Next1(i, x) \in LoopStates
  <2> SUFFICES ASSUME NEW i \in 1..n, NEW x \in LoopStates PROVE Next1(i, x) \in LoopStates
    OBVIOUS
  <2>1. storage.joints[i] \in Kept /\ q_dot[i] \in Int /\ q_ddot[i] \in Int
    BY ElementOfSeq DEF AreNumbers
  <2> QED
    BY <2>1, LoopStepStays
<1>4. AtRest \in LoopStates
  <2>1. zero3 \in Vectors
    BY VectorOf DEF zero3
  <2> QED
    BY <2>1 DEF AtRest, LoopStates
<1> HIDE DEF step, n, Next1
<1>5. PICK h \in [0..n -> LoopStates] : Recurs(h, n, AtRest, step)
  <2>1. \A i \in 1..n : \A x \in LoopStates : step[i][x] \in LoopStates
    BY <1>3
  <2> QED
    BY <1>1, <1>4, <2>1, RecursionFromZero
<1>6. h[0] = AtRest /\ \A i \in 1..n : h[i] = Next1(i, h[i - 1])
  <2>1. \A i \in 1..n : h[i - 1] \in LoopStates
    BY <1>1
  <2> QED
    BY <1>3, <1>5, <2>1 DEF Recurs
<1>7. h = R(h)
  <2>1. h = [i \in 0..n |-> h[i]]
    OBVIOUS
  <2>2. ASSUME NEW i \in 0..n PROVE h[i] = R(h)[i]
    <3>1. i = 0 \/ i \in 1..n
      BY <1>1
    <3> QED
      BY <1>1, <1>6, <3>1 DEF AtRest, Next1
  <2> QED
    BY <2>1, <2>2
<1>8. loop = R(loop)
  BY <1>7
<1> HIDE DEF loop
<1>9. OnFromZero(loop, n)
  <2>1. loop = [i \in 0..n |-> loop[i]]
    BY <1>8
  <2> QED
    BY <2>1 DEF OnFromZero
<1>10. loop[0] = AtRest
  BY <1>1, <1>8 DEF AtRest
<1>11. \A i \in 1..n : loop[i] = Next1(i, loop[i - 1])
  <2>1. \A i \in 1..n : i \in 0..n /\ i # 0
    BY <1>1
  <2> QED
    BY <1>8, <2>1 DEF Next1
<1>12. loop \in [0..n -> LoopStates]
  <2>1. RecursWithin(loop, n, LoopStates, step)
    BY <1>3, <1>11 DEF RecursWithin
  <2> QED
    BY <1>1, <1>4, <1>9, <1>10, <2>1, StaysFromZero
<1>13. Loops(loop, storage, v, q_dot, q_ddot)
  BY <1>10, <1>11 DEF Loops, n, Next1
<1> QED
  BY <1>2, <1>12, <1>13 DEF n, LoopRuns

-----------------------------------------------------------------------------
(* Relative motion *)

Motions == [p : Vectors, v : Vectors, a : Vectors, spin : Vectors]

\* A motion seen through a joint, by the kind of the joint.
LEMMA SeenThroughFixed ==
  ASSUME NEW joint, joint.kind = "fixed", NEW value, NEW rate, NEW acceleration, NEW m
  PROVE  SeenThrough(joint, value, rate, acceleration, m)
           = [p |-> add(joint.translation, rotate(joint.rotation, m.p)), v |-> rotate(joint.rotation, m.v),
              a |-> rotate(joint.rotation, m.a), spin |-> rotate(joint.rotation, m.spin)]
BY DEF SeenThrough

LEMMA SeenThroughTranslating ==
  ASSUME NEW joint, joint.kind = "translating", NEW value, NEW rate, NEW acceleration, NEW m
  PROVE  LET r == joint.rotation
             t == joint.translation
             axis == joint.axis
         IN  SeenThrough(joint, value, rate, acceleration, m)
               = [p |-> add(t, rotate(r, add(m.p, by(value, axis)))), v |-> rotate(r, add(m.v, by(rate, axis))),
                  a |-> rotate(r, add(m.a, by(acceleration, axis))), spin |-> rotate(r, m.spin)]
BY DEF SeenThrough

LEMMA SeenThroughRotating ==
  ASSUME NEW joint, joint.kind = "rotating", NEW value, NEW rate, NEW acceleration, NEW m
  PROVE  LET r == joint.rotation
             t == joint.translation
             axis == joint.axis
             turn(u) == rotate(axis_rotation(axis, value), u)
             swing == cross(axis, turn(m.p))
         IN  SeenThrough(joint, value, rate, acceleration, m)
               = [p |-> add(t, rotate(r, turn(m.p))),
                  v |-> rotate(r, add(turn(m.v), by(rate, swing))),
                  a |-> rotate(r, add(turn(m.a), add(by(2 * rate, cross(axis, turn(m.v))),
                          add(by(acceleration, swing), by(rate * rate, cross(axis, swing)))))),
                  spin |-> rotate(r, add(turn(m.spin), by(rate, axis)))]
BY DEF SeenThrough

LEMMA SeenThroughStays ==
  ASSUME NEW joint \in Built, NEW value \in Int, NEW rate \in Int, NEW acceleration \in Int, NEW m \in Motions
  PROVE  SeenThrough(joint, value, rate, acceleration, m) \in Motions
<1> DEFINE r == joint.rotation
           t == joint.translation
           axis == joint.axis
           turn(u) == rotate(axis_rotation(axis, value), u)
           swing == cross(axis, turn(m.p))
<1>1. m.p \in Vectors /\ m.v \in Vectors /\ m.a \in Vectors /\ m.spin \in Vectors
  BY DEF Motions
<1>2. t \in Vectors /\ axis \in Vectors /\ \A u \in Vectors : rotate(r, u) \in Vectors
  BY BuiltParts, MatricesHoldRotations, RotateIsLinear, 0 \in Int
<1>3. \A a, b \in Vectors : add(a, b) \in Vectors /\ cross(a, b) \in Vectors
  BY VectorsClosed, 0 \in Int
<1>4. \A n \in Int, a \in Vectors : by(n, a) \in Vectors
  BY VectorsClosed
<1>5. CASE joint.kind = "fixed"
  <2>1. add(t, rotate(r, m.p)) \in Vectors
    BY <1>1, <1>2, <1>3
  <2> QED
    BY <1>1, <1>2, <1>5, <2>1, SeenThroughFixed DEF Motions
<1>6. CASE joint.kind = "translating"
  <2>1. add(t, rotate(r, add(m.p, by(value, axis)))) \in Vectors
    BY <1>1, <1>2, <1>3, <1>4
  <2>2. rotate(r, add(m.v, by(rate, axis))) \in Vectors /\ rotate(r, add(m.a, by(acceleration, axis))) \in Vectors
    BY <1>1, <1>2, <1>3, <1>4
  <2> QED
    BY <1>1, <1>2, <1>6, <2>1, <2>2, SeenThroughTranslating DEF Motions
<1>7. CASE joint.kind = "rotating"
  <2>1. axis_rotation(axis, value) \in Rotations
    BY <1>7, BuiltParts, TurnsAreRotations
  <2>2. \A u \in Vectors : turn(u) \in Vectors
    BY <2>1, MatricesHoldRotations, RotateIsLinear, 0 \in Int
  <2>3. SeenThrough(joint, value, rate, acceleration, m)
          = [p |-> add(t, rotate(r, turn(m.p))),
             v |-> rotate(r, add(turn(m.v), by(rate, swing))),
             a |-> rotate(r, add(turn(m.a), add(by(2 * rate, cross(axis, turn(m.v))),
                     add(by(acceleration, swing), by(rate * rate, cross(axis, swing)))))),
             spin |-> rotate(r, add(turn(m.spin), by(rate, axis)))]
    BY <1>7, SeenThroughRotating
  <2>4. swing \in Vectors
    BY <1>1, <1>2, <1>3, <2>2
  <2> HIDE DEF swing, turn, r, t, axis
  <2>5. add(t, rotate(r, turn(m.p))) \in Vectors
    BY <1>1, <1>2, <1>3, <2>2
  <2>6. rotate(r, add(turn(m.v), by(rate, swing))) \in Vectors
    BY <1>1, <1>2, <1>3, <1>4, <2>2, <2>4
  <2>7. rotate(r, add(turn(m.spin), by(rate, axis))) \in Vectors
    BY <1>1, <1>2, <1>3, <1>4, <2>2
  <2>8. by(2 * rate, cross(axis, turn(m.v))) \in Vectors /\ by(rate * rate, cross(axis, swing)) \in Vectors
    <3>1. 2 * rate \in Int /\ rate * rate \in Int
      OBVIOUS
    <3>2. cross(axis, turn(m.v)) \in Vectors /\ cross(axis, swing) \in Vectors
      BY <1>1, <1>2, <1>3, <2>2, <2>4
    <3> QED
      BY <1>4, <3>1, <3>2
  <2>9. rotate(r, add(turn(m.a), add(by(2 * rate, cross(axis, turn(m.v))),
                 add(by(acceleration, swing), by(rate * rate, cross(axis, swing)))))) \in Vectors
    BY <1>1, <1>2, <1>3, <1>4, <2>2, <2>4, <2>8
  <2> QED
    BY <2>3, <2>5, <2>6, <2>7, <2>9 DEF Motions
<1> QED
  BY <1>5, <1>6, <1>7, BuiltParts

LEMMA RatesArePairs ==
  ASSUME chain \in Seq(Built), NEW rates \in [1..dof(chain) -> Int \X Int], NEW i \in 1..Len(chain)
  PROVE  RateOf(rates, i)[1] \in Int /\ RateOf(rates, i)[2] \in Int
<1>1. Len(chain) \in Nat /\ i \in 1..Len(chain) + 1
  <2>1. Len(chain) \in Nat
    BY LenProperties
  <2> QED
    BY <2>1
<1>2. CASE Moves(chain[i])
  <2>1. MovingBefore(i) < dof(chain) /\ MovingBefore(i) \in Nat /\ dof(chain) \in Nat
    <3>1. Len(chain) + 1 \in 1..Len(chain) + 1
      BY <1>1
    <3> QED
      BY <1>1, <1>2, <3>1, MovingGrows, MovingCounts
  <2>2. MovingBefore(i) + 1 \in 1..dof(chain)
    BY <2>1
  <2>3. RateOf(rates, i) \in Int \X Int
    BY <1>2, <2>2 DEF RateOf
  <2> QED
    BY <2>3
<1>3. CASE ~Moves(chain[i])
  <2>1. RateOf(rates, i) = <<0, 0>>
    BY <1>3 DEF RateOf
  <2> QED
    BY <2>1
<1> QED
  BY <1>2, <1>3

SeenAt(last, q, rates, n, m) ==
  LET i == last - n + 1 IN SeenThrough(chain[i], ValueFor(q, i), RateOf(rates, i)[1], RateOf(rates, i)[2], m)

Sees(seen, last, q, rates) ==
  seen[0] = Still /\ \A n \in 1..last : seen[n] = SeenAt(last, q, rates, n, seen[n - 1])

LEMMA MotionIs ==
  ASSUME chain \in Seq(Built), NEW last \in 1..Len(chain), NEW q \in [1..dof(chain) -> Int],
         NEW rates \in [1..dof(chain) -> Int \X Int]
  PROVE  \E seen \in [0..last -> Motions] : Sees(seen, last, q, rates) /\ Motion(last, q, rates) = seen[last]
<1> DEFINE Next1(i, x) == SeenAt(last, q, rates, i, x)
           R(f) == [n \in 0..last |->
                     IF n = 0 THEN Still
                     ELSE LET i == last - n + 1 IN
                          SeenThrough(chain[i], ValueFor(q, i), RateOf(rates, i)[1], RateOf(rates, i)[2], f[n - 1])]
           seen == CHOOSE f : f = R(f)
           step == [i \in 1..last |-> [x \in Motions |-> Next1(i, x)]]
<1>1. last \in Nat /\ Len(chain) \in Nat /\ last <= Len(chain)
  <2>1. Len(chain) \in Nat
    BY LenProperties
  <2> QED
    BY <2>1
<1>2. Motion(last, q, rates) = seen[last]
  BY DEF Motion
<1>3. \A i \in 1..last : \A x \in Motions : step[i][x] = Next1(i, x) /\ Next1(i, x) \in Motions
  <2> SUFFICES ASSUME NEW i \in 1..last, NEW x \in Motions PROVE Next1(i, x) \in Motions
    OBVIOUS
  <2> DEFINE j == last - i + 1
  <2>1. j \in 1..Len(chain)
    BY <1>1
  <2> HIDE DEF j
  <2>2. chain[j] \in Built /\ ValueFor(q, j) \in Int /\ RateOf(rates, j)[1] \in Int /\ RateOf(rates, j)[2] \in Int
    BY <2>1, ElementOfSeq, ValuesAreNumbers, RatesArePairs
  <2>3. SeenThrough(chain[j], ValueFor(q, j), RateOf(rates, j)[1], RateOf(rates, j)[2], x) \in Motions
    BY <2>2, SeenThroughStays
  <2> QED
    BY <2>3 DEF SeenAt, j
<1>4. Still \in Motions
  <2>1. zero3 \in Vectors
    BY VectorOf DEF zero3
  <2> QED
    BY <2>1 DEF Still, Motions
<1> HIDE DEF step, Next1
<1>5. PICK h \in [0..last -> Motions] : Recurs(h, last, Still, step)
  <2>1. \A i \in 1..last : \A x \in Motions : step[i][x] \in Motions
    BY <1>3
  <2> QED
    BY <1>1, <1>4, <2>1, RecursionFromZero
<1>6. h[0] = Still /\ \A i \in 1..last : h[i] = Next1(i, h[i - 1])
  <2>1. \A i \in 1..last : h[i - 1] \in Motions
    BY <1>1
  <2> QED
    BY <1>3, <1>5, <2>1 DEF Recurs
<1>7. h = R(h)
  <2>1. h = [i \in 0..last |-> h[i]]
    OBVIOUS
  <2>2. ASSUME NEW i \in 0..last PROVE h[i] = R(h)[i]
    <3>1. CASE i = 0
      BY <1>6, <3>1
    <3>2. CASE i # 0
      <4>1. i \in 1..last
        BY <1>1, <3>2
      <4> QED
        BY <1>6, <3>2, <4>1 DEF Next1, SeenAt
    <3> QED
      BY <3>1, <3>2
  <2> QED
    BY <2>1, <2>2
<1>8. seen = R(seen)
  BY <1>7
<1> HIDE DEF seen
<1>9. OnFromZero(seen, last)
  <2>1. seen = [i \in 0..last |-> seen[i]]
    BY <1>8
  <2> QED
    BY <2>1 DEF OnFromZero
<1>10. seen[0] = Still
  BY <1>1, <1>8
<1>11. \A i \in 1..last : seen[i] = Next1(i, seen[i - 1])
  <2> SUFFICES ASSUME NEW i \in 1..last PROVE seen[i] = Next1(i, seen[i - 1])
    OBVIOUS
  <2>1. i \in 0..last /\ i # 0
    BY <1>1
  <2>2. seen[i] = R(seen)[i]
    BY <1>8
  <2> QED
    BY <2>1, <2>2 DEF Next1, SeenAt
<1>12. seen \in [0..last -> Motions]
  <2>1. RecursWithin(seen, last, Motions, step)
    BY <1>3, <1>11 DEF RecursWithin
  <2> QED
    BY <1>1, <1>4, <1>9, <1>10, <2>1, StaysFromZero
<1>13. Sees(seen, last, q, rates)
  BY <1>10, <1>11 DEF Sees, Next1
<1> QED
  BY <1>2, <1>12, <1>13

-----------------------------------------------------------------------------
(* One joint in the world *)

\* A motion in a frame, as the base sees it when the frame is still.
World(frame, m) ==
  [p |-> add(frame.translation, rotate(frame.rotation, m.p)), v |-> rotate(frame.rotation, m.v),
   a |-> rotate(frame.rotation, m.a), spin |-> rotate(frame.rotation, m.spin)]

LEMMA RotationRules ==
  ASSUME NEW r \in Rotations
  PROVE  /\ \A u \in Vectors : rotate(r, u) \in Vectors
         /\ \A u, v \in Vectors : rotate(r, add(u, v)) = add(rotate(r, u), rotate(r, v))
         /\ \A n \in Int, u \in Vectors : rotate(r, by(n, u)) = by(n, rotate(r, u))
         /\ \A u, v \in Vectors : rotate(r, cross(u, v)) = cross(rotate(r, u), rotate(r, v))
         /\ \A s \in Rotations, u \in Vectors : rotate(multiply(r, s), u) = rotate(r, rotate(s, u))
<1>1. r \in Matrices
  BY MatricesHoldRotations
<1>2. \A u \in Vectors : rotate(r, u) \in Vectors
  BY <1>1, RotateIsLinear, 0 \in Int
<1>3. \A u, v \in Vectors : rotate(r, add(u, v)) = add(rotate(r, u), rotate(r, v))
  BY <1>1, RotateIsLinear, 0 \in Int
<1>4. \A n \in Int, u \in Vectors : rotate(r, by(n, u)) = by(n, rotate(r, u))
  BY <1>1, RotateIsLinear
<1>5. \A u, v \in Vectors : rotate(r, cross(u, v)) = cross(rotate(r, u), rotate(r, v))
  BY RotateCross
<1>6. \A s \in Rotations, u \in Vectors : rotate(multiply(r, s), u) = rotate(r, rotate(s, u))
  BY <1>1, MatricesHoldRotations, RotateProduct
<1> QED
  BY <1>2, <1>3, <1>4, <1>5, <1>6

LEMMA WorldIsMotion ==
  ASSUME NEW frame \in Poses, NEW m \in Motions
  PROVE  World(frame, m) \in Motions
<1>1. frame.rotation \in Rotations /\ frame.translation \in Vectors
  BY DEF Poses
<1>2. m.p \in Vectors /\ m.v \in Vectors /\ m.a \in Vectors /\ m.spin \in Vectors
  BY DEF Motions
<1>3. \A u \in Vectors : rotate(frame.rotation, u) \in Vectors
  BY <1>1, RotationRules
<1>4. add(frame.translation, rotate(frame.rotation, m.p)) \in Vectors
  BY <1>1, <1>2, <1>3, VectorsClosed, 0 \in Int
<1> QED
  BY <1>2, <1>3, <1>4 DEF World, Motions

\* What one joint adds to a motion, in the axis and from the origin kept of it.
Adds(near, far, kept, rate, acceleration) ==
  LET arm == cross(kept.axis, sub(far.p, kept.position)) IN
  /\ near.p = far.p
  /\ kept.translates =>
       /\ near.v = add(far.v, by(rate, kept.axis)) /\ near.a = add(far.a, by(acceleration, kept.axis))
       /\ near.spin = far.spin
  /\ ~kept.translates =>
       /\ near.v = add(far.v, by(rate, arm)) /\ near.spin = add(far.spin, by(rate, kept.axis))
       /\ near.a = add(far.a, add(by(2 * rate, cross(kept.axis, far.v)),
                     add(by(acceleration, arm), by(rate * rate, cross(kept.axis, arm)))))

LEMMA RotatedMultiple ==
  ASSUME NEW r \in Rotations, NEW u \in Vectors, NEW n \in Int
  PROVE  rotate(r, by(n, u)) = by(n, rotate(r, u))
BY RotationRules

LEMMA JointStep ==
  ASSUME NEW running \in Poses, NEW joint \in Built, NEW value \in Int, NEW rate \in Int, NEW acceleration \in Int,
         NEW m \in Motions
  PROVE  LET placed == compose(running, joint.rotation, joint.translation)
             near == World(running, SeenThrough(joint, value, rate, acceleration, m))
             far == World(Moved(placed, joint, value), m)
         IN  /\ ~Moves(joint) => near = far
             /\ Moves(joint) => Adds(near, far, Captured(placed, joint), rate, acceleration)
<1> DEFINE placed == compose(running, joint.rotation, joint.translation)
           seen == SeenThrough(joint, value, rate, acceleration, m)
           near == World(running, seen)
           far == World(Moved(placed, joint, value), m)
           kept == Captured(placed, joint)
           P == running.rotation
           o == running.translation
           R == joint.rotation
           t == joint.translation
           Q == placed.rotation
           d == placed.translation
           axis == joint.axis
           w == rotate(Q, axis)
<1>1. P \in Rotations /\ o \in Vectors /\ R \in Rotations /\ t \in Vectors /\ axis \in Vectors
  BY BuiltParts DEF Poses
<1>2. Q = multiply(P, R) /\ d = add(o, rotate(P, t)) /\ placed \in Poses /\ placed = [rotation |-> Q, translation |-> d]
  BY PosesStay, 0 \in Int DEF compose
<1>3. Q \in Rotations /\ d \in Vectors
  BY <1>2 DEF Poses
<1>4. kept.axis = w /\ kept.position = d /\ kept.translates = (joint.kind = "translating")
  BY DEF Captured
<1>5. m.p \in Vectors /\ m.v \in Vectors /\ m.a \in Vectors /\ m.spin \in Vectors
  BY DEF Motions
<1>6. near = [p |-> add(o, rotate(P, seen.p)), v |-> rotate(P, seen.v), a |-> rotate(P, seen.a),
              spin |-> rotate(P, seen.spin)]
  BY DEF World
<1>7. \A u \in Vectors : rotate(P, rotate(R, u)) = rotate(Q, u)
  <2> HIDE DEF P, R, Q, placed
  <2> QED
    BY <1>1, <1>2, RotationRules
<1>8. \A u \in Vectors : add(o, rotate(P, add(t, rotate(R, u)))) = add(d, rotate(Q, u))
  <2> SUFFICES ASSUME NEW u \in Vectors PROVE add(o, rotate(P, add(t, rotate(R, u)))) = add(d, rotate(Q, u))
    OBVIOUS
  <2> HIDE DEF P, R, Q, o, t, d, placed
  <2>1. rotate(R, u) \in Vectors /\ rotate(P, t) \in Vectors /\ rotate(Q, u) \in Vectors
    BY <1>1, <1>3, RotationRules
  <2>2. rotate(P, add(t, rotate(R, u))) = add(rotate(P, t), rotate(Q, u))
    BY <1>1, <1>7, <2>1, RotationRules
  <2>3. add(o, add(rotate(P, t), rotate(Q, u))) = add(add(o, rotate(P, t)), rotate(Q, u))
    BY <1>1, <2>1, SumRules
  <2> QED
    BY <1>2, <2>2, <2>3
<1>9. w \in Vectors
  BY <1>1, <1>3, RotationRules
<1>10. CASE joint.kind = "fixed"
  <2>1. Moved(placed, joint, value) = placed /\ ~Moves(joint)
    BY <1>10 DEF Moved, Moves
  <2>2. seen = [p |-> add(t, rotate(R, m.p)), v |-> rotate(R, m.v), a |-> rotate(R, m.a), spin |-> rotate(R, m.spin)]
    BY <1>10, SeenThroughFixed
  <2>3. far = [p |-> add(d, rotate(Q, m.p)), v |-> rotate(Q, m.v), a |-> rotate(Q, m.a), spin |-> rotate(Q, m.spin)]
    BY <2>1 DEF World
  <2> HIDE DEF seen, placed, near, far, P, o, R, t, Q, d, axis, w, kept
  <2>4. near = [p |-> add(o, rotate(P, add(t, rotate(R, m.p)))), v |-> rotate(P, rotate(R, m.v)),
                a |-> rotate(P, rotate(R, m.a)), spin |-> rotate(P, rotate(R, m.spin))]
    BY <1>6, <2>2
  <2>5. near = far
    BY <1>5, <1>7, <1>8, <2>3, <2>4
  <2> QED
    BY <2>1, <2>5 DEF near, far, seen, placed
<1>11. CASE joint.kind = "translating"
  <2> DEFINE slid == by(value, w)
  <2>1. Moved(placed, joint, value) = [rotation |-> Q, translation |-> add(d, slid)] /\ Moves(joint)
    BY <1>2, <1>11 DEF Moved, Moves
  <2>2. seen = [p |-> add(t, rotate(R, add(m.p, by(value, axis)))), v |-> rotate(R, add(m.v, by(rate, axis))),
                a |-> rotate(R, add(m.a, by(acceleration, axis))), spin |-> rotate(R, m.spin)]
    BY <1>11 DEF SeenThrough
  <2>3. far = [p |-> add(add(d, slid), rotate(Q, m.p)), v |-> rotate(Q, m.v), a |-> rotate(Q, m.a),
               spin |-> rotate(Q, m.spin)]
    BY <2>1 DEF World
  <2>4. kept.translates
    BY <1>4, <1>11
  <2> HIDE DEF seen, placed, near, far, P, o, R, t, Q, d, kept
  <2>5. near = [p |-> add(o, rotate(P, add(t, rotate(R, add(m.p, by(value, axis)))))),
                v |-> rotate(P, rotate(R, add(m.v, by(rate, axis)))),
                a |-> rotate(P, rotate(R, add(m.a, by(acceleration, axis)))), spin |-> rotate(P, rotate(R, m.spin))]
    BY <1>6, <2>2
  <2>6. ASSUME NEW n \in Int, NEW u \in Vectors
        PROVE  add(u, by(n, axis)) \in Vectors /\ rotate(Q, add(u, by(n, axis))) = add(rotate(Q, u), by(n, w))
    <3>1. by(n, axis) \in Vectors
      BY <1>1, VectorsClosed
    <3>2. rotate(Q, by(n, axis)) = by(n, w)
      BY <1>1, <1>3, RotatedMultiple DEF w
    <3> QED
      BY <1>3, <3>1, <3>2, RotationRules, VectorsClosed
  <2> HIDE DEF axis, w
  <2>7. near.v = add(far.v, by(rate, w)) /\ near.a = add(far.a, by(acceleration, w)) /\ near.spin = far.spin
    BY <1>5, <1>7, <2>3, <2>5, <2>6
  <2>8. near.p = far.p
    <3>1. near.p = add(d, rotate(Q, add(m.p, by(value, axis))))
      BY <1>5, <1>8, <2>5, <2>6
    <3>2. near.p = add(d, add(rotate(Q, m.p), slid))
      BY <1>5, <2>6, <3>1
    <3>3. rotate(Q, m.p) \in Vectors /\ slid \in Vectors
      BY <1>3, <1>5, <1>9, RotationRules, VectorsClosed
    <3> HIDE DEF slid
    <3>4. add(d, add(rotate(Q, m.p), slid)) = add(add(d, slid), rotate(Q, m.p))
      BY <1>3, <3>3, SumRules
    <3> QED
      BY <2>3, <3>2, <3>4
  <2>9. Adds(near, far, kept, rate, acceleration)
    BY <1>4, <2>4, <2>7, <2>8 DEF Adds
  <2> QED
    BY <2>1, <2>9 DEF near, far, seen, kept, placed
<1>12. CASE joint.kind = "rotating"
  <2> DEFINE A == axis_rotation(axis, value)
             swing == cross(axis, rotate(A, m.p))
             arm == cross(w, sub(far.p, d))
  <2>1. Moved(placed, joint, value) = [rotation |-> multiply(Q, A), translation |-> d] /\ Moves(joint)
    BY <1>2, <1>12 DEF Moved, Moves
  <2>2. seen = [p |-> add(t, rotate(R, rotate(A, m.p))),
                v |-> rotate(R, add(rotate(A, m.v), by(rate, swing))),
                a |-> rotate(R, add(rotate(A, m.a), add(by(2 * rate, cross(axis, rotate(A, m.v))),
                        add(by(acceleration, swing), by(rate * rate, cross(axis, swing)))))),
                spin |-> rotate(R, add(rotate(A, m.spin), by(rate, axis)))]
    BY <1>12, SeenThroughRotating
  <2>3. far = [p |-> add(d, rotate(multiply(Q, A), m.p)), v |-> rotate(multiply(Q, A), m.v),
               a |-> rotate(multiply(Q, A), m.a), spin |-> rotate(multiply(Q, A), m.spin)]
    BY <2>1 DEF World
  <2>4. ~kept.translates
    BY <1>4, <1>12
  <2>5. A \in Rotations
    BY <1>12, BuiltParts, TurnsAreRotations
  <2> HIDE DEF seen, placed, near, far, P, o, R, t, Q, d, kept, A
  <2>6. \A u \in Vectors : rotate(A, u) \in Vectors /\ rotate(multiply(Q, A), u) = rotate(Q, rotate(A, u))
    BY <1>3, <2>5, RotationRules
  <2> DEFINE p1 == rotate(A, m.p)
             v1 == rotate(A, m.v)
             a1 == rotate(A, m.a)
             s1 == rotate(A, m.spin)
             turned == cross(axis, v1)
             inward == cross(axis, swing)
             whole == add(by(2 * rate, turned), add(by(acceleration, swing), by(rate * rate, inward)))
  <2>7. p1 \in Vectors /\ v1 \in Vectors /\ a1 \in Vectors /\ s1 \in Vectors
    BY <1>5, <2>6
  <2>8. far = [p |-> add(d, rotate(Q, p1)), v |-> rotate(Q, v1), a |-> rotate(Q, a1), spin |-> rotate(Q, s1)]
    BY <1>5, <2>3, <2>6
  <2>9. near = [p |-> add(o, rotate(P, add(t, rotate(R, p1)))), v |-> rotate(P, rotate(R, add(v1, by(rate, swing)))),
                a |-> rotate(P, rotate(R, add(a1, whole))), spin |-> rotate(P, rotate(R, add(s1, by(rate, axis))))]
    BY <1>6, <2>2
  <2> HIDE DEF p1, v1, a1, s1, axis, w
  <2>10. swing \in Vectors /\ turned \in Vectors
    BY <1>1, <2>7, VectorsClosed, 0 \in Int DEF p1
  <2>11. rotate(Q, swing) = cross(w, rotate(Q, p1)) /\ rotate(Q, turned) = cross(w, rotate(Q, v1))
    BY <1>1, <1>3, <2>7, RotationRules DEF w, p1
  <2> HIDE DEF swing
  <2>12. inward \in Vectors /\ rotate(Q, inward) = cross(w, rotate(Q, swing))
    <3>1. inward \in Vectors
      BY <1>1, <2>10, VectorsClosed, 0 \in Int
    <3>2. rotate(Q, cross(axis, swing)) = cross(w, rotate(Q, swing))
      BY <1>1, <1>3, <2>10, RotationRules DEF w
    <3> QED
      BY <3>1, <3>2
  <2> HIDE DEF turned, inward
  <2>13. arm = rotate(Q, swing)
    <3>1. far.p = add(d, rotate(Q, p1))
      BY <2>8
    <3>2. rotate(Q, p1) \in Vectors
      BY <1>3, <2>7, RotationRules
    <3>3. sub(add(d, rotate(Q, p1)), d) = rotate(Q, p1)
      BY <1>3, <3>2, SumRules
    <3> QED
      BY <2>11, <3>1, <3>3
  <2>14. near.p = far.p
    BY <1>8, <2>7, <2>8, <2>9
  <2>15. near.v = add(far.v, by(rate, arm))
    <3>1. by(rate, swing) \in Vectors /\ rotate(Q, by(rate, swing)) = by(rate, rotate(Q, swing))
      BY <1>3, <2>10, RotationRules, VectorsClosed
    <3>2. add(v1, by(rate, swing)) \in Vectors
      BY <2>7, <3>1, VectorsClosed, 0 \in Int
    <3>3. near.v = rotate(Q, add(v1, by(rate, swing)))
      BY <1>7, <2>9, <3>2
    <3>4. near.v = add(rotate(Q, v1), by(rate, rotate(Q, swing)))
      BY <1>3, <2>7, <3>1, <3>3, RotationRules
    <3> QED
      BY <2>8, <2>13, <3>4
  <2>16. near.spin = add(far.spin, by(rate, w))
    <3>1. by(rate, axis) \in Vectors /\ rotate(Q, by(rate, axis)) = by(rate, w)
      <4>1. by(rate, axis) \in Vectors
        BY <1>1, VectorsClosed
      <4>2. rotate(Q, by(rate, axis)) = by(rate, w)
        BY <1>1, <1>3, RotatedMultiple DEF w
      <4> QED
        BY <4>1, <4>2
    <3>2. add(s1, by(rate, axis)) \in Vectors
      BY <2>7, <3>1, VectorsClosed, 0 \in Int
    <3>3. near.spin = rotate(Q, add(s1, by(rate, axis)))
      BY <1>7, <2>9, <3>2
    <3>4. near.spin = add(rotate(Q, s1), by(rate, w))
      BY <1>3, <2>7, <3>1, <3>3, RotationRules
    <3> QED
      BY <2>8, <3>4
  <2>17. near.a = add(far.a, add(by(2 * rate, cross(w, far.v)), add(by(acceleration, arm), by(rate * rate, cross(w, arm)))))
    <3> DEFINE x == by(2 * rate, turned)
               y == by(acceleration, swing)
               z == by(rate * rate, inward)
    <3>1. x \in Vectors /\ rotate(Q, x) = by(2 * rate, rotate(Q, turned))
      <4>1. 2 * rate \in Int
        OBVIOUS
      <4> QED
        BY <1>3, <2>10, <4>1, RotationRules, VectorsClosed
    <3>2. y \in Vectors /\ rotate(Q, y) = by(acceleration, rotate(Q, swing))
      BY <1>3, <2>10, RotationRules, VectorsClosed
    <3>3. z \in Vectors /\ rotate(Q, z) = by(rate * rate, rotate(Q, inward))
      <4>1. rate * rate \in Int
        OBVIOUS
      <4> QED
        BY <1>3, <2>12, <4>1, RotationRules, VectorsClosed
    <3>4. whole = add(x, add(y, z))
      OBVIOUS
    <3> HIDE DEF x, y, z, whole
    <3>5. add(y, z) \in Vectors /\ whole \in Vectors /\ add(a1, whole) \in Vectors
      BY <2>7, <3>1, <3>2, <3>3, <3>4, VectorsClosed, 0 \in Int
    <3>6. near.a = rotate(Q, add(a1, whole))
      BY <1>7, <2>9, <3>5
    <3>7. near.a = add(rotate(Q, a1), add(rotate(Q, x), add(rotate(Q, y), rotate(Q, z))))
      BY <1>3, <2>7, <3>1, <3>2, <3>3, <3>4, <3>5, <3>6, RotationRules
    <3> QED
      BY <2>8, <2>11, <2>12, <2>13, <3>1, <3>2, <3>3, <3>7
  <2> HIDE DEF arm
  <2>18. Adds(near, far, kept, rate, acceleration)
    BY <1>4, <2>4, <2>14, <2>15, <2>16, <2>17 DEF Adds, arm
  <2> QED
    BY <2>1, <2>18 DEF near, far, seen, kept, placed
<1> QED
  BY <1>10, <1>11, <1>12, BuiltParts

-----------------------------------------------------------------------------
(* One joint of the loop *)

LEMMA SumsMove ==
  ASSUME NEW a \in Vectors, NEW b \in Vectors, NEW c \in Vectors, NEW d \in Vectors, NEW e \in Vectors
  PROVE  /\ add(a, add(b, c)) = add(add(a, c), b)
         /\ add(add(a, add(b, c)), add(d, e)) = add(a, add(add(d, b), add(e, c)))
         /\ add(add(sub(a, c), d), sub(b, e)) = add(sub(add(a, b), add(c, e)), d)
         /\ sub(add(add(sub(a, c), d), e), add(sub(b, c), d)) = add(e, sub(a, b))
<1>1. /\ a[1] \in Int /\ a[2] \in Int /\ a[3] \in Int /\ b[1] \in Int /\ b[2] \in Int /\ b[3] \in Int
      /\ c[1] \in Int /\ c[2] \in Int /\ c[3] \in Int /\ d[1] \in Int /\ d[2] \in Int /\ d[3] \in Int
      /\ e[1] \in Int /\ e[2] \in Int /\ e[3] \in Int
  BY VectorParts
<1>2. \A u, v \in Vectors : sub(u, v) = <<u[1] - v[1], u[2] - v[2], u[3] - v[3]>>
  <2> SUFFICES ASSUME NEW u \in Vectors, NEW v \in Vectors PROVE sub(u, v) = <<u[1] - v[1], u[2] - v[2], u[3] - v[3]>>
    OBVIOUS
  <2>1. sub(u, v) \in Vectors
    BY VectorsClosed, 0 \in Int
  <2>2. sub(u, v) = <<sub(u, v)[1], sub(u, v)[2], sub(u, v)[3]>>
    BY <2>1, VectorParts
  <2>3. sub(u, v)[1] = u[1] - v[1] /\ sub(u, v)[2] = u[2] - v[2] /\ sub(u, v)[3] = u[3] - v[3]
    BY PartsOf, 0 \in Int
  <2> QED
    BY <2>2, <2>3
<1>3. add(a, add(b, c)) = add(add(a, c), b)
  BY <1>1 DEF add
<1>5. add(add(a, add(b, c)), add(d, e)) = add(a, add(add(d, b), add(e, c)))
  BY <1>1 DEF add
<1>6. /\ sub(a, c) = <<a[1] - c[1], a[2] - c[2], a[3] - c[3]>>
      /\ sub(b, e) = <<b[1] - e[1], b[2] - e[2], b[3] - e[3]>>
      /\ sub(b, c) = <<b[1] - c[1], b[2] - c[2], b[3] - c[3]>>
      /\ sub(a, b) = <<a[1] - b[1], a[2] - b[2], a[3] - b[3]>>
  BY <1>2
<1>7. add(add(sub(a, c), d), sub(b, e)) = add(sub(add(a, b), add(c, e)), d)
  <2> DEFINE x == add(a, b)
             y == add(c, e)
  <2>1. x \in Vectors /\ y \in Vectors
    BY VectorsClosed, 0 \in Int
  <2>2. x = <<a[1] + b[1], a[2] + b[2], a[3] + b[3]>> /\ y = <<c[1] + e[1], c[2] + e[2], c[3] + e[3]>>
    BY DEF add
  <2> HIDE DEF x, y
  <2>3. sub(x, y) = <<x[1] - y[1], x[2] - y[2], x[3] - y[3]>>
    BY <1>2, <2>1
  <2>4. add(add(sub(a, c), d), sub(b, e)) = add(sub(x, y), d)
    BY <1>1, <1>6, <2>2, <2>3 DEF add
  <2> QED
    BY <2>4 DEF x, y
<1>8. sub(add(add(sub(a, c), d), e), add(sub(b, c), d)) = add(e, sub(a, b))
  <2> DEFINE x == add(add(sub(a, c), d), e)
             y == add(sub(b, c), d)
  <2>1. x \in Vectors /\ y \in Vectors
    BY VectorsClosed, 0 \in Int
  <2>2. /\ x = <<(a[1] - c[1]) + d[1] + e[1], (a[2] - c[2]) + d[2] + e[2], (a[3] - c[3]) + d[3] + e[3]>>
        /\ y = <<(b[1] - c[1]) + d[1], (b[2] - c[2]) + d[2], (b[3] - c[3]) + d[3]>>
    BY <1>6 DEF add
  <2> HIDE DEF x, y
  <2>3. sub(x, y) = <<x[1] - y[1], x[2] - y[2], x[3] - y[3]>>
    BY <1>2, <2>1
  <2>4. sub(x, y) = add(e, sub(a, b))
    BY <1>1, <1>6, <2>2, <2>3 DEF add
  <2> QED
    BY <2>4 DEF x, y
<1> QED
  BY <1>3, <1>5, <1>7, <1>8

LEMMA LastSwapped ==
  ASSUME NEW a \in Vectors, NEW b \in Vectors, NEW c \in Vectors
  PROVE  add(a, add(b, c)) = add(add(a, c), b)
BY SumsMove

LEMMA PairsSwapped ==
  ASSUME NEW a \in Vectors, NEW b \in Vectors, NEW c \in Vectors, NEW d \in Vectors, NEW e \in Vectors
  PROVE  add(add(a, add(b, c)), add(d, e)) = add(a, add(add(d, b), add(e, c)))
BY SumsMove

FiveVectors(a, b, c, d, e) == {a, b, c, d, e} \subseteq Vectors

LEMMA DifferencesAdded ==
  ASSUME NEW a, NEW b, NEW c, NEW d, NEW e, FiveVectors(a, b, c, d, e)
  PROVE  add(add(sub(a, c), d), sub(b, e)) = add(sub(add(a, b), add(c, e)), d)
<1>1. a \in Vectors /\ b \in Vectors /\ c \in Vectors /\ d \in Vectors /\ e \in Vectors
  BY DEF FiveVectors
<1> QED
  BY <1>1, SumsMove

LEMMA DifferenceOfDifferences ==
  ASSUME NEW a \in Vectors, NEW b \in Vectors, NEW c \in Vectors, NEW d \in Vectors, NEW e \in Vectors
  PROVE  sub(add(add(sub(a, c), d), e), add(sub(b, c), d)) = add(e, sub(a, b))
BY SumsMove

LoopSide(z, A, arm, e, f, g, h, n, m) ==
  add(add(z, add(by(n, add(e, add(f, by(n, g)))), by(m, arm))), add(add(h, by(n, f)), A))
JointSide(z, A, arm, e, f, g, h, n, m) ==
  add(z, add(add(h, by(n, e)), add(A, add(by(2 * n, f), add(by(m, arm), by(n * n, g))))))

AllVectors(z, A, arm, e, f, g, h, n, m) ==
  {z, A, arm, e, f, g, h} \subseteq Vectors /\ n \in Int /\ m \in Int

\* What the loop adds for a rotating joint is what the joint adds.
LEMMA AccelerationsMeet ==
  ASSUME NEW z, NEW A, NEW arm, NEW e, NEW f, NEW g, NEW h, NEW n, NEW m, AllVectors(z, A, arm, e, f, g, h, n, m)
  PROVE  LoopSide(z, A, arm, e, f, g, h, n, m) = JointSide(z, A, arm, e, f, g, h, n, m)
<1>1. /\ z[1] \in Int /\ z[2] \in Int /\ z[3] \in Int /\ A[1] \in Int /\ A[2] \in Int /\ A[3] \in Int
      /\ arm[1] \in Int /\ arm[2] \in Int /\ arm[3] \in Int /\ e[1] \in Int /\ e[2] \in Int /\ e[3] \in Int
      /\ f[1] \in Int /\ f[2] \in Int /\ f[3] \in Int /\ g[1] \in Int /\ g[2] \in Int /\ g[3] \in Int
      /\ h[1] \in Int /\ h[2] \in Int /\ h[3] \in Int
  BY VectorParts DEF AllVectors
<1>0. n \in Int /\ m \in Int
  BY DEF AllVectors
<1>2. \A p, q, r, s, t, u, w \in Int :
        (p + (n * (s + (t + n * u)) + m * r)) + ((w + n * t) + q)
          = p + ((w + n * s) + (q + ((2 * n) * t + (m * r + (n * n) * u))))
  BY <1>0
<1> DEFINE left(k) == (z[k] + (n * (e[k] + (f[k] + n * g[k])) + m * arm[k])) + ((h[k] + n * f[k]) + A[k])
           right(k) == z[k] + ((h[k] + n * e[k]) + (A[k] + ((2 * n) * f[k] + (m * arm[k] + (n * n) * g[k]))))
<1>3. ASSUME NEW k \in 1..3 PROVE left(k) = right(k)
  <2> DEFINE p == z[k]
             q == A[k]
             r == arm[k]
             s == e[k]
             t == f[k]
             u == g[k]
             w == h[k]
  <2>1. p \in Int /\ q \in Int /\ r \in Int /\ s \in Int /\ t \in Int /\ u \in Int /\ w \in Int
    <3>1. k = 1 \/ k = 2 \/ k = 3
      OBVIOUS
    <3> QED
      BY <1>1, <3>1
  <2> HIDE DEF p, q, r, s, t, u, w
  <2>2. (p + (n * (s + (t + n * u)) + m * r)) + ((w + n * t) + q)
          = p + ((w + n * s) + (q + ((2 * n) * t + (m * r + (n * n) * u))))
    BY <1>0, <2>1
  <2> QED
    BY <2>2 DEF p, q, r, s, t, u, w
<1>4. add(add(z, add(by(n, add(e, add(f, by(n, g)))), by(m, arm))), add(add(h, by(n, f)), A))
        = <<left(1), left(2), left(3)>>
  BY DEF add, by
<1>5. add(z, add(add(h, by(n, e)), add(A, add(by(2 * n, f), add(by(m, arm), by(n * n, g))))))
        = <<right(1), right(2), right(3)>>
  BY DEF add, by
<1>6. left(1) = right(1) /\ left(2) = right(2) /\ left(3) = right(3)
  <2>1. 1 \in 1..3 /\ 2 \in 1..3 /\ 3 \in 1..3
    OBVIOUS
  <2> HIDE DEF left, right
  <2> QED
    BY <1>3, <2>1
<1> HIDE DEF left, right
<1> QED
  BY <1>4, <1>5, <1>6 DEF LoopSide, JointSide

\* One joint of the loop leaves the sums of what is behind it and what is ahead of it as they were.
LEMMA LoopStepKeeps ==
  ASSUME NEW p_e \in Vectors, NEW v \in Vectors, NEW x \in LoopStates, NEW joint \in Kept,
         NEW rate \in Int, NEW acceleration \in Int, NEW near \in Motions, NEW far \in Motions,
         Adds(near, far, joint, rate, acceleration), far.p = p_e, NEW T \in Vectors,
         v = add(T, near.v), T = add(sub(cross(x.omega, p_e), x.c), x.t)
  PROVE  LET y == loop_step(p_e, v, x, joint, rate, acceleration)
             U == add(T, by(rate, linear_column(joint, p_e)))
         IN  /\ v = add(U, far.v)
             /\ U = add(sub(cross(y.omega, p_e), y.c), y.t)
             /\ add(y.dv, add(cross(y.omega, far.v), far.a)) = add(x.dv, add(cross(x.omega, near.v), near.a))
<1> DEFINE a == joint.axis
           d == joint.position
           omega == x.omega
           V == far.v
           A == far.a
           z == x.dv
           c == x.c
           t == x.t
           y == loop_step(p_e, v, x, joint, rate, acceleration)
           U == add(T, by(rate, linear_column(joint, p_e)))
<1>1. a \in Vectors /\ d \in Vectors /\ joint.translates \in BOOLEAN
  BY ColumnsAreVectors
<1>2. /\ omega \in Vectors /\ z \in Vectors /\ c \in Vectors /\ t \in Vectors
      /\ V \in Vectors /\ A \in Vectors /\ near.v \in Vectors
  BY DEF LoopStates, Motions
<1>3. \A u, w \in Vectors : add(u, w) \in Vectors /\ sub(u, w) \in Vectors /\ cross(u, w) \in Vectors
  BY VectorsClosed, 0 \in Int
<1>4. \A n \in Int, u \in Vectors : by(n, u) \in Vectors
  BY VectorsClosed
<1>5. CASE joint.translates
  <2> DEFINE ra == by(rate, a)
             h == cross(omega, V)
             rd == by(rate, cross(omega, a))
             aa == by(acceleration, a)
  <2>1. linear_column(joint, p_e) = a
    BY <1>5 DEF linear_column
  <2>2. y = [x EXCEPT !.dv = add(z, add(rd, aa)), !.t = add(t, ra)]
    BY <1>5, <2>1 DEF loop_step, LoopStates
  <2>3. y.dv = add(z, add(rd, aa)) /\ y.t = add(t, ra) /\ y.omega = omega /\ y.c = c
    BY <2>2 DEF LoopStates
  <2>4. near.v = add(V, ra) /\ near.a = add(A, aa)
    BY <1>5 DEF Adds
  <2>5. U = add(T, ra)
    BY <2>1
  <2>6. ra \in Vectors /\ aa \in Vectors /\ rd \in Vectors /\ h \in Vectors
    BY <1>1, <1>2, <1>3, <1>4
  <2>7. cross(omega, add(V, ra)) = add(h, rd)
    <3>1. cross(omega, ra) = rd
      BY <1>1, <1>2, CrossOfMultiple
    <3> QED
      BY <1>2, <2>6, <3>1, CrossOfSum
  <2> HIDE DEF y, U, ra, aa, rd, h, a, d, V, A, omega, z, c, t
  <2>8. v = add(U, V)
    BY <1>2, <2>4, <2>5, <2>6, LastSwapped
  <2>9. U = add(sub(cross(y.omega, p_e), y.c), y.t)
    <3> DEFINE s == sub(cross(omega, p_e), c)
    <3>1. s \in Vectors
      BY <1>2, <1>3
    <3>2. T = add(s, t)
      BY DEF omega, c, t
    <3> HIDE DEF s
    <3>3. add(add(s, t), ra) = add(s, add(t, ra))
      BY <1>2, <2>6, <3>1, SumRules
    <3> QED
      BY <2>3, <2>5, <3>2, <3>3 DEF s
  <2>10. add(y.dv, add(cross(y.omega, V), A)) = add(z, add(cross(omega, near.v), near.a))
    <3>1. add(add(z, add(rd, aa)), add(h, A)) = add(z, add(add(h, rd), add(A, aa)))
      <4>1. z \in Vectors /\ rd \in Vectors /\ aa \in Vectors /\ h \in Vectors /\ A \in Vectors
        BY <1>2, <2>6
      <4> QED
        BY <4>1, PairsSwapped
    <3> QED
      BY <2>3, <2>4, <2>7, <3>1 DEF h
  <2> QED
    BY <2>8, <2>9, <2>10 DEF y, U, V, A, omega, z, c, t
<1>6. CASE ~joint.translates
  <2> DEFINE ra == by(rate, a)
             r == sub(p_e, d)
             arm == cross(a, r)
             v_point == add(sub(cross(omega, d), c), t)
             d_col == add(cross(cross(omega, a), r), cross(a, sub(v, v_point)))
             e == cross(omega, arm)
             f == cross(a, V)
             g == cross(a, arm)
             h == cross(omega, V)
  <2>1. linear_column(joint, p_e) = arm
    BY <1>6 DEF linear_column
  <2>2. y = [x EXCEPT !.dv = add(z, add(by(rate, d_col), by(acceleration, arm))), !.omega = add(omega, ra),
                      !.c = add(c, cross(ra, d))]
    BY <1>6, <2>1 DEF loop_step, LoopStates
  <2>3. /\ y.dv = add(z, add(by(rate, d_col), by(acceleration, arm))) /\ y.t = t
        /\ y.omega = add(omega, ra) /\ y.c = add(c, cross(ra, d))
    BY <2>2 DEF LoopStates
  <2>4. /\ near.v = add(V, by(rate, arm))
        /\ near.a = add(A, add(by(2 * rate, f), add(by(acceleration, arm), by(rate * rate, g))))
    BY <1>6 DEF Adds
  <2>5. U = add(T, by(rate, arm))
    BY <2>1
  <2> HIDE DEF y, U, a, d, V, A, omega, z, c, t
  <2>6. ra \in Vectors /\ r \in Vectors /\ arm \in Vectors /\ by(rate, arm) \in Vectors
    BY <1>1, <1>2, <1>3, <1>4
  <2>7. e \in Vectors /\ f \in Vectors /\ g \in Vectors /\ h \in Vectors
    <3> HIDE DEF arm
    <3> QED
      BY <1>1, <1>2, <1>3, <2>6
  <2>8. v = add(U, V)
    <3> DEFINE rarm == by(rate, arm)
    <3>1. rarm \in Vectors /\ near.v = add(V, rarm) /\ U = add(T, rarm)
      BY <2>4, <2>5, <2>6
    <3> HIDE DEF rarm
    <3>2. add(T, add(V, rarm)) = add(add(T, rarm), V)
      BY <1>2, <3>1, LastSwapped
    <3> QED
      BY <3>1, <3>2
  <2>9. U = add(sub(cross(y.omega, p_e), y.c), y.t)
    <3> DEFINE alpha == cross(ra, p_e)
               beta == cross(ra, d)
               w == cross(omega, p_e)
    <3>1. alpha \in Vectors /\ beta \in Vectors /\ w \in Vectors
      BY <1>1, <1>2, <1>3, <2>6
    <3>2. cross(add(omega, ra), p_e) = add(w, alpha)
      BY <1>2, <2>6, CrossOfSum
    <3>3. by(rate, arm) = sub(alpha, beta)
      <4>1. by(rate, arm) = cross(ra, r)
        BY <1>1, <2>6, CrossOfMultiple
      <4>2. by(-1, d) \in Vectors /\ r = add(p_e, by(-1, d))
        BY <1>1, <1>4 DEF sub
      <4>3. cross(ra, by(-1, d)) = by(-1, beta)
        <5>1. ra \in Vectors /\ d \in Vectors /\ -1 \in Int
          BY <1>1, <2>6
        <5> HIDE DEF ra
        <5> QED
          BY <5>1, CrossOfMultiple
      <4> HIDE DEF ra, r, arm
      <4>4. cross(ra, r) = add(alpha, by(-1, beta))
        BY <2>6, <4>2, <4>3, CrossOfSum
      <4> QED
        BY <4>1, <4>4 DEF sub
    <3> HIDE DEF alpha, beta, w, arm
    <3>4. T = add(sub(w, c), t)
      BY DEF w, omega, c, t
    <3>5. add(add(sub(w, c), t), sub(alpha, beta)) = add(sub(add(w, alpha), add(c, beta)), t)
      <4>1. FiveVectors(w, alpha, c, t, beta)
        BY <1>2, <3>1 DEF FiveVectors
      <4> QED
        BY <4>1, DifferencesAdded
    <3> QED
      BY <2>3, <2>5, <3>2, <3>3, <3>4, <3>5 DEF beta
  <2>10. d_col = add(e, add(f, by(rate, g)))
    <3> DEFINE wp == cross(omega, p_e)
               wd == cross(omega, d)
               wr == cross(omega, r)
               rarm == by(rate, arm)
    <3>1. wp \in Vectors /\ wd \in Vectors /\ wr \in Vectors /\ rarm \in Vectors
      BY <1>1, <1>2, <1>3, <2>6
    <3>2. sub(wp, wd) = wr
      <4>1. by(-1, d) \in Vectors /\ r = add(p_e, by(-1, d))
        BY <1>1, <1>4 DEF sub
      <4>2. cross(omega, by(-1, d)) = by(-1, wd)
        <5>1. -1 \in Int
          OBVIOUS
        <5> QED
          BY <1>1, <1>2, <5>1, CrossOfMultiple
      <4> HIDE DEF r
      <4>3. wr = add(wp, by(-1, wd))
        BY <1>2, <4>1, <4>2, CrossOfSum
      <4> QED
        BY <4>3 DEF sub
    <3>3. v = add(add(sub(wp, c), t), near.v) /\ v_point = add(sub(wd, c), t)
      BY DEF omega, c, t
    <3> HIDE DEF wp, wd, wr, rarm, arm, r
    <3>4. sub(v, v_point) = add(near.v, wr)
      <4>1. sub(add(add(sub(wp, c), t), near.v), add(sub(wd, c), t)) = add(near.v, sub(wp, wd))
        <5> DEFINE nv == near.v
        <5>1. wp \in Vectors /\ wd \in Vectors /\ c \in Vectors /\ t \in Vectors /\ nv \in Vectors
          BY <1>2, <3>1
        <5> HIDE DEF nv
        <5>2. sub(add(add(sub(wp, c), t), nv), add(sub(wd, c), t)) = add(nv, sub(wp, wd))
          BY <5>1, DifferenceOfDifferences
        <5> QED
          BY <5>2 DEF nv
      <4> QED
        BY <3>2, <3>3, <4>1
    <3>5. cross(a, add(near.v, wr)) = add(cross(a, near.v), cross(a, wr))
      BY <1>1, <1>2, <3>1, CrossOfSum
    <3>6. cross(a, near.v) = add(f, by(rate, g))
      <4>1. cross(a, rarm) = by(rate, g)
        BY <1>1, <2>6, CrossOfMultiple DEF rarm
      <4>2. near.v = add(V, rarm)
        BY <2>4 DEF rarm
      <4> QED
        BY <1>1, <1>2, <3>1, <4>1, <4>2, CrossOfSum
    <3>7. e = add(cross(cross(omega, a), r), cross(a, wr))
      BY <1>1, <1>2, <2>6, Jacobi DEF arm, wr
    <3> DEFINE k == cross(cross(omega, a), r)
               l == cross(a, wr)
               rg == by(rate, g)
    <3>8. k \in Vectors /\ l \in Vectors /\ rg \in Vectors
      BY <1>1, <1>2, <1>3, <1>4, <2>6, <2>7, <3>1
    <3>9. d_col = add(k, add(add(f, rg), l))
      BY <3>4, <3>5, <3>6
    <3> HIDE DEF d_col, e, f, k, l, rg
    <3>10. add(k, add(add(f, rg), l)) = add(add(k, l), add(f, rg))
      <4>1. add(f, rg) \in Vectors
        BY <1>3, <2>7, <3>8
      <4> QED
        BY <3>8, <4>1, LastSwapped
    <3> QED
      BY <3>7, <3>9, <3>10 DEF k, l, rg
  <2>11. add(y.dv, add(cross(y.omega, V), A)) = add(z, add(cross(omega, near.v), near.a))
    <3>1. cross(add(omega, ra), V) = add(h, by(rate, f))
      <4>1. cross(ra, V) = by(rate, f)
        BY <1>1, <1>2, CrossOfMultiple
      <4> QED
        BY <1>2, <2>6, <4>1, CrossOfSum
    <3>2. cross(omega, near.v) = add(h, by(rate, e))
      <4> DEFINE rarm == by(rate, arm)
      <4>1. cross(omega, rarm) = by(rate, e)
        BY <1>2, <2>6, CrossOfMultiple
      <4>2. near.v = add(V, rarm) /\ rarm \in Vectors
        BY <2>4, <2>6
      <4> HIDE DEF rarm, arm
      <4> QED
        BY <1>2, <4>1, <4>2, CrossOfSum
    <3> HIDE DEF e, f, g, h, arm, d_col, ra
    <3>3. add(add(z, add(by(rate, add(e, add(f, by(rate, g)))), by(acceleration, arm))), add(add(h, by(rate, f)), A))
            = add(z, add(add(h, by(rate, e)), add(A, add(by(2 * rate, f), add(by(acceleration, arm), by(rate * rate, g))))))
      <4>1. AllVectors(z, A, arm, e, f, g, h, rate, acceleration)
        BY <1>2, <2>6, <2>7 DEF AllVectors
      <4>2. LoopSide(z, A, arm, e, f, g, h, rate, acceleration) = JointSide(z, A, arm, e, f, g, h, rate, acceleration)
        BY <4>1, AccelerationsMeet
      <4> QED
        BY <4>2 DEF LoopSide, JointSide
    <3> QED
      BY <2>3, <2>4, <2>10, <3>1, <3>2, <3>3
  <2> QED
    BY <2>8, <2>9, <2>11 DEF y, U, V, A, omega, z, c, t
<1> QED
  BY <1>1, <1>5, <1>6

-----------------------------------------------------------------------------
(* The whole chain in the world *)

Placed(states, k) == compose(states[k - 1].running, chain[k].rotation, chain[k].translation)

\* What the walk keeps of the joints that move, in their order.
KeptInOrder(rows, states, i) ==
  /\ Len(rows) = MovingBefore(i + 1)
  /\ \A k \in 1..i : Moves(chain[k]) => rows[MovingBefore(k) + 1] = Captured(Placed(states, k), chain[k])

LEMMA WalkKeeps ==
  ASSUME chain \in Seq(Built), NEW last \in 1..Len(chain), NEW q \in [1..dof(chain) -> Int],
         NEW states \in [0..last -> WalkStates], Walks(states, last, q)
  PROVE  KeptInOrder(states[last].joints, states, last)
<1> DEFINE T == {i \in 0..last : KeptInOrder(states[i].joints, states, i)}
<1>1. last \in Nat /\ Len(chain) \in Nat /\ last <= Len(chain)
  <2>1. Len(chain) \in Nat
    BY LenProperties
  <2> QED
    BY <2>1
<1>2. 0 \in T
  <2>1. states[0].joints = <<>> /\ 0 + 1 = 1 /\ Len(<<>>) = 0
    BY DEF Walks, Base
  <2>2. MovingBefore(0 + 1) = 0
    BY <2>1, MovingCounts
  <2>3. 0 \in 0..last /\ 1..0 = {}
    BY <1>1
  <2> QED
    BY <2>1, <2>2, <2>3 DEF KeptInOrder
<1>3. ASSUME NEW i \in 1..last, i - 1 \in T PROVE i \in T
  <2> DEFINE before == states[i - 1].joints
             captured == Captured(Placed(states, i), chain[i])
             count == MovingBefore(i)
  <2>1. i \in 1..Len(chain) /\ i - 1 \in 0..last /\ (i - 1) + 1 = i /\ i \in 0..last
    BY <1>1
  <2>2. KeptInOrder(before, states, i - 1)
    BY <1>3
  <2>3. Len(before) = count /\ \A k \in 1..i - 1 : Moves(chain[k]) => before[MovingBefore(k) + 1] = Captured(Placed(states, k), chain[k])
    BY <2>1, <2>2 DEF KeptInOrder
  <2>4. states[i].joints = IF Moves(chain[i]) THEN Append(before, captured) ELSE before
    <3>1. states[i] = Walked(states[i - 1], chain[i], ValueFor(q, i))
      BY DEF Walks
    <3> QED
      BY <3>1 DEF Walked, Placed
  <2>5. states[i - 1] \in WalkStates /\ chain[i] \in Built
    BY <2>1, ElementOfSeq
  <2>6. before \in Seq(Kept) /\ captured \in Kept
    <3>1. states[i - 1].running \in Poses /\ before \in Seq(Kept)
      BY <2>5 DEF WalkStates
    <3> QED
      BY <2>5, <3>1, PosesStay, 0 \in Int DEF Placed
  <2>7. /\ count \in Nat /\ MovingBefore(i + 1) = count + (IF Moves(chain[i]) THEN 1 ELSE 0)
    <3>1. i \in 1..Len(chain) + 1
      BY <1>1
    <3> QED
      BY <2>1, <3>1, MovingCounts
  <2> HIDE DEF before, captured, count
  <2>8. CASE ~Moves(chain[i])
    <3>1. \A k \in 1..i : Moves(chain[k]) => k \in 1..i - 1
      BY <1>1, <2>8
    <3>2. KeptInOrder(before, states, i)
      BY <2>3, <2>7, <2>8, <3>1 DEF KeptInOrder
    <3> QED
      BY <2>1, <2>4, <2>8, <3>2
  <2>9. CASE Moves(chain[i])
    <3> DEFINE after == Append(before, captured)
    <3>1. Len(after) = count + 1 /\ after[count + 1] = captured
      BY <2>3, <2>6, AppendProperties
    <3>2. ASSUME NEW k \in 1..i - 1, Moves(chain[k]) PROVE after[MovingBefore(k) + 1] = before[MovingBefore(k) + 1]
      <4>1. k + 1 \in 1..Len(chain) + 1 /\ i \in 1..Len(chain) + 1 /\ k + 1 <= i /\ k \in 1..Len(chain) /\ k \in 1..Len(chain) + 1
        BY <1>1
      <4>2. MovingBefore(k + 1) = MovingBefore(k) + 1 /\ MovingBefore(k) \in Nat
        BY <3>2, <4>1, MovingCounts
      <4>3. MovingBefore(k + 1) <= count
        BY <4>1, MovingGrows DEF count
      <4>4. MovingBefore(k) + 1 \in 1..Len(before)
        BY <2>3, <2>7, <4>2, <4>3
      <4> QED
        BY <2>6, <4>4, AppendProperties
    <3> HIDE DEF after
    <3>3. ASSUME NEW k \in 1..i, Moves(chain[k]) PROVE after[MovingBefore(k) + 1] = Captured(Placed(states, k), chain[k])
      <4>1. CASE k = i
        BY <3>1, <4>1 DEF count, captured
      <4>2. CASE k # i
        <5>1. k \in 1..i - 1
          BY <1>1, <4>2
        <5> QED
          BY <2>3, <3>2, <3>3, <5>1
      <4> QED
        BY <4>1, <4>2
    <3>4. KeptInOrder(after, states, i)
      BY <2>7, <2>9, <3>1, <3>3 DEF KeptInOrder
    <3> QED
      BY <2>1, <2>4, <2>9, <3>4 DEF after
  <2> QED
    BY <2>8, <2>9
<1>4. 0..last \subseteq T
  <2> HIDE DEF T
  <2> QED
    BY <1>1, <1>2, <1>3, InductionFromZero
<1>5. last \in 0..last
  BY <1>1
<1> QED
  BY <1>4, <1>5

\* The motion of the tip as the base sees it if the joints up to i stand still, for every i.
Worlds(w, rows, p_e, last, rates) ==
  /\ w \in [0..last -> Motions] /\ rows \in Seq(Kept) /\ p_e \in Vectors
  /\ Len(rows) = MovingBefore(last + 1)
  /\ w[last] = [p |-> p_e, v |-> zero3, a |-> zero3, spin |-> zero3]
  /\ \A i \in 1..last :
       /\ ~Moves(chain[i]) => w[i - 1] = w[i]
       /\ Moves(chain[i]) =>
            Adds(w[i - 1], w[i], rows[MovingBefore(i) + 1], rates[MovingBefore(i) + 1][1], rates[MovingBefore(i) + 1][2])

LEMMA WorldsAre ==
  ASSUME chain \in Seq(Built), NEW last \in 1..Len(chain), NEW q \in [1..dof(chain) -> Int],
         NEW rates \in [1..dof(chain) -> Int \X Int]
  PROVE  \E w : /\ Worlds(w, Walk(q, last, <<>>).joints, Walk(q, last, <<>>).p_e, last, rates)
                /\ w[0] = Motion(last, q, rates)
<1>1. last \in Nat /\ Len(chain) \in Nat /\ last <= Len(chain)
  <2>1. Len(chain) \in Nat
    BY LenProperties
  <2> QED
    BY <2>1
<1>2. PICK states \in [0..last -> WalkStates] :
        /\ Walks(states, last, q)
        /\ Walk(q, last, <<>>) = [joints |-> states[last].joints, p_e |-> states[last].running.translation]
  BY WalkIs
<1>3. PICK seen \in [0..last -> Motions] : Sees(seen, last, q, rates) /\ Motion(last, q, rates) = seen[last]
  BY MotionIs
<1> DEFINE rows == states[last].joints
           p_e == states[last].running.translation
           w == [i \in 0..last |-> World(states[i].running, seen[last - i])]
<1>4. \A i \in 0..last : states[i].running \in Poses /\ states[i].joints \in Seq(Kept) /\ last - i \in 0..last /\ seen[last - i] \in Motions
  <2> SUFFICES ASSUME NEW i \in 0..last
               PROVE  states[i].running \in Poses /\ states[i].joints \in Seq(Kept) /\ last - i \in 0..last /\ seen[last - i] \in Motions
    OBVIOUS
  <2>1. states[i] \in WalkStates /\ last - i \in 0..last
    BY <1>1
  <2> QED
    BY <2>1 DEF WalkStates
<1>5. w \in [0..last -> Motions] /\ \A i \in 0..last : w[i] = World(states[i].running, seen[last - i])
  BY <1>4, WorldIsMotion
<1>6. rows \in Seq(Kept) /\ p_e \in Vectors /\ states[last].running.rotation \in Rotations
  <2>1. last \in 0..last
    BY <1>1
  <2> QED
    BY <1>4, <2>1 DEF Poses
<1>7. KeptInOrder(rows, states, last)
  BY <1>2, WalkKeeps
<1>8. zero3 \in Vectors
  BY VectorOf DEF zero3
<1>9. w[last] = [p |-> p_e, v |-> zero3, a |-> zero3, spin |-> zero3]
  <2>1. last \in 0..last /\ last - last = 0 /\ seen[0] = Still
    BY <1>1, <1>3 DEF Sees
  <2>2. w[last] = World(states[last].running, Still)
    BY <1>5, <2>1
  <2>3. rotate(states[last].running.rotation, zero3) = zero3
    BY <1>6, <1>8, MatricesHoldRotations, RotateIsLinear, 0 \in Int
  <2>4. add(p_e, zero3) = p_e
    BY <1>6, <1>8, SumRules
  <2> QED
    BY <2>2, <2>3, <2>4 DEF World, Still
<1>10. w[0] = Motion(last, q, rates)
  <2>1. 0 \in 0..last /\ last - 0 = last /\ states[0] = Base /\ seen[last] \in Motions
    BY <1>1, <1>2 DEF Walks
  <2>2. w[0] = World([rotation |-> identity, translation |-> zero3], seen[last])
    BY <1>5, <2>1 DEF Base
  <2> DEFINE m == seen[last]
  <2>3. m.p \in Vectors /\ m.v \in Vectors /\ m.a \in Vectors /\ m.spin \in Vectors
        /\ m = [p |-> m.p, v |-> m.v, a |-> m.a, spin |-> m.spin]
    BY <2>1 DEF Motions
  <2> HIDE DEF m
  <2>4. World([rotation |-> identity, translation |-> zero3], m) = m
    BY <1>8, <2>3, RotateIdentity, SumRules DEF World
  <2> QED
    BY <1>3, <2>2, <2>4 DEF m
<1>11. ASSUME NEW i \in 1..last
       PROVE  /\ ~Moves(chain[i]) => w[i - 1] = w[i]
              /\ Moves(chain[i]) =>
                   Adds(w[i - 1], w[i], rows[MovingBefore(i) + 1], rates[MovingBefore(i) + 1][1], rates[MovingBefore(i) + 1][2])
  <2> DEFINE m == seen[last - i]
             k == last - i + 1
             value == ValueFor(q, i)
             rate == RateOf(rates, i)[1]
             acceleration == RateOf(rates, i)[2]
  <2>1. /\ i \in 1..Len(chain) /\ i \in 0..last /\ i - 1 \in 0..last /\ k \in 1..last /\ k - 1 = last - i
        /\ last - (i - 1) = k /\ last - k + 1 = i
    BY <1>1
  <2>2. chain[i] \in Built /\ value \in Int /\ rate \in Int /\ acceleration \in Int /\ m \in Motions
    BY <1>4, <2>1, ElementOfSeq, ValuesAreNumbers, RatesArePairs
  <2>3. seen[k] = SeenThrough(chain[i], value, rate, acceleration, m)
    <3>1. seen[k] = SeenAt(last, q, rates, k, seen[k - 1])
      BY <1>3, <2>1 DEF Sees
    <3> HIDE DEF k
    <3> QED
      BY <2>1, <3>1 DEF SeenAt
  <2>4. states[i].running = Moved(Placed(states, i), chain[i], value)
    <3>1. states[i] = Walked(states[i - 1], chain[i], value)
      BY <1>2 DEF Walks
    <3> QED
      BY <3>1 DEF Walked, Placed
  <2>5. states[i - 1].running \in Poses
    BY <1>4, <2>1
  <2>6. w[i] = World(Moved(Placed(states, i), chain[i], value), m)
        /\ w[i - 1] = World(states[i - 1].running, SeenThrough(chain[i], value, rate, acceleration, m))
    BY <1>5, <2>1, <2>3, <2>4
  <2> HIDE DEF m, value, rate, acceleration, w
  <2>7. /\ ~Moves(chain[i]) => w[i - 1] = w[i]
        /\ Moves(chain[i]) => Adds(w[i - 1], w[i], Captured(Placed(states, i), chain[i]), rate, acceleration)
    <3> DEFINE near == w[i - 1]
               far == w[i]
               kept == Captured(Placed(states, i), chain[i])
    <3>1. /\ near = World(states[i - 1].running, SeenThrough(chain[i], value, rate, acceleration, m))
          /\ far = World(Moved(compose(states[i - 1].running, chain[i].rotation, chain[i].translation), chain[i], value), m)
          /\ kept = Captured(compose(states[i - 1].running, chain[i].rotation, chain[i].translation), chain[i])
      BY <2>6 DEF Placed
    <3> HIDE DEF near, far, kept
    <3> DEFINE running == states[i - 1].running
               joint == chain[i]
    <3>2. running \in Poses /\ joint \in Built
      BY <2>2, <2>5
    <3>3. /\ near = World(running, SeenThrough(joint, value, rate, acceleration, m))
          /\ far = World(Moved(compose(running, joint.rotation, joint.translation), joint, value), m)
          /\ kept = Captured(compose(running, joint.rotation, joint.translation), joint)
      BY <3>1
    <3> HIDE DEF running, joint
    <3>4. /\ ~Moves(joint) => near = far
          /\ Moves(joint) => Adds(near, far, kept, rate, acceleration)
      BY <2>2, <3>2, <3>3, JointStep
    <3> QED
      BY <3>4 DEF near, far, kept, joint
  <2>8. ASSUME Moves(chain[i])
        PROVE  /\ rows[MovingBefore(i) + 1] = Captured(Placed(states, i), chain[i])
               /\ rate = rates[MovingBefore(i) + 1][1] /\ acceleration = rates[MovingBefore(i) + 1][2]
    BY <1>7, <2>8 DEF KeptInOrder, RateOf, rate, acceleration
  <2> QED
    BY <2>7, <2>8
<1>12. Len(rows) = MovingBefore(last + 1)
  BY <1>7 DEF KeptInOrder
<1> HIDE DEF w, rows, p_e
<1>13. Worlds(w, rows, p_e, last, rates)
  BY <1>5, <1>6, <1>9, <1>11, <1>12 DEF Worlds
<1>14. Walk(q, last, <<>>).joints = rows /\ Walk(q, last, <<>>).p_e = p_e
  BY <1>2 DEF rows, p_e
<1> QED
  BY <1>10, <1>13, <1>14

\* The joint that moves between two frames, and its row.
LEMMA WorldMoves ==
  ASSUME chain \in Seq(Built), NEW last \in 1..Len(chain), NEW rates \in [1..dof(chain) -> Int \X Int],
         NEW w, NEW rows, NEW p_e, Worlds(w, rows, p_e, last, rates), NEW i \in 1..last, Moves(chain[i])
  PROVE  /\ MovingBefore(i) + 1 \in 1..Len(rows) /\ MovingBefore(i) + 1 = MovingBefore(i + 1)
         /\ MovingBefore(i) = (MovingBefore(i) + 1) - 1
         /\ Adds(w[i - 1], w[i], rows[MovingBefore(i) + 1], rates[MovingBefore(i) + 1][1],
                 rates[MovingBefore(i) + 1][2])
<1>1. Len(chain) \in Nat /\ last \in Nat /\ last <= Len(chain) /\ last + 1 \in 1..Len(chain) + 1
  <2>1. Len(chain) \in Nat
    BY LenProperties
  <2> QED
    BY <2>1
<1>2. Len(rows) = MovingBefore(last + 1) /\ Len(rows) \in Nat
  BY LenProperties DEF Worlds
<1>3. i \in 1..Len(chain) /\ i \in 1..Len(chain) + 1 /\ i + 1 \in 1..Len(chain) + 1 /\ i + 1 <= last + 1
  BY <1>1
<1>4. MovingBefore(i + 1) = MovingBefore(i) + 1 /\ MovingBefore(i) \in Nat
  BY <1>3, MovingCounts
<1>5. MovingBefore(i + 1) <= MovingBefore(last + 1)
  BY <1>1, <1>3, MovingGrows
<1>6. MovingBefore(i) + 1 \in 1..Len(rows) /\ MovingBefore(i) = (MovingBefore(i) + 1) - 1
  BY <1>2, <1>4, <1>5
<1>7. Adds(w[i - 1], w[i], rows[MovingBefore(i) + 1], rates[MovingBefore(i) + 1][1],
           rates[MovingBefore(i) + 1][2])
  BY <1>4 DEF Worlds
<1> QED
  BY <1>4, <1>6, <1>7

LEMMA WorldParts ==
  ASSUME chain \in Seq(Built), NEW last \in 1..Len(chain), NEW rates \in [1..dof(chain) -> Int \X Int],
         NEW w, NEW rows, NEW p_e, Worlds(w, rows, p_e, last, rates)
  PROVE  /\ last \in Nat /\ Len(rows) \in Nat /\ Len(rows) <= dof(chain) /\ MovingBefore(last + 1) = Len(rows)
         /\ \A i \in 0..last : w[i] \in Motions
         /\ \A k \in 1..Len(rows) : rows[k] \in Kept /\ rates[k][1] \in Int /\ rates[k][2] \in Int
         /\ \A i \in 1..last : ~Moves(chain[i]) => w[i - 1] = w[i] /\ MovingBefore(i + 1) = MovingBefore(i)
         /\ \A i \in 1..last : Moves(chain[i]) =>
              LET k == MovingBefore(i) + 1
              IN  /\ k \in 1..Len(rows) /\ k = MovingBefore(i + 1) /\ MovingBefore(i) = k - 1
                  /\ Adds(w[i - 1], w[i], rows[k], rates[k][1], rates[k][2])
<1>1. Len(chain) \in Nat /\ last \in Nat /\ last <= Len(chain) /\ last + 1 \in 1..Len(chain) + 1
  <2>1. Len(chain) \in Nat
    BY LenProperties
  <2> QED
    BY <2>1
<1>2. rows \in Seq(Kept) /\ Len(rows) = MovingBefore(last + 1) /\ Len(rows) \in Nat
  BY LenProperties DEF Worlds
<1>3. Len(rows) <= dof(chain) /\ dof(chain) \in Nat
  <2>1. Len(chain) + 1 \in 1..Len(chain) + 1 /\ last + 1 <= Len(chain) + 1
    BY <1>1
  <2> QED
    BY <1>1, <1>2, <2>1, MovingGrows, MovingCounts
<1>4. \A i \in 0..last : w[i] \in Motions
  BY DEF Worlds
<1>5. ASSUME NEW k \in 1..Len(rows) PROVE rows[k] \in Kept /\ rates[k][1] \in Int /\ rates[k][2] \in Int
  <2>1. k \in 1..dof(chain)
    BY <1>2, <1>3
  <2>2. rates[k] \in Int \X Int
    BY <2>1
  <2> QED
    BY <1>2, <2>2, ElementOfSeq
<1>6. ASSUME NEW i \in 1..last, ~Moves(chain[i]) PROVE w[i - 1] = w[i] /\ MovingBefore(i + 1) = MovingBefore(i)
  <2>1. i \in 1..Len(chain) /\ i \in 1..Len(chain) + 1
    BY <1>1
  <2>2. MovingBefore(i + 1) = MovingBefore(i) + 0 /\ MovingBefore(i) \in Nat
    BY <1>6, <2>1, MovingCounts
  <2> QED
    BY <1>6, <2>2 DEF Worlds
<1>7. ASSUME NEW i \in 1..last, Moves(chain[i])
      PROVE  LET k == MovingBefore(i) + 1
             IN  /\ k \in 1..Len(rows) /\ k = MovingBefore(i + 1) /\ MovingBefore(i) = k - 1
                 /\ Adds(w[i - 1], w[i], rows[k], rates[k][1], rates[k][2])
  BY <1>7, WorldMoves
<1> QED
  BY <1>1, <1>2, <1>3, <1>4, <1>5, <1>6, <1>7

\* Wherever the joints stop standing still, the tip is where it is.
LEMMA TipStays ==
  ASSUME chain \in Seq(Built), NEW last \in 1..Len(chain), NEW rates \in [1..dof(chain) -> Int \X Int],
         NEW w, NEW rows, NEW p_e, Worlds(w, rows, p_e, last, rates)
  PROVE  \A i \in 0..last : w[i].p = p_e
<1> DEFINE T == {i \in 0..last : w[i].p = w[0].p}
<1>1. last \in Nat
  BY WorldParts
<1>2. 0 \in T
  BY <1>1
<1>3. ASSUME NEW i \in 1..last, i - 1 \in T PROVE i \in T
  <2>1. w[i - 1].p = w[0].p /\ i \in 0..last
    BY <1>1, <1>3
  <2>2. w[i - 1].p = w[i].p
    <3>1. CASE Moves(chain[i])
      BY <3>1, WorldParts DEF Adds
    <3>2. CASE ~Moves(chain[i])
      BY <3>2, WorldParts
    <3> QED
      BY <3>1, <3>2
  <2> QED
    BY <2>1, <2>2
<1>4. 0..last \subseteq T
  <2> HIDE DEF T
  <2> QED
    BY <1>1, <1>2, <1>3, InductionFromZero
<1>5. w[last].p = p_e /\ last \in 0..last
  BY <1>1 DEF Worlds
<1> QED
  BY <1>4, <1>5

Columns(rows, p_e, rates) == [k \in 1..Len(rows) |-> by(rates[k][1], linear_column(rows[k], p_e))]

LEMMA ColumnsTyped ==
  ASSUME chain \in Seq(Built), NEW last \in 1..Len(chain), NEW rates \in [1..dof(chain) -> Int \X Int],
         NEW w, NEW rows, NEW p_e, Worlds(w, rows, p_e, last, rates)
  PROVE  Columns(rows, p_e, rates) \in Seq(Vectors) /\ Len(Columns(rows, p_e, rates)) = Len(rows)
<1>1. Len(rows) \in Nat /\ p_e \in Vectors
  BY WorldParts DEF Worlds
<1>2. \A k \in 1..Len(rows) : by(rates[k][1], linear_column(rows[k], p_e)) \in Vectors
  <2> SUFFICES ASSUME NEW k \in 1..Len(rows) PROVE by(rates[k][1], linear_column(rows[k], p_e)) \in Vectors
    OBVIOUS
  <2>1. rows[k] \in Kept /\ rates[k][1] \in Int
    BY WorldParts
  <2>2. linear_column(rows[k], p_e) \in Vectors
    BY <1>1, <2>1, ColumnsAreVectors
  <2> QED
    BY <2>1, <2>2, VectorsClosed
<1> QED
  BY <1>1, <1>2 DEF Columns

\* What the joints up to i add to the velocity and what those after them add make up the whole.
AddsUp(total, w, rows, last) ==
  \A i \in 0..last : MovingBefore(i + 1) \in 0..Len(rows) /\ w[0].v = add(total[MovingBefore(i + 1)], w[i].v)

LEMMA VelocitiesAdd ==
  ASSUME chain \in Seq(Built), NEW last \in 1..Len(chain), NEW rates \in [1..dof(chain) -> Int \X Int],
         NEW w, NEW rows, NEW p_e, Worlds(w, rows, p_e, last, rates),
         NEW total \in [0..Len(rows) -> Vectors], Totals(total, Columns(rows, p_e, rates))
  PROVE  AddsUp(total, w, rows, last)
<1> DEFINE T == {i \in 0..last : MovingBefore(i + 1) \in 0..Len(rows) /\ w[0].v = add(total[MovingBefore(i + 1)], w[i].v)}
<1>1. last \in Nat /\ Len(rows) \in Nat /\ \A i \in 0..last : w[i].v \in Vectors
  <2>1. last \in Nat /\ Len(rows) \in Nat /\ \A i \in 0..last : w[i] \in Motions
    BY WorldParts
  <2> QED
    BY <2>1 DEF Motions
<1>2. 0 \in T
  <2>1. MovingBefore(1) = 0 /\ 0 + 1 = 1 /\ total[0] = zero3
    BY MovingCounts DEF Totals
  <2>2. 0 \in 0..last /\ 0 \in 0..Len(rows)
    BY <1>1
  <2>3. add(zero3, w[0].v) = w[0].v
    BY <1>1, <2>2, SumRules
  <2> QED
    BY <2>1, <2>2, <2>3
<1>3. ASSUME NEW i \in 1..last, i - 1 \in T PROVE i \in T
  <2> DEFINE c == MovingBefore(i)
  <2>1. i \in 0..last /\ i - 1 \in 0..last /\ (i - 1) + 1 = i
    BY <1>1
  <2>2. c \in 0..Len(rows) /\ w[0].v = add(total[c], w[i - 1].v)
    BY <1>3, <2>1
  <2>3. CASE ~Moves(chain[i])
    BY <2>1, <2>2, <2>3, WorldParts
  <2>4. CASE Moves(chain[i])
    <3> DEFINE k == c + 1
               col == by(rates[k][1], linear_column(rows[k], p_e))
    <3>1. k \in 1..Len(rows) /\ k = MovingBefore(i + 1) /\ c = k - 1 /\ Adds(w[i - 1], w[i], rows[k], rates[k][1], rates[k][2])
      BY <2>4, WorldParts
    <3>2. total[k] = add(total[c], col)
      <4>1. Len(Columns(rows, p_e, rates)) = Len(rows)
        BY ColumnsTyped
      <4>2. total[k] = add(total[k - 1], Columns(rows, p_e, rates)[k])
        BY <3>1, <4>1 DEF Totals
      <4>3. Columns(rows, p_e, rates)[k] = col
        BY <3>1 DEF Columns
      <4> QED
        BY <3>1, <4>2, <4>3
    <3>3. w[i - 1].v = add(w[i].v, col)
      <4>1. w[i].p = p_e
        BY <2>1, TipStays
      <4>2. rows[k].translates \in BOOLEAN
        BY <3>1, WorldParts, ColumnsAreVectors DEF Kept
      <4> HIDE DEF k
      <4> QED
        BY <3>1, <4>1, <4>2 DEF Adds, linear_column
    <3>4. col \in Vectors /\ total[c] \in Vectors /\ w[i].v \in Vectors
      <4>1. rows[k] \in Kept /\ rates[k][1] \in Int /\ p_e \in Vectors
        <5>1. p_e \in Vectors
          BY DEF Worlds
        <5> HIDE DEF k
        <5> QED
          BY <3>1, <5>1, WorldParts
      <4>2. linear_column(rows[k], p_e) \in Vectors
        BY <4>1, ColumnsAreVectors
      <4>3. col \in Vectors
        BY <4>1, <4>2, VectorsClosed
      <4> QED
        BY <1>1, <2>1, <2>2, <4>3
    <3> DEFINE x == total[c]
               y == w[i].v
    <3> HIDE DEF col, k, c
    <3>5. add(x, add(y, col)) = add(add(x, col), y)
      BY <3>4, LastSwapped
    <3>6. k \in 0..Len(rows)
      BY <1>1, <3>1
    <3> QED
      BY <2>1, <2>2, <3>1, <3>2, <3>3, <3>5, <3>6
  <2> QED
    BY <2>3, <2>4
<1>4. 0..last \subseteq T
  <2> HIDE DEF T
  <2> QED
    BY <1>1, <1>2, <1>3, InductionFromZero
<1> QED
  BY <1>4 DEF AddsUp

LEMMA VelocityAgrees ==
  ASSUME chain \in Seq(Built), NEW last \in 1..Len(chain), NEW rates \in [1..dof(chain) -> Int \X Int],
         NEW w, NEW rows, NEW p_e, Worlds(w, rows, p_e, last, rates)
  PROVE  Total(Columns(rows, p_e, rates)) = w[0].v
<1> DEFINE n == Len(rows)
<1>1. PICK total \in [0..n -> Vectors] :
        Totals(total, Columns(rows, p_e, rates)) /\ Total(Columns(rows, p_e, rates)) = total[n]
  BY ColumnsTyped, TotalIs
<1>2. last \in 0..last /\ n \in 0..n /\ MovingBefore(last + 1) = n
  BY WorldParts
<1>3. w[0].v = add(total[n], w[last].v)
  <2>1. AddsUp(total, w, rows, last)
    BY <1>1, VelocitiesAdd
  <2> QED
    BY <1>2, <2>1 DEF AddsUp
<1>4. w[last].v = zero3 /\ add(total[n], zero3) = total[n]
  <2>1. total[n] \in Vectors /\ zero3 \in Vectors
    BY <1>1, <1>2, VectorOf DEF zero3
  <2> QED
    BY <2>1, SumRules DEF Worlds
<1> QED
  BY <1>1, <1>3, <1>4

Turns(rows, rates) ==
  [k \in 1..Len(rows) |-> by(rates[k][1], IF rows[k].translates THEN zero3 ELSE rows[k].axis)]

LEMMA TurnsTyped ==
  ASSUME chain \in Seq(Built), NEW last \in 1..Len(chain), NEW rates \in [1..dof(chain) -> Int \X Int],
         NEW w, NEW rows, NEW p_e, Worlds(w, rows, p_e, last, rates)
  PROVE  /\ Turns(rows, rates) \in Seq(Vectors) /\ Len(Turns(rows, rates)) = Len(rows)
         /\ \A k \in 1..Len(rows) : Turns(rows, rates)[k] \in Vectors
<1>1. Len(rows) \in Nat
  BY WorldParts
<1>2. \A k \in 1..Len(rows) : by(rates[k][1], IF rows[k].translates THEN zero3 ELSE rows[k].axis) \in Vectors
  <2> SUFFICES ASSUME NEW k \in 1..Len(rows)
               PROVE  by(rates[k][1], IF rows[k].translates THEN zero3 ELSE rows[k].axis) \in Vectors
    OBVIOUS
  <2>1. rows[k] \in Kept /\ rates[k][1] \in Int
    BY WorldParts
  <2>2. (IF rows[k].translates THEN zero3 ELSE rows[k].axis) \in Vectors
    <3>1. zero3 \in Vectors
      BY VectorOf DEF zero3
    <3> QED
      BY <2>1, <3>1 DEF Kept
  <2> QED
    BY <2>1, <2>2, VectorsClosed
<1>3. \A k \in 1..Len(rows) :
        Turns(rows, rates)[k] = by(rates[k][1], IF rows[k].translates THEN zero3 ELSE rows[k].axis)
  BY DEF Turns
<1> QED
  BY <1>1, <1>2, <1>3 DEF Turns

LEMMA SpinsAdd ==
  ASSUME chain \in Seq(Built), NEW last \in 1..Len(chain), NEW rates \in [1..dof(chain) -> Int \X Int],
         NEW w, NEW rows, NEW p_e, Worlds(w, rows, p_e, last, rates),
         NEW total \in [0..Len(rows) -> Vectors], Totals(total, Turns(rows, rates))
  PROVE  \A i \in 0..last : MovingBefore(i + 1) \in 0..Len(rows) /\ w[0].spin = add(total[MovingBefore(i + 1)], w[i].spin)
<1> DEFINE T == {i \in 0..last : MovingBefore(i + 1) \in 0..Len(rows) /\ w[0].spin = add(total[MovingBefore(i + 1)], w[i].spin)}
<1>1. last \in Nat /\ Len(rows) \in Nat /\ \A i \in 0..last : w[i].spin \in Vectors
  <2>1. last \in Nat /\ Len(rows) \in Nat /\ \A i \in 0..last : w[i] \in Motions
    BY WorldParts
  <2> QED
    BY <2>1 DEF Motions
<1>2. 0 \in T
  <2>1. MovingBefore(1) = 0 /\ 0 + 1 = 1 /\ total[0] = zero3
    BY MovingCounts DEF Totals
  <2>2. 0 \in 0..last /\ 0 \in 0..Len(rows)
    BY <1>1
  <2>3. add(zero3, w[0].spin) = w[0].spin
    BY <1>1, <2>2, SumRules
  <2> QED
    BY <2>1, <2>2, <2>3
<1>3. ASSUME NEW i \in 1..last, i - 1 \in T PROVE i \in T
  <2> DEFINE c == MovingBefore(i)
  <2>1. i \in 0..last /\ i - 1 \in 0..last /\ (i - 1) + 1 = i
    BY <1>1
  <2>2. c \in 0..Len(rows) /\ w[0].spin = add(total[c], w[i - 1].spin)
    BY <1>3, <2>1
  <2>3. CASE ~Moves(chain[i])
    BY <2>1, <2>2, <2>3, WorldParts
  <2>4. CASE Moves(chain[i])
    <3> DEFINE k == c + 1
               term == Turns(rows, rates)[k]
    <3>1. k \in 1..Len(rows) /\ k = MovingBefore(i + 1) /\ c = k - 1 /\ Adds(w[i - 1], w[i], rows[k], rates[k][1], rates[k][2])
      BY <2>4, WorldParts
    <3>2. total[k] = add(total[c], term)
      <4>1. Len(Turns(rows, rates)) = Len(rows)
        BY TurnsTyped
      <4>2. total[k] = add(total[k - 1], term)
        BY <3>1, <4>1 DEF Totals
      <4> QED
        BY <3>1, <4>2
    <3>3. w[i].spin \in Vectors /\ total[c] \in Vectors /\ term \in Vectors
      BY <1>1, <2>1, <2>2, <3>1, TurnsTyped
    <3>4. w[i - 1].spin = add(w[i].spin, term)
      <4>1. term = by(rates[k][1], IF rows[k].translates THEN zero3 ELSE rows[k].axis)
        BY <3>1 DEF Turns
      <4> HIDE DEF k, term
      <4>2. rows[k] \in Kept /\ rates[k][1] \in Int
        BY <3>1, WorldParts
      <4>3. rows[k].translates \in BOOLEAN
        BY <4>2 DEF Kept
      <4>4. CASE rows[k].translates
        <5>1. by(rates[k][1], zero3) = zero3
          <6>1. \A n \in Int : by(n, zero3) = zero3
            BY DEF by, zero3
          <6> QED
            BY <4>2, <6>1
        <5>2. add(w[i].spin, zero3) = w[i].spin
          BY <3>3, SumRules, VectorOf DEF zero3
        <5> QED
          BY <3>1, <4>1, <4>4, <5>1, <5>2 DEF Adds
      <4>5. CASE ~rows[k].translates
        BY <3>1, <4>1, <4>5 DEF Adds
      <4> QED
        BY <4>3, <4>4, <4>5
    <3> DEFINE x == total[c]
               y == w[i].spin
    <3> HIDE DEF term, k, c
    <3>5. add(x, add(y, term)) = add(add(x, term), y)
      BY <3>3, LastSwapped
    <3>6. k \in 0..Len(rows)
      BY <1>1, <3>1
    <3> QED
      BY <2>1, <2>2, <3>1, <3>2, <3>4, <3>5, <3>6
  <2> QED
    BY <2>3, <2>4
<1>4. 0..last \subseteq T
  <2> HIDE DEF T
  <2> QED
    BY <1>1, <1>2, <1>3, InductionFromZero
<1> QED
  BY <1>4

LEMMA SpinAgrees ==
  ASSUME chain \in Seq(Built), NEW last \in 1..Len(chain), NEW rates \in [1..dof(chain) -> Int \X Int],
         NEW w, NEW rows, NEW p_e, Worlds(w, rows, p_e, last, rates)
  PROVE  Total(Turns(rows, rates)) = w[0].spin
<1> DEFINE n == Len(rows)
<1>1. PICK total \in [0..n -> Vectors] :
        Totals(total, Turns(rows, rates)) /\ Total(Turns(rows, rates)) = total[n]
  BY TurnsTyped, TotalIs
<1>2. last \in 0..last /\ n \in 0..n /\ MovingBefore(last + 1) = n
  BY WorldParts
<1>3. w[0].spin = add(total[n], w[last].spin)
  BY <1>1, <1>2, SpinsAdd
<1>4. w[last].spin = zero3 /\ add(total[n], zero3) = total[n]
  <2>1. total[n] \in Vectors /\ zero3 \in Vectors
    BY <1>1, <1>2, VectorOf DEF zero3
  <2> QED
    BY <2>1, SumRules DEF Worlds
<1> QED
  BY <1>1, <1>3, <1>4

\* What the loop has summed, and what is still ahead of it.
Ahead(x, m) == add(x.dv, add(cross(x.omega, m.v), m.a))
Behind(x, p_e) == add(sub(cross(x.omega, p_e), x.c), x.t)

LEMMA AccelerationAgrees ==
  ASSUME chain \in Seq(Built), NEW last \in 1..Len(chain), NEW rates \in [1..dof(chain) -> Int \X Int],
         NEW w, NEW rows, NEW p_e, Worlds(w, rows, p_e, last, rates),
         NEW storage, storage.joints = rows, storage.p_e = p_e
  PROVE  Differentiated(storage, w[0].v, q_dot_of(rates), q_ddot_of(rates)) = w[0].a
<1> DEFINE n == Len(rows)
           q_dot == q_dot_of(rates)
           q_ddot == q_ddot_of(rates)
           v == w[0].v
<1>1. last \in Nat /\ n \in Nat /\ n <= dof(chain) /\ MovingBefore(last + 1) = n
  BY WorldParts
<1>2. \A i \in 0..last : w[i] \in Motions
  BY WorldParts
<1>tip. \A i \in 0..last : w[i].p = p_e
  BY TipStays
<1>3. v \in Vectors /\ w[0].a \in Vectors
  <2>1. 0 \in 0..last
    BY <1>1
  <2> QED
    BY <1>2, <2>1 DEF Motions
<1>4. rows \in Seq(Kept) /\ p_e \in Vectors
  BY DEF Worlds
<1>5. \A k \in 1..n : q_dot[k] = rates[k][1] /\ q_ddot[k] = rates[k][2] /\ q_dot[k] \in Int /\ q_ddot[k] \in Int
  <2> SUFFICES ASSUME NEW k \in 1..n
               PROVE  q_dot[k] = rates[k][1] /\ q_ddot[k] = rates[k][2] /\ q_dot[k] \in Int /\ q_ddot[k] \in Int
    OBVIOUS
  <2>1. k \in DOMAIN rates
    <3>1. dof(chain) \in Nat
      <4>1. Len(chain) + 1 \in 1..Len(chain) + 1
        BY LenProperties
      <4> QED
        BY <4>1, MovingCounts
    <3> QED
      BY <1>1, <3>1
  <2>2. q_dot[k] = rates[k][1] /\ q_ddot[k] = rates[k][2]
    BY <2>1 DEF q_dot_of, q_ddot_of
  <2>3. rates[k][1] \in Int /\ rates[k][2] \in Int
    BY WorldParts
  <2> QED
    BY <2>2, <2>3
<1> HIDE DEF q_dot, q_ddot, v
<1>6. PICK loop \in [0..n -> LoopStates] :
        Loops(loop, storage, v, q_dot, q_ddot) /\ Differentiated(storage, v, q_dot, q_ddot) = loop[n].dv
  <2>1. Len(storage.joints) = n
    OBVIOUS
  <2>2. storage.joints \in Seq(Kept) /\ storage.p_e \in Vectors
    BY <1>4
  <2>3. AreNumbers(q_dot, q_ddot, Len(storage.joints))
    BY <1>5, <2>1 DEF AreNumbers
  <2>4. LoopRuns(storage, v, q_dot, q_ddot)
    BY <1>3, <2>2, <2>3, LoopIs
  <2> QED
    BY <2>1, <2>4 DEF LoopRuns
<1>7. PICK total \in [0..n -> Vectors] : Totals(total, Columns(rows, p_e, rates))
  BY ColumnsTyped, TotalIs
<1>8. \A i \in 0..last : MovingBefore(i + 1) \in 0..n /\ v = add(total[MovingBefore(i + 1)], w[i].v)
  <2>1. AddsUp(total, w, rows, last)
    BY <1>7, VelocitiesAdd
  <2> QED
    BY <2>1 DEF AddsUp, v
<1> DEFINE Fits(i) == /\ total[MovingBefore(i + 1)] = Behind(loop[MovingBefore(i + 1)], p_e)
                      /\ Ahead(loop[MovingBefore(i + 1)], w[i]) = w[0].a
           T == {i \in 0..last : Fits(i)}
<1>9. 0 \in T
  <2>1. MovingBefore(1) = 0 /\ 0 + 1 = 1 /\ total[0] = zero3 /\ loop[0] = AtRest
    BY <1>6, <1>7, MovingCounts DEF Totals, Loops
  <2>2. zero3 \in Vectors
    BY VectorOf DEF zero3
  <2>3. \A u \in Vectors : cross(zero3, u) = zero3
    <3>1. \A u \in Vectors : u[1] \in Int /\ u[2] \in Int /\ u[3] \in Int
      BY VectorParts
    <3> QED
      BY <3>1 DEF cross, zero3
  <2>4. Behind(AtRest, p_e) = zero3
    <3>1. sub(zero3, zero3) = zero3 /\ add(zero3, zero3) = zero3
      <4>1. add(zero3, zero3) = zero3
        BY <2>2, SumRules
      <4>2. sub(add(zero3, zero3), zero3) = zero3
        BY <2>2, SumRules
      <4> QED
        BY <4>1, <4>2
    <3> QED
      BY <1>4, <2>3, <3>1 DEF Behind, AtRest
  <2>5. Ahead(AtRest, w[0]) = w[0].a
    <3>1. w[0].v \in Vectors
      BY <1>3 DEF v
    <3>2. add(zero3, w[0].a) = w[0].a
      BY <1>3, <2>2, SumRules
    <3> QED
      BY <2>3, <3>1, <3>2 DEF Ahead, AtRest
  <2>6. 0 \in 0..last
    BY <1>1
  <2> QED
    BY <2>1, <2>4, <2>5, <2>6
<1>10. ASSUME NEW i \in 1..last, i - 1 \in T PROVE i \in T
  <2> DEFINE c == MovingBefore(i)
  <2>1. i \in 0..last /\ i - 1 \in 0..last /\ (i - 1) + 1 = i
    BY <1>1
  <2>2. c \in 0..n /\ v = add(total[c], w[i - 1].v)
    BY <1>8, <2>1
  <2>3. total[c] = Behind(loop[c], p_e) /\ Ahead(loop[c], w[i - 1]) = w[0].a
    BY <1>10, <2>1
  <2>4. CASE ~Moves(chain[i])
    <3>1. w[i - 1] = w[i] /\ MovingBefore(i + 1) = c
      BY <2>4, WorldParts
    <3>2. Fits(i)
      BY <2>3, <3>1
    <3> HIDE DEF Fits
    <3> QED
      BY <2>1, <3>2
  <2>5. CASE Moves(chain[i])
    <3> DEFINE k == c + 1
               kept == rows[k]
               rate == rates[k][1]
               acceleration == rates[k][2]
               near == w[i - 1]
               far == w[i]
               x == loop[c]
               y == loop[k]
               before == total[c]
    <3>1. k \in 1..n /\ k = MovingBefore(i + 1) /\ c = k - 1 /\ Adds(near, far, kept, rate, acceleration)
      BY <2>5, WorldMoves
    <3>2. y = loop_step(p_e, v, x, kept, rate, acceleration)
      <4>1. y = loop_step(p_e, v, loop[k - 1], kept, q_dot[k], q_ddot[k])
        BY <1>6, <3>1 DEF Loops
      <4> QED
        BY <1>5, <3>1, <4>1
    <3>3. total[k] = add(before, by(rate, linear_column(kept, p_e)))
      <4>1. Len(Columns(rows, p_e, rates)) = n
        BY ColumnsTyped
      <4>2. total[k] = add(total[k - 1], Columns(rows, p_e, rates)[k])
        BY <1>7, <3>1, <4>1 DEF Totals
      <4>3. Columns(rows, p_e, rates)[k] = by(rate, linear_column(kept, p_e))
        BY <3>1 DEF Columns
      <4> QED
        BY <3>1, <4>2, <4>3
    <3>4. kept \in Kept /\ rate \in Int /\ acceleration \in Int
      <4> HIDE DEF k
      <4> QED
        BY <3>1, WorldParts
    <3>5. near \in Motions /\ far \in Motions /\ x \in LoopStates /\ before \in Vectors
      BY <1>2, <2>1, <2>2
    <3>6. far.p = p_e
      BY <1>tip, <2>1
    <3>7. v = add(before, near.v) /\ before = add(sub(cross(x.omega, p_e), x.c), x.t)
      BY <2>2, <2>3 DEF Behind
    <3>8. k \in 0..n /\ total[k] = total[MovingBefore(i + 1)] /\ y = loop[MovingBefore(i + 1)]
      BY <1>1, <3>1
    <3>9. Ahead(x, near) = w[0].a
      BY <2>3
    <3> DEFINE after == total[k]
    <3>10. after = add(before, by(rate, linear_column(kept, p_e)))
      BY <3>3
    <3> HIDE DEF kept, rate, acceleration, near, far, x, y, before, after
    <3>11. /\ after = add(sub(cross(y.omega, p_e), y.c), y.t)
           /\ add(y.dv, add(cross(y.omega, far.v), far.a)) = add(x.dv, add(cross(x.omega, near.v), near.a))
      BY <1>3, <1>4, <3>1, <3>2, <3>4, <3>5, <3>6, <3>7, <3>10, LoopStepKeeps
    <3>12. after = Behind(y, p_e) /\ Ahead(y, far) = w[0].a
      BY <3>9, <3>11 DEF Behind, Ahead
    <3> QED
      BY <2>1, <3>8, <3>12 DEF far, after
  <2> QED
    BY <2>4, <2>5
<1>11. 0..last \subseteq T
  <2> HIDE DEF T
  <2> QED
    BY <1>1, <1>9, <1>10, InductionFromZero
<1>12. Ahead(loop[n], w[last]) = w[0].a
  <2>1. last \in 0..last
    BY <1>1
  <2> QED
    BY <1>1, <1>11, <2>1
<1>13. Ahead(loop[n], w[last]) = loop[n].dv
  <2>1. w[last].v = zero3 /\ w[last].a = zero3
    BY DEF Worlds
  <2>2. loop[n].dv \in Vectors /\ loop[n].omega \in Vectors
    <3>1. n \in 0..n
      BY <1>1
    <3> QED
      BY <1>6, <3>1 DEF LoopStates
  <2>3. zero3 \in Vectors
    BY VectorOf DEF zero3
  <2>4. cross(loop[n].omega, zero3) = zero3
    <3>1. \A u \in Vectors : cross(u, zero3) = zero3
      <4>1. \A u \in Vectors : u[1] \in Int /\ u[2] \in Int /\ u[3] \in Int
        BY VectorParts
      <4> QED
        BY <4>1 DEF cross, zero3
    <3> QED
      BY <2>2, <3>1
  <2>5. add(zero3, zero3) = zero3 /\ add(loop[n].dv, zero3) = loop[n].dv
    BY <2>2, <2>3, SumRules
  <2> QED
    BY <2>1, <2>4, <2>5 DEF Ahead
<1> QED
  BY <1>6, <1>12, <1>13 DEF v, q_dot, q_ddot

-----------------------------------------------------------------------------
(* The answers *)

\* What forward_kinematics answers is the motion of the frame.
LEMMA FrameAgrees ==
  ASSUME chain \in Seq(Built), NEW last \in 1..Len(chain), NEW q \in [1..dof(chain) -> Int],
         NEW rates \in [1..dof(chain) -> Int \X Int]
  PROVE  LET frame == FrameKinematics(Walk(q, last, <<>>), q_dot_of(rates), q_ddot_of(rates))
             m == Motion(last, q, rates)
         IN  frame.kind = "frame" /\ frame.position = m.p /\ frame.velocity = m.v /\ frame.acceleration = m.a
<1> DEFINE storage == Walk(q, last, <<>>)
           rows == storage.joints
           p_e == storage.p_e
           q_dot == q_dot_of(rates)
           q_ddot == q_ddot_of(rates)
           terms == [i \in 1..Len(rows) |-> by(q_dot[i], linear_column(rows[i], p_e))]
<1>1. PICK w : Worlds(w, rows, p_e, last, rates) /\ w[0] = Motion(last, q, rates)
  BY WorldsAre
<1>2. terms = Columns(rows, p_e, rates)
  <2>1. Len(rows) \in Nat /\ Len(rows) <= dof(chain) /\ dof(chain) \in Nat
    <3>1. Len(chain) \in Nat
      BY LenProperties
    <3>2. Len(chain) + 1 \in 1..Len(chain) + 1
      BY <3>1
    <3> HIDE DEF rows, p_e
    <3> QED
      BY <1>1, <3>2, WorldParts, MovingCounts
  <2>2. \A i \in 1..Len(rows) : i \in DOMAIN rates
    BY <2>1
  <2>3. \A i \in 1..Len(rows) : q_dot[i] = rates[i][1]
    BY <2>2 DEF q_dot_of
  <2> HIDE DEF rows, p_e, q_dot
  <2> QED
    BY <2>3 DEF Columns
<1>3. Total(terms) = w[0].v
  <2> HIDE DEF rows, p_e, terms
  <2> QED
    BY <1>1, <1>2, VelocityAgrees
<1>4. Differentiated(storage, w[0].v, q_dot, q_ddot) = w[0].a
  <2> HIDE DEF storage
  <2> QED
    BY <1>1, AccelerationAgrees
<1>5. w[0].p = p_e
  <2>1. 0 \in 0..last
    <3>1. Len(chain) \in Nat
      BY LenProperties
    <3> QED
      BY <3>1
  <2> HIDE DEF rows, p_e
  <2> QED
    BY <1>1, <2>1, TipStays
<1>6. FrameKinematics(storage, q_dot, q_ddot) =
        [kind |-> "frame", position |-> p_e, velocity |-> Total(terms),
         acceleration |-> Differentiated(storage, Total(terms), q_dot, q_ddot)]
  BY DEF FrameKinematics
<1> HIDE DEF storage, q_dot, q_ddot, terms
<1> QED
  BY <1>1, <1>3, <1>4, <1>5, <1>6 DEF storage, q_dot, q_ddot

\* The Jacobian maps the rates to the velocity and the spin of the last frame.
LEMMA JacobianAgrees ==
  ASSUME chain \in Seq(Built), Len(chain) # 0, NEW q \in [1..dof(chain) -> Int],
         NEW rates \in [1..dof(chain) -> Int \X Int]
  PROVE  LET columns == jacobian(Walk(q, Len(chain), <<>>))
             m == Motion(Len(chain), q, rates)
         IN  /\ Weighed(rates, [i \in 1..dof(chain) |-> columns[i].linear]) = m.v
             /\ Weighed(rates, [i \in 1..dof(chain) |-> columns[i].angular]) = m.spin
<1> DEFINE last == Len(chain)
           storage == Walk(q, last, <<>>)
           rows == storage.joints
           p_e == storage.p_e
           columns == jacobian(storage)
<1>1. last \in Nat /\ last \in 1..Len(chain) /\ last + 1 \in 1..Len(chain) + 1
  <2>1. Len(chain) \in Nat
    BY LenProperties
  <2> QED
    BY <2>1
<1>2. PICK w : Worlds(w, rows, p_e, last, rates) /\ w[0] = Motion(last, q, rates)
  BY <1>1, WorldsAre
<1>3. Len(rows) = dof(chain)
  <2> HIDE DEF rows, p_e
  <2> QED
    BY <1>1, <1>2, MovingCounts DEF Worlds
<1>4. Len(rows) \in Nat
  <2> HIDE DEF rows, p_e
  <2> QED
    BY <1>1, <1>2, WorldParts
<1>5. \A i \in 1..Len(rows) : columns[i] =
        [linear |-> linear_column(rows[i], p_e),
         angular |-> IF rows[i].translates THEN zero3 ELSE rows[i].axis]
  BY DEF jacobian
<1> HIDE DEF rows, p_e, columns
<1>6. \A i \in 1..Len(rows) :
        /\ columns[i].linear = linear_column(rows[i], p_e)
        /\ columns[i].angular = (IF rows[i].translates THEN zero3 ELSE rows[i].axis)
  <2> SUFFICES ASSUME NEW i \in 1..Len(rows)
               PROVE  /\ columns[i].linear = linear_column(rows[i], p_e)
                      /\ columns[i].angular = (IF rows[i].translates THEN zero3 ELSE rows[i].axis)
    OBVIOUS
  <2> DEFINE column == linear_column(rows[i], p_e)
             turn == IF rows[i].translates THEN zero3 ELSE rows[i].axis
  <2>1. columns[i] = [linear |-> column, angular |-> turn]
    BY <1>5
  <2> HIDE DEF column, turn
  <2>2. columns[i].linear = column /\ columns[i].angular = turn
    BY <2>1
  <2> QED
    BY <2>2 DEF column, turn
<1> DEFINE linear == [i \in 1..dof(chain) |-> columns[i].linear]
           angular == [i \in 1..dof(chain) |-> columns[i].angular]
<1>7. Weighed(rates, linear) = Total(Columns(rows, p_e, rates))
  <2>1. DOMAIN linear = 1..Len(rows) /\ \A i \in 1..Len(rows) : linear[i] = linear_column(rows[i], p_e)
    BY <1>3, <1>6
  <2> HIDE DEF linear
  <2>2. [i \in DOMAIN linear |-> by(rates[i][1], linear[i])] = Columns(rows, p_e, rates)
    BY <2>1 DEF Columns
  <2> QED
    BY <2>2 DEF Weighed
<1>8. Weighed(rates, angular) = Total(Turns(rows, rates))
  <2>1. DOMAIN angular = 1..Len(rows)
        /\ \A i \in 1..Len(rows) : angular[i] = IF rows[i].translates THEN zero3 ELSE rows[i].axis
    BY <1>3, <1>6
  <2> HIDE DEF angular
  <2>2. [i \in DOMAIN angular |-> by(rates[i][1], angular[i])] = Turns(rows, rates)
    BY <2>1 DEF Turns
  <2> QED
    BY <2>2 DEF Weighed
<1>9. Total(Columns(rows, p_e, rates)) = w[0].v /\ Total(Turns(rows, rates)) = w[0].spin
  BY <1>1, <1>2, VelocityAgrees, SpinAgrees
<1> HIDE DEF linear, angular
<1> QED
  BY <1>2, <1>7, <1>8, <1>9 DEF linear, angular, columns, storage

-----------------------------------------------------------------------------
(* The calls *)

Tells(a, m, rates) ==
  CASE a.kind = "frame" -> a.position = m.p /\ a.velocity = m.v /\ a.acceleration = m.a
    [] a.kind = "jacobian" ->
         /\ Weighed(rates, [i \in 1..dof(chain) |-> a.columns[i].linear]) = m.v
         /\ Weighed(rates, [i \in 1..dof(chain) |-> a.columns[i].angular]) = m.spin
    [] a.kind = "speed" -> a.squared = dot(m.v, m.v) /\ a.along = dot(m.v, m.a)
    [] a.kind = "nullopt" -> m.v = zero3

LEMMA MotionAgreesNext ==
  ASSUME chain' = chain,
         answer'.kind \in {"frame", "jacobian", "speed", "nullopt"} =>
           Tells(answer', Motion(call'.last, call'.q, call'.rates), call'.rates)
  PROVE  MotionAgrees'
<1> DEFINE last == call'.last
           q == call'.q
           rates == call'.rates
           value(i) == ValueFor(q, i)
           rate(i) == RateOf(rates, i)
           R(f) == [n \in 0..last |->
                     IF n = 0 THEN Still
                     ELSE SeenThrough(chain[last - n + 1], value(last - n + 1), rate(last - n + 1)[1],
                                      rate(last - n + 1)[2], f[n - 1])]
           valueNext(i) == IF Moves(chain'[i]) THEN q[dof(SubSeq(chain', 1, i - 1)) + 1] ELSE 0
           rateNext(i) == IF Moves(chain'[i]) THEN rates[dof(SubSeq(chain', 1, i - 1)) + 1] ELSE <<0, 0>>
           Next(f) == [n \in 0..last |->
                        IF n = 0 THEN Still
                        ELSE SeenThrough(chain'[last - n + 1], valueNext(last - n + 1), rateNext(last - n + 1)[1],
                                         rateNext(last - n + 1)[2], f[n - 1])]
<1>1. \A i : valueNext(i) = value(i) /\ rateNext(i) = rate(i)
  BY DEF ValueFor, RateOf, MovingBefore
<1>2. Motion(last, q, rates) = (CHOOSE f : f = R(f))[last]
  BY DEF Motion
<1>3. (Motion(call.last, call.q, call.rates))' = (CHOOSE f : f = Next(f))[last]
  BY DEF Motion, ValueFor, RateOf, MovingBefore
<1> HIDE DEF value, rate, valueNext, rateNext
<1>4. \A f : Next(f) = R(f)
  BY <1>1
<1> HIDE DEF R, Next
<1>5. (CHOOSE f : f = Next(f)) = (CHOOSE f : f = R(f))
  BY <1>4
<1>6. (Motion(call.last, call.q, call.rates))' = Motion(last, q, rates)
  BY <1>2, <1>3, <1>5
<1> QED
  BY <1>6 DEF MotionAgrees, AnswerIs, Tells

\* The descriptions and the chain hold joints as they may be.
ChainTyped ==
  /\ described \in Seq(JointChoices) /\ Len(described) <= MaxJoints
  /\ chain \in Seq(Built) /\ Len(chain) <= MaxJoints

LEMMA MovingIsFew ==
  ASSUME chain \in Seq(Built)
  PROVE  dof(chain) \in Nat /\ dof(chain) <= Len(chain)
<1>1. Len(chain) \in Nat
  BY LenProperties
<1>2. IsFiniteSet(1..Len(chain)) /\ Cardinality(1..Len(chain)) = Len(chain)
  <2> DEFINE m == Len(chain)
  <2>1. m \in Int /\ 1 \in Int /\ m >= 0
    BY <1>1
  <2> HIDE DEF m
  <2>2. IsFiniteSet(1..m) /\ Cardinality(1..m) = IF 1 > m THEN 0 ELSE m - 1 + 1
    BY <2>1, FS_Interval
  <2>3. Cardinality(1..m) = m
    BY <2>1, <2>2
  <2> QED
    BY <2>2, <2>3 DEF m
<1> DEFINE movers == {i \in 1..Len(chain) : Moves(chain[i])}
<1>3. movers \subseteq 1..Len(chain)
  OBVIOUS
<1>4. dof(chain) = Cardinality(movers)
  BY DEF dof
<1> HIDE DEF movers
<1>5. IsFiniteSet(movers) /\ Cardinality(movers) <= Cardinality(1..Len(chain))
  BY <1>2, <1>3, FS_Subset
<1> QED
  BY <1>2, <1>4, <1>5, FS_CardinalityType

LEMMA PartOfFunction ==
  ASSUME NEW S, NEW n \in Nat, NEW f \in [1..n -> S], NEW m \in 0..n
  PROVE  SubSeq(f, 1, m) \in [1..m -> S]
<1>1. f \in Seq(S) /\ Len(f) = n
  OBVIOUS
<1>2. SubSeq(f, 1, m) = [i \in 1..m |-> f[i]]
  BY <1>1, SubSeqProperties
<1>3. \A i \in 1..m : f[i] \in S
  OBVIOUS
<1> QED
  BY <1>2, <1>3

LEMMA ArgumentsTyped ==
  ASSUME chain \in Seq(Built), Len(chain) <= MaxJoints, NEW arguments \in Arguments
  PROVE  arguments[1] \in [1..dof(chain) -> Int] /\ arguments[2] \in [1..dof(chain) -> Int \X Int]
<1>1. PICK q \in JointPositions, rates \in Rates :
        arguments = <<SubSeq(q, 1, dof(chain)), SubSeq(rates, 1, dof(chain))>>
  BY DEF Arguments
<1>2. MaxJoints \in Nat /\ q \in [1..MaxJoints -> Int] /\ rates \in [1..MaxJoints -> Int \X Int]
  BY KinematicsAssumption
<1>3. dof(chain) \in 0..MaxJoints
  <2>1. Len(chain) \in Nat
    BY LenProperties
  <2> QED
    BY <1>2, <2>1, MovingIsFew
<1>4. SubSeq(q, 1, dof(chain)) \in [1..dof(chain) -> Int]
  BY <1>2, <1>3, PartOfFunction
<1>5. SubSeq(rates, 1, dof(chain)) \in [1..dof(chain) -> Int \X Int]
  BY <1>2, <1>3, PartOfFunction
<1> QED
  BY <1>1, <1>4, <1>5

\* A joint that is not refused is built.
LEMMA DerivedIsBuilt ==
  ASSUME NEW joint \in JointChoices, ~Refused(joint)
  PROVE  Derived(joint) \in Built
<1>1. joint \in [kind : {"fixed", "rotating", "translating"}, translation : Vectors, rotation : Rotations,
                 norm : Nat, axis : {a \in Vectors : Axial(a)}]
  BY KinematicsAssumption
<1>2. joint.axis \in Vectors /\ Axial(joint.axis)
  BY <1>1
<1>3. CASE ~Moves(joint)
  <2>1. joint \in [kind : {"fixed", "rotating", "translating"}, translation : Vectors, rotation : Rotations,
                   norm : Nat, axis : Vectors]
    BY <1>1
  <2> QED
    BY <1>3, <2>1 DEF Derived, Built
<1>4. CASE Moves(joint)
  <2> DEFINE axis == normalized(joint.axis)
             built == [joint EXCEPT !.axis = axis]
  <2>1. axis \in UnitAxes
    BY <1>2, <1>4, NormalizedIsUnit DEF Refused
  <2>2. axis \in Vectors
    BY <2>1 DEF UnitAxes
  <2>3. Derived(joint) = built
    BY <1>4 DEF Derived
  <2> HIDE DEF axis
  <2>4. built \in [kind : {"fixed", "rotating", "translating"}, translation : Vectors, rotation : Rotations,
                   norm : Nat, axis : Vectors]
    BY <1>1, <2>2
  <2>5. built.axis = axis
    BY <1>1
  <2> HIDE DEF built
  <2> QED
    BY <2>1, <2>3, <2>4, <2>5 DEF Built
<1> QED
  BY <1>3, <1>4

LEMMA ChainTypedStarts ==
  ASSUME KinematicsInit
  PROVE  ChainTyped /\ MotionAgrees
<1>1. MaxJoints \in Nat
  BY KinematicsAssumption
<1> QED
  BY <1>1 DEF KinematicsInit, ChainTyped, MotionAgrees, None

LEMMA extendKeeps ==
  ASSUME ChainTyped, extend
  PROVE  ChainTyped' /\ MotionAgrees'
<1>1. PICK joint \in JointChoices : described' = Append(described, joint)
  BY DEF extend
<1>2. Len(described) < MaxJoints /\ chain' = chain /\ answer' = None
  BY DEF extend
<1>3. described' \in Seq(JointChoices) /\ Len(described') = Len(described) + 1
  BY <1>1, AppendProperties DEF ChainTyped
<1>4. Len(described') <= MaxJoints
  <2>1. Len(described) \in Nat /\ MaxJoints \in Nat
    BY KinematicsAssumption, LenProperties DEF ChainTyped
  <2> QED
    BY <1>2, <1>3, <2>1
<1> QED
  BY <1>2, <1>3, <1>4 DEF ChainTyped, MotionAgrees, None

LEMMA buildKeeps ==
  ASSUME ChainTyped, build
  PROVE  ChainTyped' /\ MotionAgrees'
<1> DEFINE faulty == {i \in 1..Len(described) : Refused(described[i])}
<1>1. CASE described = <<>> \/ faulty # {}
  <2>1. described' = described /\ chain' = chain /\ answer'.kind = "threw"
    BY <1>1 DEF build, Threw
  <2> QED
    BY <2>1 DEF ChainTyped, MotionAgrees
<1>2. CASE ~(described = <<>> \/ faulty # {})
  <2>1. chain' = [i \in 1..Len(described) |-> Derived(described[i])] /\ described' = <<>> /\ answer' = None
    BY <1>2 DEF build
  <2>2. Len(described) \in Nat
    BY LenProperties DEF ChainTyped
  <2>3. \A i \in 1..Len(described) : Derived(described[i]) \in Built
    <3> SUFFICES ASSUME NEW i \in 1..Len(described) PROVE Derived(described[i]) \in Built
      OBVIOUS
    <3>1. described[i] \in JointChoices
      BY ElementOfSeq DEF ChainTyped
    <3>2. ~Refused(described[i])
      BY <1>2
    <3> QED
      BY <3>1, <3>2, DerivedIsBuilt
  <2>4. chain' \in Seq(Built) /\ Len(chain') = Len(described)
    BY <2>1, <2>2, <2>3
  <2>5. described' \in Seq(JointChoices) /\ Len(described') <= MaxJoints
    BY <2>1, KinematicsAssumption
  <2> QED
    BY <2>1, <2>4, <2>5 DEF ChainTyped, MotionAgrees, None
<1> QED
  BY <1>1, <1>2

LEMMA forward_kinematicsKeeps ==
  ASSUME ChainTyped, NEW kind \in {"frame", "tcp"}, forward_kinematics(kind)
  PROVE  ChainTyped' /\ MotionAgrees'
<1>1. PICK last \in (IF kind = "tcp" THEN {Len(chain)} ELSE 1..Len(chain)), arguments \in Arguments :
        LET q == arguments[1]
            rates == arguments[2]
            storage == update_chain_state(q, last, workspace)
            frame == FrameKinematics(storage, q_dot_of(rates), q_ddot_of(rates))
        IN  /\ Called(kind, last, q, rates)
            /\ workspace' = storage
            /\ answer' = IF kind = "tcp" THEN SpeedAlongPath(frame) ELSE frame
  BY DEF forward_kinematics
<1> DEFINE q == arguments[1]
           rates == arguments[2]
           frame == FrameKinematics(Walk(q, last, <<>>), q_dot_of(rates), q_ddot_of(rates))
           m == Motion(last, q, rates)
<1>2. chain # <<>> /\ chain' = chain /\ described' = described
  BY DEF forward_kinematics
<1>3. last \in 1..Len(chain)
  <2>1. Len(chain) \in Nat \ {0}
    BY <1>2, EmptySeq DEF ChainTyped
  <2> QED
    BY <2>1
<1>4. q \in [1..dof(chain) -> Int] /\ rates \in [1..dof(chain) -> Int \X Int]
  BY ArgumentsTyped DEF ChainTyped
<1>5. frame.kind = "frame" /\ frame.position = m.p /\ frame.velocity = m.v /\ frame.acceleration = m.a
  BY <1>3, <1>4, FrameAgrees DEF ChainTyped
<1>6. call'.last = last /\ call'.q = q /\ call'.rates = rates
      /\ answer' = IF kind = "tcp" THEN SpeedAlongPath(frame) ELSE frame
  BY <1>1 DEF Called, update_chain_state
<1> HIDE DEF q, rates, frame, m
<1>7. Tells(answer', m, rates)
  <2>1. CASE kind # "tcp"
    BY <1>5, <1>6, <2>1 DEF Tells
  <2>2. CASE kind = "tcp" /\ frame.velocity = zero3
    <3>1. answer' = [kind |-> "nullopt"]
      BY <1>6, <2>2 DEF SpeedAlongPath
    <3> QED
      BY <1>5, <2>2, <3>1 DEF Tells
  <2>3. CASE kind = "tcp" /\ frame.velocity # zero3
    <3>1. answer' = [kind |-> "speed", squared |-> dot(m.v, m.v), along |-> dot(m.v, m.a)]
      BY <1>5, <1>6, <2>3 DEF SpeedAlongPath
    <3>2. answer'.kind = "speed" /\ answer'.squared = dot(m.v, m.v) /\ answer'.along = dot(m.v, m.a)
      BY <3>1
    <3> QED
      BY <3>2 DEF Tells
  <2> QED
    BY <2>1, <2>2, <2>3
<1>8. MotionAgrees'
  BY <1>2, <1>6, <1>7, MotionAgreesNext DEF m
<1> QED
  BY <1>2, <1>8 DEF ChainTyped

LEMMA full_jacobianKeeps ==
  ASSUME ChainTyped, full_jacobian
  PROVE  ChainTyped' /\ MotionAgrees'
<1>1. PICK arguments \in Arguments :
        /\ Called("jacobian", Len(chain), arguments[1], arguments[2])
        /\ answer' = [kind |-> "jacobian", columns |-> jacobian(Walk(arguments[1], Len(chain), <<>>))]
  BY DEF full_jacobian
<1> DEFINE q == arguments[1]
           rates == arguments[2]
           columns == jacobian(Walk(q, Len(chain), <<>>))
           m == Motion(Len(chain), q, rates)
<1>2. chain # <<>> /\ chain' = chain /\ described' = described
  BY DEF full_jacobian
<1>3. Len(chain) # 0
  BY <1>2, EmptySeq DEF ChainTyped
<1>4. q \in [1..dof(chain) -> Int] /\ rates \in [1..dof(chain) -> Int \X Int]
  BY ArgumentsTyped DEF ChainTyped
<1>5. /\ Weighed(rates, [i \in 1..dof(chain) |-> columns[i].linear]) = m.v
      /\ Weighed(rates, [i \in 1..dof(chain) |-> columns[i].angular]) = m.spin
  BY <1>3, <1>4, JacobianAgrees DEF ChainTyped
<1>6. call'.last = Len(chain) /\ call'.q = q /\ call'.rates = rates
      /\ answer' = [kind |-> "jacobian", columns |-> columns]
  BY <1>1 DEF Called
<1> HIDE DEF q, rates, columns, m
<1>7. answer'.kind = "jacobian" /\ answer'.columns = columns
  BY <1>6
<1>8. Tells(answer', m, rates)
  BY <1>5, <1>7 DEF Tells
<1>9. MotionAgrees'
  BY <1>2, <1>6, <1>8, MotionAgreesNext DEF m
<1> QED
  BY <1>2, <1>9 DEF ChainTyped

LEMMA ChainKeeps ==
  ASSUME ChainTyped, MotionAgrees, [KinematicsNext]_kinematicsVars
  PROVE  ChainTyped' /\ MotionAgrees'
<1>1. CASE extend
  BY <1>1, extendKeeps
<1>2. CASE build
  BY <1>2, buildKeeps
<1>3. CASE forward_kinematics("frame") \/ forward_kinematics("tcp")
  BY <1>3, forward_kinematicsKeeps
<1>4. CASE forward_kinematics_refused
  BY <1>4 DEF forward_kinematics_refused, Threw, ChainTyped, MotionAgrees
<1>5. CASE full_jacobian
  BY <1>5, full_jacobianKeeps
<1>6. CASE UNCHANGED kinematicsVars
  <2>1. chain' = chain /\ described' = described /\ answer' = answer /\ call' = call
    BY <1>6 DEF kinematicsVars
  <2> DEFINE m == Motion(call.last, call.q, call.rates)
  <2>2. m = Motion(call'.last, call'.q, call'.rates)
    BY <2>1
  <2>3. answer.kind \in {"frame", "jacobian", "speed", "nullopt"} => Tells(answer, m, call.rates)
    <3>1. AnswerIs(m, call.rates) <=> Tells(answer, m, call.rates)
      BY DEF AnswerIs, Tells
    <3> QED
      BY <3>1 DEF MotionAgrees
  <2> HIDE DEF m
  <2>4. MotionAgrees'
    BY <2>1, <2>2, <2>3, MotionAgreesNext
  <2> QED
    BY <2>1, <2>4 DEF ChainTyped
<1> QED
  BY <1>1, <1>2, <1>3, <1>4, <1>5, <1>6 DEF KinematicsNext

THEOREM MotionsAgree == KinematicsSpec => []MotionAgrees
<1>1. KinematicsInit => ChainTyped /\ MotionAgrees
  BY ChainTypedStarts
<1>2. (ChainTyped /\ MotionAgrees) /\ [KinematicsNext]_kinematicsVars => (ChainTyped /\ MotionAgrees)'
  BY ChainKeeps
<1> QED
  BY <1>1, <1>2, PTL DEF KinematicsSpec

-----------------------------------------------------------------------------
(* Rigid transforms *)

Then(a, b) == compose(a, b.rotation, b.translation)

LEMMA MatrixParts ==
  ASSUME NEW r \in Matrices
  PROVE  r[1] \in Vectors /\ r[2] \in Vectors /\ r[3] \in Vectors /\ r = <<r[1], r[2], r[3]>>
BY DEF Matrices

LEMMA ProductsAssociate ==
  ASSUME NEW r \in Rotations, NEW s \in Rotations, NEW t \in Rotations
  PROVE  multiply(multiply(r, s), t) = multiply(r, multiply(s, t))
<1>1. t[1] \in Vectors /\ t[2] \in Vectors /\ t[3] \in Vectors
  BY MatricesHoldRotations, MatrixParts
<1>2. \A u \in Vectors : rotate(multiply(r, s), u) = rotate(r, rotate(s, u))
  BY RotationRules
<1>3. multiply(multiply(r, s), t) =
        <<rotate(multiply(r, s), t[1]), rotate(multiply(r, s), t[2]), rotate(multiply(r, s), t[3])>>
  BY DEF multiply
<1>4. multiply(s, t)[1] = rotate(s, t[1]) /\ multiply(s, t)[2] = rotate(s, t[2]) /\ multiply(s, t)[3] = rotate(s, t[3])
  BY DEF multiply
<1>5. multiply(r, multiply(s, t)) =
        <<rotate(r, multiply(s, t)[1]), rotate(r, multiply(s, t)[2]), rotate(r, multiply(s, t)[3])>>
  BY DEF multiply
<1> QED
  BY <1>1, <1>2, <1>3, <1>4, <1>5

LEMMA ProductsWithIdentity ==
  ASSUME NEW r \in Rotations
  PROVE  multiply(identity, r) = r /\ multiply(r, identity) = r
<1>1. r[1] \in Vectors /\ r[2] \in Vectors /\ r[3] \in Vectors /\ r = <<r[1], r[2], r[3]>>
  BY MatricesHoldRotations, MatrixParts
<1>2. multiply(identity, r) = r
  <2>1. multiply(identity, r) = <<rotate(identity, r[1]), rotate(identity, r[2]), rotate(identity, r[3])>>
    BY DEF multiply
  <2>2. rotate(identity, r[1]) = r[1] /\ rotate(identity, r[2]) = r[2] /\ rotate(identity, r[3]) = r[3]
    BY <1>1, RotateIdentity
  <2> QED
    BY <1>1, <2>1, <2>2
<1>3. multiply(r, identity) = r
  <2>1. \A u \in Vectors : by(0, u) = zero3 /\ by(1, u) = u
    BY MultipleRules, 0 \in Int
  <2>2. zero3 \in Vectors
    BY VectorOf DEF zero3
  <2>3. \A u \in Vectors : add(u, zero3) = u /\ add(zero3, u) = u
    BY <2>2, SumRules
  <2>4. rotate(r, identity[1]) = add(by(1, r[1]), add(by(0, r[2]), by(0, r[3])))
    BY DEF rotate, identity
  <2>5. rotate(r, identity[2]) = add(by(0, r[1]), add(by(1, r[2]), by(0, r[3])))
    BY DEF rotate, identity
  <2>6. rotate(r, identity[3]) = add(by(0, r[1]), add(by(0, r[2]), by(1, r[3])))
    BY DEF rotate, identity
  <2>7. rotate(r, identity[1]) = r[1] /\ rotate(r, identity[2]) = r[2] /\ rotate(r, identity[3]) = r[3]
    BY <1>1, <2>1, <2>2, <2>3, <2>4, <2>5, <2>6
  <2>8. multiply(r, identity) = <<rotate(r, identity[1]), rotate(r, identity[2]), rotate(r, identity[3])>>
    BY DEF multiply
  <2> QED
    BY <1>1, <2>7, <2>8
<1> QED
  BY <1>2, <1>3

LEMMA ThenIs ==
  ASSUME NEW a \in Poses, NEW b \in Poses
  PROVE  /\ Then(a, b) \in Poses
         /\ Then(a, b).rotation = multiply(a.rotation, b.rotation)
         /\ Then(a, b).translation = add(a.translation, rotate(a.rotation, b.translation))
<1>1. a.rotation \in Rotations /\ b.rotation \in Rotations /\ a.translation \in Vectors /\ b.translation \in Vectors
  BY DEF Poses
<1>2. multiply(a.rotation, b.rotation) \in Rotations
  BY <1>1, RotationsClosed
<1>3. add(a.translation, rotate(a.rotation, b.translation)) \in Vectors
  <2>1. rotate(a.rotation, b.translation) \in Vectors
    BY <1>1, RotationRules
  <2> QED
    BY <1>1, <2>1, VectorsClosed, 0 \in Int
<1> DEFINE R == multiply(a.rotation, b.rotation)
           T == add(a.translation, rotate(a.rotation, b.translation))
<1>4. Then(a, b) = [rotation |-> R, translation |-> T]
  BY DEF Then, compose
<1> HIDE DEF R, T
<1> QED
  BY <1>2, <1>3, <1>4 DEF Poses, R, T

LEMMA SamePose ==
  ASSUME NEW a \in Poses, NEW b \in Poses, a.rotation = b.rotation, a.translation = b.translation
  PROVE  a = b
BY DEF Poses

LEMMA NoPoseIs ==
  NoPose \in Poses /\ NoPose.rotation = identity /\ NoPose.translation = zero3
<1>1. zero3 \in Vectors
  BY VectorOf DEF zero3
<1> QED
  BY <1>1, RotationsClosed DEF NoPose, Poses

LEMMA ThenRules ==
  ASSUME NEW a \in Poses, NEW b \in Poses, NEW c \in Poses
  PROVE  /\ Then(Then(a, b), c) = Then(a, Then(b, c))
         /\ Then(NoPose, a) = a /\ Then(a, NoPose) = a
<1>1. /\ a.rotation \in Rotations /\ b.rotation \in Rotations /\ c.rotation \in Rotations
      /\ a.translation \in Vectors /\ b.translation \in Vectors /\ c.translation \in Vectors
  BY DEF Poses
<1>2. Then(Then(a, b), c) = Then(a, Then(b, c))
  <2>1. Then(a, b) \in Poses /\ Then(b, c) \in Poses
    BY ThenIs
  <2>2. Then(Then(a, b), c) \in Poses /\ Then(a, Then(b, c)) \in Poses
    BY <2>1, ThenIs
  <2>3. Then(Then(a, b), c).rotation = Then(a, Then(b, c)).rotation
    BY <1>1, <2>1, ThenIs, ProductsAssociate
  <2>4. Then(Then(a, b), c).translation = Then(a, Then(b, c)).translation
    <3> DEFINE A == a.rotation
               B == b.rotation
               x == a.translation
               y == b.translation
               z == c.translation
    <3>1. Then(Then(a, b), c).translation = add(add(x, rotate(A, y)), rotate(multiply(A, B), z))
      BY <2>1, ThenIs
    <3>2. Then(a, Then(b, c)).translation = add(x, rotate(A, add(y, rotate(B, z))))
      BY <2>1, ThenIs
    <3> HIDE DEF A, B, x, y, z
    <3>3. A \in Rotations /\ B \in Rotations /\ x \in Vectors /\ y \in Vectors /\ z \in Vectors
      BY <1>1 DEF A, B, x, y, z
    <3>4. rotate(A, y) \in Vectors /\ rotate(B, z) \in Vectors
      BY <3>3, RotationRules
    <3>5. rotate(A, rotate(B, z)) \in Vectors /\ rotate(multiply(A, B), z) = rotate(A, rotate(B, z))
      BY <3>3, <3>4, RotationRules
    <3>6. rotate(A, add(y, rotate(B, z))) = add(rotate(A, y), rotate(A, rotate(B, z)))
      BY <3>3, <3>4, RotationRules
    <3> QED
      BY <3>1, <3>2, <3>3, <3>4, <3>5, <3>6, SumRules
  <2> QED
    BY <2>2, <2>3, <2>4, SamePose
<1>3. Then(NoPose, a) = a
  <2>1. Then(NoPose, a).rotation = a.rotation
    BY <1>1, ThenIs, NoPoseIs, ProductsWithIdentity
  <2>2. Then(NoPose, a).translation = a.translation
    <3>1. Then(NoPose, a).translation = add(zero3, rotate(identity, a.translation))
      BY ThenIs, NoPoseIs
    <3>2. rotate(identity, a.translation) = a.translation
      BY <1>1, RotateIdentity
    <3> QED
      BY <1>1, <3>1, <3>2, SumRules
  <2> QED
    BY <2>1, <2>2, ThenIs, NoPoseIs, SamePose
<1>4. Then(a, NoPose) = a
  <2>1. Then(a, NoPose).rotation = a.rotation
    BY <1>1, ThenIs, NoPoseIs, ProductsWithIdentity
  <2>2. Then(a, NoPose).translation = a.translation
    <3>1. Then(a, NoPose).translation = add(a.translation, rotate(a.rotation, zero3))
      BY ThenIs, NoPoseIs
    <3>2. rotate(a.rotation, zero3) = zero3
      BY <1>1, MatricesHoldRotations, RotateIsLinear, 0 \in Int
    <3> QED
      BY <1>1, <3>1, <3>2, SumRules
  <2> QED
    BY <2>1, <2>2, ThenIs, NoPoseIs, SamePose
<1> QED
  BY <1>2, <1>3, <1>4

-----------------------------------------------------------------------------
(* The end of a chain *)

\* Joints that a chain can be built of.
Made ==
  {j \in [kind : {"fixed", "rotating", "translating"}, translation : Vectors, rotation : Rotations,
          norm : Nat, axis : Vectors] : Derived(j) \in Built}

LEMMA MovesStays ==
  ASSUME NEW j \in Made
  PROVE  /\ Moves(Derived(j)) <=> Moves(j)
         /\ Derived(j).kind = j.kind /\ Derived(j).translation = j.translation /\ Derived(j).rotation = j.rotation
BY DEF Made, Derived, Moves

\* One more joint that moves is one more.
LEMMA dofOfAppend ==
  ASSUME NEW made \in Seq(Made), NEW j \in Made
  PROVE  /\ dof(made) \in Nat
         /\ dof(Append(made, j)) = dof(made) + (IF Moves(j) THEN 1 ELSE 0)
<1> DEFINE n == Len(made)
           on == Append(made, j)
           S == {i \in 1..n : Moves(made[i])}
           T == {i \in 1..n + 1 : Moves(on[i])}
<1>1. n \in Nat /\ Len(on) = n + 1 /\ (\A i \in 1..n : on[i] = made[i]) /\ on[n + 1] = j
  BY AppendProperties, LenProperties
<1>2. dof(made) = Cardinality(S) /\ dof(on) = Cardinality(T)
  BY <1>1 DEF dof
<1> HIDE DEF n, on
<1>3. IsFiniteSet(S)
  <2>1. IsFiniteSet(1..n) /\ S \subseteq 1..n
    BY <1>1, FS_Interval
  <2> HIDE DEF S
  <2> QED
    BY <2>1, FS_Subset
<1>4. CASE Moves(j)
  <2>1. T = S \cup {n + 1} /\ n + 1 \notin S
    BY <1>1, <1>4
  <2> HIDE DEF S, T
  <2>2. Cardinality(T) = Cardinality(S) + 1
    BY <1>3, <2>1, FS_AddElement
  <2> QED
    BY <1>2, <1>3, <1>4, <2>2, FS_CardinalityType DEF on
<1>5. CASE ~Moves(j)
  <2>1. T = S
    BY <1>1, <1>5
  <2> HIDE DEF S, T
  <2> QED
    BY <1>2, <1>3, <1>5, <2>1, FS_CardinalityType DEF on
<1> QED
  BY <1>4, <1>5

LEMMA PartsOfAppend ==
  ASSUME NEW S, NEW s \in Seq(S), NEW e \in S
  PROVE  /\ \A i \in 1..Len(s) : SubSeq(Append(s, e), 1, i) = SubSeq(s, 1, i)
         /\ SubSeq(Append(s, e), 1, Len(s) + 1) = Append(s, e)
<1> DEFINE n == Len(s)
           on == Append(s, e)
<1>1. n \in Nat /\ on \in Seq(S) /\ Len(on) = n + 1 /\ (\A i \in 1..n : on[i] = s[i]) /\ on[n + 1] = e
  BY AppendProperties, LenProperties
<1> HIDE DEF on
<1>2. ASSUME NEW i \in 1..n PROVE SubSeq(on, 1, i) = SubSeq(s, 1, i)
  <2>1. SubSeq(on, 1, i) = [k \in 1..i |-> on[k]]
    BY <1>1, SubSeqProperties
  <2>2. SubSeq(s, 1, i) = [k \in 1..i |-> s[k]]
    BY <1>1, SubSeqProperties
  <2>3. \A k \in 1..i : on[k] = s[k]
    BY <1>1
  <2> QED
    BY <2>1, <2>2, <2>3
<1>3. SubSeq(on, 1, n + 1) = on
  <2>1. SubSeq(on, 1, n + 1) = [k \in 1..n + 1 |-> on[k]]
    BY <1>1, SubSeqProperties
  <2>2. on = [k \in 1..n + 1 |-> on[k]]
    BY <1>1, LenProperties
  <2> QED
    BY <2>1, <2>2
<1> QED
  BY <1>2, <1>3 DEF on

\* The value that drives joint i.
Drive(made, i, inputs) == IF Moves(Derived(made[i])) THEN inputs[dof(SubSeq(made, 1, i))] ELSE 0
Reached(x, joint, value) == Moved(compose(x, joint.rotation, joint.translation), joint, value)

EndsAt(end, made, inputs) ==
  /\ end \in [0..Len(made) -> Poses]
  /\ end[0] = NoPose
  /\ \A i \in 1..Len(made) : end[i] = Reached(end[i - 1], Derived(made[i]), Drive(made, i, inputs))

LEMMA EndIs ==
  ASSUME NEW made \in Seq(Made), NEW inputs, NEW end, EndsAt(end, made, inputs)
  PROVE  EndOfChain(made, inputs) = end[Len(made)]
<1> DEFINE n == Len(made)
           R(f) == [i \in 0..n |->
                     IF i = 0 THEN NoPose
                     ELSE LET joint == Derived(made[i])
                              value == IF Moves(joint) THEN inputs[dof(SubSeq(made, 1, i))] ELSE 0
                          IN  Moved(compose(f[i - 1], joint.rotation, joint.translation), joint, value)]
           f == CHOOSE f : f = R(f)
<1>1. EndOfChain(made, inputs) = f[n]
  BY DEF EndOfChain
<1>2. n \in Nat
  BY LenProperties
<1>3. end = R(end)
  <2>1. end = [i \in 0..n |-> end[i]]
    BY DEF EndsAt
  <2>2. ASSUME NEW i \in 0..n PROVE end[i] = R(end)[i]
    <3>1. i = 0 \/ i \in 1..n
      BY <1>2
    <3> QED
      BY <3>1, <1>2 DEF EndsAt, Reached, Drive
  <2> QED
    BY <2>1, <2>2
<1>4. f = R(f)
  BY <1>3
<1> HIDE DEF f
<1>5. f[0] = NoPose
  BY <1>2, <1>4
<1>6. \A i \in 1..n : f[i] = Reached(f[i - 1], Derived(made[i]), Drive(made, i, inputs))
  <2>1. \A i \in 1..n : i \in 0..n /\ i # 0
    BY <1>2
  <2> QED
    BY <1>4, <2>1 DEF Reached, Drive
<1> DEFINE T == {i \in 0..n : f[i] = end[i]}
<1>7. 0 \in T
  BY <1>2, <1>5 DEF EndsAt
<1>8. ASSUME NEW i \in 1..n, i - 1 \in T PROVE i \in T
  <2>1. f[i - 1] = end[i - 1] /\ i \in 0..n
    BY <1>8
  <2> QED
    BY <1>6, <2>1 DEF EndsAt
<1> HIDE DEF T
<1>9. 0..n \subseteq T
  BY <1>2, <1>7, <1>8, InductionFromZero
<1> QED
  BY <1>1, <1>2, <1>9 DEF T

LEMMA EndExtends ==
  ASSUME NEW made \in Seq(Made), NEW j \in Made, NEW inputs, NEW end, EndsAt(end, made, inputs),
         NEW x \in Poses,
         x = Reached(end[Len(made)], Derived(j), IF Moves(j) THEN inputs[dof(made) + 1] ELSE 0)
  PROVE  \E on : EndsAt(on, Append(made, j), inputs) /\ on[Len(Append(made, j))] = x
<1> DEFINE n == Len(made)
           longer == Append(made, j)
           on == [i \in 0..n + 1 |-> IF i = n + 1 THEN x ELSE end[i]]
<1>1. n \in Nat /\ Len(longer) = n + 1 /\ (\A i \in 1..n : longer[i] = made[i]) /\ longer[n + 1] = j
  BY AppendProperties, LenProperties
<1>2. end \in [0..n -> Poses]
  BY DEF EndsAt
<1>3. on \in [0..n + 1 -> Poses]
  <2>1. \A i \in 0..n + 1 : i # n + 1 => i \in 0..n
    BY <1>1
  <2> QED
    BY <1>2, <2>1
<1>4. on[0] = NoPose /\ on[n + 1] = x /\ \A i \in 0..n : on[i] = end[i]
  BY <1>1 DEF EndsAt
<1> HIDE DEF on
<1>5. ASSUME NEW i \in 1..n PROVE on[i] = Reached(on[i - 1], Derived(longer[i]), Drive(longer, i, inputs))
  <2>1. i \in 0..n /\ i - 1 \in 0..n
    BY <1>1
  <2>2. Drive(longer, i, inputs) = Drive(made, i, inputs)
    BY <1>1, PartsOfAppend DEF Drive
  <2> QED
    BY <1>1, <1>4, <2>1, <2>2 DEF EndsAt
<1>6. on[n + 1] = Reached(on[n], Derived(longer[n + 1]), Drive(longer, n + 1, inputs))
  <2>1. SubSeq(longer, 1, n + 1) = longer
    BY PartsOfAppend
  <2>2. Moves(Derived(j)) <=> Moves(j)
    BY MovesStays
  <2>3. Drive(longer, n + 1, inputs) = IF Moves(j) THEN inputs[dof(made) + 1] ELSE 0
    BY <1>1, <2>1, <2>2, dofOfAppend DEF Drive
  <2>4. on[n] = end[n]
    BY <1>1, <1>4
  <2> QED
    BY <1>1, <1>4, <2>3, <2>4
<1>7. ASSUME NEW i \in 1..n + 1 PROVE on[i] = Reached(on[i - 1], Derived(longer[i]), Drive(longer, i, inputs))
  <2>1. i \in 1..n \/ (i = n + 1 /\ i - 1 = n)
    BY <1>1
  <2> QED
    BY <1>5, <1>6, <2>1
<1> HIDE DEF longer
<1>8. EndsAt(on, longer, inputs)
  BY <1>1, <1>3, <1>4, <1>7 DEF EndsAt
<1> QED
  BY <1>1, <1>4, <1>8 DEF longer

-----------------------------------------------------------------------------
(* Elements on the way *)

\* The model takes its inputs for these joints first, and for each once.
DrivenBy(names) ==
  /\ \A m \in 1..Len(names) : m \in 1..Len(model.moveable) /\ model.moveable[m] = names[m]
  /\ \A k, l \in 1..Len(model.moveable) : model.moveable[k] = model.moveable[l] => k = l

LEMMA ModelParts ==
  ASSUME model \in Models
  PROVE  /\ Len(model.elements) \in Nat /\ model.elements \in Seq(Links \cup ArmJoints)
         /\ Elements \subseteq Links \cup ArmJoints
         /\ model.moveable \in Seq(STRING) /\ Len(model.moveable) \in 0..MaxJoints
<1>1. model.elements \in Seq(Links \cup ArmJoints) /\ model.moveable \in Seq(STRING) /\ Len(model.moveable) <= MaxJoints
  BY ArmAssumption
<1>2. Len(model.elements) \in Nat /\ Len(model.moveable) \in Nat
  BY <1>1, LenProperties
<1>3. Elements \subseteq Links \cup ArmJoints
  BY <1>1, ElementOfSeq DEF Elements
<1> QED
  BY <1>1, <1>2, <1>3, KinematicsAssumption

LEMMA ElementIs ==
  ASSUME model \in Models, NEW id \in Ids
  PROVE  /\ element(id).id = id
         /\ element(id) \in Links \/ element(id) \in ArmJoints
         /\ id \in STRING
<1>1. PICK e \in Elements : e.id = id
  BY DEF Ids
<1>2. element(id) \in Elements /\ element(id).id = id
  BY <1>1 DEF element
<1>3. element(id) \in Links \/ element(id) \in ArmJoints
  BY <1>2, ModelParts
<1> QED
  BY <1>2, <1>3 DEF Links, ArmJoints

LEMMA KindsAre ==
  /\ DOMAIN KindFor = {"revolute", "prismatic"}
  /\ KindFor["revolute"] = "rotating" /\ KindFor["prismatic"] = "translating"
BY DEF KindFor

\* An input is found at the place of its joint.
LEMMA InputIs ==
  ASSUME NEW names, DrivenBy(names), NEW m \in 1..Len(names), NEW inputs
  PROVE  InputOf(names[m], inputs) = inputs[m]
<1>1. m \in 1..Len(model.moveable) /\ model.moveable[m] = names[m]
  BY DEF DrivenBy
<1>2. \A k \in 1..Len(model.moveable) : model.moveable[k] = names[m] => k = m
  BY <1>1 DEF DrivenBy
<1>3. (CHOOSE k \in 1..Len(model.moveable) : model.moveable[k] = names[m]) = m
  BY <1>1, <1>2
<1> QED
  BY <1>3 DEF InputOf

LEMMA TransformOfJoint ==
  ASSUME NEW e \in ArmJoints, e.type \in DOMAIN KindFor, NEW inputs, InputOf(e.id, inputs) \in Int
  PROVE  /\ Local(e, inputs) \in Poses
         /\ Local(e, inputs).rotation =
              IF e.type = "revolute" THEN axis_rotation(normalized(e.axis), InputOf(e.id, inputs)) ELSE identity
         /\ Local(e, inputs).translation =
              IF e.type = "revolute" THEN zero3 ELSE by(InputOf(e.id, inputs), normalized(e.axis))
<1> DEFINE axis == normalized(e.axis)
           value == InputOf(e.id, inputs)
<1>1. axis \in UnitAxes /\ e.kind = "joint"
  BY NormalizedIsUnit DEF ArmJoints
<1>2. axis \in Vectors
  BY <1>1 DEF UnitAxes
<1>3. zero3 \in Vectors /\ identity \in Rotations
  BY VectorOf, RotationsClosed DEF zero3
<1>4. axis_rotation(axis, value) \in Rotations
  BY <1>1, TurnsAreRotations
<1>5. by(value, axis) \in Vectors
  BY <1>2, VectorsClosed
<1>6. CASE e.type = "revolute"
  <2>1. Local(e, inputs) = [NoPose EXCEPT !.rotation = axis_rotation(axis, value)]
    BY <1>1, <1>6 DEF Local
  <2> HIDE DEF axis, value
  <2>2. Local(e, inputs) = [rotation |-> axis_rotation(axis, value), translation |-> zero3]
    BY <2>1 DEF NoPose
  <2>3. Local(e, inputs) \in Poses
    BY <1>3, <1>4, <2>2 DEF Poses
  <2>4. Local(e, inputs).rotation = axis_rotation(axis, value) /\ Local(e, inputs).translation = zero3
    BY <2>2
  <2> QED
    BY <1>6, <2>3, <2>4 DEF axis, value
<1>7. CASE e.type = "prismatic"
  <2>1. Local(e, inputs) = [NoPose EXCEPT !.translation = by(value, axis)]
    BY <1>1, <1>7 DEF Local
  <2> HIDE DEF axis, value
  <2>2. Local(e, inputs) = [rotation |-> identity, translation |-> by(value, axis)]
    BY <2>1 DEF NoPose
  <2>3. Local(e, inputs) \in Poses
    BY <1>3, <1>5, <2>2 DEF Poses
  <2>4. Local(e, inputs).rotation = identity /\ Local(e, inputs).translation = by(value, axis)
    BY <2>2
  <2> QED
    BY <1>7, <2>3, <2>4 DEF axis, value
<1> QED
  BY <1>6, <1>7, KindsAre

\* A joint of the chain moves as the joint of the model does, behind the origin it is given.
LEMMA JointMovesAlike ==
  ASSUME NEW e \in ArmJoints, e.type \in DOMAIN KindFor, NEW inputs, NEW value \in Int, InputOf(e.id, inputs) = value,
         NEW x \in Poses, NEW pose \in Poses
  PROVE  LET j == JointAt(KindFor[e.type], pose, e.axis)
         IN  /\ j \in Made /\ Moves(j)
             /\ Reached(x, Derived(j), value) = Then(Then(x, pose), Local(e, inputs))
<1> DEFINE j == JointAt(KindFor[e.type], pose, e.axis)
           d == Derived(j)
           axis == normalized(e.axis)
           at == Then(x, pose)
           l == Local(e, inputs)
<1>1. e.axis \in Vectors /\ Axial(e.axis) /\ norm(e.axis) # 0
  BY DEF ArmJoints
<1>2. axis \in UnitAxes /\ axis \in Vectors
  BY <1>1, NormalizedIsUnit DEF UnitAxes
<1>3. pose.rotation \in Rotations /\ pose.translation \in Vectors
  BY DEF Poses
<1>4. KindFor[e.type] \in {"rotating", "translating"} /\ (e.type = "revolute" <=> KindFor[e.type] = "rotating")
  BY KindsAre
<1>5. j = [kind |-> KindFor[e.type], translation |-> pose.translation, rotation |-> pose.rotation, norm |-> 1,
           axis |-> e.axis]
  BY DEF JointAt
<1>6. Moves(j) /\ j.kind = KindFor[e.type] /\ j.axis = e.axis
  BY <1>4, <1>5 DEF Moves
<1>7. d = [kind |-> KindFor[e.type], translation |-> pose.translation, rotation |-> pose.rotation, norm |-> 1,
           axis |-> axis]
  <2>1. d = [j EXCEPT !.axis = axis]
    BY <1>6 DEF Derived
  <2> HIDE DEF d, axis
  <2> QED
    BY <1>5, <2>1
<1> HIDE DEF d, axis, at, l
<1>8. d \in Built
  BY <1>2, <1>3, <1>4, <1>7 DEF Built
<1>9. j \in Made
  <2>1. j \in [kind : {"fixed", "rotating", "translating"}, translation : Vectors, rotation : Rotations,
               norm : Nat, axis : Vectors]
    BY <1>1, <1>3, <1>4, <1>5
  <2> QED
    BY <1>8, <2>1 DEF Made, d
<1>10. at \in Poses /\ l \in Poses
  BY ThenIs, TransformOfJoint DEF at, l
<1>11. at.rotation \in Rotations /\ at.translation \in Vectors
  BY <1>10 DEF Poses
<1>12. d.kind = KindFor[e.type] /\ d.axis = axis /\ d.rotation = pose.rotation /\ d.translation = pose.translation
  BY <1>7
<1>13. Reached(x, d, value) = Moved(at, d, value)
  BY <1>12 DEF Reached, at, Then
<1>14. l.rotation = (IF e.type = "revolute" THEN axis_rotation(axis, value) ELSE identity)
       /\ l.translation = (IF e.type = "revolute" THEN zero3 ELSE by(value, axis))
  BY TransformOfJoint DEF l, axis
<1>15. Then(at, l) \in Poses /\ Then(at, l).rotation = multiply(at.rotation, l.rotation)
       /\ Then(at, l).translation = add(at.translation, rotate(at.rotation, l.translation))
  BY <1>10, ThenIs
<1>16. Then(at, l) = [rotation |-> multiply(at.rotation, l.rotation),
                      translation |-> add(at.translation, rotate(at.rotation, l.translation))]
  BY <1>15 DEF Poses
<1>17. at = [rotation |-> at.rotation, translation |-> at.translation]
  BY <1>10 DEF Poses
<1>18. CASE e.type = "revolute"
  <2>1. Moved(at, d, value) = [at EXCEPT !.rotation = multiply(@, axis_rotation(axis, value))]
    BY <1>4, <1>12, <1>18 DEF Moved
  <2>2. Moved(at, d, value) = [rotation |-> multiply(at.rotation, axis_rotation(axis, value)),
                               translation |-> at.translation]
    BY <1>17, <2>1
  <2>3. rotate(at.rotation, zero3) = zero3 /\ add(at.translation, zero3) = at.translation
    <3>1. rotate(at.rotation, zero3) = zero3
      BY <1>2, <1>11, MatricesHoldRotations, RotateIsLinear, 0 \in Int
    <3> QED
      BY <1>11, <3>1, SumRules
  <2> QED
    BY <1>6, <1>9, <1>13, <1>14, <1>16, <1>18, <2>2, <2>3 DEF at, l, d
<1>19. CASE e.type # "revolute"
  <2>1. Moved(at, d, value) = [at EXCEPT !.translation = add(@, by(value, rotate(at.rotation, axis)))]
    BY <1>4, <1>12, <1>19 DEF Moved
  <2>2. Moved(at, d, value) = [rotation |-> at.rotation,
                               translation |-> add(at.translation, by(value, rotate(at.rotation, axis)))]
    BY <1>17, <2>1
  <2>3. rotate(at.rotation, by(value, axis)) = by(value, rotate(at.rotation, axis))
    BY <1>2, <1>11, RotationRules
  <2>4. multiply(at.rotation, identity) = at.rotation
    BY <1>11, ProductsWithIdentity
  <2> QED
    BY <1>6, <1>9, <1>13, <1>14, <1>16, <1>19, <2>2, <2>3, <2>4 DEF at, l, d
<1> QED
  BY <1>18, <1>19

-----------------------------------------------------------------------------
(* The way to the output frame *)

\* The frames from one of them down to the output frame.
LineOf(line) ==
  /\ line \in Seq(Ids) /\ Len(line) # 0 /\ line[Len(line)] = Output
  /\ \A k \in 2..Len(line) : element(line[k]).parent = line[k - 1]
  /\ \A k, l \in 1..Len(line) : line[k] = line[l] => k = l

Rooted(line) == element(line[1]).parent \notin Ids

LocalAt(line, k, inputs) == Local(element(line[k]), inputs)

\* The poses that the model gives to the first frames of a line.
PosesAlong(at, line, c, inputs) ==
  /\ at \in [0..c -> Poses]
  /\ at[0] = NoPose
  /\ \A k \in 1..c : LocalAt(line, k, inputs) \in Poses /\ at[k] = Then(at[k - 1], LocalAt(line, k, inputs))

LEMMA PlacesAreShared ==
  ASSUME NEW n \in Nat, NEW m \in Nat, m < n, NEW f \in [1..n -> 1..m]
  PROVE  \E k, l \in 1..n : k # l /\ f[k] = f[l]
<1>1. IsFiniteSet(1..n) /\ Cardinality(1..n) = n
  BY FS_Interval
<1>2. IsFiniteSet(1..m) /\ Cardinality(1..m) = m
  BY FS_Interval
<1> QED
  BY <1>1, <1>2, FS_PigeonHole

LEMMA LinesAreShort ==
  ASSUME model \in Models, NEW line, LineOf(line)
  PROVE  /\ Len(line) \in Nat \ {0} /\ Len(line) <= Len(model.elements)
         /\ \A k \in 1..Len(line) : line[k] \in Ids
<1> DEFINE n == Len(line)
           N == Len(model.elements)
<1>1. line \in Seq(Ids) /\ n # 0 /\ N \in Nat
  BY ModelParts DEF LineOf
<1>2. n \in Nat /\ \A k \in 1..n : line[k] \in Ids
  BY <1>1, LenProperties, ElementOfSeq
<1>3. \A k \in 1..n : \E i \in 1..N : model.elements[i].id = line[k]
  BY <1>2 DEF Ids, Elements
<1> DEFINE place == [k \in 1..n |-> CHOOSE i \in 1..N : model.elements[i].id = line[k]]
<1>4. \A k \in 1..n : place[k] \in 1..N /\ model.elements[place[k]].id = line[k]
  BY <1>3
<1>5. place \in [1..n -> 1..N]
  BY <1>4
<1> HIDE DEF place
<1>6. \A k, l \in 1..n : place[k] = place[l] => k = l
  BY <1>4 DEF LineOf
<1>7. n <= N
  <2>1. SUFFICES ASSUME N < n PROVE FALSE
    BY <1>1, <1>2
  <2>2. \E k, l \in 1..n : k # l /\ place[k] = place[l]
    <3> HIDE DEF n, N
    <3> QED
      BY <1>1, <1>2, <1>5, <2>1, PlacesAreShared
  <2> QED
    BY <1>6, <2>2
<1> QED
  BY <1>1, <1>2, <1>7

\* The pose of the output frame as seen from the frames above it, one after the other.
SeenFrom(below, line, n, inputs) ==
  /\ below \in [0..n - 1 -> Poses]
  /\ below[0] = LocalAt(line, n, inputs)
  /\ \A i \in 1..n - 1 : below[i] = Then(LocalAt(line, n - i, inputs), below[i - 1])

LEMMA SeenFromRoot ==
  ASSUME NEW line, NEW n \in Nat \ {0}, NEW inputs, NEW at, PosesAlong(at, line, n, inputs)
  PROVE  \E below : SeenFrom(below, line, n, inputs) /\ below[n - 1] = at[n]
<1> DEFINE L(k) == LocalAt(line, k, inputs)
           step == [i \in 1..n - 1 |-> [x \in Poses |-> Then(L(n - i), x)]]
<1>1. \A k \in 1..n : L(k) \in Poses /\ at[k] = Then(at[k - 1], L(k))
  BY DEF PosesAlong
<1>2. at[0] = NoPose /\ \A k \in 0..n : at[k] \in Poses
  BY DEF PosesAlong
<1> HIDE DEF L
<1>3. \A i \in 1..n - 1 : n - i \in 1..n /\ n - i - 1 \in 0..n
  OBVIOUS
<1>4. \A i \in 1..n - 1 : \A x \in Poses : step[i][x] = Then(L(n - i), x) /\ step[i][x] \in Poses
  BY <1>1, <1>3, ThenIs
<1>5. n - 1 \in Nat /\ L(n) \in Poses
  BY <1>1
<1> HIDE DEF step
<1>6. PICK below \in [0..n - 1 -> Poses] : Recurs(below, n - 1, L(n), step)
  BY <1>4, <1>5, RecursionFromZero
<1>7. below[0] = L(n) /\ \A i \in 0..n - 1 : below[i] \in Poses
  BY <1>5, <1>6 DEF Recurs
<1>8. \A i \in 1..n - 1 : below[i] = Then(L(n - i), below[i - 1])
  <2>1. \A i \in 1..n - 1 : i - 1 \in 0..n - 1
    OBVIOUS
  <2> QED
    BY <1>4, <1>6, <1>7, <2>1 DEF Recurs
<1> DEFINE T == {i \in 0..n - 1 : Then(at[n - i - 1], below[i]) = at[n]}
<1>9. 0 \in T
  BY <1>1, <1>5, <1>7
<1>10. ASSUME NEW i \in 1..n - 1, i - 1 \in T PROVE i \in T
  <2>1. Then(at[n - i], below[i - 1]) = at[n]
    <3>1. n - (i - 1) - 1 = n - i
      OBVIOUS
    <3> QED
      BY <1>10, <3>1
  <2>2. at[n - i] = Then(at[n - i - 1], L(n - i))
    BY <1>1, <1>3
  <2>3. at[n - i - 1] \in Poses /\ L(n - i) \in Poses /\ below[i - 1] \in Poses
    BY <1>1, <1>2, <1>3, <1>7
  <2>4. Then(at[n - i - 1], Then(L(n - i), below[i - 1])) = Then(Then(at[n - i - 1], L(n - i)), below[i - 1])
    BY <2>3, ThenRules
  <2> QED
    BY <1>8, <2>1, <2>2, <2>4
<1> HIDE DEF T
<1>11. n - 1 \in T
  BY <1>5, <1>9, <1>10, InductionFromZero
<1>12. below[n - 1] = at[n]
  <2>1. Then(at[n - (n - 1) - 1], below[n - 1]) = at[n] /\ n - (n - 1) - 1 = 0
    BY <1>11 DEF T
  <2> QED
    BY <1>2, <1>5, <1>7, <2>1, ThenRules
<1> QED
  BY <1>6, <1>7, <1>8, <1>12 DEF SeenFrom, L

\* The pose of the output frame is what the poses along its line lead to.
LEMMA TransformIs ==
  ASSUME model \in Models, NEW line, LineOf(line), Rooted(line), NEW inputs, NEW at,
         PosesAlong(at, line, Len(line), inputs)
  PROVE  Transform(Output, inputs) = at[Len(line)]
<1> DEFINE n == Len(line)
           N == Len(model.elements)
           R(f) == [i \in 0..N |->
                     IF i = 0 THEN [frame |-> Output, pose |-> Local(element(Output), inputs)]
                     ELSE LET below == f[i - 1]
                              parent == element(below.frame).parent
                          IN  IF parent \in Ids
                                THEN [frame |-> parent,
                                      pose |-> compose(Local(element(parent), inputs), below.pose.rotation,
                                                       below.pose.translation)]
                                ELSE below]
           f == CHOOSE f : f = R(f)
<1>1. Transform(Output, inputs) = f[N].pose
  BY DEF Transform
<1>2. n \in Nat \ {0} /\ N \in Nat /\ n <= N /\ \A k \in 1..n : line[k] \in Ids
  BY LinesAreShort, ModelParts
<1>3. PICK below : SeenFrom(below, line, n, inputs) /\ below[n - 1] = at[n]
  BY <1>2, SeenFromRoot
<1> DEFINE g == [i \in 0..N |-> [frame |-> IF i < n THEN line[n - i] ELSE line[1],
                                 pose |-> IF i < n THEN below[i] ELSE at[n]]]
<1>4. \A i \in 0..N : /\ g[i].frame = (IF i < n THEN line[n - i] ELSE line[1])
                      /\ g[i].pose = (IF i < n THEN below[i] ELSE at[n])
                      /\ g[i] = [frame |-> g[i].frame, pose |-> g[i].pose]
  OBVIOUS
<1> HIDE DEF n
<1>5. g = R(g)
  <2>1. g = [i \in 0..N |-> g[i]]
    OBVIOUS
  <2> HIDE DEF g
  <2>2. g[0] = [frame |-> Output, pose |-> Local(element(Output), inputs)]
    <3>1. 0 \in 0..N /\ 0 < n /\ n - 0 = n
      BY <1>2
    <3>2. line[n] = Output
      BY DEF LineOf, n
    <3>3. below[0] = Local(element(line[n]), inputs)
      BY <1>3 DEF SeenFrom, LocalAt
    <3>4. g[0].frame = Output /\ g[0].pose = Local(element(Output), inputs)
      BY <1>4, <3>1, <3>2, <3>3
    <3> QED
      BY <1>4, <3>1, <3>4
  <2>3. ASSUME NEW i \in 1..N, i < n PROVE g[i] = R(g)[i]
    <3>1. i \in 0..N /\ i - 1 \in 0..N /\ i - 1 < n /\ i # 0 /\ n - (i - 1) \in 2..n /\ n - i \in 1..n /\ i \in 1..n - 1
          /\ n - (i - 1) - 1 = n - i
      BY <1>2, <2>3
    <3>2. g[i - 1].frame = line[n - (i - 1)] /\ g[i - 1].pose = below[i - 1]
      BY <1>4, <3>1
    <3>3. element(line[n - (i - 1)]).parent = line[n - i]
      BY <3>1 DEF LineOf, n
    <3>4. line[n - i] \in Ids
      BY <1>2, <3>1
    <3>5. below[i] = compose(Local(element(line[n - i]), inputs), below[i - 1].rotation, below[i - 1].translation)
      BY <1>3, <3>1 DEF SeenFrom, LocalAt, Then
    <3>6. g[i] = [frame |-> line[n - i], pose |-> below[i]]
      BY <1>4, <2>3, <3>1
    <3> QED
      BY <3>1, <3>2, <3>3, <3>4, <3>5, <3>6
  <2>4. ASSUME NEW i \in 1..N, n <= i PROVE g[i] = R(g)[i]
    <3>1. i \in 0..N /\ i - 1 \in 0..N /\ i # 0 /\ ~(i < n)
      BY <1>2, <2>4
    <3>2. g[i].frame = line[1] /\ g[i].pose = at[n]
      BY <1>4, <3>1
    <3>3. g[i - 1].frame = line[1] /\ g[i - 1].pose = at[n]
      <4>1. CASE i = n
        <5>1. i - 1 < n /\ n - (i - 1) = 1 /\ i - 1 = n - 1
          BY <1>2, <4>1
        <5> QED
          BY <1>3, <1>4, <3>1, <5>1
      <4>2. CASE n < i
        <5>1. ~(i - 1 < n)
          BY <1>2, <4>2
        <5> QED
          BY <1>4, <3>1, <5>1
      <4> QED
        BY <1>2, <2>4, <4>1, <4>2
    <3>4. element(line[1]).parent \notin Ids
      BY DEF Rooted
    <3>5. g[i] = g[i - 1]
      BY <1>4, <3>1, <3>2, <3>3
    <3> QED
      BY <3>1, <3>3, <3>4, <3>5
  <2>5. ASSUME NEW i \in 0..N PROVE g[i] = R(g)[i]
    <3>1. i = 0 \/ (i \in 1..N /\ (i < n \/ n <= i))
      BY <1>2
    <3> QED
      BY <1>2, <2>2, <2>3, <2>4, <3>1
  <2> QED
    BY <2>1, <2>5
<1>6. f = R(f)
  BY <1>5
<1> HIDE DEF f, g
<1>7. f[0] = g[0]
  BY <1>2, <1>5, <1>6
<1>8. ASSUME NEW i \in 1..N, f[i - 1] = g[i - 1] PROVE f[i] = g[i]
  <2>1. i \in 0..N /\ i # 0
    BY <1>2
  <2>2. R(f)[i] = R(g)[i]
    BY <1>8, <2>1
  <2> QED
    BY <1>5, <1>6, <2>2
<1> DEFINE T == {i \in 0..N : f[i] = g[i]}
<1>9. 0 \in T /\ \A i \in 1..N : i - 1 \in T => i \in T
  BY <1>2, <1>7, <1>8
<1> HIDE DEF T, R
<1>10. N \in T
  <2> HIDE DEF N
  <2>1. 0..N \subseteq T
    BY <1>2, <1>9, InductionFromZero
  <2> QED
    BY <1>2, <2>1
<1>11. f[N] = g[N]
  BY <1>10 DEF T
<1>12. g[N].pose = at[n]
  <2>1. N \in 0..N /\ (N < n \/ N = n \/ n < N) /\ ~(N < n)
    BY <1>2
  <2> QED
    BY <1>4, <2>1 DEF g
<1> QED
  BY <1>1, <1>11, <1>12 DEF n

-----------------------------------------------------------------------------
(* The conversion *)

\* Each of the names is that of one of the first frames, and of one alone.
NamedAlong(names, line, c) ==
  /\ \A m \in 1..Len(names) : \E k \in 1..c : names[m] = line[k]
  /\ \A m, l \in 1..Len(names) : names[m] = names[l] => m = l

\* Where the chain has its end, behind the origin of the next joint, the model has a frame.
Meets(line, c, made, after, inputs) ==
  \E at, end : /\ PosesAlong(at, line, c, inputs)
               /\ EndsAt(end, made, inputs)
               /\ Then(end[Len(made)], after) = at[c]

Meeting(line, c, names, made, after) ==
  DrivenBy(names) => \A inputs \in JointPositions : Meets(line, c, made, after, inputs)

\* The conversion of the first frames of a line.
Converted(line, c, names, made, after) ==
  /\ c \in 0..Len(line)
  /\ names \in Seq(STRING) /\ made \in Seq(Made) /\ after \in Poses
  /\ dof(made) = Len(names)
  /\ NamedAlong(names, line, c)
  /\ Meeting(line, c, names, made, after)

LEMMA PosesExtend ==
  ASSUME NEW line, NEW c \in Nat, NEW inputs, NEW at, PosesAlong(at, line, c, inputs),
         LocalAt(line, c + 1, inputs) \in Poses
  PROVE  \E on : /\ PosesAlong(on, line, c + 1, inputs)
                 /\ on[c + 1] = Then(at[c], LocalAt(line, c + 1, inputs))
<1> DEFINE L(k) == LocalAt(line, k, inputs)
           on == [k \in 0..c + 1 |-> IF k = c + 1 THEN Then(at[c], L(c + 1)) ELSE at[k]]
<1>1. at \in [0..c -> Poses] /\ at[0] = NoPose /\ \A k \in 1..c : L(k) \in Poses /\ at[k] = Then(at[k - 1], L(k))
  BY DEF PosesAlong
<1> HIDE DEF L
<1>2. Then(at[c], L(c + 1)) \in Poses
  BY <1>1, ThenIs DEF L
<1>3. on \in [0..c + 1 -> Poses]
  <2>1. \A k \in 0..c + 1 : k # c + 1 => k \in 0..c
    OBVIOUS
  <2> QED
    BY <1>1, <1>2, <2>1
<1>4. on[c + 1] = Then(at[c], L(c + 1)) /\ \A k \in 0..c : on[k] = at[k]
  OBVIOUS
<1> HIDE DEF on
<1>5. ASSUME NEW k \in 1..c + 1 PROVE L(k) \in Poses /\ on[k] = Then(on[k - 1], L(k))
  <2>1. k = c + 1 \/ k \in 1..c
    OBVIOUS
  <2>2. k - 1 \in 0..c
    OBVIOUS
  <2>3. CASE k = c + 1
    <3>1. k - 1 = c
      BY <2>3
    <3> QED
      BY <1>4, <2>2, <2>3, <3>1 DEF L
  <2>4. CASE k \in 1..c
    <3>1. k \in 0..c
      BY <2>4
    <3> QED
      BY <1>1, <1>4, <2>2, <2>4, <3>1
  <2> QED
    BY <2>1, <2>3, <2>4
<1>6. on[0] = NoPose
  BY <1>1, <1>4
<1>7. PosesAlong(on, line, c + 1, inputs)
  BY <1>3, <1>5, <1>6 DEF PosesAlong, L
<1> QED
  BY <1>4, <1>7 DEF L

LEMMA ConversionStarts ==
  ASSUME NEW line, Len(line) \in Nat
  PROVE  Converted(line, 0, <<>>, <<>>, NoPose)
<1> DEFINE start == [k \in 0..0 |-> NoPose]
<1>1. start \in [0..0 -> Poses] /\ start[0] = NoPose /\ NoPose \in Poses
  BY NoPoseIs
<1> HIDE DEF start
<1>2. Len(<<>>) = 0 /\ <<>> \in Seq(STRING) /\ <<>> \in Seq(Made)
  BY EmptySeq
<1>3. dof(<<>>) = 0
  <2>1. {i \in 1..Len(<<>>) : Moves(<<>>[i])} = {}
    BY <1>2
  <2> QED
    BY <2>1, FS_EmptySet DEF dof
<1>4. NamedAlong(<<>>, line, 0)
  BY <1>2 DEF NamedAlong
<1>5. ASSUME NEW inputs PROVE Meets(line, 0, <<>>, NoPose, inputs)
  <2>1. PosesAlong(start, line, 0, inputs)
    BY <1>1 DEF PosesAlong
  <2>2. EndsAt(start, <<>>, inputs)
    BY <1>1, <1>2 DEF EndsAt
  <2>3. Then(start[Len(<<>>)], NoPose) = start[0]
    BY <1>1, <1>2, ThenRules
  <2> QED
    BY <2>1, <2>2, <2>3 DEF Meets
<1>6. Meeting(line, 0, <<>>, <<>>, NoPose)
  BY <1>5 DEF Meeting
<1>7. 0 \in 0..Len(line)
  OBVIOUS
<1> QED
  BY <1>1, <1>2, <1>3, <1>4, <1>6, <1>7 DEF Converted

\* Behind a link the next joint has its origin further on.
LEMMA LinkConverted ==
  ASSUME NEW line, Len(line) \in Nat, NEW c, NEW names, NEW made, NEW after, Converted(line, c, names, made, after),
         c < Len(line), element(line[c + 1]) \in Links
  PROVE  Converted(line, c + 1, names, made, Then(after, element(line[c + 1]).pose))
<1> DEFINE pose == element(line[c + 1]).pose
<1>1. /\ c \in 0..Len(line) /\ names \in Seq(STRING) /\ made \in Seq(Made) /\ after \in Poses
      /\ dof(made) = Len(names) /\ NamedAlong(names, line, c) /\ Meeting(line, c, names, made, after)
  BY DEF Converted
<1>2. c \in Nat /\ c + 1 \in 0..Len(line)
  BY <1>1
<1>3. pose \in Poses /\ element(line[c + 1]).kind = "link"
  BY DEF Links
<1>4. \A inputs : LocalAt(line, c + 1, inputs) = pose
  BY <1>3 DEF LocalAt, Local
<1> HIDE DEF pose
<1>5. Then(after, pose) \in Poses
  BY <1>1, <1>3, ThenIs
<1>6. NamedAlong(names, line, c + 1)
  <2>1. \A k \in 1..c : k \in 1..c + 1
    BY <1>2
  <2> QED
    BY <1>1, <2>1 DEF NamedAlong
<1>7. ASSUME NEW inputs, Meets(line, c, made, after, inputs)
      PROVE  Meets(line, c + 1, made, Then(after, pose), inputs)
  <2>1. PICK at, end : /\ PosesAlong(at, line, c, inputs) /\ EndsAt(end, made, inputs)
                       /\ Then(end[Len(made)], after) = at[c]
    BY <1>7 DEF Meets
  <2>2. PICK on : PosesAlong(on, line, c + 1, inputs) /\ on[c + 1] = Then(at[c], pose)
    BY <1>2, <1>3, <1>4, <2>1, PosesExtend
  <2>3. end[Len(made)] \in Poses
    BY <1>1, <2>1, LenProperties DEF EndsAt
  <2>4. Then(end[Len(made)], Then(after, pose)) = Then(Then(end[Len(made)], after), pose)
    BY <1>1, <1>3, <2>3, ThenRules
  <2> QED
    BY <2>1, <2>2, <2>4 DEF Meets
<1>8. Meeting(line, c + 1, names, made, Then(after, pose))
  BY <1>1, <1>7 DEF Meeting
<1> QED
  BY <1>1, <1>2, <1>5, <1>6, <1>8 DEF Converted, pose

LEMMA OneMoreDriven ==
  ASSUME model \in Models, NEW names \in Seq(STRING), NEW id \in STRING, DrivenBy(Append(names, id)),
         NEW inputs \in JointPositions
  PROVE  /\ DrivenBy(names)
         /\ InputOf(id, inputs) = inputs[Len(names) + 1]
         /\ inputs[Len(names) + 1] \in Int
<1> DEFINE more == Append(names, id)
           m == Len(names) + 1
<1>1. Len(names) \in Nat /\ Len(more) = m /\ more[m] = id /\ \A k \in 1..Len(names) : more[k] = names[k]
  <2>1. Len(more) = m /\ more[m] = id /\ \A k \in 1..Len(names) : more[k] = names[k]
    BY ONLY AppendProperties, names \in Seq(STRING), id \in STRING
  <2> QED
    BY <2>1, LenProperties
<1>2. \A k \in 1..Len(names) : k \in 1..Len(more)
  BY <1>1
<1>3. m \in 1..Len(more)
  BY <1>1
<1> HIDE DEF more, m
<1>4. DrivenBy(more)
  BY DEF more
<1>5. DrivenBy(names)
  BY <1>1, <1>2, <1>4 DEF DrivenBy
<1>6. InputOf(id, inputs) = inputs[m]
  BY <1>1, <1>3, <1>4, InputIs
<1>7. m \in 1..MaxJoints
  <2>1. m \in 1..Len(model.moveable)
    BY <1>3, <1>4 DEF DrivenBy
  <2>2. Len(model.moveable) \in 0..MaxJoints /\ MaxJoints \in Nat
    BY ModelParts, KinematicsAssumption
  <2> QED
    BY <2>1, <2>2
<1>8. inputs \in [1..MaxJoints -> Int]
  BY KinematicsAssumption
<1> QED
  BY <1>5, <1>6, <1>7, <1>8 DEF m

LEMMA OneMoreNamed ==
  ASSUME NEW line, Len(line) \in Nat, NEW c \in Nat, c < Len(line), NEW names \in Seq(STRING),
         NamedAlong(names, line, c), \A k, l \in 1..Len(line) : line[k] = line[l] => k = l, line[c + 1] \in STRING
  PROVE  NamedAlong(Append(names, line[c + 1]), line, c + 1)
<1> DEFINE more == Append(names, line[c + 1])
           n == Len(names)
<1>1. n \in Nat /\ Len(more) = n + 1 /\ more[n + 1] = line[c + 1] /\ \A k \in 1..n : more[k] = names[k]
  BY AppendProperties, LenProperties
<1> HIDE DEF more
<1>2. ASSUME NEW m \in 1..n PROVE more[m] # line[c + 1] /\ \E k \in 1..c + 1 : more[m] = line[k]
  <2>1. PICK k \in 1..c : names[m] = line[k]
    BY DEF NamedAlong
  <2>2. k \in 1..Len(line) /\ c + 1 \in 1..Len(line) /\ k # c + 1 /\ k \in 1..c + 1
    OBVIOUS
  <2> QED
    BY <1>1, <2>1, <2>2
<1>3. ASSUME NEW m \in 1..n, NEW l \in 1..n, more[m] = more[l] PROVE m = l
  BY <1>1, <1>3 DEF NamedAlong
<1>4. \A m \in 1..n + 1 : m = n + 1 \/ m \in 1..n
  BY <1>1
<1>5. \A m \in 1..n + 1 : \E k \in 1..c + 1 : more[m] = line[k]
  <2>1. c + 1 \in 1..c + 1
    OBVIOUS
  <2> QED
    BY <1>1, <1>2, <1>4, <2>1
<1>6. \A m, l \in 1..n + 1 : more[m] = more[l] => m = l
  BY <1>1, <1>2, <1>3, <1>4
<1>7. NamedAlong(more, line, c + 1)
  BY <1>1, <1>5, <1>6 DEF NamedAlong
<1> QED
  BY <1>7 DEF more

\* A joint takes the origin that has come together and leaves none behind.
LEMMA JointConverted ==
  ASSUME model \in Models, NEW line, LineOf(line), NEW c, NEW names, NEW made, NEW after,
         Converted(line, c, names, made, after), c < Len(line),
         element(line[c + 1]) \in ArmJoints, element(line[c + 1]).type \in DOMAIN KindFor
  PROVE  LET e == element(line[c + 1])
         IN  Converted(line, c + 1, Append(names, e.id), Append(made, JointAt(KindFor[e.type], after, e.axis)), NoPose)
<1> DEFINE e == element(line[c + 1])
           j == JointAt(KindFor[e.type], after, e.axis)
           id == line[c + 1]
           more == Append(names, id)
           longer == Append(made, j)
<1>1. /\ c \in 0..Len(line) /\ names \in Seq(STRING) /\ made \in Seq(Made) /\ after \in Poses
      /\ dof(made) = Len(names) /\ NamedAlong(names, line, c) /\ Meeting(line, c, names, made, after)
  BY DEF Converted
<1>2. Len(line) \in Nat /\ c \in Nat /\ c + 1 \in 0..Len(line) /\ c + 1 \in 1..Len(line)
  BY <1>1, LinesAreShort
<1>3. id \in Ids /\ id \in STRING /\ e.id = id
  BY <1>2, LinesAreShort, ElementIs
<1>4. e \in ArmJoints /\ e.type \in DOMAIN KindFor
  OBVIOUS
<1> HIDE DEF e, id
<1>5. j \in Made /\ Moves(j)
  <2>1. KindFor[e.type] \in {"rotating", "translating"}
    BY <1>4, KindsAre
  <2>2. j = [kind |-> KindFor[e.type], translation |-> after.translation, rotation |-> after.rotation, norm |-> 1,
             axis |-> e.axis]
    BY DEF JointAt
  <2>3. e.axis \in Vectors /\ normalized(e.axis) \in UnitAxes /\ normalized(e.axis) \in Vectors
    BY <1>4, NormalizedIsUnit DEF ArmJoints, UnitAxes
  <2>4. after.rotation \in Rotations /\ after.translation \in Vectors
    BY <1>1 DEF Poses
  <2>5. Moves(j) /\ j.kind = KindFor[e.type] /\ j.axis = e.axis
    BY <2>1, <2>2 DEF Moves
  <2>6. Derived(j) = [kind |-> KindFor[e.type], translation |-> after.translation, rotation |-> after.rotation,
                      norm |-> 1, axis |-> normalized(e.axis)]
    <3> DEFINE axis == normalized(e.axis)
    <3>1. Derived(j) = [j EXCEPT !.axis = axis]
      BY <2>5 DEF Derived
    <3> HIDE DEF axis
    <3>2. Derived(j) = [kind |-> KindFor[e.type], translation |-> after.translation, rotation |-> after.rotation,
                        norm |-> 1, axis |-> axis]
      BY <2>2, <3>1
    <3> QED
      BY <3>2 DEF axis
  <2>7. Derived(j) \in Built
    BY <2>1, <2>3, <2>4, <2>6 DEF Built
  <2> HIDE DEF j
  <2>8. j \in [kind : {"fixed", "rotating", "translating"}, translation : Vectors, rotation : Rotations,
               norm : Nat, axis : Vectors]
    BY <2>1, <2>2, <2>3, <2>4
  <2> QED
    BY <2>5, <2>7, <2>8 DEF Made
<1> HIDE DEF j
<1>6. longer \in Seq(Made) /\ dof(longer) = dof(made) + 1 /\ dof(made) \in Nat
  BY <1>1, <1>5, dofOfAppend, AppendProperties
<1>7. more \in Seq(STRING) /\ Len(more) = Len(names) + 1
  BY <1>1, <1>3, AppendProperties
<1>8. NamedAlong(more, line, c + 1)
  BY <1>1, <1>2, <1>3, OneMoreNamed DEF LineOf, id
<1> HIDE DEF more, longer
<1>9. ASSUME DrivenBy(more), NEW inputs \in JointPositions
      PROVE  Meets(line, c + 1, longer, NoPose, inputs)
  <2> DEFINE value == inputs[Len(names) + 1]
             l == Local(e, inputs)
  <2>1. DrivenBy(names) /\ InputOf(id, inputs) = value /\ value \in Int
    BY <1>1, <1>3, <1>9, OneMoreDriven DEF more
  <2>2. PICK at, end : /\ PosesAlong(at, line, c, inputs) /\ EndsAt(end, made, inputs)
                       /\ Then(end[Len(made)], after) = at[c]
    BY <1>1, <2>1 DEF Meeting, Meets
  <2>3. end[Len(made)] \in Poses
    BY <1>1, <2>2, LenProperties DEF EndsAt
  <2> DEFINE x == end[Len(made)]
             y == Reached(x, Derived(j), value)
  <2>4. l \in Poses
    BY <1>3, <1>4, <2>1, TransformOfJoint
  <2>5. LocalAt(line, c + 1, inputs) = l
    BY DEF LocalAt, e
  <2>6. y = Then(Then(x, after), l)
    BY <1>1, <1>3, <1>4, <2>1, <2>3, JointMovesAlike DEF j
  <2>7. y \in Poses
    BY <1>1, <2>3, <2>4, <2>6, ThenIs
  <2>8. y = Reached(end[Len(made)], Derived(j), IF Moves(j) THEN inputs[dof(made) + 1] ELSE 0)
    BY <1>1, <1>5
  <2> HIDE DEF l, x, y
  <2>9. PICK onto : EndsAt(onto, longer, inputs) /\ onto[Len(longer)] = y
    BY <1>1, <1>5, <2>2, <2>7, <2>8, EndExtends DEF longer
  <2>10. PICK on : PosesAlong(on, line, c + 1, inputs) /\ on[c + 1] = Then(at[c], l)
    BY <1>2, <2>2, <2>4, <2>5, PosesExtend
  <2>11. Then(onto[Len(longer)], NoPose) = on[c + 1]
    BY <2>2, <2>6, <2>7, <2>9, <2>10, ThenRules DEF x
  <2> QED
    BY <2>9, <2>10, <2>11 DEF Meets
<1>10. Meeting(line, c + 1, more, longer, NoPose)
  BY <1>9 DEF Meeting
<1>11. dof(longer) = Len(more)
  BY <1>1, <1>6, <1>7
<1>12. Converted(line, c + 1, more, longer, NoPose)
  BY <1>2, <1>6, <1>7, <1>8, <1>10, <1>11, NoPoseIs DEF Converted
<1> QED
  BY <1>3, <1>12 DEF more, longer, j, e

\* The joint that carries the tool ends the chain.
LEMMA ToolConverted ==
  ASSUME model \in Models, tool \in Poses, NEW line, LineOf(line), Rooted(line), NEW names, NEW made, NEW after,
         Converted(line, Len(line), names, made, after), names = model.moveable, NEW inputs \in JointPositions
  PROVE  EndOfChain(Append(made, JointAt("fixed", Then(after, tool), zero3)), inputs) = ToolOf(inputs)
<1> DEFINE n == Len(line)
           pose == Then(after, tool)
           j == JointAt("fixed", pose, zero3)
           longer == Append(made, j)
<1>1. /\ names \in Seq(STRING) /\ made \in Seq(Made) /\ after \in Poses
      /\ dof(made) = Len(names) /\ NamedAlong(names, line, n) /\ Meeting(line, n, names, made, after)
  BY DEF Converted
<1>2. DrivenBy(names)
  BY <1>1 DEF DrivenBy, NamedAlong
<1>3. PICK at, end : /\ PosesAlong(at, line, n, inputs) /\ EndsAt(end, made, inputs)
                     /\ Then(end[Len(made)], after) = at[n]
  BY <1>1, <1>2 DEF Meeting, Meets
<1>4. Transform(Output, inputs) = at[n]
  BY <1>3, TransformIs
<1>5. end[Len(made)] \in Poses
  BY <1>1, <1>3, LenProperties DEF EndsAt
<1>6. pose \in Poses
  BY <1>1, ThenIs
<1>7. j \in Made /\ Derived(j) = j /\ ~Moves(j) /\ j.kind = "fixed" /\ j.translation = pose.translation
      /\ j.rotation = pose.rotation
  <2> HIDE DEF pose
  <2>1. j = [kind |-> "fixed", translation |-> pose.translation, rotation |-> pose.rotation, norm |-> 1,
             axis |-> zero3]
    BY DEF JointAt
  <2>2. pose.rotation \in Rotations /\ pose.translation \in Vectors /\ zero3 \in Vectors
    BY <1>6, VectorOf DEF Poses, zero3
  <2> HIDE DEF j
  <2>3. ~Moves(j) /\ j.kind = "fixed" /\ j.translation = pose.translation /\ j.rotation = pose.rotation
    BY <2>1 DEF Moves
  <2>4. Derived(j) = j
    BY <2>3 DEF Derived
  <2>5. j \in [kind : {"fixed", "rotating", "translating"}, translation : Vectors, rotation : Rotations,
               norm : Nat, axis : Vectors]
    BY <2>1, <2>2
  <2>6. j \in Built
    BY <2>3, <2>5 DEF Built
  <2> QED
    BY <2>3, <2>4, <2>5, <2>6 DEF Made
<1> HIDE DEF pose, j
<1>8. Reached(end[Len(made)], Derived(j), 0) = Then(end[Len(made)], pose)
  BY <1>7 DEF Reached, Moved, Then
<1>9. Then(end[Len(made)], pose) \in Poses
  BY <1>5, <1>6, ThenIs
<1>10. Then(end[Len(made)], pose)
         = Reached(end[Len(made)], Derived(j), IF Moves(j) THEN inputs[dof(made) + 1] ELSE 0)
  BY <1>7, <1>8
<1>11. PICK on : EndsAt(on, longer, inputs) /\ on[Len(longer)] = Then(end[Len(made)], pose)
  BY <1>1, <1>3, <1>7, <1>9, <1>10, EndExtends
<1>12. longer \in Seq(Made)
  BY <1>1, <1>7, AppendProperties
<1>13. EndOfChain(longer, inputs) = Then(end[Len(made)], pose)
  BY <1>11, <1>12, EndIs
<1>14. Then(end[Len(made)], pose) = Then(at[n], tool)
  BY <1>1, <1>3, <1>5, ThenRules DEF pose
<1>15. ToolOf(inputs) = Then(at[n], tool)
  BY <1>4 DEF ToolOf, Then
<1> QED
  BY <1>13, <1>14, <1>15 DEF j, pose

-----------------------------------------------------------------------------
(* The invariant of the conversion *)

\* On the way down the frames that are left are the rest of a line.
Left(line, c) == Len(path) = Len(line) - c /\ \A k \in 1..Len(path) : path[k] = line[c + k]
ConvertedTo(line, c, names, made, after) ==
  /\ LineOf(line) /\ Rooted(line) /\ Converted(line, c, names, made, after)
Descending ==
  \E line, c, names, made, after :
    /\ ConvertedTo(line, c, names, made, after)
    /\ Left(line, c) /\ path \in Seq(Ids)
    /\ names = moving /\ made = joints /\ after = origin

Fresh == origin = NoPose /\ joints = <<>> /\ moving = <<>>

ArmInv ==
  /\ model \in Models /\ tool \in Poses
  /\ walk \in {"start", "up", "down"} => outcome = "none"
  /\ walk \in {"start", "up"} => Fresh
  /\ walk = "up" => LineOf(path)
  /\ walk = "down" => Descending
  /\ ToolAgrees

LEMMA SameElements ==
  ASSUME model' = model
  PROVE  /\ Elements' = Elements /\ Ids' = Ids /\ Output' = Output
         /\ \A id : (element(id))' = element(id)
<1>1. Elements' = Elements
  BY DEF Elements
<1>2. Ids' = Ids
  BY <1>1 DEF Ids
<1>3. Leaves' = Leaves
  BY <1>1, <1>2 DEF Leaves
<1>4. outputFrameOf' = outputFrameOf
  BY <1>2, <1>3 DEF outputFrameOf
<1>5. Output' = Output
  BY <1>4 DEF Output
<1>6. \A id : (element(id))' = element(id)
  BY <1>1 DEF element
<1> QED
  BY <1>1, <1>2, <1>5, <1>6

LEMMA SameConversion ==
  ASSUME model' = model, NEW line, NEW c, NEW names, NEW made, NEW after
  PROVE  /\ LineOf(line) => LineOf(line)'
         /\ ConvertedTo(line, c, names, made, after) => ConvertedTo(line, c, names, made, after)'
<1>1. Ids' = Ids /\ Output' = Output /\ \A id : (element(id))' = element(id)
  BY SameElements
<1>2. LineOf(line) => LineOf(line)'
  BY <1>1 DEF LineOf
<1>3. Rooted(line) => Rooted(line)'
  BY <1>1 DEF Rooted
<1>4. DrivenBy(names)' => DrivenBy(names)
  BY DEF DrivenBy
<1>5. ASSUME NEW k, NEW inputs PROVE LocalAt(line, k, inputs)' = LocalAt(line, k, inputs)
  <2>1. \A id : InputOf(id, inputs)' = InputOf(id, inputs)
    BY DEF InputOf
  <2>2. element(line[k])' = element(line[k])
    BY <1>1
  <2> QED
    BY <2>1, <2>2 DEF LocalAt, Local
<1>6. ASSUME NEW at, NEW inputs PROVE PosesAlong(at, line, c, inputs)' <=> PosesAlong(at, line, c, inputs)
  BY <1>5 DEF PosesAlong
<1>7. ASSUME NEW inputs, Meets(line, c, made, after, inputs) PROVE Meets(line, c, made, after, inputs)'
  BY <1>6, <1>7 DEF Meets
<1>8. Meeting(line, c, names, made, after) => Meeting(line, c, names, made, after)'
  BY <1>4, <1>7 DEF Meeting
<1> QED
  BY <1>2, <1>3, <1>8 DEF ConvertedTo, Converted

LEMMA SameTool ==
  ASSUME model' = model, tool' = tool, NEW inputs
  PROVE  ToolOf(inputs)' = ToolOf(inputs)
<1>1. Ids' = Ids /\ Output' = Output /\ \A id : (element(id))' = element(id)
  BY SameElements
<1>2. \A id : InputOf(id, inputs)' = InputOf(id, inputs)
  BY DEF InputOf
<1>3. \A id : Local(element(id), inputs)' = Local(element(id), inputs)
  BY <1>1, <1>2 DEF Local
<1> DEFINE N == Len(model.elements)
           R(f) == [i \in 0..N |->
                     IF i = 0 THEN [frame |-> Output, pose |-> Local(element(Output), inputs)]
                     ELSE LET below == f[i - 1]
                              parent == element(below.frame).parent
                          IN  IF parent \in Ids
                                THEN [frame |-> parent,
                                      pose |-> compose(Local(element(parent), inputs), below.pose.rotation,
                                                       below.pose.translation)]
                                ELSE below]
<1>4. \A f : R(f)' = R(f)
  BY <1>1, <1>3
<1>5. Transform(Output, inputs) = (CHOOSE f : f = R(f))[N].pose
  BY DEF Transform
<1>6. Transform(Output, inputs)' = (CHOOSE f : f = R(f)')[N'].pose
  BY DEF Transform
<1> HIDE DEF R
<1>7. (CHOOSE f : f = R(f)') = (CHOOSE f : f = R(f))
  BY <1>4
<1>8. Transform(Output, inputs)' = Transform(Output, inputs)
  BY <1>5, <1>6, <1>7
<1> QED
  BY <1>8 DEF ToolOf

LEMMA ToolAgreesStays ==
  ASSUME ToolAgrees, UNCHANGED armVars
  PROVE  ToolAgrees'
<1>1. model' = model /\ tool' = tool /\ outcome' = outcome /\ joints' = joints
  BY DEF armVars
<1> QED
  BY <1>1, SameTool DEF ToolAgrees

\* A conversion that fails returns no joints.
LEMMA FailKeeps ==
  ASSUME ArmInv, NEW why, why # "joints", Fail(why)
  PROVE  ArmInv'
<1>1. /\ model' = model /\ tool' = tool /\ walk' = "done" /\ outcome' = why
  BY DEF Fail
<1>2. ToolAgrees'
  BY <1>1 DEF ToolAgrees
<1> QED
  BY <1>1, <1>2 DEF ArmInv

LEMMA JointsFromModelKeeps ==
  ASSUME ArmInv, JointsFromModel
  PROVE  ArmInv'
<1>1. walk = "start" /\ model \in Models /\ tool \in Poses /\ outcome = "none" /\ Fresh
  BY DEF ArmInv, JointsFromModel
<1>2. CASE \E why \in {"no configuration", "named twice", "no output frame"} : Fail(why)
  BY <1>2, FailKeeps
<1>3. CASE /\ outputFrameOf # {} /\ walk' = "up" /\ path' = <<CHOOSE id \in outputFrameOf : TRUE>>
           /\ UNCHANGED <<model, tool, origin, joints, moving, outcome>>
  <2> DEFINE line == <<Output>>
  <2>1. path' = line /\ model' = model /\ tool' = tool /\ origin' = origin /\ joints' = joints /\ moving' = moving
        /\ outcome' = "none" /\ walk' = "up"
    BY <1>1, <1>3 DEF Output
  <2>2. Output \in Ids
    BY <1>3 DEF Output, outputFrameOf, Leaves
  <2>3. LineOf(line)
    <3>1. line \in Seq(Ids) /\ Len(line) = 1 /\ line[1] = Output
      BY <2>2
    <3> HIDE DEF line
    <3>2. \A k \in 1..1 : k = 1
      OBVIOUS
    <3> QED
      BY <3>1, <3>2 DEF LineOf
  <2>4. LineOf(path)'
    <3>1. \A l : LineOf(l) => LineOf(l)'
      BY <2>1, SameConversion
    <3> QED
      BY <2>1, <2>3, <3>1
  <2>5. Fresh'
    BY <1>1, <2>1 DEF Fresh, NoPose
  <2>6. ToolAgrees'
    BY <2>1 DEF ToolAgrees
  <2> QED
    BY <1>1, <2>1, <2>4, <2>5, <2>6 DEF ArmInv
<1> QED
  BY <1>2, <1>3 DEF JointsFromModel

LEMMA LineExtends ==
  ASSUME model \in Models, NEW line, LineOf(line), NEW id \in Ids, element(line[1]).parent = id,
         \A k \in 1..Len(line) : line[k] # id
  PROVE  LineOf(<<id>> \o line)
<1> DEFINE n == Len(line)
           longer == <<id>> \o line
<1>1. line \in Seq(Ids) /\ n \in Nat \ {0} /\ line[n] = Output
  BY LinesAreShort DEF LineOf
<1>2. <<id>> \in Seq(Ids) /\ Len(<<id>>) = 1 /\ <<id>>[1] = id
  OBVIOUS
<1>3. longer \in Seq(Ids) /\ Len(longer) = 1 + n
      /\ \A k \in 1..1 + n : longer[k] = IF k <= 1 THEN <<id>>[k] ELSE line[k - 1]
  BY <1>1, <1>2, ConcatProperties
<1> HIDE DEF longer, n
<1>4. longer[1] = id /\ \A k \in 2..1 + n : longer[k] = line[k - 1]
  <2>1. 1 \in 1..1 + n /\ \A k \in 2..1 + n : k \in 1..1 + n /\ ~(k <= 1)
    BY <1>1
  <2> QED
    BY <1>2, <1>3, <2>1
<1>5. longer[1 + n] = Output
  <2>1. 1 + n \in 2..1 + n /\ 1 + n - 1 = n
    BY <1>1
  <2> QED
    BY <1>1, <1>4, <2>1
<1>6. ASSUME NEW k \in 2..1 + n PROVE element(longer[k]).parent = longer[k - 1]
  <2>1. CASE k = 2
    BY <1>4, <2>1
  <2>2. CASE k # 2
    <3>1. k - 1 \in 2..n /\ k - 1 \in 2..1 + n
      BY <1>1, <2>2
    <3>2. element(line[k - 1]).parent = line[k - 1 - 1]
      BY <3>1 DEF LineOf, n
    <3> QED
      BY <1>4, <3>1, <3>2
  <2> QED
    BY <2>1, <2>2
<1>7. ASSUME NEW k \in 2..1 + n PROVE longer[k] # longer[1]
  <2>1. k - 1 \in 1..n
    BY <1>1
  <2> QED
    BY <1>4, <2>1 DEF n
<1>8. ASSUME NEW k \in 2..1 + n, NEW l \in 2..1 + n, longer[k] = longer[l] PROVE k = l
  <2>1. k - 1 \in 1..n /\ l - 1 \in 1..n /\ line[k - 1] = line[l - 1]
    BY <1>1, <1>4, <1>8
  <2>2. k - 1 = l - 1
    BY <2>1 DEF LineOf, n
  <2> QED
    BY <2>2
<1>9. \A k \in 1..1 + n : k = 1 \/ k \in 2..1 + n
  BY <1>1
<1>10. \A k, l \in 1..1 + n : longer[k] = longer[l] => k = l
  BY <1>7, <1>8, <1>9
<1>11. LineOf(longer)
  <2>1. Len(longer) # 0
    BY <1>1, <1>3
  <2> QED
    BY <1>3, <1>5, <1>6, <1>10, <2>1 DEF LineOf
<1> QED
  BY <1>11 DEF longer

LEMMA ClimbUpKeeps ==
  ASSUME ArmInv, ClimbUp
  PROVE  ArmInv'
<1> DEFINE parent == element(Head(path)).parent
<1>1. walk = "up" /\ model \in Models /\ tool \in Poses /\ outcome = "none" /\ Fresh /\ LineOf(path)
  BY DEF ArmInv, ClimbUp
<1>2. path \in Seq(Ids) /\ Len(path) \in Nat \ {0} /\ Head(path) = path[1]
  BY <1>1, LinesAreShort DEF LineOf
<1>3. CASE Fail("cycle")
  BY <1>3, FailKeeps
<1>4. CASE parent \notin Ids /\ walk' = "down" /\ UNCHANGED <<model, tool, path, origin, joints, moving, outcome>>
  <2>1. Rooted(path)
    BY <1>2, <1>4 DEF Rooted
  <2>2. Converted(path, 0, <<>>, <<>>, NoPose)
    BY <1>2, ConversionStarts
  <2>3. ConvertedTo(path, 0, <<>>, <<>>, NoPose)
    BY <1>1, <2>1, <2>2 DEF ConvertedTo
  <2>4. PICK line : line = path
    OBVIOUS
  <2>5. ConvertedTo(line, 0, <<>>, <<>>, NoPose)'
    <3>1. NoPose' = NoPose
      BY DEF NoPose
    <3>2. \A o : ConvertedTo(line, 0, <<>>, <<>>, o) => ConvertedTo(line, 0, <<>>, <<>>, o)'
      BY <1>4, SameConversion
    <3> QED
      BY <2>3, <2>4, <3>1, <3>2
  <2>6. Left(line, 0)'
    <3>1. path' = line /\ \A k \in 1..Len(line) : 0 + k = k
      BY <1>4, <2>4
    <3>2. Len(line) - 0 = Len(line)
      BY <1>2, <2>4
    <3> QED
      BY <3>1, <3>2 DEF Left
  <2>7. path' \in Seq(Ids') /\ moving' = <<>> /\ joints' = <<>> /\ origin' = NoPose
    BY <1>1, <1>2, <1>4, SameElements DEF Fresh
  <2>8. Descending'
    BY <2>5, <2>6, <2>7 DEF Descending
  <2>9. ToolAgrees'
    BY <1>1, <1>4 DEF ToolAgrees
  <2> QED
    BY <1>1, <1>4, <2>8, <2>9 DEF ArmInv
<1>5. CASE /\ parent \in Ids /\ ~(\E k \in 1..Len(path) : path[k] = parent)
           /\ path' = <<parent>> \o path
           /\ UNCHANGED <<model, tool, walk, origin, joints, moving, outcome>>
  <2>1. LineOf(<<parent>> \o path)
    BY <1>1, <1>2, <1>5, LineExtends
  <2>2. \A l : LineOf(l) => LineOf(l)'
    BY <1>5, SameConversion
  <2>3. LineOf(path)'
    BY <1>5, <2>1, <2>2
  <2>4. Fresh'
    BY <1>1, <1>5 DEF Fresh, NoPose
  <2>5. ToolAgrees'
    BY <1>1, <1>5 DEF ToolAgrees
  <2> QED
    BY <1>1, <1>5, <2>3, <2>4, <2>5 DEF ArmInv
<1> QED
  BY <1>3, <1>4, <1>5 DEF ClimbUp

\* One frame further down.
LEMMA OneStepDown ==
  ASSUME ArmInv, walk' = "down", UNCHANGED <<model, tool, outcome>>, walk = "down", path' = Tail(path), path # <<>>,
         NEW line, NEW c, Left(line, c), path \in Seq(Ids), c \in 0..Len(line), Len(line) \in Nat,
         NEW names, NEW made, NEW after,
         ConvertedTo(line, c + 1, names, made, after), moving' = names, joints' = made, origin' = after
  PROVE  ArmInv'
<1>1. model' = model /\ tool' = tool /\ outcome' = outcome /\ outcome = "none" /\ model \in Models /\ tool \in Poses
  BY DEF ArmInv
<1>2. Len(path) = Len(line) - c /\ \A k \in 1..Len(path) : path[k] = line[c + k]
  BY DEF Left
<1>3. Tail(path) \in Seq(Ids) /\ Len(Tail(path)) = Len(path) - 1 /\ \A k \in 1..Len(Tail(path)) : Tail(path)[k] = path[k + 1]
  BY HeadTailProperties
<1>4. Left(line, c + 1)'
  <2>1. Len(path') = Len(line) - (c + 1)
    BY <1>2, <1>3
  <2>2. ASSUME NEW k \in 1..Len(path') PROVE path'[k] = line[(c + 1) + k]
    <3>1. k + 1 \in 1..Len(path) /\ c + (k + 1) = (c + 1) + k /\ k \in 1..Len(Tail(path))
      BY <1>2, <1>3
    <3> QED
      BY <1>2, <1>3, <3>1
  <2> QED
    BY <2>1, <2>2 DEF Left
<1>5. ConvertedTo(line, c + 1, names, made, after)'
  BY <1>1, SameConversion
<1>6. Descending'
  BY <1>1, <1>3, <1>4, <1>5, SameElements DEF Descending
<1>7. ToolAgrees'
  BY <1>1 DEF ToolAgrees
<1> QED
  BY <1>1, <1>6, <1>7 DEF ArmInv

LEMMA ClimbDownKeeps ==
  ASSUME ArmInv, ClimbDown
  PROVE  ArmInv'
<1>1. walk = "down" /\ path # <<>> /\ model \in Models /\ Descending
  BY DEF ArmInv, ClimbDown
<1>2. PICK line, c, names, made, after :
        /\ ConvertedTo(line, c, names, made, after) /\ Left(line, c) /\ path \in Seq(Ids)
        /\ names = moving /\ made = joints /\ after = origin
  BY <1>1 DEF Descending
<1>3. LineOf(line) /\ Rooted(line) /\ Converted(line, c, names, made, after)
  BY <1>2 DEF ConvertedTo
<1>4. Len(line) \in Nat /\ c \in 0..Len(line) /\ Len(path) = Len(line) - c /\ after \in Poses
      /\ \A k \in 1..Len(path) : path[k] = line[c + k]
  BY <1>1, <1>2, <1>3, LinesAreShort DEF Converted, Left
<1>5. c < Len(line) /\ Head(path) = line[c + 1]
  <2>1. Len(path) \in Nat \ {0} /\ Head(path) = path[1]
    BY <1>1, <1>2, EmptySeq
  <2>2. 1 \in 1..Len(path)
    BY <2>1
  <2>3. path[1] = line[c + 1]
    BY <1>4, <2>2
  <2>4. c < Len(line)
    BY <1>4, <2>1
  <2> QED
    BY <2>1, <2>3, <2>4
<1> DEFINE e == element(Head(path))
<1>6. e = element(line[c + 1]) /\ (e \in Links \/ e \in ArmJoints)
  <2>1. line[c + 1] \in Ids
    BY <1>1, <1>3, <1>4, <1>5, LinesAreShort
  <2> QED
    BY <1>1, <1>5, <2>1, ElementIs
<1> HIDE DEF e
<1>7. CASE Fail("mimic") \/ Fail("unsupported")
  BY <1>7, FailKeeps
<1>8. CASE /\ e.kind = "link" /\ origin' = Carried(e.pose) /\ path' = Tail(path)
           /\ UNCHANGED <<model, tool, walk, joints, moving, outcome>>
  <2>1. e \in Links
    BY <1>6, <1>8 DEF ArmJoints
  <2>2. Converted(line, c + 1, names, made, Then(after, e.pose))
    BY <1>3, <1>4, <1>5, <1>6, <2>1, LinkConverted
  <2>3. ConvertedTo(line, c + 1, names, made, Then(after, e.pose))
    BY <1>3, <2>2 DEF ConvertedTo
  <2>4. origin' = Then(after, e.pose)
    BY <1>2, <1>8 DEF Carried, Then
  <2>5. moving' = names /\ joints' = made /\ walk' = "down"
    BY <1>1, <1>2, <1>8
  <2> QED
    BY <1>1, <1>2, <1>4, <1>8, <2>3, <2>4, <2>5, OneStepDown
<1>9. CASE /\ e.kind # "link" /\ e.type \in DOMAIN KindFor
           /\ joints' = Append(joints, JointAt(KindFor[e.type], origin, e.axis))
           /\ moving' = Append(moving, e.id) /\ origin' = NoPose /\ path' = Tail(path)
           /\ UNCHANGED <<model, tool, walk, outcome>>
  <2> DEFINE more == Append(names, e.id)
             longer == Append(made, JointAt(KindFor[e.type], after, e.axis))
  <2>1. e \in ArmJoints
    BY <1>6, <1>9 DEF Links
  <2>2. Converted(line, c + 1, more, longer, NoPose)
    BY <1>1, <1>3, <1>4, <1>5, <1>6, <1>9, <2>1, JointConverted
  <2>3. ConvertedTo(line, c + 1, more, longer, NoPose)
    BY <1>3, <2>2 DEF ConvertedTo
  <2>4. moving' = more /\ joints' = longer /\ walk' = "down"
    BY <1>1, <1>2, <1>9
  <2> HIDE DEF more, longer
  <2> QED
    BY <1>1, <1>2, <1>4, <1>9, <2>3, <2>4, OneStepDown
<1> QED
  BY <1>7, <1>8, <1>9 DEF ClimbDown, e

LEMMA ConcludeKeeps ==
  ASSUME ArmInv, Conclude
  PROVE  ArmInv'
<1>1. walk = "down" /\ path = <<>> /\ model \in Models /\ tool \in Poses /\ Descending
  BY DEF ArmInv, Conclude
<1>2. PICK line, c, names, made, after :
        /\ ConvertedTo(line, c, names, made, after) /\ Left(line, c)
        /\ names = moving /\ made = joints /\ after = origin
  BY <1>1 DEF Descending
<1>3. LineOf(line) /\ Rooted(line) /\ Converted(line, c, names, made, after)
  BY <1>2 DEF ConvertedTo
<1>4. c = Len(line)
  <2>1. Len(line) \in Nat /\ c \in 0..Len(line) /\ 0 = Len(line) - c
    BY <1>1, <1>2, <1>3, LinesAreShort DEF Converted, Left
  <2> QED
    BY <2>1
<1>5. /\ joints' = Append(made, JointAt("fixed", Then(after, tool), zero3))
      /\ walk' = "done" /\ model' = model /\ tool' = tool
      /\ outcome' = IF names = model.moveable THEN "joints" ELSE "other joints"
  BY <1>2 DEF Conclude, Carried, Then
<1>6. ASSUME outcome' = "joints", NEW inputs \in JointPositions
      PROVE  EndOfChain(joints', inputs) = ToolOf(inputs)'
  <2>1. names = model.moveable
    BY <1>5, <1>6
  <2>2. EndOfChain(Append(made, JointAt("fixed", Then(after, tool), zero3)), inputs) = ToolOf(inputs)
    BY <1>1, <1>3, <1>4, <1>6, <2>1, ToolConverted
  <2>3. ToolOf(inputs)' = ToolOf(inputs)
    BY <1>5, SameTool
  <2> QED
    BY <1>5, <2>2, <2>3
<1>7. ToolAgrees'
  BY <1>6 DEF ToolAgrees
<1> QED
  BY <1>1, <1>5, <1>7 DEF ArmInv

LEMMA ArmStays ==
  ASSUME ArmInv, UNCHANGED armVars
  PROVE  ArmInv'
<1>1. /\ model' = model /\ tool' = tool /\ walk' = walk /\ path' = path /\ origin' = origin
      /\ joints' = joints /\ moving' = moving /\ outcome' = outcome
  BY DEF armVars
<1>2. ToolAgrees'
  BY ToolAgreesStays DEF ArmInv
<1>3. Fresh => Fresh'
  BY <1>1 DEF Fresh, NoPose
<1>4. LineOf(path) => LineOf(path)'
  <2>1. \A l : LineOf(l) => LineOf(l)'
    BY <1>1, SameConversion
  <2> QED
    BY <1>1, <2>1
<1>5. ASSUME Descending PROVE Descending'
  <2>1. PICK line, c, names, made, after :
          /\ ConvertedTo(line, c, names, made, after) /\ Left(line, c) /\ path \in Seq(Ids)
          /\ names = moving /\ made = joints /\ after = origin
    BY <1>5 DEF Descending
  <2>2. ConvertedTo(line, c, names, made, after)'
    BY <1>1, <2>1, SameConversion
  <2>3. Left(line, c)'
    BY <1>1, <2>1 DEF Left
  <2> QED
    BY <1>1, <2>1, <2>2, <2>3, SameElements DEF Descending
<1> QED
  BY <1>1, <1>2, <1>3, <1>4, <1>5 DEF ArmInv

\* Whatever the model and the tool, joints that the conversion returns make a chain with
\* its end where the model has the tool, for all inputs (ToolAgrees): the poses of links
\* before a joint, between joints and before the tool are all carried into the chain, and
\* an input reaches the joint it is for (joints.go, JointsFromModel).
THEOREM ToolsAgree == ArmSpec => []ToolAgrees
<1>1. ArmInit => ArmInv
  <2>1. SUFFICES ASSUME ArmInit PROVE ArmInv
    OBVIOUS
  <2>2. tool \in Poses
    BY <2>1, ArmAssumption DEF ArmInit
  <2> QED
    BY <2>1, <2>2 DEF ArmInit, ArmInv, Fresh, ToolAgrees
<1>2. ArmInv /\ [ArmNext]_armVars => ArmInv'
  BY JointsFromModelKeeps, ClimbUpKeeps, ClimbDownKeeps, ConcludeKeeps, ArmStays DEF ArmNext
<1>3. ArmInv => ToolAgrees
  BY DEF ArmInv
<1> QED
  BY <1>1, <1>2, <1>3, PTL DEF ArmSpec

=============================================================================
