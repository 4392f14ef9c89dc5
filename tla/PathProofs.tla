------------------------------ MODULE PathProofs ------------------------------
(***************************************************************************)
(* Proofs from the waypoints to the samples.  The waypoint store           *)
(* implements the log of rows, for every chunk size, every set of rows and *)
(* batches, and wherever chunks are allocated.  What path::create promises *)
(* of the path it builds, for all waypoints and options and whatever       *)
(* rounding adds: dropped waypoints are near it, it has no gaps, and no    *)
(* segment of it is rounding alone.  Then the cursors over a path and a    *)
(* trajectory, for every path, every trajectory and every sequence of      *)
(* seeks, queries and samples.                                             *)
(***************************************************************************)
EXTENDS WaypointStore, PathBuilder, TrajectoryCursor, SequenceTheorems, NaturalOrder, TLAPS

-----------------------------------------------------------------------------
(* Where rows live *)

LEMMA DivMod ==
  ASSUME NEW n \in Nat, NEW d \in Nat \ {0}
  PROVE  /\ n \div d \in Nat
         /\ n % d \in 0..d - 1
         /\ (n \div d) * d + (n % d) = n
<1>1. n \div d \in Nat /\ n % d \in 0..d - 1
  OBVIOUS
<1>2. (n \div d) * d + (n % d) = n
  BY Z3T(60)
<1> QED
  BY <1>1, <1>2

LEMMA DivMonotone ==
  ASSUME NEW m \in Nat, NEW n \in Nat, m <= n, NEW d \in Nat \ {0}
  PROVE  m \div d <= n \div d
<1> DEFINE p == m \div d
           q == n \div d
           r == n % d
<1>1. p \in Nat /\ p * d <= m
  BY DivMod
<1>2. q \in Nat /\ r \in 0..d - 1 /\ q * d + r = n
  BY DivMod
<1> HIDE DEF p, q, r
<1>3. p * d < (q + 1) * d
  BY <1>1, <1>2
<1>4. p < q + 1
  BY <1>1, <1>2, <1>3
<1>5. p <= q
  BY <1>1, <1>2, <1>4
<1> QED
  BY <1>5 DEF p, q

\* A row's chunk and offset, and the row again.
LEMMA RowPlace ==
  ASSUME NEW i \in Nat
  PROVE  /\ ChunkOf(i) \in Nat \ {0}
         /\ OffsetOf(i) \in 0..ChunkRows - 1
         /\ (ChunkOf(i) - 1) * ChunkRows + OffsetOf(i) = i
<1> DEFINE q == i \div ChunkRows
           r == i % ChunkRows
<1>1. ChunkRows \in Nat \ {0}
  BY StoreAssumption
<1>2. q \in Nat /\ r \in 0..ChunkRows - 1 /\ q * ChunkRows + r = i
  BY <1>1, DivMod
<1>3. ChunkOf(i) = q + 1 /\ OffsetOf(i) = r
  BY DEF ChunkOf, OffsetOf
<1> HIDE DEF q, r
<1>4. (q + 1) - 1 = q
  BY <1>2
<1> QED
  BY <1>1, <1>2, <1>3, <1>4

LEMMA FirstPlace == ChunkOf(0) = 1 /\ OffsetOf(0) = 0
<1>1. ChunkRows \in Nat \ {0}
  BY StoreAssumption
<1>2. ASSUME NEW d \in Nat \ {0} PROVE 0 \div d = 0 /\ 0 % d = 0
  OBVIOUS
<1> QED
  BY <1>1, <1>2 DEF ChunkOf, OffsetOf

-----------------------------------------------------------------------------
(* The invariant: every view is that of its row, in a chunk that is live,  *)
(* of the store's width, and in the list once.                             *)

Cells == [0..ChunkRows - 1 -> Row \cup {Blank}]

StoreInv ==
  /\ size \in Nat /\ dof_ \in Nat
  /\ chunks \in Seq(Address)
  /\ \A j, k \in 1..Len(chunks) : j # k => chunks[j] # chunks[k]
  /\ DOMAIN heap = {chunks[k] : k \in 1..Len(chunks)}
  /\ \A c \in DOMAIN heap : heap[c] \in [width : {dof_}, cells : Cells]
  /\ dof_ = 0 => chunks = <<>>
  /\ accumulator \in Seq([chunk : Address, at : 0..ChunkRows - 1])
  /\ Len(accumulator) = size
  /\ \A i \in 0..size - 1 : ChunkOf(i) <= Len(chunks) /\ accumulator[i + 1] = View(chunks, i)

\* The rows of the log.
Rows == [i \in 1..Len(accumulator) |-> Read(i)]

LEMMA RowsAreStored ==
  StoreInv => /\ Rows \in Seq(Row \cup {Blank}) /\ Len(Rows) = size
              /\ \A i \in 0..size - 1 : Rows[i + 1] = Stored(i) /\ Stored(i) \in Row \cup {Blank}
<1> SUFFICES ASSUME StoreInv
             PROVE  /\ Rows \in Seq(Row \cup {Blank}) /\ Len(Rows) = size
                    /\ \A i \in 0..size - 1 : Rows[i + 1] = Stored(i) /\ Stored(i) \in Row \cup {Blank}
  OBVIOUS
<1>1. size \in Nat /\ Len(accumulator) = size
  BY DEF StoreInv
<1>2. ASSUME NEW i \in 0..size - 1
      PROVE  Read(i + 1) = Stored(i) /\ Stored(i) \in Row \cup {Blank}
  <2>1. /\ ChunkOf(i) \in 1..Len(chunks) /\ OffsetOf(i) \in 0..ChunkRows - 1
        /\ accumulator[i + 1] = View(chunks, i)
    <3>1. i \in Nat
      BY <1>1
    <3>2. ChunkOf(i) \in Nat \ {0} /\ OffsetOf(i) \in 0..ChunkRows - 1
      BY <3>1, RowPlace
    <3>3. Len(chunks) \in Nat /\ ChunkOf(i) <= Len(chunks) /\ accumulator[i + 1] = View(chunks, i)
      BY DEF StoreInv
    <3> QED
      BY <3>2, <3>3
  <2>2. /\ accumulator[i + 1].chunk = chunks[ChunkOf(i)]
        /\ accumulator[i + 1].at = OffsetOf(i)
    BY <2>1 DEF View
  <2>3. chunks[ChunkOf(i)] \in DOMAIN heap
    BY <2>1 DEF StoreInv
  <2>4. /\ heap[chunks[ChunkOf(i)]].width = dof_
        /\ heap[chunks[ChunkOf(i)]].cells \in [0..ChunkRows - 1 -> Row \cup {Blank}]
    BY <2>3 DEF StoreInv, Cells
  <2>5. Read(i + 1) = heap[chunks[ChunkOf(i)]].cells[OffsetOf(i)]
    BY <2>2, <2>3, <2>4 DEF Read
  <2> QED
    BY <2>1, <2>4, <2>5 DEF Stored
<1>3. \A j \in 1..size : Rows[j] = Read(j) /\ Read(j) \in Row \cup {Blank}
  <2> SUFFICES ASSUME NEW j \in 1..size
               PROVE  Rows[j] = Read(j) /\ Read(j) \in Row \cup {Blank}
    OBVIOUS
  <2>1. j - 1 \in 0..size - 1 /\ (j - 1) + 1 = j
    BY <1>1
  <2> QED
    BY <1>1, <1>2, <2>1 DEF Rows
<1>4. Rows \in [1..size -> Row \cup {Blank}]
  BY <1>1, <1>3 DEF Rows
<1>5. Rows \in Seq(Row \cup {Blank}) /\ Len(Rows) = size
  BY <1>1, <1>4
<1>6. \A i \in 0..size - 1 : i + 1 \in 1..size
  BY <1>1
<1> QED
  BY <1>2, <1>3, <1>5, <1>6

-----------------------------------------------------------------------------
(* Writing rows *)

\* A write of rows after the stored ones, into the chunks that hold them.
LEMMA WriteStep ==
  ASSUME StoreInv, NEW added \in Seq(Row), NEW width \in Nat \ {0}, dof_ = 0 \/ width = dof_,
         NEW n \in Nat, size + Len(added) <= n,
         NEW g \in Allocated(n), Write(g, added, width)
  PROVE  /\ StoreInv'
         /\ Rows' = Rows \o added
<1>1. /\ size \in Nat /\ dof_ \in Nat /\ Len(added) \in Nat /\ ChunkRows \in Nat \ {0}
      /\ chunks \in Seq(Address) /\ Len(chunks) \in Nat
  BY StoreAssumption DEF StoreInv
<1>2. PICK count \in Nat :
        /\ count >= Len(chunks)
        /\ n # 0 => ChunkOf(n - 1) <= count
        /\ g \in [1..count -> Address]
        /\ \A k \in 1..Len(chunks) : g[k] = chunks[k]
        /\ \A k \in (Len(chunks) + 1)..count : g[k] \notin DOMAIN heap
        /\ \A j, k \in 1..count : j # k => g[j] # g[k]
  <2>1. n # 0 => ChunkOf(n - 1) \in Nat
    <3>1. n # 0 => n - 1 \in Nat
      OBVIOUS
    <3> QED
      BY <3>1, RowPlace
  <2> DEFINE count == IF n = 0 \/ ChunkOf(n - 1) <= Len(chunks) THEN Len(chunks) ELSE ChunkOf(n - 1)
  <2>2. count \in Nat /\ count >= Len(chunks) /\ (n # 0 => ChunkOf(n - 1) <= count)
    BY <1>1, <2>1
  <2>3. /\ g \in [1..count -> Address]
        /\ \A k \in 1..Len(chunks) : g[k] = chunks[k]
        /\ \A k \in (Len(chunks) + 1)..count : g[k] \notin DOMAIN heap
        /\ \A j, k \in 1..count : j # k => g[j] # g[k]
    BY DEF Allocated
  <2> HIDE DEF count
  <2> QED
    BY <2>2, <2>3
<1>3. g \in Seq(Address) /\ Len(g) = count
  BY <1>2
<1> DEFINE k_(c) == CHOOSE k \in 1..Len(g) : g[k] = c
           old(c) == IF c \in DOMAIN heap THEN heap[c]
                     ELSE [width |-> width, cells |-> [o \in 0..ChunkRows - 1 |-> Blank]]
           cell(c, o) == LET i == (k_(c) - 1) * ChunkRows + o IN
             IF i \in size..(size + Len(added) - 1) THEN added[i - size + 1] ELSE old(c).cells[o]
<1>4. /\ chunks' = g
      /\ heap' = [c \in {g[k] : k \in 1..Len(g)} |->
                    [old(c) EXCEPT !.cells = [o \in 0..ChunkRows - 1 |-> cell(c, o)]]]
      /\ accumulator' = accumulator \o [i \in 1..Len(added) |-> View(g, size + i - 1)]
      /\ size' = size + Len(added) /\ size' \in Nat
      /\ dof_' = width
  BY <1>1 DEF Write
<1>5. \A k \in 1..count : k_(g[k]) = k
  BY <1>2, <1>3
<1> HIDE DEF k_
<1>6. \A c \in {g[k] : k \in 1..Len(g)} : old(c) \in [width : {width}, cells : Cells]
  <2> SUFFICES ASSUME NEW c \in {g[k] : k \in 1..Len(g)}
               PROVE  old(c) \in [width : {width}, cells : Cells]
    OBVIOUS
  <2>1. CASE c \in DOMAIN heap
    <3>1. chunks # <<>>
      BY <2>1 DEF StoreInv
    <3>2. width = dof_
      BY <3>1 DEF StoreInv
    <3> QED
      BY <2>1, <3>2 DEF StoreInv
  <2>2. CASE c \notin DOMAIN heap
    BY <2>2 DEF Cells
  <2> QED
    BY <2>1, <2>2
<1>7. \A c \in {g[k] : k \in 1..Len(g)}, o \in 0..ChunkRows - 1 : cell(c, o) \in Row \cup {Blank}
  <2> SUFFICES ASSUME NEW c \in {g[k] : k \in 1..Len(g)}, NEW o \in 0..ChunkRows - 1
               PROVE  cell(c, o) \in Row \cup {Blank}
    OBVIOUS
  <2> DEFINE i == (k_(c) - 1) * ChunkRows + o
  <2>1. CASE i \in size..(size + Len(added) - 1)
    <3>1. i - size + 1 \in 1..Len(added)
      <4> HIDE DEF i
      <4> QED
        BY <1>1, <2>1
    <3>2. added[i - size + 1] \in Row
      BY <3>1, ElementOfSeq
    <3> QED
      BY <2>1, <3>2
  <2>2. CASE i \notin size..(size + Len(added) - 1)
    BY <1>6, <2>2 DEF Cells
  <2> QED
    BY <2>1, <2>2
<1> HIDE DEF old, cell
<1>8. \A c \in {g[k] : k \in 1..Len(g)} :
        /\ c \in DOMAIN heap'
        /\ heap'[c] \in [width : {width}, cells : Cells]
        /\ \A o \in 0..ChunkRows - 1 : heap'[c].cells[o] = cell(c, o)
  <2> SUFFICES ASSUME NEW c \in {g[k] : k \in 1..Len(g)}
               PROVE  /\ c \in DOMAIN heap'
                      /\ heap'[c] \in [width : {width}, cells : Cells]
                      /\ \A o \in 0..ChunkRows - 1 : heap'[c].cells[o] = cell(c, o)
    OBVIOUS
  <2>1. c \in DOMAIN heap'
        /\ heap'[c] = [old(c) EXCEPT !.cells = [o \in 0..ChunkRows - 1 |-> cell(c, o)]]
    BY <1>4
  <2>2. [o \in 0..ChunkRows - 1 |-> cell(c, o)] \in Cells
    BY <1>7 DEF Cells
  <2>3. old(c) \in [width : {width}, cells : Cells]
    BY <1>6
  <2>4. heap'[c] \in [width : {width}, cells : Cells]
        /\ heap'[c].cells = [o \in 0..ChunkRows - 1 |-> cell(c, o)]
    BY <2>1, <2>2, <2>3
  <2> QED
    BY <2>1, <2>4
<1> DEFINE views == [i \in 1..Len(added) |-> View(g, size + i - 1)]
<1>9. \A i \in 0..size + Len(added) - 1 :
        /\ ChunkOf(i) \in 1..count /\ OffsetOf(i) \in 0..ChunkRows - 1
        /\ View(g, i) \in [chunk : Address, at : 0..ChunkRows - 1]
  <2> SUFFICES ASSUME NEW i \in 0..size + Len(added) - 1
               PROVE  /\ ChunkOf(i) \in 1..count /\ OffsetOf(i) \in 0..ChunkRows - 1
                      /\ View(g, i) \in [chunk : Address, at : 0..ChunkRows - 1]
    OBVIOUS
  <2>1. i \in Nat /\ n # 0 /\ n - 1 \in Nat /\ i <= n - 1
    BY <1>1
  <2>2. i \div ChunkRows <= (n - 1) \div ChunkRows
    BY <1>1, <2>1, DivMonotone
  <2>3. ChunkOf(i) <= ChunkOf(n - 1)
    BY <1>1, <2>1, <2>2, DivMod DEF ChunkOf
  <2>4. ChunkOf(i) \in 1..count /\ OffsetOf(i) \in 0..ChunkRows - 1
    <3>1. ChunkOf(i) \in Nat \ {0} /\ ChunkOf(n - 1) \in Nat /\ OffsetOf(i) \in 0..ChunkRows - 1
      BY <2>1, RowPlace
    <3> QED
      BY <1>2, <2>1, <2>3, <3>1
  <2> QED
    BY <1>2, <2>4 DEF View
<1>10. views \in Seq([chunk : Address, at : 0..ChunkRows - 1]) /\ Len(views) = Len(added)
  <2>1. \A i \in 1..Len(added) : size + i - 1 \in 0..size + Len(added) - 1
    BY <1>1
  <2> QED
    BY <1>1, <1>9, <2>1
<1>11. /\ accumulator' \in Seq([chunk : Address, at : 0..ChunkRows - 1])
       /\ Len(accumulator') = size + Len(added)
       /\ \A j \in 1..size + Len(added) :
            accumulator'[j] = IF j <= size THEN accumulator[j] ELSE views[j - size]
  <2> HIDE DEF views
  <2>1. /\ accumulator \in Seq([chunk : Address, at : 0..ChunkRows - 1]) /\ Len(accumulator) = size
        /\ accumulator' = accumulator \o views
    BY <1>4 DEF StoreInv, views
  <2> DEFINE V == [chunk : Address, at : 0..ChunkRows - 1]
  <2>2. accumulator \in Seq(V) /\ views \in Seq(V) /\ Len(views) = Len(added)
    BY <1>10, <2>1
  <2> HIDE DEF V
  <2>3. /\ accumulator \o views \in Seq(V)
        /\ Len(accumulator \o views) = Len(accumulator) + Len(views)
        /\ \A j \in 1..Len(accumulator) + Len(views) :
             (accumulator \o views)[j]
               = IF j <= Len(accumulator) THEN accumulator[j] ELSE views[j - Len(accumulator)]
    BY <2>2, ConcatProperties
  <2> QED
    BY <2>1, <2>2, <2>3 DEF V
<1>12. \A i \in 0..size' - 1 : ChunkOf(i) <= Len(chunks') /\ accumulator'[i + 1] = View(chunks', i)
  <2> SUFFICES ASSUME NEW i \in 0..size' - 1
               PROVE  ChunkOf(i) <= Len(chunks') /\ accumulator'[i + 1] = View(chunks', i)
    OBVIOUS
  <2>0. i \in 0..size + Len(added) - 1 /\ chunks' = g
    BY <1>1, <1>4
  <2>1. ChunkOf(i) \in 1..count /\ i + 1 \in 1..size + Len(added) /\ i \in Int
    BY <1>1, <1>9, <2>0
  <2> HIDE DEF views
  <2>2. CASE i < size
    <3>1. accumulator'[i + 1] = accumulator[i + 1]
      <4>1. i + 1 <= size
        BY <1>1, <2>1, <2>2
      <4> QED
        BY <1>11, <2>1, <4>1
    <3>2. i \in 0..size - 1
      BY <1>1, <2>2
    <3>3. accumulator[i + 1] = View(chunks, i) /\ ChunkOf(i) \in 1..Len(chunks)
      BY <1>1, <2>1, <3>2 DEF StoreInv
    <3> QED
      BY <1>2, <1>3, <2>0, <2>1, <3>1, <3>3 DEF View
  <2>3. CASE ~(i < size)
    <3>1. /\ (i + 1) - size \in 1..Len(added) /\ ~(i + 1 <= size)
          /\ size + ((i + 1) - size) - 1 = i
      BY <1>1, <2>1, <2>3
    <3>2. accumulator'[i + 1] = views[(i + 1) - size]
      BY <1>11, <2>1, <3>1
    <3>3. views[(i + 1) - size] = View(g, size + ((i + 1) - size) - 1)
      BY <3>1 DEF views
    <3> QED
      BY <1>3, <2>0, <2>1, <3>1, <3>2, <3>3
  <2> QED
    BY <2>2, <2>3
<1>13. StoreInv'
  <2>1. \A j, k \in 1..Len(g) : j # k => g[j] # g[k]
    BY <1>2, <1>3
  <2>2. DOMAIN heap' = {g[k] : k \in 1..Len(g)}
    BY <1>4
  <2>3. \A c \in DOMAIN heap' : heap'[c] \in [width : {width}, cells : Cells]
    BY <1>8, <2>2
  <2>4. (dof_' = 0 => chunks' = <<>>) /\ size' \in Nat /\ dof_' \in Nat /\ Len(accumulator') = size'
    BY <1>1, <1>4, <1>11
  <2>5. \A c \in DOMAIN heap' : heap'[c] \in [width : {dof_'}, cells : Cells]
    BY <1>4, <2>3
  <2>6. chunks' \in Seq(Address) /\ \A j, k \in 1..Len(chunks') : j # k => chunks'[j] # chunks'[k]
    BY <1>3, <1>4, <2>1
  <2>7. DOMAIN heap' = {chunks'[k] : k \in 1..Len(chunks')}
    BY <1>4, <2>2
  <2>8. accumulator' \in Seq([chunk : Address, at : 0..ChunkRows - 1])
    BY <1>11
  <2> HIDE DEF views
  <2> QED
    BY <1>12, <2>4, <2>5, <2>6, <2>7, <2>8 DEF StoreInv, Cells, View, ChunkOf, OffsetOf
<1>14. \A i \in 0..size + Len(added) - 1 :
         Stored(i)' = IF i < size THEN Stored(i) ELSE added[i - size + 1]
  <2> SUFFICES ASSUME NEW i \in 0..size + Len(added) - 1
               PROVE  Stored(i)' = IF i < size THEN Stored(i) ELSE added[i - size + 1]
    OBVIOUS
  <2>1. /\ ChunkOf(i) \in 1..count /\ OffsetOf(i) \in 0..ChunkRows - 1
        /\ (ChunkOf(i) - 1) * ChunkRows + OffsetOf(i) = i /\ i \in Nat
    <3>1. i \in Nat
      BY <1>1
    <3> QED
      BY <1>9, <3>1, RowPlace
  <2> DEFINE c == g[ChunkOf(i)]
  <2>2. Stored(i)' = heap'[c].cells[OffsetOf(i)]
    BY <1>4 DEF Stored, ChunkOf, OffsetOf
  <2>3. c \in {g[k] : k \in 1..Len(g)} /\ k_(c) = ChunkOf(i)
    BY <1>3, <1>5, <2>1
  <2>4. Stored(i)' = cell(c, OffsetOf(i))
    BY <1>8, <2>1, <2>2, <2>3
  <2>5. cell(c, OffsetOf(i))
          = IF i \in size..(size + Len(added) - 1) THEN added[i - size + 1]
            ELSE old(c).cells[OffsetOf(i)]
    BY <2>1, <2>3 DEF cell
  <2>6. CASE i < size
    <3>1. i \notin size..(size + Len(added) - 1) /\ i \in 0..size - 1
      BY <1>1, <2>1, <2>6
    <3>2. ChunkOf(i) \in 1..Len(chunks)
      BY <1>1, <2>1, <3>1 DEF StoreInv
    <3>3. c = chunks[ChunkOf(i)] /\ c \in DOMAIN heap
      BY <1>2, <3>2 DEF StoreInv
    <3> QED
      BY <2>4, <2>5, <2>6, <3>1, <3>3 DEF old, Stored
  <2>7. CASE ~(i < size)
    <3>1. i \in size..(size + Len(added) - 1)
      BY <1>1, <2>1, <2>7
    <3> QED
      BY <2>4, <2>5, <2>7, <3>1
  <2> QED
    BY <2>6, <2>7
<1>15. Rows' = Rows \o added
  <2> DEFINE R == Row \cup {Blank}
  <2>1. (StoreInv =>
           /\ Rows \in Seq(Row \cup {Blank}) /\ Len(Rows) = size
           /\ \A i \in 0..size - 1 : Rows[i + 1] = Stored(i) /\ Stored(i) \in Row \cup {Blank})'
    BY RowsAreStored, PTL
  <2>2. /\ Rows' \in Seq(R) /\ Len(Rows') = size + Len(added)
        /\ \A i \in 0..size + Len(added) - 1 : Rows'[i + 1] = Stored(i)'
    <3>1. size' = size + Len(added) /\ size' \in Nat
      BY <1>4
    <3>2. /\ Rows' \in Seq(R) /\ Len(Rows') = size'
          /\ \A i \in 0..size' - 1 : Rows'[i + 1] = Stored(i)'
      BY <1>13, <2>1
    <3> QED
      BY <1>1, <3>1, <3>2
  <2>3. /\ Rows \in Seq(R) /\ Len(Rows) = size
        /\ \A i \in 0..size - 1 : Rows[i + 1] = Stored(i)
    BY RowsAreStored
  <2>4. added \in Seq(R)
    BY <1>1, ElementOfSeq
  <2> HIDE DEF R
  <2>5. /\ Rows \o added \in Seq(R) /\ Len(Rows \o added) = size + Len(added)
        /\ \A j \in 1..size + Len(added) :
             (Rows \o added)[j] = IF j <= size THEN Rows[j] ELSE added[j - size]
    BY <2>3, <2>4, ConcatProperties
  <2>6. \A j \in 1..size + Len(added) : Rows'[j] = (Rows \o added)[j]
    <3> SUFFICES ASSUME NEW j \in 1..size + Len(added)
                 PROVE  Rows'[j] = (Rows \o added)[j]
      OBVIOUS
    <3>1. /\ j - 1 \in 0..size + Len(added) - 1 /\ (j - 1) + 1 = j
          /\ (j - 1) - size + 1 = j - size /\ (j - 1 < size <=> j <= size)
          /\ j <= size => j - 1 \in 0..size - 1
      BY <1>1
    <3>2. Rows'[j] = IF j <= size THEN Stored(j - 1) ELSE added[j - size]
      BY <1>14, <2>2, <3>1
    <3> QED
      BY <2>3, <2>5, <3>1, <3>2
  <2> QED
    BY <2>2, <2>5, <2>6, SeqEqual
<1> QED
  BY <1>13, <1>15


-----------------------------------------------------------------------------
(* The steps *)

LEMMA AppendStep ==
  ASSUME StoreInv, NEW batch \in Batch, NEW from \in {0, 1},
         append(batch, from) \/ append_fails(batch, from)
  PROVE  StoreInv' /\ [Log!Next]_Rows
<1>1. /\ batch \in Seq(Row) /\ Len(batch) \in Nat \ {0} /\ from < Len(batch)
      /\ Dof[batch[1]] \in Nat \ {0}
      /\ dof_ = 0 \/ Dof[batch[1]] = dof_
      /\ size \in Nat
  <2>1. batch \in Seq(Row) /\ batch # <<>>
    BY StoreAssumption
  <2>2. Len(batch) \in Nat \ {0} /\ batch[1] \in Row
    BY <2>1, EmptySeq, LenProperties, ElementOfSeq
  <2> QED
    BY <2>1, <2>2, StoreAssumption DEF append, append_fails, Appendable, StoreInv
<1>2. PICK k \in 0..Len(batch) - from, n \in Nat :
        /\ size + k <= n
        /\ \E g \in Allocated(n) : Write(g, SubSeq(batch, from + 1, from + k), Dof[batch[1]])
  <2>1. CASE append(batch, from)
    <3>1. /\ Len(batch) - from \in 0..Len(batch) - from /\ size + Len(batch) - from \in Nat
          /\ size + (Len(batch) - from) <= size + Len(batch) - from
          /\ from + (Len(batch) - from) = Len(batch)
      BY <1>1
    <3> QED
      BY <2>1, <3>1 DEF append
  <2>2. CASE append_fails(batch, from)
    <3>1. PICK k \in 0..Len(batch) - from - 1 :
            \E g \in Allocated(size + k) \cup Allocated(size + k + 1) :
              Write(g, SubSeq(batch, from + 1, from + k), Dof[batch[1]])
      BY <2>2 DEF append_fails
    <3>2. /\ k \in 0..Len(batch) - from
          /\ size + k \in Nat /\ size + k + 1 \in Nat
          /\ size + k <= size + k /\ size + k <= size + k + 1
      BY <1>1
    <3> QED
      BY <3>1, <3>2
  <2> QED
    BY <2>1, <2>2
<1> DEFINE added == SubSeq(batch, from + 1, from + k)
<1>3. added \in Seq(Row) /\ Len(added) = k
  <2>1. \A i \in from + 1..from + k : batch[i] \in Row
    BY <1>1, ElementOfSeq
  <2>2. from + 1 \in Int /\ from + k \in Int
    OBVIOUS
  <2>3. added \in Seq(Row) /\ Len(added) = IF from + 1 <= from + k THEN from + k - (from + 1) + 1 ELSE 0
    BY <2>1, <2>2, SubSeqProperties
  <2> QED
    BY <2>3
<1>4. StoreInv' /\ Rows' = Rows \o added
  <2>1. PICK g \in Allocated(n) : Write(g, added, Dof[batch[1]])
    BY <1>2
  <2>2. added \in Seq(Row) /\ size + Len(added) <= n
    BY <1>2, <1>3
  <2> HIDE DEF added
  <2> DEFINE width == Dof[batch[1]]
  <2>3. width \in Nat \ {0} /\ (dof_ = 0 \/ width = dof_)
    BY <1>1
  <2>4. Write(g, added, width)
    BY <2>1, Zenon
  <2> HIDE DEF width
  <2> QED
    BY <2>1, <2>2, <2>3, <2>4, WriteStep
<1>5. [Log!Next]_Rows
  <2>1. CASE k = 0
    <3>1. added = <<>>
      BY <1>3, <2>1, EmptySeq
    <3>2. Rows \o <<>> = Rows
      BY RowsAreStored, ConcatEmptySeq
    <3> QED
      BY <1>4, <3>1, <3>2
  <2>2. CASE k # 0
    <3>1. from + 1 \in {1, 2} /\ from + k \in (from + 1)..Len(batch)
      BY <1>1, <2>2
    <3>2. \E f \in {1, 2} : \E last_ \in f..Len(batch) : Rows' = Rows \o SubSeq(batch, f, last_)
      BY <1>4, <3>1
    <3> QED
      BY <3>2 DEF Log!Next, Log!Grow, Rows
  <2> QED
    BY <2>1, <2>2
<1> QED
  BY <1>4, <1>5

\* Rows that stay where they are.
LEMMA KeptRows ==
  ASSUME StoreInv, StoreInv', NEW n \in 0..size, size' = n,
         \A i \in 0..n - 1 : Stored(i)' = Stored(i)
  PROVE  Rows' = SubSeq(Rows, 1, n)
<1> DEFINE R == Row \cup {Blank}
<1>1. (StoreInv =>
         /\ Rows \in Seq(Row \cup {Blank}) /\ Len(Rows) = size
         /\ \A i \in 0..size - 1 : Rows[i + 1] = Stored(i) /\ Stored(i) \in Row \cup {Blank})'
  BY RowsAreStored, PTL
<1>2. /\ size \in Nat /\ n \in Nat /\ n <= size
      /\ Rows' \in Seq(R) /\ Len(Rows') = n
      /\ \A i \in 0..n - 1 : Rows'[i + 1] = Stored(i)'
  BY <1>1 DEF StoreInv
<1>3. /\ Rows \in Seq(R) /\ Len(Rows) = size
      /\ \A i \in 0..size - 1 : Rows[i + 1] = Stored(i)
  BY RowsAreStored
<1> HIDE DEF R
<1>4. /\ SubSeq(Rows, 1, n) \in Seq(R) /\ Len(SubSeq(Rows, 1, n)) = n
      /\ \A j \in 1..n : SubSeq(Rows, 1, n)[j] = Rows[j]
  <2>1. \A j \in 1..n : Rows[j] \in R
    BY <1>2, <1>3, ElementOfSeq
  <2>2. /\ SubSeq(Rows, 1, n) \in Seq(R)
        /\ Len(SubSeq(Rows, 1, n)) = IF 1 <= n THEN n - 1 + 1 ELSE 0
        /\ \A j \in 1..n - 1 + 1 : SubSeq(Rows, 1, n)[j] = Rows[1 + j - 1]
    BY <1>2, <2>1, SubSeqProperties
  <2> QED
    BY <1>2, <2>2
<1>5. \A j \in 1..n : Rows'[j] = SubSeq(Rows, 1, n)[j]
  <2> SUFFICES ASSUME NEW j \in 1..n PROVE Rows'[j] = Rows[j]
    BY <1>4
  <2>1. j - 1 \in 0..n - 1 /\ j - 1 \in 0..size - 1 /\ (j - 1) + 1 = j
    BY <1>2
  <2>2. Rows'[j] = Stored(j - 1)' /\ Rows[j] = Stored(j - 1)
    BY <1>2, <1>3, <2>1
  <2>3. Stored(j - 1)' = Stored(j - 1)
    BY <2>1
  <2> QED
    BY <2>2, <2>3
<1> QED
  BY <1>2, <1>4, <1>5, SeqEqual

LEMMA TruncateStep ==
  ASSUME StoreInv, NEW count \in 0..MaxRows, truncate(count)
  PROVE  StoreInv' /\ Log!Next
<1>1. /\ size \in Nat /\ count \in 0..size /\ count \in Nat
      /\ size' = count
      /\ accumulator' = SubSeq(accumulator, 1, count)
  BY StoreAssumption DEF truncate, StoreInv
<1>2. /\ accumulator' \in Seq([chunk : Address, at : 0..ChunkRows - 1])
      /\ Len(accumulator') = count
      /\ \A i \in 1..count : accumulator'[i] = accumulator[i]
  <2> DEFINE V == [chunk : Address, at : 0..ChunkRows - 1]
  <2>1. accumulator \in Seq(V) /\ Len(accumulator) = size
    BY DEF StoreInv
  <2> HIDE DEF V
  <2>2. \A i \in 1..count : accumulator[i] \in V
    BY <1>1, <2>1, ElementOfSeq
  <2>3. /\ SubSeq(accumulator, 1, count) \in Seq(V)
        /\ Len(SubSeq(accumulator, 1, count)) = IF 1 <= count THEN count - 1 + 1 ELSE 0
        /\ \A i \in 1..count - 1 + 1 : SubSeq(accumulator, 1, count)[i] = accumulator[1 + i - 1]
    BY <1>1, <2>2, SubSeqProperties
  <2> QED
    BY <1>1, <2>3 DEF V
<1>3. StoreInv'
  <2>1. CASE count = 0
    <3>1. heap' = <<>> /\ chunks' = <<>> /\ dof_' = 0
      BY <2>1 DEF truncate
    <3>2. DOMAIN <<>> = {} /\ Len(<<>>) = 0 /\ <<>> \in Seq(Address)
      OBVIOUS
    <3> QED
      BY <1>1, <1>2, <2>1, <3>1, <3>2 DEF StoreInv
  <2>2. CASE count # 0
    <3>1. UNCHANGED <<heap, chunks, dof_>>
      BY <2>2 DEF truncate
    <3>2. \A i \in 0..count - 1 : ChunkOf(i) <= Len(chunks) /\ accumulator'[i + 1] = View(chunks, i)
      <4> SUFFICES ASSUME NEW i \in 0..count - 1
                   PROVE  ChunkOf(i) <= Len(chunks) /\ accumulator'[i + 1] = View(chunks, i)
        OBVIOUS
      <4>1. i + 1 \in 1..count /\ i \in 0..size - 1
        BY <1>1
      <4> QED
        BY <1>2, <4>1 DEF StoreInv
    <3>3. /\ size' \in Nat /\ dof_' \in Nat /\ Len(accumulator') = size'
          /\ \A i \in 0..size' - 1 : ChunkOf(i) <= Len(chunks') /\ accumulator'[i + 1] = View(chunks', i)
      BY <1>1, <1>2, <3>1, <3>2 DEF StoreInv, View
    <3>4. /\ chunks' \in Seq(Address)
          /\ \A j, k \in 1..Len(chunks') : j # k => chunks'[j] # chunks'[k]
          /\ DOMAIN heap' = {chunks'[k] : k \in 1..Len(chunks')}
          /\ \A c \in DOMAIN heap' : heap'[c] \in [width : {dof_'}, cells : Cells]
          /\ dof_' = 0 => chunks' = <<>>
      <4>1. heap' = heap /\ chunks' = chunks /\ dof_' = dof_
        BY <3>1
      <4>2. /\ chunks \in Seq(Address)
            /\ \A j, k \in 1..Len(chunks) : j # k => chunks[j] # chunks[k]
            /\ DOMAIN heap = {chunks[k] : k \in 1..Len(chunks)}
            /\ \A c \in DOMAIN heap : heap[c] \in [width : {dof_}, cells : Cells]
            /\ dof_ = 0 => chunks = <<>>
        BY DEF StoreInv
      <4> QED
        BY <4>1, <4>2
    <3> QED
      BY <1>2, <3>3, <3>4 DEF StoreInv, Cells, View, ChunkOf, OffsetOf
  <2> QED
    BY <2>1, <2>2
<1>4. Rows' = SubSeq(Rows, 1, count)
  <2>1. \A i \in 0..count - 1 : Stored(i)' = Stored(i)
    <3> SUFFICES ASSUME NEW i \in 0..count - 1 PROVE Stored(i)' = Stored(i)
      OBVIOUS
    <3>1. count # 0
      BY <1>1
    <3>2. UNCHANGED <<heap, chunks>>
      BY <3>1 DEF truncate
    <3> QED
      BY <3>2 DEF Stored, ChunkOf, OffsetOf
  <2> QED
    BY <1>1, <1>3, <2>1, KeptRows
<1>5. count \in 0..Len(Rows)
  BY <1>1, RowsAreStored
<1> QED
  BY <1>3, <1>4, <1>5 DEF Log!Next, Log!Shrink, Rows

LEMMA ResetStep ==
  ASSUME StoreInv, reset_to_last
  PROVE  StoreInv' /\ Log!Next
<1>1. /\ size \in Nat /\ size > 1
      /\ heap' = [heap EXCEPT ![chunks[1]].cells[0] = last]
      /\ size' = 1
      /\ accumulator' = <<View(chunks, 0)>>
      /\ UNCHANGED <<chunks, dof_>>
  BY DEF reset_to_last, StoreInv
<1>2. /\ 1 \in 1..Len(chunks) /\ chunks[1] \in DOMAIN heap /\ chunks[1] \in Address
      /\ heap[chunks[1]] \in [width : {dof_}, cells : Cells]
      /\ ChunkRows \in Nat \ {0} /\ 0 \in 0..ChunkRows - 1
  <2>1. 0 \in 0..size - 1
    BY <1>1
  <2>2. ChunkOf(0) <= Len(chunks) /\ Len(chunks) \in Nat
    BY <2>1 DEF StoreInv
  <2>3. 1 \in 1..Len(chunks)
    BY <2>2, FirstPlace
  <2>4. chunks[1] \in DOMAIN heap /\ chunks[1] \in Address
    BY <2>3, ElementOfSeq DEF StoreInv
  <2> QED
    BY <2>3, <2>4, StoreAssumption DEF StoreInv
<1>3. /\ Rows \in Seq(Row \cup {Blank}) /\ Len(Rows) = size
      /\ last \in Row \cup {Blank} /\ Rows[size] = last
  <2>1. size - 1 \in 0..size - 1 /\ (size - 1) + 1 = size
    BY <1>1
  <2> QED
    BY <2>1, RowsAreStored DEF last
<1>4. /\ DOMAIN heap' = DOMAIN heap
      /\ \A c \in DOMAIN heap : heap'[c] \in [width : {dof_}, cells : Cells]
      /\ heap'[chunks[1]].cells[0] = last
  <2> DEFINE changed == [heap[chunks[1]] EXCEPT !.cells = [@ EXCEPT ![0] = last]]
  <2>1. heap' = [heap EXCEPT ![chunks[1]] = changed]
    BY <1>1
  <2>2. changed \in [width : {dof_}, cells : Cells] /\ changed.cells[0] = last
    BY <1>2, <1>3 DEF Cells
  <2> HIDE DEF changed
  <2>3. \A c \in DOMAIN heap : heap[c] \in [width : {dof_}, cells : Cells]
    BY DEF StoreInv
  <2> QED
    BY <1>2, <2>1, <2>2, <2>3
<1>5. View(chunks, 0) \in [chunk : Address, at : 0..ChunkRows - 1]
  BY <1>2, FirstPlace DEF View
<1>6. StoreInv'
  <2>1. /\ accumulator' \in Seq([chunk : Address, at : 0..ChunkRows - 1])
        /\ Len(accumulator') = 1 /\ accumulator'[1] = View(chunks, 0)
    BY <1>1, <1>5
  <2>2. \A i \in 0..size' - 1 : ChunkOf(i) <= Len(chunks') /\ accumulator'[i + 1] = View(chunks', i)
    <3> SUFFICES ASSUME NEW i \in 0..size' - 1
                 PROVE  ChunkOf(i) <= Len(chunks') /\ accumulator'[i + 1] = View(chunks', i)
      OBVIOUS
    <3>1. i = 0 /\ chunks' = chunks /\ Len(chunks) \in Nat /\ 1 <= Len(chunks)
      BY <1>1, <1>2
    <3> QED
      BY <2>1, <3>1, FirstPlace
  <2>3. /\ size' \in Nat /\ dof_' \in Nat /\ Len(accumulator') = size'
        /\ chunks' \in Seq(Address)
        /\ \A j, k \in 1..Len(chunks') : j # k => chunks'[j] # chunks'[k]
        /\ DOMAIN heap' = {chunks'[k] : k \in 1..Len(chunks')}
        /\ dof_' = 0 => chunks' = <<>>
    BY <1>1, <1>4, <2>1 DEF StoreInv
  <2>4. \A c \in DOMAIN heap' : heap'[c] \in [width : {dof_'}, cells : Cells]
    BY <1>1, <1>4
  <2> QED
    BY <2>1, <2>2, <2>3, <2>4 DEF StoreInv, Cells, View, ChunkOf, OffsetOf
<1>7. Rows' = <<Rows[Len(Rows)]>>
  <2>1. (StoreInv =>
           /\ Rows \in Seq(Row \cup {Blank}) /\ Len(Rows) = size
           /\ \A i \in 0..size - 1 : Rows[i + 1] = Stored(i) /\ Stored(i) \in Row \cup {Blank})'
    BY RowsAreStored, PTL
  <2>2. Rows' \in Seq(Row \cup {Blank}) /\ Len(Rows') = 1 /\ Rows'[0 + 1] = Stored(0)'
    BY <1>1, <1>6, <2>1
  <2>3. Stored(0)' = heap'[chunks'[ChunkOf(0)]].cells[OffsetOf(0)]
    BY DEF Stored, ChunkOf, OffsetOf
  <2>4. Stored(0)' = last
    BY <1>1, <1>4, <2>3, FirstPlace
  <2> QED
    BY <1>3, <2>2, <2>4
<1>8. Rows # <<>>
  BY <1>1, <1>3, EmptySeq
<1> QED
  BY <1>6, <1>7, <1>8 DEF Log!Next, Log!KeepLast, Rows

LEMMA StoreStep == StoreInv /\ [StoreNext]_storeVars => StoreInv' /\ [Log!Next]_Rows
<1> SUFFICES ASSUME StoreInv, [StoreNext]_storeVars
             PROVE  StoreInv' /\ [Log!Next]_Rows
  OBVIOUS
<1>1. ASSUME NEW batch \in Batch, NEW from \in {0, 1},
             append(batch, from) \/ append_fails(batch, from)
      PROVE  StoreInv' /\ [Log!Next]_Rows
  BY <1>1, AppendStep
<1>2. ASSUME NEW count \in 0..MaxRows, truncate(count)
      PROVE  StoreInv' /\ [Log!Next]_Rows
  BY <1>2, TruncateStep
<1>3. CASE reset_to_last
  BY <1>3, ResetStep
<1>4. CASE UNCHANGED storeVars
  BY <1>4 DEF storeVars, StoreInv, Cells, View, ChunkOf, OffsetOf, Rows, Read
<1> QED
  BY <1>1, <1>2, <1>3, <1>4 DEF StoreNext

\* The rows that a store's views read form a log: whatever chunks are kept, reused or
\* released, a stored row is never changed, lost or duplicated, an append that fails
\* included (append, truncate, reset_to_last).
THEOREM StoreImplementsLog == StoreSpec => LogSpec
<1>1. StoreInit => StoreInv /\ Log!Init
  <2> SUFFICES ASSUME StoreInit PROVE StoreInv /\ Log!Init
    OBVIOUS
  <2>1. /\ Len(<<>>) = 0 /\ DOMAIN <<>> = {}
        /\ <<>> \in Seq(Address) /\ <<>> \in Seq([chunk : Address, at : 0..ChunkRows - 1])
    OBVIOUS
  <2>2. StoreInv
    BY <2>1 DEF StoreInit, StoreInv
  <2>3. Rows = <<>>
    BY <2>2, RowsAreStored, EmptySeq DEF StoreInit
  <2> QED
    BY <2>2, <2>3 DEF Log!Init, Rows
<1>2. StoreInv /\ [StoreNext]_storeVars
        => StoreInv' /\ [Log!Next]_[i \in 1..Len(accumulator) |-> Read(i)]
  BY StoreStep DEF Rows
<1> QED
  BY <1>1, <1>2, PTL DEF StoreSpec, LogSpec, Log!Spec

-----------------------------------------------------------------------------
(* Building *)

Plane == Int \X Int
Directions == {<<1, 0>>, <<-1, 0>>, <<0, 1>>, <<0, -1>>}

\* The point at a distance from another, in a direction.
At(p, d, k) == Plus(p, Scaled(k, d))

-----------------------------------------------------------------------------
(* The plane *)

Abs(a) == IF a >= 0 THEN a ELSE -a

LEMMA NormIs ==
  ASSUME NEW x \in Int, NEW y \in Int
  PROVE  Norm(<<x, y>>) = Abs(x) + Abs(y)
<1>1. ASSUME NEW a \in Int PROVE Max({a, -a}) = Abs(a)
  <2>1. Abs(a) \in {a, -a} /\ \A b \in {a, -a} : Abs(a) >= b
    BY DEF Abs
  <2>2. \A c \in {a, -a} : (\A b \in {a, -a} : c >= b) => c = Abs(a)
    BY DEF Abs
  <2> QED
    BY <2>1, <2>2 DEF Max
<1> QED
  BY <1>1 DEF Norm

\* A line along an axis runs in one of the four directions.
LEMMA AxisFacts ==
  ASSUME NEW p \in Plane, NEW q \in Plane, AlongAxis(Minus(q, p)), p # q
  PROVE  LET n == Norm(Minus(q, p))
             d == Direction(Minus(q, p))
         IN  /\ n \in Nat \ {0} /\ d \in Directions /\ q = At(p, d, n)
<1>1. PICK px \in Int, py \in Int, x \in Int, y \in Int :
        p = <<px, py>> /\ q = <<px + x, py + y>>
  <2>1. PICK px \in Int, py \in Int : p = <<px, py>>
    BY DEF Plane
  <2>2. PICK qx \in Int, qy \in Int : q = <<qx, qy>>
    BY DEF Plane
  <2>3. qx = px + (qx - px) /\ qy = py + (qy - py) /\ qx - px \in Int /\ qy - py \in Int
    OBVIOUS
  <2> QED
    BY <2>1, <2>2, <2>3
<1>2. Minus(q, p) = <<x, y>>
  <2>1. (px + x) - px = x /\ (py + y) - py = y
    OBVIOUS
  <2> QED
    BY <1>1, <2>1 DEF Minus
<1>3. (x = 0 \/ y = 0) /\ ~(x = 0 /\ y = 0)
  BY <1>1, <1>2 DEF AlongAxis
<1>4. Norm(Minus(q, p)) = Abs(x) + Abs(y)
  BY <1>2, NormIs
<1>5. Direction(Minus(q, p)) = <<Sign(x), Sign(y)>>
  BY <1>2 DEF Direction
<1>6. Abs(x) + Abs(y) \in Nat \ {0} /\ <<Sign(x), Sign(y)>> \in Directions
  BY <1>3 DEF Abs, Sign, Directions
<1>7. (Abs(x) + Abs(y)) * Sign(x) = x /\ (Abs(x) + Abs(y)) * Sign(y) = y
  BY <1>3 DEF Abs, Sign
<1>8. At(p, <<Sign(x), Sign(y)>>, Abs(x) + Abs(y)) = q
  BY <1>1, <1>7 DEF At, Plus, Scaled
<1> QED
  BY <1>4, <1>5, <1>6, <1>8

LEMMA ScaledPoint ==
  ASSUME NEW p \in Plane, NEW u \in Nat
  PROVE  Scaled(u, p) \in Plane
<1>1. \A x, y \in Int : u * x \in Int /\ u * y \in Int
  OBVIOUS
<1> QED
  BY <1>1 DEF Scaled, Plane

\* The same line in the units that segments are measured in.
LEMMA ScaledLine ==
  ASSUME NEW p \in Plane, NEW d \in Directions, NEW n \in Nat, NEW u \in Nat
  PROVE  /\ Scaled(u, p) \in Plane
         /\ Scaled(u, At(p, d, n)) = At(Scaled(u, p), d, u * n)
<1>1. PICK x \in Int, y \in Int : p = <<x, y>>
  BY DEF Plane
<1>2. u * x \in Int /\ u * y \in Int /\ u * n \in Nat
  OBVIOUS
<1>3. \A s \in {-1, 0, 1} : /\ u * (x + n * s) = u * x + (u * n) * s
                            /\ u * (y + n * s) = u * y + (u * n) * s
  <2>1. u * (x + n) = u * x + u * n /\ u * (x - n) = u * x - u * n
    OBVIOUS
  <2>2. u * (y + n) = u * y + u * n /\ u * (y - n) = u * y - u * n
    OBVIOUS
  <2> QED
    BY <2>1, <2>2
<1>4. Scaled(u, p) \in Plane
  BY <1>1, <1>2 DEF Scaled, Plane
<1>5. Scaled(u, p) = <<u * x, u * y>>
  BY <1>1 DEF Scaled
<1>6. PICK s \in {-1, 0, 1}, t \in {-1, 0, 1} : d = <<s, t>>
  BY DEF Directions
<1>7. At(p, d, n) = <<x + n * s, y + n * t>> /\ At(<<u * x, u * y>>, d, u * n) = <<u * x + (u * n) * s, u * y + (u * n) * t>>
  BY <1>1, <1>6 DEF At, Plus, Scaled
<1>8. Scaled(u, <<x + n * s, y + n * t>>) = <<u * (x + n * s), u * (y + n * t)>>
  BY DEF Scaled
<1> QED
  BY <1>3, <1>4, <1>5, <1>6, <1>7, <1>8

\* Points of one line are as far apart as their places on it.
LEMMA LineFacts ==
  ASSUME NEW p \in Plane, NEW d \in Directions, NEW a \in Int, NEW b \in Int
  PROVE  /\ At(p, d, a) \in Plane
         /\ At(p, d, 0) = p
         /\ Norm(Minus(At(p, d, b), At(p, d, a))) = Abs(b - a)
         /\ At(p, d, a) = At(p, d, b) => a = b
         /\ Minus(At(p, d, a), Scaled(b, d)) = At(p, d, a - b)
<1>1. PICK x \in Int, y \in Int : p = <<x, y>>
  BY DEF Plane
<1>2. PICK s \in {-1, 0, 1}, t \in {-1, 0, 1} : d = <<s, t>> /\ Abs(s) + Abs(t) = 1
  <2>1. \A s \in {-1, 0, 1}, t \in {-1, 0, 1} :
          (s = 0 /\ t # 0) \/ (t = 0 /\ s # 0) => Abs(s) + Abs(t) = 1
    BY DEF Abs
  <2>2. \E s \in {-1, 0, 1}, t \in {-1, 0, 1} :
          d = <<s, t>> /\ ((s = 0 /\ t # 0) \/ (t = 0 /\ s # 0))
    BY DEF Directions
  <2> QED
    BY <2>1, <2>2
<1>3. \A k \in Int : At(p, d, k) = <<x + k * s, y + k * t>>
  BY <1>1, <1>2 DEF At, Plus, Scaled
<1>4. At(p, d, a) \in Plane
  <2>1. x + a * s \in Int /\ y + a * t \in Int
    OBVIOUS
  <2>2. At(p, d, a) = <<x + a * s, y + a * t>>
    BY <1>3
  <2>3. \A u, w \in Int : <<u, w>> \in Plane
    BY DEF Plane
  <2> QED
    BY <2>1, <2>2, <2>3
<1>5. At(p, d, 0) = p
  <2>1. x + 0 * s = x /\ y + 0 * t = y
    OBVIOUS
  <2>2. At(p, d, 0) = <<x + 0 * s, y + 0 * t>>
    BY <1>3
  <2> QED
    BY <1>1, <2>1, <2>2
<1>6. Minus(At(p, d, b), At(p, d, a)) = <<(b - a) * s, (b - a) * t>>
  <2>1. (x + b * s) - (x + a * s) = (b - a) * s /\ (y + b * t) - (y + a * t) = (b - a) * t
    OBVIOUS
  <2>2. At(p, d, a) = <<x + a * s, y + a * t>> /\ At(p, d, b) = <<x + b * s, y + b * t>>
    BY <1>3
  <2>3. Minus(<<x + b * s, y + b * t>>, <<x + a * s, y + a * t>>)
          = <<(x + b * s) - (x + a * s), (y + b * t) - (y + a * t)>>
    BY DEF Minus
  <2> QED
    BY <2>1, <2>2, <2>3
<1>7. Norm(<<(b - a) * s, (b - a) * t>>) = Abs((b - a) * s) + Abs((b - a) * t)
  BY NormIs
<1>8. Abs((b - a) * s) + Abs((b - a) * t) = Abs(b - a)
  BY <1>2 DEF Abs
<1>9. At(p, d, a) = At(p, d, b) => a = b
  <2>1. SUFFICES ASSUME At(p, d, a) = At(p, d, b)
                 PROVE  a = b
    OBVIOUS
  <2>2. <<x + a * s, y + a * t>> = <<x + b * s, y + b * t>>
    <3>1. At(p, d, a) = <<x + a * s, y + a * t>> /\ At(p, d, b) = <<x + b * s, y + b * t>>
      BY <1>3
    <3> QED
      BY <2>1, <3>1
  <2>3. s # 0 \/ t # 0
    BY <1>2 DEF Abs
  <2>4. ASSUME NEW z \in Int, NEW r \in {-1, 1}, z + a * r = z + b * r PROVE a = b
    BY <2>4
  <2> QED
    BY <2>2, <2>3, <2>4
<1>10. Minus(At(p, d, a), Scaled(b, d)) = At(p, d, a - b)
  <2>1. (x + a * s) - b * s = x + (a - b) * s /\ (y + a * t) - b * t = y + (a - b) * t
    OBVIOUS
  <2>2. /\ At(p, d, a) = <<x + a * s, y + a * t>>
        /\ At(p, d, a - b) = <<x + (a - b) * s, y + (a - b) * t>>
    BY <1>3
  <2>3. Minus(<<x + a * s, y + a * t>>, Scaled(b, d)) = <<(x + a * s) - b * s, (y + a * t) - b * t>>
    BY <1>2 DEF Minus, Scaled
  <2> QED
    BY <2>1, <2>2, <2>3
<1> QED
  BY <1>4, <1>5, <1>6, <1>7, <1>8, <1>9, <1>10

LEMMA LeastIs ==
  ASSUME NEW T, T \subseteq Nat, T # {}
  PROVE  Min(T) \in T /\ \A y \in T : Min(T) <= y
<1>1. PICK x \in T : \A y \in T : x <= y
  BY LeastNatural
<1> QED
  BY <1>1 DEF Min

LEMMA Roundest ==
  /\ Max(Residues) \in Nat /\ Residues \subseteq Int
  /\ \A r \in Residues : 1 - r <= Max(Residues)
<1>1. PICK m \in Residues : \A r \in Residues : r <= m /\ 1 - r <= m
  BY BuilderAssumption
<1>2. Residues \subseteq Int /\ 0 \in Residues
  BY BuilderAssumption
<1>3. \A r \in Residues : m >= r
  BY <1>1, <1>2
<1>4. \A x \in Residues : (\A r \in Residues : x >= r) => x = m
  BY <1>1, <1>2
<1>5. Max(Residues) = m
  BY <1>3, <1>4 DEF Max
<1> QED
  BY <1>1, <1>2, <1>5

LEMMA OptionFacts ==
  ASSUME opts \in Options
  PROVE  opts.deviation_trim \in Nat /\ opts.min_trim \in Nat /\ opts.max_trim \in Nat
BY BuilderAssumption

\* A blend takes at most half of either segment, and marks the one it takes half of.
LEMMA BlendFacts ==
  ASSUME opts \in Options, NEW v \in Plane, NEW w \in Plane,
         try_create_blend(v, w) # NoBlend
  PROVE  LET b == try_create_blend(v, w) IN
         /\ b.trim \in Nat \ {0}
         /\ 2 * b.trim <= Unit * Norm(v) /\ 2 * b.trim <= Unit * Norm(w)
         /\ b.half_in = (2 * b.trim = Unit * Norm(v))
         /\ b.half_out = (2 * b.trim = Unit * Norm(w))
<1>1. Norm(v) \in Nat /\ Norm(w) \in Nat
  <2>1. ASSUME NEW a \in Int, NEW b \in Int PROVE Norm(<<a, b>>) \in Nat
    BY NormIs DEF Abs
  <2>2. ASSUME NEW u \in Plane PROVE \E a, b \in Int : u = <<a, b>>
    BY DEF Plane
  <2> QED
    BY <2>1, <2>2
<1>2. PICK h \in Nat : Unit = 2 * h
  BY BuilderAssumption
<1> DEFINE in == Unit * Norm(v)
           out == Unit * Norm(w)
           halves == {in \div 2, out \div 2, opts.deviation_trim}
           natural_trim == Min(halves)
           trim == Min({natural_trim, opts.max_trim})
<1>3. \A n \in Nat : 2 * h * n \in Nat /\ (2 * h * n) \div 2 = h * n /\ 2 * (h * n) = 2 * h * n /\ h * n \in Nat
  <2>1. TAKE n \in Nat
  <2>2. h * n \in Nat /\ 2 * h * n = 2 * (h * n)
    OBVIOUS
  <2>3. \A k \in Nat : (2 * k) \div 2 = k /\ 2 * k \in Nat
    OBVIOUS
  <2> QED
    BY <2>2, <2>3
<1>4. in \in Nat /\ in \div 2 \in Nat /\ 2 * (in \div 2) = in
  BY <1>1, <1>2, <1>3
<1>5. out \in Nat /\ out \div 2 \in Nat /\ 2 * (out \div 2) = out
  BY <1>1, <1>2, <1>3
<1> HIDE DEF in, out
<1>6. natural_trim \in halves /\ \A y \in halves : natural_trim <= y
  <2>1. halves \subseteq Nat /\ halves # {}
    BY <1>4, <1>5, OptionFacts
  <2> HIDE DEF halves
  <2> QED
    BY <2>1, LeastIs
<1>7. natural_trim \in Nat
  BY <1>4, <1>5, <1>6, OptionFacts
<1> HIDE DEF natural_trim
<1>8. trim \in {natural_trim, opts.max_trim} /\ trim <= natural_trim
  <2> DEFINE T == {natural_trim, opts.max_trim}
  <2>1. T \subseteq Nat /\ T # {}
    BY <1>7, OptionFacts
  <2> HIDE DEF T
  <2>2. Min(T) \in T /\ \A y \in T : Min(T) <= y
    BY <2>1, LeastIs
  <2> QED
    BY <2>2 DEF T
<1>9. trim \in Nat
  BY <1>7, <1>8, OptionFacts
<1> HIDE DEF trim
<1>10. trim <= in \div 2 /\ trim <= out \div 2
  BY <1>4, <1>5, <1>6, <1>7, <1>8, <1>9
<1>11. /\ 0 \notin {in, out, opts.deviation_trim}
       /\ try_create_blend(v, w) = [trim |-> trim, half_in |-> trim = in \div 2, half_out |-> trim = out \div 2]
  BY DEF try_create_blend, in, out, halves, natural_trim, trim
<1>12. trim # 0
  <2>1. SUFFICES ASSUME trim = 0 PROVE FALSE
    OBVIOUS
  <2>2. (trim = in \div 2) = FALSE /\ (trim = out \div 2) = FALSE
    BY <1>4, <1>5, <1>11, <2>1
  <2> QED
    BY <1>11, <2>1, <2>2 DEF NoBlend
<1>13. (trim = in \div 2) = (2 * trim = in) /\ (trim = out \div 2) = (2 * trim = out)
  BY <1>4, <1>5, <1>9
<1>14. 2 * trim <= in /\ 2 * trim <= out
  BY <1>4, <1>5, <1>9, <1>10
<1> QED
  BY <1>9, <1>11, <1>12, <1>13, <1>14 DEF in, out

-----------------------------------------------------------------------------
(* The invariant *)

\* The waypoints that stay are in order, and those between two of them near the line.
KeptOK ==
  /\ Len(input) >= 2
  /\ kept \in Seq(1..Len(input)) /\ kept # <<>> /\ kept[1] = 1
  /\ \A i \in 1..Len(kept) - 1 :
       /\ kept[i] < kept[i + 1]
       /\ \A k \in kept[i] + 1..kept[i + 1] - 1 :
            locus_within_tolerance(input[kept[i]], input[kept[i + 1]], input[k])

\* A segment with an extent, whose length is that of its line but for rounding.
SegmentOK(g) ==
  /\ g = [kind |-> g.kind, start |-> g.start, length |-> g.length, from |-> g.from, to |-> g.to]
  /\ g.start \in Nat /\ g.length \in Nat \ {0}
  /\ g.kind = "linear" =>
       /\ g.from # g.to
       /\ g.length - Norm(Minus(g.to, g.from)) \in Residues \cup {0}

ExitOf(laid, origin) == IF laid = <<>> THEN origin ELSE laid[Len(laid)].to
LengthOf(laid) == IF laid = <<>> THEN 0 ELSE laid[Len(laid)].start + laid[Len(laid)].length

Joined(a, b) == Close(a, b) /\ Close(b, a)

\* Segments from an origin on, one after the other.
LaidOut(laid, origin) ==
  /\ laid = [k \in 1..Len(laid) |-> laid[k]] /\ Len(laid) \in Nat
  /\ \A k \in 1..Len(laid) : SegmentOK(laid[k])
  /\ laid # <<>> => laid[1].start = 0 /\ Joined(laid[1].from, origin)
  /\ \A k \in 1..Len(laid) - 1 :
       /\ laid[k + 1].start = laid[k].start + laid[k].length
       /\ Joined(laid[k].to, laid[k + 1].from)
  /\ \A j, k \in 1..Len(laid) : j < k => laid[j].start < laid[k].start

Origin == Scaled(Unit, input[1])

\* The position: at the corner before, or where the blend there left the segment, of which
\* it has taken at most half.
Standing ==
  LET p == Corner(locus - 1)
      v == Minus(Corner(locus), p)
  IN  IF here.exit
        THEN \E t \in Nat \ {0} :
               /\ 2 * t <= Unit * Norm(v) /\ half = (2 * t = Unit * Norm(v))
               /\ here.point = At(Scaled(Unit, p), Direction(v), t)
        ELSE here.point = Scaled(Unit, p) /\ half = FALSE

InEmission ==
  /\ locus \in 2..Len(kept) + 1
  /\ ExitOf(segments, Origin) = here.point
  /\ locus <= Len(kept) => Standing
  /\ locus > Len(kept) => here.point = Scaled(Unit, Corner(Len(kept)))

BuildInv ==
  /\ input \in Seq(Plane) /\ opts \in Options
  /\ phase \in {"idle", "coalescing", "emitting", "built", "failed"}
  /\ phase \in {"idle", "coalescing"} => locus = 2 /\ half = FALSE /\ segments = <<>>
  /\ phase = "coalescing" => here = [point |-> Origin, exit |-> FALSE]
  /\ phase \in {"coalescing", "emitting", "built"} => KeptOK
  /\ phase \in {"emitting", "built"} => kept[Len(kept)] = Len(input)
  /\ LaidOut(segments, Origin)
  /\ phase = "emitting" => InEmission
  /\ phase = "built" =>
       segments # <<>> /\ ExitOf(segments, Origin) = Scaled(Unit, Corner(Len(kept)))

LEMMA BuildInvInit == BuildInit => BuildInv
<1> SUFFICES ASSUME BuildInit PROVE BuildInv
  OBVIOUS
<1>1. input \in Seq(Plane) /\ opts \in Options /\ phase = "idle" /\ locus = 2 /\ half = FALSE /\ segments = <<>>
  BY DEF BuildInit
<1>2. LaidOut(<<>>, Origin)
  BY DEF LaidOut
<1> QED
  BY <1>1, <1>2 DEF BuildInv

-----------------------------------------------------------------------------
(* Coalescing *)

LEMMA InputsArePlane ==
  ASSUME NEW given \in Inputs
  PROVE  given \in Seq(Plane)
BY BuilderAssumption DEF Plane

LEMMA CornersArePlane ==
  ASSUME input \in Seq(Plane), KeptOK
  PROVE  \A k \in 1..Len(kept) : Corner(k) \in Plane
BY DEF KeptOK, Corner

LEMMA CreateKeeps ==
  ASSUME BuildInv, Create
  PROVE  BuildInv'
<1>1. PICK given \in Inputs :
        /\ input' = given
        /\ phase' = IF Len(given) < 2 \/ opts.max_trim < opts.min_trim THEN "failed"
                    ELSE IF opts.linear > 0 THEN "coalescing" ELSE "emitting"
        /\ kept' = IF opts.linear > 0 THEN <<1>> ELSE [i \in 1..Len(given) |-> i]
        /\ here' = [point |-> IF given = <<>> THEN <<0, 0>> ELSE Scaled(Unit, given[1]), exit |-> FALSE]
  BY DEF Create
<1>2. /\ opts' = opts /\ locus' = 2 /\ half' = FALSE /\ segments' = <<>> /\ opts \in Options
  BY DEF Create, BuildInv
<1>3. given \in Seq(Plane) /\ Len(given) \in Nat
  BY InputsArePlane
<1>4. LaidOut(<<>>, Origin')
  BY DEF LaidOut
<1>5. CASE phase' = "failed"
  BY <1>1, <1>2, <1>3, <1>4, <1>5 DEF BuildInv
<1>6. CASE phase' # "failed"
  <2>1. Len(given) >= 2 /\ given # <<>>
    BY <1>1, <1>3, <1>6
  <2>2. here' = [point |-> Origin', exit |-> FALSE]
    BY <1>1, <2>1 DEF Origin
  <2>3. CASE phase' = "coalescing"
    <3>1. kept' = <<1>>
      BY <1>1, <2>3
    <3>2. KeptOK'
      <4>1. 1 \in 1..Len(given)
        BY <1>3, <2>1
      <4>2. <<1>> \in Seq(1..Len(given)) /\ Len(<<1>>) = 1 /\ <<1>>[1] = 1 /\ <<1>> # <<>>
        BY <4>1
      <4>3. 1..Len(kept') - 1 = {}
        BY <3>1, <4>2
      <4> QED
        BY <1>1, <2>1, <3>1, <4>2, <4>3 DEF KeptOK
    <3> QED
      BY <1>1, <1>2, <1>3, <1>4, <2>2, <2>3, <3>2 DEF BuildInv
  <2>4. CASE phase' = "emitting"
    <3>1. kept' = [i \in 1..Len(given) |-> i]
      BY <1>1, <2>4, <1>6
    <3>2. /\ kept' \in Seq(1..Len(given)) /\ Len(kept') = Len(given)
          /\ \A i \in 1..Len(given) : kept'[i] = i
      BY <1>3, <3>1
    <3>3. kept' # <<>> /\ kept'[1] = 1 /\ kept'[Len(kept')] = Len(given)
      BY <1>3, <2>1, <3>2
    <3>4. KeptOK'
      <4>1. ASSUME NEW i \in 1..Len(kept') - 1
            PROVE  kept'[i] = i /\ kept'[i + 1] = i + 1
        BY <1>3, <3>2
      <4>2. ASSUME NEW i \in 1..Len(kept') - 1
            PROVE  kept'[i] < kept'[i + 1] /\ kept'[i] + 1..kept'[i + 1] - 1 = {}
        BY <1>3, <4>1
      <4> QED
        BY <1>1, <2>1, <3>2, <3>3, <4>2 DEF KeptOK
    <3>5. InEmission'
      <4>1. Scaled(Unit, Corner(1))' = Origin'
        BY <1>1, <3>3 DEF Origin, Corner
      <4>2. Standing'
        BY <1>2, <2>2, <4>1 DEF Standing, Origin
      <4>3. ExitOf(segments', Origin') = here'.point
        BY <1>2, <2>2 DEF ExitOf
      <4>4. 2 \in 2..Len(kept') + 1 /\ 2 <= Len(kept')
        BY <1>3, <2>1, <3>2
      <4> QED
        BY <1>2, <4>2, <4>3, <4>4 DEF InEmission
    <3> QED
      BY <1>1, <1>2, <1>3, <1>4, <2>4, <3>3, <3>4, <3>5 DEF BuildInv
  <2> QED
    BY <1>1, <1>6, <2>3, <2>4
<1> QED
  BY <1>5, <1>6

LEMMA CoalesceKeeps ==
  ASSUME BuildInv, Coalesce
  PROVE  BuildInv'
<1> DEFINE base == kept[Len(kept)]
           stays == {c \in base + 1..Len(input) : ~Coalesces(base, c)}
           next == Min(stays)
<1>1. /\ input' = input /\ opts' = opts /\ locus' = 2 /\ half' = FALSE /\ segments' = <<>>
      /\ here' = here /\ here = [point |-> Origin, exit |-> FALSE]
      /\ phase = "coalescing" /\ KeptOK /\ segments = <<>> /\ LaidOut(segments, Origin)
      /\ input \in Seq(Plane) /\ opts \in Options
  BY DEF Coalesce, BuildInv
<1>2. Origin' = Origin
  BY <1>1 DEF Origin
<1>3. Len(input) \in Nat /\ Len(kept) \in Nat \ {0} /\ base \in 1..Len(input)
  BY <1>1 DEF KeptOK
<1>4. CASE base = Len(input)
  <2>1. phase' = "emitting" /\ kept' = kept
    BY <1>4 DEF Coalesce
  <2>2. KeptOK' /\ kept'[Len(kept')] = Len(input')
    BY <1>1, <1>4, <2>1 DEF KeptOK, locus_within_tolerance
  <2>3. Len(kept) >= 2
    BY <1>1, <1>3, <1>4 DEF KeptOK
  <2>4. InEmission'
    <3>1. Scaled(Unit, Corner(1))' = Origin
      BY <1>1, <2>1 DEF Origin, Corner, KeptOK
    <3>2. Standing'
      BY <1>1, <3>1 DEF Standing
    <3>3. ExitOf(segments', Origin') = here'.point
      BY <1>1, <1>2 DEF ExitOf
    <3> QED
      BY <1>1, <1>3, <2>1, <2>3, <3>2, <3>3 DEF InEmission
  <2> QED
    BY <1>1, <1>2, <2>1, <2>2, <2>4 DEF BuildInv
<1>5. CASE base # Len(input)
  <2>1. phase' = phase /\ kept' = Append(kept, next)
    BY <1>5 DEF Coalesce
  <2>2. stays \subseteq Nat /\ stays # {}
    <3>1. ~Coalesces(base, Len(input))
      BY <1>3 DEF Coalesces
    <3>2. Len(input) \in base + 1..Len(input)
      BY <1>3, <1>5
    <3> QED
      BY <1>3, <3>1, <3>2
  <2>3. next \in stays /\ \A c \in stays : next <= c
    <3> HIDE DEF stays
    <3> QED
      BY <2>2, LeastIs
  <2>4. next \in base + 1..Len(input) /\ \A c \in base + 1..next - 1 : Coalesces(base, c)
    BY <1>3, <2>3
  <2> HIDE DEF next
  <2>5. \A k \in base + 1..next - 1 : locus_within_tolerance(input[base], input[next], input[k])
    <3>1. TAKE k \in base + 1..next - 1
    <3>2. next - 1 \in base + 1..next - 1 /\ k \in base + 1..next - 1 /\ next - 1 + 1 = next
      BY <1>3, <2>4, <3>1
    <3>3. Coalesces(base, next - 1)
      BY <2>4, <3>2
    <3> QED
      BY <3>2, <3>3 DEF Coalesces
  <2>6. next \in 1..Len(input) /\ base < next
    BY <1>3, <2>4
  <2>7. /\ kept' \in Seq(1..Len(input)) /\ Len(kept') = Len(kept) + 1
        /\ kept'[Len(kept) + 1] = next /\ \A i \in 1..Len(kept) : kept'[i] = kept[i]
    BY <1>1, <1>3, <2>1, <2>6 DEF KeptOK
  <2>8. KeptOK'
    <3>1. ASSUME NEW i \in 1..Len(kept') - 1
          PROVE  /\ kept'[i] < kept'[i + 1]
                 /\ \A k \in kept'[i] + 1..kept'[i + 1] - 1 :
                      locus_within_tolerance(input[kept'[i]], input[kept'[i + 1]], input[k])
      <4>1. i \in 1..Len(kept)
        BY <1>3, <2>7
      <4>2. CASE i = Len(kept)
        <5>1. kept'[i] = base /\ kept'[i + 1] = next
          BY <2>7, <4>1, <4>2
        <5> QED
          BY <2>5, <2>6, <5>1
      <4>3. CASE i < Len(kept)
        <5>1. i \in 1..Len(kept) - 1 /\ i + 1 \in 1..Len(kept)
          BY <1>3, <4>1, <4>3
        <5>2. kept'[i] = kept[i] /\ kept'[i + 1] = kept[i + 1]
          BY <2>7, <4>1, <5>1
        <5> QED
          BY <1>1, <5>1, <5>2 DEF KeptOK
      <4> QED
        BY <1>3, <4>1, <4>2, <4>3
    <3>2. 1 \in 1..Len(kept) /\ kept[1] = 1
      BY <1>1, <1>3 DEF KeptOK
    <3>3. kept' # <<>> /\ kept'[1] = 1
      BY <1>3, <2>7, <3>2
    <3> QED
      BY <1>1, <2>7, <3>1, <3>3 DEF KeptOK, locus_within_tolerance
  <2> QED
    BY <1>1, <1>2, <2>1, <2>8 DEF BuildInv
<1> QED
  BY <1>4, <1>5

-----------------------------------------------------------------------------
(* Segments *)

LEMMA Apart ==
  ASSUME NEW a \in Plane, NEW b \in Plane
  PROVE  Norm(Minus(b, a)) \in Nat /\ (Norm(Minus(b, a)) = 0) = (a = b)
<1>1. PICK x \in Int, y \in Int, z \in Int, w \in Int : a = <<x, y>> /\ b = <<z, w>>
  BY DEF Plane
<1>2. Minus(b, a) = <<z - x, w - y>>
  BY <1>1 DEF Minus
<1>3. Norm(Minus(b, a)) = Abs(z - x) + Abs(w - y)
  BY <1>2, NormIs
<1>4. Abs(z - x) + Abs(w - y) \in Nat
  BY DEF Abs
<1>5. (Abs(z - x) + Abs(w - y) = 0) = (x = z /\ y = w)
  BY DEF Abs
<1>6. (a = b) = (x = z /\ y = w)
  BY <1>1
<1> QED
  BY <1>3, <1>4, <1>5, <1>6

LEMMA JoinedToItself ==
  ASSUME NEW a \in Plane
  PROVE  Joined(a, a)
<1>1. Norm(Minus(a, a)) = 0
  BY Apart
<1> QED
  BY <1>1, Roundest DEF Joined, Close

LEMMA Appending ==
  ASSUME NEW S, NEW s \in Seq(S), NEW g
  PROVE  LET on == Append(s, g) IN
         /\ Len(on) = Len(s) + 1 /\ on = [k \in 1..Len(s) + 1 |-> on[k]]
         /\ on[Len(s) + 1] = g /\ \A k \in 1..Len(s) : on[k] = s[k]
<1>1. s \in Seq(S \cup {g}) /\ g \in S \cup {g}
  OBVIOUS
<1> DEFINE on == Append(s, g)
<1>2. on \in Seq(S \cup {g}) /\ Len(on) = Len(s) + 1
  BY <1>1
<1>3. on[Len(s) + 1] = g /\ \A k \in 1..Len(s) : on[k] = s[k]
  BY <1>1
<1> HIDE DEF on
<1>4. on = [k \in 1..Len(on) |-> on[k]]
  BY <1>2
<1> QED
  BY <1>2, <1>3, <1>4 DEF on

LEMMA Concatenated ==
  ASSUME NEW origin, NEW laid, LaidOut(laid, origin), NEW g, NEW h
  PROVE  /\ laid \o <<g>> \o <<h>> = Append(Append(laid, g), h)
         /\ laid \o <<>> \o <<h>> = Append(laid, h)
<1> DEFINE S == {laid[k] : k \in 1..Len(laid)} \cup {g, h}
<1>1. laid \in Seq(S)
  BY DEF LaidOut
<1>2. g \in S /\ h \in S
  OBVIOUS
<1> HIDE DEF S
<1>3. \A s \in Seq(S), x \in S : s \o <<x>> = Append(s, x) /\ Append(s, x) \in Seq(S) /\ s \o <<>> = s
  OBVIOUS
<1> QED
  BY <1>1, <1>2, <1>3

\* One more segment, from where the last one ends.
LEMMA LaidOn ==
  ASSUME NEW origin, NEW laid, LaidOut(laid, origin), NEW g, SegmentOK(g),
         g.start = LengthOf(laid), Joined(ExitOf(laid, origin), g.from)
  PROVE  LET on == Append(laid, g) IN
         /\ LaidOut(on, origin) /\ on # <<>>
         /\ ExitOf(on, origin) = g.to
         /\ LengthOf(on) = g.start + g.length
<1> DEFINE n == Len(laid)
           on == Append(laid, g)
<1>1. n \in Nat /\ laid \in Seq({laid[k] : k \in 1..n}) /\ (laid = <<>>) = (n = 0)
  BY DEF LaidOut
<1>2. /\ Len(on) = n + 1 /\ on = [k \in 1..n + 1 |-> on[k]]
      /\ on[n + 1] = g /\ \A k \in 1..n : on[k] = laid[k]
  <2> DEFINE S == {laid[k] : k \in 1..n}
  <2>1. laid \in Seq(S)
    BY <1>1
  <2> HIDE DEF S
  <2> QED
    BY <2>1, Appending
<1> HIDE DEF n, on
<1>3. \A k \in 1..n + 1 : SegmentOK(on[k])
  <2>1. \A k \in 1..n : SegmentOK(laid[k])
    BY DEF LaidOut, n
  <2>2. TAKE k \in 1..n + 1
  <2>3. k \in 1..n \/ k = n + 1
    BY <1>1
  <2> QED
    BY <1>2, <2>1, <2>3
<1>4. on[1].start = 0 /\ Joined(on[1].from, origin)
  <2>1. CASE laid = <<>>
    BY <1>1, <1>2, <2>1 DEF ExitOf, LengthOf, Joined
  <2>2. CASE laid # <<>>
    <3>1. 1 \in 1..n
      BY <1>1, <2>2
    <3> QED
      BY <1>2, <2>2, <3>1 DEF LaidOut
  <2> QED
    BY <2>1, <2>2
<1>5. ASSUME NEW k \in 1..n
      PROVE  on[k + 1].start = on[k].start + on[k].length /\ Joined(on[k].to, on[k + 1].from)
  <2>1. CASE k = n
    <3>1. laid # <<>>
      BY <1>1
    <3> QED
      BY <1>1, <1>2, <2>1, <3>1 DEF ExitOf, LengthOf, n
  <2>2. CASE k < n
    <3>1. k \in 1..n - 1 /\ k + 1 \in 1..n
      BY <1>1, <2>2
    <3> QED
      BY <1>2, <3>1 DEF LaidOut, n
  <2> QED
    BY <1>1, <2>1, <2>2
<1>6. ASSUME NEW j \in 1..n + 1, NEW k \in 1..n + 1, j < k
      PROVE  on[j].start < on[k].start
  <2>1. j \in 1..n
    BY <1>1, <1>6
  <2>2. CASE k \in 1..n
    BY <1>2, <1>6, <2>1, <2>2 DEF LaidOut, n
  <2>3. CASE k = n + 1
    <3>1. n \in 1..n /\ laid # <<>>
      BY <1>1, <2>1
    <3>2. g.start = laid[n].start + laid[n].length
      BY <3>1 DEF LengthOf, n
    <3>3. laid[n].start \in Nat /\ laid[n].length \in Nat \ {0} /\ laid[j].start \in Nat
      BY <2>1, <3>1 DEF LaidOut, SegmentOK, n
    <3>4. j < n => laid[j].start < laid[n].start
      BY <2>1, <3>1 DEF LaidOut, n
    <3>5. laid[j].start <= laid[n].start
      BY <1>1, <2>1, <3>3, <3>4
    <3>6. on[k] = g /\ on[j] = laid[j]
      BY <1>2, <2>1, <2>3
    <3>7. laid[j].start < laid[n].start + laid[n].length
      BY <3>3, <3>5
    <3> QED
      BY <3>2, <3>6, <3>7
  <2> QED
    BY <1>1, <2>2, <2>3
<1>7. LaidOut(on, origin)
  <2>1. Len(on) = n + 1
    BY <1>2
  <2>2. n \in Nat
    BY <1>1
  <2>3. Len(on) \in Nat /\ Len(on) - 1 = n
    BY <2>1, <2>2
  <2> QED
    BY <1>2, <1>3, <1>4, <1>5, <1>6, <2>3 DEF LaidOut
<1>8. on # <<>>
  BY <1>1, <1>2
<1> QED
  BY <1>2, <1>7, <1>8 DEF ExitOf, LengthOf, on

LEMMA MeasuredSoFar == CumulativeLength = LengthOf(segments)
BY DEF CumulativeLength, LengthOf

\* Where the builder stands on the segment that it is at.
LEMMA Stands ==
  ASSUME BuildInv, phase = "emitting", locus <= Len(kept), RightAngled,
         Corner(locus) # Corner(locus - 1)
  PROVE  LET p == Scaled(Unit, Corner(locus - 1))
             v == Minus(Corner(locus), Corner(locus - 1))
             d == Direction(v)
             l == Unit * Norm(v)
         IN  /\ p \in Plane /\ d \in Directions /\ l \in Nat \ {0}
             /\ Scaled(Unit, Corner(locus)) = At(p, d, l)
             /\ \E t \in Nat : /\ 2 * t <= l /\ half = (2 * t = l)
                               /\ here.point = At(p, d, t)
                               /\ ~here.exit => t = 0
<1> DEFINE a == Corner(locus - 1)
           b == Corner(locus)
           p == Scaled(Unit, a)
           v == Minus(b, a)
           d == Direction(v)
           n == Norm(v)
           l == Unit * n
<1>1. KeptOK /\ input \in Seq(Plane) /\ InEmission /\ Len(kept) \in Nat
  BY DEF BuildInv, KeptOK
<1>2. locus \in 2..Len(kept) /\ locus \in 1..Len(kept) /\ locus - 1 \in 1..Len(kept)
  BY <1>1 DEF InEmission
<1>3. a \in Plane /\ b \in Plane
  BY <1>1, <1>2, CornersArePlane
<1>4. AlongAxis(v) /\ a # b
  BY <1>2 DEF RightAngled
<1>5. n \in Nat \ {0} /\ d \in Directions /\ b = At(a, d, n)
  BY <1>3, <1>4, AxisFacts
<1>6. Unit \in Nat \ {0}
  BY BuilderAssumption
<1> HIDE DEF a, b, d, n
<1>7. p \in Plane /\ Scaled(Unit, b) = At(p, d, l)
  BY <1>3, <1>5, <1>6, ScaledLine
<1>8. l \in Nat \ {0}
  BY <1>5, <1>6
<1>9. Standing
  BY <1>1, <1>2 DEF InEmission
<1>10. \E t \in Nat : /\ 2 * t <= l /\ half = (2 * t = l)
                      /\ here.point = At(p, d, t)
                      /\ ~here.exit => t = 0
  <2>1. CASE here.exit
    <3>1. PICK t \in Nat \ {0} : /\ 2 * t <= l /\ half = (2 * t = l)
                                 /\ here.point = At(p, d, t)
      BY <1>9, <2>1 DEF Standing, a, b, d, n
    <3> QED
      BY <2>1, <3>1
  <2>2. CASE ~here.exit
    <3>1. here.point = p /\ half = FALSE
      BY <1>9, <2>2 DEF Standing, a
    <3>2. p = At(p, d, 0)
      BY <1>5, <1>7, LineFacts
    <3>3. 2 * 0 <= l /\ ~(2 * 0 = l) /\ 0 \in Nat
      BY <1>8
    <3> QED
      BY <3>1, <3>2, <3>3
  <2> QED
    BY <2>1, <2>2
<1> QED
  BY <1>5, <1>7, <1>8, <1>10 DEF a, b, d, n

-----------------------------------------------------------------------------
(* Construction *)

\* The line into a blend is left out where nothing of it is left, or rounding alone.
LEMMA LineIntoBlend ==
  ASSUME NEW p \in Plane, NEW d \in Directions, NEW l \in Nat, NEW t \in Nat, NEW u \in Nat,
         2 * t <= l, 2 * u <= l, NEW r \in Int, r = 0 \/ r \in Residues
  PROVE  LET left == Norm(Minus(At(p, d, l), At(p, d, t))) - u + r
             from == At(p, d, t)
             entry == At(p, d, l - u)
             whole == 2 * t = l /\ 2 * u = l
         IN  /\ left \in Int
             /\ left - Norm(Minus(entry, from)) = r
             /\ from \in Plane /\ entry \in Plane
             /\ ~whole => from # entry \/ l = 0
             /\ whole \/ left < 2 => Joined(from, entry)
<1> DEFINE left == Norm(Minus(At(p, d, l), At(p, d, t))) - u + r
           from == At(p, d, t)
           entry == At(p, d, l - u)
           whole == 2 * t = l /\ 2 * u = l
<1>0. l - u \in Int /\ l \in Int /\ t \in Int
  OBVIOUS
<1>1. /\ from \in Plane /\ entry \in Plane
      /\ Norm(Minus(At(p, d, l), from)) = Abs(l - t)
      /\ Norm(Minus(entry, from)) = Abs(l - u - t)
      /\ Norm(Minus(from, entry)) = Abs(t - (l - u))
      /\ from = entry => t = l - u
  <2>1. from \in Plane /\ Norm(Minus(At(p, d, l), from)) = Abs(l - t)
    BY <1>0, LineFacts
  <2>2. entry \in Plane /\ Norm(Minus(from, entry)) = Abs(t - (l - u))
    BY <1>0, LineFacts
  <2>3. Norm(Minus(entry, from)) = Abs(l - u - t) /\ (from = entry => t = l - u)
    BY <1>0, LineFacts
  <2> QED
    BY <2>1, <2>2, <2>3
<1>2. /\ Abs(l - t) = l - t /\ Abs(l - u - t) = l - u - t /\ Abs(t - (l - u)) = l - u - t
  BY DEF Abs
<1>3. left = l - t - u + r
  BY <1>1, <1>2
<1>4. ~whole => from # entry \/ l = 0
  BY <1>1
<1>5. ASSUME whole \/ left < 2 PROVE Joined(from, entry)
  <2>1. l - u - t <= Max(Residues)
    <3>1. CASE whole
      BY <3>1, Roundest
    <3>2. CASE left < 2 /\ r \in Residues
      BY <1>3, <3>2, Roundest
    <3>3. CASE left < 2 /\ r = 0
      <4>1. 0 \in Residues
        BY BuilderAssumption
      <4>2. 1 - 0 <= Max(Residues)
        BY <4>1, Roundest
      <4> QED
        BY <1>3, <3>3, <4>2, Roundest
    <3> QED
      BY <1>5, <3>1, <3>2, <3>3
  <2> QED
    BY <1>1, <1>2, <2>1 DEF Joined, Close
<1> QED
  BY <1>1, <1>2, <1>3, <1>4, <1>5

LEMMA EmitBlendKeeps ==
  ASSUME BuildInv, EmitBlend
  PROVE  BuildInv'
<1> DEFINE incoming == Minus(Corner(locus), Corner(locus - 1))
           outgoing == Minus(Corner(locus + 1), Corner(locus))
           blend == try_create_blend(incoming, outgoing)
           corner == Scaled(Unit, Corner(locus))
           entry == Minus(corner, Scaled(blend.trim, Direction(incoming)))
           exit == Plus(corner, Scaled(blend.trim, Direction(outgoing)))
           left(residue) == Norm(Minus(corner, here.point)) - blend.trim + residue
           line(residue) == IF ~Consumed(blend) /\ left(residue) >= 2
                            THEN <<Segment("linear", CumulativeLength, left(residue), here.point, entry)>> ELSE <<>>
           start(residue) == CumulativeLength + (IF line(residue) = <<>> THEN 0 ELSE left(residue))
           arc(residue) == Segment("circular", start(residue), 2 * blend.trim, entry, exit)
<1>1. /\ phase = "emitting" /\ phase' = "emitting" /\ locus < Len(kept) /\ RightAngled
      /\ input' = input /\ opts' = opts /\ kept' = kept /\ locus' = locus + 1
      /\ blend # NoBlend
      /\ here' = [point |-> exit, exit |-> TRUE] /\ half' = blend.half_out
  BY DEF EmitBlend
<1>2. PICK r \in IF here.exit THEN Residues ELSE {0} : segments' = segments \o line(r) \o <<arc(r)>>
  BY DEF EmitBlend
<1>3. r \in Int /\ (r = 0 \/ r \in Residues)
  BY BuilderAssumption
<1>4. /\ KeptOK /\ input \in Seq(Plane) /\ opts \in Options /\ InEmission /\ LaidOut(segments, Origin)
      /\ kept[Len(kept)] = Len(input)
  BY <1>1 DEF BuildInv
<1>5. /\ Len(kept) \in Nat /\ locus \in 2..Len(kept) - 1 /\ locus \in 1..Len(kept)
      /\ locus - 1 \in 1..Len(kept) /\ locus + 1 \in 1..Len(kept)
  BY <1>1, <1>4 DEF KeptOK, InEmission
<1>6. Corner(locus - 1) \in Plane /\ Corner(locus) \in Plane /\ Corner(locus + 1) \in Plane
  BY <1>4, <1>5, CornersArePlane
<1>7. incoming \in Plane /\ outgoing \in Plane
  <2>1. \A a, b \in Plane : Minus(a, b) \in Plane
    BY DEF Minus, Plane
  <2> QED
    BY <1>6, <2>1
<1>8. /\ blend.trim \in Nat \ {0}
      /\ 2 * blend.trim <= Unit * Norm(incoming) /\ 2 * blend.trim <= Unit * Norm(outgoing)
      /\ blend.half_in = (2 * blend.trim = Unit * Norm(incoming))
      /\ blend.half_out = (2 * blend.trim = Unit * Norm(outgoing))
  BY <1>1, <1>4, <1>7, BlendFacts
<1>9. Corner(locus) # Corner(locus - 1)
  <2>1. SUFFICES ASSUME Corner(locus) = Corner(locus - 1) PROVE FALSE
    OBVIOUS
  <2>2. Norm(incoming) = 0
    BY <1>6, <2>1, Apart
  <2> QED
    BY <1>8, <2>2, BuilderAssumption
<1> DEFINE p == Scaled(Unit, Corner(locus - 1))
           d == Direction(incoming)
           l == Unit * Norm(incoming)
           u == blend.trim
<1>10. p \in Plane /\ d \in Directions /\ l \in Nat \ {0} /\ corner = At(p, d, l)
  BY <1>1, <1>5, <1>9, Stands
<1>11. PICK t \in Nat : 2 * t <= l /\ half = (2 * t = l) /\ here.point = At(p, d, t)
  BY <1>1, <1>5, <1>9, Stands
<1>12. entry = At(p, d, l - u)
  BY <1>8, <1>10, LineFacts
<1>13. u \in Nat \ {0} /\ 2 * u <= l /\ blend.half_in = (2 * u = l)
  BY <1>8
<1>14. left(r) = Norm(Minus(At(p, d, l), At(p, d, t))) - u + r
  BY <1>10, <1>11
<1>15. Consumed(blend) = (2 * t = l /\ 2 * u = l)
  BY <1>11, <1>13 DEF Consumed
<1> HIDE DEF p, d, l, u, entry, exit, incoming, outgoing, corner, blend
<1> DEFINE rest == left(r)
<1>16. /\ rest \in Int
       /\ rest - Norm(Minus(entry, here.point)) = r
       /\ here.point \in Plane /\ entry \in Plane
       /\ ~Consumed(blend) => here.point # entry
       /\ Consumed(blend) \/ rest < 2 => Joined(here.point, entry)
  <2> HIDE DEF rest
  <2>1. rest = Norm(Minus(At(p, d, l), At(p, d, t))) - u + r
    BY <1>14 DEF rest
  <2>2. l \in Nat /\ t \in Nat /\ u \in Nat /\ 2 * t <= l /\ 2 * u <= l
    BY <1>10, <1>11, <1>13
  <2> DEFINE first == At(p, d, t)
             end == At(p, d, l - u)
  <2>3. /\ rest \in Int
        /\ rest - Norm(Minus(end, first)) = r
        /\ first \in Plane /\ end \in Plane
        /\ ~(2 * t = l /\ 2 * u = l) => first # end \/ l = 0
        /\ (2 * t = l /\ 2 * u = l) \/ rest < 2 => Joined(first, end)
    BY <1>3, <1>10, <2>1, <2>2, LineIntoBlend
  <2> QED
    BY <1>10, <1>11, <1>12, <1>15, <2>3
<1> HIDE DEF rest
<1>17. ExitOf(segments, Origin) = here.point
  BY <1>4 DEF InEmission
<1>18. exit \in Plane /\ 2 * u \in Nat \ {0}
  <2>1. \A k \in Nat, a, b \in Plane : Plus(a, Scaled(k, Direction(b))) \in Plane
    <3>1. \A k \in Nat, x \in Int : k * Sign(x) \in Int
      BY DEF Sign
    <3> QED
      BY <3>1 DEF Plus, Scaled, Direction, Plane
  <2> QED
    <3>1. Unit \in Nat /\ u \in Nat /\ 2 * u \in Nat \ {0}
      BY <1>13, BuilderAssumption
    <3>2. corner \in Plane
      BY <1>6, <3>1, ScaledPoint DEF corner
    <3>3. Plus(corner, Scaled(u, Direction(outgoing))) \in Plane
      BY <1>7, <2>1, <3>1, <3>2
    <3> QED
      BY <3>1, <3>3 DEF exit, u
<1>19. LengthOf(segments) \in Nat
  <2>1. segments # <<>> => Len(segments) \in 1..Len(segments)
    BY <1>4 DEF LaidOut
  <2> QED
    BY <1>4, <2>1 DEF LaidOut, SegmentOK, LengthOf
\* The segments and the arc, with or without the line.
<1> DEFINE Extended(on) == /\ LaidOut(on, Origin) /\ on # <<>> /\ ExitOf(on, Origin) = exit
<1>20. Extended(segments')
  <2>1. CASE ~Consumed(blend) /\ rest >= 2
    <3> DEFINE g == Segment("linear", LengthOf(segments), rest, here.point, entry)
               h == Segment("circular", LengthOf(segments) + rest, 2 * u, entry, exit)
               on == Append(segments, g)
    <3>1. segments' = Append(on, h)
      <4>1. line(r) = <<g>> /\ start(r) = LengthOf(segments) + rest
        BY <2>1, MeasuredSoFar DEF rest
      <4>2. segments' = segments \o <<g>> \o <<h>>
        BY <1>2, <4>1 DEF u
      <4> QED
        BY <1>4, <4>2, Concatenated
    <3>2. SegmentOK(g) /\ g.start = LengthOf(segments) /\ g.from = here.point
      BY <1>3, <1>16, <1>19, <2>1 DEF SegmentOK, Segment
    <3>3. Joined(ExitOf(segments, Origin), g.from)
      BY <1>16, <1>17, <3>2, JoinedToItself
    <3>4. LaidOut(on, Origin) /\ ExitOf(on, Origin) = entry /\ LengthOf(on) = LengthOf(segments) + rest
      <4>1. g.to = entry /\ g.length = rest
        BY DEF Segment
      <4> HIDE DEF g
      <4> QED
        BY <1>4, <3>2, <3>3, <4>1, LaidOn
    <3>5. SegmentOK(h) /\ h.start = LengthOf(segments) + rest /\ h.from = entry /\ h.to = exit
      BY <1>16, <1>18, <1>19, <2>1 DEF SegmentOK, Segment
    <3> HIDE DEF h, on
    <3>6. Joined(ExitOf(on, Origin), h.from)
      BY <1>16, <3>4, <3>5, JoinedToItself
    <3> QED
      BY <3>1, <3>4, <3>5, <3>6, LaidOn
  <2>2. CASE Consumed(blend) \/ rest < 2
    <3> DEFINE h == Segment("circular", LengthOf(segments), 2 * u, entry, exit)
    <3>1. segments' = Append(segments, h)
      <4>1. line(r) = <<>> /\ start(r) = LengthOf(segments)
        BY <1>16, <1>19, <2>2, MeasuredSoFar DEF rest
      <4>2. segments' = segments \o <<>> \o <<h>>
        BY <1>2, <4>1 DEF u
      <4> QED
        BY <1>4, <4>2, Concatenated
    <3>2. SegmentOK(h) /\ h.start = LengthOf(segments) /\ h.from = entry /\ h.to = exit
      BY <1>18, <1>19 DEF SegmentOK, Segment
    <3> HIDE DEF h
    <3>3. Joined(ExitOf(segments, Origin), h.from)
      BY <1>16, <1>17, <2>2, <3>2
    <3> QED
      BY <1>4, <3>1, <3>2, <3>3, LaidOn
  <2> QED
    BY <1>16, <2>1, <2>2
<1>21. Origin' = Origin /\ KeptOK'
  BY <1>1, <1>4 DEF Origin, Corner, KeptOK, locus_within_tolerance
<1>22. InEmission'
  <2>1. Standing'
    <3>1. Corner(locus - 1)' = Corner(locus) /\ Corner(locus)' = Corner(locus + 1)
      <4>1. locus' - 1 = locus
        BY <1>1, <1>5
      <4> QED
        BY <1>1, <4>1 DEF Corner
    <3>2. Minus(Corner(locus), Corner(locus - 1))' = outgoing
      BY <3>1 DEF outgoing, Minus
    <3>3. exit = At(Scaled(Unit, Corner(locus - 1)'), Direction(outgoing), u)
      BY <3>1 DEF exit, At, corner, u
    <3>4. u \in Nat \ {0} /\ 2 * u <= Unit * Norm(outgoing) /\ half' = (2 * u = Unit * Norm(outgoing))
      BY <1>1, <1>8 DEF u
    <3>5. here'.exit /\ here'.point = exit
      BY <1>1
    <3> QED
      BY <3>1, <3>2, <3>3, <3>4, <3>5 DEF Standing
  <2>2. ExitOf(segments', Origin') = here'.point
    BY <1>1, <1>20, <1>21
  <2>3. locus' \in 2..Len(kept') + 1 /\ locus' <= Len(kept')
    BY <1>1, <1>5
  <2> QED
    BY <1>5, <2>1, <2>2, <2>3 DEF InEmission
<1> QED
  BY <1>1, <1>4, <1>20, <1>21, <1>22 DEF BuildInv

LEMMA HereIsPlane ==
  ASSUME BuildInv, phase = "emitting", locus <= Len(kept), RightAngled
  PROVE  here.point \in Plane
<1>1. KeptOK /\ input \in Seq(Plane) /\ InEmission /\ Len(kept) \in Nat
  BY DEF BuildInv, KeptOK
<1>2. locus \in 1..Len(kept) /\ locus - 1 \in 1..Len(kept)
  BY <1>1 DEF InEmission
<1>3. Corner(locus) \in Plane /\ Corner(locus - 1) \in Plane
  BY <1>1, <1>2, CornersArePlane
<1>4. CASE Corner(locus) # Corner(locus - 1)
  <2> DEFINE p == Scaled(Unit, Corner(locus - 1))
             d == Direction(Minus(Corner(locus), Corner(locus - 1)))
  <2>1. p \in Plane /\ d \in Directions /\ \E t \in Nat : here.point = At(p, d, t)
    BY <1>4, Stands
  <2> HIDE DEF p, d
  <2> QED
    BY <2>1, LineFacts
<1>5. CASE Corner(locus) = Corner(locus - 1)
  <2>1. Norm(Minus(Corner(locus), Corner(locus - 1))) = 0
    BY <1>3, <1>5, Apart
  <2>2. Standing
    BY <1>1 DEF InEmission
  <2>3. here.point = Scaled(Unit, Corner(locus - 1))
    BY <2>1, <2>2, BuilderAssumption DEF Standing
  <2> QED
    BY <1>3, <2>3, ScaledPoint, BuilderAssumption
<1> QED
  BY <1>4, <1>5

LEMMA EmitLinearKeeps ==
  ASSUME BuildInv, EmitLinear
  PROVE  BuildInv'
<1> DEFINE to == Scaled(Unit, Corner(locus))
           g == Segment("linear", LengthOf(segments), Norm(Minus(to, here.point)), here.point, to)
<1>1. /\ phase = "emitting" /\ locus <= Len(kept) /\ RightAngled
      /\ input' = input /\ opts' = opts /\ kept' = kept
  BY DEF EmitLinear
<1>2. /\ KeptOK /\ input \in Seq(Plane) /\ opts \in Options /\ InEmission /\ LaidOut(segments, Origin)
      /\ kept[Len(kept)] = Len(input)
  BY <1>1 DEF BuildInv
<1>3. Origin' = Origin /\ KeptOK'
  BY <1>1, <1>2 DEF Origin, KeptOK, locus_within_tolerance
<1>4. CASE to = here.point
  <2>1. phase' = "failed" /\ segments' = segments
    BY <1>4 DEF EmitLinear
  <2> QED
    BY <1>1, <1>2, <1>3, <2>1 DEF BuildInv
<1>5. CASE to # here.point
  <2>1. /\ segments' = Append(segments, g) /\ phase' = phase /\ locus' = locus + 1 /\ half' = FALSE
        /\ here' = [point |-> to, exit |-> FALSE]
    BY <1>5, MeasuredSoFar DEF EmitLinear
  <2>2. Len(kept) \in Nat /\ locus \in 2..Len(kept) /\ locus \in 1..Len(kept)
    BY <1>1, <1>2 DEF KeptOK, InEmission
  <2>3. to \in Plane /\ here.point \in Plane
    BY <1>1, <1>2, <2>2, CornersArePlane, ScaledPoint, HereIsPlane, BuilderAssumption
  <2>4. LengthOf(segments) \in Nat
    <3>1. segments # <<>> => Len(segments) \in 1..Len(segments)
      BY <1>2 DEF LaidOut
    <3>2. CASE segments = <<>>
      BY <3>2 DEF LengthOf
    <3>3. CASE segments # <<>>
      <4> DEFINE final == segments[Len(segments)]
      <4>1. SegmentOK(final)
        BY <1>2, <3>1, <3>3 DEF LaidOut
      <4>2. final.start \in Nat /\ final.length \in Nat
        BY <4>1 DEF SegmentOK
      <4>3. LengthOf(segments) = final.start + final.length
        BY <3>3 DEF LengthOf
      <4> HIDE DEF final
      <4> QED
        BY <4>2, <4>3
    <3> QED
      BY <3>2, <3>3
  <2>5. Norm(Minus(to, here.point)) \in Nat \ {0}
    BY <1>5, <2>3, Apart
  <2> HIDE DEF to
  <2>6. SegmentOK(g) /\ g.start = LengthOf(segments) /\ g.from = here.point /\ g.to = to
    BY <1>5, <2>4, <2>5 DEF SegmentOK, Segment
  <2> HIDE DEF g
  <2>7. Joined(ExitOf(segments, Origin), g.from)
    BY <1>2, <2>3, <2>6, JoinedToItself DEF InEmission
  <2>8. LaidOut(segments', Origin) /\ ExitOf(segments', Origin) = to
    BY <1>2, <2>1, <2>6, <2>7, LaidOn
  <2>9. InEmission'
    <3>1. Scaled(Unit, Corner(locus - 1))' = to
      <4>1. locus' - 1 = locus
        BY <2>1, <2>2
      <4> QED
        BY <1>1, <4>1 DEF Corner, to
    <3>2. Standing'
      BY <2>1, <3>1 DEF Standing
    <3>3. ExitOf(segments', Origin') = here'.point
      BY <1>3, <2>1, <2>8
    <3>4. locus' > Len(kept') => here'.point = Scaled(Unit, Corner(Len(kept))')
      <4>1. SUFFICES ASSUME locus' > Len(kept')
                     PROVE  here'.point = Scaled(Unit, Corner(Len(kept))')
        OBVIOUS
      <4>2. locus = Len(kept)
        BY <1>1, <2>1, <2>2, <4>1
      <4> QED
        BY <1>1, <2>1, <4>2 DEF Corner, to
    <3>5. locus' \in 2..Len(kept') + 1
      BY <1>1, <2>1, <2>2
    <3> QED
      BY <3>2, <3>3, <3>4, <3>5 DEF InEmission
  <2> QED
    BY <1>1, <1>2, <1>3, <2>1, <2>8, <2>9 DEF BuildInv
<1> QED
  BY <1>4, <1>5

LEMMA FinishKeeps ==
  ASSUME BuildInv, Finish
  PROVE  BuildInv'
<1>1. /\ phase = "emitting" /\ locus > Len(kept)
      /\ phase' = IF segments = <<>> THEN "failed" ELSE "built"
      /\ input' = input /\ opts' = opts /\ kept' = kept /\ segments' = segments
  BY DEF Finish
<1>2. Origin' = Origin /\ (KeptOK => KeptOK') /\ Corner(Len(kept))' = Corner(Len(kept))
  BY <1>1 DEF Origin, KeptOK, locus_within_tolerance, Corner
<1> QED
  BY <1>1, <1>2 DEF BuildInv, InEmission

LEMMA BuildInvNext == BuildInv /\ [BuildNext]_buildVars => BuildInv'
<1> SUFFICES ASSUME BuildInv, [BuildNext]_buildVars
             PROVE  BuildInv'
  OBVIOUS
<1>1. CASE UNCHANGED buildVars
  <2>1. /\ input' = input /\ opts' = opts /\ phase' = phase /\ kept' = kept /\ locus' = locus
        /\ here' = here /\ half' = half /\ segments' = segments
    BY <1>1 DEF buildVars
  <2>2. Origin' = Origin /\ (KeptOK => KeptOK') /\ Corner(Len(kept))' = Corner(Len(kept))
    BY <2>1 DEF Origin, KeptOK, locus_within_tolerance, Corner
  <2>3. InEmission => InEmission'
    BY <2>1, <2>2 DEF InEmission, Standing, Corner
  <2> QED
    BY <2>1, <2>2, <2>3 DEF BuildInv
<1> QED
  BY <1>1, CreateKeeps, CoalesceKeeps, EmitBlendKeeps, EmitLinearKeeps, FinishKeeps DEF BuildNext

LEMMA BuildInvariant == BuildSpec => []BuildInv
BY BuildInvInit, BuildInvNext, PTL DEF BuildSpec

-----------------------------------------------------------------------------
(* The theorems *)

\* Every waypoint that was dropped lies within the tolerance of the segment that replaced
\* it in the end (the re-test of skipped in path::create).
THEOREM DroppedAreNear == BuildSpec => []SkippedInTube
<1>1. BuildInv => SkippedInTube
  BY DEF BuildInv, KeptOK, SkippedInTube
<1> QED
  BY <1>1, BuildInvariant, PTL

\* Between two blends that take a segment in full nothing is emitted, whatever rounding
\* adds to its measured length (segment_fully_consumed).
THEOREM NothingOfRounding == BuildSpec => []NoSliver
<1>1. BuildInv => NoSliver
  BY DEF BuildInv, LaidOut, SegmentOK, NoSliver
<1> QED
  BY <1>1, BuildInvariant, PTL

\* A built path goes from the first waypoint to the last, each segment from where the one
\* before it ends, as long as its line, and operator() finds it by its start.
THEOREM BuiltInOnePiece == BuildSpec => []PathJoined
<1>1. ASSUME BuildInv, phase = "built"
      PROVE  /\ segments[1].start = 0
             /\ Close(segments[1].from, Scaled(Unit, input[1]))
             /\ Close(segments[Len(segments)].to, Scaled(Unit, input[Len(input)]))
             /\ \A k \in 1..Len(segments) :
                  /\ k < Len(segments) => Close(segments[k].to, segments[k + 1].from)
                  /\ segments[k].start < SegmentEnd(k)
                  /\ SegmentEnd(k) = segments[k].start + segments[k].length
                  /\ segments[k].kind = "linear" =>
                       LET gap == segments[k].length - Norm(Minus(segments[k].to, segments[k].from))
                       IN  gap \in Residues \cup {0}
                  /\ SegmentFor(segments[k].start) = k
  <2>1. /\ LaidOut(segments, Origin) /\ segments # <<>> /\ KeptOK /\ input \in Seq(Plane)
        /\ kept[Len(kept)] = Len(input)
        /\ ExitOf(segments, Origin) = Scaled(Unit, Corner(Len(kept)))
    BY <1>1 DEF BuildInv
  <2>2. segments[1].start = 0 /\ Close(segments[1].from, Scaled(Unit, input[1]))
    BY <2>1 DEF LaidOut, Joined, Origin
  <2>3. Close(segments[Len(segments)].to, Scaled(Unit, input[Len(input)]))
    <3>1. Len(input) \in 1..Len(input)
      BY <2>1 DEF KeptOK
    <3>2. Scaled(Unit, input[Len(input)]) \in Plane
      BY <2>1, <3>1, ScaledPoint, BuilderAssumption
    <3>3. segments[Len(segments)].to = Scaled(Unit, input[Len(input)])
      BY <2>1 DEF ExitOf, Corner
    <3> QED
      BY <3>2, <3>3, JoinedToItself DEF Joined
  <2>4. ASSUME NEW k \in 1..Len(segments)
        PROVE  /\ k < Len(segments) => Close(segments[k].to, segments[k + 1].from)
               /\ segments[k].start < SegmentEnd(k)
               /\ SegmentEnd(k) = segments[k].start + segments[k].length
               /\ segments[k].kind = "linear" =>
                    LET gap == segments[k].length - Norm(Minus(segments[k].to, segments[k].from))
                    IN  gap \in Residues \cup {0}
               /\ SegmentFor(segments[k].start) = k
    <3>1. SegmentOK(segments[k]) /\ Len(segments) \in Nat
      BY <2>1 DEF LaidOut
    <3>2. k < Len(segments) =>
            /\ segments[k + 1].start = segments[k].start + segments[k].length
            /\ Close(segments[k].to, segments[k + 1].from)
      BY <2>1, <3>1 DEF LaidOut, Joined
    <3>3. SegmentEnd(k) = segments[k].start + segments[k].length
      BY <2>1, <3>1, <3>2, MeasuredSoFar DEF SegmentEnd, PathLength, LengthOf
    <3>4. segments[k].start < SegmentEnd(k)
      BY <3>1, <3>3 DEF SegmentOK
    <3>5. SegmentFor(segments[k].start) = k
      <4> DEFINE S == {j \in 1..Len(segments) : segments[j].start <= segments[k].start}
      <4>1. k \in S
        BY <3>1 DEF SegmentOK
      <4>2. \A j \in S : j <= k
        <5>1. TAKE j \in S
        <5>2. SUFFICES ASSUME k < j PROVE FALSE
          BY <3>1
        <5>3. segments[k].start < segments[j].start
          BY <2>1, <5>2 DEF LaidOut
        <5>4. segments[j].start \in Nat /\ segments[k].start \in Nat
          BY <2>1 DEF LaidOut, SegmentOK
        <5> QED
          BY <5>3, <5>4
      <4>3. S \subseteq Nat
        BY <3>1
      <4> HIDE DEF S
      <4>4. Max(S) = k
        <5>1. \A x \in S : (\A y \in S : x >= y) => x = k
          BY <4>1, <4>2, <4>3
        <5>2. \A y \in S : k >= y
          BY <4>1, <4>2, <4>3
        <5> QED
          BY <4>1, <5>1, <5>2 DEF Max
      <4> QED
        BY <4>4 DEF SegmentFor, S
    <3> QED
      BY <3>1, <3>2, <3>3, <3>4, <3>5 DEF SegmentOK
  <2> QED
    BY <2>2, <2>3, <2>4
<1>2. BuildInv => PathJoined
  BY <1>1 DEF PathJoined
<1> QED
  BY <1>2, BuildInvariant, PTL

\* A path that is built is one that a cursor can be put on: the starts of its segments and
\* its length are what PathAssumption asks of a path, so that what is proved of cursors
\* holds on all that path::create returns.
BuiltForCursors ==
  phase = "built" => EndToEnd([k \in 1..Len(segments) |-> segments[k].start], PathLength)

THEOREM BuiltPathsCarryCursors == BuildSpec => []BuiltForCursors
<1>1. ASSUME BuildInv, phase = "built" PROVE EndToEnd([k \in 1..Len(segments) |-> segments[k].start], PathLength)
  <2> DEFINE n == Len(segments)
             start == [k \in 1..n |-> segments[k].start]
  <2>1. LaidOut(segments, Origin) /\ segments # <<>>
    BY <1>1 DEF BuildInv
  <2>2. n \in Nat /\ segments = [k \in 1..n |-> segments[k]]
    BY <2>1 DEF LaidOut
  <2>3. n # 0
    <3>1. SUFFICES ASSUME n = 0 PROVE FALSE
      OBVIOUS
    <3>2. segments \in Seq({})
      BY <2>2, <3>1
    <3> QED
      BY <2>1, <3>1, <3>2, EmptySeq
  <2>4. \A k \in 1..n : segments[k].start \in Nat /\ segments[k].length \in Nat \ {0}
    BY <2>1 DEF LaidOut, SegmentOK
  <2>5. start \in Seq(Nat) /\ Len(start) = n /\ \A k \in 1..n : start[k] = segments[k].start
    BY <2>2, <2>4
  <2>6. PathLength = segments[n].start + segments[n].length
    BY <2>1, MeasuredSoFar DEF PathLength, LengthOf
  <2>7. segments[1].start = 0 /\ \A j, k \in 1..n : j < k => segments[j].start < segments[k].start
    BY <2>1 DEF LaidOut
  <2> HIDE DEF n, start
  <2>8. 1 \in 1..n /\ n \in 1..n
    BY <2>2, <2>3 DEF n
  <2>9. PathLength \in Nat /\ start[n] < PathLength
    BY <2>4, <2>5, <2>6, <2>8
  <2>10. start # <<>>
    BY <2>3, <2>5, EmptySeq
  <2>11. EndToEnd(start, PathLength)
    BY <2>5, <2>7, <2>8, <2>9, <2>10 DEF EndToEnd
  <2> QED
    BY <2>11 DEF n, start
<1>2. BuildInv => BuiltForCursors
  BY <1>1 DEF BuiltForCursors
<1> QED
  BY <1>2, BuildInvariant, PTL

-----------------------------------------------------------------------------
(* Cursors *)

\* What PathAssumption says, unfolded for the provers.
LEMMA PathFacts ==
  /\ Len(Start) \in Nat \ {0}
  /\ Length \in Nat
  /\ \A k \in Segments : Start[k] \in 0..Length - 1
  /\ \A j, k \in Segments : j < k => Start[j] < Start[k]
  /\ 1 \in Segments
  /\ Start[1] = 0
<1>1. Start \in Seq(Nat) /\ Start # <<>> /\ Length \in Nat
  BY PathAssumption DEF EndToEnd
<1>2. Len(Start) \in Nat \ {0}
  BY <1>1, EmptySeq, LenProperties
<1>3. \A k \in Segments : Start[k] \in Nat
  BY <1>1, ElementOfSeq DEF Segments
<1>4. \A k \in Segments : Start[k] <= Start[Len(Start)]
  BY <1>2, <1>3, PathAssumption DEF EndToEnd, Segments
<1>5. \A k \in Segments : Start[k] \in 0..Length - 1
  BY <1>1, <1>2, <1>3, <1>4, PathAssumption DEF EndToEnd, Segments
<1> QED
  BY <1>1, <1>2, <1>5, PathAssumption DEF EndToEnd, Segments

\* A search finds the last segment that starts at s or before.
LEMMA SearchFinds ==
  ASSUME NEW s \in 0..Length
  PROVE  /\ Searched(s) \in Segments
         /\ StartOf(Searched(s)) <= s
         /\ \A j \in Segments : StartOf(j) <= s => j <= Searched(s)
<1> DEFINE T == {k \in Segments : StartOf(k) <= s}
<1>1. T \subseteq 0..Len(Start) /\ 1 \in T
  BY PathFacts DEF Segments, StartOf
<1>2. PICK k \in T : \A j \in T : j <= k
  BY <1>1, GreatestNatural, PathFacts
<1> QED
  BY <1>2 DEF Searched

\* A segment that holds s is the one a search finds; so is the last one at the end.
LEMMA HeldIsSearched ==
  ASSUME NEW s \in 0..Length, NEW k \in Segments,
         Holds(k, s) \/ (k = Len(Start) /\ s = Length)
  PROVE  Searched(s) = k
<1>1. StartOf(k) <= s
  BY PathFacts DEF Holds, StartOf
<1>2. ASSUME NEW j \in Segments, StartOf(j) <= s
      PROVE  j <= k
  <2> SUFFICES ASSUME k < j
               PROVE  FALSE
    BY DEF Segments
  <2>1. k + 1 \in Segments /\ k # Len(Start) /\ (k + 1 = j \/ k + 1 < j)
    BY PathFacts DEF Segments
  <2>2. s < Start[k + 1]
    BY <2>1 DEF Holds, EndOf
  <2>3. Start[k + 1] <= Start[j]
    BY <2>1, PathFacts
  <2> QED
    BY <1>2, <2>1, <2>2, <2>3, PathFacts DEF StartOf
<1>3. Searched(s) \in Segments /\ k <= Searched(s) /\ Searched(s) <= k
  BY <1>1, <1>2, SearchFinds
<1> QED
  BY <1>3 DEF Segments

\* Whatever hint it starts from, update_hint_ ends at the segment a search finds.
LEMMA UpdatedHint ==
  ASSUME NEW s \in 0..Length, hint \in Segments
  PROVE  update_hint(s) = Searched(s) /\ update_hint(s) \in Segments
<1>1. CASE Holds(hint, s)
  BY <1>1, HeldIsSearched DEF update_hint
<1>2. CASE ~Holds(hint, s) /\ s = EndOf(hint)
  <2>1. CASE hint = Len(Start)
    BY <1>2, <2>1, HeldIsSearched DEF update_hint, EndOf
  <2>2. CASE hint # Len(Start)
    <3>1. hint + 1 \in Segments /\ hint < Len(Start)
      BY <2>2, PathFacts DEF Segments
    <3>2. s = Start[hint + 1]
      BY <1>2, <2>2 DEF EndOf
    <3>3. s < EndOf(hint + 1)
      <4>1. CASE hint + 1 = Len(Start)
        BY <3>1, <3>2, <4>1, PathFacts DEF EndOf
      <4>2. CASE hint + 1 # Len(Start)
        <5>1. hint + 1 + 1 \in Segments /\ hint + 1 < hint + 1 + 1
          BY <3>1, <4>2, PathFacts DEF Segments
        <5> QED
          BY <3>1, <3>2, <4>2, <5>1, PathFacts DEF EndOf
      <4> QED
        BY <4>1, <4>2
    <3>4. Holds(hint + 1, s)
      BY <3>2, <3>3 DEF Holds, StartOf
    <3> QED
      BY <1>2, <3>1, <3>4, HeldIsSearched DEF update_hint
  <2> QED
    BY <2>1, <2>2
<1>3. CASE ~Holds(hint, s) /\ s # EndOf(hint)
  <2>1. CASE hint > 1 /\ Holds(hint - 1, s)
    <3>1. hint - 1 \in Segments
      BY <2>1, PathFacts DEF Segments
    <3> QED
      BY <1>3, <2>1, <3>1, HeldIsSearched DEF update_hint
  <2>2. CASE ~(hint > 1 /\ Holds(hint - 1, s)) /\ hint < Len(Start) /\ Holds(hint + 1, s)
    <3>1. hint + 1 \in Segments
      BY <2>2, PathFacts DEF Segments
    <3> QED
      BY <1>3, <2>2, <3>1, HeldIsSearched DEF update_hint
  <2>3. CASE /\ ~(hint > 1 /\ Holds(hint - 1, s))
             /\ ~(hint < Len(Start) /\ Holds(hint + 1, s))
    BY <1>3, <2>3, SearchFinds DEF update_hint
  <2> QED
    BY <2>1, <2>2, <2>3
<1> QED
  BY <1>1, <1>2, <1>3

-----------------------------------------------------------------------------
(* The path cursor. *)

PathInv == PathTypeOK /\ HintLocates /\ CacheCurrent

\* A new cursor is at the first segment, with nothing cached.
LEMMA PathInvInit == PathInit => PathInv
<1> SUFFICES ASSUME PathInit
             PROVE  PathInv
  OBVIOUS
<1>1. PathTypeOK
  BY PathFacts DEF PathInit, PathTypeOK, Before, Beyond
<1>2. 0 \in 0..Length /\ StartOf(1) = 0
  BY PathFacts DEF StartOf
<1>3. Holds(1, 0)
  <2>1. CASE Len(Start) = 1
    BY <2>1, PathFacts DEF Holds, StartOf, EndOf
  <2>2. CASE 1 < Len(Start)
    <3>1. 1 + 1 \in Segments /\ 1 \in Segments /\ 1 < 1 + 1
      BY <2>2, PathFacts DEF Segments
    <3>2. Start[1 + 1] \in Nat /\ Start[1] < Start[1 + 1]
      BY <3>1, PathFacts
    <3> QED
      BY <2>2, <3>2, PathFacts DEF Holds, StartOf, EndOf
  <2>3. Len(Start) = 1 \/ 1 < Len(Start)
    <3>1. \A n \in Nat \ {0} : n = 1 \/ 1 < n
      OBVIOUS
    <3> QED
      BY <3>1, PathFacts
  <2> QED
    BY <2>1, <2>2, <2>3
<1>4. Searched(0) = 1
  BY <1>2, <1>3, HeldIsSearched, PathFacts
<1> QED
  BY <1>1, <1>4 DEF PathInit, PathInv, HintLocates, CacheCurrent

\* A seek leaves the hint at the right segment; a seek that keeps the cache has not
\* moved the cursor.
LEMMA PathSeekStep ==
  ASSUME PathInv, NEW s \in Int, path_seek(s)
  PROVE  PathInv'
<1>1. position' \in Before..Beyond /\ (OnPath(s) <=> OnPath(position')) /\ (OnPath(s) => position' = s)
  BY PathFacts DEF path_seek, Placed, Before, Beyond, OnPath
<1>2. hint' \in Segments /\ (OnPath(position') => hint' = Searched(position'))
  <2>1. CASE OnPath(s)
    <3>1. s \in 0..Length
      BY <2>1 DEF OnPath
    <3> QED
      BY <1>1, <2>1, <3>1, UpdatedHint DEF path_seek, PathInv, PathTypeOK
  <2>2. CASE ~OnPath(s)
    BY <1>1, <2>2 DEF path_seek, PathInv, PathTypeOK
  <2> QED
    BY <2>1, <2>2
<1>3. PathTypeOK'
  BY <1>1, <1>2 DEF path_seek, PathInv, PathTypeOK, Before, Beyond, Segments, Geometry, Unwritten, Evaluated
<1>4. HintLocates'
  BY <1>2 DEF HintLocates, OnPath, Searched, StartOf, Segments
<1>5. CacheCurrent'
  <2>1. CASE position' = position
    BY <2>1 DEF path_seek, PathInv, CacheCurrent, OnPath, Searched, StartOf, Segments, Evaluated
  <2>2. CASE position' # position
    BY <2>2 DEF path_seek, CacheCurrent
  <2> QED
    BY <2>1, <2>2
<1> QED
  BY <1>3, <1>4, <1>5 DEF PathInv

\* A query caches what it computes at the cursor.
LEMMA QueryStep ==
  ASSUME PathInv, NEW components \in SUBSET Components, Queried(components),
         UNCHANGED <<position, hint>>
  PROVE  PathInv'
<1>1. position \in 0..Length /\ hint = Searched(position) /\ hint \in Segments
  BY DEF Queried, PathInv, PathTypeOK, HintLocates, OnPath, Before, Beyond
<1>2. Evaluated(hint, position) \in Geometry
  BY <1>1 DEF Evaluated, Geometry
<1>3. PathTypeOK'
  BY <1>2 DEF Queried, PathInv, PathTypeOK, Before, Beyond, Segments, Geometry, Unwritten, Evaluated
<1>4. HintLocates'
  BY DEF PathInv, HintLocates, OnPath, Searched, StartOf, Segments
<1>5. \A c \in cached' : storage'[c] = Evaluated(Searched(position), position)
  BY <1>1 DEF Queried, PathInv, PathTypeOK, CacheCurrent
<1>6. CacheCurrent'
  BY <1>5 DEF Queried, CacheCurrent, OnPath, Searched, StartOf, Segments, Evaluated
<1> QED
  BY <1>3, <1>4, <1>6 DEF PathInv

\* Every step of a path cursor keeps its invariant.
LEMMA PathInvNext == PathInv /\ [PathNext]_pathVars => PathInv'
<1> SUFFICES ASSUME PathInv, [PathNext]_pathVars
             PROVE  PathInv'
  OBVIOUS
<1>1. ASSUME NEW s \in Positions, path_seek(s)
      PROVE  PathInv'
  BY <1>1, PathSeekStep, PathAssumption
<1>2. ASSUME NEW delta \in Deltas, path_seek_by(delta)
      PROVE  PathInv'
  <2>1. delta \in Int /\ position \in Int
    BY PathAssumption, PathFacts DEF EndToEnd, PathInv, PathTypeOK, Before, Beyond
  <2>2. PICK s \in Int : path_seek(s)
    BY <1>2, <2>1 DEF path_seek_by
  <2> QED
    BY <2>2, PathSeekStep
<1>3. ASSUME NEW c \in Components, query(c)
      PROVE  PathInv'
  BY <1>3, QueryStep DEF query
<1>4. ASSUME UNCHANGED pathVars
      PROVE  PathInv'
  BY <1>4 DEF pathVars, PathInv, PathTypeOK, HintLocates, CacheCurrent, OnPath, Searched,
              StartOf, Segments, Evaluated, Before, Beyond, Geometry, Unwritten
<1> QED
  BY <1>1, <1>2, <1>3, <1>4 DEF PathNext

\* The path cursor's hint is always the segment a search would find, and its cache
\* always holds the geometry at its position (path::cursor, path::cursor::rich).
THEOREM PathCursorCorrect == PathSpec => [](HintLocates /\ CacheCurrent)
<1>1. PathInv => HintLocates /\ CacheCurrent
  BY DEF PathInv
<1> QED
  BY <1>1, PathInvInit, PathInvNext, PTL DEF PathSpec

\* What a rich cursor answers from its cache is what it would evaluate now: no seek
\* leaves geometry of another position behind (path::cursor::rich).
THEOREM CacheIsCurrent == PathSpec => []CacheCurrent
  BY PathCursorCorrect, PTL

-----------------------------------------------------------------------------
(* Integration points. *)

\* What TrajectoryAssumption says, unfolded for the provers.
LEMMA PointFacts ==
  /\ N \in Nat /\ N >= 2
  /\ \A i \in 1..N : /\ Points[i] \in [time : Nat, s : 0..Length, s_dot : Int, s_ddot : Int]
                     /\ Points[i].time \in Nat
                     /\ Points[i].s \in Int
  /\ \A i, j \in 1..N : i < j => Points[i].time < Points[j].time
  /\ Points[1].time = 0
  /\ Points[1].s = 0
  /\ Duration \in Nat
<1>1. Points \in Seq([time : Nat, s : 0..Length, s_dot : Int, s_ddot : Int])
  BY TrajectoryAssumption
<1>2. N \in Nat /\ N >= 2
  BY <1>1, LenProperties, TrajectoryAssumption DEF N, Accepted
<1>3. ASSUME NEW i \in 1..N
      PROVE  /\ Points[i] \in [time : Nat, s : 0..Length, s_dot : Int, s_ddot : Int]
             /\ Points[i].time \in Nat
             /\ Points[i].s \in Int
  <2>1. Points[i] \in [time : Nat, s : 0..Length, s_dot : Int, s_ddot : Int]
    BY <1>1, <1>3, ElementOfSeq DEF N
  <2> QED
    BY <2>1, PathFacts
<1>4. N \in 1..N
  BY <1>2
<1>5. Duration \in Nat
  BY <1>3, <1>4 DEF Duration
<1> QED
  BY <1>2, <1>3, <1>5, TrajectoryAssumption DEF N, Accepted

\* A search finds the last point not after t.
LEMMA PointSearchFinds ==
  ASSUME NEW t \in 0..Duration
  PROVE  /\ PointSearched(t) \in 1..N
         /\ Points[PointSearched(t)].time <= t
         /\ \A j \in 1..N : Points[j].time <= t => j <= PointSearched(t)
<1> DEFINE T == {i \in 1..N : Points[i].time <= t}
<1>1. T \subseteq 0..N /\ 1 \in T
  BY PointFacts
<1>2. PICK i \in T : \A j \in T : j <= i
  BY <1>1, GreatestNatural, PointFacts
<1> QED
  BY <1>2 DEF PointSearched

\* The point a search finds governs its time, and no other point does.
LEMMA GoverningIsSearched ==
  ASSUME NEW t \in 0..Duration
  PROVE  /\ Governs(PointSearched(t), t)
         /\ \A i \in 1..N : Governs(i, t) => PointSearched(t) = i
<1>1. Governs(PointSearched(t), t)
  <2>1. ASSUME PointSearched(t) < N
        PROVE  t < Points[PointSearched(t) + 1].time
    <3>1. PointSearched(t) + 1 \in 1..N
      BY <2>1, PointSearchFinds, PointFacts
    <3>2. ~(Points[PointSearched(t) + 1].time <= t)
      BY <3>1, PointSearchFinds
    <3> QED
      BY <3>1, <3>2, PointFacts
  <2> QED
    BY <2>1, PointSearchFinds DEF Governs
<1>2. ASSUME NEW i \in 1..N, Governs(i, t)
      PROVE  PointSearched(t) = i
  <2>1. PointSearched(t) \in 1..N /\ i <= PointSearched(t)
    BY <1>2, PointSearchFinds DEF Governs
  <2>2. ASSUME i < PointSearched(t)
        PROVE  FALSE
    <3>1. i + 1 \in 1..N /\ i < N /\ (i + 1 = PointSearched(t) \/ i + 1 < PointSearched(t))
      BY <2>1, <2>2, PointFacts
    <3>2. t < Points[i + 1].time
      BY <1>2, <3>1 DEF Governs
    <3>3. Points[i + 1].time <= Points[PointSearched(t)].time
      BY <2>1, <3>1, PointFacts
    <3> QED
      BY <2>1, <3>1, <3>2, <3>3, PointSearchFinds, PointFacts
  <2> QED
    BY <2>1, <2>2
<1> QED
  BY <1>1, <1>2

\* Whichever short cut it takes, seek ends at the point a search finds.
LEMMA NextPointIsSearched ==
  ASSUME NEW t \in 0..Duration, time_hint \in 1..N
  PROVE  NextPoint(t) = PointSearched(t)
<1>1. CASE Governs(time_hint, t)
  BY <1>1, GoverningIsSearched DEF NextPoint
<1>2. CASE ~Governs(time_hint, t) /\ time_hint < N /\ Governs(time_hint + 1, t)
  <2>1. time_hint + 1 \in 1..N
    BY <1>2, PointFacts
  <2> QED
    BY <1>2, <2>1, GoverningIsSearched DEF NextPoint
<1>3. CASE /\ ~Governs(time_hint, t)
           /\ ~(time_hint < N /\ Governs(time_hint + 1, t))
           /\ time_hint > 1 /\ Governs(time_hint - 1, t)
  <2>1. time_hint - 1 \in 1..N
    BY <1>3, PointFacts
  <2> QED
    BY <1>3, <2>1, GoverningIsSearched DEF NextPoint
<1>4. CASE /\ ~Governs(time_hint, t)
           /\ ~(time_hint < N /\ Governs(time_hint + 1, t))
           /\ ~(time_hint > 1 /\ Governs(time_hint - 1, t))
  BY <1>4 DEF NextPoint
<1> QED
  BY <1>1, <1>2, <1>3, <1>4

\* The arc length reached at a time in range is on the path.
LEMMA ReachedOnPath ==
  ASSUME NEW t \in 0..Duration
  PROVE  Reached(PointSearched(t), t) \in 0..Length
<1>1. Arc(PointSearched(t), t) >= 0
  BY ForwardAssumption, PointSearchFinds, GoverningIsSearched
<1>2. Arc(PointSearched(t), t) \in Int
  <2> DEFINE i == PointSearched(t)
  <2>1. i \in 1..N
    BY PointSearchFinds
  <2>2. Points[i].s \in Int /\ Points[i].s_dot \in Int /\ Points[i].s_ddot \in Int
        /\ Points[i].time \in Int
    BY <2>1, PointFacts
  <2> HIDE DEF i
  <2>3. t - Points[i].time \in Int
    BY <2>2
  <2>4. Points[i].s_dot * (t - Points[i].time) \in Int
        /\ Points[i].s_ddot * (t - Points[i].time) \in Int
    BY <2>2, <2>3
  <2>5. Points[i].s_ddot * (t - Points[i].time) * (t - Points[i].time) \in Int
    BY <2>3, <2>4
  <2>6. (Points[i].s_ddot * (t - Points[i].time) * (t - Points[i].time)) \div 2 \in Int
    BY <2>5
  <2> QED
    BY <2>2, <2>4, <2>6 DEF Arc, i
<1> QED
  BY <1>1, <1>2, PathFacts DEF Reached

-----------------------------------------------------------------------------
(* The trajectory cursor. *)

\* Between the time, the point hint and the arc length there is no slack: the cursor
\* is a function of its time alone.
CursorInv ==
  /\ PathInv
  /\ time \in -1..Duration + 1
  /\ time_hint \in 1..N
  /\ InTime(time) => /\ time_hint = PointSearched(time)
                     /\ position = Reached(time_hint, time)
  /\ SampleIsFresh

\* A new cursor stands at the start.
LEMMA CursorInvInit == Init => CursorInv
<1> SUFFICES ASSUME Init
             PROVE  CursorInv
  OBVIOUS
<1>1. PathInv
  BY PathInvInit DEF Init
<1>2. 0 \in 0..Duration /\ 1 \in 1..N
  BY PointFacts
<1>3. Governs(1, 0)
  <2>1. 1 + 1 \in 1..N
    BY PointFacts
  <2> QED
    BY <2>1, PointFacts DEF Governs
<1>4. PointSearched(0) = 1
  BY <1>2, <1>3, GoverningIsSearched
<1>5. Arc(1, 0) = 0
  <2>1. Points[1].s_dot \in Int /\ Points[1].s_ddot \in Int
    BY <1>2, PointFacts
  <2>2. Points[1].s_dot * 0 = 0 /\ (Points[1].s_ddot * 0 * 0) \div 2 = 0
    BY <2>1
  <2> QED
    BY <2>2, PointFacts DEF Arc
<1>6. Reached(1, 0) = 0
  BY <1>5, ReachedOnPath, <1>2, <1>4, PathFacts DEF Reached
<1>7. SampleIsFresh
  BY DEF Init, SampleIsFresh
<1> QED
  BY <1>1, <1>2, <1>4, <1>6, <1>7, PointFacts DEF Init, PathInit, CursorInv

\* Every seek leaves a cursor that is determined by its time.
LEMMA SeekStep ==
  ASSUME CursorInv, NEW t \in Int, seek(t)
  PROVE  CursorInv'
<1>1. time' \in -1..Duration + 1 /\ (InTime(t) <=> InTime(time')) /\ (InTime(t) => time' = t)
  BY PointFacts DEF seek, InTime
<1>2. CASE InTime(t)
  <2>1. t \in 0..Duration
    BY <1>2, PointFacts DEF InTime
  <2>2. time_hint' = PointSearched(t) /\ time_hint' \in 1..N
    BY <1>2, <2>1, NextPointIsSearched, PointSearchFinds DEF seek, CursorInv
  <2>3. Reached(time_hint', t) \in 0..Length
    BY <2>1, <2>2, ReachedOnPath
  <2>4. path_seek(Reached(time_hint', t))
    BY <1>2 DEF seek
  <2>5. PathInv'
    BY <2>3, <2>4, PathSeekStep, PathFacts DEF CursorInv
  <2>6. position' = Reached(time_hint', t)
    BY <2>3, <2>4, PathFacts DEF path_seek, Placed
  <2>7. SampleIsFresh'
    BY DEF seek, CursorInv, SampleIsFresh
  <2> QED
    BY <1>1, <1>2, <2>2, <2>5, <2>6, <2>7 DEF CursorInv
<1>3. CASE ~InTime(t)
  <2>1. UNCHANGED <<pathVars, time_hint, sampled>>
    BY <1>3 DEF seek
  <2>2. PathInv'
    BY <2>1, PathInvNext DEF CursorInv
  <2> QED
    BY <1>1, <1>3, <2>1, <2>2 DEF CursorInv, SampleIsFresh
<1> QED
  BY <1>2, <1>3

\* A sample is computed from the hints and the cache, and is what a fresh cursor gives.
LEMMA SampleStep ==
  ASSUME CursorInv, sample
  PROVE  CursorInv'
<1>1. PathInv'
  BY QueryStep DEF sample, CursorInv
<1>2. time_hint = PointSearched(time) /\ position = Reached(time_hint, time)
  BY DEF sample, CursorInv
<1>3. cached' = Components /\ OnPath(position)
  BY DEF sample, Queried, CursorInv, PathInv, PathTypeOK
<1>4. position' = position /\ hint' = hint
  BY DEF sample
<1>5. \A c \in Components : storage'[c] = Evaluated(Searched(position), position)
  BY <1>1, <1>3, <1>4 DEF PathInv, CacheCurrent, OnPath, Evaluated, Searched, StartOf, Segments
<1>6. storage' = [c \in Components |-> Evaluated(Searched(position), position)]
  BY <1>5 DEF sample, Queried
<1>7. sampled' = [SampleAt(time_hint, time, position) EXCEPT !.geometry = storage']
  BY DEF sample
<1>8. sampled' = SampleAt(time_hint, time, position)
  BY <1>6, <1>7 DEF SampleAt
<1>9. sampled' = FreshSample(time) /\ sampled'.time = time
  BY <1>2, <1>8 DEF FreshSample, SampleAt
<1>10. SampleIsFresh'
  BY <1>9 DEF SampleIsFresh
<1> QED
  BY <1>1, <1>10 DEF sample, CursorInv

\* Every step of a trajectory cursor keeps its invariant.
LEMMA CursorInvNext == CursorInv /\ [Next]_vars => CursorInv'
<1> SUFFICES ASSUME CursorInv, [Next]_vars
             PROVE  CursorInv'
  OBVIOUS
<1>1. ASSUME NEW t \in Times, seek(t)
      PROVE  CursorInv'
  BY <1>1, SeekStep, TrajectoryAssumption
<1>2. ASSUME NEW dt \in Offsets, seek_by(dt)
      PROVE  CursorInv'
  <2>1. dt \in Int /\ time \in Int
    BY TrajectoryAssumption, PointFacts DEF CursorInv
  <2>2. PICK t \in Int : seek(t)
    BY <1>2, <2>1 DEF seek_by
  <2> QED
    BY <2>2, SeekStep
<1>3. ASSUME sample
      PROVE  CursorInv'
  BY <1>3, SampleStep
<1>4. ASSUME sample_throws
      PROVE  CursorInv'
  <2>1. PathInv'
    BY <1>4, PathInvNext DEF sample_throws, CursorInv
  <2> QED
    BY <1>4, <2>1 DEF sample_throws, CursorInv, SampleIsFresh, pathVars
<1>5. ASSUME UNCHANGED vars
      PROVE  CursorInv'
  <2>1. PathInv'
    BY <1>5, PathInvNext DEF vars, CursorInv
  <2> QED
    BY <1>5, <2>1 DEF vars, pathVars, CursorInv, SampleIsFresh
<1> QED
  BY <1>1, <1>2, <1>3, <1>4, <1>5 DEF Next

\* The invariant implies the properties.
LEMMA CursorInvImplies == CursorInv => TypeOK /\ HintGoverns /\ SampleIsFresh
<1> SUFFICES ASSUME CursorInv
             PROVE  TypeOK /\ HintGoverns /\ SampleIsFresh
  OBVIOUS
<1>1. ASSUME InTime(time)
      PROVE  OnPath(position)
  <2>1. time \in 0..Duration
    BY <1>1, PointFacts DEF InTime, CursorInv
  <2> QED
    BY <1>1, <2>1, ReachedOnPath, PathFacts DEF CursorInv, OnPath
<1> QED
  BY <1>1 DEF CursorInv, PathInv, TypeOK, HintGoverns

\* A cursor always has a governing point that a search would find, and is on the path
\* whenever its time is in range (trajectory::cursor::seek).
THEOREM HintsCorrect == Spec => [](TypeOK /\ HintGoverns)
<1> QED
  BY CursorInvInit, CursorInvNext, CursorInvImplies, PTL DEF Spec

\* Whatever seeks and samples came before, a sample is the one a cursor made for its
\* time alone would give (trajectory::cursor::sample, trajectory::sample).
THEOREM SamplesAreFresh == Spec => []SampleIsFresh
<1> QED
  BY CursorInvInit, CursorInvNext, CursorInvImplies, PTL DEF Spec


=============================================================================
