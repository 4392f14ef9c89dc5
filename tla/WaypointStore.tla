---------------------------- MODULE WaypointStore ----------------------------
(***************************************************************************)
(* The waypoint store of a streaming session                               *)
(* (streaming/private/waypoint_store.hpp): rows live in chunks of          *)
(* ChunkRows rows, each chunk an array of its own, and are presented as an *)
(* accumulator of views, that is of addresses into the chunks.  Chunks are *)
(* kept when a truncation empties them, except by one that empties the     *)
(* store, whose next rows may have another width.                          *)
(*                                                                         *)
(* Abstractions.  A row is a model value with a width.  A chunk's address  *)
(* is a model value and may be used again once the chunk is released.      *)
(***************************************************************************)
EXTENDS Naturals, Sequences

CONSTANTS
  Row,        \* rows
  Dof,        \* Dof[r]: width of r
  Batch,      \* accumulators a caller may append: rows of one width
  ChunkRows,  \* k_chunk_rows
  Address,    \* addresses a chunk may be allocated at
  MaxRows     \* bound: rows stored

ASSUME StoreAssumption ==
  /\ Dof \in [Row -> Nat \ {0}]
  /\ Batch \subseteq Seq(Row) \ {<<>>}
  /\ \A b \in Batch : \A i \in 1..Len(b) : Dof[b[i]] = Dof[b[1]]
  /\ ChunkRows \in Nat \ {0}
  /\ MaxRows \in Nat

VARIABLES
  heap,        \* the live chunks: width and cells of each address
  chunks,      \* chunks_: their addresses, in order
  size,        \* size_
  dof_,        \* 0 when unknown
  accumulator  \* accumulator_: the views; <<>> when disengaged

storeVars == <<heap, chunks, size, dof_, accumulator>>

Blank == [unwritten |-> TRUE]

\* Fault: the first row of a chunk is taken for one past its predecessor's end.
ChunkOfLate(i) == IF i = 0 THEN 1 ELSE (i - 1) \div ChunkRows + 1

\* Where row i lives, counting rows from zero.
ChunkOf(i) == i \div ChunkRows + 1
OffsetOf(i) == i % ChunkRows

StoreInit ==
  /\ heap = <<>>
  /\ chunks = <<>>
  /\ size = 0
  /\ dof_ = 0
  /\ accumulator = <<>>

\* chunks_ once rows 0..n - 1 have been written, new chunks at any free addresses.
Allocated(n) ==
  LET count == IF n = 0 \/ ChunkOf(n - 1) <= Len(chunks) THEN Len(chunks) ELSE ChunkOf(n - 1) IN
  {g \in [1..count -> Address] :
     /\ \A k \in 1..Len(chunks) : g[k] = chunks[k]
     /\ \A k \in (Len(chunks) + 1)..count : g[k] \notin DOMAIN heap
     /\ \A j, k \in 1..count : j # k => g[j] # g[k]}

\* The cell of row i of chunk list g.
View(g, i) == [chunk |-> g[ChunkOf(i)], at |-> OffsetOf(i)]

\* added is written after the stored rows, into chunk list g.
Write(g, added, width) ==
  /\ chunks' = g
  /\ heap' = [c \in {g[k] : k \in 1..Len(g)} |->
       LET k == CHOOSE k \in 1..Len(g) : g[k] = c
           old == IF c \in DOMAIN heap THEN heap[c]
                  ELSE [width |-> width, cells |-> [o \in 0..ChunkRows - 1 |-> Blank]]
       IN  [old EXCEPT !.cells = [o \in 0..ChunkRows - 1 |->
              LET i == (k - 1) * ChunkRows + o IN
              IF i \in size..(size + Len(added) - 1) THEN added[i - size + 1] ELSE @[o]]]]
  /\ accumulator' = accumulator \o [i \in 1..Len(added) |-> View(g, size + i - 1)]
  /\ size' = size + Len(added)
  /\ dof_' = width

\* The rows of batch from index from on; a batch of another width is refused.
Appendable(batch, from) ==
  /\ from < Len(batch)
  /\ dof_ = 0 \/ Dof[batch[1]] = dof_
  /\ size + Len(batch) - from <= MaxRows

append(batch, from) ==
  /\ Appendable(batch, from)
  /\ \E g \in Allocated(size + Len(batch) - from) :
       Write(g, SubSeq(batch, from + 1, Len(batch)), Dof[batch[1]])

\* An allocation fails once k rows are stored: the width is already noted, and the
\* chunk of the next row may be there; what that row's cell holds is left out, as
\* nothing reads a cell past size.
append_fails(batch, from) ==
  /\ Appendable(batch, from)
  /\ \E k \in 0..Len(batch) - from - 1 :
       \E g \in Allocated(size + k) \cup Allocated(size + k + 1) :
         Write(g, SubSeq(batch, from + 1, from + k), Dof[batch[1]])

\* Fault: a store that has been emptied keeps its chunks and forgets their width.
truncate_keeping(count) ==
  /\ count <= size
  /\ size' = count
  /\ accumulator' = SubSeq(accumulator, 1, count)
  /\ dof_' = IF count = 0 THEN 0 ELSE dof_
  /\ UNCHANGED <<heap, chunks>>

truncate(count) ==
  /\ count <= size
  /\ size' = count
  /\ accumulator' = SubSeq(accumulator, 1, count)
  /\ IF count = 0
       THEN heap' = <<>> /\ chunks' = <<>> /\ dof_' = 0
       ELSE UNCHANGED <<heap, chunks, dof_>>

Stored(i) == heap[chunks[ChunkOf(i)]].cells[OffsetOf(i)]
last == Stored(size - 1)

reset_to_last ==
  /\ size > 1
  /\ heap' = [heap EXCEPT ![chunks[1]].cells[0] = last]
  /\ size' = 1
  /\ accumulator' = <<View(chunks, 0)>>
  /\ UNCHANGED <<chunks, dof_>>

StoreNext ==
  \/ \E batch \in Batch, from \in {0, 1} : append(batch, from) \/ append_fails(batch, from)
  \/ \E count \in 0..MaxRows : truncate(count)
  \/ reset_to_last

StoreSpec == StoreInit /\ [][StoreNext]_storeVars

-----------------------------------------------------------------------------
(* Properties *)

\* What view i reads: its row, if the chunk is live and as wide as the row.
Read(i) ==
  LET view == accumulator[i] IN
  IF view.chunk \in DOMAIN heap /\ heap[view.chunk].width = dof_
    THEN heap[view.chunk].cells[view.at] ELSE Blank

\* The rows that the accumulator's views read form a log, one row to a view: whatever
\* chunks are kept, reused or released, a stored row is never changed, lost or
\* duplicated, nor read through a view of another width or of a chunk that is gone, an
\* append that fails included (append, truncate, reset_to_last).
Log == INSTANCE RowLog WITH rows <- [i \in 1..Len(accumulator) |-> Read(i)]

LogSpec == Log!Spec

=============================================================================
