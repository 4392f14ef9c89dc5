-------------------------------- MODULE RowLog --------------------------------
(***************************************************************************)
(* What a waypoint store promises its session: a sequence of rows that     *)
(* grows at the end by rows of a batch, is cut back to a prefix, or is     *)
(* reduced to its last row.  Nothing else ever changes a row that is still *)
(* stored.                                                                 *)
(***************************************************************************)
EXTENDS Naturals, Sequences

CONSTANT Batch   \* sequences of rows that a caller may append

VARIABLE rows

Init == rows = <<>>

\* Rows from..last of a batch; fewer than all that remain if memory runs out.
Grow ==
  \E batch \in Batch, from \in {1, 2} :
    \E last \in from..Len(batch) : rows' = rows \o SubSeq(batch, from, last)

Shrink == \E n \in 0..Len(rows) : rows' = SubSeq(rows, 1, n)

KeepLast == rows # <<>> /\ rows' = <<rows[Len(rows)]>>

Next == Grow \/ Shrink \/ KeepLast

Spec == Init /\ [][Next]_rows

=============================================================================
