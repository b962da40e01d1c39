----------------------------- MODULE IndexRows ------------------------------
(***************************************************************************)
(* The rows that the index is made of and merged with.  A row <<idx, u, v>> *)
(* says that v is a neighbour of u in direction idx; the code packs it in  *)
(* 64 bits, (idx << 59) | (u << 32) | v, so that sorted rows are the lists *)
(* one after the other.                                                    *)
(***************************************************************************)
EXTENDS SortedLists, FiniteSets

CONSTANT
  Indexes    \* the directed query edges

Null == -1    \* not a vertex, and not a place

(* The rows of a direction, the vertices in them, and one list of them. *)
RowsOfIdx(rows, idx) == {r \in rows : r[1] = idx}

Touched(rows, idx) == {r[2] : r \in RowsOfIdx(rows, idx)}

Delta(rows, idx, u) == {r[3] : r \in {r \in RowsOfIdx(rows, idx) : r[2] = u}}
=============================================================================
