----------------------------- MODULE LocalIndex -----------------------------
(***************************************************************************)
(* What is prepared for the searches of a batch: the local index of a      *)
(* query edge (BuildLocalIndex, SetupLocalIndex and SetupLocalIndexAll of  *)
(* src/graph/graph_gpu.cu) and the support masks (BuildLocalIndexBitAll),  *)
(* with the kernels of src/kernels/indexing.cu that they launch.           *)
(*                                                                         *)
(* An index is a set of rows <<d, v, x>>: x is in the list of v of         *)
(* direction d.  The lists are ascending, as the pairs are sorted when a   *)
(* direction is turned round.  Masks are a set of <<u, v, b>>: bit b of    *)
(* data vertex v at query vertex u.  The threads of a kernel write to      *)
(* different vertices or add bits with atomicOr; a kernel is one step.     *)
(***************************************************************************)
EXTENDS SearchLists, FiniteSetsExt

CONSTANTS
  Bits,                   \* the bits of a wide mask (32 or 64 in the code)
  computeSupportBit(_, _) \* the bit of a new edge, a hash of its ends

RowsOf(ls) ==
  UNION {{<<d, v, x>> : x \in Range(ls[d][v])} : d \in Dirs, v \in DV}

ListsFrom(rows) ==
  [d \in Dirs |-> [v \in DV |-> Sorted({x \in DV : <<d, v, x>> \in rows})]]

(* The rows of a query edge. *)
Relation(rows, e) == {r \in rows : DirToEdge[r[1]] = e}

Reversed(rows) == {<<<<r[1][2], r[1][1]>>, r[3], r[2]>> : r \in rows}

-----------------------------------------------------------------------------
(* The merge kernels put the new rows of the query edges up to e into the  *)
(* global index, in order.                                                 *)
UpdateGlobalIndex(lists, e) ==
  RowsOf(lists.index) \cup {r \in RowsOf(lists.update) : DirToEdge[r[1]] <= e}

-----------------------------------------------------------------------------
(* BuildLocalIndex: the lists of one query edge, filtered along its        *)
(* indexing order.  The candidates of a vertex that was indexed are those  *)
(* with a neighbour towards its first backward neighbour, position 2 for   *)
(* the first of all.                                                       *)
Candidates(local, o, j) ==
  LET d == Dir(o, j, IF j = 1 THEN 2 ELSE o.bni[j][1])
  IN  {r[2] : r \in {r \in local : r[1] = d}}

(* getLocalCandidates: the vertices with a neighbour among the candidates  *)
(* of every backward neighbour.  They are found from their own lists, or   *)
(* from those of the candidates when these are shorter on average.         *)
Backward(index, local, o, p, j) ==
  {r[2] : r \in {r \in index : r[1] = Dir(o, p, j) /\ r[3] \in Candidates(local, o, j)}}

Forward(index, local, o, p, j) ==
  {r[3] : r \in {r \in index : r[1] = Dir(o, j, p) /\ r[2] \in Candidates(local, o, j)}}

LocalCandidates(index, local, o, p, shorter) ==
  {v \in DV : \A j \in Range(o.bni[p]) :
     v \in IF DirToEdge[Dir(o, p, j)] \in shorter THEN Backward(index, local, o, p, j)
           ELSE Forward(index, local, o, p, j)}

(* buildLocalRelation: the lists between the candidates, in the direction  *)
(* that is shorter; the other direction has the same pairs.                *)
New2Old(index, local, o, p, j, cands) ==
  {r \in index : r[1] = Dir(o, p, j) /\ r[2] \in cands /\ r[3] \in Candidates(local, o, j)}

Old2New(index, local, o, p, j, cands) ==
  {r \in index : r[1] = Dir(o, j, p) /\ r[2] \in Candidates(local, o, j) /\ r[3] \in cands}

Rebuilt(index, local, o, p, shorter) ==
  LET cands == LocalCandidates(index, local, o, p, shorter)
      worked(j) == IF DirToEdge[Dir(o, p, j)] \in shorter
                   THEN New2Old(index, local, o, p, j, cands)
                   ELSE Old2New(index, local, o, p, j, cands)
  IN  UNION {worked(j) \cup Reversed(worked(j)) : j \in Range(o.bni[p])}

(* A vertex without flag keeps the global lists of its backward edges. *)
Kept(index, o, p) ==
  UNION {Relation(index, DirToEdge[Dir(o, p, j)]) : j \in Range(o.bni[p])}

(* rebuild is the set of the flagged vertices, rebuild_v_flags_. *)
BuildLocalIndex(lists, index, e, rebuild, shorter) ==
  LET o == IndexingOrders[e]
      upto[p \in 2..QV_COUNT] ==
        IF p = 2 THEN Relation(RowsOf(lists.update), e)
        ELSE LET local == upto[p - 1]
             IN  local \cup (IF o.vs[p] \in rebuild THEN Rebuilt(index, local, o, p, shorter)
                             ELSE Kept(index, o, p))
  IN  upto[QV_COUNT]

(* It gives up as soon as a relation it built is empty: there is no match. *)
LocalOk(local, e, rebuild) ==
  LET o == IndexingOrders[e]
  IN  /\ Relation(local, e) # {}
      /\ \A p \in 3..QV_COUNT : o.vs[p] \in rebuild =>
           \A j \in Range(o.bni[p]) : Relation(local, DirToEdge[Dir(o, p, j)]) # {}

(* SetupLocalIndex: with masks the lists are not filtered; those of the    *)
(* edge itself are the new ones, the others those of the global index.     *)
SetupLocalIndex(lists, index, e) ==
  Relation(RowsOf(lists.update), e) \cup {r \in index : DirToEdge[r[1]] # e}

-----------------------------------------------------------------------------
(* BuildLocalIndexBitAll: the masks of the search from e.  They are built  *)
(* before the new rows are in the global index, so those of the query      *)
(* edges up to e are looked up beside it, as if they were.                 *)
Beside(lists, e) == UpdateGlobalIndex(lists, e)

(* setInitialValidBitsAll, a bit for each new row; with masks of one bit   *)
(* (setInitialValidBitsAll1Bit) vertices without flag are valid from the   *)
(* start.                                                                  *)
InitialMasks(lists, e) ==
  LET new == {r \in RowsOf(lists.update) :
                r[1] = <<IndexingOrders[e].vs[1], IndexingOrders[e].vs[2]>>}
  IN  {<<r[1][1], r[2], computeSupportBit(r[2], r[3])>> : r \in new}
      \cup {<<r[1][2], r[3], computeSupportBit(r[2], r[3])>> : r \in new}

InitialMasks1Bit(lists, e, rebuild) ==
  {<<r[1][1], r[2], 1>> : r \in Relation(RowsOf(lists.update), e)}
  \cup {<<u, v, 1>> : u \in (0..QV_COUNT - 1) \ rebuild, v \in DV}

(* checkAllConstraintsAndSetBitsAll: a vertex takes the bits that it can   *)
(* reach over every backward neighbour.                                    *)
Reached(beside, masks, o, p, j) ==
  UNION {{<<o.vs[p], r[2], m[3]>> : m \in {m \in masks : m[1] = o.vs[j] /\ m[2] = r[3]}} :
           r \in {r \in beside : r[1] = Dir(o, p, j)}}

CheckAllConstraints(beside, masks, o, p) ==
  {m \in {<<o.vs[p], v, b>> : v \in DV, b \in Bits} :
     \A j \in Range(o.bni[p]) : m \in Reached(beside, masks, o, p, j)}

(* pushFromFirstBNAll and verifyCandidatesAll: the first backward          *)
(* neighbour hands its bits on, the others are looked up.                  *)
Pushed(beside, masks, o, p, j) ==
  UNION {{<<o.vs[p], r[3], m[3]>> : m \in {m \in masks : m[1] = o.vs[j] /\ m[2] = r[2]}} :
           r \in {r \in beside : r[1] = Dir(o, j, p)}}

PushAndVerify(beside, masks, o, p) ==
  {m \in Pushed(beside, masks, o, p, o.bni[p][1]) :
     \A i \in 2..Len(o.bni[p]) : m \in Reached(beside, masks, o, p, o.bni[p][i])}

BuildMasks(lists, e, rebuild, kind) ==
  LET o == IndexingOrders[e]
      beside == Beside(lists, e)
      upto[p \in 2..QV_COUNT] ==
        IF p = 2
        THEN IF kind = "1Bit" THEN InitialMasks1Bit(lists, e, rebuild) ELSE InitialMasks(lists, e)
        ELSE LET masks == upto[p - 1]
             IN  CASE kind = "1Bit" /\ o.vs[p] \notin rebuild -> masks
                   [] kind = "push" -> masks \cup PushAndVerify(beside, masks, o, p)
                   [] OTHER -> masks \cup CheckAllConstraints(beside, masks, o, p)
  IN  upto[QV_COUNT]

MasksFrom(masks) ==
  [u \in 0..QV_COUNT - 1 |-> [v \in DV |-> {m[3] : m \in {m \in masks : m[1] = u /\ m[2] = v}}]]

(* checkEdgeEmptyAll: edges without a new row are not searched. *)
EdgeOk(lists, e) == Relation(RowsOf(lists.update), e) # {}
=============================================================================
