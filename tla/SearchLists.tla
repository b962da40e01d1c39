---------------------------- MODULE SearchLists ----------------------------
(***************************************************************************)
(* What a search of the GPU side reads: the plan (orders of the query      *)
(* vertices, flags), the neighbour lists of the global index and of the    *)
(* batch, and what a search from one query edge is meant to find.          *)
(*                                                                         *)
(* A direction <<u, x>> of a query edge has a list for every data vertex,  *)
(* in ascending order.  An order is a record of vs, the query vertices,    *)
(* and bni, for each position the earlier ones that are adjacent.          *)
(* Positions count from 1, query edges and data vertices from 0.           *)
(***************************************************************************)
EXTENDS Integers, Sequences, FiniteSets, Functions

CONSTANTS
  QV_COUNT,         \* number of query vertices
  DV_COUNT,         \* number of data vertices in the compressed index
  Edges,            \* the two ends of each query edge
  IndexingOrders    \* indexing_orders_: per query edge, the order in which
                    \* its local index is built

QE == DOMAIN Edges
DV == 0..DV_COUNT - 1
Positions == 1..QV_COUNT

Directions(e) == {<<Edges[e][1], Edges[e][2]>>, <<Edges[e][2], Edges[e][1]>>}

Dirs == UNION {Directions(e) : e \in QE}

DirToEdge == [d \in Dirs |-> CHOOSE e \in QE : d \in Directions(e)]

IsOrder(o) ==
  /\ IsInjective(o.vs)
  /\ \A p \in 2..QV_COUNT :
       LET before == {j \in 1..p - 1 : <<o.vs[j], o.vs[p]>> \in Dirs}
       IN  before # {} /\ Range(o.bni[p]) = before

ASSUME OrdersAssumption ==
  /\ QV_COUNT > 2
  /\ \A e \in QE :
       /\ IsOrder(IndexingOrders[e])
       /\ {IndexingOrders[e].vs[1], IndexingOrders[e].vs[2]} = Range(Edges[e])

-----------------------------------------------------------------------------
(* An ascending list of a set of data vertices. *)
Ascending == [i \in 1..DV_COUNT |-> i - 1]

Sorted(S) == SelectSeq(Ascending, LAMBDA v : v \in S)

EmptyLists == [d \in Dirs |-> [v \in DV |-> <<>>]]

(* The edge from position j to position p of an order. *)
Dir(o, j, p) == <<o.vs[j], o.vs[p]>>

-----------------------------------------------------------------------------
(* The search from query edge e finds the matches that map e to an edge    *)
(* that is new in the index, and no later query edge to one.               *)
Visible(lists, e, d, v) ==
  IF DirToEdge[d] = e THEN Range(lists.update[d][v])
  ELSE Range(lists.index[d][v])
       \cup (IF DirToEdge[d] < e THEN Range(lists.update[d][v]) ELSE {})

(* Its partial matches of the first d query vertices of an order. *)
PartialMatches(lists, e, o, n) ==
  LET fits(m, v) ==
        /\ v \notin Range(m)
        /\ \A i \in DOMAIN o.bni[Len(m) + 1] :
             LET j == o.bni[Len(m) + 1][i]
             IN  v \in Visible(lists, e, Dir(o, j, Len(m) + 1), m[j])
      upto[k \in 1..n] ==
        IF k = 1 THEN {<<v>> : v \in DV}
        ELSE {Append(mv[1], mv[2]) : mv \in {mv \in upto[k - 1] \X DV : fits(mv[1], mv[2])}}
  IN  upto[n]
=============================================================================
