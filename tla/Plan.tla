-------------------------------- MODULE Plan --------------------------------
(***************************************************************************)
(* The query plan: src/graph/plan.cpp.  The query graph, which is          *)
(* connected, comes from Startup.                                          *)
(*                                                                         *)
(* A plan has an indexing order for every query edge (breadth first from   *)
(* its ends), a matching order (one for all query edges with               *)
(* USE_MERGED_MATCHING, one per query edge without), the class of each     *)
(* suffix of the matching order, and the query vertices whose candidates   *)
(* are rebuilt for a batch.  The matching order is built here a vertex per *)
(* step; the rest of the plan is a function of it.                         *)
(*                                                                         *)
(* The statistics of the data graph are arbitrary: how many rows a         *)
(* directed query edge has (cardinalities) and how many per vertex that    *)
(* has any (avg_degrees, 0 or at least 1).  Positions count from 1.        *)
(***************************************************************************)
EXTENDS SortedLists

CONSTANTS
  MAX_ECOUNT,    \* the largest number of query edges
  Jump,          \* 2 << 9: the growth of the estimate that ends the choice
  Statistics(_), \* for a query graph, records of its avg and card
  Variants       \* the ways to build a matching order: "global",
                 \* "gsi" (USE_GSI_ORDER), "edge" (one per query edge), "forced"
                 \* (that with FORCE_UPDATE_EDGE_START)

ASSUME PlanConstants ==
  /\ MAX_ECOUNT \in Nat /\ Jump \in Nat \ {0}
  /\ Variants \subseteq {"global", "gsi", "edge", "forced"}

VARIABLES
  nbrs,          \* the query graph, nbrs_, as sets
  qe_list,       \* qe_list_, the query edges
  indexing,      \* indexing_orders_[e].vs_
  stat,          \* avg_degrees and cardinalities
  variant,
  edge,          \* the query edge the order is for; 0: for all
  order,         \* cur_order
  visits,        \* GSI: per query vertex, its visited neighbours
  flags,         \* rebuild_flags_[e], as sets of query edges
  rebuild        \* rebuild_v_flags_[e], as sets of query vertices

query == <<nbrs, qe_list, indexing, stat, variant, edge>>
vars == <<query, order, visits, flags, rebuild>>

QV == DOMAIN nbrs
N == Cardinality(QV)
Visited == Range(order)

Best(S, f(_)) == {x \in S : \A y \in S : f(y) <= f(x)}
Least(S, f(_)) == {x \in S : \A y \in S : f(x) <= f(y)}

-----------------------------------------------------------------------------
QEdges == DOMAIN qe_list

-----------------------------------------------------------------------------
(* SelectStartingEdge: the largest degree sum, then the most triangles,    *)
(* then the fewest rows, then the fewest partners at the other neighbours, *)
(* then the first.                                                         *)
DegreeSum(e) == Cardinality(nbrs[qe_list[e][1]]) + Cardinality(nbrs[qe_list[e][2]])

Triangles(e) == Cardinality(nbrs[qe_list[e][1]] \cap nbrs[qe_list[e][2]])

Rows(e) == stat.card[qe_list[e][1]][qe_list[e][2]]

Partners(e) ==
  MapThenSumSet(LAMBDA p : stat.avg[p[1]][p[2]],
    {p \in {qe_list[e][1], qe_list[e][2]} \X (QV \ {qe_list[e][1], qe_list[e][2]}) :
       p[2] \in nbrs[p[1]]})

Densest == Best(Best(QEdges, DegreeSum), Triangles)

Cheapest(S) == Min(Least(Least(S, Rows), Partners))

SelectStartingEdge == qe_list[Cheapest(Densest)]

(* Without USE_MERGED_MATCHING the updated edge is preferred in a tie. *)
StartingEdgeOf(e) == qe_list[IF e \in Densest THEN e ELSE Cheapest(Densest)]

(* The fewest candidates per degree: |C(u)| is at most rows by partners of *)
(* each list.  A visited neighbour takes a tenth off the score.  Scores    *)
(* are fractions, all times 10^(N-1); rounding is left out.                *)
Fewer(f, g) == f[1] * g[2] < g[1] * f[2]

Fraction(S) == CHOOSE f \in S : \A g \in S : ~Fewer(g, f)

Power(x, n) ==
  LET power[k \in 0..n] == IF k = 0 THEN 1 ELSE x * power[k - 1]
  IN  power[n]

Score(u) ==
  LET est == Fraction({IF stat.avg[u][w] = 0 THEN <<0, 1>>
                       ELSE <<stat.card[u][w], stat.avg[u][w]>> : w \in nbrs[u]})
  IN  <<est[1] * Power(9, visits[u]) * Power(10, N - 1 - visits[u]), est[2] * Cardinality(nbrs[u])>>

Lowest(S) == {u \in S : \A w \in S : ~Fewer(Score(w), Score(u))}

-----------------------------------------------------------------------------
(* The vertices that can be added, and their fewest partners.              *)
BackwardNbrs(u) == nbrs[u] \cap Visited

Extendable == {u \in QV \ Visited : BackwardNbrs(u) # {}}

Estimate(u) == Min({stat.avg[b][u] : b \in BackwardNbrs(u)})

(* Those before the first jump of the estimate.  After an estimate of 0    *)
(* everything is a jump, so one of those with 0 is left.                   *)
BeforeJump(S) ==
  IF \E u \in S : Estimate(u) = 0
  THEN {{u} : u \in {u \in S : Estimate(u) = 0}}
  ELSE {{u \in S : \A w \in S : Estimate(w) <= Estimate(u) =>
           \/ \A x \in S : Estimate(w) <= Estimate(x)
           \/ \E x \in S : /\ Estimate(x) < Estimate(w)
                           /\ Estimate(w) < Jump * Estimate(x)}}

NumBackward(u) == Cardinality(BackwardNbrs(u))

(* The visited vertices next to an unvisited neighbour of u, and the       *)
(* neighbours of u that nothing visited is next to.                        *)
Forward(u) == nbrs[u] \ Visited

NumReached(u) == Cardinality(UNION {BackwardNbrs(f) : f \in Forward(u)})

NumDangling(u) == Cardinality({f \in Forward(u) : BackwardNbrs(f) = {}})

(* The last tie, then the lowest number. *)
FewestCandidates(S) == Least(S, Estimate)

Preferred(S) ==
  Min(FewestCandidates(Best(Best(Best(S, NumBackward), NumReached), NumDangling)))

-----------------------------------------------------------------------------
(* BuildIndexingOrder: breadth first from the ends of a query edge, the    *)
(* neighbours of a vertex by number.                                       *)
IndexingOrder(g, p) ==
  LET n == Cardinality(DOMAIN g)
      grown[k \in 0..n] ==
        IF k = 0 THEN p
        ELSE LET ord == grown[k - 1]
                 new == g[ord[k]] \ Range(ord)
             IN  ord \o AscendingSeq(new)
  IN  grown[n]

(* The constructor, and what the loader of the query and the first index   *)
(* provide (Startup).                                                      *)
NoPlan ==
  /\ nbrs = <<>> /\ qe_list = <<>> /\ indexing = <<>>
  /\ stat = <<>> /\ variant = "none" /\ edge = 0
  /\ order = <<>> /\ visits = <<>>
  /\ flags = <<>> /\ rebuild = <<>>

GenerateIndexingOrders(g, list) ==
  /\ nbrs' = g
  /\ qe_list' = list
  /\ indexing' = [e \in DOMAIN list |-> IndexingOrder(g, list[e])]
  /\ visits' = [u \in DOMAIN g |-> 0]
  /\ UNCHANGED <<stat, variant, edge, order, flags, rebuild>>

ChooseStatistics ==
  /\ stat' \in Statistics(nbrs)
  /\ variant' \in Variants
  /\ edge' \in IF variant' \in {"edge", "forced"} THEN QEdges ELSE {0}
  /\ UNCHANGED <<nbrs, qe_list, indexing, order, visits, flags, rebuild>>

Start ==
  /\ order = <<>> /\ variant # "gsi"
  /\ order' = CASE variant = "global" -> SelectStartingEdge
                [] variant = "edge" -> StartingEdgeOf(edge)
                [] variant = "forced" -> qe_list[edge]
  /\ UNCHANGED <<query, visits, flags, rebuild>>

AddVertex ==
  /\ order # <<>> /\ Len(order) < N /\ variant # "gsi"
  /\ \E S \in BeforeJump(Extendable) : order' = Append(order, Preferred(S))
  /\ UNCHANGED <<query, visits, flags, rebuild>>

(* Seeded fault: after the first two, the lowest score, connected or not. *)
AddVertexGSIAnywhere ==
  /\ variant = "gsi" /\ Len(order) < N
  /\ LET among == IF Len(order) # 1 THEN QV \ Visited ELSE Extendable
         u == Min(Lowest(among))
     IN  /\ order' = Append(order, u)
         /\ visits' = [w \in QV |-> IF w \in nbrs[u] THEN visits[w] + 1 ELSE visits[w]]
  /\ UNCHANGED <<query, flags, rebuild>>

(* GenerateGlobalMatchingOrderGSI: the first vertex is any with the lowest *)
(* score, the second a neighbour of it, the others connected ones; in a    *)
(* tie the more backward neighbours, which the first two have no use for.  *)
AddVertexGSI ==
  /\ variant = "gsi" /\ Len(order) < N
  /\ LET among == IF order = <<>> THEN QV ELSE Extendable
         u == Min(Best(Lowest(among), NumBackward))
     IN  /\ order' = Append(order, u)
         /\ visits' = [w \in QV |-> IF w \in nbrs[u] THEN visits[w] + 1 ELSE visits[w]]
  /\ UNCHANGED <<query, flags, rebuild>>

-----------------------------------------------------------------------------
(* The positions before d in ord of the neighbours of the vertex at d.     *)
Backward(ord, d) == {k \in 1..d - 1 : ord[k] \in nbrs[ord[d]]}

(* GenerateRebuildFlagsWithOrder: the query edges on a simple path from a  *)
(* starting vertex to the first end of e that it meets, and e itself.      *)
Hits(s, e) ==
  LET ends == {qe_list[e][1], qe_list[e][2]}
      longer(p) == {Append(p, x) : x \in nbrs[Last(p)] \ Range(p)}
      paths[k \in 1..N] ==
        IF k = 1 THEN {<<s>>}
        ELSE UNION {longer(p) : p \in {p \in paths[k - 1] : k = 2 \/ Last(p) \notin ends}}
  IN  {p \in UNION {paths[k] : k \in 2..N} : Last(p) \in ends}

(* Seeded faults: the search stops at the first path, or is made from one  *)
(* starting vertex.                                                        *)
RebuildFlagsOnePath(e) ==
  {Range(qe_list[e])} \cup
  UNION {LET p == CHOOSE p \in Hits(s, e) : \A q \in Hits(s, e) : Len(p) <= Len(q)
         IN  {{p[i], p[i + 1]} : i \in 1..Len(p) - 1} :
           s \in {s \in {order[1], order[2]} : Hits(s, e) # {}}}

RebuildFlagsOneStart(e) ==
  {Range(qe_list[e])} \cup
  UNION {{{p[i], p[i + 1]} : i \in 1..Len(p) - 1} : p \in Hits(order[1], e)}

RebuildFlags(e) ==
  {Range(qe_list[e])} \cup
  UNION {{{p[i], p[i + 1]} : i \in 1..Len(p) - 1} :
           p \in Hits(order[1], e) \cup Hits(order[2], e)}

FlaggedBackward(e, d) ==
  {k \in Backward(indexing[e], d) : {indexing[e][k], indexing[e][d]} \in flags[e]}

(* GenerateRebuildVFlagsWithOrder; a vertex with some but not all flagged  *)
(* ends the program ("Error in order generation!").                        *)
Agreed(e) ==
  \A d \in 2..N : FlaggedBackward(e, d) \in {{}, Backward(indexing[e], d)}

RebuildV(e) ==
  {indexing[e][d] : d \in {d \in 1..N : d = 1 \/ FlaggedBackward(e, d) # {}}}

(* The query edges whose plan has this order. *)
Planned == {e \in QEdges : edge \in {0, e}}

SetFlags ==
  /\ Len(order) = N /\ flags = <<>>
  /\ flags' = [e \in Planned |-> RebuildFlags(e)]
  /\ UNCHANGED <<query, order, visits, rebuild>>

SetRebuildV ==
  /\ flags # <<>> /\ rebuild = <<>>
  /\ \A e \in Planned : Agreed(e)
  /\ rebuild' = [e \in Planned |-> RebuildV(e)]
  /\ UNCHANGED <<query, order, visits, flags>>

-----------------------------------------------------------------------------
Next == Start \/ AddVertex \/ AddVertexGSI \/ SetFlags \/ SetRebuildV

Complete == rebuild # <<>>

-----------------------------------------------------------------------------
(* bni_ of a matching order: the backward neighbours by their partners;    *)
(* the first is the one that is expanded.                                  *)
First(ord, d) == Least(Backward(ord, d), LAMBDA k : stat.avg[ord[k]][ord[d]])

(* Which suffixes of a matching order can be enumerated as products:       *)
(* cartesian_product_info_, from the last position to the second.          *)
(* Seeded fault: only the next position is looked at. *)
NoEdgeToNext(ord, d) == ord[d + 1] \notin nbrs[ord[d]]

NoEdgeToLater(ord, d) == \A k \in d + 1..N : ord[k] \notin nbrs[ord[d]]

Leaf(u) == Cardinality(nbrs[u]) = 1

LastClass(u) == IF Leaf(u) THEN "TreeSingle" ELSE "NonTreeSingle"

ClassBefore(ord, d, after) ==
  IF after = "None" \/ ~NoEdgeToLater(ord, d) THEN "None"
  ELSE IF Leaf(ord[d]) /\ after \in {"TreeSingle", "TreeCartesianProduct"}
       THEN "TreeCartesianProduct"
  ELSE "NonTreeCartesianProduct"

ProductInfo(ord) ==
  LET info[d \in 2..N] ==
        IF d = N THEN LastClass(ord[d]) ELSE ClassBefore(ord, d, info[d + 1])
  IN  info

-----------------------------------------------------------------------------
(* bni_offs_ and what is written to bni_: a dummy for the first vertex,    *)
(* then the backward neighbours of each position in turn.                  *)
(* Seeded fault: the dummy is not counted. *)
BniOffsetNoDummy(ord, d) ==
  MapThenSumSet(LAMBDA k : Cardinality(Backward(ord, k)), 1..d - 1)

BniOffset(ord, d) ==
  IF d = 1 THEN 0 ELSE 1 + MapThenSumSet(LAMBDA k : Cardinality(Backward(ord, k)), 1..d - 1)

BniWritten(ord) == <<2>> \o FlattenSeq([d \in 1..N |-> AscendingSeq(Backward(ord, d))])

(* Entry i of bni_ of query edge e, as it is read once all orders are      *)
(* built.  The array has MAX_ECOUNT entries; the one after them is vs_[0]  *)
(* of the next order, or of the matching orders after the last.            *)
BniRead(e, i) ==
  IF i < MAX_ECOUNT THEN BniWritten(indexing[e])[i + 1]
  ELSE IF e < Len(qe_list) THEN qe_list[e + 1][1] + 1
  ELSE order[1] + 1

-----------------------------------------------------------------------------
(* Properties.                                                             *)

(* What the matching kernels take for granted of every plan: each position *)
(* from the third on has something to expand from, and in the first two    *)
(* positions there is a query edge (PlanAssumption of MergedMatching); so  *)
(* have the indexing orders.                                               *)
PlanUsable ==
  /\ IsInjective(order)
  /\ \A d \in 2..Len(order) : First(order, d) # {}
  /\ Complete => \A e \in Planned :
       /\ IsInjective(indexing[e]) /\ Len(indexing[e]) = N
       /\ \A d \in 2..N : Backward(indexing[e], d) # {}

(* The program does not give up on a query it has accepted: for every      *)
(* updated edge the flagged edges, which come from the paths of another    *)
(* order, are all or none of those that lead back from a vertex.           *)
FlagsAgree ==
  flags # <<>> => \A e \in Planned : Agreed(e)

(* The narrowing reaches the search: whatever query edge is updated, the   *)
(* two vertices the search starts with are rebuilt, so the first level     *)
(* holds only vertices near the updates.                                   *)
StartRebuilt ==
  Complete => \A e \in Planned :
    {order[1], order[2]} \subseteq rebuild[e]

(* A suffix that is enumerated as a product has no query edge within, so   *)
(* the candidates of one of its vertices do not depend on the others, and  *)
(* with the single list of the tree kernels each has one neighbour before  *)
(* it; a suffix that has none is never missed.                             *)
ProductIndependent ==
  Complete => \A d \in 2..N - 1 :
    LET tail == {order[k] : k \in d..N}
    IN  /\ ProductInfo(order)[d] # "None" <=> \A u \in tail : nbrs[u] \cap tail = {}
        /\ ProductInfo(order)[d] = "TreeCartesianProduct" <=>
             \A u \in tail : Cardinality(nbrs[u]) = 1 /\ nbrs[u] \cap tail = {}

(* What the kernels read from bni_ of an indexing order, between the       *)
(* offsets of a position, are the backward neighbours of that position.    *)
(* A query of MAX_ECOUNT edges, which the loader accepts, needs one more.  *)
BackwardDecoded ==
  Len(order) = N => \A e \in Planned : \A d \in 2..N :
    LET ord == indexing[e]
    IN  {BniRead(e, i) : i \in BniOffset(ord, d)..BniOffset(ord, d + 1) - 1}
          = Backward(ord, d)
=============================================================================
