--------------------------- MODULE MCEnumeration ---------------------------
(***************************************************************************)
(* An instance of Enumeration for TLC: a triangle of query vertices with   *)
(* two leaves that have one label, and the plans that the module Plan      *)
(* makes of it.  In the data graph lists are longer than two rounds of a   *)
(* warp, leaves compete for the same vertex, and a batch changes one query *)
(* edge, several, or brings vertices into the index that were not there.   *)
(***************************************************************************)
EXTENDS Enumeration

MCEdges ==
  [e \in 0..4 |-> CASE e = 0 -> <<0, 1>> [] e = 1 -> <<0, 2>> [] e = 2 -> <<1, 2>>
                    [] e = 3 -> <<1, 4>> [] e = 4 -> <<2, 3>>]

(* The earlier neighbours of a position, by number. *)
OrderOf(vs) ==
  LET adjacent(j, p) == \E e \in 0..4 : {vs[j], vs[p]} = {MCEdges[e][1], MCEdges[e][2]}
  IN  [vs |-> vs,
       bni |-> [p \in 1..5 |-> SelectSeq([j \in 1..p - 1 |-> j], LAMBDA j : adjacent(j, p))]]

MCIndexingOrders ==
  [e \in 0..4 |-> OrderOf(CASE e = 0 -> <<0, 1, 2, 4, 3>> [] e = 1 -> <<0, 2, 1, 3, 4>>
                            [] e = 2 -> <<1, 2, 0, 4, 3>> [] e = 3 -> <<1, 4, 0, 2, 3>>
                            [] e = 4 -> <<2, 3, 0, 1, 4>>)]

(* One order for all query edges, or one that begins with each. *)
Global ==
  [orders |-> [e \in 0..4 |-> OrderOf(<<1, 2, 0, 3, 4>>)],
   rebuild |-> [e \in 0..4 |-> {0, 1, 2} \cup (IF e = 3 THEN {4} ELSE IF e = 4 THEN {3} ELSE {})]]

Forced ==
  [orders |-> [e \in 0..4 |-> OrderOf(CASE e = 0 -> <<0, 1, 2, 3, 4>> [] e = 1 -> <<0, 2, 1, 3, 4>>
                                        [] e = 2 -> <<1, 2, 0, 4, 3>> [] e = 3 -> <<1, 4, 2, 0, 3>>
                                        [] e = 4 -> <<2, 3, 1, 0, 4>>)],
   rebuild |-> [e \in 0..4 |-> IF e = 3 THEN {1, 4} ELSE IF e = 4 THEN {2, 3} ELSE {0, 1, 2}]]

-----------------------------------------------------------------------------
(* 0 and 1 have the label of query vertex 0, 2 and 3 that of 1, 4 and 5    *)
(* that of 2, the others that of 3 and 4.                                  *)
Labelled(u) == CASE u = 0 -> 0..1 [] u = 1 -> 2..3 [] u = 2 -> 4..5 [] u \in 3..4 -> 6..10

Data ==
  {{0, 2}, {0, 4}, {2, 4}, {1, 3}, {1, 5}, {3, 5}, {0, 5}, {3, 6}, {4, 6}, {4, 7}}
  \cup {{2, d} : d \in 6..10} \cup {{5, d} : d \in 6..8}

Batches ==
  <<[old |-> Data, new |-> {{2, 5}}],
    [old |-> Data, new |-> {{0, 3}}],
    [old |-> Data \ {{1, 3}}, new |-> {{1, 3}}],
    [old |-> Data, new |-> {{2, 5}, {4, 8}, {1, 2}}]>>

(* What the CPU side keeps of a data graph: the vertices with a partner at *)
(* every neighbour, and the edges between them.                            *)
Neighbour(d) == {x \in 0..4 : {d, x} \in {{MCEdges[e][1], MCEdges[e][2]} : e \in 0..4}}

TightCandidates(E) ==
  LET after[k \in 0..6] ==
        IF k = 0 THEN UNION {{<<u, v>> : v \in Labelled(u)} : u \in 0..4}
        ELSE LET C == after[k - 1]
             IN  {c \in C : \A x \in Neighbour(c[1]) :
                               \E d \in C : d[1] = x /\ {c[2], d[2]} \in E}
  IN  after[6]

Tight(E) ==
  LET C == TightCandidates(E)
  IN  [d \in Dirs |-> [v \in DV |->
         IF <<d[1], v>> \in C THEN {w \in DV : <<d[2], w>> \in C /\ {v, w} \in E} ELSE {}]]

ListsOf(b) ==
  LET before == Tight(b.old)
      after == Tight(b.old \cup b.new)
  IN  [index |-> [d \in Dirs |-> [v \in DV |-> Sorted(before[d][v])]],
       update |-> [d \in Dirs |-> [v \in DV |-> Sorted(after[d][v] \ before[d][v])]]]

MCLists == [k \in DOMAIN Batches |-> ListsOf(Batches[k])]

-----------------------------------------------------------------------------
SearchOf(k, loop, e, plan, m, shorter) ==
  [lists |-> MCLists[k], loop |-> loop, edge |-> e, orders |-> plan.orders,
   rebuild |-> plan.rebuild, masks |-> m, shorter |-> shorter]

MCSearches ==
  {SearchOf(1, "Matching", 2, Global, "1Bit", {}),
    SearchOf(3, "Matching", 3, Forced, "1Bit", {0, 2, 4}),
    SearchOf(4, "Matching", 0, Global, "1Bit", {1, 3}),
    SearchOf(4, "Matching", 4, Forced, "1Bit", {0, 1, 2, 3, 4}),
    SearchOf(1, "MatchingBit", 2, Forced, "1Bit", {}),
    SearchOf(3, "MatchingBit", 3, Forced, "check", {}),
    SearchOf(4, "MatchingBit", 3, Global, "check", {}),
    SearchOf(4, "MatchingBit", 4, Forced, "push", {}),
    SearchOf(2, "MatchingBitAll", 0, Global, "1Bit", {}),
    SearchOf(3, "MatchingBitAll", 0, Global, "push", {}),
    SearchOf(4, "MatchingBitAll", 0, Global, "1Bit", {}),
    SearchOf(4, "MatchingBitAll", 0, Global, "check", {})}

(* Two bits, so that new edges share them. *)
MCComputeSupportBit(v, x) == (v + x) % 2
=============================================================================
