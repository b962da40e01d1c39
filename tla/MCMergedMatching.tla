-------------------------- MODULE MCMergedMatching --------------------------
(***************************************************************************)
(* Instances of MergedMatching for TLC: the graphs of MCGraphs and a plan  *)
(* for each query.  Query edges are numbered in the order of their ends,   *)
(* as SetQueryMeta numbers them.                                           *)
(***************************************************************************)
EXTENDS MergedMatching, MCGraphs

(* EdgeOf from the list of the query edges. *)
Numbering(V, edges) ==
  [u \in V |-> [w \in V |->
     IF \E e \in DOMAIN edges : edges[e] \in {<<u, w>>, <<w, u>>}
     THEN CHOOSE e \in DOMAIN edges : edges[e] \in {<<u, w>>, <<w, u>>}
     ELSE 0]]

CycleEdgeOf == Numbering(CycleQV, <<<<0, 1>>, <<0, 3>>, <<1, 2>>, <<2, 3>>>>)
CycleOrder == <<0, 1, 2, 3>>
CycleFirst == [d \in 2..4 |-> d - 1]
CycleIndexOrder == <<<<0, 1, 2, 3>>, <<0, 3, 1, 2>>, <<1, 2, 3, 0>>, <<2, 3, 0, 1>>>>
CycleRebuild == [e \in 1..4 |-> IF e = 4 THEN {2, 3, 0} ELSE CycleQV]

DoubleEdgeOf ==
  Numbering(DoubleQV, <<<<"x", "a1">>, <<"x", "a2">>, <<"x", "c1">>, <<"x", "c2">>,
                        <<"a1", "d">>, <<"c1", "e1">>, <<"c2", "e2">>>>)
DoubleOrder == <<"x", "a1", "a2", "c1", "c2", "d", "e1", "e2">>
DoubleFirst == <<0, 1, 1, 1, 1, 2, 4, 5>>
DoubleIndexOrder ==
  <<<<"x", "a1", "a2", "c1", "c2", "d", "e1", "e2">>,
    <<"x", "a2", "a1", "c1", "c2", "d", "e1", "e2">>,
    <<"x", "c1", "a1", "a2", "c2", "d", "e1", "e2">>,
    <<"x", "c2", "a1", "a2", "c1", "d", "e1", "e2">>,
    <<"a1", "d", "x", "a2", "c1", "c2", "e1", "e2">>,
    <<"c1", "e1", "x", "a1", "a2", "c2", "d", "e2">>,
    <<"c2", "e2", "x", "a1", "a2", "c1", "d", "e1">>>>
DoubleRebuild == [e \in 1..7 |-> DoubleQV]

(* Wide: six query vertices that are all neighbours, and two more at the   *)
(* first of them: 17 query edges and 34 directed ones.  The data graph     *)
(* holds one match and gets a second last vertex.                          *)
WideQV == 0..7
WideEdges ==
  <<<<0, 1>>, <<0, 2>>, <<0, 3>>, <<0, 4>>, <<0, 5>>, <<0, 6>>, <<0, 7>>,
    <<1, 2>>, <<1, 3>>, <<1, 4>>, <<1, 5>>, <<2, 3>>, <<2, 4>>, <<2, 5>>,
    <<3, 4>>, <<3, 5>>, <<4, 5>>>>
WideQNei == Nei(WideQV, {WideEdges[e] : e \in DOMAIN WideEdges})
WideDirections == DirectionsOf(<<0, 1, 2, 3, 4, 5, 6, 7>>, WideQNei)
WideLabels == <<"A", "B", "C", "D", "E", "F", "G", "H">>
WideQLabel == [u \in WideQV |-> WideLabels[u + 1]]
WideDV == 0..8
WideGLabel == [v \in WideDV |-> IF v = 8 THEN "H" ELSE WideLabels[v + 1]]
WideInitNei == Nei(WideDV, {WideEdges[e] : e \in DOMAIN WideEdges})
WideBatches == {<<<<0, 8>>>>}
WideEdgeOf == Numbering(WideQV, WideEdges)
WideOrder == <<0, 1, 2, 3, 4, 5, 6, 7>>
WideFirst == [d \in 2..8 |-> 1]
WideIndexOrder ==
  [e \in DOMAIN WideEdges |->
     LET rest == SelectSeq(WideOrder, LAMBDA u : u \notin {WideEdges[e][1], WideEdges[e][2]})
     IN  WideEdges[e] \o rest]
WideRebuild == [e \in DOMAIN WideEdges |-> WideQV]
=============================================================================
