------------------------------ MODULE MCGraphs ------------------------------
(***************************************************************************)
(* Query shapes, small data graphs and batches for the instances that TLC  *)
(* checks: the values of the constants of CaLiGDefs and CaLiGIndex.        *)
(***************************************************************************)
EXTENDS Integers, Sequences

(* A graph is given by a set of pairs, read in both directions. *)
Nei(V, E) == [v \in V |-> {x \in V : <<v, x>> \in E \/ <<x, v>> \in E}]

(* The directed query edges, given the query vertices in their order. *)
DirectionsOf(vs, nei) ==
  LET from(u) == SelectSeq([i \in DOMAIN vs |-> <<u, vs[i]>>], LAMBDA p : p[2] \in nei[u])
      upto[i \in 0..Len(vs)] == IF i = 0 THEN <<>> ELSE upto[i - 1] \o from(vs[i])
  IN  upto[Len(vs)]

OneOrTwo(E) == {<<e>> : e \in E} \cup (E \X E)

-----------------------------------------------------------------------------
(* Cycle: the 4-cycle with labels A B A B, where every query vertex has a  *)
(* repeated label and a change can run around the cycle.                   *)
CycleQV == 0..3
CycleQNei == Nei(CycleQV, {<<0, 1>>, <<1, 2>>, <<2, 3>>, <<3, 0>>})
CycleDirections == DirectionsOf(<<0, 1, 2, 3>>, CycleQNei)
CycleQLabel == [u \in CycleQV |-> IF u % 2 = 0 THEN "A" ELSE "B"]
CycleDV == {1, 2, 11, 12, 13}
CycleGLabel == [v \in CycleDV |-> IF v < 10 THEN "A" ELSE "B"]
CycleInitNei == Nei(CycleDV, {<<1, 11>>, <<1, 12>>, <<2, 13>>})
CycleBatches == OneOrTwo({<<2, 11>>, <<2, 12>>, <<1, 13>>})

(* Kite: the 4-cycle with a tail of a third label at one end of it, which  *)
(* fills from both ends, and a vertex that no query vertex can use.        *)
KiteQV == 0..4
KiteQNei == Nei(KiteQV, {<<0, 1>>, <<1, 2>>, <<2, 3>>, <<3, 0>>, <<3, 4>>})
KiteQLabel == [u \in KiteQV |-> IF u = 4 THEN "C" ELSE CycleQLabel[u]]
KiteDV == CycleDV \cup {21, 99}
KiteGLabel ==
  [v \in KiteDV |-> CASE v = 21 -> "C" [] v = 99 -> "none" [] OTHER -> CycleGLabel[v]]
KiteInitNei == Nei(KiteDV, {<<1, 11>>, <<1, 12>>, <<2, 13>>, <<11, 21>>})
KiteBatches ==
  {<<<<2, 11>>>>, <<<<2, 12>>, <<1, 13>>>>, <<<<12, 21>>, <<2, 12>>>>,
   <<<<99, 1>>, <<13, 21>>>>, <<<<2, 12>>, <<2, 12>>>>}

(* Double: a centre "x" with two leaves of each of two labels; "a1" and    *)
(* the "C" leaves need one more partner each, so that one deletion round   *)
(* can hit both groups of the centre.                                      *)
DoubleQV == {"x", "a1", "a2", "c1", "c2", "d", "e1", "e2"}
DoubleQNei ==
  Nei(DoubleQV, ({"x"} \X {"a1", "a2", "c1", "c2"})
                \cup {<<"a1", "d">>, <<"c1", "e1">>, <<"c2", "e2">>})
DoubleDirections ==
  DirectionsOf(<<"x", "a1", "a2", "c1", "c2", "d", "e1", "e2">>, DoubleQNei)
DoubleQLabel ==
  [u \in DoubleQV |-> CASE u = "x" -> "X" [] u \in {"a1", "a2"} -> "A"
                        [] u \in {"c1", "c2"} -> "C" [] u = "d" -> "D"
                        [] OTHER -> "E"]
DoubleDV == {1, 11, 12, 21, 22, 23, 31, 41, 42}
DoubleGLabel ==
  [v \in DoubleDV |-> CASE v = 1 -> "X" [] v \in {11, 12} -> "A"
                        [] v \in {21, 22, 23} -> "C" [] v = 31 -> "D"
                        [] OTHER -> "E"]
DoubleInitNei ==
  Nei(DoubleDV, {<<1, 11>>, <<1, 12>>, <<1, 21>>, <<1, 22>>, <<11, 31>>, <<21, 41>>})
DoubleBatches == {<<<<22, 42>>>>, <<<<1, 23>>>>, <<<<23, 41>>>>}
=============================================================================
