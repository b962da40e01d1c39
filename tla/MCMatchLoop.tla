---------------------------- MODULE MCMatchLoop ----------------------------
(***************************************************************************)
(* Instances of MatchLoop for TLC: queries of five vertices and searches   *)
(* that grow, shrink and end early at different levels, with the classes   *)
(* that a plan can have.                                                   *)
(***************************************************************************)
EXTENDS MatchLoop

(* The partial matches of two vertices are <<i, i>>, i up to b[1]; those   *)
(* from i = b[2] on have b[d] extensions at each position d after.         *)
Tree(b) ==
  UNION {{<<i, i>> \o m : i \in (IF d = 0 THEN 1 ELSE b[2])..b[1],
                          m \in {m \in [1..d -> 1..3] : \A j \in 1..d : m[j] <= b[j + 2]}} :
           d \in 0..3}

Shapes ==
  {<<5, 1, 1, 1, 2>>, <<5, 2, 1, 1, 0>>, <<5, 1, 2, 1, 1>>, <<6, 5, 2, 1, 2>>, <<5, 4, 3, 1, 1>>,
   <<2, 1, 3, 2, 1>>, <<7, 8, 1, 1, 1>>, <<7, 6, 2, 2, 0>>, <<8, 1, 2, 1, 1>>, <<20, 1, 1, 1, 1>>}

Products ==
  {<<"None", "None", "NonTreeSingle">>,
   <<"None", "None", "TreeSingle">>,
   <<"NonTreeCartesianProduct", "TreeCartesianProduct", "TreeSingle">>,
   <<"TreeCartesianProduct", "TreeCartesianProduct", "TreeSingle">>}

SmallSearches ==
  {[rows |-> Tree(b), product |-> [d \in 2..4 |-> p[d - 1]]] : b \in Shapes, p \in Products}
=============================================================================
