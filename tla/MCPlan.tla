------------------------------- MODULE MCPlan -------------------------------
(***************************************************************************)
(* Instances of Startup for TLC.  Planned are all connected query graphs   *)
(* of two to four vertices and some of five, with statistics that make     *)
(* every criterion of the orders decide somewhere.  The data files vary    *)
(* only with queries that are refused after they were read.                *)
(***************************************************************************)
EXTENDS Startup

PairsOf(n) == {p \in (0..n - 1) \X (0..n - 1) : p[1] < p[2]}

Graph(n, E) == [u \in 0..n - 1 |-> {w \in 0..n - 1 : <<u, w>> \in E \/ <<w, u>> \in E}]

Connected(g) ==
  LET n == Cardinality(DOMAIN g)
      reach[k \in 0..n] ==
        IF k = 0 THEN {0} ELSE reach[k - 1] \cup UNION {g[u] : u \in reach[k - 1]}
  IN  reach[n] = DOMAIN g

AllConnected(n) == {g \in {Graph(n, E) : E \in SUBSET PairsOf(n)} : Connected(g)}

(* Two triangles at a vertex; two squares at an edge of three paths; a     *)
(* square with a tail; a star; a house; the complete graph less an edge.   *)
FiveVertices ==
  {Graph(5, {<<0, 1>>, <<0, 2>>, <<1, 2>>, <<2, 3>>, <<2, 4>>, <<3, 4>>}),
   Graph(5, {<<0, 2>>, <<0, 3>>, <<0, 4>>, <<1, 2>>, <<1, 3>>, <<1, 4>>}),
   Graph(5, {<<0, 1>>, <<1, 2>>, <<2, 3>>, <<3, 0>>, <<2, 4>>}),
   Graph(5, {<<3, 0>>, <<3, 1>>, <<3, 2>>, <<3, 4>>}),
   Graph(5, {<<0, 1>>, <<1, 2>>, <<2, 3>>, <<3, 0>>, <<0, 4>>, <<1, 4>>}),
   Graph(5, PairsOf(5) \ {<<1, 4>>})}

SmallQueries == AllConnected(2) \cup AllConnected(3) \cup AllConnected(4) \cup FiveVertices

(* Partners depend on the target, rows on both ends. *)
Statistic(g, d) ==
  [avg |-> [u \in DOMAIN g |-> [w \in DOMAIN g |-> d[w]]],
   card |-> [u \in DOMAIN g |-> [w \in DOMAIN g |-> d[u] * d[w]]]]

SmallStatistics(g) ==
  {Statistic(g, d) : d \in [DOMAIN g -> IF Cardinality(DOMAIN g) < 5 THEN {0, 2, 9} ELSE {2, 9}]}

-----------------------------------------------------------------------------
(* The file of a graph; the edge lines come in no order of their numbers,  *)
(* and every other one has its larger end first.                           *)
QueryFile(g, es) == [vs |-> [i \in 1..Cardinality(DOMAIN g) |-> <<i - 1, (i % 3) - 1>>], es |-> es]

EdgeLines(g) ==
  LET byEnd == FlattenSeq([i \in 1..Cardinality(DOMAIN g) |->
                 LET u == Cardinality(DOMAIN g) - i
                     ws == AscendingSeq({w \in g[u] : w < u})
                 IN  [j \in DOMAIN ws |-> <<ws[j], u>>]])
  IN  [i \in DOMAIN byEnd |-> IF i % 2 = 0 THEN <<byEnd[i][2], byEnd[i][1]>> ELSE byEnd[i]]

Triangle == Graph(3, PairsOf(3))

Text(q, d, lines) == [kind |-> "text", query |-> q, data |-> d, updates |-> lines]

PlainData == [vs |-> <<<<0, 0>>, <<1, 1>>>>, es |-> <<<<0, 1>>>>]

(* One file for each query; the triangle also in other orders.             *)
PlannedInputs ==
  {Text(QueryFile(g, EdgeLines(g)), PlainData, <<<<0, 1>>>>) : g \in SmallQueries}
  \cup {Text(QueryFile(Triangle, es), PlainData, <<<<0, 1>>>>) :
          es \in {<<<<0, 1>>, <<0, 2>>, <<1, 2>>>>, <<<<1, 2>>, <<0, 1>>, <<2, 0>>>>}}

(* A query of one vertex, and one of eleven edges. *)
RefusedQueries ==
  {QueryFile(Graph(1, {}), <<>>),
   LET g == Graph(6, PairsOf(5) \cup {<<0, 5>>}) IN QueryFile(g, EdgeLines(g))}

(* Data with an id passed over, a label of no query, a vertex that does    *)
(* not exist and repeated lines; three vertices in binary form.            *)
DataVertices == <<<<0, 0>>, <<1, 7>>, <<3, 1>>, <<4, 0>>>>

DataEdges == {<<0, 3>>, <<4, 0>>, <<3, 4>>, <<1, 0>>, <<2, 3>>, <<3, 6>>}

RefusedInputs ==
  {Text(q, [vs |-> DataVertices, es |-> es], <<<<0, 3>>, <<4, 0>>>>) :
     q \in RefusedQueries, es \in SeqOf(DataEdges, 3)}
  \cup {[kind |-> "binary", query |-> q, data |-> d] :
          q \in RefusedQueries,
          d \in {0 :> <<1, 2>> @@ 1 :> <<2, 0>> @@ 2 :> <<0, 1>>,
                 0 :> <<1>> @@ 1 :> <<0, 2>> @@ 2 :> <<1>>}}

SmallInputs == PlannedInputs \cup RefusedInputs
=============================================================================
