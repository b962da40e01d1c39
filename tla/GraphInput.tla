------------------------------ MODULE GraphInput ------------------------------
(***************************************************************************)
(* What the loaders make of their files: CaLiG::inputQ, inputG, inputGBin  *)
(* and inputUpdate of src/index/calig.cpp, and CPUGraphLoader with         *)
(* SetQueryMeta of src/graph/graph.cpp, which reads the query file again.  *)
(*                                                                         *)
(* A text file is a record of its lines: vs, the vertices <<id, label>>,   *)
(* and es, the edges <<id1, id2>>.  Vertices come first, as the format     *)
(* says; the labels of edges, which CaLiG ignores, are left out.           *)
(***************************************************************************)
EXTENDS SortedLists

UnusedLabel == -1   \* the label of a data vertex that no query vertex can use
NotExist == 255     \* UINT8_MAX, for a pair without a number in eidx_

Joined(es, u, w) == \E i \in DOMAIN es : es[i] \in {<<u, w>>, <<w, u>>}

-----------------------------------------------------------------------------
(* inputQ: a query vertex per line, whatever its id; label -1 becomes 0.   *)
(* The neighbours are a set.  Seeded fault: the loop ends with the first   *)
(* edge line.                                                              *)
QueryLabel(lb) == IF lb = -1 THEN 0 ELSE lb

ReadQueryOneEdge(file) ==
  [u \in 0..Len(file.vs) - 1 |->
     [label |-> QueryLabel(file.vs[u + 1][2]),
      nei |-> {w \in 0..Len(file.vs) - 1 : Joined(SubSeq(file.es, 1, Min({1, Len(file.es)})), u, w)}]]

ReadQuery(file) ==
  [u \in 0..Len(file.vs) - 1 |->
     [label |-> QueryLabel(file.vs[u + 1][2]),
      nei |-> {w \in 0..Len(file.vs) - 1 : Joined(file.es, u, w)}]]

LabelsOf(Q) == {Q[u].label : u \in DOMAIN Q}

(* The helper counts the directed query edges of CaLiG; its arrays have    *)
(* an entry for each.                                                      *)
NumEdges(Q) == MapThenSumSet(LAMBDA u : Cardinality(Q[u].nei), DOMAIN Q)

-----------------------------------------------------------------------------
(* The constructor of CPUGraphLoader: nbrs_, by vertex, in ascending order,*)
(* into which the ends of each line are inserted in turn.                  *)
WithEnd(nbr, u, w) == [nbr EXCEPT ![u] = Inserted(@, w)]

WithLine(nbr, l) == WithEnd(WithEnd(nbr, l[1], l[2]), l[2], l[1])

ReadNbrs(file) ==
  FoldLeft(LAMBDA nbr, l : WithLine(nbr, l),
           [u \in 0..Max({l[1] : l \in Range(file.vs)}) |-> <<>>], file.es)

(* SetQueryMeta.  eidx_ numbers the directed edges by source and target,   *)
(* from 0; qe_list_ has the undirected ones, the smaller end first, and    *)
(* qe_eidx_ the two numbers of each.                                       *)
VertexOffset(nbr, u) == MapThenSumSet(LAMBDA w : Len(nbr[w]), 0..u - 1)

Eidx(nbr) ==
  [u, w \in DOMAIN nbr |->
     IF w \in Range(nbr[u])
     THEN VertexOffset(nbr, u) + Max({i \in DOMAIN nbr[u] : nbr[u][i] = w}) - 1
     ELSE NotExist]

WithEdge(list, u, w) == IF u > w THEN list ELSE Append(list, <<u, w>>)

EdgesFrom(list, nbr, u) == FoldLeft(LAMBDA l, w : WithEdge(l, u, w), list, nbr[u])

EdgeList(nbr) ==
  FoldLeft(LAMBDA list, u : EdgesFrom(list, nbr, u), <<>>, AscendingSeq(DOMAIN nbr))

EdgeNumbers(nbr) ==
  LET list == EdgeList(nbr)
      eidx == Eidx(nbr)
  IN  [e \in DOMAIN list |-> <<eidx[list[e][1], list[e][2]], eidx[list[e][2], list[e][1]]>>]

-----------------------------------------------------------------------------
(* inputG: the labels that no query vertex has become -1, and so do the    *)
(* ids that are passed over.                                               *)
DataLabel(labels, lb) == IF lb \in labels THEN lb ELSE UnusedLabel

ReadLabels(file, labels) ==
  LET gap(G, id) == [i \in 1..id - Len(G) |-> UnusedLabel]
      read == FoldLeft(LAMBDA G, l : G \o gap(G, l[1]) \o <<DataLabel(labels, l[2])>>,
                       <<>>, file.vs)
  IN  [v \in 0..Len(read) - 1 |-> read[v + 1]]

(* An edge line counts when both ends are there and have a label. *)
ReadGraph(file, labels) ==
  LET label == ReadLabels(file, labels)
      used == {v \in DOMAIN label : label[v] # UnusedLabel}
  IN  [v \in DOMAIN label |->
         [label |-> label[v],
          nei |-> {w \in used : v \in used /\ Joined(file.es, v, w)}]]

(* G_size, the number of vertices that have a candidate bit mask, is set   *)
(* by the first edge line.                                                 *)
ReadSize(file, labels) ==
  IF file.es = <<>> THEN 0 ELSE Cardinality(DOMAIN ReadLabels(file, labels))

(* inputUpdate with max_num 0: all lines, two ids of each. *)
ReadUpdates(lines) == FlattenSeq(lines)

-----------------------------------------------------------------------------
(* inputGBin: adj[v] is the row of v in the file, label what rand() gave   *)
(* each vertex.  Whether an edge is held back as an update is a hash of    *)
(* the pair, the smaller id first.  Seeded fault: of the pair as it is.    *)
HashedAsRead(hash, v, u) == <<v, u>> \in hash

ShouldBeUpdate(hash, v, u) == (IF u < v THEN <<u, v>> ELSE <<v, u>>) \in hash

SplitGraph(adj, labels, label, hash) ==
  [v \in DOMAIN adj |->
     [label |-> DataLabel(labels, label[v]),
      nei |-> {u \in Range(adj[v]) : ~ShouldBeUpdate(hash, v, u)}]]

(* The edges held back, each from its smaller end, as pairs. *)
HeldBack(adj, hash) ==
  FlattenSeq([i \in 1..Cardinality(DOMAIN adj) |->
    LET us == SelectSeq(adj[i - 1], LAMBDA u : ShouldBeUpdate(hash, i - 1, u) /\ i - 1 < u)
    IN  [j \in DOMAIN us |-> <<us[j], i - 1>>]])

(* A fixed shuffle of the pairs, here any. *)
Shuffles(pairs) ==
  {FlattenSeq([i \in DOMAIN pairs |-> pairs[p[i]]]) : p \in Bijection(DOMAIN pairs, DOMAIN pairs)}
=============================================================================
