------------------------------- MODULE Startup -------------------------------
(***************************************************************************)
(* How the program starts (src/main_calig.cpp up to the pipeline): the     *)
(* query file is read twice, by CaLiG and by CPUGraphLoader, the data      *)
(* graph by one of two loaders, and then the query is planned (Plan).      *)
(* What comes between, the filter and the first index, is in CaLiGIndex    *)
(* and GlobalIndex; the planner sees no more of it than statistics.        *)
(***************************************************************************)
EXTENDS Plan, GraphInput

CONSTANTS
  Inputs,      \* records of the files: query (text), data, and with text
               \* data updates (pairs); binary data are rows of neighbours
  MAX_VCOUNT,  \* the largest number of query vertices
  BinLabels    \* 0..nvcls-1: the labels that binary data are given

(* The query graph that CPUGraphLoader makes of a file: nbrs_, as sets. *)
QueryOf(file) == LET nbr == ReadNbrs(file) IN [u \in DOMAIN nbr |-> Range(nbr[u])]

(* A query file numbers its vertices from 0, and its edges connect them    *)
(* and join none to itself.                                                *)
Connects(file) ==
  LET V == 0..Len(file.vs) - 1
  IN  /\ \A i \in DOMAIN file.vs : file.vs[i][1] = i - 1
      /\ file.es \in Seq({p \in V \X V : p[1] # p[2]})
      /\ \A S \in (SUBSET V) \ {{}, V} : \E u \in S, w \in V \ S : Joined(file.es, u, w)

Numbers(g) == [DOMAIN g -> [DOMAIN g -> Nat]]

ASSUME InputsAssumption ==
  \A i \in Inputs :
    /\ i.query.vs \in Seq(Range(i.query.vs)) /\ i.query.vs # <<>>
    /\ Connects(i.query)
    /\ LET g == QueryOf(i.query)
       IN  Statistics(g) \subseteq [avg : Numbers(g), card : Numbers(g)]

VARIABLES
  input,    \* the files
  Q, G,     \* the query and data graph of CaLiG
  G_size,   \* the data vertices that have a candidate bit mask
  update,   \* the updates, two ids each
  hash,     \* binary data: the pairs that the hash function selects
  eidx, qe_eidx,   \* the numbers of the directed and undirected query edges
  phase     \* what comes next

loaded == <<input, Q, G, G_size, update, hash, eidx, qe_eidx>>
svars == <<loaded, phase, vars>>

StartupInit ==
  /\ input \in Inputs
  /\ Q = <<>> /\ G = <<>> /\ G_size = 0 /\ update = <<>> /\ hash = {}
  /\ eidx = <<>> /\ qe_eidx = <<>>
  /\ phase = "inputQ"
  /\ NoPlan

InputQ ==
  /\ phase = "inputQ"
  /\ Q' = ReadQuery(input.query)
  /\ phase' = IF input.kind = "text" THEN "inputG" ELSE "inputGBin"
  /\ UNCHANGED <<input, G, G_size, update, hash, eidx, qe_eidx, vars>>

InputG ==
  /\ phase = "inputG"
  /\ G' = ReadGraph(input.data, LabelsOf(Q))
  /\ G_size' = ReadSize(input.data, LabelsOf(Q))
  /\ phase' = "inputUpdate"
  /\ UNCHANGED <<input, Q, update, hash, eidx, qe_eidx, vars>>

InputUpdate ==
  /\ phase = "inputUpdate"
  /\ update' = ReadUpdates(input.updates)
  /\ phase' = "SetQueryMeta"
  /\ UNCHANGED <<input, Q, G, G_size, hash, eidx, qe_eidx, vars>>

InputGBin ==
  /\ phase = "inputGBin"
  /\ hash' \in SUBSET {p \in (DOMAIN input.data) \X (DOMAIN input.data) :
                         p[1] < p[2] /\ p[2] \in Range(input.data[p[1]])}
  /\ \E label \in [DOMAIN input.data -> BinLabels] :
       G' = SplitGraph(input.data, LabelsOf(Q), label, hash')
  /\ G_size' = Cardinality(DOMAIN input.data)
  /\ update' \in Shuffles(HeldBack(input.data, hash'))
  /\ phase' = "SetQueryMeta"
  /\ UNCHANGED <<input, Q, eidx, qe_eidx, vars>>

(* CPUGraphLoader and SetQueryMeta end the program when the query is too   *)
(* small or too large.                                                     *)
Accepted == Len(input.query.vs) \in 2..MAX_VCOUNT /\ Len(input.query.es) <= MAX_ECOUNT

Refuse ==
  /\ phase = "SetQueryMeta" /\ ~Accepted
  /\ phase' = "exit"
  /\ UNCHANGED <<loaded, vars>>

SetQueryMeta ==
  /\ phase = "SetQueryMeta" /\ Accepted
  /\ LET nbr == ReadNbrs(input.query)
     IN  /\ eidx' = Eidx(nbr)
         /\ qe_eidx' = EdgeNumbers(nbr)
         /\ GenerateIndexingOrders(QueryOf(input.query), EdgeList(nbr))
  /\ phase' = "ConvertGlobalIndex"
  /\ UNCHANGED <<input, Q, G, G_size, update, hash>>

(* ConvertGlobalIndex measures the first index. *)
Measure ==
  /\ phase = "ConvertGlobalIndex"
  /\ ChooseStatistics
  /\ phase' = "plan"
  /\ UNCHANGED loaded

StartupNext ==
  \/ InputQ \/ InputG \/ InputUpdate \/ InputGBin
  \/ Refuse \/ SetQueryMeta \/ Measure
  \/ phase = "plan" /\ Next /\ UNCHANGED <<loaded, phase>>

StartupSpec == StartupInit /\ [][StartupNext]_svars

-----------------------------------------------------------------------------
(* Properties.                                                             *)

(* The two readers of the query file agree.  CaLiG names its rows by pairs *)
(* of neighbours in its own query graph and the helper turns each into a   *)
(* number of CPUGraphLoader, in arrays with as many entries as CaLiG has   *)
(* pairs: so every pair has a number of its own below that, the query      *)
(* edges are these pairs, and each has the numbers of its two directions.  *)
LoadersAgree ==
  phase \in {"ConvertGlobalIndex", "plan"} =>
    LET pairs == {p \in (DOMAIN Q) \X (DOMAIN Q) : p[2] \in Q[p[1]].nei}
    IN  /\ DOMAIN eidx = (DOMAIN Q) \X (DOMAIN Q)
        /\ {eidx[p] : p \in pairs} = 0..NumEdges(Q) - 1
        /\ \A p \in DOMAIN eidx : eidx[p] # NotExist => p \in pairs
        /\ {{p[1], p[2]} : p \in pairs} = {Range(qe_list[e]) : e \in DOMAIN qe_list}
        /\ 2 * Len(qe_list) = NumEdges(Q)
        /\ \A e \in DOMAIN qe_list :
             qe_eidx[e] = <<eidx[qe_list[e]], eidx[<<qe_list[e][2], qe_list[e][1]>>]>>

(* The edges of the stream, and those of the data as given. *)
UpdatePairs == {{update[2 * i - 1], update[2 * i]} : i \in 1..Len(update) \div 2}

GivenText ==
  {{input.data.es[i][1], input.data.es[i][2]} : i \in DOMAIN input.data.es}

LabelLine(v, lb) == \E i \in DOMAIN input.data.vs : input.data.vs[i] = <<v, lb>>

(* The data graph is what the index relies on: neighbours are mutual, a    *)
(* label is one of the query, ids keep their meaning across gaps.  From    *)
(* binary data, the graph and the stream have each edge between them       *)
(* exactly once, although every edge is looked at from both of its ends    *)
(* by a test of its own.                                                   *)
DataLoaded ==
  phase = "SetQueryMeta" =>
    /\ \A v \in DOMAIN G : \A w \in G[v].nei : w \in DOMAIN G /\ v \in G[w].nei
    /\ \A v \in DOMAIN G : G[v].label \in LabelsOf(Q) \cup {UnusedLabel}
    /\ input.kind = "text" =>
         /\ \A v \in DOMAIN G : \A lb \in LabelsOf(Q) : G[v].label = lb <=> LabelLine(v, lb)
         /\ \A v, w \in DOMAIN G :
              w \in G[v].nei <=> /\ {v, w} \in GivenText
                                 /\ UnusedLabel \notin {G[v].label, G[w].label}
    /\ input.kind = "binary" =>
         \A v \in DOMAIN G :
           /\ Range(input.data[v]) =
                G[v].nei \cup {w \in DOMAIN G : {v, w} \in UpdatePairs}
           /\ \A w \in G[v].nei : {v, w} \notin UpdatePairs
           /\ Len(update) = 2 * Cardinality(UpdatePairs)
=============================================================================
