--------------------------- MODULE MergedMatching ---------------------------
(***************************************************************************)
(* The matching of one batch (USE_MERGED_MATCHING), on top of GlobalIndex: *)
(* BuildLocalIndexBitAll and MatchingBitAll of src/graph/graph_gpu.cu, and *)
(* the kernels writeInitialResultsAllBit and extendBFSAllBit of            *)
(* src/kernels/enumeration.cu.                                             *)
(*                                                                         *)
(* Matches are enumerated once per starting query edge ei, which a match   *)
(* carries as a tag.  The tag decides what the match may read of the list  *)
(* of each query edge: Copies says how often it finds a row there.  A      *)
(* partial match is the sequence of the data vertices of the first query   *)
(* vertices of the global order.                                           *)
(*                                                                         *)
(* How the levels are laid out in the result queue, and that some are not  *)
(* stored, does not change what is enumerated and is left out; so are the  *)
(* widths of the support masks above one bit.                              *)
(***************************************************************************)
EXTENDS GlobalIndex, Functions

CONSTANTS
  MAX_ECOUNT,  \* the largest number of query edges
  EdgeOf,      \* EdgeOf[u][w]: the number of the query edge (C_DIR_TO_EDGE,
               \* from 1), 0 when u and w are not neighbours
  Order,       \* global_order_.vs_: the query vertices in matching order
  First,       \* First[d]: the backward neighbour of position d that is
               \* expanded, the first of bni_; the others are looked up
  IndexOrder,  \* IndexOrder[e]: indexing_orders_[e].vs_, from the ends of e
  Rebuild      \* Rebuild[e]: the query vertices set in rebuild_v_flags_[e]

QEdges == {EdgeOf[u][w] : u \in QV, w \in QV} \ {0}

ASSUME EdgeAssumption ==
  /\ MAX_ECOUNT \in Nat
  /\ \A u, w \in QV :
       /\ EdgeOf[u][w] \in 0..MAX_ECOUNT
       /\ EdgeOf[u][w] = EdgeOf[w][u]
       /\ EdgeOf[u][w] # 0 <=> w \in QNei[u]
  /\ \A u, w, x, y \in QV :
       EdgeOf[u][w] = EdgeOf[x][y] /\ w \in QNei[u] => {u, w} = {x, y}

Positions == 1..Cardinality(QV)

(* The positions before d in ord whose query vertices are neighbours.      *)
Backward(ord, d) == {k \in 1..d - 1 : ord[k] \in QNei[ord[d]]}

(* Every query vertex has one position, and from the second on each has a  *)
(* neighbour before it (GenerateGlobalMatchingOrder, BuildIndexingOrder).  *)
ASSUME PlanAssumption ==
  /\ Order \in Bijection(Positions, QV)
  /\ \A d \in Positions \ {1} : First[d] \in Backward(Order, d)
  /\ \A e \in QEdges :
       /\ IndexOrder[e] \in Bijection(Positions, QV)
       /\ EdgeOf[IndexOrder[e][1]][IndexOrder[e][2]] = e
       /\ \A d \in Positions \ {1} : Backward(IndexOrder[e], d) # {}

VARIABLES
  matched,     \* Stage 2: number of batches handed to the kernels
  numMatches,  \* num_positive_matches
  history      \* not in the code: graph and window of each staged batch

mvars == <<matched, numMatches, history>>

-----------------------------------------------------------------------------
CountOf(r, B) == IF BagIn(r, B) THEN B[r] ELSE 0

(* Seeded faults: the update rows of earlier edges are not read; those of  *)
(* every edge are read.                                                    *)
CopiesOwn(index, updates, ei, r) ==
  CountOf(r, IF EdgeOf[r[3]][r[4]] = ei THEN updates ELSE index)

CopiesAll(index, updates, ei, r) ==
  LET e == EdgeOf[r[3]][r[4]]
  IN  CountOf(r, IF e = ei THEN updates ELSE index)
      + (IF e # ei THEN CountOf(r, updates) ELSE 0)

(* SetupLocalIndex and the visibility test of the kernels: a match that    *)
(* starts at ei reads the update rows of ei itself, the index rows of any  *)
(* other query edge, and also the update rows of the edges before ei.      *)
Copies(index, updates, ei, r) ==
  LET e == EdgeOf[r[3]][r[4]]
  IN  CountOf(r, IF e = ei THEN updates ELSE index)
      + (IF e < ei THEN CountOf(r, updates) ELSE 0)

Seen(index, updates, ei, r) == Copies(index, updates, ei, r) > 0

(* The row of a partial match between the positions k and d. *)
RowAt(m, k, d) == <<m[k], m[d], Order[k], Order[d]>>

(* Seeded fault: the masks are computed from the index alone. *)
MaskReadsIndex(index, updates, ei, r) == CountOf(r, index) > 0

MaskReads(index, updates, ei, r) ==
  \/ CountOf(r, index) > 0
  \/ EdgeOf[r[3]][r[4]] <= ei /\ CountOf(r, updates) > 0

(* BuildLocalIndexBitAll: the support masks of ei.  Mask[u] is the set of  *)
(* vertices that may stand for u; it is full when u is not rebuilt.        *)
SupportMask(index, updates, ei) ==
  LET ord == IndexOrder[ei]
      starts(v, d) ==
        \E x \in DV : CountOf(<<v, x, ord[d], ord[3 - d]>>, updates) > 0
      mask[d \in Positions] ==
        {v \in DV : ord[d] \in Rebuild[ei] =>
           IF d <= 2 THEN starts(v, d)
           ELSE \A k \in Backward(ord, d) : \E x \in mask[k] :
                  MaskReads(index, updates, ei, <<v, x, ord[d], ord[k]>>)}
  IN  [u \in QV |-> mask[CHOOSE d \in Positions : ord[d] = u]]

(* A stored match carries ei, counted from 0, in the top 5 bits of its     *)
(* first vertex.                                                           *)
Carried(ei) == ((ei - 1) % TagSpan) + 1

(* extendBFSAllBit, one level. *)
Extensions(index, updates, ei, mask, m) ==
  LET d == Len(m) + 1
  IN  {x \in mask[Order[d]] :
         /\ \A k \in 1..d - 1 : m[k] # x
         /\ \A k \in Backward(Order, d) :
              Seen(index, updates, ei, RowAt(Append(m, x), k, d))}

(* The matches of a starting edge: writeInitialResultsAllBit lists those   *)
(* of two vertices, and what they carry decides how they are extended.     *)
Matches(index, updates, ei) ==
  LET first == SupportMask(index, updates, ei)
      mask == SupportMask(index, updates, Carried(ei))
      level[d \in Positions \ {1}] ==
        IF d = 2
        THEN {m \in first[Order[1]] \X first[Order[2]] :
                Seen(index, updates, ei, RowAt(m, 1, 2))}
        ELSE UNION {{Append(m, x) : x \in Extensions(index, updates, Carried(ei), mask, m)} :
                      m \in level[d - 1]}
  IN  level[Cardinality(QV)]

(* A match is found once per copy of each row it is expanded along. *)
Multiplicity(index, updates, ei, m) ==
  FoldFunction(LAMBDA a, b : a * b, 1,
    [d \in Positions \ {1} |->
       Copies(index, updates, IF d = 2 THEN ei ELSE Carried(ei), RowAt(m, First[d], d))])

(* edge_ok: the batch has update entries of ei in both directions. *)
EdgeOk(entries, ei) ==
  \A d \in 1..2 : \E r \in entries :
    r[3] = IndexOrder[ei][d] /\ r[4] = IndexOrder[ei][3 - d]

CountMatches(index, updates, entries) ==
  SumFunction(
    [ei \in {e \in QEdges : EdgeOk(entries, e)} |->
       SumFunction([m \in Matches(index, updates, ei) |-> Multiplicity(index, updates, ei, m)])])

-----------------------------------------------------------------------------
MInit == GInit /\ matched = 0 /\ numMatches = 0 /\ history = <<>>

(* Stage 1 works on a batch and stages it. *)
StageBatch ==
  /\ Prepare
  /\ history' = Append(history, [nei |-> nei, window |-> batch])
  /\ UNCHANGED <<matched, numMatches>>

Stage1 == StageBatch \/ ((Index \/ ConvertGlobalIndex) /\ UNCHANGED mvars)

(* Stage 2 transfers a batch; one without update entries is not matched. *)
Transfer ==
  /\ TransferUpdateAll
  /\ matched' = s2b'
  /\ UNCHANGED <<numMatches, history>>

(* MatchingBitAll on the index without and the updates of the batch. *)
MatchNext == s2pc = "update" /\ matched = s2b /\ matched' = s2b + 1

MatchingBitAll ==
  /\ MatchNext
  /\ numMatches' = numMatches + CountMatches(idx, UpdateIndex, Stage.flat)
  /\ UNCHANGED <<allvars, history>>

Update ==
  /\ matched = s2b + 1
  /\ BatchUpdateGlobalIndex
  /\ UNCHANGED mvars

MNext == Stage1 \/ Transfer \/ MatchingBitAll \/ Update

mallvars == <<allvars, mvars>>

MSpec == MInit /\ [][MNext]_mallvars

(* Stage 1 works on a batch until it is staged, Stage 2 on what is staged. *)
MFairSpec ==
  /\ MSpec
  /\ WF_mallvars(Work /\ UNCHANGED <<gvars, mvars>>)
  /\ WF_mallvars(ConvertGlobalIndex /\ UNCHANGED mvars) /\ WF_mallvars(StageBatch)
  /\ WF_mallvars(Transfer) /\ WF_matched(MatchNext) /\ WF_mallvars(Update)

-----------------------------------------------------------------------------
(* Properties.                                                             *)

(* The matches of the query in a graph. *)
Embeddings(adj) ==
  LET fits(m, d) ==
        /\ GLabel[m[d]] = QLabel[Order[d]] /\ IsInjective(m)
        /\ \A k \in Backward(Order, d) : m[k] \in adj[m[d]]
      first[d \in {0} \cup Positions] ==
        IF d = 0 THEN {<<>>}
        ELSE {m \in {Append(p, x) : p \in first[d - 1], x \in DV} : fits(m, d)}
  IN  first[Cardinality(QV)]

UsesEdge(m, window) ==
  \E d \in Positions : \E k \in Backward(Order, d) : \E i \in DOMAIN window :
    window[i] \in {<<m[k], m[d]>>, <<m[d], m[k]>>}

(* The matches that a batch is to be credited with: those of the graph     *)
(* with the batch inserted that use one of its edges.                      *)
Due(h) == {m \in Embeddings(h.nei) : UsesEdge(m, h.window)}

NoRepetition(window) ==
  \A i, j \in DOMAIN window :
    window[j] \in {window[i], <<window[i][2], window[i][1]>>} => i = j

(* The number printed at the end.  As long as no batch names an edge       *)
(* twice, the count after a batch is the number of matches due for the     *)
(* batches so far: none is lost by filtering, staging, masking or the      *)
(* order of the matching, and none is counted from two starting edges.     *)
(* When every edge of the stream is new, these are the new matches.        *)
MatchesCounted ==
  (\A i \in 1..matched : NoRepetition(history[i].window)) =>
    numMatches = SumFunction([i \in 1..matched |-> Cardinality(Due(history[i]))])

(* A match that is due is reached from one starting edge and no other,     *)
(* although it may use update edges of several query edges.                *)
OneStartingEdge ==
  s2pc = "update" =>
    \A m \in Due(history[s2b + 1]) :
      Cardinality({ei \in QEdges : m \in Matches(idx, UpdateIndex, ei)}) = 1
=============================================================================
