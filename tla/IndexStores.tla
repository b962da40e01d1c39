---------------------------- MODULE IndexStores -----------------------------
(***************************************************************************)
(* The two places that the index is stored in, the pool on the device and  *)
(* the mirror on the host, under what the main thread does with them: for  *)
(* each batch the rows of the insertions are merged, those of the          *)
(* deletions taken out, the rows of the update made lists of their own,    *)
(* and after (or, without merged matching, before) the search they are     *)
(* merged too.  GlobalIndex says which rows these are; here they are given, *)
(* and what is at stake is that each list holds them.                      *)
(*                                                                         *)
(* A script is what the program is run with: merged (USE_MERGED_MATCHING), *)
(* the capability of the pool, the first vertices and rows, and the        *)
(* batches.  Rows inserted, and those of an update, are not yet in the     *)
(* index; rows deleted are.                                                *)
(***************************************************************************)
EXTENDS NeighbourPool, HostMirror

CONSTANTS
  Scripts,
  QueryEdges,      \* 0..QE_COUNT-1
  Directions(_)    \* of a query edge: its two directed ones, qe_eidx_

RowsOver(n) == Indexes \X (0..n - 1) \X (0..n - 1)

(* There are vertices for the rows, and never fewer than before. *)
ScriptsAssumption ==
  \A s \in Scripts :
    /\ s.merged \in BOOLEAN /\ s.nv \in Nat /\ s.rows \subseteq RowsOver(s.nv)
    /\ s.batches \in Seq(Range(s.batches)) /\ Len(s.batches) > 0
    /\ \A i \in DOMAIN s.batches :
         LET batch == s.batches[i]
         IN  /\ batch.nv \in Nat
             /\ batch.nv >= IF i = 1 THEN s.nv ELSE s.batches[i - 1].nv
             /\ batch.ins \cup batch.del \cup batch.upd \subseteq RowsOver(batch.nv)

ASSUME ScriptsAssumption

VARIABLES
  script, b,       \* what is run, and the batch the main thread is at
  host,            \* what it does next
  edge,            \* and the query edge it is at
  main, upd,       \* the mirror
  rows             \* what the index should hold

vars == <<poolVars, script, b, host, edge, main, upd, rows>>

Batch == script.batches[b]

\* The rows of a query edge.
RowsOfEdge(S, e) == {r \in S : r[1] \in Directions(e)}

LastEdge == Cardinality(QueryEdges) - 1

-----------------------------------------------------------------------------
Init ==
  \E s \in Scripts :
    /\ script = s /\ b = 1 /\ host = "insert" /\ edge = 0
    /\ ConvertGlobalIndex(s.rows, s.nv, s.capability)
    /\ ~OutOfMemory    \* or it ends here
    /\ launch = Idle /\ warps = AtStart
    /\ main = InitFromSortedEdges([idx \in Indexes |-> EmptyMain(s.nv)], s.rows)
    /\ upd = RebuildUpdate({})
    /\ rows = s.rows

(* The host waits for the kernels it has launched. *)
At(stage) == host = stage /\ launch.kernels = <<>>

(* Merging nothing returns at once. *)
MergeRows(S, is_insertion, n) ==
  IF S = {} THEN UNCHANGED <<update, launch, warps>>
  ELSE MergeSortedEdgesToIndex(S, is_insertion, n)

(* TransferUpdateAll: the insertions. *)
TransferInsertions ==
  /\ At("insert")
  /\ AllocateFromMapping(Batch.nv)
  /\ MergeRows(Batch.ins, TRUE, Batch.nv)
  /\ main' = ResizeForDVCount(main, Batch.nv)
  /\ rows' = rows \cup Batch.ins
  /\ host' = "remove"
  /\ UNCHANGED <<pool, script, b, edge, upd>>

(* Seeded fault: a pool that is used up is taken to hold. *)
AlwaysHolds == TRUE

(* What an insertion merged into the pool is there, unless it is used up, *)
PoolHolds == ~(launch.insert /\ OutOfMemory)

(* which ends the program. *)
Exit ==
  /\ At("remove") \/ At("search") \/ At("next")
  /\ ~PoolHolds
  /\ host' = "exit"
  /\ UNCHANGED <<poolVars, script, b, edge, main, upd, rows>>

(* The deletions, *)
TransferDeletions ==
  /\ At("remove") /\ PoolHolds
  /\ MergeRows(Batch.del, FALSE, nv)
  /\ rows' = rows \ Batch.del
  /\ host' = "mirror"
  /\ UNCHANGED <<nv, pool, index, script, b, edge, main, upd>>

(* and both in the mirror; then TransferUpdateIndex, and with no update it *)
(* is the next batch's turn.                                               *)
TransferUpdate ==
  /\ At("mirror")
  /\ main' = MergeRemove(MergeInsert(main, Batch.ins), Batch.del)
  /\ IF Batch.upd = {} THEN host' = "next" /\ UNCHANGED <<update, upd>>
     ELSE /\ update' = GenerateSizePtr(Batch.upd, nv)
          /\ upd' = RebuildUpdate(Batch.upd)
          /\ host' = IF script.merged THEN "search" ELSE "edge"
  /\ edge' = 0
  /\ UNCHANGED <<nv, pool, index, launch, warps, script, b, rows>>

(* Without merged matching: UpdateGlobalIndex of a query edge, *)
UpdateGlobalIndex ==
  LET S == RowsOfEdge(Batch.upd, edge)
  IN  /\ At("edge")
      /\ MergeRows(S, TRUE, nv)
      /\ rows' = rows \cup S
      /\ host' = "search"
      /\ UNCHANGED <<nv, pool, index, script, b, edge, main, upd>>

(* after which it is searched from, and the next one's turn.               *)
Search ==
  /\ At("search") /\ PoolHolds
  /\ IF script.merged THEN host' = "batch" /\ UNCHANGED edge
     ELSE IF edge < LastEdge THEN host' = "edge" /\ edge' = edge + 1
     ELSE host' = "next" /\ UNCHANGED edge
  /\ UNCHANGED <<poolVars, script, b, main, upd, rows>>

(* With it: BatchUpdateGlobalIndex, after the search. *)
BatchUpdateGlobalIndex ==
  /\ At("batch")
  /\ MergeRows(Batch.upd, TRUE, nv)
  /\ main' = MergeInsert(main, Batch.upd)
  /\ rows' = rows \cup Batch.upd
  /\ host' = "next"
  /\ UNCHANGED <<nv, pool, index, script, b, edge, upd>>

NextBatch ==
  /\ At("next") /\ PoolHolds
  /\ IF b < Len(script.batches) THEN b' = b + 1 /\ host' = "insert"
     ELSE host' = "done" /\ UNCHANGED b
  /\ UNCHANGED <<poolVars, script, edge, main, upd, rows>>

Host ==
  \/ TransferInsertions \/ Exit \/ TransferDeletions \/ TransferUpdate
  \/ UpdateGlobalIndex \/ Search \/ BatchUpdateGlobalIndex \/ NextBatch

Stopped == host \in {"done", "exit"} /\ UNCHANGED vars

Next ==
  \/ Host
  \/ Kernel /\ UNCHANGED <<script, b, host, edge, main, upd, rows>>
  \/ Stopped

Spec == Init /\ [][Next]_vars

-----------------------------------------------------------------------------
Searching == At("search") /\ PoolHolds

Lists(S, u) == [idx \in Indexes |-> AscendingSeq(Delta(S, idx, u))]

(* A search that is started finds in the pool, at every vertex and in      *)
(* every direction, exactly the rows merged and not taken out since, in    *)
(* order: whatever places the merges moved the lists to, however the warps *)
(* that reserved them were interleaved, wherever the blocks of a merge     *)
(* fell, and if the pool was exhausted it is not started.  The update that *)
(* it reads is that of the batch, or of the query edge it starts from,     *)
(* although each merge in between has used its lists.                      *)
PoolRead ==
  Searching =>
    \A u \in Slots(nv) :
      /\ [idx \in Indexes |-> ListAt(pool.array, index[idx][u])] = Lists(rows, u)
      /\ LET read == IF script.merged THEN Indexes ELSE Directions(edge)
             S    == {r \in Batch.upd : r[1] \in read}
         IN  (\A idx \in Directions(edge) : RowsOfIdx(S, idx) # {}) \/ script.merged
               => \A idx \in read : update[idx][u] = Lists(S, u)[idx]

(* The search of the CPU finds the same in the mirror: whatever lists have *)
(* been left behind, compacted or emptied, and whichever vertices are new. *)
MirrorRead ==
  Searching /\ script.merged =>
    \A u \in 0..nv - 1 :
      /\ [idx \in Indexes |-> MainList(main[idx], u)] = Lists(rows, u)
      /\ [idx \in Indexes |-> UpdateList(upd[idx], u)] = Lists(Batch.upd, u)
=============================================================================
