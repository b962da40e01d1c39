----------------------------- MODULE GpmaMatching -----------------------------
(***************************************************************************)
(* The variant cgcsm_gpma: src/index/calig_helper_gpma.cu in the place of  *)
(* calig_helper_gamma.cu, and the loop of src/main_calig.cpp with USE_GPMA.*)
(*                                                                         *)
(* The index that the kernels read is one sorted vector of encoded rows,   *)
(* el_dev, with pointers into it (generateSizePtr); here idx, as in        *)
(* GlobalIndex.  The GPMA itself is loaded with the first index, and       *)
(* nothing reads it.  Stage 1 and the matching are those of                *)
(* MergedMatching; there is no host mirror.                                *)
(***************************************************************************)
EXTENDS MergedMatching

(* buildGlobalVertexMapping and UpdateVertexMappingCPU: vertices with a    *)
(* candidate bit that have no number get one.                              *)
VertexMapping == numbered \cup {v \in DV : \E p \in li : p[1] = v}

(* getNewVertexId gives both ends of a row a number. *)
Known(r) == {r[1], r[2]} \subseteq VertexMapping

SortedVector(rows) == Encoded({0} \X rows)

(* ConvertGlobalIndex. *)
GpmaConvertGlobalIndex ==
  /\ AtRest /\ ~converted
  /\ numbered' = VertexMapping
  /\ idx' = SortedVector({r \in Rows : Known(r)})
  /\ converted' = TRUE
  /\ UNCHANGED <<vars, stages, mirror, s2pc, s2b, mvars>>

(* PrepareUpdateAll: insertions of pairs that are still on, and deletions. *)
(* Both are bags here: only Stage 2 drops what is named twice.             *)
PreparedInsertions == SortedVector({d \in ins : Owner(d) \in li /\ Known(d)})

PreparedDeletions == Encoded({t \in del : Known(t[2])})

(* PrepareUpdateIndex, whose flags per query edge are EdgeOk. *)
PreparedUpdates == Encoded({t \in upd : Known(t[2])})

GpmaStageBatch ==
  /\ Unstaged
  /\ numbered' = VertexMapping
  /\ stages' = Append(stages, [ins |-> PreparedInsertions, del |-> PreparedDeletions,
                               upd |-> PreparedUpdates,
                               flat |-> {d \in {t[2] : t \in upd} : Known(d)},
                               rows |-> Rows])
  /\ history' = Append(history, [nei |-> nei, window |-> batch])
  /\ UNCHANGED <<vars, converted, idx, mirror, s2pc, s2b, matched, numMatches>>

(* TransferUpdateAll: add the insertions, sort, keep one of each, and take *)
(* the deletions away.  TransferUpdateIndex passes over a batch that has   *)
(* no update entries.                                                      *)
MergedVector == SetToBag(BagToSet(idx (+) Stage.ins)) (-) Stage.del

GpmaTransfer ==
  /\ Ready
  /\ idx' = MergedVector
  /\ IF Stage.upd = EmptyBag
     THEN s2b' = s2b + 1 /\ s2pc' = "transfer"
     ELSE s2b' = s2b /\ s2pc' = "update"
  /\ matched' = s2b'
  /\ UNCHANGED <<vars, numbered, stages, converted, mirror, numMatches, history>>

(* The end of the iteration: with USE_GPMA nothing is added to the index   *)
(* after the matching.                                                     *)
GpmaEndOfBatch ==
  /\ s2pc = "update" /\ matched = s2b + 1
  /\ s2pc' = "transfer" /\ s2b' = s2b + 1
  /\ UNCHANGED <<vars, numbered, stages, converted, idx, mirror, mvars>>

GpmaNext ==
  \/ Index /\ UNCHANGED mvars
  \/ GpmaConvertGlobalIndex \/ GpmaStageBatch
  \/ GpmaTransfer \/ MatchingBitAll \/ GpmaEndOfBatch

GpmaSpec == MInit /\ [][GpmaNext]_mallvars
=============================================================================
