----------------------------- MODULE GlobalIndex -----------------------------
(***************************************************************************)
(* The index that the matching kernels read, and how it follows the CaLiG  *)
(* index from behind: src/index/calig_helper_gamma.cu on top of            *)
(* CaLiGIndex, with the loop of Stage 2 in src/main_calig.cpp.             *)
(*                                                                         *)
(* Stage 1 stages the deltas of each batch, filtered by the candidates     *)
(* that are on when the batch is done; Stage 2 merges them later, when     *)
(* Stage 1 may be batches ahead.  The GPU index is a bag of rows           *)
(* <<v, x, u, w>>, since mergeCSROntoGraph keeps equal entries; the host   *)
(* mirror of the cgcsm_cpu_dfs variant merges with std::set_union and      *)
(* std::set_difference, so it is a set.                                    *)
(*                                                                         *)
(* The mutex and the vertex mapping flags are in Pipeline; the renumbering *)
(* of vertices is injective and left out, but a vertex without a number is *)
(* not.  The memory pool is taken as large enough (its exhaustion ends the *)
(* program).                                                               *)
(***************************************************************************)
EXTENDS CaLiGIndex, Bags

CONSTANT
  Directions   \* the directed query edges <<u, w>> in the order of eidx_

ASSUME DirectionsAssumption ==
  /\ {Directions[i] : i \in DOMAIN Directions} = {p \in QV \X QV : p[2] \in QNei[p[1]]}
  /\ \A i, j \in DOMAIN Directions : Directions[i] = Directions[j] => i = j

VARIABLES
  numbered,    \* the keys of global_vid2newidx
  stages,      \* per batch: el_host_stage_, del_host_stage_, el_update_host_stage_
               \* and G_UPDATE_FLAT_, as fields ins, del, upd and flat
  converted,   \* has ConvertGlobalIndex built the first GPU index?
  idx,         \* gpu_index, a bag of rows
  mirror,      \* cpu_mirror_, a set of rows
  s2pc,        \* Stage 2: "transfer" or "update"
  s2b          \* Stage 2: number of batches completed

gvars == <<numbered, stages, converted, idx, mirror, s2pc, s2b>>
allvars == <<vars, gvars>>

(* The rows of the pairs that are on, as CaLiG has them. *)
Rows == Tasks(li, cand)

StageRecord(r) ==
  /\ r.ins \subseteq Records
  /\ IsABag(r.del) /\ IsABag(r.upd)
  /\ BagToSet(r.del) \cup BagToSet(r.upd) \subseteq Records
  /\ r.flat \cup r.rows \subseteq Records

GlobalTypeOK ==
  /\ numbered \subseteq DV
  /\ \A i \in DOMAIN stages : StageRecord(stages[i])
  /\ Len(stages) <= nBatch
  /\ converted \in BOOLEAN
  /\ IsABag(idx) /\ BagToSet(idx) \subseteq Records
  /\ mirror \subseteq Records
  /\ s2pc \in {"transfer", "update"}
  /\ s2b \in 0..Len(stages)

(* The number of a query edge has 5 bits above the vertices of an encoded  *)
(* row: what Stage 2 decodes is the query edge of the number modulo 32.    *)
TagSpan == 32

Packed(r) ==
  LET i == CHOOSE i \in DOMAIN Directions : Directions[i] = <<r[3], r[4]>>
  IN  <<r[1], r[2]>> \o Directions[((i - 1) % TagSpan) + 1]

(* Both ends have a number. *)
Numbered(known, r) == r[1] \in known /\ r[2] \in known

(* The bag of the rows that tagged records are encoded as. *)
Encoded(tagged) ==
  [e \in {Packed(t[2]) : t \in tagged} |-> Cardinality({t \in tagged : Packed(t[2]) = e})]

(* buildGlobalVertexMapping: the vertices with a candidate bit on get a    *)
(* number.  UpdateVertexMappingCPU: so do those of a batch, and all keep   *)
(* theirs.  Seeded fault: only those of the first index have one.          *)
FirstNumbers == {p[1] : p \in li}

NumberedFirst == numbered

NumberedNow == numbered \cup {p[1] : p \in li}

GInit ==
  /\ Init
  /\ numbered = {}
  /\ stages = <<>>
  /\ converted = FALSE
  /\ idx = EmptyBag /\ mirror = {}
  /\ s2pc = "transfer" /\ s2b = 0

-----------------------------------------------------------------------------
(* The CaLiG steps.  Stage 1 starts a batch when the one before is staged. *)
Index ==
  /\ \/ Work
     \/ \E b \in Batches : converted /\ Len(stages) = nBatch /\ StartBatch(b)
  /\ UNCHANGED gvars

(* ConvertGlobalIndex, after staticFilter and before the stages start. *)
ConvertGlobalIndex ==
  /\ AtRest /\ ~converted
  /\ numbered' = FirstNumbers
  /\ LET rows == {r \in Rows : Numbered(FirstNumbers, r)}
     IN  /\ idx' = Encoded({0} \X rows)
         /\ mirror' = {Packed(r) : r \in rows}
  /\ converted' = TRUE
  /\ UNCHANGED <<vars, stages, s2pc, s2b>>

(* A batch is done and not staged yet. *)
Unstaged == AtRest /\ converted /\ Len(stages) < nBatch

(* PrepareUpdateAll and PrepareUpdateIndex.  The field rows is not in the  *)
(* code: it remembers the rows of this moment for the properties.          *)
Prepare ==
  /\ Unstaged
  /\ numbered' = NumberedNow
  /\ stages' = Append(stages,
       [ins |-> {Packed(r) : r \in {d \in ins : Owner(d) \in li /\ Numbered(NumberedNow, d)}},
        del |-> Encoded({t \in del : Numbered(NumberedNow, t[2])}),
        upd |-> Encoded({t \in upd : Numbered(NumberedNow, t[2])}),
        flat |-> {d \in {t[2] : t \in upd} : Numbered(NumberedNow, d)},
        rows |-> Rows])
  /\ UNCHANGED <<vars, converted, idx, mirror, s2pc, s2b>>

-----------------------------------------------------------------------------
(* Stage 2, the batch at hand, and the update index that is made from its  *)
(* update entries.                                                         *)
Stage == stages[s2b + 1]
UpdateIndex == Stage.upd

(* Seeded fault: a batch without update entries is passed over. *)
ReadyWithUpdates == s2pc = "transfer" /\ s2b < Len(stages) /\ Stage.upd # EmptyBag

Ready == s2pc = "transfer" /\ s2b < Len(stages)

(* TransferUpdateAll: insertions are deduplicated and merged, then the     *)
(* deletions removed, one copy per deletion.  TransferUpdateIndex ends the *)
(* iteration of a batch without update entries.                            *)
TransferUpdateAll ==
  /\ Ready
  /\ idx' = (idx (+) SetToBag(Stage.ins)) (-) Stage.del
  /\ mirror' = (mirror \cup Stage.ins) \ BagToSet(Stage.del)
  /\ IF Stage.upd = EmptyBag
     THEN s2b' = s2b + 1 /\ s2pc' = "transfer"
     ELSE s2b' = s2b /\ s2pc' = "update"
  /\ UNCHANGED <<vars, numbered, stages, converted>>

(* BatchUpdateGlobalIndex, after the matching of the batch, which only     *)
(* reads: the update entries are deduplicated and merged.                  *)
BatchUpdateGlobalIndex ==
  /\ s2pc = "update"
  /\ idx' = idx (+) SetToBag(BagToSet(UpdateIndex))
  /\ mirror' = mirror \cup BagToSet(UpdateIndex)
  /\ s2b' = s2b + 1
  /\ s2pc' = "transfer"
  /\ UNCHANGED <<vars, numbered, stages, converted>>

-----------------------------------------------------------------------------
GNext == Index \/ ConvertGlobalIndex \/ Prepare \/ TransferUpdateAll
         \/ BatchUpdateGlobalIndex

GSpec == GInit /\ [][GNext]_allvars

-----------------------------------------------------------------------------
(* Properties.                                                             *)

(* When Stage 2 has completed a batch, the GPU index holds each row that   *)
(* the CaLiG index had at the end of that batch exactly once, and nothing  *)
(* else, although the deltas were only a difference and Stage 1 may have   *)
(* gone on meanwhile.                                                      *)
IndexFollows ==
  (s2pc = "transfer" /\ s2b > 0) => idx = SetToBag(stages[s2b].rows)

(* While a batch is matched, the index and the update entries are disjoint *)
(* and together the rows of the batch: a match that uses an update edge is *)
(* found through the update entries and no other match is counted again.   *)
MatchingSeesBatchOnce ==
  s2pc = "update" =>
    idx = SetToBag(Stage.rows \ BagToSet(UpdateIndex))
    /\ BagToSet(UpdateIndex) \subseteq Stage.rows

(* The host mirror holds the rows of the GPU index and the GPU index holds *)
(* each of them once, so the CPU share of the search counts as the GPU.    *)
MirrorInSync == idx = SetToBag(mirror)

(* Whatever Stage 1 has started reaches the GPU index in the end. *)
AllStaged == []<>(Len(stages) = nBatch /\ s2b = Len(stages) /\ s2pc = "transfer")
=============================================================================
