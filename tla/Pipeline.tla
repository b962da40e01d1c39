------------------------------ MODULE Pipeline ------------------------------
(***************************************************************************)
(* The two-stage pipeline of src/main_calig.cpp.  The Stage-1 thread runs  *)
(* through the batches, indexes each, stages its data and publishes it     *)
(* through s1_batch; the main thread waits for a batch, transfers it and   *)
(* matches it.  Stage 1 never waits, so it may be any number of batches    *)
(* ahead.                                                                  *)
(*                                                                         *)
(* A critical section under pipe_mtx is one step.  What the stages share   *)
(* outside the mutex is one slot per batch, except the bits of             *)
(* vertex_mapping_changed_: a std::vector<bool> packs them in one word, so *)
(* a write of one bit is a read and a write of the word, two steps here.   *)
(* The content of a batch is abstracted to its update pairs, whether it    *)
(* has any update entry, and the number of vertices mapped so far.         *)
(***************************************************************************)
EXTENDS Integers, Sequences, FiniteSets

CONSTANTS
  NumLines,    \* the number of updates in the stream, one per line
  BatchSizes,  \* the batch_size arguments the program may be given
  MaxDV        \* bound: the number of data vertices

ASSUME PipelineAssumption ==
  /\ NumLines \in Nat \ {0}
  /\ BatchSizes \subseteq Nat \ {0}
  /\ MaxDV \in Nat

VARIABLES
  batchSize,   \* argv[5]
  s1pc, s1b,   \* Stage 1: next step and current batch
  s1Word,      \* Stage 1: the word it read from vertex_mapping_changed_
  mapped,      \* global_vid2newidx.size()
  indexed,     \* the positions <<t, t+1>> of update that updateIndex has paired
  numValid,    \* num_valid_vertices_buf_
  changed,     \* vertex_mapping_changed_: the batches whose bit is set
  staged,      \* staged[b]: has batch b update entries? (el_update_host_stage_)
  s1Batch,     \* s1_batch
  pipelineEnd, \* pipeline_end
  s2pc, s2b,   \* Stage 2: next step and current batch
  s2Word,      \* Stage 2: the word it read from vertex_mapping_changed_
  dvCount,     \* DV_COUNT, the vertices the GPU arrays have room for
  merged       \* the batches merged into the GPU index, in order

s1vars == <<s1pc, s1b, s1Word, mapped, indexed, numValid, staged, pipelineEnd>>
s2vars == <<s2b, s2Word, dvCount, merged>>
vars == <<batchSize, s1vars, changed, s1Batch, s2pc, s2vars>>

NumIds == 2 * NumLines

(* Seeded fault: the last, incomplete batch is not counted. *)
FullBatches == IF batchSize >= NumIds THEN 1 ELSE NumIds \div batchSize

(* num_batches: computed in vertex ids, the unit of update.size(). *)
NumBatches ==
  IF batchSize >= NumIds THEN 1 ELSE (NumIds + batchSize - 1) \div batchSize

Slots == 0..NumBatches - 1
Start(b) == b * batchSize

Count(b) == IF batchSize < NumIds - Start(b) THEN batchSize ELSE NumIds - Start(b)

(* The pairs that updateIndex and ConstructUpdate read in the window of b. *)
Window(b) ==
  {<<Start(b) + 2 * i, Start(b) + 2 * i + 1>> : i \in 0..(Count(b) \div 2) - 1}

S1Phases == {"index", "readWord", "writeWord", "stage", "publish", "end", "done"}
S2Phases == {"wait", "asleep", "allocate", "clearRead", "clearWrite", "merge",
             "join", "joined"}

TypeOK ==
  /\ batchSize \in BatchSizes
  /\ s1pc \in S1Phases /\ s1b \in 0..NumBatches
  /\ s1Word \subseteq Slots /\ s2Word \subseteq Slots /\ changed \subseteq Slots
  /\ mapped \in 0..MaxDV /\ dvCount \in 0..MaxDV
  /\ indexed \subseteq (0..NumIds - 1) \X (0..NumIds - 1)
  /\ numValid \in [Slots -> 0..MaxDV]
  /\ staged \in [Slots -> {"empty", "updates", "none"}]
  /\ s1Batch \in -1..NumBatches - 1
  /\ pipelineEnd \in BOOLEAN
  /\ s2pc \in S2Phases /\ s2b \in 0..NumBatches
  /\ merged \in Seq(Slots)

(* ConvertGlobalIndex has mapped the vertices of the initial index and     *)
(* allocated for them before the threads start.                            *)
Init ==
  /\ batchSize \in BatchSizes
  /\ s1pc = "index" /\ s1b = 0 /\ s1Word = {}
  /\ mapped \in 0..MaxDV /\ dvCount = mapped
  /\ indexed = {}
  /\ numValid = [b \in Slots |-> IF b = 0 THEN mapped ELSE 0]
  /\ changed = {}
  /\ staged = [b \in Slots |-> "none"]
  /\ s1Batch = -1 /\ pipelineEnd = FALSE
  /\ s2pc = "wait" /\ s2b = 0 /\ s2Word = {}
  /\ merged = <<>>

-----------------------------------------------------------------------------
(* Stage 1.                                                                *)

(* updateIndex, ConstructUpdate, mergeDeltas, and the part of              *)
(* UpdateVertexMappingCPU that maps the vertices that came on.  The flag   *)
(* for the batch is set unless the slot already holds the new size.        *)
S1Index ==
  /\ s1pc = "index" /\ s1b < NumBatches
  /\ indexed' = indexed \cup Window(s1b)
  /\ mapped' \in mapped..MaxDV
  /\ s1pc' = "readWord"
  /\ UNCHANGED <<batchSize, s1b, s1Word, numValid, staged, pipelineEnd, changed,
                 s1Batch, s2pc, s2vars>>

S1ReadWord ==
  /\ s1pc = "readWord"
  /\ s1Word' = changed
  /\ s1pc' = "writeWord"
  /\ UNCHANGED <<batchSize, s1b, mapped, indexed, numValid, staged, pipelineEnd, changed,
                 s1Batch, s2pc, s2vars>>

S1WriteWord ==
  /\ s1pc = "writeWord"
  /\ changed' = IF numValid[s1b] = mapped THEN s1Word \ {s1b} ELSE s1Word \cup {s1b}
  /\ numValid' = [numValid EXCEPT ![s1b] = mapped]
  /\ s1pc' = "stage"
  /\ UNCHANGED <<batchSize, s1b, s1Word, mapped, indexed, staged, pipelineEnd, s1Batch,
                 s2pc, s2vars>>

(* Seeded fault: one staging buffer for all batches. *)
S1StageShared ==
  /\ s1pc = "stage"
  /\ \E content \in {"empty", "updates"} : staged' = [b \in Slots |-> content]
  /\ s1pc' = "publish"
  /\ UNCHANGED <<batchSize, s1b, s1Word, mapped, indexed, numValid, pipelineEnd, changed,
                 s1Batch, s2pc, s2vars>>

(* The rest of PrepareUpdateAll, and PrepareUpdateIndex. *)
S1Stage ==
  /\ s1pc = "stage"
  /\ \E content \in {"empty", "updates"} : staged' = [staged EXCEPT ![s1b] = content]
  /\ s1pc' = "publish"
  /\ UNCHANGED <<batchSize, s1b, s1Word, mapped, indexed, numValid, pipelineEnd, changed,
                 s1Batch, s2pc, s2vars>>

(* Seeded fault: nobody is woken. *)
NotifyNobody == UNCHANGED s2pc

(* notify_one: Stage 2 is the only waiter. *)
Notify == s2pc' = IF s2pc = "asleep" THEN "wait" ELSE s2pc

S1Publish ==
  /\ s1pc = "publish"
  /\ s1Batch' = s1b
  /\ Notify
  /\ s1b' = s1b + 1
  /\ s1pc' = "index"
  /\ UNCHANGED <<batchSize, s1Word, mapped, indexed, numValid, staged, pipelineEnd, changed,
                 s2vars>>

S1End ==
  /\ s1pc = "index" /\ s1b = NumBatches
  /\ pipelineEnd' = TRUE
  /\ s1pc' = "end"
  /\ UNCHANGED <<batchSize, s1b, s1Word, mapped, indexed, numValid, staged, changed, s1Batch,
                 s2pc, s2vars>>

(* The last notify is after the critical section. *)
S1Done ==
  /\ s1pc = "end"
  /\ Notify
  /\ s1pc' = "done"
  /\ UNCHANGED <<batchSize, s1b, s1Word, mapped, indexed, numValid, staged, pipelineEnd,
                 changed, s1Batch, s2vars>>

-----------------------------------------------------------------------------
(* Stage 2.                                                                *)

(* Seeded fault: the batch before is enough. *)
PublishedBefore(b) == s1Batch >= b - 1 \/ pipelineEnd

(* The wait predicate. *)
Published(b) == s1Batch >= b \/ pipelineEnd

(* cv_s1_done.wait: the predicate is tested under the mutex, which is      *)
(* released as the thread falls asleep.                                    *)
S2Wait ==
  /\ s2pc = "wait" /\ s2b < NumBatches
  /\ s2pc' = IF Published(s2b) THEN "allocate" ELSE "asleep"
  /\ UNCHANGED <<batchSize, s1vars, changed, s1Batch, s2vars>>

(* A condition variable may wake without a notification. *)
S2Spurious ==
  /\ s2pc = "asleep"
  /\ s2pc' = "wait"
  /\ UNCHANGED <<batchSize, s1vars, changed, s1Batch, s2vars>>

(* TransferUpdateAll, AllocateFromMappingGPU. *)
S2Allocate ==
  /\ s2pc = "allocate" /\ s2b \in changed
  /\ dvCount' = numValid[s2b]
  /\ s2pc' = "clearRead"
  /\ UNCHANGED <<batchSize, s1vars, changed, s1Batch, s2b, s2Word, merged>>

S2NothingToAllocate ==
  /\ s2pc = "allocate" /\ s2b \notin changed
  /\ s2pc' = "merge"
  /\ UNCHANGED <<batchSize, s1vars, changed, s1Batch, s2vars>>

S2ClearRead ==
  /\ s2pc = "clearRead"
  /\ s2Word' = changed
  /\ s2pc' = "clearWrite"
  /\ UNCHANGED <<batchSize, s1vars, changed, s1Batch, s2b, dvCount, merged>>

S2ClearWrite ==
  /\ s2pc = "clearWrite"
  /\ changed' = s2Word \ {s2b}
  /\ s2pc' = "merge"
  /\ UNCHANGED <<batchSize, s1vars, s1Batch, s2vars>>

(* The rest of the iteration: TransferUpdateAll merges the batch, and when *)
(* it has update entries it is matched and its updates are merged too.     *)
S2Merge ==
  /\ s2pc = "merge"
  /\ merged' = Append(merged, s2b)
  /\ s2b' = s2b + 1
  /\ s2pc' = IF s2b + 1 < NumBatches THEN "wait" ELSE "join"
  /\ UNCHANGED <<batchSize, s1vars, changed, s1Batch, s2Word, dvCount>>

S2Join ==
  /\ s2pc = "join" /\ s1pc = "done"
  /\ s2pc' = "joined"
  /\ UNCHANGED <<batchSize, s1vars, changed, s1Batch, s2vars>>

-----------------------------------------------------------------------------
Stage1 == S1Index \/ S1ReadWord \/ S1WriteWord \/ S1Stage \/ S1Publish \/ S1End \/ S1Done

Stage2 ==
  \/ S2Wait \/ S2Allocate \/ S2NothingToAllocate \/ S2ClearRead \/ S2ClearWrite
  \/ S2Merge \/ S2Join

Finished == s1pc = "done" /\ s2pc = "joined" /\ UNCHANGED vars

Next == Stage1 \/ Stage2 \/ S2Spurious \/ Finished

Spec == Init /\ [][Next]_vars

(* Both threads are scheduled; a sleeping Stage 2 only moves when notified. *)
FairSpec == Spec /\ WF_vars(Stage1) /\ WF_vars(Stage2)

-----------------------------------------------------------------------------
(* Properties.                                                             *)

(* Whenever Stage 2 touches a batch, Stage 1 has staged it completely,     *)
(* also when it was let through by pipeline_end.                           *)
StagedBeforeUse ==
  s2pc \in {"allocate", "clearRead", "clearWrite", "merge"} =>
     staged[s2b] # "none" /\ s2b <= s1Batch

(* Each line of the update stream is read as one update of one batch: the  *)
(* windows neither skip a line nor pair the ends of two lines.             *)
EveryLineIndexed ==
  s1pc = "done" => indexed = {<<2 * i, 2 * i + 1>> : i \in 0..NumLines - 1}

(* What Stage 1 published of a batch does not change while it runs ahead,  *)
(* however late Stage 2 reads it.                                          *)
PublishedIsStable ==
  [][\A b \in 0..s1Batch : staged'[b] = staged[b] /\ numValid'[b] = numValid[b]]_vars

(* The GPU arrays are extended for the vertices of a batch before it is    *)
(* merged into them.                                                       *)
AllocatedBeforeMerge == s2pc = "merge" => dvCount >= numValid[s2b]

(* No wake-up is lost: both stages end, with every batch merged in order.  *)
AllBatchesMerged ==
  <>(s2pc = "joined" /\ merged = [i \in 1..NumBatches |-> i - 1])
=============================================================================
