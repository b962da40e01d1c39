--------------------------- MODULE PipelineProofs ---------------------------
(***************************************************************************)
(* Proofs about the two-stage pipeline, for every length of the stream,    *)
(* every batch size and any number of batches that Stage 1 is ahead.       *)
(***************************************************************************)
EXTENDS Pipeline, TLAPS

Using == {"allocate", "clearRead", "clearWrite", "merge"}

(* What the two threads know of each other: s1_batch is the batch before   *)
(* the one Stage 1 works on, what is behind it is staged, pipeline_end     *)
(* comes after the last batch, and Stage 2 works on a batch behind Stage 1.*)
StageOneInv ==
  /\ s1pc \in S1Phases
  /\ s1b \in 0..NumBatches
  /\ s1Batch = s1b - 1
  /\ s1pc \in {"readWord", "writeWord", "stage", "publish"} => s1b < NumBatches
  /\ pipelineEnd \/ s1pc \in {"end", "done"} => s1b = NumBatches

StagedInv ==
  /\ DOMAIN staged = Slots
  /\ \A b \in Slots :
       b < s1b \/ (b = s1b /\ s1pc = "publish") => staged[b] # "none"

StageTwoInv ==
  /\ s2pc \in S2Phases
  /\ s2b \in 0..NumBatches
  /\ s2pc \in Using \cup {"wait", "asleep"} => s2b < NumBatches
  /\ s2pc \in Using => s2b < s1b

PInv ==
  /\ batchSize \in BatchSizes
  /\ StageOneInv /\ StagedInv /\ StageTwoInv
  /\ DOMAIN numValid = Slots

LEMMA DivPositive ==
  ASSUME NEW a \in Nat, NEW b \in Nat, b > 0, a >= b
  PROVE  a \div b \in Nat /\ a \div b >= 1
<1>1. a \div b \in Int /\ a < b * ((a \div b) + 1)
  BY SMTT(30)
<1>2. CASE a \div b <= 0
  BY <1>1, <1>2, SMTT(30)
<1> QED
  BY <1>1, <1>2

(* There is at least one batch. *)
LEMMA SomeBatch ==
  ASSUME batchSize \in BatchSizes
  PROVE  NumBatches \in Nat /\ NumBatches >= 1
<1>1. batchSize \in Nat /\ batchSize > 0 /\ NumLines \in Nat
  BY PipelineAssumption
<1>2. CASE batchSize >= NumIds
  BY <1>2 DEF NumBatches
<1>3. CASE ~(batchSize >= NumIds)
  <2>1. NumIds + batchSize - 1 \in Nat /\ NumIds + batchSize - 1 >= batchSize
    BY <1>1, <1>3 DEF NumIds
  <2> QED
    BY <1>1, <1>3, <2>1, DivPositive DEF NumBatches
<1> QED
  BY <1>2, <1>3

LEMMA PInit == Init => PInv
<1> SUFFICES ASSUME Init PROVE PInv
  OBVIOUS
<1>1. batchSize \in BatchSizes
  BY DEF Init
<1>2. NumBatches \in Nat /\ NumBatches >= 1
  BY <1>1, SomeBatch
<1> QED
  BY <1>1, <1>2 DEF Init, PInv, StageOneInv, StagedInv, StageTwoInv, S1Phases, S2Phases,
                    Slots, Using

LEMMA PStep == PInv /\ [Next]_vars => PInv'
<1> SUFFICES ASSUME PInv, [Next]_vars PROVE PInv'
  OBVIOUS
<1>1. NumBatches \in Nat /\ batchSize \in BatchSizes
  BY SomeBatch DEF PInv
<1>2. batchSize' = batchSize
  BY DEF Next, vars, Stage1, Stage2, Finished, S1Index, S1ReadWord, S1WriteWord, S1Stage,
         S1Publish, S1End, S1Done, S2Wait, S2Spurious, S2Allocate, S2NothingToAllocate,
         S2ClearRead, S2ClearWrite, S2Merge, S2Join
<1>3. NumBatches' = NumBatches /\ Slots' = Slots
  BY <1>2 DEF NumBatches, Slots
<1> USE <1>1, <1>2, <1>3 DEF PInv, StageOneInv, StagedInv, StageTwoInv, Using
<1>4. CASE S1Index
  BY <1>4 DEF S1Index, s2vars, S1Phases
<1>5. CASE S1ReadWord
  BY <1>5 DEF S1ReadWord, s2vars, S1Phases
<1>6. CASE S1WriteWord
  BY <1>6 DEF S1WriteWord, s2vars, S1Phases
<1>7. CASE S1Stage
  BY <1>7 DEF S1Stage, s2vars, S1Phases, Slots
<1>8. CASE S1Publish
  <2>1. s2pc' = s2pc \/ (s2pc = "asleep" /\ s2pc' = "wait")
    BY <1>8 DEF S1Publish, Notify
  <2> QED
    BY <1>8, <2>1 DEF S1Publish, s2vars, S1Phases, S2Phases, Slots
<1>9. CASE S1End
  BY <1>9 DEF S1End, s2vars, S1Phases
<1>10. CASE S1Done
  <2>1. s2pc' = s2pc \/ (s2pc = "asleep" /\ s2pc' = "wait")
    BY <1>10 DEF S1Done, Notify
  <2> QED
    BY <1>10, <2>1 DEF S1Done, s2vars, S1Phases, S2Phases
<1>11. CASE S2Wait
  BY <1>11 DEF S2Wait, s1vars, s2vars, S2Phases, Published
<1>12. CASE S2Spurious
  BY <1>12 DEF S2Spurious, s1vars, s2vars, S2Phases
<1>13. CASE S2Allocate
  BY <1>13 DEF S2Allocate, s1vars, S2Phases
<1>14. CASE S2NothingToAllocate
  BY <1>14 DEF S2NothingToAllocate, s1vars, s2vars, S2Phases
<1>15. CASE S2ClearRead
  BY <1>15 DEF S2ClearRead, s1vars, S2Phases
<1>16. CASE S2ClearWrite
  BY <1>16 DEF S2ClearWrite, s1vars, s2vars, S2Phases
<1>17. CASE S2Merge
  BY <1>17 DEF S2Merge, s1vars, S2Phases
<1>18. CASE S2Join
  BY <1>18 DEF S2Join, s1vars, s2vars, S2Phases
<1>19. CASE UNCHANGED vars
  BY <1>19 DEF vars, s1vars, s2vars
<1> QED
  BY <1>4, <1>5, <1>6, <1>7, <1>8, <1>9, <1>10, <1>11, <1>12, <1>13, <1>14, <1>15, <1>16,
     <1>17, <1>18, <1>19
     DEF Next, Stage1, Stage2, Finished

LEMMA PInvariant == Spec => []PInv
BY PInit, PStep, PTL DEF Spec

(* Whenever Stage 2 touches a batch (TransferUpdateAll and what follows    *)
(* it), Stage 1 has staged and published it, also when pipeline_end let    *)
(* Stage 2 through and however often cv_s1_done woke it.                   *)
THEOREM StagedFirst == Spec => []StagedBeforeUse
<1>1. PInv => StagedBeforeUse
  <2> SUFFICES ASSUME PInv, s2pc \in Using
               PROVE  staged[s2b] # "none" /\ s2b <= s1Batch
    BY DEF StagedBeforeUse, Using
  <2>1. NumBatches \in Nat
    BY SomeBatch DEF PInv
  <2>2. s2b \in Slots /\ s2b < s1b
    BY <2>1 DEF PInv, StageTwoInv, Slots
  <2>3. staged[s2b] # "none"
    BY <2>2 DEF PInv, StagedInv
  <2>4. s2b <= s1Batch
    BY <2>1, <2>2 DEF PInv, StageOneInv, Slots
  <2> QED
    BY <2>3, <2>4
<1> QED
  BY <1>1, PInvariant, PTL

(* What PrepareUpdateAll and PrepareUpdateIndex wrote into the slot of a   *)
(* batch never changes once s1_batch has passed it, so Stage 2 may read    *)
(* the slot outside the mutex.                                             *)
THEOREM PublishedNeverChanges == Spec => PublishedIsStable
<1> DEFINE Stable == \A b \in 0..s1Batch : staged'[b] = staged[b] /\ numValid'[b] = numValid[b]
<1>1. PInv /\ [Next]_vars => [Stable]_vars
  <2> SUFFICES ASSUME PInv, Next, NEW b \in 0..s1Batch
               PROVE  staged'[b] = staged[b] /\ numValid'[b] = numValid[b]
    BY DEF vars, s1vars
  <2>1. b # s1b
    <3>1. NumBatches \in Nat
      BY SomeBatch DEF PInv
    <3> QED
      BY <3>1 DEF PInv, StageOneInv
  <2>2. CASE S1WriteWord
    BY <2>1, <2>2 DEF S1WriteWord
  <2>3. CASE S1Stage
    BY <2>1, <2>3 DEF S1Stage
  <2>4. CASE ~S1WriteWord /\ ~S1Stage
    BY <2>4 DEF Next, Stage1, Stage2, Finished, vars, s1vars, S1Index, S1ReadWord,
           S1Publish, S1End, S1Done, S2Wait, S2Spurious, S2Allocate,
           S2NothingToAllocate, S2ClearRead, S2ClearWrite, S2Merge, S2Join
  <2> QED
    BY <2>2, <2>3, <2>4
<1> QED
  BY <1>1, PInvariant, PTL DEF Spec, PublishedIsStable

-----------------------------------------------------------------------------
(* The windows of the batches.                                             *)

Even == \A size \in BatchSizes : size % 2 = 0 \/ size >= NumIds

(* The lines that begin before position p of the stream. *)
LinesBefore(p) == {<<2 * i, 2 * i + 1>> : i \in {i \in 0..NumLines - 1 : 2 * i < p}}

(* The batches that updateIndex has gone through. *)
NumRead ==
  IF s1pc \in {"readWord", "writeWord", "stage", "publish"} THEN s1b + 1 ELSE s1b

WInv == PInv /\ indexed = LinesBefore(Start(NumRead))

LEMMA Halves ==
  ASSUME NEW a \in Nat, a % 2 = 0
  PROVE  \E h \in Nat : a = 2 * h /\ a \div 2 = h
<1> DEFINE h == a \div 2
<1>1. h \in Int /\ a = 2 * h + (a % 2)
  BY SMTT(30)
<1>2. h \in Nat
  BY <1>1
<1> QED
  BY <1>1, <1>2

(* A window of whole lines that is cut to the stream ends before the       *)
(* window behind it begins.                                                *)
LEMMA WindowLines ==
  ASSUME Even, batchSize \in BatchSizes, NEW b \in Nat, b < NumBatches
  PROVE  LinesBefore(Start(b)) \cup Window(b) = LinesBefore(Start(b + 1))
<1>1. batchSize \in Nat /\ batchSize > 0 /\ NumLines \in Nat /\ NumLines > 0
  BY PipelineAssumption
<1>2. PICK k \in Nat, n \in Int :
        /\ Start(b) = 2 * k
        /\ \A i \in Nat : i < n <=> k + i < NumLines /\ 2 * (k + i) < Start(b + 1)
        /\ Count(b) \div 2 = n
        /\ Start(b + 1) \in Nat /\ Start(b) <= Start(b + 1)
  <2>1. CASE batchSize >= NumIds
    <3>1. NumBatches = 1 /\ b = 0
      BY <2>1 DEF NumBatches
    <3>2. Start(b) = 0 /\ Start(b + 1) = batchSize
      BY <1>1, <3>1 DEF Start
    <3>3. Count(b) = 2 * NumLines
      BY <1>1, <2>1, <3>2 DEF Count, NumIds
    <3>4. Count(b) \div 2 = NumLines
      BY <1>1, <3>3
    <3> QED
      BY <1>1, <2>1, <3>2, <3>4 DEF NumIds
  <2>2. CASE ~(batchSize >= NumIds)
    <3>1. PICK h \in Nat : batchSize = 2 * h
      BY <1>1, <2>2, Halves DEF Even
    <3> DEFINE k == b * h
    <3>2. k \in Nat
      BY <3>1
    <3>3. Start(b) = 2 * k /\ Start(b + 1) = 2 * k + 2 * h
      BY <3>1 DEF Start
    <3> DEFINE n == IF h < NumLines - k THEN h ELSE NumLines - k
    <3>4. Count(b) = 2 * n
      BY <1>1, <3>1, <3>2, <3>3 DEF Count, NumIds
    <3>5. n \in Int
      BY <1>1, <3>2
    <3> HIDE DEF k
    <3>6. \A i \in Nat : i < n <=> k + i < NumLines /\ 2 * (k + i) < Start(b + 1)
      BY <1>1, <3>1, <3>2, <3>3
    <3> HIDE DEF n
    <3>7. Count(b) \div 2 = n
      BY <3>4, <3>5
    <3>8. Start(b + 1) \in Nat /\ Start(b) <= Start(b + 1)
      BY <3>1, <3>2, <3>3
    <3> QED
      BY <3>2, <3>3, <3>5, <3>6, <3>7, <3>8
  <2> QED
    BY <2>1, <2>2
<1>3. \A x : x \in Window(b) <=> \E i \in 0..n - 1 : x = <<2 * (k + i), 2 * (k + i) + 1>>
  <2>1. Window(b) = {<<Start(b) + 2 * i, Start(b) + 2 * i + 1>> : i \in 0..n - 1}
    BY <1>2 DEF Window
  <2>2. \A i \in 0..n - 1 : <<Start(b) + 2 * i, Start(b) + 2 * i + 1>>
                            = <<2 * (k + i), 2 * (k + i) + 1>>
    BY <1>2
  <2> QED
    BY <2>1, <2>2
<1>4. ASSUME NEW i \in 0..NumLines - 1, 2 * i < Start(b + 1), ~(2 * i < Start(b))
      PROVE  <<2 * i, 2 * i + 1>> \in Window(b)
  <2>1. i - k \in 0..n - 1 /\ k + (i - k) = i
    BY <1>1, <1>2, <1>4
  <2> QED
    BY <1>3, <2>1
<1>5. ASSUME NEW i \in 0..n - 1
      PROVE  <<2 * (k + i), 2 * (k + i) + 1>> \in LinesBefore(Start(b + 1))
  <2>1. k + i \in 0..NumLines - 1 /\ 2 * (k + i) < Start(b + 1)
    BY <1>1, <1>2
  <2> QED
    BY <2>1 DEF LinesBefore
<1>6. LinesBefore(Start(b)) \subseteq LinesBefore(Start(b + 1))
  BY <1>1, <1>2 DEF LinesBefore
<1>7. LinesBefore(Start(b + 1)) \subseteq LinesBefore(Start(b)) \cup Window(b)
  BY <1>4 DEF LinesBefore
<1>8. Window(b) \subseteq LinesBefore(Start(b + 1))
  BY <1>3, <1>5
<1> QED
  BY <1>6, <1>7, <1>8

(* The last window reaches the end of the stream. *)
LEMMA LastWindow ==
  ASSUME batchSize \in BatchSizes
  PROVE  Start(NumBatches) \in Nat /\ Start(NumBatches) >= NumIds
<1>1. batchSize \in Nat /\ batchSize > 0 /\ NumIds \in Nat
  BY PipelineAssumption DEF NumIds
<1>2. CASE batchSize >= NumIds
  BY <1>1, <1>2 DEF NumBatches, Start
<1>3. CASE ~(batchSize >= NumIds)
  <2> DEFINE a == NumIds + batchSize - 1
             q == a \div batchSize
  <2>1. NumBatches = q
    BY <1>3 DEF NumBatches
  <2>2. a \in Nat
    BY <1>1
  <2>3. q \in Nat
    BY <1>3, <2>1, SomeBatch
  <2>4. a < batchSize * (q + 1)
    <3> HIDE DEF a
    <3> QED
      BY <1>1, <2>2, SMTT(30)
  <2> HIDE DEF q
  <2>5. batchSize * (q + 1) = q * batchSize + batchSize
    BY <1>1, <2>3
  <2>6. q * batchSize \in Nat
    BY <1>1, <2>3
  <2> QED
    BY <1>1, <2>1, <2>4, <2>5, <2>6 DEF Start
<1> QED
  BY <1>2, <1>3

LEMMA WStep == Even /\ WInv /\ [Next]_vars => WInv'
<1> SUFFICES ASSUME Even, WInv, [Next]_vars PROVE WInv'
  OBVIOUS
<1>1. PInv /\ PInv'
  BY PStep DEF WInv
<1>2. NumBatches \in Nat /\ batchSize \in BatchSizes /\ s1b \in Nat
  BY <1>1, SomeBatch DEF PInv, StageOneInv
<1>3. batchSize' = batchSize
  BY DEF Next, vars, Stage1, Stage2, Finished, S1Index, S1ReadWord, S1WriteWord, S1Stage,
         S1Publish, S1End, S1Done, S2Wait, S2Spurious, S2Allocate, S2NothingToAllocate,
         S2ClearRead, S2ClearWrite, S2Merge, S2Join
<1>4. CASE S1Index
  <2>1. s1b < NumBatches /\ NumRead = s1b /\ NumRead' = s1b + 1
    BY <1>4 DEF S1Index, NumRead
  <2>2. indexed' = LinesBefore(Start(s1b)) \cup Window(s1b)
    BY <1>4, <2>1 DEF S1Index, WInv
  <2>3. indexed' = LinesBefore(Start(s1b + 1))
    BY <1>2, <2>1, <2>2, WindowLines
  <2>4. LinesBefore(Start(NumRead))' = LinesBefore(Start(s1b + 1))
    BY <1>3, <2>1 DEF LinesBefore, Start
  <2> QED
    BY <1>1, <2>3, <2>4 DEF WInv
<1>5. CASE ~S1Index
  <2>1. indexed' = indexed /\ NumRead' = NumRead
    BY <1>5 DEF NumRead, Next, vars, s1vars, Stage1, Stage2, Finished, S1ReadWord, S1WriteWord,
           S1Stage, S1Publish, S1End, S1Done, S2Wait, S2Spurious, S2Allocate,
           S2NothingToAllocate, S2ClearRead, S2ClearWrite, S2Merge, S2Join
  <2>2. LinesBefore(Start(NumRead))' = LinesBefore(Start(NumRead))
    BY <1>3, <2>1 DEF LinesBefore, Start
  <2> QED
    BY <1>1, <2>1, <2>2 DEF WInv
<1> QED
  BY <1>4, <1>5

(* When every batch_size that may be given is even, or takes the stream at *)
(* once, each line of the stream is read as one update, whatever its       *)
(* length: the windows of updateIndex neither skip nor split a line.  For  *)
(* other sizes this is false, which pipeline_odd shows.                    *)
THEOREM EvenBatchesReadEveryLine ==
  ASSUME \A size \in BatchSizes : size % 2 = 0 \/ size >= NumIds
  PROVE  Spec => []EveryLineIndexed
<1>1. Even
  BY DEF Even
<1>2. Init => WInv
  <2> SUFFICES ASSUME Init PROVE WInv
    OBVIOUS
  <2>1. Start(NumRead) = 0 /\ indexed = {}
    <3>1. batchSize \in Nat
      BY PipelineAssumption DEF Init
    <3> QED
      BY <3>1 DEF Init, NumRead, Start
  <2>2. LinesBefore(0) = {}
    BY PipelineAssumption DEF LinesBefore
  <2> QED
    BY <2>1, <2>2, PInit DEF WInv
<1>3. WInv /\ [Next]_vars => WInv'
  BY <1>1, WStep
<1>4. WInv => EveryLineIndexed
  <2> SUFFICES ASSUME WInv, s1pc = "done"
               PROVE  indexed = {<<2 * i, 2 * i + 1>> : i \in 0..NumLines - 1}
    BY DEF EveryLineIndexed
  <2>1. NumRead = NumBatches /\ indexed = LinesBefore(Start(NumBatches))
    BY DEF WInv, PInv, StageOneInv, NumRead
  <2>2. Start(NumBatches) \in Nat /\ Start(NumBatches) >= 2 * NumLines
    BY LastWindow DEF WInv, PInv, NumIds
  <2>3. \A i \in 0..NumLines - 1 : 2 * i < Start(NumBatches)
    BY <2>2, PipelineAssumption
  <2> QED
    BY <2>1, <2>3 DEF LinesBefore
<1> QED
  BY <1>2, <1>3, <1>4, PTL DEF Spec
=============================================================================
