-------------------------- MODULE GlobalIndexProofs --------------------------
(***************************************************************************)
(* Proofs about CaLiGIndex and GlobalIndex, for every query, data graph    *)
(* and stream.                                                             *)
(*                                                                         *)
(* First the tables of CaLiGIndex: types, the data graph and its           *)
(* transposed copy.  Then what the candidate filter computes, in whatever  *)
(* order the deleting tasks run: with a batch done, the pairs that are on  *)
(* are the largest set of pairs that support one another, and their lists  *)
(* name one another.  The invariant of that part says, of each pair that   *)
(* is off and of each list, which queue still has to look at it.           *)
(*                                                                         *)
(* Then the GPU index, which follows the CaLiG index, for every query with *)
(* at most one repeated label per vertex and at most TagSpan directed      *)
(* edges, and however far Stage 1 is ahead of Stage 2.  The deltas of a    *)
(* batch are recorded while its filter runs and staged when it is done.    *)
(* The invariant says, of each entry of a list, whether it is a row of the *)
(* batch before, a recorded insertion, or realised by an edge of the       *)
(* window, and that no row of the batch before is lost.                    *)
(***************************************************************************)
EXTENDS GlobalIndex, TLAPS, FiniteSetTheorems, SequenceTheorems

(* What the operators on lists and tasks return. *)
LEMMA CompatType == Compat \subseteq DV \X QV
BY DEF Compat

LEMMA TasksType ==
  ASSUME NEW pairs, pairs \subseteq Compat, NEW lists \in Lists,
         NEW t \in Tasks(pairs, lists)
  PROVE  /\ t \in Related
         /\ Owner(t) \in pairs
         /\ t[2] \in lists[t[1]][t[3]][t[4]]
<1>1. PICK p \in pairs : \E w \in QNei[p[2]] : t \in Entries(lists, p, w)
  BY DEF Tasks
<1>2. PICK w \in QNei[p[2]] : t \in Entries(lists, p, w)
  BY <1>1
<1>3. PICK x \in lists[p[1]][p[2]][w] : GLabel[x] = QLabel[w] /\ t = <<p[1], x, p[2], w>>
  BY <1>2 DEF Entries
<1>4. p \in DV \X QV /\ w \in QV
  BY QueryAssumption DEF Compat
<1>5. x \in DV
  BY <1>3, <1>4 DEF Lists
<1>6. p = <<p[1], p[2]>>
  BY <1>4
<1> QED
  BY <1>3, <1>4, <1>5, <1>6 DEF Related, Records, Owner, Partner, Compat

(* The entry x of the list for w of a pair that is listed is a task of it. *)
LEMMA TasksComplete ==
  ASSUME NEW pairs, NEW lists, NEW p \in pairs, NEW w \in QNei[p[2]],
         NEW x \in lists[p[1]][p[2]][w], GLabel[x] = QLabel[w]
  PROVE  <<p[1], x, p[2], w>> \in Tasks(pairs, lists)
BY DEF Tasks, Entries

LEMMA ExtendType ==
  ASSUME NEW lists \in Lists, NEW T
  PROVE  Extend(lists, T) \in Lists
BY DEF Extend, Lists

LEMMA MirrorType ==
  ASSUME NEW t \in Records
  PROVE  /\ Mirror(t) \in Records /\ Mirror(Mirror(t)) = t
         /\ Owner(t) \in DV \X QV /\ Partner(t) \in DV \X QV
         /\ Owner(Mirror(t)) = Partner(t) /\ Partner(Mirror(t)) = Owner(t)
BY DEF Records, Mirror, Owner, Partner

LEMMA MirrorRelated ==
  ASSUME NEW t \in Related
  PROVE  Mirror(t) \in Related
<1>1. t \in Records /\ t[3] \in QV /\ t[4] \in QV
  BY DEF Related, Records
<1>2. t[3] \in QNei[t[4]]
  BY <1>1, QueryAssumption DEF Related
<1> QED
  BY <1>1, <1>2, MirrorType DEF Related, Mirror

-----------------------------------------------------------------------------
(* Type correctness, one step per action. *)
LEMMA InitTypeOK == Init => TypeOK
<1> SUFFICES ASSUME Init PROVE TypeOK
  OBVIOUS
<1>1. cand \in Lists
  BY InputAssumption DEF Init, InitCand, Lists
<1> QED
  BY <1>1, InputAssumption DEF Init, TypeOK, Phases

LEMMA DelEraseTypeOK ==
  ASSUME TypeOK, NEW t \in tmp, DelErase(t)
  PROVE  TypeOK'
<1> DEFINE p == Partner(t)
           left == cand[p[1]][p[2]][t[3]] \ {t[1]}
<1>1. t \in Related /\ t \in Records /\ p \in Compat /\ p \in DV \X QV /\ t[3] \in QV
  BY DEF TypeOK, Related, Records, Compat
<1>2. cand' \in Lists
  <2>1. left \in SUBSET DV
    BY <1>1 DEF TypeOK, Lists
  <2>2. cand' = [cand EXCEPT ![p[1]][p[2]][t[3]] = left]
    BY DEF DelErase
  <2> QED
    BY <1>1, <2>1, <2>2 DEF TypeOK, Lists
<1>3. del' \subseteq Nat \X Records
  <2>1. \A r \in Present(cand, {Mirror(t)}) : <<0, r>> \in Nat \X Records
    <3>1. Mirror(t) \in Records
      BY <1>1, MirrorType
    <3> QED
      BY <3>1 DEF Present
  <2>2. del' = del \cup {<<0, r>> : r \in Present(cand, {Mirror(t)})}
    BY DEF DelErase
  <2> QED
    BY <2>1, <2>2 DEF TypeOK
<1>4. li' \subseteq Compat /\ delQ' \subseteq Compat /\ checked' \subseteq Compat
  BY <1>1 DEF DelErase, TypeOK
<1>5. chkDel' \subseteq LabelChecks
  BY <1>1 DEF DelErase, TypeOK, LabelChecks
<1>6. /\ UNCHANGED <<pc, nei, batch, nBatch, addQ, chk, addDel, activated, ins, upd>>
      /\ tmp' \subseteq tmp
  BY DEF DelErase
<1> QED
  BY <1>2, <1>3, <1>4, <1>5, <1>6 DEF TypeOK

LEMMA DelCheckTypeOK ==
  ASSUME TypeOK, NEW c \in chkDel, DelCheck(c)
  PROVE  TypeOK'
<1>1. c[1] \in Compat
  BY DEF TypeOK, LabelChecks
<1> QED
  BY <1>1 DEF DelCheck, TypeOK, deltas

LEMMA StartBatchTypeOK ==
  ASSUME TypeOK, NEW b \in Batches, StartBatch(b)
  PROVE  TypeOK'
<1>1. nei' \in [DV -> SUBSET DV]
  BY DEF StartBatch, Join, TypeOK
<1>2. batch' \in Seq(DV \X DV)
  BY InputAssumption DEF StartBatch
<1>3. nBatch' \in 0..MaxBatches
  BY InputAssumption DEF StartBatch, NewTasks, TypeOK
<1>4. tmp' \subseteq Related
  BY DEF StartBatch, NewTasks
<1> QED
  BY <1>1, <1>2, <1>3, <1>4 DEF StartBatch, NewTasks, TypeOK, Phases

LEMMA AddInsertTypeOK ==
  ASSUME TypeOK, AddInsert
  PROVE  TypeOK'
<1> DEFINE records == {Mirror(t) : t \in tmp}
<1>1. records \subseteq Records
  BY MirrorType DEF TypeOK, Related
<1>2. cand' \in Lists
  BY ExtendType DEF AddInsert, TypeOK
<1>3. ins' \subseteq Records
  BY <1>1 DEF AddInsert, Added, TypeOK
<1> QED
  BY <1>2, <1>3 DEF AddInsert, TypeOK, Phases

LEMMA UpdateEntriesType ==
  ASSUME TypeOK
  PROVE  UpdateEntries \subseteq Nat \X Records
<1>1. ASSUME NEW k PROVE Realised(k) \subseteq Records
  <2>1. \A t \in Tasks(li, cand) : t \in Records /\ Mirror(t) \in Records
    BY TasksType, MirrorType DEF TypeOK, Related
  <2> QED
    BY <2>1 DEF Realised, BothWays
<1>2. DOMAIN batch \subseteq Nat
  BY DEF TypeOK
<1> QED
  BY <1>1, <1>2 DEF UpdateEntries

LEMMA WorkTypeOK ==
  ASSUME TypeOK, Work
  PROVE  TypeOK'
<1>1. ASSUME TurnOff PROVE TypeOK'
  BY <1>1 DEF TurnOff, Failing, TypeOK, Phases, deltas
<1>2. ASSUME DelCollect PROVE TypeOK'
  BY <1>2, TasksType DEF DelCollect, ToErase, TypeOK, Phases, deltas
<1>3. ASSUME DelDone PROVE TypeOK'
  BY <1>3 DEF DelDone, TypeOK, Phases, queues, deltas
<1>4. ASSUME NEW t \in tmp, DelErase(t) PROVE TypeOK'
  BY <1>4, DelEraseTypeOK
<1>5. ASSUME DelEraseDone PROVE TypeOK'
  BY <1>5 DEF DelEraseDone, TypeOK, Phases, queues, deltas
<1>6. ASSUME NEW c \in chkDel, DelCheck(c) PROVE TypeOK'
  BY <1>6, DelCheckTypeOK
<1>7. ASSUME DelCheckDone PROVE TypeOK'
  BY <1>7 DEF DelCheckDone, TypeOK, Phases, queues, deltas
<1>8. ASSUME TurnOnInsert PROVE TypeOK'
  <2>1. {Owner(t) : t \in tmp} \subseteq Compat
    BY DEF TypeOK, Related
  <2>2. cand' \in Lists
    BY <1>8, ExtendType DEF TurnOnInsert, TypeOK
  <2> QED
    BY <1>8, <2>1, <2>2 DEF TurnOnInsert, TypeOK, Phases, deltas
<1>9. ASSUME TurnOnCheck PROVE TypeOK'
  BY <1>9 DEF TurnOnCheck, TypeOK, Phases, deltas
<1>10. ASSUME AddCollect PROVE TypeOK'
  <2>1. Tasks(addQ, cand) \subseteq Related
    BY TasksType DEF TypeOK
  <2>2. {Partner(t) : t \in Tasks(addQ, cand)} \subseteq Compat
    BY <2>1 DEF Related
  <2> QED
    BY <1>10, <2>1, <2>2 DEF AddCollect, ToCheck, TypeOK, Phases, deltas
<1>11. ASSUME AddDone PROVE TypeOK'
  BY <1>11 DEF AddDone, TypeOK, Phases, queues, deltas
<1>12. ASSUME AddInsert PROVE TypeOK'
  BY <1>12, AddInsertTypeOK
<1>13. ASSUME AddCheck PROVE TypeOK'
  BY <1>13 DEF AddCheck, TypeOK, Phases, deltas
<1>14. ASSUME AddCheckDelete PROVE TypeOK'
  BY <1>14 DEF AddCheckDelete, TypeOK, Phases, deltas
<1>15. ASSUME RecordActivated PROVE TypeOK'
  <2>1. Tasks(activated \cap li, cand) \subseteq Records
    BY TasksType DEF TypeOK, Related
  <2> QED
    BY <1>15, <2>1 DEF RecordActivated, TypeOK, Phases, queues
<1>16. ASSUME ConstructUpdate PROVE TypeOK'
  BY <1>16, UpdateEntriesType DEF ConstructUpdate, TypeOK, Phases, queues
<1> QED
  BY <1>1, <1>2, <1>3, <1>4, <1>5, <1>6, <1>7, <1>8, <1>9, <1>10, <1>11, <1>12,
     <1>13, <1>14, <1>15, <1>16 DEF Work

LEMMA TypeStep == TypeOK /\ [Next]_vars => TypeOK'
<1> SUFFICES ASSUME TypeOK, [Next]_vars PROVE TypeOK'
  OBVIOUS
<1>1. CASE UNCHANGED vars
  BY <1>1 DEF TypeOK, vars, queues, deltas
<1> QED
  BY <1>1, WorkTypeOK, StartBatchTypeOK DEF Next

(* Every reachable state has the types that the comments on the variables  *)
(* state: in particular a task always names two compatible pairs whose     *)
(* query vertices are adjacent, whatever the interleaving that queued it.  *)
THEOREM TypeCorrect == Spec => []TypeOK
BY InitTypeOK, TypeStep, PTL DEF Spec

-----------------------------------------------------------------------------
(* How the two operations on lists change an entry. *)
LEMMA EraseEntry ==
  ASSUME TypeOK, NEW t \in tmp, DelErase(t), NEW v \in DV, NEW u \in QV, NEW w \in QV
  PROVE  cand'[v][u][w] = IF <<v, u>> = Partner(t) /\ w = t[3]
                          THEN cand[v][u][w] \ {t[1]} ELSE cand[v][u][w]
<1> DEFINE p == Partner(t)
           left == cand[p[1]][p[2]][t[3]] \ {t[1]}
<1>1. p \in DV \X QV /\ p[1] \in DV /\ p[2] \in QV /\ t[3] \in QV
  BY MirrorType DEF TypeOK, Related, Records
<1>2. cand' = [cand EXCEPT ![p[1]][p[2]][t[3]] = left]
  BY DEF DelErase
<1>3. cand \in [DV -> [QV -> [QV -> SUBSET DV]]]
  BY DEF TypeOK, Lists
<1>4. <<v, u>> = p <=> v = p[1] /\ u = p[2]
  BY <1>1
<1> QED
  BY <1>1, <1>2, <1>3, <1>4

Erased(t) ==
  \A v \in DV : \A u, w \in QV :
    cand'[v][u][w] = IF <<v, u>> = Partner(t) /\ w = t[3]
                     THEN cand[v][u][w] \ {t[1]} ELSE cand[v][u][w]

LEMMA EraseEntries ==
  ASSUME TypeOK, NEW t \in tmp, DelErase(t)
  PROVE  Erased(t)
BY EraseEntry DEF Erased

LEMMA ExtendEntry ==
  ASSUME NEW lists, NEW T, NEW v \in DV, NEW u \in QV, NEW w \in QV
  PROVE  Extend(lists, T)[v][u][w] = lists[v][u][w] \cup {x \in DV : <<v, x, u, w>> \in T}
BY DEF Extend

(* The lists stay within the graph.  An activated pair joins the list of   *)
(* its partner, so the graph must be symmetric and tasks must run along    *)
(* edges of it.                                                            *)
Symmetric == \A v, x \in DV : x \in nei[v] <=> v \in nei[x]

TasksOnEdges == \A t \in tmp : t[2] \in nei[t[1]]

Entered == \A v \in DV, u, w \in QV : \A x \in cand[v][u][w] : <<v, x, u, w>> \in Related

OnEdges == \A v \in DV, u, w \in QV : \A x \in cand[v][u][w] : x \in nei[v]

GraphInv == TypeOK /\ Symmetric /\ TasksOnEdges /\ Entered /\ OnEdges

LEMMA InitGraphInv == Init => GraphInv
<1> SUFFICES ASSUME Init PROVE GraphInv
  OBVIOUS
<1>1. \A v \in DV, u, w \in QV : \A x \in cand[v][u][w] :
         x \in DV /\ x \in nei[v] /\ <<v, u>> \in Compat /\ w \in QNei[u] /\ GLabel[x] = QLabel[w]
  BY InputAssumption DEF Init, InitCand
<1>2. Entered
  <2> SUFFICES ASSUME NEW v \in DV, NEW u \in QV, NEW w \in QV, NEW x \in cand[v][u][w]
               PROVE  <<v, x, u, w>> \in Related
    BY DEF Entered
  <2> QED
    BY <1>1 DEF Related, Records, Owner, Partner, Compat
<1>3. OnEdges
  BY <1>1 DEF OnEdges
<1>4. Symmetric
  BY InputAssumption DEF Init, Symmetric
<1>5. TasksOnEdges
  BY DEF Init, TasksOnEdges
<1> QED
  BY <1>2, <1>3, <1>4, <1>5, InitTypeOK DEF GraphInv

(* Inserting related tasks along edges keeps the lists within the graph. *)
LEMMA ExtendGraph ==
  ASSUME GraphInv, NEW T, T \subseteq Related, \A t \in T : t[2] \in nei[t[1]],
         cand' = Extend(cand, T), UNCHANGED nei
  PROVE  Entered' /\ OnEdges'
<1> SUFFICES ASSUME NEW v \in DV, NEW u \in QV, NEW w \in QV, NEW x \in cand'[v][u][w]
             PROVE  <<v, x, u, w>> \in Related /\ x \in nei[v]
  BY DEF Entered, OnEdges
<1>1. x \in cand[v][u][w] \/ <<v, x, u, w>> \in T
  BY ExtendEntry
<1> QED
  BY <1>1 DEF GraphInv, Entered, OnEdges

(* A task that a list names is related and runs along an edge. *)
LEMMA TasksGraph ==
  ASSUME GraphInv, NEW pairs, pairs \subseteq Compat, NEW t \in Tasks(pairs, cand)
  PROVE  t \in Related /\ t[2] \in nei[t[1]]
<1>1. t \in Related /\ t[2] \in cand[t[1]][t[3]][t[4]]
  BY TasksType DEF GraphInv, TypeOK
<1>2. t[1] \in DV /\ t[3] \in QV /\ t[4] \in QV
  BY <1>1 DEF Related, Records
<1> QED
  BY <1>1, <1>2 DEF GraphInv, OnEdges

LEMMA GraphStep == GraphInv /\ [Next]_vars => GraphInv'
<1> SUFFICES ASSUME GraphInv, [Next]_vars PROVE GraphInv'
  OBVIOUS
<1>t. TypeOK'
  BY TypeStep DEF GraphInv
<1> SUFFICES Symmetric' /\ TasksOnEdges' /\ Entered' /\ OnEdges'
  BY <1>t DEF GraphInv
<1> USE DEF GraphInv
<1>1. CASE UNCHANGED <<nei, cand, tmp>>
  BY <1>1 DEF Symmetric, TasksOnEdges, Entered, OnEdges
<1>2. CASE DelCollect
  <2>1. \A t \in tmp' : t[2] \in nei[t[1]]
    BY <1>2, TasksGraph DEF DelCollect, ToErase, TypeOK
  <2> QED
    BY <1>2, <2>1 DEF DelCollect, ToErase, Symmetric, TasksOnEdges, Entered, OnEdges
<1>3. ASSUME NEW t \in tmp, DelErase(t)
      PROVE  Symmetric' /\ TasksOnEdges' /\ Entered' /\ OnEdges'
  <2>1. ASSUME NEW v \in DV, NEW u \in QV, NEW w \in QV
        PROVE  cand'[v][u][w] \subseteq cand[v][u][w]
    <3>1. cand'[v][u][w] = IF <<v, u>> = Partner(t) /\ w = t[3]
                           THEN cand[v][u][w] \ {t[1]} ELSE cand[v][u][w]
      BY <1>3, EraseEntry
    <3> QED
      BY <3>1
  <2>2. UNCHANGED nei /\ tmp' \subseteq tmp
    BY <1>3 DEF DelErase
  <2> QED
    BY <2>1, <2>2 DEF Symmetric, TasksOnEdges, Entered, OnEdges
<1>4. ASSUME NEW b \in Batches, StartBatch(b)
      PROVE  Symmetric' /\ TasksOnEdges' /\ Entered' /\ OnEdges'
  <2> DEFINE edges == Directed(Fresh(b))
  <2>1. /\ nei' = Join(nei, edges)
        /\ tmp' = {t \in Related : <<t[1], t[2]>> \in edges}
        /\ UNCHANGED cand
    BY <1>4 DEF StartBatch, NewTasks
  <2>2. edges \subseteq DV \X DV /\ \A v, x : <<v, x>> \in edges <=> <<x, v>> \in edges
    <3>1. \A e \in Fresh(b) : e \in DV \X DV
      BY InputAssumption DEF Fresh
    <3> QED
      BY <3>1 DEF Directed
  <2> HIDE DEF edges
  <2>3. \A v, x \in DV : x \in nei'[v] <=> x \in nei[v] \/ <<v, x>> \in edges
    BY <2>1 DEF Join
  <2>4. Symmetric'
    BY <2>2, <2>3 DEF Symmetric
  <2>5. TasksOnEdges'
    BY <2>1, <2>3 DEF TasksOnEdges, Related, Records
  <2>6. Entered' /\ OnEdges'
    <3>1. Entered'
      BY <2>1 DEF Entered
    <3>2. \A v \in DV : nei[v] \subseteq nei'[v]
      BY <2>1 DEF Join
    <3> QED
      BY <2>1, <3>1, <3>2 DEF OnEdges
  <2> QED
    BY <2>4, <2>5, <2>6
<1>5. CASE TurnOnInsert
  <2>1. UNCHANGED nei /\ cand' = Extend(cand, tmp) /\ tmp' = {}
    BY <1>5 DEF TurnOnInsert
  <2>2. Entered' /\ OnEdges'
    BY <2>1, ExtendGraph DEF TypeOK, TasksOnEdges
  <2> QED
    BY <2>1, <2>2 DEF Symmetric, TasksOnEdges
<1>6. CASE AddCollect
  <2>1. \A t \in tmp' : t[2] \in nei[t[1]]
    BY <1>6, TasksGraph DEF AddCollect, ToCheck, TypeOK
  <2> QED
    BY <1>6, <2>1 DEF AddCollect, Symmetric, TasksOnEdges, Entered, OnEdges
<1>7. CASE AddInsert
  <2> DEFINE records == {Mirror(t) : t \in tmp}
  <2>1. UNCHANGED nei /\ cand' = Extend(cand, records) /\ tmp' = {}
    BY <1>7 DEF AddInsert
  <2>2. \A t \in tmp : Mirror(t) \in Related /\ Mirror(t)[2] \in nei[Mirror(t)[1]]
    <3> SUFFICES ASSUME NEW t \in tmp
                 PROVE  Mirror(t) \in Related /\ Mirror(t)[2] \in nei[Mirror(t)[1]]
      OBVIOUS
    <3>1. t \in Related /\ t[1] \in DV /\ t[2] \in DV /\ t[2] \in nei[t[1]]
      BY DEF TypeOK, Related, Records, TasksOnEdges
    <3> QED
      BY <3>1, MirrorRelated DEF Mirror, Symmetric
  <2>3. Entered' /\ OnEdges'
    BY <2>1, <2>2, ExtendGraph
  <2> QED
    BY <2>1, <2>3 DEF Symmetric, TasksOnEdges
<1>8. CASE TurnOff \/ DelDone \/ DelEraseDone \/ DelCheckDone \/ TurnOnCheck
  BY <1>8, <1>1 DEF TurnOff, Failing, DelDone, DelEraseDone, DelCheckDone, TurnOnCheck, queues
<1>9. CASE AddDone \/ AddCheck \/ AddCheckDelete \/ RecordActivated \/ ConstructUpdate
  BY <1>9, <1>1 DEF AddDone, AddCheck, AddCheckDelete, RecordActivated, ConstructUpdate,
                    queues
<1>10. ASSUME NEW c \in chkDel, DelCheck(c)
       PROVE  Symmetric' /\ TasksOnEdges' /\ Entered' /\ OnEdges'
  BY <1>10, <1>1 DEF DelCheck
<1>11. CASE UNCHANGED vars
  BY <1>11, <1>1 DEF vars, queues
<1> QED
  BY <1>2, <1>3, <1>4, <1>5, <1>6, <1>7, <1>8, <1>9, <1>10, <1>11 DEF Next, Work

(* No list ever names a vertex that is not, in the graph as it is then, a  *)
(* neighbour that may stand for the query neighbour.                       *)
THEOREM ListsWithinGraph == Spec => []ListsInGraph
<1>1. GraphInv => ListsInGraph
  <2> SUFFICES ASSUME GraphInv, NEW v \in DV, NEW u \in QV, NEW w \in QV,
                      NEW x \in cand[v][u][w]
               PROVE  x \in nei[v] /\ w \in QNei[u] /\ <<v, u>> \in Compat /\ <<x, w>> \in Compat
    BY DEF ListsInGraph
  <2> QED
    BY DEF GraphInv, Entered, OnEdges, Related, Owner, Partner
<1> QED
  BY <1>1, InitGraphInv, GraphStep, PTL DEF Spec

-----------------------------------------------------------------------------
(* No edge is forgotten.  Only DelErase takes an entry out, of the list of *)
(* a partner; its task was read from the list of the owner.  That entry    *)
(* stays unless the mirrored task is pending as well, which it is not:     *)
(* the owner is off, the partner was on when the tasks were collected.     *)
OffIsQueued == delQ \cap li = {}

QueueDrained == pc \notin {"delCollect", "delErase", "delCheck"} => delQ = {}

OneSided ==
  pc = "delErase" => \A t \in tmp : t[2] \in cand[t[1]][t[3]][t[4]] /\ Mirror(t) \notin tmp

Known(t) == t[2] \in cand[t[1]][t[3]][t[4]] \/ (pc = "insert" /\ t \in tmp)

AllKnown ==
  \A t \in Related : t[2] \in nei[t[1]] => Known(t) \/ Known(Mirror(t))

EdgeInv == GraphInv /\ OffIsQueued /\ QueueDrained /\ OneSided /\ AllKnown

LEMMA InitEdgeInv == Init => EdgeInv
<1> SUFFICES ASSUME Init PROVE EdgeInv
  OBVIOUS
<1>1. GraphInv
  BY InitGraphInv
<1>2. AllKnown
  <2> SUFFICES ASSUME NEW t \in Related, t[2] \in nei[t[1]] PROVE Known(t)
    BY DEF AllKnown
  <2>1. t[1] \in DV /\ t[2] \in DV /\ t[3] \in QV /\ t[4] \in QV
    BY DEF Related, Records
  <2>2. <<t[1], t[3]>> \in Compat /\ t[4] \in QNei[t[3]] /\ GLabel[t[2]] = QLabel[t[4]]
    BY DEF Related, Owner, Partner, Compat
  <2>3. t[2] \in InitCand[t[1]][t[3]][t[4]]
    BY <2>1, <2>2 DEF Init, InitCand
  <2> QED
    BY <2>3 DEF Init, Known
<1> QED
  BY <1>1, <1>2 DEF Init, EdgeInv, OffIsQueued, QueueDrained, OneSided

(* The queue of the pairs to delete, action by action. *)
LEMMA QueueStep ==
  ASSUME EdgeInv, [Next]_vars
  PROVE  OffIsQueued' /\ QueueDrained'
<1> USE DEF EdgeInv, OffIsQueued, QueueDrained
<1>1. CASE UNCHANGED <<pc, delQ, li>>
  BY <1>1
<1>2. CASE TurnOff
  BY <1>2 DEF TurnOff, Failing
<1>3. CASE DelCollect
  BY <1>3 DEF DelCollect, ToErase
<1>4. CASE DelDone
  BY <1>4 DEF DelDone, queues
<1>5. ASSUME NEW t \in tmp, DelErase(t) PROVE OffIsQueued' /\ QueueDrained'
  <2>1. pc' = "delErase" /\ (UNCHANGED <<li, delQ>> \/ \E p : li' = li \ {p} /\ delQ' = delQ \cup {p})
    BY <1>5 DEF DelErase
  <2> QED
    BY <2>1
<1>6. CASE DelEraseDone \/ DelCheckDone
  BY <1>6 DEF DelEraseDone, DelCheckDone, queues
<1>7. ASSUME NEW c \in chkDel, DelCheck(c) PROVE OffIsQueued' /\ QueueDrained'
  BY <1>7 DEF DelCheck
<1>8. ASSUME NEW b \in Batches, StartBatch(b) PROVE OffIsQueued' /\ QueueDrained'
  BY <1>8 DEF StartBatch
<1>9. CASE TurnOnInsert \/ TurnOnCheck
  BY <1>9 DEF TurnOnInsert, TurnOnCheck
<1>10. CASE AddCollect \/ AddInsert \/ AddCheck
  BY <1>10 DEF AddCollect, AddInsert, AddCheck
<1>11. CASE AddDone
  BY <1>11 DEF AddDone, queues
<1>12. CASE AddCheckDelete
  BY <1>12 DEF AddCheckDelete
<1>13. CASE RecordActivated \/ ConstructUpdate
  BY <1>13 DEF RecordActivated, ConstructUpdate, queues
<1>14. CASE UNCHANGED vars
  BY <1>14, <1>1 DEF vars, queues
<1> QED
  BY <1>2, <1>3, <1>4, <1>5, <1>6, <1>7, <1>8, <1>9, <1>10, <1>11, <1>12, <1>13, <1>14
  DEF Next, Work

(* The entry that an erasing task takes out, seen from any task r: it is   *)
(* the one that the mirror of r names exactly when r is the erasing task.  *)
LEMMA EraseOther ==
  ASSUME TypeOK, NEW t \in tmp, DelErase(t), NEW r \in Related,
         r[2] \in cand[r[1]][r[3]][r[4]], r # Mirror(t)
  PROVE  r[2] \in cand'[r[1]][r[3]][r[4]]
<1>1. r \in Records /\ r[1] \in DV /\ r[3] \in QV /\ r[4] \in QV
  BY DEF Related, Records
<1>2. cand'[r[1]][r[3]][r[4]] = IF <<r[1], r[3]>> = Partner(t) /\ r[4] = t[3]
                               THEN cand[r[1]][r[3]][r[4]] \ {t[1]}
                               ELSE cand[r[1]][r[3]][r[4]]
  BY <1>1, EraseEntry
<1>3. ~(r[1] = t[2] /\ r[2] = t[1] /\ r[3] = t[4] /\ r[4] = t[3])
  BY <1>1 DEF Mirror, Records
<1> QED
  BY <1>2, <1>3 DEF Partner

(* An entry that is known stays known while the lists only grow. *)
LEMMA GrowKnown ==
  ASSUME GraphInv, NEW T, cand' = Extend(cand, T), NEW r \in Related
  PROVE  /\ r[2] \in cand[r[1]][r[3]][r[4]] => r[2] \in cand'[r[1]][r[3]][r[4]]
         /\ r \in T => r[2] \in cand'[r[1]][r[3]][r[4]]
<1>1. r[1] \in DV /\ r[2] \in DV /\ r[3] \in QV /\ r[4] \in QV
  BY DEF Related, Records
<1>2. r = <<r[1], r[2], r[3], r[4]>>
  BY DEF Related, Records
<1>3. cand'[r[1]][r[3]][r[4]]
        = cand[r[1]][r[3]][r[4]] \cup {x \in DV : <<r[1], x, r[3], r[4]>> \in T}
  BY <1>1, ExtendEntry
<1> QED
  BY <1>1, <1>2, <1>3

LEMMA EdgeStep == EdgeInv /\ [Next]_vars => EdgeInv'
<1> SUFFICES ASSUME EdgeInv, [Next]_vars PROVE EdgeInv'
  OBVIOUS
<1>g. GraphInv' /\ OffIsQueued' /\ QueueDrained'
  BY GraphStep, QueueStep DEF EdgeInv
<1> SUFFICES OneSided' /\ AllKnown'
  BY <1>g DEF EdgeInv
<1>h. GraphInv /\ OneSided /\ AllKnown /\ TypeOK
  BY DEF EdgeInv, GraphInv
<1>1. ASSUME UNCHANGED <<nei, cand>>, pc # "insert", pc' # "insert", pc' # "delErase"
      PROVE  OneSided' /\ AllKnown'
  BY <1>1, <1>h DEF OneSided, AllKnown, Known, Mirror
<1>2. CASE DelCollect
  <2>1. /\ pc = "delCollect" /\ pc' = "delErase" /\ UNCHANGED <<nei, cand>>
        /\ tmp' = {t \in Tasks(delQ, cand) : Partner(t) \in li}
    BY <1>2 DEF DelCollect, ToErase
  <2>2. \A t \in tmp' : /\ t \in Related /\ Owner(t) \in delQ /\ Partner(t) \in li
                        /\ t[2] \in cand[t[1]][t[3]][t[4]]
    BY <2>1, <1>h, TasksType DEF TypeOK
  <2>3. ASSUME NEW t \in tmp' PROVE Mirror(t) \notin tmp'
    <3>1. Owner(t) \notin li
      BY <2>2 DEF EdgeInv, OffIsQueued
    <3>2. Partner(Mirror(t)) = Owner(t)
      BY <2>2, MirrorType DEF Related
    <3> QED
      BY <2>2, <3>1, <3>2
  <2>4. OneSided'
    BY <2>1, <2>2, <2>3 DEF OneSided
  <2>5. AllKnown'
    BY <2>1, <1>h DEF AllKnown, Known, Mirror
  <2> QED
    BY <2>4, <2>5
<1>3. ASSUME NEW t \in tmp, DelErase(t) PROVE OneSided' /\ AllKnown'
  <2>1. pc = "delErase" /\ pc' = "delErase" /\ tmp' = tmp \ {t} /\ UNCHANGED nei
    BY <1>3 DEF DelErase
  <2>2. t \in Related /\ Mirror(t) \in Related /\ Mirror(Mirror(t)) = t
    BY <1>h, MirrorRelated, MirrorType DEF TypeOK, Related
  <2>3. OneSided'
    <3> SUFFICES ASSUME NEW r \in tmp'
                 PROVE  r[2] \in cand'[r[1]][r[3]][r[4]] /\ Mirror(r) \notin tmp'
      BY DEF OneSided
    <3>1. r \in tmp /\ r \in Related /\ r[2] \in cand[r[1]][r[3]][r[4]] /\ Mirror(r) \notin tmp
      BY <2>1, <1>h DEF OneSided, TypeOK
    <3>2. r # Mirror(t)
      BY <2>1, <3>1, <1>h DEF OneSided
    <3> QED
      BY <2>1, <3>1, <3>2, <1>h, <1>3, EraseOther
  <2>4. AllKnown'
    <3> SUFFICES ASSUME NEW r \in Related, r[2] \in nei[r[1]]
                 PROVE  Known(r)' \/ Known(Mirror(r))'
      BY <2>1 DEF AllKnown, Mirror
    <3>1. Mirror(r) \in Related /\ Mirror(Mirror(r)) = r
      BY MirrorRelated, MirrorType DEF Related
    <3>2. \A s \in Related : Known(s) /\ s # Mirror(t) => Known(s)'
      BY <2>1, <1>h, <1>3, EraseOther DEF Known
    <3>3. Known(t)
      BY <2>1, <1>h DEF OneSided, Known
    <3>4. t # Mirror(t)
      BY <2>1, <1>h DEF OneSided
    <3>5. Known(t)'
      BY <2>2, <3>2, <3>3, <3>4
    <3>6. CASE r = t \/ Mirror(r) = t
      BY <3>5, <3>6
    <3>7. CASE r # t /\ Mirror(r) # t
      <4>1. r # Mirror(t) /\ Mirror(r) # Mirror(t)
        BY <2>2, <3>1, <3>7
      <4>2. Known(r) \/ Known(Mirror(r))
        BY <1>h DEF AllKnown
      <4> QED
        BY <3>1, <3>2, <4>1, <4>2
    <3> QED
      BY <3>6, <3>7
  <2> QED
    BY <2>3, <2>4
<1>4. ASSUME NEW b \in Batches, StartBatch(b) PROVE OneSided' /\ AllKnown'
  <2> DEFINE edges == Directed(Fresh(b))
  <2>1. /\ pc = "rest" /\ pc' = "insert" /\ UNCHANGED cand
        /\ nei' = Join(nei, edges)
        /\ tmp' = {t \in Related : <<t[1], t[2]>> \in edges}
    BY <1>4 DEF StartBatch, NewTasks
  <2> HIDE DEF edges
  <2>2. ASSUME NEW r \in Related, r[2] \in nei'[r[1]] PROVE Known(r)' \/ Known(Mirror(r))'
    <3>1. r[1] \in DV /\ r[2] \in DV
      BY DEF Related, Records
    <3>2. r[2] \in nei[r[1]] \/ <<r[1], r[2]>> \in edges
      BY <2>1, <2>2, <3>1 DEF Join
    <3>3. CASE r[2] \in nei[r[1]]
      BY <2>1, <3>3, <1>h DEF AllKnown, Known, Mirror
    <3>4. CASE <<r[1], r[2]>> \in edges
      BY <2>1, <3>4 DEF Known
    <3> QED
      BY <3>2, <3>3, <3>4
  <2>3. OneSided'
    BY <2>1 DEF OneSided
  <2> QED
    BY <2>2, <2>3 DEF AllKnown
<1>5. CASE TurnOnInsert
  <2>1. pc = "insert" /\ pc' = "check" /\ cand' = Extend(cand, tmp) /\ UNCHANGED nei
    BY <1>5 DEF TurnOnInsert
  <2>2. \A r \in Related : Known(r) => Known(r)'
    BY <2>1, <1>h, GrowKnown DEF Known
  <2> QED
    BY <2>1, <2>2, <1>h, MirrorRelated DEF OneSided, AllKnown
<1>6. CASE AddInsert
  <2>1. /\ pc = "addInsert" /\ pc' = "addCheck" /\ UNCHANGED nei
        /\ cand' = Extend(cand, {Mirror(t) : t \in tmp})
    BY <1>6 DEF AddInsert
  <2>2. \A r \in Related : Known(r) => Known(r)'
    BY <2>1, <1>h, GrowKnown DEF Known
  <2> QED
    BY <2>1, <2>2, <1>h, MirrorRelated DEF OneSided, AllKnown
<1>7. CASE TurnOff \/ DelDone \/ DelEraseDone \/ DelCheckDone \/ TurnOnCheck
  BY <1>7, <1>1 DEF TurnOff, Failing, DelDone, DelEraseDone, DelCheckDone, TurnOnCheck
<1>8. CASE AddCollect \/ AddDone \/ AddCheck \/ AddCheckDelete \/ RecordActivated
           \/ ConstructUpdate
  BY <1>8, <1>1 DEF AddCollect, AddDone, AddCheck, AddCheckDelete, RecordActivated,
                    ConstructUpdate
<1>9. ASSUME NEW c \in chkDel, DelCheck(c) PROVE OneSided' /\ AllKnown'
  BY <1>9, <1>1 DEF DelCheck
<1>10. CASE UNCHANGED vars
  <2>1. UNCHANGED <<pc, nei, cand, tmp>>
    BY <1>10 DEF vars, queues
  <2> QED
    BY <2>1, <1>h DEF OneSided, AllKnown, Known, Mirror
<1> QED
  BY <1>2, <1>3, <1>4, <1>5, <1>6, <1>7, <1>8, <1>9, <1>10 DEF Next, Work

(* Of two adjacent compatible pairs at least one keeps the other, whatever *)
(* the order in which the workers erase: the candidate index can always    *)
(* find an edge of the graph again when one of its ends is activated.      *)
THEOREM EdgesRemembered == Spec => []NoEdgeForgotten
<1>1. EdgeInv => NoEdgeForgotten
  <2> SUFFICES ASSUME EdgeInv, pc # "insert", NEW p \in Compat, NEW q \in Compat,
                      q[1] \in nei[p[1]], q[2] \in QNei[p[2]]
               PROVE  q[1] \in cand[p[1]][p[2]][q[2]] \/ p[1] \in cand[q[1]][q[2]][p[2]]
    BY DEF NoEdgeForgotten
  <2> DEFINE t == <<p[1], q[1], p[2], q[2]>>
  <2>1. t \in Related
    BY DEF Related, Records, Owner, Partner, Compat
  <2>2. Known(t) \/ Known(Mirror(t))
    BY <2>1 DEF EdgeInv, AllKnown
  <2> QED
    BY <2>2 DEF Known, Mirror
<1> QED
  BY <1>1, InitEdgeInv, EdgeStep, PTL DEF Spec

-----------------------------------------------------------------------------
(* The local test sees only the lists of its pair, and longer lists pass   *)
(* whatever shorter ones pass.                                             *)
LEMMA TryNeiMonotone ==
  ASSUME NEW A, NEW B, NEW p, NEW group,
         \A w \in group : A[p[1]][p[2]][w] \subseteq B[p[1]][p[2]][w],
         TryNei(A, p, group)
  PROVE  TryNei(B, p, group)
<1>1. PICK pick \in [group -> UNION {A[p[1]][p[2]][w] : w \in group}] :
        /\ \A w \in group : pick[w] \in A[p[1]][p[2]][w]
        /\ \A w, y \in group : w # y => pick[w] # pick[y]
  BY DEF TryNei
<1>2. \A w \in group : pick[w] \in B[p[1]][p[2]][w]
  BY <1>1
<1>3. pick \in [group -> UNION {B[p[1]][p[2]][w] : w \in group}]
  BY <1>1, <1>2
<1> QED
  BY <1>1, <1>2, <1>3 DEF TryNei

LEMMA CheckNeiMonotone ==
  ASSUME NEW A, NEW B, NEW p,
         \A w \in QNei[p[2]] : A[p[1]][p[2]][w] \subseteq B[p[1]][p[2]][w],
         CheckNei(A, p)
  PROVE  CheckNei(B, p)
<1>1. \A w \in QNei[p[2]] : B[p[1]][p[2]][w] # {}
  BY DEF CheckNei
<1>2. ASSUME NEW lb \in RepLabels(p[2]) PROVE TryNei(B, p, Group(p[2], lb))
  <2>1. Group(p[2], lb) \subseteq QNei[p[2]]
    BY DEF Group
  <2> QED
    BY <2>1, TryNeiMonotone DEF CheckNei
<1> QED
  BY <1>1, <1>2 DEF CheckNei

-----------------------------------------------------------------------------
(* A task or record, as a claim about a list: is the entry there, and does *)
(* it run along an edge?                                                   *)
Listed(r) == r[2] \in cand[r[1]][r[3]][r[4]]

Along(r) == r[2] \in nei[r[1]]

Between(p, q) == <<p[1], q[1], p[2], q[2]>>

LEMMA BetweenEnds ==
  ASSUME NEW p \in Compat, NEW q \in Compat
  PROVE  /\ Owner(Between(p, q)) = p /\ Partner(Between(p, q)) = q
         /\ Mirror(Between(p, q)) = Between(q, p)
BY DEF Compat, Between, Owner, Partner, Mirror

LEMMA RelatedEnds ==
  ASSUME NEW r \in Related
  PROVE  /\ r = <<r[1], r[2], r[3], r[4]>>
         /\ r[1] \in DV /\ r[2] \in DV /\ r[3] \in QV /\ r[4] \in QV
         /\ Owner(r) \in Compat /\ Partner(r) \in Compat
         /\ Owner(r) = <<r[1], r[3]>> /\ Partner(r) = <<r[2], r[4]>>
         /\ r[4] \in QNei[r[3]] /\ GLabel[r[2]] = QLabel[r[4]]
         /\ r = Between(Owner(r), Partner(r))
         /\ Mirror(r) \in Related /\ Mirror(Mirror(r)) = r
         /\ Owner(Mirror(r)) = Partner(r) /\ Partner(Mirror(r)) = Owner(r)
<1>1. r \in Records
  BY DEF Related
<1>2. GLabel[r[2]] = QLabel[r[4]]
  BY DEF Related, Partner, Compat
<1> QED
  BY <1>1, <1>2, MirrorType, MirrorRelated DEF Related, Records, Owner, Partner, Between

(* The entries of listed pairs are their tasks. *)
LEMMA ListedTask ==
  ASSUME NEW r \in Related, NEW pairs, Owner(r) \in pairs, Listed(r)
  PROVE  r \in Tasks(pairs, cand)
<1> DEFINE p == Owner(r)
<1>1. p[1] = r[1] /\ p[2] = r[3]
  BY RelatedEnds
<1>2. r[4] \in QNei[p[2]] /\ r[2] \in cand[p[1]][p[2]][r[4]]
  BY <1>1, RelatedEnds DEF Listed
<1>3. <<p[1], r[2], p[2], r[4]>> \in Tasks(pairs, cand)
  BY <1>2, RelatedEnds, TasksComplete
<1> QED
  BY <1>1, <1>3, RelatedEnds

-----------------------------------------------------------------------------
(* Which queue may hold something in which phase, and what the ends of a   *)
(* pending task have been found to be.                                     *)
Drained ==
  /\ pc \notin {"check", "addInsert", "addCheck"} => chk = {}
  /\ pc \notin {"check", "addCollect"} => addQ = {}
  /\ pc \notin {"insert", "addInsert", "delErase"} => tmp = {}
  /\ pc \notin {"addCollect", "addInsert", "addCheck", "addDelete"} => addDel = {}
  /\ pc \notin {"delErase", "delCheck"} => chkDel = {}

AddQOn == addQ \subseteq li

OwnersOn == pc = "addInsert" => \A t \in tmp : Owner(t) \in li

PartnersQueued ==
  pc = "addInsert" => \A t \in tmp : Partner(t) \in li \/ Partner(t) \in chk \ checked

OwnersOff == pc = "delErase" => \A t \in tmp : Owner(t) \notin li

ChecksRepeated == \A c \in chkDel : c[2] \in RepLabels(c[1][2])

QueueInv ==
  Drained /\ AddQOn /\ OwnersOn /\ PartnersQueued /\ OwnersOff /\ ChecksRepeated

LEMMA QueueInvStep ==
  ASSUME EdgeInv, QueueInv, [Next]_vars
  PROVE  QueueInv'
<1> USE DEF QueueInv, Drained, AddQOn, OwnersOn, PartnersQueued, OwnersOff, ChecksRepeated
<1>1. CASE TurnOff
  BY <1>1 DEF TurnOff
<1>2. CASE DelCollect
  <2>1. \A t \in Tasks(delQ, cand) : Owner(t) \in delQ
    BY TasksType DEF EdgeInv, GraphInv, TypeOK
  <2> QED
    BY <1>2, <2>1 DEF DelCollect, ToErase, EdgeInv, OffIsQueued
<1>3. CASE DelDone
  BY <1>3 DEF DelDone, queues
<1>4. ASSUME NEW t \in tmp, DelErase(t) PROVE QueueInv'
  <2> DEFINE p == Partner(t)
  <2>1. /\ pc = "delErase" /\ pc' = "delErase" /\ tmp' \subseteq tmp /\ li' \subseteq li
        /\ UNCHANGED <<addQ, chk, addDel>>
    BY <1>4 DEF DelErase
  <2>2. chkDel' = chkDel \/ (chkDel' = chkDel \cup {<<p, QLabel[t[3]]>>}
                            /\ QLabel[t[3]] \in RepLabels(p[2]))
    BY <1>4 DEF DelErase
  <2> QED
    BY <2>1, <2>2
<1>5. CASE DelEraseDone
  BY <1>5 DEF DelEraseDone, queues
<1>6. ASSUME NEW c \in chkDel, DelCheck(c) PROVE QueueInv'
  BY <1>6 DEF DelCheck
<1>7. CASE DelCheckDone
  BY <1>7 DEF DelCheckDone, queues
<1>8. ASSUME NEW b \in Batches, StartBatch(b) PROVE QueueInv'
  BY <1>8 DEF StartBatch
<1>9. CASE TurnOnInsert
  BY <1>9 DEF TurnOnInsert
<1>10. CASE TurnOnCheck
  BY <1>10 DEF TurnOnCheck
<1>11. CASE AddCollect
  <2>1. \A t \in Tasks(addQ, cand) : Owner(t) \in addQ
    BY TasksType DEF EdgeInv, GraphInv, TypeOK
  <2> QED
    BY <1>11, <2>1 DEF AddCollect, ToCheck
<1>12. CASE AddDone
  BY <1>12 DEF AddDone, queues
<1>13. CASE AddInsert
  BY <1>13 DEF AddInsert
<1>14. CASE AddCheck
  BY <1>14 DEF AddCheck
<1>15. CASE AddCheckDelete
  BY <1>15 DEF AddCheckDelete
<1>16. CASE RecordActivated \/ ConstructUpdate
  BY <1>16 DEF RecordActivated, ConstructUpdate, queues
<1>17. CASE UNCHANGED vars
  BY <1>17 DEF vars, queues
<1> QED
  BY <1>1, <1>2, <1>3, <1>4, <1>5, <1>6, <1>7, <1>8, <1>9, <1>10, <1>11, <1>12, <1>13,
     <1>14, <1>15, <1>16, <1>17 DEF Next, Work

-----------------------------------------------------------------------------
(* An entry that should be there: every pair lists each of its neighbours  *)
(* that is on, or the round that puts it there is on its way.              *)
Coming(r) ==
  \/ pc \in {"check", "addCollect"} /\ Partner(r) \in addQ
  \/ pc = "addInsert" /\ Mirror(r) \in tmp

OnListed == \A r \in Related : Along(r) /\ Partner(r) \in li => Known(r) \/ Coming(r)

LEMMA ExtendKnown ==
  ASSUME EdgeInv, NEW T, cand' = Extend(cand, T), NEW r \in Related,
         Listed(r) \/ r \in T
  PROVE  Listed(r)'
BY GrowKnown DEF EdgeInv, Listed

LEMMA OnListedStep ==
  ASSUME EdgeInv, QueueInv, OnListed, [Next]_vars
  PROVE  OnListed'
<1>a. \A r \in Related : Along(r) /\ pc # "insert" => Listed(r) \/ Listed(Mirror(r))
  BY DEF EdgeInv, AllKnown, Known, Along, Listed
<1>1. ASSUME UNCHANGED <<nei, cand>>, li' \subseteq li,
             pc \notin {"insert", "check", "addCollect", "addInsert"}, pc' # "insert"
      PROVE  OnListed'
  BY <1>1 DEF OnListed, Along, Known, Coming
<1>2. ASSUME NEW t \in tmp, DelErase(t) PROVE OnListed'
  <2>1. pc = "delErase" /\ pc' = "delErase" /\ li' \subseteq li /\ UNCHANGED nei
    BY <1>2 DEF DelErase
  <2> SUFFICES ASSUME NEW r \in Related, Along(r), Partner(r) \in li PROVE Known(r)'
    BY <2>1 DEF OnListed, Along
  <2>2. r \in Related /\ Known(r)
    BY <2>1 DEF OnListed, Coming, Along
  <2>3. r # Mirror(t)
    <3>1. Partner(Mirror(t)) = Owner(t) /\ Owner(t) \notin li
      BY <2>1, RelatedEnds DEF QueueInv, OwnersOff, EdgeInv, GraphInv, TypeOK
    <3> QED
      BY <3>1
  <2> QED
    BY <1>2, <2>1, <2>2, <2>3, EraseOther DEF EdgeInv, GraphInv, Known
<1>3. ASSUME NEW b \in Batches, StartBatch(b) PROVE OnListed'
  <2> DEFINE edges == Directed(Fresh(b))
  <2>1. /\ pc = "rest" /\ pc' = "insert" /\ UNCHANGED <<cand, li>>
        /\ nei' = Join(nei, edges)
        /\ tmp' = {t \in Related : <<t[1], t[2]>> \in edges}
    BY <1>3 DEF StartBatch, NewTasks
  <2> HIDE DEF edges
  <2> SUFFICES ASSUME NEW r \in Related, r[2] \in nei'[r[1]], Partner(r) \in li PROVE Known(r)'
    BY <2>1 DEF OnListed, Along
  <2>2. r[2] \in nei[r[1]] \/ <<r[1], r[2]>> \in edges
    BY <2>1, RelatedEnds DEF Join
  <2>3. CASE r[2] \in nei[r[1]]
    BY <2>1, <2>3 DEF OnListed, Along, Coming, Known
  <2>4. CASE <<r[1], r[2]>> \in edges
    BY <2>1, <2>4 DEF Known
  <2> QED
    BY <2>2, <2>3, <2>4
<1>4. CASE TurnOnInsert
  <2>1. pc = "insert" /\ cand' = Extend(cand, tmp) /\ UNCHANGED <<nei, li>>
    BY <1>4 DEF TurnOnInsert
  <2> SUFFICES ASSUME NEW r \in Related, Along(r), Partner(r) \in li PROVE Listed(r)'
    BY <2>1 DEF OnListed, Along, Known, Listed
  <2>2. r \in Related /\ (Listed(r) \/ r \in tmp)
    BY <2>1 DEF OnListed, Known, Coming, Along, Listed
  <2> QED
    BY <2>1, <2>2, ExtendKnown
<1>5. CASE TurnOnCheck
  <2>1. /\ pc = "check" /\ pc' = "addCollect" /\ UNCHANGED <<nei, cand>>
        /\ \E on : li' = li \cup on /\ addQ' = addQ \cup on
    BY <1>5 DEF TurnOnCheck
  <2> QED
    BY <2>1 DEF OnListed, Along, Known, Coming
<1>6. CASE AddCollect
  <2>1. /\ pc = "addCollect" /\ pc' = "addInsert" /\ UNCHANGED <<nei, cand, li>>
        /\ tmp' = Tasks(addQ, cand)
    BY <1>6 DEF AddCollect
  <2> SUFFICES ASSUME NEW r \in Related, Along(r), Partner(r) \in li, ~Known(r) PROVE Mirror(r) \in tmp'
    BY <2>1 DEF OnListed, Along, Known, Coming
  <2>2. r \in Related /\ Partner(r) \in addQ
    BY <2>1 DEF OnListed, Coming, Along
  <2>3. Listed(Mirror(r))
    BY <2>1, <1>a DEF Known, Listed
  <2> QED
    BY <2>1, <2>2, <2>3, RelatedEnds, ListedTask
<1>7. CASE AddInsert
  <2> DEFINE records == {Mirror(t) : t \in tmp}
  <2>1. pc = "addInsert" /\ cand' = Extend(cand, records) /\ UNCHANGED <<nei, li>>
    BY <1>7 DEF AddInsert
  <2> SUFFICES ASSUME NEW r \in Related, Along(r), Partner(r) \in li PROVE Listed(r)'
    BY <2>1 DEF OnListed, Along, Known, Listed
  <2>2. r \in Related /\ (Listed(r) \/ Mirror(r) \in tmp)
    BY <2>1 DEF OnListed, Known, Coming, Along, Listed
  <2>3. Listed(r) \/ r \in records
    BY <2>2, RelatedEnds
  <2> QED
    BY <2>1, <2>2, <2>3, ExtendKnown
<1>8. CASE AddCheck
  <2>1. /\ pc = "addCheck" /\ pc' = "addCollect" /\ UNCHANGED <<nei, cand>>
        /\ \E on : li' = li \cup on /\ addQ' = on
    BY <1>8 DEF AddCheck
  <2> QED
    BY <2>1 DEF OnListed, Along, Known, Coming
<1>9. CASE AddDone
  BY <1>9 DEF AddDone, OnListed, Along, Known, Coming
<1>10. CASE TurnOff \/ DelCollect \/ DelDone \/ DelEraseDone \/ DelCheckDone
  BY <1>10, <1>1 DEF TurnOff, DelCollect, DelDone, DelEraseDone, DelCheckDone
<1>11. ASSUME NEW c \in chkDel, DelCheck(c) PROVE OnListed'
  BY <1>11, <1>1 DEF DelCheck
<1>12. CASE AddCheckDelete \/ RecordActivated \/ ConstructUpdate
  BY <1>12, <1>1 DEF AddCheckDelete, RecordActivated, ConstructUpdate
<1>13. CASE UNCHANGED vars
  <2>1. UNCHANGED <<pc, nei, cand, li, addQ, tmp>>
    BY <1>13 DEF vars, queues
  <2> QED
    BY <2>1 DEF OnListed, Along, Known, Coming
<1> QED
  BY <1>2, <1>3, <1>4, <1>5, <1>6, <1>7, <1>8, <1>9, <1>10, <1>11, <1>12, <1>13
  DEF Next, Work

-----------------------------------------------------------------------------
(* A pair that is turned off keeps its lists: it is erased from those of   *)
(* its partners that are on, and theirs are not erased from its own.  So   *)
(* in every set of pairs that are off, the one turned off first still      *)
(* lists all its neighbours in the set.  This is what makes the filter     *)
(* safe: a set of pairs that could support itself has a member that sees   *)
(* it, and that member fails its test.                                     *)
Kept(r) == Known(r) /\ ~(pc = "delErase" /\ Mirror(r) \in tmp)

KeepsAll(p, T) == \A q \in T : Between(p, q) \in Related /\ Along(Between(p, q))
                                 => Kept(Between(p, q))

WellListed == \A T \in SUBSET (Compat \ li) : T # {} => \E p \in T : KeepsAll(p, T)

LEMMA WellListedKept ==
  ASSUME WellListed,
         \A r \in Related : Along(r)' /\ Partner(r) \in li \ li' => Kept(r)',
         \A r \in Related :
           Along(r)' /\ Owner(r) \notin li /\ (Along(r) => Kept(r)) => Kept(r)'
  PROVE  WellListed'
<1> SUFFICES ASSUME NEW T \in SUBSET (Compat \ li'), T # {}
             PROVE  \E p \in T : KeepsAll(p, T)'
  BY DEF WellListed
<1> DEFINE Old == T \ li
<1>1. ASSUME NEW p \in T, NEW q \in T, q \in li,
             Between(p, q) \in Related, Along(Between(p, q))'
      PROVE  Kept(Between(p, q))'
  BY <1>1, BetweenEnds
<1>2. CASE Old = {}
  <2>1. PICK p \in T : TRUE
    OBVIOUS
  <2> QED
    BY <1>1, <1>2, <2>1 DEF KeepsAll
<1>3. CASE Old # {}
  <2>1. PICK p \in Old : KeepsAll(p, Old)
    BY <1>3 DEF WellListed
  <2>2. ASSUME NEW q \in Old, Between(p, q) \in Related, Along(Between(p, q))'
        PROVE  Kept(Between(p, q))'
    <3>1. Along(Between(p, q)) => Kept(Between(p, q))
      BY <2>1, <2>2 DEF KeepsAll
    <3> QED
      BY <2>2, <3>1, BetweenEnds
  <2> QED
    BY <1>1, <2>1, <2>2 DEF KeepsAll
<1> QED
  BY <1>2, <1>3

LEMMA WellListedStep ==
  ASSUME EdgeInv, QueueInv, OnListed, WellListed, [Next]_vars
  PROVE  WellListed'
<1>1. ASSUME UNCHANGED <<nei, cand>>, pc \notin {"insert", "check", "addCollect", "addInsert"},
             pc' \notin {"insert", "delErase"}, pc = "delErase" => tmp = {}
      PROVE  WellListed'
  <2>1. \A r \in Related : Along(r)' <=> Along(r)
    BY <1>1 DEF Along
  <2>2. \A r \in Related : Along(r) /\ Partner(r) \in li => Known(r)
    BY <1>1 DEF OnListed, Coming
  <2>3. \A r \in Related : Known(r) => Kept(r)'
    BY <1>1 DEF Known, Kept
  <2> QED
    BY <2>1, <2>2, <2>3, WellListedKept DEF Kept
<1>2. ASSUME UNCHANGED <<nei, cand>>, li \subseteq li', pc \notin {"insert", "delErase"},
             pc' \notin {"insert", "delErase"}
      PROVE  WellListed'
  <2>1. \A r \in Related : Along(r)' <=> Along(r)
    BY <1>2 DEF Along
  <2>2. \A r \in Related : Known(r) => Kept(r)'
    BY <1>2 DEF Known, Kept
  <2> QED
    BY <1>2, <2>1, <2>2, WellListedKept DEF Kept
<1>3. CASE DelCollect
  <2>1. /\ pc = "delCollect" /\ pc' = "delErase" /\ UNCHANGED <<nei, cand, li>>
        /\ \A t \in tmp' : Partner(t) \in li
    BY <1>3 DEF DelCollect, ToErase
  <2>2. ASSUME NEW r \in Related, Owner(r) \notin li, Known(r) PROVE Kept(r)'
    BY <2>1, <2>2, RelatedEnds DEF Kept, Known
  <2>3. \A r \in Related : Along(r)' <=> Along(r)
    BY <2>1 DEF Along
  <2> QED
    BY <2>1, <2>2, <2>3, WellListedKept DEF Kept
<1>4. ASSUME NEW t \in tmp, DelErase(t) PROVE WellListed'
  <2>1. /\ pc = "delErase" /\ pc' = "delErase" /\ tmp' \subseteq tmp /\ UNCHANGED nei
        /\ \A q \in tmp : Owner(q) \notin li
    BY <1>4 DEF DelErase, QueueInv, OwnersOff
  <2>2. \A r \in Related : Along(r)' <=> Along(r)
    BY <2>1 DEF Along
  <2>3. ASSUME NEW r \in Related, Kept(r) PROVE Kept(r)'
    <3>1. Mirror(r) \notin tmp /\ Listed(r)
      BY <2>1, <2>3 DEF Kept, Known, Listed
    <3>2. r # Mirror(t)
      BY <3>1, RelatedEnds DEF EdgeInv, GraphInv, TypeOK
    <3>3. Listed(r)'
      BY <1>4, <3>1, <3>2, EraseOther DEF EdgeInv, GraphInv, Listed
    <3> QED
      BY <2>1, <3>1, <3>3 DEF Kept, Known, Listed
  <2>4. ASSUME NEW r \in Related, Along(r), Partner(r) \in li PROVE Kept(r)
    <3>1. Known(r)
      BY <2>1, <2>4 DEF OnListed, Coming
    <3>2. Mirror(r) \notin tmp
      BY <2>1, <2>4, RelatedEnds
    <3> QED
      BY <3>1, <3>2 DEF Kept
  <2> QED
    BY <2>2, <2>3, <2>4, WellListedKept
<1>5. ASSUME NEW b \in Batches, StartBatch(b) PROVE WellListed'
  <2> DEFINE edges == Directed(Fresh(b))
  <2>1. /\ pc = "rest" /\ pc' = "insert" /\ UNCHANGED <<cand, li>>
        /\ nei' = Join(nei, edges)
        /\ tmp' = {t \in Related : <<t[1], t[2]>> \in edges}
    BY <1>5 DEF StartBatch, NewTasks
  <2> HIDE DEF edges
  <2>2. ASSUME NEW r \in Related, Along(r)', Along(r) => Kept(r) PROVE Kept(r)'
    <3>1. r[2] \in nei[r[1]] \/ <<r[1], r[2]>> \in edges
      BY <2>1, <2>2, RelatedEnds DEF Join, Along
    <3>2. CASE r[2] \in nei[r[1]]
      BY <2>1, <2>2, <3>2 DEF Along, Kept, Known
    <3>3. CASE <<r[1], r[2]>> \in edges
      BY <2>1, <3>3 DEF Kept, Known
    <3> QED
      BY <3>1, <3>2, <3>3
  <2> QED
    BY <2>1, <2>2, WellListedKept
<1>6. ASSUME NEW T, cand' = Extend(cand, T), UNCHANGED <<nei, li>>, pc # "delErase",
             pc = "insert" => T = tmp, pc' \notin {"insert", "delErase"}
      PROVE  WellListed'
  <2>1. \A r \in Related : Along(r)' <=> Along(r)
    BY <1>6 DEF Along
  <2>2. ASSUME NEW r \in Related, Kept(r) PROVE Kept(r)'
    <3>1. Listed(r) \/ r \in T
      BY <1>6, <2>2 DEF Kept, Known, Listed
    <3>2. Listed(r)'
      BY <1>6, <3>1, ExtendKnown
    <3> QED
      BY <1>6, <3>2 DEF Kept, Known, Listed
  <2> QED
    BY <1>6, <2>1, <2>2, WellListedKept
<1>7. CASE TurnOnInsert \/ AddInsert
  BY <1>7, <1>6 DEF TurnOnInsert, AddInsert
<1>8. CASE TurnOff \/ DelDone \/ DelCheckDone
  BY <1>8, <1>1 DEF TurnOff, DelDone, DelCheckDone
<1>9. CASE DelEraseDone
  BY <1>9, <1>1 DEF DelEraseDone
<1>10. ASSUME NEW c \in chkDel, DelCheck(c) PROVE WellListed'
  BY <1>10, <1>1 DEF DelCheck
<1>11. CASE TurnOnCheck \/ AddCollect \/ AddDone \/ AddCheck
  BY <1>11, <1>2 DEF TurnOnCheck, AddCollect, AddDone, AddCheck
<1>12. CASE AddCheckDelete \/ RecordActivated \/ ConstructUpdate
  BY <1>12, <1>2 DEF AddCheckDelete, RecordActivated, ConstructUpdate
<1>13. CASE UNCHANGED vars
  <2>1. UNCHANGED <<pc, nei, cand, li, tmp>>
    BY <1>13 DEF vars, queues
  <2>2. \A r \in Related : Along(r) = Along(r)' /\ Kept(r) = Kept(r)'
    BY <2>1 DEF Along, Kept, Known
  <2> QED
    BY <2>1, <2>2, WellListedKept
<1> QED
  BY <1>3, <1>4, <1>5, <1>7, <1>8, <1>9, <1>10, <1>11, <1>12, <1>13 DEF Next, Work

-----------------------------------------------------------------------------
(* A pair that is off and would pass its test is queued to be tested. *)
OffFails == \A p \in Compat \ li : CheckNei(cand, p) => p \in chk \ checked

(* How the two operations on lists change the test of a pair. *)
LEMMA CheckShrinks ==
  ASSUME TypeOK, NEW t \in tmp, DelErase(t), NEW p \in Compat, CheckNei(cand', p)
  PROVE  CheckNei(cand, p)
<1>1. p[1] \in DV /\ p[2] \in QV /\ QNei[p[2]] \subseteq QV
  BY QueryAssumption DEF Compat
<1>e. Erased(t)
  BY EraseEntries
<1>2. ASSUME NEW w \in QNei[p[2]]
      PROVE  cand'[p[1]][p[2]][w] \subseteq cand[p[1]][p[2]][w]
  <2>1. cand'[p[1]][p[2]][w]
          = IF <<p[1], p[2]>> = Partner(t) /\ w = t[3]
            THEN cand[p[1]][p[2]][w] \ {t[1]} ELSE cand[p[1]][p[2]][w]
    BY <1>1, <1>e DEF Erased
  <2> QED
    BY <2>1
<1> QED
  BY <1>2, CheckNeiMonotone

LEMMA CheckUntouched ==
  ASSUME TypeOK, NEW T, cand' = Extend(cand, T), NEW p \in Compat,
         \A t \in T : Owner(t) # p, CheckNei(cand', p)
  PROVE  CheckNei(cand, p)
<1>1. p[1] \in DV /\ p[2] \in QV /\ QNei[p[2]] \subseteq QV /\ p = <<p[1], p[2]>>
  BY QueryAssumption DEF Compat
<1>2. \A x, w : <<p[1], x, p[2], w>> \notin T
  BY <1>1 DEF Owner
<1>3. \A w \in QNei[p[2]] :
        cand'[p[1]][p[2]][w]
          = cand[p[1]][p[2]][w] \cup {x \in DV : <<p[1], x, p[2], w>> \in T}
  BY <1>1, ExtendEntry
<1>4. \A w \in QNei[p[2]] : cand'[p[1]][p[2]][w] \subseteq cand[p[1]][p[2]][w]
  BY <1>2, <1>3
<1> QED
  BY <1>4, CheckNeiMonotone

LEMMA OffFailsStep ==
  ASSUME EdgeInv, QueueInv, OffFails, [Next]_vars
  PROVE  OffFails'
<1>t. TypeOK /\ tmp \subseteq Related /\ li \subseteq Compat
  BY DEF EdgeInv, GraphInv, TypeOK
<1>1. ASSUME UNCHANGED <<cand, chk, checked, li>> PROVE OffFails'
  BY <1>1 DEF OffFails
<1>2. CASE TurnOff
  BY <1>2 DEF TurnOff, Failing, OffFails
<1>3. ASSUME NEW t \in tmp, DelErase(t) PROVE OffFails'
  <2> DEFINE p == Partner(t)
  <2>1. UNCHANGED chk /\ checked' \subseteq checked
    BY <1>3 DEF DelErase
  <2>2. ASSUME NEW q \in Compat, q \notin li', q \in li PROVE ~CheckNei(cand', q)
    <3>1. q = p /\ cand[p[1]][p[2]][t[3]] \ {t[1]} = {}
      BY <1>3, <2>2 DEF DelErase
    <3>2. /\ t \in Related /\ p[1] \in DV /\ p[2] \in QV /\ t[3] \in QV
          /\ p = <<p[1], p[2]>>
      BY <1>t, RelatedEnds
    <3>3. t[3] \in QNei[p[2]]
      BY <3>2, RelatedEnds, QueryAssumption
    <3>4. cand'[p[1]][p[2]][t[3]] = {}
      <4>1. Erased(t)
        BY <1>3, <1>t, EraseEntries
      <4> QED
        BY <3>1, <3>2, <4>1 DEF Erased
    <3> QED
      BY <3>1, <3>3, <3>4 DEF CheckNei
  <2> QED
    BY <1>3, <1>t, <2>1, <2>2, CheckShrinks DEF OffFails
<1>4. ASSUME NEW c \in chkDel, DelCheck(c) PROVE OffFails'
  <2> DEFINE p == c[1]
  <2>1. /\ pc = "delCheck" /\ chk = {} /\ UNCHANGED <<cand, chk>>
        /\ li' = li \/ (li' = li \ {p} /\ ~TryNei(cand, p, Group(p[2], c[2])))
    BY <1>4 DEF DelCheck, QueueInv, Drained
  <2>2. c[2] \in RepLabels(p[2])
    BY DEF QueueInv, ChecksRepeated
  <2> QED
    BY <2>1, <2>2 DEF OffFails, CheckNei
<1>5. CASE TurnOnInsert
  <2> DEFINE owners == {Owner(t) : t \in tmp}
  <2>1. /\ pc = "insert" /\ chk = {} /\ UNCHANGED li /\ cand' = Extend(cand, tmp)
        /\ chk' = owners \ li /\ checked' = checked \ (owners \ li)
    BY <1>5 DEF TurnOnInsert, QueueInv, Drained
  <2> SUFFICES ASSUME NEW p \in Compat \ li, CheckNei(cand', p), p \notin owners
               PROVE  FALSE
    BY <2>1 DEF OffFails
  <2>2. CheckNei(cand, p)
    BY <1>t, <2>1, CheckUntouched
  <2> QED
    BY <2>1, <2>2 DEF OffFails
<1>6. CASE TurnOnCheck \/ AddCheck
  <2>1. /\ li' = li \cup {p \in chk \ (checked \cup li) : CheckNei(cand, p)}
           \/ li' = li \cup {p \in chk \ checked : CheckNei(cand, p)}
        /\ UNCHANGED cand
    BY <1>6 DEF TurnOnCheck, AddCheck
  <2> QED
    BY <2>1 DEF OffFails
<1>7. CASE AddCollect
  BY <1>7 DEF AddCollect, OffFails, QueueInv, Drained
<1>8. CASE AddInsert
  <2> DEFINE records == {Mirror(t) : t \in tmp}
  <2>1. /\ pc = "addInsert" /\ UNCHANGED <<li, chk, checked>> /\ cand' = Extend(cand, records)
    BY <1>8 DEF AddInsert
  <2>2. records \subseteq Related /\ \A r \in records : Owner(r) \in li \/ Owner(r) \in chk \ checked
    BY <1>t, <2>1, RelatedEnds DEF QueueInv, PartnersQueued
  <2> SUFFICES ASSUME NEW p \in Compat \ li, CheckNei(cand', p), p \notin chk \ checked
               PROVE  FALSE
    BY <2>1 DEF OffFails
  <2>3. CheckNei(cand, p)
    BY <1>t, <2>1, <2>2, CheckUntouched
  <2> QED
    BY <2>3 DEF OffFails
<1>9. CASE DelCollect \/ DelDone \/ DelEraseDone \/ DelCheckDone
  BY <1>9, <1>1 DEF DelCollect, DelDone, DelEraseDone, DelCheckDone, queues
<1>10. CASE AddDone \/ AddCheckDelete \/ RecordActivated \/ ConstructUpdate
  BY <1>10, <1>1 DEF AddDone, AddCheckDelete, RecordActivated, ConstructUpdate, queues
<1>11. ASSUME NEW b \in Batches, StartBatch(b) PROVE OffFails'
  BY <1>11, <1>1 DEF StartBatch
<1>12. CASE UNCHANGED vars
  BY <1>12, <1>1 DEF vars, queues
<1> QED
  BY <1>2, <1>3, <1>4, <1>5, <1>6, <1>7, <1>8, <1>9, <1>10, <1>11, <1>12 DEF Next, Work

-----------------------------------------------------------------------------
(* An entry that should not be there: when a pair that is on lists one     *)
(* that is off, the deletion of that one, or a test that may still turn it *)
(* on, is on its way.                                                      *)
Leaving(r) ==
  \/ pc \in {"check", "addCollect"} /\ Owner(r) \in addQ
  \/ pc \in {"addInsert", "addCheck"} /\ Partner(r) \in chk \ checked
  \/ Partner(r) \in addDel
  \/ Partner(r) \in delQ
  \/ pc = "delErase" /\ Mirror(r) \in tmp

OffLeaves ==
  \A r \in Related : Owner(r) \in li /\ Partner(r) \notin li /\ Listed(r) => Leaving(r)

LEMMA OffLeavesStep ==
  ASSUME EdgeInv, QueueInv, OnListed, OffLeaves, [Next]_vars
  PROVE  OffLeaves'
<1>t. TypeOK /\ tmp \subseteq Related
  BY DEF EdgeInv, GraphInv, TypeOK
<1>d. Drained /\ QueueDrained
  BY DEF QueueInv, EdgeInv
<1>1. ASSUME UNCHANGED <<cand, li, addDel, delQ>>,
             pc \notin {"check", "addCollect", "addInsert", "addCheck", "delErase"}
      PROVE  OffLeaves'
  BY <1>1 DEF OffLeaves, Listed, Leaving
<1>2. CASE TurnOff
  <2>1. /\ pc = "turnOff" /\ UNCHANGED cand /\ addDel = {} /\ delQ = {}
        /\ \E F : li' = li \ F /\ delQ' = F
    BY <1>2, <1>d DEF TurnOff, Drained, QueueDrained
  <2> QED
    BY <2>1 DEF OffLeaves, Listed, Leaving
<1>3. CASE DelCollect
  <2>1. tmp' = {t \in Tasks(delQ, cand) : Partner(t) \in li}
    BY <1>3 DEF DelCollect, ToErase
  <2>2. pc = "delCollect" /\ pc' = "delErase" /\ UNCHANGED <<cand, li>> /\ addDel = {}
    BY <1>3, <1>d DEF DelCollect, Drained
  <2> SUFFICES ASSUME NEW r \in Related, Owner(r) \in li, Partner(r) \notin li, Listed(r)
               PROVE  Mirror(r) \in tmp'
    BY <2>2 DEF OffLeaves, Listed, Leaving
  <2>3. Partner(r) \in delQ
    BY <2>2 DEF OffLeaves, Leaving
  <2>4. Along(Mirror(r))
    <3>1. r[2] \in nei[r[1]]
      BY RelatedEnds DEF EdgeInv, GraphInv, OnEdges, Listed
    <3> QED
      BY <3>1, RelatedEnds DEF EdgeInv, GraphInv, Symmetric, Along, Mirror
  <2>5. Listed(Mirror(r))
    BY <2>2, <2>4, RelatedEnds DEF OnListed, Coming, Known, Listed
  <2> QED
    BY <2>1, <2>3, <2>5, RelatedEnds, ListedTask
<1>4. ASSUME NEW t \in tmp, DelErase(t) PROVE OffLeaves'
  <2> DEFINE p == Partner(t)
  <2>1. /\ pc = "delErase" /\ pc' = "delErase" /\ tmp' = tmp \ {t} /\ UNCHANGED addDel
        /\ UNCHANGED <<li, delQ>> \/ (li' = li \ {p} /\ delQ' = delQ \cup {p})
    BY <1>4 DEF DelErase
  <2> SUFFICES ASSUME NEW r \in Related, Owner(r) \in li', Partner(r) \notin li', Listed(r)'
               PROVE  Leaving(r)'
    BY DEF OffLeaves
  <2>2. CASE Partner(r) \in li
    BY <2>1, <2>2 DEF Leaving
  <2>3. CASE Partner(r) \notin li
    <3>1. r[1] \in DV /\ r[3] \in QV /\ r[4] \in QV
      BY RelatedEnds
    <3>2. cand'[r[1]][r[3]][r[4]] = IF <<r[1], r[3]>> = Partner(t) /\ r[4] = t[3]
                                   THEN cand[r[1]][r[3]][r[4]] \ {t[1]}
                                   ELSE cand[r[1]][r[3]][r[4]]
      BY <1>4, <1>t, <3>1, EraseEntry
    <3>3. Listed(r) /\ ~(<<r[1], r[3]>> = <<t[2], t[4]>> /\ r[4] = t[3] /\ r[2] = t[1])
      BY <3>2 DEF Listed, Partner
    <3>4. Leaving(r)
      BY <2>1, <2>3, <3>3 DEF OffLeaves
    <3>5. Mirror(r) # t
      BY <3>3, <1>t, RelatedEnds DEF Mirror
    <3> QED
      BY <2>1, <3>4, <3>5 DEF Leaving
  <2> QED
    BY <2>2, <2>3
<1>5. ASSUME NEW c \in chkDel, DelCheck(c) PROVE OffLeaves'
  <2>1. /\ pc = "delCheck" /\ pc' = "delCheck" /\ UNCHANGED <<cand, addDel>>
        /\ UNCHANGED <<li, delQ>> \/ (li' = li \ {c[1]} /\ delQ' = delQ \cup {c[1]})
    BY <1>5 DEF DelCheck
  <2> QED
    BY <2>1 DEF OffLeaves, Listed, Leaving
<1>6. CASE DelEraseDone
  BY <1>6 DEF DelEraseDone, OffLeaves, Listed, Leaving, queues
<1>7. CASE TurnOnInsert
  <2> DEFINE owners == {Owner(t) : t \in tmp}
  <2>1. /\ pc = "insert" /\ pc' = "check" /\ UNCHANGED <<li, addDel, delQ>>
        /\ cand' = Extend(cand, tmp) /\ addQ' = owners \cap li
    BY <1>7 DEF TurnOnInsert
  <2> SUFFICES ASSUME NEW r \in Related, Owner(r) \in li, Partner(r) \notin li, Listed(r)'
               PROVE  Leaving(r)'
    BY <2>1 DEF OffLeaves
  <2>2. Listed(r) \/ r \in tmp
    BY <2>1, ExtendEntry, RelatedEnds DEF Listed
  <2> QED
    BY <2>1, <2>2 DEF OffLeaves, Leaving
<1>8. CASE TurnOnCheck
  <2>1. /\ pc = "check" /\ pc' = "addCollect" /\ UNCHANGED <<cand, addDel, delQ>>
        /\ \E on : li' = li \cup on /\ addQ' = addQ \cup on
    BY <1>8 DEF TurnOnCheck
  <2> QED
    BY <2>1 DEF OffLeaves, Listed, Leaving
<1>9. CASE AddCollect
  <2> DEFINE asked == {Partner(t) : t \in Tasks(addQ, cand)} \ li
  <2>1. /\ pc = "addCollect" /\ pc' = "addInsert" /\ UNCHANGED <<cand, li, addDel, delQ>>
        /\ chk' = asked /\ checked' = checked \ asked
    BY <1>9 DEF AddCollect, ToCheck
  <2> SUFFICES ASSUME NEW r \in Related, Owner(r) \in li, Partner(r) \notin li, Listed(r),
                      Owner(r) \in addQ
               PROVE  Partner(r) \in asked
    BY <2>1 DEF OffLeaves, Listed, Leaving
  <2>2. r \in Tasks(addQ, cand)
    BY ListedTask
  <2> QED
    BY <2>2
<1>10. CASE AddDone
  BY <1>10 DEF AddDone, OffLeaves, Listed, Leaving, queues
<1>11. CASE AddInsert
  <2> DEFINE records == {Mirror(t) : t \in tmp}
  <2>1. /\ pc = "addInsert" /\ pc' = "addCheck" /\ UNCHANGED <<li, chk, checked, addDel, delQ>>
        /\ cand' = Extend(cand, records)
    BY <1>11 DEF AddInsert
  <2> SUFFICES ASSUME NEW r \in Related, Owner(r) \in li, Partner(r) \notin li, Listed(r)'
               PROVE  Leaving(r)'
    BY <2>1 DEF OffLeaves
  <2>2. Listed(r) \/ r \in records
    BY <2>1, ExtendEntry, RelatedEnds DEF Listed
  <2>3. r \notin records
    BY <1>t, <2>1, RelatedEnds DEF QueueInv, OwnersOn
  <2> QED
    BY <2>1, <2>2, <2>3 DEF OffLeaves, Leaving
<1>12. CASE AddCheck
  <2> DEFINE todo == chk \ checked
             on == {p \in todo : CheckNei(cand, p)}
  <2>1. /\ pc = "addCheck" /\ pc' = "addCollect" /\ UNCHANGED <<cand, delQ>>
        /\ li' = li \cup on /\ addQ' = on /\ addDel' = addDel \cup (todo \ on)
    BY <1>12 DEF AddCheck
  <2> HIDE DEF on
  <2> QED
    BY <2>1 DEF OffLeaves, Listed, Leaving
<1>13. CASE AddCheckDelete
  BY <1>13, <1>d DEF AddCheckDelete, OffLeaves, Listed, Leaving, QueueDrained
<1>14. CASE DelDone \/ DelCheckDone \/ RecordActivated \/ ConstructUpdate
  BY <1>14, <1>1 DEF DelDone, DelCheckDone, RecordActivated, ConstructUpdate, queues
<1>15. ASSUME NEW b \in Batches, StartBatch(b) PROVE OffLeaves'
  BY <1>15, <1>1 DEF StartBatch
<1>16. CASE UNCHANGED vars
  <2>1. UNCHANGED <<pc, cand, li, addQ, chk, checked, addDel, delQ, tmp>>
    BY <1>16 DEF vars, queues
  <2> QED
    BY <2>1 DEF OffLeaves, Listed, Leaving
<1> QED
  BY <1>2, <1>3, <1>4, <1>5, <1>6, <1>7, <1>8, <1>9, <1>10, <1>11, <1>12, <1>13, <1>14,
     <1>15, <1>16 DEF Next, Work

-----------------------------------------------------------------------------
(* A pair that is on passes its test, or is queued to be tested.  isChecked *)
(* lets one label check of a pair through, so the repeated labels are       *)
(* covered for a query vertex with at most one of them.                     *)
OneRepeated(u) == \A lb, mb \in RepLabels(u) : lb = mb

Inhabited(p) == \A w \in QNei[p[2]] : cand[p[1]][p[2]][w] # {}

Matched(p) ==
  \A lb \in RepLabels(p[2]) : TryNei(cand, p, Group(p[2], lb)) \/ <<p, lb>> \in chkDel

OnPasses ==
  pc # "turnOff" => \A p \in li : Inhabited(p) /\ (OneRepeated(p[2]) => Matched(p))

ChecksFresh == \A c \in chkDel : OneRepeated(c[1][2]) => c[1] \notin checked

LEMMA ExtendPasses ==
  ASSUME TypeOK, NEW T, cand' = Extend(cand, T), UNCHANGED chkDel, NEW p \in Compat
  PROVE  (Inhabited(p) => Inhabited(p)') /\ (Matched(p) => Matched(p)')
<1>1. p[1] \in DV /\ p[2] \in QV /\ QNei[p[2]] \subseteq QV
  BY QueryAssumption DEF Compat
<1>2. \A w \in QNei[p[2]] :
        cand'[p[1]][p[2]][w]
          = cand[p[1]][p[2]][w] \cup {x \in DV : <<p[1], x, p[2], w>> \in T}
  BY <1>1, ExtendEntry
<1>3. \A w \in QNei[p[2]] : cand[p[1]][p[2]][w] \subseteq cand'[p[1]][p[2]][w]
  BY <1>2
<1>4. ASSUME NEW lb, TryNei(cand, p, Group(p[2], lb)) PROVE TryNei(cand', p, Group(p[2], lb))
  <2>1. Group(p[2], lb) \subseteq QNei[p[2]]
    BY DEF Group
  <2> QED
    BY <1>3, <1>4, <2>1, TryNeiMonotone
<1> QED
  BY <1>3, <1>4 DEF Inhabited, Matched

LEMMA CheckedPasses ==
  ASSUME NEW p, CheckNei(cand, p), UNCHANGED cand
  PROVE  Inhabited(p)' /\ Matched(p)'
BY DEF CheckNei, Inhabited, Matched

(* Erasing one entry disturbs its own list and the group of its own label. *)
LEMMA ErasePasses ==
  ASSUME TypeOK, NEW t \in tmp, DelErase(t), NEW p \in li', Inhabited(p)
  PROVE  Inhabited(p)' /\ (Matched(p) => Matched(p)')
<1>1. /\ p \in Compat /\ p[1] \in DV /\ p[2] \in QV /\ QNei[p[2]] \subseteq QV
      /\ p = <<p[1], p[2]>> /\ t \in Related
  BY QueryAssumption DEF DelErase, TypeOK, Compat
<1>2. \A w \in QNei[p[2]] :
        cand'[p[1]][p[2]][w] = IF p = Partner(t) /\ w = t[3]
                               THEN cand[p[1]][p[2]][w] \ {t[1]} ELSE cand[p[1]][p[2]][w]
  BY <1>1, EraseEntry
<1>3. chkDel \subseteq chkDel'
  BY DEF DelErase
<1>4. CASE p # Partner(t)
  <2>1. \A w \in QNei[p[2]] : cand[p[1]][p[2]][w] = cand'[p[1]][p[2]][w]
    BY <1>2, <1>4
  <2>2. ASSUME NEW lb, TryNei(cand, p, Group(p[2], lb))
        PROVE  TryNei(cand', p, Group(p[2], lb))
    BY <2>1, <2>2, TryNeiMonotone DEF Group
  <2> QED
    BY <1>3, <2>1, <2>2 DEF Inhabited, Matched
<1>5. CASE p = Partner(t)
  <2>1. /\ cand[p[1]][p[2]][t[3]] \ {t[1]} # {}
        /\ QLabel[t[3]] \in RepLabels(p[2]) => <<p, QLabel[t[3]]>> \in chkDel'
    BY <1>5 DEF DelErase
  <2>2. ASSUME NEW lb, lb # QLabel[t[3]], TryNei(cand, p, Group(p[2], lb))
        PROVE  TryNei(cand', p, Group(p[2], lb))
    <3>1. \A w \in Group(p[2], lb) : w \in QNei[p[2]] /\ w # t[3]
      BY <2>2 DEF Group
    <3>2. \A w \in Group(p[2], lb) : cand[p[1]][p[2]][w] = cand'[p[1]][p[2]][w]
      BY <1>2, <3>1
    <3> QED
      BY <2>2, <3>2, TryNeiMonotone
  <2>3. Inhabited(p)'
    BY <1>2, <2>1 DEF Inhabited
  <2> QED
    BY <1>3, <2>1, <2>2, <2>3 DEF Matched
<1> QED
  BY <1>4, <1>5

LEMMA OnPassesStep ==
  ASSUME EdgeInv, QueueInv, OnPasses, ChecksFresh, [Next]_vars
  PROVE  OnPasses' /\ ChecksFresh'
<1>t. TypeOK /\ li \subseteq Compat
  BY DEF EdgeInv, GraphInv, TypeOK
<1>d. Drained
  BY DEF QueueInv
<1>1. ASSUME UNCHANGED <<cand, li, chkDel, checked>>, pc # "turnOff"
      PROVE  OnPasses' /\ ChecksFresh'
  BY <1>1 DEF OnPasses, ChecksFresh, Inhabited, Matched
<1>2. CASE TurnOff
  <2>1. pc = "turnOff" /\ UNCHANGED <<cand, chkDel>> /\ chkDel = {} /\ li' = li \ Failing
    BY <1>2, <1>d DEF TurnOff, Drained
  <2>2. \A p \in li' : CheckNei(cand, p)
    BY <2>1 DEF Failing
  <2> QED
    BY <2>1, <2>2, CheckedPasses DEF OnPasses, ChecksFresh
<1>3. ASSUME NEW t \in tmp, DelErase(t) PROVE OnPasses' /\ ChecksFresh'
  <2>1. pc = "delErase" /\ li' \subseteq li
    BY <1>3 DEF DelErase
  <2>2. OnPasses'
    BY <1>3, <1>t, <2>1, ErasePasses DEF OnPasses
  <2>3. \/ UNCHANGED <<chkDel, checked>>
        \/ \E lb : /\ chkDel' = chkDel \cup {<<Partner(t), lb>>}
                   /\ checked' = checked \ {Partner(t)}
    BY <1>3 DEF DelErase
  <2> QED
    BY <2>2, <2>3 DEF ChecksFresh
<1>4. ASSUME NEW c \in chkDel, DelCheck(c) PROVE OnPasses' /\ ChecksFresh'
  <2> DEFINE p == c[1]
  <2>1. /\ pc = "delCheck" /\ UNCHANGED cand /\ chkDel' = chkDel \ {c}
        /\ checked' = checked \cup {p} /\ li' \subseteq li
        /\ p \notin checked /\ p \in li' => TryNei(cand, p, Group(p[2], c[2]))
    BY <1>4 DEF DelCheck
  <2>2. \A d \in chkDel : d = <<d[1], d[2]>> /\ d[2] \in RepLabels(d[1][2])
    BY <1>t DEF TypeOK, LabelChecks, QueueInv, ChecksRepeated
  <2>3. ASSUME NEW d \in chkDel, d[1] = p, OneRepeated(p[2]) PROVE d = c
    BY <2>2, <2>3 DEF OneRepeated
  <2>4. ASSUME NEW q \in li', OneRepeated(q[2]) PROVE Matched(q)'
    <3>1. Matched(q)
      BY <2>1, <2>4 DEF OnPasses
    <3>2. CASE q = p
      <4>1. p \notin checked
        BY <2>4, <3>2 DEF ChecksFresh
      <4> QED
        BY <2>1, <2>2, <2>4, <3>1, <3>2, <4>1 DEF Matched
    <3>3. CASE q # p
      BY <2>1, <2>2, <3>1, <3>3 DEF Matched
    <3> QED
      BY <3>2, <3>3
  <2>5. OnPasses'
    BY <2>1, <2>4 DEF OnPasses, Inhabited
  <2>6. ChecksFresh'
    BY <2>1, <2>3 DEF ChecksFresh
  <2> QED
    BY <2>5, <2>6
<1>5. ASSUME pc \notin {"turnOff", "delErase", "delCheck"}, UNCHANGED <<chkDel, li>>,
             NEW T, cand' = Extend(cand, T)
      PROVE  OnPasses' /\ ChecksFresh'
  BY <1>5, <1>t, <1>d, ExtendPasses DEF OnPasses, ChecksFresh, Drained
<1>6. CASE TurnOnInsert \/ AddInsert
  BY <1>6, <1>5 DEF TurnOnInsert, AddInsert
<1>7. CASE TurnOnCheck \/ AddCheck
  <2>1. /\ pc \in {"check", "addCheck"} /\ UNCHANGED <<cand, chkDel>>
        /\ \/ li' = li \cup {p \in chk \ (checked \cup li) : CheckNei(cand, p)}
           \/ li' = li \cup {p \in chk \ checked : CheckNei(cand, p)}
    BY <1>7 DEF TurnOnCheck, AddCheck
  <2>2. ASSUME NEW p \in li' PROVE Inhabited(p)' /\ (OneRepeated(p[2]) => Matched(p)')
    <3>1. CASE p \in li
      BY <2>1, <3>1 DEF OnPasses, Inhabited, Matched
    <3>2. CASE CheckNei(cand, p)
      BY <2>1, <3>2, CheckedPasses
    <3> QED
      BY <2>1, <3>1, <3>2
  <2> QED
    BY <2>1, <2>2, <1>d DEF OnPasses, ChecksFresh, Drained
<1>8. CASE AddCollect
  <2>1. pc = "addCollect" /\ UNCHANGED <<cand, li, chkDel>> /\ chkDel = {}
    BY <1>8, <1>d DEF AddCollect, Drained
  <2> QED
    BY <2>1 DEF OnPasses, ChecksFresh, Inhabited, Matched
<1>9. CASE DelCollect \/ DelDone \/ DelEraseDone \/ DelCheckDone
  BY <1>9, <1>1 DEF DelCollect, DelDone, DelEraseDone, DelCheckDone, queues
<1>10. CASE AddDone \/ AddCheckDelete \/ RecordActivated \/ ConstructUpdate
  BY <1>10, <1>1 DEF AddDone, AddCheckDelete, RecordActivated, ConstructUpdate, queues
<1>11. ASSUME NEW b \in Batches, StartBatch(b) PROVE OnPasses' /\ ChecksFresh'
  BY <1>11, <1>1 DEF StartBatch
<1>12. CASE UNCHANGED vars
  BY <1>12 DEF vars, queues, OnPasses, ChecksFresh, Inhabited, Matched
<1> QED
  BY <1>2, <1>3, <1>4, <1>6, <1>7, <1>8, <1>9, <1>10, <1>11, <1>12 DEF Next, Work

-----------------------------------------------------------------------------
FilterInv ==
  /\ EdgeInv /\ QueueInv
  /\ OnListed /\ WellListed /\ OffFails /\ OffLeaves
  /\ OnPasses /\ ChecksFresh

LEMMA InitFilterInv == Init => FilterInv
<1> SUFFICES ASSUME Init PROVE FilterInv
  OBVIOUS
<1>1. EdgeInv
  BY InitEdgeInv
<1>2. QueueInv
  BY DEF Init, QueueInv, Drained, AddQOn, OwnersOn, PartnersQueued, OwnersOff, ChecksRepeated
<1>3. OnListed
  <2> SUFFICES ASSUME NEW r \in Related, Along(r) PROVE Listed(r)
    BY DEF OnListed, Known, Listed
  <2>1. /\ r[1] \in DV /\ r[2] \in InitNei[r[1]] /\ r[3] \in QV /\ r[4] \in QV
        /\ <<r[1], r[3]>> \in Compat /\ r[4] \in QNei[r[3]] /\ GLabel[r[2]] = QLabel[r[4]]
    BY RelatedEnds DEF Init, Along
  <2>2. r[2] \in InitCand[r[1]][r[3]][r[4]]
    BY <2>1 DEF InitCand
  <2> QED
    BY <2>2 DEF Init, Listed
<1>4. Compat \ li = {} /\ \A r \in Related : Partner(r) \in li
  BY RelatedEnds DEF Init
<1>5. WellListed /\ OffFails /\ OffLeaves
  BY <1>4 DEF WellListed, OffFails, OffLeaves
<1>6. OnPasses /\ ChecksFresh
  BY DEF Init, OnPasses, ChecksFresh
<1> QED
  BY <1>1, <1>2, <1>3, <1>5, <1>6 DEF FilterInv

LEMMA FilterStep == FilterInv /\ [Next]_vars => FilterInv'
BY EdgeStep, QueueInvStep, OnListedStep, WellListedStep, OffFailsStep, OffLeavesStep,
   OnPassesStep DEF FilterInv

LEMMA FilterInvariant == Spec => []FilterInv
BY InitFilterInv, FilterStep, PTL DEF Spec

(* The largest set.  Of a set of pairs that are off, the member that still *)
(* lists the others lists its neighbours that are on as well: were the set *)
(* able to support itself, that member would pass its test and be queued,  *)
(* and the queue of tests is empty once the rounds of activation are over. *)
LEMMA FilterSound == FilterInv => Sound
<1> SUFFICES ASSUME FilterInv, Deleting,
                    NEW T \in SUBSET (Compat \ li), T # {}, Supported(nei, li \cup T, T)
             PROVE  FALSE
  BY DEF Sound, Complete
<1>1. chk = {} /\ pc \notin {"insert", "check", "addCollect", "addInsert"}
  BY DEF Deleting, FilterInv, QueueInv, Drained
<1>2. PICK p \in T : KeepsAll(p, T)
  BY DEF FilterInv, WellListed
<1>3. p \in Compat /\ p[1] \in DV /\ p[2] \in QV /\ p = <<p[1], p[2]>> /\ QNei[p[2]] \subseteq QV
  BY QueryAssumption DEF Compat
<1> DEFINE J == Justified(nei, li \cup T)
<1>4. ASSUME NEW w \in QNei[p[2]], NEW x \in J[p[1]][p[2]][w]
      PROVE  x \in cand[p[1]][p[2]][w]
  <2> DEFINE q == <<x, w>>
             r == Between(p, q)
  <2>1. x \in DV /\ x \in nei[p[1]] /\ q \in li \cup T
    BY <1>3, <1>4 DEF Justified
  <2>2. q \in Compat
    BY <2>1 DEF FilterInv, EdgeInv, GraphInv, TypeOK
  <2>3. r = <<p[1], x, p[2], w>>
    BY DEF Between
  <2>4. r \in Related /\ Along(r)
    BY <1>3, <2>1, <2>2, <2>3, BetweenEnds DEF Related, Records, Along
  <2>5. CASE q \in li
    <3>1. Known(r)
      BY <1>1, <1>3, <2>2, <2>4, <2>5, BetweenEnds DEF FilterInv, OnListed, Coming
    <3> QED
      BY <1>1, <2>3, <3>1 DEF Known
  <2>6. CASE q \in T
    <3>1. Known(r)
      BY <1>2, <2>4, <2>6 DEF KeepsAll, Kept
    <3> QED
      BY <1>1, <2>3, <3>1 DEF Known
  <2> QED
    BY <2>1, <2>5, <2>6
<1>5. CheckNei(J, p)
  BY DEF Supported
<1>6. CheckNei(cand, p)
  <2> HIDE DEF J
  <2>1. \A w \in QNei[p[2]] : J[p[1]][p[2]][w] \subseteq cand[p[1]][p[2]][w]
    BY <1>4
  <2> QED
    BY <1>5, <2>1, CheckNeiMonotone
<1> QED
  BY <1>1, <1>6 DEF FilterInv, OffFails

LEMMA FilterListsExact == FilterInv => ListsExact
<1> SUFFICES ASSUME FilterInv, AtRest, NEW p \in li, NEW w \in QNei[p[2]]
             PROVE  cand[p[1]][p[2]][w] = {x \in nei[p[1]] : <<x, w>> \in li}
  BY DEF ListsExact
<1>i. EdgeInv /\ GraphInv /\ TypeOK /\ OnListed /\ OffLeaves /\ Drained /\ QueueDrained
  BY DEF FilterInv, EdgeInv, GraphInv, QueueInv
<1>1. /\ p \in Compat /\ p[1] \in DV /\ p[2] \in QV /\ p = <<p[1], p[2]>> /\ w \in QV
      /\ nei[p[1]] \subseteq DV
  BY <1>i, QueryAssumption DEF Compat, TypeOK
<1>2. pc = "rest" /\ addDel = {} /\ delQ = {}
  BY <1>i DEF AtRest, Drained, QueueDrained
<1>3. ASSUME NEW x \in cand[p[1]][p[2]][w] PROVE x \in nei[p[1]] /\ <<x, w>> \in li
  <2> DEFINE r == <<p[1], x, p[2], w>>
  <2>1. r \in Related /\ x \in nei[p[1]]
    BY <1>i, <1>1, <1>3 DEF GraphInv, Entered, OnEdges
  <2>2. Owner(r) = p /\ Partner(r) = <<x, w>> /\ Listed(r)
    BY <1>1, <1>3 DEF Owner, Partner, Listed
  <2>3. Leaving(r) => FALSE
    BY <1>2 DEF Leaving
  <2> QED
    BY <1>i, <2>1, <2>2, <2>3 DEF OffLeaves
<1>4. ASSUME NEW x \in nei[p[1]], <<x, w>> \in li PROVE x \in cand[p[1]][p[2]][w]
  <2> DEFINE r == <<p[1], x, p[2], w>>
  <2>1. <<x, w>> \in Compat /\ x \in DV
    BY <1>i, <1>1, <1>4 DEF TypeOK
  <2>2. r \in Related /\ Along(r) /\ Partner(r) = <<x, w>>
    BY <1>1, <1>4, <2>1 DEF Related, Records, Owner, Partner, Along
  <2>3. Known(r)
    BY <1>i, <1>2, <1>4, <2>2 DEF OnListed, Coming
  <2> QED
    BY <1>2, <2>3 DEF Known
<1> QED
  BY <1>3, <1>4

(* A pair that is on passes against what the graph and the pairs that are  *)
(* on justify, if its query vertex has at most one repeated label.         *)
LEMMA FilterTight ==
  ASSUME FilterInv, AtRest, NEW p \in li, OneRepeated(p[2])
  PROVE  CheckNei(Justified(nei, li), p)
<1>1. Inhabited(p) /\ Matched(p) /\ chkDel = {}
  BY DEF FilterInv, OnPasses, QueueInv, Drained, AtRest
<1>2. CheckNei(cand, p)
  BY <1>1 DEF CheckNei, Inhabited, Matched
<1>3. /\ p \in Compat /\ p[1] \in DV /\ p[2] \in QV /\ p = <<p[1], p[2]>>
      /\ QNei[p[2]] \subseteq QV /\ nei[p[1]] \subseteq DV
  BY QueryAssumption DEF FilterInv, EdgeInv, GraphInv, TypeOK, Compat
<1>4. \A w \in QNei[p[2]] : cand[p[1]][p[2]][w] = {x \in nei[p[1]] : <<x, w>> \in li}
  BY FilterListsExact DEF ListsExact
<1>5. \A w \in QNei[p[2]] :
        Justified(nei, li)[p[1]][p[2]][w] = {x \in DV : x \in nei[p[1]] /\ <<x, w>> \in li}
  BY <1>3 DEF Justified
<1>6. \A w \in QNei[p[2]] : cand[p[1]][p[2]][w] \subseteq Justified(nei, li)[p[1]][p[2]][w]
  BY <1>3, <1>4, <1>5
<1> QED
  BY <1>2, <1>6, CheckNeiMonotone

(* No match is lost, in any query: no set of pairs that are off could      *)
(* support itself in the graph, even with the help of every pair that is   *)
(* on, from the end of the activation rounds to the next batch.            *)
THEOREM NoMatchLost == Spec => []Sound
BY FilterInvariant, FilterSound, PTL

(* With a batch done, the list of a pair that is on names exactly its      *)
(* neighbours that are on: addAndCheck misses no partner of an activated   *)
(* pair, and delAndCheck leaves no entry behind.                           *)
THEOREM ListsNameLivePairs == Spec => []ListsExact
BY FilterInvariant, FilterListsExact, PTL

(* The filter keeps nothing it could drop, for a query whose vertices have *)
(* at most one repeated label each: isChecked then lets every label check  *)
(* of a pair through.                                                      *)
THEOREM NothingKeptUnsupported ==
  ASSUME \A u \in QV : OneRepeated(u)
  PROVE  Spec => []Tight
<1>1. FilterInv => Tight
  <2> SUFFICES ASSUME FilterInv, AtRest, NEW p \in li PROVE CheckNei(Justified(nei, li), p)
    BY DEF Tight, Supported
  <2>1. p[2] \in QV
    BY DEF FilterInv, EdgeInv, GraphInv, TypeOK, Compat
  <2> QED
    BY <2>1, FilterTight
<1> QED
  BY <1>1, FilterInvariant, PTL

-----------------------------------------------------------------------------
(* The index implements its abstract specification: the steps of a batch   *)
(* stutter, its first one ingests it and its last one settles on the       *)
(* largest set of pairs.                                                   *)
LEMMA SameLargest ==
  ASSUME NEW g, NEW L, L \subseteq Compat, Supported(g, L, L), Complete(g, L)
  PROVE  Abstract!Largest(g, L)
<1>1. Abstract!Compat = Compat
  BY DEF Abstract!Compat, Compat
<1>2. \A S : Abstract!Justified(g, S) = Justified(g, S)
  BY <1>1 DEF Abstract!Justified, Justified
<1>3. \A u, lb : Abstract!Group(u, lb) = Group(u, lb)
  BY DEF Abstract!Group, Group
<1>4. \A u : Abstract!RepLabels(u) = RepLabels(u)
  BY <1>3 DEF Abstract!RepLabels, RepLabels
<1>5. \A lists, p, group : Abstract!TryNei(lists, p, group) <=> TryNei(lists, p, group)
  BY DEF Abstract!TryNei, TryNei
<1>6. \A lists, p : Abstract!CheckNei(lists, p) <=> CheckNei(lists, p)
  BY <1>3, <1>4, <1>5 DEF Abstract!CheckNei, CheckNei
<1>7. \A S, T : Abstract!Supported(g, S, T) <=> Supported(g, S, T)
  BY <1>2, <1>6 DEF Abstract!Supported, Supported
<1>8. Abstract!Complete(g, L)
  BY <1>1, <1>7 DEF Abstract!Complete, Complete
<1> QED
  BY <1>1, <1>7, <1>8 DEF Abstract!Largest

(* Reading a window joins the ends of its labelled edges, those that were  *)
(* joined before included.                                                 *)
LEMMA BatchJoined ==
  ASSUME GraphInv, NEW b \in Batches, StartBatch(b)
  PROVE  nei' = [v \in DV |-> nei[v] \cup {x \in DV : Abstract!Joined(b, v, x)}]
<1>1. \A v, x : <<v, x>> \in Directed(Fresh(b)) <=> <<v, x>> \in Fresh(b) \/ <<x, v>> \in Fresh(b)
  <2>1. \A e \in Fresh(b) : e = <<e[1], e[2]>>
    BY InputAssumption DEF Fresh
  <2> QED
    BY <2>1 DEF Directed
<1>2. \A v, x \in DV :
        x \in nei[v] \/ <<v, x>> \in Directed(Fresh(b))
          <=> x \in nei[v] \/ Abstract!Joined(b, v, x)
  <2> TAKE v, x \in DV
  <2>1. <<v, x>> \in Fresh(b) <=> /\ \E k \in DOMAIN b : b[k] = <<v, x>>
                                  /\ GLabel[v] # NoLabel /\ GLabel[x] # NoLabel
                                  /\ x \notin nei[v]
    BY DEF Fresh
  <2>2. <<x, v>> \in Fresh(b) <=> /\ \E k \in DOMAIN b : b[k] = <<x, v>>
                                  /\ GLabel[v] # NoLabel /\ GLabel[x] # NoLabel
                                  /\ v \notin nei[x]
    BY DEF Fresh
  <2>3. x \in nei[v] <=> v \in nei[x]
    BY DEF GraphInv, Symmetric
  <2> QED
    BY <1>1, <2>1, <2>2, <2>3 DEF Abstract!Joined
<1>3. nei' = Join(nei, Directed(Fresh(b)))
  BY DEF StartBatch
<1> QED
  BY <1>2, <1>3 DEF Join

(* Only StartBatch leaves the rest, and only it changes the graph. *)
LEMMA WorkAtWork ==
  ASSUME Work
  PROVE  ~AtRest /\ UNCHANGED nei
BY DEF Work, AtRest, TurnOff, DelCollect, DelDone, DelErase, DelEraseDone, DelCheck,
       DelCheckDone, TurnOnInsert, TurnOnCheck, AddCollect, AddDone, AddInsert, AddCheck,
       AddCheckDelete, RecordActivated, ConstructUpdate

Settled == AtRest => Abstract!Largest(nei, li)

LEMMA FilterSettled ==
  ASSUME \A u \in QV : OneRepeated(u), FilterInv
  PROVE  Settled
<1> SUFFICES ASSUME AtRest PROVE Abstract!Largest(nei, li)
  BY DEF Settled
<1>1. li \subseteq Compat /\ \A p \in li : p[2] \in QV
  BY DEF FilterInv, EdgeInv, GraphInv, TypeOK, Compat
<1>2. Complete(nei, li)
  BY FilterSound DEF Sound, Deleting, AtRest
<1>3. Supported(nei, li, li)
  BY <1>1, FilterTight DEF Supported
<1> QED
  BY <1>1, <1>2, <1>3, SameLargest

(* After each batch, whatever the order of the deleting tasks, the index   *)
(* is the largest set of pairs that support one another in the graph with  *)
(* the batch inserted, for a query whose vertices have at most one         *)
(* repeated label each.                                                    *)
THEOREM IndexImplementsSpec ==
  ASSUME \A u \in QV : OneRepeated(u)
  PROVE  Spec => ImplementsIndexSpec
<1> DEFINE live == IF AtRest THEN li ELSE {}
<1>1. Init => Abstract!SInit
  BY DEF Init, AtRest, Abstract!SInit
<1>2. FilterInv => Settled
  BY FilterSettled
<1>3. FilterInv /\ Settled' /\ [Next]_vars => [Abstract!SNext]_<<nei, AtRest, live>>
  <2> SUFFICES ASSUME FilterInv, Settled', [Next]_vars
               PROVE  [Abstract!SNext]_<<nei, AtRest, live>>
    OBVIOUS
  <2>1. ASSUME NEW b \in Batches, StartBatch(b) PROVE Abstract!Ingest(b)
    <3>1. AtRest /\ ~AtRest' /\ live' = {}
      BY <2>1 DEF StartBatch, AtRest
    <3> QED
      BY <2>1, <3>1, BatchJoined DEF Abstract!Ingest, FilterInv, EdgeInv, AtRest
  <2>2. CASE Work /\ ~AtRest'
    <3>1. ~AtRest /\ UNCHANGED nei
      BY <2>2, WorkAtWork
    <3> QED
      BY <2>2, <3>1 DEF AtRest
  <2>3. CASE Work /\ AtRest'
    <3>1. ~AtRest /\ UNCHANGED nei /\ live' = li'
      BY <2>3, WorkAtWork
    <3>2. Abstract!Largest(nei, live')
      BY <2>3, <3>1 DEF Settled
    <3> QED
      BY <2>3, <3>1, <3>2 DEF Abstract!SNext, Abstract!Settle, AtRest
  <2>4. CASE UNCHANGED vars
    BY <2>4 DEF vars, AtRest
  <2> QED
    BY <2>1, <2>2, <2>3, <2>4 DEF Next, Abstract!SNext
<1> QED
  BY <1>1, <1>2, <1>3, FilterInvariant, PTL DEF Spec, ImplementsIndexSpec, Abstract!SSpec,
     Abstract!svars

-----------------------------------------------------------------------------
(* The rows at the end of the batch that was staged last, and the batch    *)
(* that is worked on or not staged yet.                                    *)
Base == IF stages = <<>> THEN mirror ELSE stages[Len(stages)].rows

InBatch == converted /\ Len(stages) < nBatch

(* The pairs that were on before the batch and are on now. *)
Old == li \ activated

BaseLists ==
  [v \in DV |-> [u \in QV |-> [w \in QV |-> {x \in DV : <<v, x, u, w>> \in Base}]]]

(* The window names the edge that r runs along. *)
OnBatch(r) == \E k \in DOMAIN batch : batch[k] \in {<<r[1], r[2]>>, <<r[2], r[1]>>}

(* No row of the batch before is erased: the pairs it relates stay on,     *)
(* since they support one another without the batch.                       *)
BaseKept ==
  \A r \in Base : r \in Related /\ Listed(r) /\ Owner(r) \in Old /\ Partner(r) \in Old

OldSupported == \A p \in Old : CheckNei(BaseLists, p)

(* What else is listed by those pairs was recorded, or is an edge of the   *)
(* window, which ConstructUpdate records.                                  *)
NewRecorded ==
  \A r \in Related : Listed(r) /\ Owner(r) \in Old => r \in Base \cup ins \/ OnBatch(r)

ActivatedRecorded ==
  pc \in {"construct", "rest"} => Tasks(activated \cap li, cand) \subseteq ins

(* An insertion is new, and is listed unless its erasure was recorded.     *)
InsertedNew == ins \cap Base = {} /\ ins \subseteq Related

InsertedListed == \A r \in ins : Listed(r) \/ <<0, r>> \in del

(* A deletion names an entry that is erased or an update.  Nothing is      *)
(* erased before the rounds of activation are over.                        *)
DeletedGone ==
  /\ \A d \in del : /\ d[2] \in Related
                    /\ (d[1] = 0 /\ ~Listed(d[2])) \/ (pc = "rest" /\ d \in upd)
  /\ pc \in {"insert", "check", "addCollect", "addInsert", "addCheck"} => del = {}
  /\ IsFiniteSet(del)

UpdatesRecorded == pc = "rest" => upd = UpdateEntries /\ upd \subseteq del

(* The entries of the first phase are those of the window, and a pair that *)
(* waits for its test is off.                                              *)
InsertOnBatch == pc = "insert" => \A t \in tmp : OnBatch(t)

TestedOff == pc \in {"addInsert", "addCheck"} => chk \cap li = {}

BatchFacts ==
  /\ BaseKept /\ OldSupported /\ NewRecorded /\ ActivatedRecorded
  /\ InsertedNew /\ InsertedListed /\ DeletedGone /\ UpdatesRecorded
  /\ InsertOnBatch /\ TestedOff

BatchInv == InBatch => BatchFacts

-----------------------------------------------------------------------------
(* The deltas of s lead from the rows of before to those of s, less the    *)
(* update index.                                                           *)
Leads(before, s) ==
  /\ s.ins \cap before = {}
  /\ (before \cup s.ins) \ BagToSet(s.del) = s.rows \ BagToSet(s.upd)

RowBags == UNION {[T -> Nat \ {0}] : T \in SUBSET Related}

StageType ==
  [ins : SUBSET Related, del : RowBags, upd : RowBags,
   flat : SUBSET Related, rows : SUBSET Related]

StagesOK ==
  /\ stages \in Seq(StageType)
  /\ \A i \in 1..Len(stages) :
       /\ BagToSet(stages[i].upd) \subseteq stages[i].rows
       /\ i > 1 => Leads(stages[i - 1].rows, stages[i])

(* Stage 1: all batches but the one at hand are staged, and when all are,  *)
(* the last rows are those of the CaLiG index.                             *)
StageOneInv ==
  /\ Len(stages) \in {nBatch - 1, nBatch}
  /\ ~converted => nBatch = 0 /\ mirror = {}
  /\ converted /\ Len(stages) = nBatch => AtRest /\ Base = Rows

(* Stage 2: the GPU index holds the rows of the mirror once each, which    *)
(* are those of the last batch completed, or of the batch at hand without  *)
(* its update index.                                                       *)
StageTwoInv ==
  /\ s2pc \in {"transfer", "update"} /\ s2b \in 0..Len(stages)
  /\ MirrorInSync
  /\ s2pc = "transfer" /\ s2b > 0 => mirror = stages[s2b].rows
  /\ s2pc = "transfer" /\ s2b = 0 /\ Len(stages) > 0 => Leads(mirror, stages[1])
  /\ s2pc = "update" => s2b < Len(stages) /\ mirror = Stage.rows \ BagToSet(UpdateIndex)

GlobalInv == FilterInv /\ BatchInv /\ StagesOK /\ StageOneInv /\ StageTwoInv

-----------------------------------------------------------------------------
(* The hypotheses.  With two repeated labels at a vertex the filter may    *)
(* keep a pair that fails (see OneRepeated), and a query edge whose number *)
(* does not fit into its bits is decoded as another.                       *)
SmallQuery ==
  /\ \A u \in QV : OneRepeated(u)
  /\ DOMAIN Directions \subseteq 1..TagSpan

LEMMA TagKept == \A i \in 1..32 : ((i - 1) % 32) + 1 = i
OBVIOUS

LEMMA PairsJoined ==
  ASSUME NEW S, NEW a \in S, NEW b \in S, NEW c \in S, NEW d \in S
  PROVE  <<a, b>> \o <<c, d>> = <<a, b, c, d>>
<1>1. <<a, b>> \in Seq(S) /\ <<c, d>> \in Seq(S) /\ <<a, b, c, d>> \in Seq(S)
  OBVIOUS
<1>2. Len(<<a, b>> \o <<c, d>>) = 4 /\ Len(<<a, b, c, d>>) = 4
  BY <1>1
<1>3. \A i \in 1..4 : (<<a, b>> \o <<c, d>>)[i] = <<a, b, c, d>>[i]
  BY <1>1
<1> QED
  BY <1>1, <1>2, <1>3, SeqEqual, ConcatProperties

(* What is encoded is decoded again. *)
LEMMA PackedSame ==
  ASSUME SmallQuery, NEW r \in Related
  PROVE  Packed(r) = r
<1> DEFINE Edge(i) == Directions[i] = <<r[3], r[4]>>
           j == CHOOSE i \in DOMAIN Directions : Edge(i)
<1>1. r = <<r[1], r[2], r[3], r[4]>> /\ <<r[3], r[4]>> \in {p \in QV \X QV : p[2] \in QNei[p[1]]}
  BY RelatedEnds
<1>2. \E i \in DOMAIN Directions : Edge(i)
  BY <1>1, DirectionsAssumption
<1>3. j \in DOMAIN Directions /\ Edge(j)
  BY <1>2
<1>4. j \in 1..32
  BY <1>3 DEF SmallQuery, TagSpan
<1> HIDE DEF j
<1>5. ((j - 1) % TagSpan) + 1 = j
  BY <1>4, TagKept DEF TagSpan
<1>6. Packed(r) = <<r[1], r[2]>> \o <<r[3], r[4]>>
  BY <1>3, <1>5 DEF Packed, j
<1>7. <<r[1], r[2]>> \o <<r[3], r[4]>> = <<r[1], r[2], r[3], r[4]>>
  <2> DEFINE E == DV \cup QV
  <2>1. r[1] \in E /\ r[2] \in E /\ r[3] \in E /\ r[4] \in E
    BY RelatedEnds
  <2> HIDE DEF E
  <2>2. \A a, b, c, d \in E : <<a, b>> \o <<c, d>> = <<a, b, c, d>>
    BY PairsJoined
  <2> QED
    BY <2>1, <2>2
<1> QED
  BY <1>1, <1>6, <1>7

LEMMA EncodedBag ==
  ASSUME SmallQuery, NEW T, IsFiniteSet(T), \A t \in T : t[2] \in Related
  PROVE  /\ Encoded(T) \in RowBags
         /\ BagToSet(Encoded(T)) = {t[2] : t \in T}
<1> DEFINE S == {Packed(t[2]) : t \in T}
           At(e) == {t \in T : Packed(t[2]) = e}
<1>1. \A t \in T : Packed(t[2]) = t[2]
  BY PackedSame
<1>2. S = {t[2] : t \in T} /\ S \subseteq Related
  BY <1>1
<1>3. ASSUME NEW e \in S PROVE Cardinality(At(e)) \in Nat \ {0}
  <2>1. IsFiniteSet(At(e))
    BY FS_Subset
  <2>2. At(e) # {}
    OBVIOUS
  <2> QED
    BY <2>1, <2>2, FS_CardinalityType, FS_EmptySet
<1>4. Encoded(T) = [e \in S |-> Cardinality(At(e))]
  BY DEF Encoded
<1>5. Encoded(T) \in [S -> Nat \ {0}] /\ DOMAIN Encoded(T) = S
  BY <1>3, <1>4
<1> QED
  BY <1>2, <1>5 DEF RowBags, BagToSet

(* Bags that hold everything once are merged and reduced as sets are. *)
LEMMA MergedOnce ==
  ASSUME NEW M, NEW I, I \cap M = {}
  PROVE  SetToBag(M) (+) SetToBag(I) = SetToBag(M \cup I)
BY DEF SetToBag, (+)

LEMMA ReducedOnce ==
  ASSUME NEW M, NEW D \in RowBags
  PROVE  SetToBag(M) (-) D = SetToBag(M \ BagToSet(D))
<1>1. \A e \in DOMAIN D : D[e] \in Nat \ {0}
  BY DEF RowBags
<1> DEFINE S == {d \in M : (IF d \in DOMAIN D THEN 1 - D[d] ELSE 1) > 0}
<1>2. S = M \ BagToSet(D)
  BY <1>1 DEF BagToSet
<1>3. SetToBag(M) (-) D = [e \in S |-> IF e \in DOMAIN D THEN 1 - D[e] ELSE 1]
  BY DEF SetToBag, (-)
<1> QED
  BY <1>2, <1>3 DEF SetToBag, BagToSet

(* At rest, the rows are the entries of the pairs that are on, in both     *)
(* directions.                                                             *)
LEMMA RowsAtRest ==
  ASSUME FilterInv, AtRest, NEW r \in Related
  PROVE  /\ r \in Rows <=> Listed(r) /\ Owner(r) \in li
         /\ r \in Rows => Partner(r) \in li /\ Mirror(r) \in Rows
<1>i. TypeOK /\ Symmetric /\ ListsExact
  BY FilterListsExact DEF FilterInv, EdgeInv, GraphInv
<1>1. ASSUME NEW q \in Rows PROVE q \in Related /\ Listed(q) /\ Owner(q) \in li
  BY <1>i, TasksType DEF Rows, Listed, TypeOK
<1>2. ASSUME NEW q \in Related, Listed(q), Owner(q) \in li PROVE q \in Rows
  BY <1>2, ListedTask DEF Rows
<1>3. ASSUME r \in Rows PROVE Partner(r) \in li /\ Mirror(r) \in Rows
  <2>1. Listed(r) /\ Owner(r) \in li
    BY <1>1, <1>3
  <2>2. r[2] \in nei[r[1]] /\ <<r[2], r[4]>> \in li
    BY <1>i, <2>1, RelatedEnds DEF ListsExact, Listed
  <2>3. Partner(r) \in li /\ Mirror(r) \in Related /\ Mirror(r) = <<r[2], r[1], r[4], r[3]>>
    BY <2>2, RelatedEnds DEF Mirror
  <2>4. r[1] \in nei[r[2]] /\ <<r[1], r[3]>> \in li /\ r[3] \in QNei[r[4]]
    BY <1>i, <2>1, <2>2, RelatedEnds, QueryAssumption DEF Symmetric
  <2>5. r[1] \in cand[r[2]][r[4]][r[3]]
    BY <1>i, <2>2, <2>4 DEF ListsExact
  <2>6. Listed(Mirror(r)) /\ Owner(Mirror(r)) \in li
    BY <2>2, <2>3, <2>5 DEF Listed, Owner
  <2> QED
    BY <1>2, <2>3, <2>6
<1> QED
  BY <1>1, <1>2, <1>3

-----------------------------------------------------------------------------
(* The steps of Stage 1 within a batch. *)
LEMMA BaseListed ==
  ASSUME BaseKept, OldSupported, NEW lists, NEW p \in Old, p \in Compat,
         \A r \in Base : Owner(r) = p => r[2] \in lists[r[1]][r[3]][r[4]]
  PROVE  CheckNei(lists, p)
<1>1. p = <<p[1], p[2]>> /\ p[1] \in DV /\ p[2] \in QV /\ QNei[p[2]] \subseteq QV
  BY QueryAssumption DEF Compat
<1>2. ASSUME NEW w \in QNei[p[2]], NEW x \in BaseLists[p[1]][p[2]][w]
      PROVE  x \in lists[p[1]][p[2]][w]
  <2>1. <<p[1], x, p[2], w>> \in Base
    BY <1>1, <1>2 DEF BaseLists
  <2> QED
    BY <1>1, <2>1 DEF Owner
<1>3. CheckNei(BaseLists, p)
  BY DEF OldSupported
<1> QED
  BY <1>2, <1>3, CheckNeiMonotone

(* The old pairs pass their test against their lists, whatever is erased   *)
(* and inserted.                                                           *)
LEMMA OldPasses ==
  ASSUME TypeOK, BaseKept, OldSupported, NEW p \in Old
  PROVE  CheckNei(cand, p)
<1>1. p \in Compat
  BY DEF Old, TypeOK
<1>2. \A r \in Base : r[2] \in cand[r[1]][r[3]][r[4]]
  BY DEF BaseKept, Listed
<1> QED
  BY <1>1, <1>2, BaseListed

LEMMA EraseKeepsBase ==
  ASSUME TypeOK, OwnersOff, BaseKept, NEW t \in tmp, DelErase(t), NEW r \in Base
  PROVE  Listed(r)'
<1>1. r \in Related /\ Listed(r) /\ Partner(r) \in li
  BY DEF BaseKept, Old
<1>2. t \in Related /\ Owner(t) \notin li
  BY DEF TypeOK, OwnersOff, DelErase
<1>3. r # Mirror(t)
  BY <1>1, <1>2, RelatedEnds
<1> QED
  BY <1>1, <1>3, EraseOther DEF Listed

(* No pair that was on before the batch goes off during the batch. *)
LEMMA OldStays ==
  ASSUME EdgeInv, QueueInv, BaseKept, OldSupported, TestedOff, Work
  PROVE  Old' = Old
<1>t. TypeOK
  BY DEF EdgeInv, GraphInv
<1>1. CASE TurnOff
  <2>1. \A p \in Old : CheckNei(cand, p)
    BY <1>t, OldPasses
  <2> QED
    BY <1>1, <2>1 DEF TurnOff, Old, Failing
<1>2. ASSUME NEW t \in tmp, DelErase(t) PROVE Old' = Old
  <2> DEFINE p == Partner(t)
             left == cand[p[1]][p[2]][t[3]] \ {t[1]}
  <2>1. t \in Related /\ p \in Compat /\ p[1] \in DV /\ p[2] \in QV /\ t[3] \in QNei[p[2]]
        /\ p = <<p[1], p[2]>> /\ t[3] \in QV
    BY <1>t, RelatedEnds, QueryAssumption DEF TypeOK, Compat
  <2>2. ASSUME p \in Old PROVE left # {}
    <3>1. \A r \in Base : r[2] \in cand'[r[1]][r[3]][r[4]]
      BY <1>t, <1>2, EraseKeepsBase DEF QueueInv, Listed
    <3>2. CheckNei(cand', p)
      BY <2>1, <2>2, <3>1, BaseListed
    <3>3. cand'[p[1]][p[2]][t[3]] # {}
      BY <2>1, <3>2 DEF CheckNei
    <3>4. cand'[p[1]][p[2]][t[3]] = left
      <4>1. Erased(t)
        BY <1>t, <1>2, EraseEntries
      <4> QED
        BY <2>1, <4>1 DEF Erased
    <3> QED
      BY <3>3, <3>4
  <2>3. activated' = activated /\ li' = IF left = {} THEN li \ {p} ELSE li
    BY <1>2 DEF DelErase
  <2> QED
    BY <2>2, <2>3 DEF Old
<1>3. ASSUME NEW c \in chkDel, DelCheck(c) PROVE Old' = Old
  <2>1. ASSUME c[1] \in Old PROVE TryNei(cand, c[1], Group(c[1][2], c[2]))
    BY <1>t, <2>1, OldPasses DEF CheckNei, QueueInv, ChecksRepeated
  <2> QED
    BY <1>3, <2>1 DEF DelCheck, Old
<1>4. CASE TurnOnCheck
  BY <1>4 DEF TurnOnCheck, Old
<1>5. CASE AddCheck
  <2>1. chk \cap li = {}
    BY <1>5 DEF AddCheck, TestedOff
  <2> QED
    BY <1>5, <2>1 DEF AddCheck, Old
<1>6. CASE DelCollect \/ DelDone \/ DelEraseDone \/ DelCheckDone \/ TurnOnInsert \/ AddCollect
  BY <1>6 DEF DelCollect, DelDone, DelEraseDone, DelCheckDone, TurnOnInsert, AddCollect, Old
<1>7. CASE AddDone \/ AddInsert \/ AddCheckDelete \/ RecordActivated \/ ConstructUpdate
  BY <1>7 DEF AddDone, AddInsert, AddCheckDelete, RecordActivated, ConstructUpdate, Old
<1> QED
  BY <1>1, <1>2, <1>3, <1>4, <1>5, <1>6, <1>7 DEF Work

(* A step that leaves the lists alone. *)
LEMMA ListsAlone ==
  ASSUME BaseKept, OldSupported, NewRecorded, InsertedNew, InsertedListed,
         Base' = Base, Old' = Old, UNCHANGED <<cand, batch, ins>>, del \subseteq del'
  PROVE  (BaseKept /\ OldSupported /\ NewRecorded /\ InsertedNew /\ InsertedListed)'
<1>1. BaseLists' = BaseLists
  BY DEF BaseLists
<1>2. OldSupported'
  BY <1>1 DEF OldSupported
<1>3. \A r : Listed(r)' = Listed(r) /\ OnBatch(r)' = OnBatch(r)
  BY DEF Listed, OnBatch
<1>4. BaseKept'
  BY <1>3 DEF BaseKept
<1>5. NewRecorded'
  BY <1>3 DEF NewRecorded
<1>6. InsertedNew' /\ InsertedListed'
  BY <1>3 DEF InsertedNew, InsertedListed
<1> QED
  BY <1>2, <1>4, <1>5, <1>6

(* A step that inserts the entries T: they are those of the window, or new *)
(* ones are recorded.                                                      *)
LEMMA ListsExtended ==
  ASSUME EdgeInv, BaseKept, OldSupported, NewRecorded, InsertedNew, InsertedListed,
         Base' = Base, Old' = Old, UNCHANGED <<batch, del>>,
         NEW T, T \subseteq Related, cand' = Extend(cand, T),
         \/ ins' = ins /\ \A r \in T : OnBatch(r)
         \/ ins' = ins \cup Added(T)
  PROVE  (BaseKept /\ OldSupported /\ NewRecorded /\ InsertedNew /\ InsertedListed)'
<1>1. BaseLists' = BaseLists
  BY DEF BaseLists
<1>2. OldSupported'
  BY <1>1 DEF OldSupported
<1>3. ASSUME NEW r \in Related PROVE Listed(r)' <=> Listed(r) \/ r \in T
  <2>1. r = <<r[1], r[2], r[3], r[4]>> /\ r[1] \in DV /\ r[2] \in DV /\ r[3] \in QV /\ r[4] \in QV
    BY RelatedEnds
  <2>2. cand'[r[1]][r[3]][r[4]]
          = cand[r[1]][r[3]][r[4]] \cup {x \in DV : <<r[1], x, r[3], r[4]>> \in T}
    BY <2>1, ExtendEntry
  <2> QED
    BY <2>1, <2>2 DEF Listed
<1>4. \A r : OnBatch(r)' = OnBatch(r)
  BY DEF OnBatch
<1>5. Added(T) = {r \in T : ~Listed(r)}
  BY DEF Added, Present, Listed
<1>6. BaseKept'
  BY <1>3 DEF BaseKept
<1>7. NewRecorded'
  BY <1>3, <1>4, <1>5 DEF NewRecorded
<1>8. InsertedNew'
  BY <1>5 DEF InsertedNew, BaseKept
<1>9. InsertedListed'
  BY <1>3, <1>5 DEF InsertedListed, InsertedNew
<1> QED
  BY <1>2, <1>6, <1>7, <1>8, <1>9

LEMMA UpdateEntriesRelated ==
  ASSUME TypeOK
  PROVE  /\ \A d \in UpdateEntries : d[2] \in Related
         /\ IsFiniteSet(UpdateEntries)
<1>1. ASSUME NEW k \in DOMAIN batch PROVE Realised(k) \subseteq Related
  <2>1. \A t \in Tasks(li, cand) : t \in Related /\ Mirror(t) \in Related
    BY TasksType, MirrorRelated DEF TypeOK
  <2> QED
    BY <2>1 DEF Realised, BothWays
<1>2. UpdateEntries \subseteq (DOMAIN batch) \X Related
  BY <1>1 DEF UpdateEntries
<1>3. IsFiniteSet(DOMAIN batch)
  <2>1. DOMAIN batch = 1..Len(batch) /\ Len(batch) \in Nat
    BY DEF TypeOK
  <2> QED
    BY <2>1, FS_Interval
<1>4. IsFiniteSet(Related)
  <2>1. IsFiniteSet(DV \X DV) /\ IsFiniteSet(QV \X QV)
    BY FS_Product, QueryAssumption, DataAssumption
  <2>2. IsFiniteSet((DV \X DV) \X (QV \X QV))
    BY <2>1, FS_Product
  <2> DEFINE f == [t \in (DV \X DV) \X (QV \X QV) |-> <<t[1][1], t[1][2], t[2][1], t[2][2]>>]
             Flat == {<<t[1][1], t[1][2], t[2][1], t[2][2]>> : t \in (DV \X DV) \X (QV \X QV)}
  <2>3. f \in Surjection((DV \X DV) \X (QV \X QV), Flat)
    BY DEF Surjection
  <2>4. IsFiniteSet(Flat)
    BY <2>2, <2>3, FS_Surjection
  <2>5. Related \subseteq Flat
    <3>1. ASSUME NEW r \in Related PROVE r \in Flat
      <4> DEFINE t == <<<<r[1], r[2]>>, <<r[3], r[4]>>>>
      <4>1. t \in (DV \X DV) \X (QV \X QV) /\ r = <<t[1][1], t[1][2], t[2][1], t[2][2]>>
        BY RelatedEnds
      <4> QED
        BY <4>1
    <3> QED
      BY <3>1
  <2> QED
    BY <2>4, <2>5, FS_Subset
<1>5. IsFiniteSet((DOMAIN batch) \X Related)
  BY <1>3, <1>4, FS_Product
<1> QED
  BY <1>2, <1>5, FS_Subset

(* What is erased was listed, is recorded, and is nothing of Base. *)
LEMMA BatchErase ==
  ASSUME EdgeInv, QueueInv, BatchFacts, Base' = Base, Old' = Old, NEW t \in tmp, DelErase(t)
  PROVE  BatchFacts'
<1> USE DEF BatchFacts
<1>t. TypeOK /\ OwnersOff /\ t \in Related
  BY DEF EdgeInv, GraphInv, QueueInv, TypeOK
<1>1. /\ pc = "delErase" /\ pc' = "delErase" /\ UNCHANGED <<batch, ins, upd>>
      /\ del' = del \cup {<<0, r>> : r \in Present(cand, {Mirror(t)})}
  BY DEF DelErase
<1>2. Mirror(t) \in Related /\ Mirror(t) = <<t[2], t[1], t[4], t[3]>> /\ Partner(t) = <<t[2], t[4]>>
      /\ t[2] \in DV /\ t[4] \in QV /\ t[3] \in QV
  BY <1>t, RelatedEnds DEF Mirror
<1>e. Erased(t)
  BY <1>t, EraseEntries
<1>3. ~Listed(Mirror(t))'
  <2>1. cand'[t[2]][t[4]][t[3]] = cand[t[2]][t[4]][t[3]] \ {t[1]}
    BY <1>2, <1>e DEF Erased
  <2> QED
    BY <1>2, <2>1 DEF Listed
<1>4. ASSUME NEW r \in Related, Listed(r)' PROVE Listed(r)
  <2>1. r[1] \in DV /\ r[3] \in QV /\ r[4] \in QV
    BY RelatedEnds
  <2>2. cand'[r[1]][r[3]][r[4]] \subseteq cand[r[1]][r[3]][r[4]]
    BY <1>e, <2>1 DEF Erased
  <2> QED
    BY <1>4, <2>2 DEF Listed
<1>5. ASSUME NEW r \in Related, Listed(r), r # Mirror(t) PROVE Listed(r)'
  BY <1>t, <1>5, EraseOther DEF Listed
<1>6. \A r : OnBatch(r)' = OnBatch(r)
  BY <1>1 DEF OnBatch
<1>7. BaseKept'
  BY <1>t, EraseKeepsBase DEF BaseKept
<1>8. OldSupported'
  <2>1. BaseLists' = BaseLists
    BY DEF BaseLists
  <2> QED
    BY <2>1 DEF OldSupported
<1>9. NewRecorded' /\ InsertedNew'
  BY <1>1, <1>4, <1>6 DEF NewRecorded, InsertedNew
<1>10. InsertedListed'
  <2> SUFFICES ASSUME NEW r \in ins, ~Listed(r)' PROVE <<0, r>> \in del'
    BY <1>1 DEF InsertedListed
  <2>1. CASE Listed(r)
    <3>1. r = Mirror(t)
      BY <1>5, <2>1 DEF InsertedNew
    <3>2. r \in Present(cand, {Mirror(t)})
      BY <2>1, <3>1 DEF Present, Listed
    <3> QED
      BY <1>1, <3>2
  <2>2. CASE ~Listed(r)
    BY <1>1, <2>2 DEF InsertedListed
  <2> QED
    BY <2>1, <2>2
<1>11. DeletedGone'
  <2>1. Present(cand, {Mirror(t)}) \subseteq {Mirror(t)}
    BY DEF Present
  <2>2. \A d \in del' : d \in del \/ d = <<0, Mirror(t)>>
    BY <1>1, <2>1
  <2>3. ASSUME NEW d \in del' PROVE d[2] \in Related /\ d[1] = 0 /\ ~Listed(d[2])'
    <3>1. CASE d \in del
      <4>1. d[2] \in Related /\ d[1] = 0 /\ ~Listed(d[2])
        BY <1>1, <3>1 DEF DeletedGone
      <4> QED
        BY <4>1, <1>4
    <3>2. CASE d = <<0, Mirror(t)>>
      <4>1. d[1] = 0 /\ d[2] = Mirror(t)
        BY <3>2
      <4> QED
        BY <4>1, <1>2, <1>3
    <3> QED
      BY <2>2, <3>1, <3>2
  <2>4. del' \subseteq del \cup {<<0, Mirror(t)>>}
    BY <2>2
  <2>5. IsFiniteSet(del')
    <3>1. IsFiniteSet(del \cup {<<0, Mirror(t)>>})
      BY FS_AddElement DEF DeletedGone
    <3> QED
      BY <2>4, <3>1, FS_Subset
  <2> QED
    BY <1>1, <2>3, <2>5 DEF DeletedGone
<1>12. (ActivatedRecorded /\ UpdatesRecorded /\ InsertOnBatch /\ TestedOff)'
  BY <1>1 DEF ActivatedRecorded, UpdatesRecorded, InsertOnBatch, TestedOff
<1> QED
  BY <1>7, <1>8, <1>9, <1>10, <1>11, <1>12

LEMMA BatchStep ==
  ASSUME FilterInv, BatchFacts, Base' = Base, nBatch # 0, Work
  PROVE  BatchFacts'
<1>i. EdgeInv /\ QueueInv /\ TypeOK
  BY DEF FilterInv, EdgeInv, GraphInv
<1>o. Old' = Old
  BY <1>i, OldStays DEF BatchFacts
<1>p. pc' # "insert" /\ pc # "rest"
  BY WorkAtWork DEF Work, AtRest, TurnOff, DelCollect, DelDone, DelErase, DelEraseDone,
     DelCheck, DelCheckDone, TurnOnInsert, TurnOnCheck, AddCollect, AddDone, AddInsert,
     AddCheck, AddCheckDelete, RecordActivated, ConstructUpdate
<1>s. ASSUME UNCHANGED <<cand, batch, ins, del, upd>>,
             pc' \notin {"construct", "rest"},
             pc' \in {"check", "addCollect", "addInsert", "addCheck"} => del = {},
             TestedOff'
      PROVE  BatchFacts'
  <2>1. (BaseKept /\ OldSupported /\ NewRecorded /\ InsertedNew /\ InsertedListed)'
    BY <1>o, <1>s, ListsAlone DEF BatchFacts
  <2>2. \A r : Listed(r)' = Listed(r)
    BY <1>s DEF Listed
  <2>3. DeletedGone'
    BY <1>p, <1>s, <2>2 DEF BatchFacts, DeletedGone
  <2>4. ActivatedRecorded' /\ UpdatesRecorded' /\ InsertOnBatch'
    BY <1>p, <1>s DEF ActivatedRecorded, UpdatesRecorded, InsertOnBatch
  <2> QED
    BY <1>s, <2>1, <2>3, <2>4 DEF BatchFacts
<1>1. CASE TurnOff \/ DelCollect \/ DelEraseDone \/ DelCheckDone
  BY <1>1, <1>s DEF TurnOff, DelCollect, DelEraseDone, DelCheckDone, TestedOff, deltas
<1>2. CASE DelDone
  BY <1>2, <1>s DEF DelDone, TestedOff, deltas
<1>3. ASSUME NEW t \in tmp, DelErase(t) PROVE BatchFacts'
  BY <1>i, <1>o, <1>3, BatchErase
<1>4. ASSUME NEW c \in chkDel, DelCheck(c) PROVE BatchFacts'
  BY <1>4, <1>s DEF DelCheck, TestedOff, deltas
<1>5. CASE TurnOnInsert
  <2>1. /\ pc = "insert" /\ pc' = "check" /\ cand' = Extend(cand, tmp)
        /\ UNCHANGED <<batch, ins, del, upd>> /\ tmp \subseteq Related
        /\ \A r \in tmp : OnBatch(r)
    BY <1>i, <1>5 DEF TurnOnInsert, deltas, BatchFacts, InsertOnBatch, TypeOK
  <2>2. (BaseKept /\ OldSupported /\ NewRecorded /\ InsertedNew /\ InsertedListed)'
    BY <1>i, <1>o, <2>1, ListsExtended DEF BatchFacts
  <2>3. del = {} /\ DeletedGone'
    BY <2>1 DEF BatchFacts, DeletedGone
  <2>4. (ActivatedRecorded /\ UpdatesRecorded /\ InsertOnBatch /\ TestedOff)'
    BY <2>1 DEF ActivatedRecorded, UpdatesRecorded, InsertOnBatch, TestedOff
  <2> QED
    BY <2>2, <2>3, <2>4 DEF BatchFacts
<1>6. CASE TurnOnCheck \/ AddDone \/ AddCheck
  BY <1>6, <1>s DEF TurnOnCheck, AddDone, AddCheck, TestedOff, deltas, BatchFacts, DeletedGone
<1>7. CASE AddCollect
  <2>1. TestedOff'
    BY <1>7 DEF AddCollect, ToCheck, TestedOff
  <2> QED
    BY <1>7, <2>1, <1>s DEF AddCollect, deltas, BatchFacts, DeletedGone
<1>8. CASE AddInsert
  <2> DEFINE records == {Mirror(t) : t \in tmp}
  <2>1. /\ pc = "addInsert" /\ pc' = "addCheck" /\ cand' = Extend(cand, records)
        /\ ins' = ins \cup Added(records) /\ UNCHANGED <<li, batch, chk, del, upd>>
    BY <1>8 DEF AddInsert
  <2>2. records \subseteq Related
    BY <1>i, MirrorRelated DEF TypeOK
  <2> HIDE DEF records
  <2>3. (BaseKept /\ OldSupported /\ NewRecorded /\ InsertedNew /\ InsertedListed)'
    BY <1>i, <1>o, <2>1, <2>2, ListsExtended DEF BatchFacts
  <2>4. del = {} /\ DeletedGone'
    BY <2>1 DEF BatchFacts, DeletedGone
  <2>5. (ActivatedRecorded /\ UpdatesRecorded /\ InsertOnBatch /\ TestedOff)'
    BY <2>1 DEF BatchFacts, ActivatedRecorded, UpdatesRecorded, InsertOnBatch, TestedOff
  <2> QED
    BY <2>3, <2>4, <2>5 DEF BatchFacts
<1>9. CASE AddCheckDelete
  BY <1>9, <1>s DEF AddCheckDelete, TestedOff, deltas
<1>10. CASE RecordActivated
  <2> DEFINE New == Tasks(activated \cap li, cand)
  <2>1. /\ pc = "record" /\ pc' = "construct" /\ ins' = ins \cup New
        /\ UNCHANGED <<cand, li, batch, activated, chk, del, upd>>
    BY <1>10 DEF RecordActivated, queues
  <2>2. \A r \in New : r \in Related /\ Listed(r) /\ Owner(r) \in activated
    BY <1>i, TasksType DEF TypeOK, Listed
  <2> HIDE DEF New
  <2>3. /\ \A r : Listed(r)' = Listed(r) /\ OnBatch(r)' = OnBatch(r)
        /\ BaseLists' = BaseLists
    BY <2>1 DEF Listed, OnBatch, BaseLists
  <2>4. BaseKept' /\ OldSupported' /\ NewRecorded'
    BY <1>o, <2>1, <2>3 DEF BatchFacts, BaseKept, OldSupported, NewRecorded
  <2>5. InsertedNew' /\ InsertedListed'
    BY <2>1, <2>2, <2>3 DEF BatchFacts, BaseKept, Old, InsertedNew, InsertedListed
  <2>6. DeletedGone'
    BY <2>1, <2>3 DEF BatchFacts, DeletedGone
  <2>7. ActivatedRecorded'
    BY <2>1 DEF ActivatedRecorded, New
  <2>8. (UpdatesRecorded /\ InsertOnBatch /\ TestedOff)'
    BY <2>1 DEF UpdatesRecorded, InsertOnBatch, TestedOff
  <2> QED
    BY <2>4, <2>5, <2>6, <2>7, <2>8 DEF BatchFacts
<1>11. CASE ConstructUpdate
  <2>1. /\ pc = "construct" /\ pc' = "rest" /\ upd' = UpdateEntries
        /\ del' = del \cup UpdateEntries
        /\ UNCHANGED <<cand, li, batch, activated, chk, ins>>
    BY <1>11 DEF ConstructUpdate, queues
  <2>2. UpdateEntries' = UpdateEntries
    BY <2>1 DEF UpdateEntries, Realised
  <2>3. (BaseKept /\ OldSupported /\ NewRecorded /\ InsertedNew /\ InsertedListed)'
    BY <1>o, <2>1, ListsAlone DEF BatchFacts
  <2>4. \A r : Listed(r)' = Listed(r)
    BY <2>1 DEF Listed
  <2>5. DeletedGone'
    <3>1. IsFiniteSet(del')
      BY <1>i, <2>1, UpdateEntriesRelated, FS_Union DEF BatchFacts, DeletedGone
    <3> QED
      BY <1>i, <2>1, <2>4, <3>1, UpdateEntriesRelated DEF BatchFacts, DeletedGone
  <2>6. UpdatesRecorded'
    BY <2>1, <2>2 DEF UpdatesRecorded
  <2>7. (ActivatedRecorded /\ InsertOnBatch /\ TestedOff)'
    BY <2>1 DEF BatchFacts, ActivatedRecorded, InsertOnBatch, TestedOff
  <2> QED
    BY <2>3, <2>5, <2>6, <2>7 DEF BatchFacts
<1> QED
  BY <1>1, <1>2, <1>3, <1>4, <1>5, <1>6, <1>7, <1>8, <1>9, <1>10, <1>11 DEF Work

(* At the start of a batch the rows of the batch before are those of the   *)
(* lists, and every pair that is on passes its test.                       *)
LEMMA BatchStart ==
  ASSUME SmallQuery, FilterInv, AtRest, Base = Rows, Base' = Base,
         NEW b \in Batches, StartBatch(b)
  PROVE  BatchFacts'
<1>i. TypeOK /\ OnPasses /\ chkDel = {} /\ pc = "rest"
  BY DEF FilterInv, EdgeInv, GraphInv, QueueInv, Drained, AtRest
<1>1. /\ pc' = "insert" /\ UNCHANGED <<cand, li>> /\ batch' = b
      /\ tmp' = NewTasks(Directed(Fresh(b)))
      /\ ins' = {} /\ del' = {} /\ activated' = {}
  BY DEF StartBatch
<1>2. Old' = li /\ \A r : Listed(r)' = Listed(r)
  BY <1>1 DEF Old, Listed
<1>3. \A r \in Base : r \in Related
  BY <1>i, TasksType DEF Rows, TypeOK
<1>4. BaseKept'
  BY <1>2, <1>3, RowsAtRest DEF BaseKept
<1>5. NewRecorded'
  BY <1>2, RowsAtRest DEF NewRecorded
<1>6. OldSupported'
  <2> SUFFICES ASSUME NEW p \in li PROVE CheckNei(BaseLists, p)
    BY <1>2 DEF OldSupported, BaseLists
  <2>1. p = <<p[1], p[2]>> /\ p \in Compat /\ p[1] \in DV /\ p[2] \in QV /\ QNei[p[2]] \subseteq QV
    BY <1>i, QueryAssumption DEF TypeOK, Compat
  <2>2. Inhabited(p) /\ Matched(p)
    BY <1>i, <2>1 DEF OnPasses, SmallQuery
  <2>3. CheckNei(cand, p)
    BY <1>i, <2>2 DEF CheckNei, Inhabited, Matched
  <2>4. ASSUME NEW w \in QNei[p[2]], NEW x \in cand[p[1]][p[2]][w]
        PROVE  x \in BaseLists[p[1]][p[2]][w]
    <3> DEFINE r == <<p[1], x, p[2], w>>
    <3>1. r \in Related /\ x \in DV
      BY <2>1, <2>4 DEF FilterInv, EdgeInv, GraphInv, Entered, Related, Records
    <3>2. r \in Base
      BY <2>1, <2>4, <3>1, RowsAtRest DEF Listed, Owner
    <3> QED
      BY <2>1, <3>1, <3>2 DEF BaseLists
  <2> QED
    BY <2>3, <2>4, CheckNeiMonotone
<1>7. ActivatedRecorded' /\ InsertedNew' /\ InsertedListed' /\ UpdatesRecorded' /\ TestedOff'
  BY <1>1 DEF ActivatedRecorded, InsertedNew, InsertedListed, UpdatesRecorded, TestedOff
<1>8. DeletedGone'
  BY <1>1, FS_EmptySet DEF DeletedGone
<1>9. InsertOnBatch'
  <2> SUFFICES ASSUME NEW t \in NewTasks(Directed(Fresh(b)))
               PROVE  \E k \in DOMAIN b : b[k] \in {<<t[1], t[2]>>, <<t[2], t[1]>>}
    BY <1>1 DEF InsertOnBatch, OnBatch
  <2>1. <<t[1], t[2]>> \in Directed(Fresh(b))
    BY DEF NewTasks
  <2>2. \A e \in Fresh(b) : e = <<e[1], e[2]>> /\ \E k \in DOMAIN b : b[k] = e
    BY InputAssumption DEF Fresh
  <2>3. <<t[1], t[2]>> \in Fresh(b) \/ <<t[2], t[1]>> \in Fresh(b)
    BY <2>1, <2>2 DEF Directed
  <2> QED
    BY <2>2, <2>3
<1> QED
  BY <1>4, <1>5, <1>6, <1>7, <1>8, <1>9 DEF BatchFacts

-----------------------------------------------------------------------------
(* What Prepare stages.  Every row has two numbered ends; an entry that    *)
(* was inserted and erased in the same batch is staged as both or neither. *)
StagedIns == {d \in ins : Owner(d) \in li /\ Numbered(NumberedNow, d)}
StagedDel == {t \in del : Numbered(NumberedNow, t[2])}
StagedUpd == {t \in upd : Numbered(NumberedNow, t[2])}

LEMMA RowsNumbered ==
  ASSUME FilterInv, AtRest, NEW r \in Rows, r \in Related, NEW known,
         \A p \in li : p[1] \in known
  PROVE  Numbered(known, r)
<1>1. Owner(r) \in li /\ Partner(r) \in li
  BY RowsAtRest
<1>2. Owner(r)[1] = r[1] /\ Partner(r)[1] = r[2]
  BY DEF Owner, Partner
<1> QED
  BY <1>1, <1>2 DEF Numbered

(* A row that an edge of the window realises is an update, and every       *)
(* update is a row.                                                        *)
LEMMA UpdatesAreRows ==
  ASSUME FilterInv, AtRest
  PROVE  /\ \A d \in UpdateEntries : d[2] \in Rows
         /\ \A r \in Rows : OnBatch(r) => \E k \in DOMAIN batch : <<k, r>> \in UpdateEntries
<1>i. \A r \in Rows : r \in Related
  BY TasksType DEF Rows, FilterInv, EdgeInv, GraphInv, TypeOK
<1>m. \A r \in Rows : Mirror(r) \in Rows /\ Mirror(Mirror(r)) = r
                      /\ Mirror(r)[1] = r[2] /\ Mirror(r)[2] = r[1]
  BY <1>i, RowsAtRest, RelatedEnds DEF Mirror
<1>1. \A k : Realised(k) \subseteq Rows
  BY <1>m DEF Realised, BothWays, Rows
<1>2. ASSUME NEW d \in UpdateEntries PROVE d[2] \in Rows
  BY <1>1 DEF UpdateEntries
<1>3. ASSUME NEW r \in Rows, NEW k \in DOMAIN batch, batch[k] \in {<<r[1], r[2]>>, <<r[2], r[1]>>}
      PROVE  r \in Realised(k)
  <2> DEFINE T == {t \in Rows : <<t[1], t[2]>> = batch[k]}
  <2>1. Realised(k) = T \cup {Mirror(t) : t \in T}
    BY DEF Realised, BothWays, Rows
  <2>2. CASE batch[k] = <<r[1], r[2]>>
    BY <2>1, <2>2
  <2>3. CASE batch[k] = <<r[2], r[1]>>
    <3>1. Mirror(r) \in T
      BY <1>m, <2>3
    <3> QED
      BY <1>m, <2>1, <3>1
  <2> QED
    BY <1>3, <2>2, <2>3
<1>4. \A r \in Rows : OnBatch(r) => \E k \in DOMAIN batch : <<k, r>> \in UpdateEntries
  BY <1>3 DEF OnBatch, UpdateEntries
<1> QED
  BY <1>2, <1>4

(* The difference that is staged is the right one. *)
LEMMA StagedLeads ==
  ASSUME FilterInv, AtRest, BatchFacts
  PROVE  /\ StagedIns \cap Base = {}
         /\ (Base \cup StagedIns) \ {t[2] : t \in StagedDel} = Rows \ {t[2] : t \in StagedUpd}
         /\ {t[2] : t \in StagedUpd} \subseteq Rows
<1> DEFINE Gone == {t[2] : t \in StagedDel}
           Realising == {t[2] : t \in StagedUpd}
<1>i. /\ BaseKept /\ NewRecorded /\ InsertedNew /\ InsertedListed /\ DeletedGone
      /\ pc = "rest" /\ upd = UpdateEntries /\ upd \subseteq del
      /\ Tasks(activated \cap li, cand) \subseteq ins
  BY DEF BatchFacts, AtRest, UpdatesRecorded, ActivatedRecorded
<1>n. \A r \in Rows : r \in Related /\ Numbered(NumberedNow, r)
  <2>1. \A r \in Rows : r \in Related
    BY TasksType DEF Rows, FilterInv, EdgeInv, GraphInv, TypeOK
  <2>2. \A p \in li : p[1] \in NumberedNow
    BY DEF NumberedNow
  <2> QED
    BY <2>1, <2>2, RowsNumbered
<1>1. StagedIns \cap Base = {}
  BY <1>i DEF StagedIns, InsertedNew
<1>2. Realising \subseteq Gone
  BY <1>i DEF StagedUpd, StagedDel
<1>3. Realising \subseteq Rows
  BY <1>i, UpdatesAreRows DEF StagedUpd
<1>4. ASSUME NEW r \in (Base \cup StagedIns) \ Gone PROVE r \in Rows \ Realising
  <2>1. r \in Related /\ Listed(r) /\ Owner(r) \in li
    <3>1. CASE r \in Base
      BY <1>i, <3>1 DEF BaseKept, Old
    <3>2. CASE r \in StagedIns
      <4>1. r \in ins /\ Owner(r) \in li /\ Numbered(NumberedNow, r)
        BY <3>2 DEF StagedIns
      <4>2. <<0, r>> \notin del
        <5>1. <<0, r>> \in del => <<0, r>> \in StagedDel /\ <<0, r>>[2] = r
          BY <4>1 DEF StagedDel
        <5> QED
          BY <5>1
      <4> QED
        BY <1>i, <4>1, <4>2 DEF InsertedNew, InsertedListed
    <3> QED
      BY <3>1, <3>2
  <2>2. r \in Rows
    BY <2>1, RowsAtRest
  <2> QED
    BY <1>2, <2>2
<1>5. ASSUME NEW r \in Rows \ Realising PROVE r \in (Base \cup StagedIns) \ Gone
  <2>1. r \in Related /\ Numbered(NumberedNow, r) /\ Listed(r) /\ Owner(r) \in li
    BY <1>n, RowsAtRest
  <2>2. \A k : <<k, r>> \notin upd
    <3>1. ASSUME NEW k, <<k, r>> \in upd PROVE FALSE
      <4>1. <<k, r>> \in StagedUpd /\ <<k, r>>[2] = r
        BY <2>1, <3>1 DEF StagedUpd
      <4> QED
        BY <4>1
    <3> QED
      BY <3>1
  <2>3. ~OnBatch(r)
    BY <1>i, <2>2, UpdatesAreRows
  <2>4. r \notin Gone
    <3>1. ASSUME NEW d \in StagedDel, d[2] = r PROVE FALSE
      <4>1. d \in upd
        BY <1>i, <2>1, <3>1 DEF StagedDel, DeletedGone
      <4>2. d \in StagedUpd
        BY <2>1, <3>1, <4>1 DEF StagedUpd
      <4> QED
        BY <3>1, <4>2
    <3> QED
      BY <3>1
  <2>5. r \in Base \cup ins
    <3>1. CASE Owner(r) \in Old
      BY <1>i, <2>1, <2>3, <3>1 DEF NewRecorded
    <3>2. CASE Owner(r) \in activated
      <4>1. r \in Tasks(activated \cap li, cand)
        BY <2>1, <3>2, ListedTask
      <4> QED
        BY <1>i, <4>1
    <3> QED
      BY <2>1, <3>1, <3>2 DEF Old
  <2> QED
    BY <2>1, <2>4, <2>5 DEF StagedIns
<1> QED
  BY <1>1, <1>3, <1>4, <1>5

LEMMA StageMade ==
  ASSUME SmallQuery, FilterInv, AtRest, BatchFacts, Prepare
  PROVE  \E s \in StageType :
           /\ stages' = Append(stages, s) /\ s.rows = Rows
           /\ Leads(Base, s) /\ BagToSet(s.upd) \subseteq s.rows
           /\ s.upd = Encoded(StagedUpd) /\ BagToSet(s.upd) = {t[2] : t \in StagedUpd}
           /\ s.flat = {t[2] : t \in StagedUpd}
<1> DEFINE s == [ins |-> {Packed(r) : r \in StagedIns},
                 del |-> Encoded(StagedDel), upd |-> Encoded(StagedUpd),
                 flat |-> {d \in {t[2] : t \in upd} : Numbered(NumberedNow, d)},
                 rows |-> Rows]
<1>i. TypeOK /\ DeletedGone /\ InsertedNew /\ upd = UpdateEntries
  BY DEF FilterInv, EdgeInv, GraphInv, BatchFacts, UpdatesRecorded, AtRest
<1>1. StagedIns \subseteq Related /\ {Packed(r) : r \in StagedIns} = StagedIns
  <2>1. StagedIns \subseteq Related
    BY <1>i DEF StagedIns, InsertedNew
  <2> QED
    BY <2>1, PackedSame
<1>2. Rows \subseteq Related
  BY <1>i, TasksType DEF Rows, TypeOK
<1>3. Encoded(StagedDel) \in RowBags /\ BagToSet(Encoded(StagedDel)) = {t[2] : t \in StagedDel}
  <2>1. StagedDel \subseteq del /\ \A t \in StagedDel : t[2] \in Related
    BY <1>i DEF StagedDel, DeletedGone
  <2>2. IsFiniteSet(StagedDel)
    BY <1>i, <2>1, FS_Subset DEF DeletedGone
  <2> QED
    BY <2>1, <2>2, EncodedBag
<1>u. StagedUpd \subseteq upd /\ \A t \in upd : t[2] \in Related
  BY <1>i, UpdateEntriesRelated DEF StagedUpd
<1>4. Encoded(StagedUpd) \in RowBags /\ BagToSet(Encoded(StagedUpd)) = {t[2] : t \in StagedUpd}
  <2>1. IsFiniteSet(StagedUpd)
    BY <1>i, <1>u, UpdateEntriesRelated, FS_Subset
  <2> QED
    BY <1>u, <2>1, EncodedBag
<1>5. s \in StageType
  BY <1>1, <1>2, <1>3, <1>4, <1>u DEF StageType
<1>6. /\ s.ins = StagedIns /\ s.del = Encoded(StagedDel) /\ s.upd = Encoded(StagedUpd) /\ s.rows = Rows
      /\ s.flat = {t[2] : t \in StagedUpd}
  BY <1>1 DEF StagedUpd
<1>7. stages' = Append(stages, s)
  BY DEF Prepare, StagedIns, StagedDel, StagedUpd
<1> HIDE DEF s
<1>8. Leads(Base, s) /\ BagToSet(s.upd) \subseteq s.rows
  BY <1>3, <1>4, <1>6, StagedLeads DEF Leads
<1> QED
  BY <1>4, <1>5, <1>6, <1>7, <1>8

LEMMA Appended ==
  ASSUME NEW S, NEW q \in Seq(S), NEW e \in S
  PROVE  /\ Append(q, e) \in Seq(S) /\ Len(Append(q, e)) = Len(q) + 1
         /\ Append(q, e)[Len(q) + 1] = e
         /\ \A i \in 1..Len(q) : Append(q, e)[i] = q[i]
BY AppendProperties

LEMMA PrepareStep ==
  ASSUME SmallQuery, GlobalInv, Prepare
  PROVE  (BatchInv /\ StagesOK /\ StageOneInv /\ StageTwoInv)'
<1>i. /\ FilterInv /\ BatchInv /\ StagesOK /\ StageOneInv /\ StageTwoInv /\ TypeOK
      /\ nBatch \in Nat
  BY InputAssumption DEF GlobalInv, FilterInv, EdgeInv, GraphInv, TypeOK
<1>1. /\ AtRest /\ converted /\ Len(stages) < nBatch
      /\ UNCHANGED <<vars, converted, idx, mirror, s2pc, s2b>>
  BY DEF Prepare, Unstaged
<1>2. BatchFacts
  BY <1>i, <1>1 DEF BatchInv, InBatch
<1>3. PICK s \in StageType :
        /\ stages' = Append(stages, s) /\ s.rows = Rows
        /\ Leads(Base, s) /\ BagToSet(s.upd) \subseteq s.rows
  BY <1>i, <1>1, <1>2, StageMade
<1>4. stages \in Seq(StageType) /\ Len(stages) \in Nat /\ Len(stages) = nBatch - 1
  BY <1>i, <1>1 DEF StagesOK, StageOneInv
<1>5. /\ stages' \in Seq(StageType) /\ Len(stages') = nBatch
      /\ stages'[Len(stages')] = s /\ Len(stages') = Len(stages) + 1
      /\ \A i \in 1..Len(stages) : stages'[i] = stages[i]
  <2>1. Append(stages, s) \in Seq(StageType) /\ Len(Append(stages, s)) = Len(stages) + 1
        /\ Append(stages, s)[Len(stages) + 1] = s
        /\ \A i \in 1..Len(stages) : Append(stages, s)[i] = stages[i]
    BY <1>4, Appended
  <2> QED
    BY <1>i, <1>3, <1>4, <2>1
<1>6. UNCHANGED <<nBatch, pc, li, cand>>
  BY <1>1 DEF vars
<1>7. BatchInv'
  <2>1. nBatch' = nBatch /\ ~(nBatch < nBatch)
    BY <1>i, <1>6
  <2>2. ~InBatch'
    BY <1>5, <2>1 DEF InBatch
  <2> QED
    BY <2>2 DEF BatchInv
<1>8. Base = IF Len(stages) = 0 THEN mirror ELSE stages[Len(stages)].rows
  <2>1. stages = <<>> <=> Len(stages) = 0
    BY <1>4, EmptySeq
  <2> QED
    BY <2>1 DEF Base
<1>9. StagesOK'
  <2> SUFFICES ASSUME NEW i \in 1..Len(stages')
               PROVE  /\ BagToSet(stages'[i].upd) \subseteq stages'[i].rows
                      /\ i > 1 => Leads(stages'[i - 1].rows, stages'[i])
    BY <1>5 DEF StagesOK, Leads
  <2>1. CASE i <= Len(stages)
    <3>1. i \in 1..Len(stages) /\ (i > 1 => i - 1 \in 1..Len(stages))
      BY <1>4, <2>1
    <3> QED
      BY <1>i, <1>5, <3>1 DEF StagesOK
  <2>2. CASE i = Len(stages) + 1
    <3>1. stages'[i] = s /\ i - 1 = Len(stages)
      BY <1>4, <1>5, <2>2
    <3>2. ASSUME i > 1 PROVE stages'[i - 1].rows = Base
      <4>1. Len(stages) # 0 /\ Len(stages) \in 1..Len(stages)
        BY <1>4, <2>2, <3>2
      <4>2. stages'[Len(stages)] = stages[Len(stages)]
        BY <1>5, <4>1
      <4> QED
        BY <1>8, <3>1, <4>1, <4>2
    <3> QED
      BY <1>3, <3>1, <3>2
  <2> QED
    BY <1>4, <1>5, <2>1, <2>2
<1>10. StageOneInv'
  <2>1. Base' = Rows
    BY <1>3, <1>4, <1>5 DEF Base
  <2>2. Rows' = Rows /\ AtRest'
    BY <1>1, <1>6 DEF Rows, AtRest
  <2> QED
    BY <1>1, <1>5, <1>6, <2>1, <2>2 DEF StageOneInv
<1>11. StageTwoInv'
  <2>1. UNCHANGED <<idx, mirror, s2pc, s2b>> /\ MirrorInSync'
    BY <1>i, <1>1 DEF StageTwoInv, MirrorInSync
  <2>2. s2b \in 0..Len(stages')
    BY <1>i, <1>4, <1>5 DEF StageTwoInv
  <2>3. s2pc = "transfer" /\ s2b > 0 => mirror = stages'[s2b].rows
    BY <1>i, <1>4, <1>5 DEF StageTwoInv
  <2>4. ASSUME s2pc = "transfer", s2b = 0 PROVE Leads(mirror, stages'[1])
    <3>1. CASE Len(stages) > 0
      <4>1. stages'[1] = stages[1]
        BY <1>4, <1>5, <3>1
      <4> QED
        BY <1>i, <2>4, <3>1, <4>1 DEF StageTwoInv
    <3>2. CASE Len(stages) = 0
      <4>1. Len(stages') = 1
        BY <1>5, <3>2
      <4>2. stages'[1] = s
        BY <1>5, <4>1
      <4>3. Base = mirror
        BY <1>8, <3>2
      <4> QED
        BY <1>3, <4>2, <4>3
    <3>3. Len(stages) > 0 \/ Len(stages) = 0
      <4>1. Len(stages) \in Nat
        BY <1>4
      <4> QED
        BY <4>1
    <3> QED
      BY <3>1, <3>2, <3>3
  <2>5. ASSUME s2pc = "update" PROVE s2b < Len(stages') /\ mirror = (Stage.rows \ BagToSet(UpdateIndex))'
    <3>1. s2b < Len(stages) /\ s2b + 1 \in 1..Len(stages)
      BY <1>i, <1>4, <2>5 DEF StageTwoInv
    <3>2. Stage' = Stage
      BY <1>5, <2>1, <3>1 DEF Stage
    <3> QED
      BY <1>i, <1>4, <1>5, <2>5, <3>1, <3>2 DEF StageTwoInv, UpdateIndex
  <2> QED
    BY <1>i, <2>1, <2>2, <2>3, <2>4, <2>5 DEF StageTwoInv, Leads
<1> QED
  BY <1>7, <1>9, <1>10, <1>11

-----------------------------------------------------------------------------
(* The steps of Stage 2: merging the deltas of a batch takes the mirror    *)
(* from the rows of the batch before to those of the batch without its     *)
(* update index, and merging that index completes them.                    *)
LEMMA TransferStep ==
  ASSUME StagesOK, StageTwoInv, TransferUpdateAll
  PROVE  StageTwoInv'
<1>1. /\ s2pc = "transfer" /\ s2b < Len(stages) /\ s2b \in Nat /\ UNCHANGED stages
      /\ Len(stages) \in Nat /\ s2b + 1 \in 1..Len(stages)
  BY DEF TransferUpdateAll, Ready, StagesOK, StageTwoInv
<1> DEFINE s == Stage
<1>2. s = stages[s2b + 1] /\ s.del \in RowBags /\ BagToSet(s.upd) \subseteq s.rows
  <2>1. s = stages[s2b + 1] /\ BagToSet(s.upd) \subseteq s.rows
    BY <1>1 DEF StagesOK, Stage
  <2>2. stages[s2b + 1] \in StageType
    BY <1>1 DEF StagesOK
  <2> QED
    BY <2>1, <2>2 DEF StageType
<1>3. Leads(mirror, s)
  <2>1. CASE s2b = 0
    <3>1. s = stages[1]
      BY <2>1 DEF Stage
    <3> QED
      BY <1>1, <2>1, <3>1 DEF StageTwoInv
  <2>2. CASE s2b > 0
    <3>1. mirror = stages[s2b].rows
      BY <1>1, <2>2 DEF StageTwoInv
    <3>2. Leads(stages[(s2b + 1) - 1].rows, stages[s2b + 1])
      BY <1>1, <2>2 DEF StagesOK
    <3>3. (s2b + 1) - 1 = s2b
      BY <1>1
    <3> QED
      BY <3>1, <3>2, <3>3 DEF Stage
  <2> QED
    BY <1>1, <2>1, <2>2
<1>4. mirror' = (mirror \cup s.ins) \ BagToSet(s.del) /\ mirror' = s.rows \ BagToSet(s.upd)
  BY <1>3 DEF TransferUpdateAll, Leads
<1>5. MirrorInSync'
  <2>1. idx' = (SetToBag(mirror) (+) SetToBag(s.ins)) (-) s.del
    BY DEF TransferUpdateAll, StageTwoInv, MirrorInSync
  <2>2. SetToBag(mirror) (+) SetToBag(s.ins) = SetToBag(mirror \cup s.ins)
    BY <1>3, MergedOnce DEF Leads
  <2>3. idx' = SetToBag(mirror')
    BY <1>2, <1>4, <2>1, <2>2, ReducedOnce
  <2> QED
    BY <2>3 DEF MirrorInSync
<1>6. CASE s.upd = EmptyBag
  <2>1. s2b' = s2b + 1 /\ s2pc' = "transfer"
    BY <1>6 DEF TransferUpdateAll
  <2>2. BagToSet(s.upd) = {}
    BY <1>6 DEF EmptyBag, SetToBag, BagToSet
  <2>3. mirror' = stages[s2b + 1].rows
    BY <1>2, <1>4, <2>2
  <2>4. s2b + 1 \in 0..Len(stages) /\ s2b + 1 # 0
    BY <1>1
  <2> QED
    BY <1>1, <1>5, <2>1, <2>3, <2>4 DEF StageTwoInv
<1>7. CASE s.upd # EmptyBag
  <2>1. s2b' = s2b /\ s2pc' = "update"
    BY <1>7 DEF TransferUpdateAll
  <2>2. Stage' = s /\ UpdateIndex' = s.upd
    BY <1>1, <2>1 DEF Stage, UpdateIndex
  <2>3. s2b \in 0..Len(stages)
    BY <1>1
  <2> QED
    BY <1>1, <1>4, <1>5, <2>1, <2>2, <2>3 DEF StageTwoInv
<1> QED
  BY <1>6, <1>7

LEMMA UpdateStep ==
  ASSUME StagesOK, StageTwoInv, BatchUpdateGlobalIndex
  PROVE  StageTwoInv'
<1>1. /\ s2pc = "update" /\ s2b < Len(stages) /\ s2b \in Nat /\ UNCHANGED stages
      /\ Len(stages) \in Nat /\ s2b + 1 \in 1..Len(stages)
      /\ s2pc' = "transfer" /\ s2b' = s2b + 1
  BY DEF BatchUpdateGlobalIndex, StagesOK, StageTwoInv
<1>2. /\ mirror = Stage.rows \ BagToSet(UpdateIndex)
      /\ BagToSet(UpdateIndex) \subseteq Stage.rows /\ Stage = stages[s2b + 1]
  BY <1>1 DEF StagesOK, StageTwoInv, Stage, UpdateIndex
<1>3. mirror' = mirror \cup BagToSet(UpdateIndex) /\ mirror' = stages[s2b + 1].rows
  BY <1>2 DEF BatchUpdateGlobalIndex
<1>4. MirrorInSync'
  <2>1. idx' = SetToBag(mirror) (+) SetToBag(BagToSet(UpdateIndex))
    BY DEF BatchUpdateGlobalIndex, StageTwoInv, MirrorInSync
  <2>2. BagToSet(UpdateIndex) \cap mirror = {}
    BY <1>2
  <2>3. idx' = SetToBag(mirror')
    BY <1>3, <2>1, <2>2, MergedOnce
  <2> QED
    BY <2>3 DEF MirrorInSync
<1>5. s2b + 1 \in 0..Len(stages) /\ s2b + 1 # 0
  BY <1>1
<1> QED
  BY <1>1, <1>3, <1>4, <1>5 DEF StageTwoInv

(* The first GPU index is made from all the rows. *)
LEMMA ConvertStep ==
  ASSUME SmallQuery, GlobalInv, ConvertGlobalIndex
  PROVE  (BatchInv /\ StagesOK /\ StageOneInv /\ StageTwoInv)'
<1>i. /\ FilterInv /\ StagesOK /\ StageOneInv /\ StageTwoInv /\ TypeOK
  BY DEF GlobalInv, FilterInv, EdgeInv, GraphInv
<1>1. /\ AtRest /\ ~converted /\ converted' /\ UNCHANGED <<vars, stages, s2pc, s2b>>
      /\ nBatch = 0
  BY <1>i DEF ConvertGlobalIndex, StageOneInv
<1>2. UNCHANGED <<pc, nBatch, li, cand>>
  BY <1>1 DEF vars
<1>3. Len(stages) = 0 /\ stages = <<>>
  <2>1. Len(stages) \in Nat /\ stages \in Seq(StageType)
    BY <1>i DEF StagesOK
  <2>2. Len(stages) = 0
    BY <1>1, <1>i, <2>1 DEF StageOneInv
  <2> QED
    BY <2>1, <2>2, EmptySeq
<1>4. \A r \in Rows : r \in Related
  BY <1>i, TasksType DEF Rows, TypeOK
<1> DEFINE rows == {r \in Rows : Numbered(FirstNumbers, r)}
<1>5. rows = Rows
  <2>1. \A p \in li : p[1] \in FirstNumbers
    BY DEF FirstNumbers
  <2>2. \A r \in Rows : Numbered(FirstNumbers, r)
    BY <1>i, <1>1, <1>4, <2>1, RowsNumbered
  <2> QED
    BY <2>2
<1>6. mirror' = Rows
  <2>1. mirror' = {Packed(r) : r \in rows}
    BY DEF ConvertGlobalIndex
  <2> QED
    BY <1>4, <1>5, <2>1, PackedSame
<1>7. idx' = SetToBag(Rows)
  <2>1. idx' = Encoded({0} \X rows)
    BY DEF ConvertGlobalIndex
  <2>2. idx' = Encoded({0} \X Rows)
    BY <1>5, <2>1
  <2> DEFINE T == {0} \X Rows
  <2>3. \A t \in T : Packed(t[2]) = t[2]
    BY <1>4, PackedSame
  <2>4. {Packed(t[2]) : t \in T} = Rows
    <3>1. \A r \in Rows : <<0, r>> \in T /\ <<0, r>>[2] = r
      OBVIOUS
    <3>2. \A t \in T : t[2] \in Rows
      OBVIOUS
    <3> HIDE DEF T
    <3> QED
      BY <2>3, <3>1, <3>2
  <2>5. ASSUME NEW e \in Rows PROVE Cardinality({t \in T : Packed(t[2]) = e}) = 1
    <3>1. {t \in T : Packed(t[2]) = e} = {<<0, e>>}
      BY <2>3
    <3> QED
      BY <3>1, FS_Singleton
  <2>6. Encoded(T) = [e \in Rows |-> 1]
    BY <2>4, <2>5 DEF Encoded
  <2> QED
    BY <2>2, <2>6 DEF SetToBag
<1>8. BatchInv'
  BY <1>1, <1>2, <1>3 DEF BatchInv, InBatch
<1>9. StagesOK'
  BY <1>i, <1>1, <1>3 DEF StagesOK
<1>10. StageOneInv'
  <2>1. Base' = Rows'
    BY <1>1, <1>2, <1>3, <1>6 DEF Base, Rows
  <2> QED
    BY <1>i, <1>1, <1>2, <2>1 DEF StageOneInv, AtRest
<1>11. StageTwoInv'
  <2>1. s2b = 0 /\ s2pc = "transfer" /\ Len(stages') = 0
    BY <1>i, <1>1, <1>3 DEF StageTwoInv
  <2>2. MirrorInSync'
    BY <1>6, <1>7 DEF MirrorInSync
  <2> QED
    BY <1>1, <2>1, <2>2 DEF StageTwoInv
<1> QED
  BY <1>8, <1>9, <1>10, <1>11

-----------------------------------------------------------------------------
LEMMA InitGlobalInv == GInit => GlobalInv
<1> SUFFICES ASSUME GInit PROVE GlobalInv
  OBVIOUS
<1>1. Init /\ FilterInv
  BY InitFilterInv DEF GInit
<1>2. /\ stages = <<>> /\ Len(stages) = 0 /\ stages \in Seq(StageType)
      /\ ~converted /\ mirror = {} /\ s2pc = "transfer" /\ s2b = 0 /\ idx = EmptyBag /\ nBatch = 0
  BY <1>1 DEF GInit, Init
<1>3. BatchInv /\ StagesOK /\ StageOneInv
  BY <1>2 DEF BatchInv, InBatch, StagesOK, StageOneInv
<1>4. StageTwoInv
  BY <1>2 DEF StageTwoInv, MirrorInSync, EmptyBag
<1> QED
  BY <1>1, <1>3, <1>4 DEF GlobalInv

(* The steps of Stage 1 that leave what is staged alone. *)
LEMMA IndexStep ==
  ASSUME SmallQuery, GlobalInv, Index
  PROVE  (BatchInv /\ StagesOK /\ StageOneInv /\ StageTwoInv)'
<1>i. /\ FilterInv /\ BatchInv /\ StagesOK /\ StageOneInv /\ StageTwoInv /\ TypeOK
      /\ nBatch \in Nat /\ Len(stages) \in Nat /\ UNCHANGED gvars
  BY InputAssumption DEF GlobalInv, FilterInv, EdgeInv, GraphInv, TypeOK, Index, StagesOK
<1>g. UNCHANGED <<stages, converted, idx, mirror, s2pc, s2b>> /\ Base' = Base
  BY <1>i DEF gvars, Base
<1>1. StagesOK'
  BY <1>i, <1>g DEF StagesOK, Leads
<1>2. StageTwoInv'
  <2>1. MirrorInSync' /\ Stage' = Stage
    BY <1>i, <1>g DEF StageTwoInv, MirrorInSync, Stage
  <2> QED
    BY <1>i, <1>g, <2>1 DEF StageTwoInv, UpdateIndex, Leads
<1>3. CASE Work
  <2>1. ~AtRest /\ nBatch' = nBatch
    BY <1>3, WorkAtWork DEF Work, TurnOff, DelCollect, DelDone, DelErase, DelEraseDone,
       DelCheck, DelCheckDone, TurnOnInsert, TurnOnCheck, AddCollect, AddDone, AddInsert,
       AddCheck, AddCheckDelete, RecordActivated, ConstructUpdate
  <2>2. StageOneInv'
    BY <1>i, <1>g, <2>1 DEF StageOneInv
  <2>3. BatchInv'
    <3> SUFFICES ASSUME InBatch PROVE BatchFacts'
      BY <1>g, <2>1 DEF BatchInv, InBatch
    <3>1. nBatch # 0
      BY <1>i DEF InBatch
    <3> QED
      BY <1>i, <1>g, <1>3, <3>1, BatchStep DEF BatchInv
  <2> QED
    BY <1>1, <1>2, <2>2, <2>3
<1>4. ASSUME NEW b \in Batches, converted, Len(stages) = nBatch, StartBatch(b)
      PROVE  StageOneInv' /\ BatchInv'
  <2>1. nBatch' = nBatch + 1
    BY <1>4 DEF StartBatch
  <2>2. AtRest /\ Base = Rows
    BY <1>i, <1>4 DEF StageOneInv
  <2>3. BatchFacts'
    BY <1>i, <1>g, <1>4, <2>2, BatchStart
  <2>4. StageOneInv'
    BY <1>i, <1>g, <1>4, <2>1 DEF StageOneInv
  <2> QED
    BY <2>3, <2>4 DEF BatchInv
<1> QED
  BY <1>1, <1>2, <1>3, <1>4 DEF Index

LEMMA GlobalStep ==
  ASSUME SmallQuery, GlobalInv, [GNext]_allvars
  PROVE  GlobalInv'
<1>1. [Next]_vars
  BY DEF GNext, allvars, Index, Next, ConvertGlobalIndex, Prepare, TransferUpdateAll,
     BatchUpdateGlobalIndex
<1>2. FilterInv'
  BY <1>1, FilterStep DEF GlobalInv
<1>3. ASSUME UNCHANGED <<vars, stages, converted>>, StageTwoInv',
             UNCHANGED mirror \/ Len(stages) > 0
      PROVE  GlobalInv'
  <2>1. UNCHANGED <<pc, nBatch, li, cand, batch, activated, ins, del, upd, tmp, chk>>
    BY <1>3 DEF vars, queues, deltas
  <2>2. StagesOK'
    BY <1>3 DEF GlobalInv, StagesOK, Leads
  <2>3. Base' = Base
    <3>1. stages = <<>> => Len(stages) = 0
      OBVIOUS
    <3>2. stages # <<>> \/ UNCHANGED mirror
      BY <1>3, <3>1
    <3> QED
      BY <1>3, <3>2 DEF Base
  <2>4. Rows' = Rows /\ AtRest' = AtRest /\ Old' = Old
    BY <2>1 DEF Rows, AtRest, Old
  <2>5. StageOneInv'
    <3>1. converted' = converted /\ stages' = stages /\ (~converted => mirror' = mirror)
      <4>1. ~converted => Len(stages) \in {-1, 0}
        BY DEF GlobalInv, StageOneInv
      <4> QED
        BY <1>3, <4>1
    <3> QED
      BY <2>1, <2>3, <2>4, <3>1 DEF GlobalInv, StageOneInv
  <2>6. BatchInv'
    <3>1. InBatch' = InBatch
      BY <1>3, <2>1 DEF InBatch
    <3>2. BatchFacts => BatchFacts'
      <4>1. \A r : Listed(r)' = Listed(r) /\ OnBatch(r)' = OnBatch(r)
        BY <2>1 DEF Listed, OnBatch
      <4>2. BaseLists' = BaseLists /\ UpdateEntries' = UpdateEntries
        BY <2>1, <2>3 DEF BaseLists, UpdateEntries, Realised
      <4>3. BaseKept /\ OldSupported /\ NewRecorded => (BaseKept /\ OldSupported /\ NewRecorded)'
        BY <2>1, <2>3, <2>4, <4>1, <4>2 DEF BaseKept, OldSupported, NewRecorded
      <4>4. ActivatedRecorded /\ InsertedNew /\ InsertedListed
              => (ActivatedRecorded /\ InsertedNew /\ InsertedListed)'
        BY <2>1, <2>3, <4>1 DEF ActivatedRecorded, InsertedNew, InsertedListed
      <4>5. DeletedGone /\ UpdatesRecorded => (DeletedGone /\ UpdatesRecorded)'
        BY <2>1, <4>1, <4>2 DEF DeletedGone, UpdatesRecorded
      <4>6. InsertOnBatch /\ TestedOff => (InsertOnBatch /\ TestedOff)'
        BY <2>1, <4>1 DEF InsertOnBatch, TestedOff
      <4> QED
        BY <4>3, <4>4, <4>5, <4>6 DEF BatchFacts
    <3> QED
      BY <3>1, <3>2 DEF GlobalInv, BatchInv
  <2> QED
    BY <1>2, <1>3, <2>2, <2>5, <2>6 DEF GlobalInv
<1>4. CASE Index
  BY <1>2, <1>4, IndexStep DEF GlobalInv
<1>5. CASE ConvertGlobalIndex
  BY <1>2, <1>5, ConvertStep DEF GlobalInv
<1>6. CASE Prepare
  BY <1>2, <1>6, PrepareStep DEF GlobalInv
<1>7. CASE TransferUpdateAll
  <2>1. StageTwoInv'
    BY <1>7, TransferStep DEF GlobalInv
  <2>2. Len(stages) > 0
    BY <1>7 DEF TransferUpdateAll, Ready, GlobalInv, StageTwoInv, StagesOK
  <2> QED
    BY <1>3, <1>7, <2>1, <2>2 DEF TransferUpdateAll
<1>8. CASE BatchUpdateGlobalIndex
  <2>1. StageTwoInv'
    BY <1>8, UpdateStep DEF GlobalInv
  <2>2. Len(stages) > 0
    BY <1>8 DEF BatchUpdateGlobalIndex, GlobalInv, StageTwoInv, StagesOK
  <2> QED
    BY <1>3, <1>8, <2>1, <2>2 DEF BatchUpdateGlobalIndex
<1>9. CASE UNCHANGED allvars
  <2>1. UNCHANGED <<vars, stages, converted, idx, mirror, s2pc, s2b>>
    BY <1>9 DEF allvars, gvars
  <2>2. MirrorInSync' = MirrorInSync /\ Stage' = Stage
    BY <2>1 DEF MirrorInSync, Stage
  <2>3. StageTwoInv'
    BY <2>1, <2>2 DEF GlobalInv, StageTwoInv, UpdateIndex, Leads
  <2> QED
    BY <1>3, <2>1, <2>3
<1> QED
  BY <1>4, <1>5, <1>6, <1>7, <1>8, <1>9 DEF GNext

LEMMA GlobalInvariant ==
  ASSUME SmallQuery
  PROVE  GSpec => []GlobalInv
BY InitGlobalInv, GlobalStep, PTL DEF GSpec

(* When Stage 2 has completed a batch, the GPU index holds each row that   *)
(* the CaLiG index had at the end of that batch once, and nothing else:    *)
(* the deltas that were recorded while the filter ran are a difference.    *)
THEOREM IndexFollowsCaLiG ==
  ASSUME SmallQuery
  PROVE  GSpec => []IndexFollows
<1>1. GlobalInv => IndexFollows
  BY DEF GlobalInv, StageTwoInv, MirrorInSync, IndexFollows
<1> QED
  BY <1>1, GlobalInvariant, PTL

(* While a batch is matched, the index and the update index split the rows *)
(* of the batch.                                                           *)
THEOREM RowsSplitForMatching ==
  ASSUME SmallQuery
  PROVE  GSpec => []MatchingSeesBatchOnce
<1>1. GlobalInv => MatchingSeesBatchOnce
  <2> SUFFICES ASSUME GlobalInv, s2pc = "update"
               PROVE  /\ idx = SetToBag(Stage.rows \ BagToSet(UpdateIndex))
                      /\ BagToSet(UpdateIndex) \subseteq Stage.rows
    BY DEF MatchingSeesBatchOnce
  <2>1. s2b + 1 \in 1..Len(stages)
    BY DEF GlobalInv, StageTwoInv, StagesOK
  <2> QED
    BY <2>1 DEF GlobalInv, StageTwoInv, StagesOK, MirrorInSync, Stage, UpdateIndex
<1> QED
  BY <1>1, GlobalInvariant, PTL

(* The host mirror and the GPU index hold the same rows, each once. *)
THEOREM MirrorHoldsIndex ==
  ASSUME SmallQuery
  PROVE  GSpec => []MirrorInSync
<1>1. GlobalInv => MirrorInSync
  BY DEF GlobalInv, StageTwoInv
<1> QED
  BY <1>1, GlobalInvariant, PTL
=============================================================================
