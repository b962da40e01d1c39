----------------------------- MODULE CaLiGIndex -----------------------------
(***************************************************************************)
(* The CPU candidate index of CaLiG (src/index/calig.cpp): constructCand,  *)
(* staticFilter, and, for each batch of inserted edges, updateIndex and    *)
(* ConstructUpdate.                                                        *)
(*                                                                         *)
(* Every tbb::parallel_for is a phase and every mergeTasks a barrier.  The *)
(* bodies of a phase commute in all phases but two, so such a phase is one *)
(* step that applies all its tasks.  In delAndCheck the erasing tasks and  *)
(* the label checks depend on their order (a list can be seen before or    *)
(* after it becomes empty; isChecked lets one label check through for a    *)
(* pair), so there every task is a step of its own, in any order.          *)
(*                                                                         *)
(* Queues are sets: a duplicated task is idempotent (a set insert, an      *)
(* erase, a bit or) or stopped by isChecked.  The deletions and updates    *)
(* handed to the GPU stage keep their duplicates, by the index of the      *)
(* update pair that pushed them; the insertions are deduplicated there.    *)
(*                                                                         *)
(* The stream is insertion-only, the documented input of the program.      *)
(* turnOffCond, turnOffCheck and the negative ids that reach them are left *)
(* out: with insertions their queues are empty.                            *)
(***************************************************************************)
EXTENDS CaLiGDefs, Sequences

CONSTANTS
  InitNei,     \* InitNei[v]: the neighbours of v in the initial graph
  Batches,     \* the batches that may arrive: sequences of pairs of vertices
  MaxBatches   \* bound: the number of batches processed

ASSUME InputAssumption ==
  /\ InitNei \in [DV -> SUBSET DV]
  /\ \A v, x \in DV : x \in InitNei[v] <=> v \in InitNei[x]
  /\ Batches \subseteq Seq(DV \X DV)
  /\ MaxBatches \in Nat

VARIABLES
  pc,          \* the phase about to run
  nei,         \* G[v].nei
  cand,        \* G[v].cand[u][w]
  li,          \* G_Li, as the set of pairs whose bit is on
  checked,     \* the pairs whose isChecked is set
  batch,       \* the update pairs of the window being processed
  nBatch,      \* number of batches started
  addQ, delQ,  \* global_add_queue, global_del_queue
  tmp,         \* global_tmp_(queue): tasks <<v, x, u, w>>
  chk,         \* global_check_
  addDel,      \* add_del_check_queue
  chkDel,      \* global_check_del_: tasks <<pair, label>>
  activated,   \* li_activated_queue
  ins,         \* delta_ins: records <<v, x, u, w>>
  del, upd     \* delta_del, delta_update: <<k, record>>, where k is the index of
               \* the update pair that pushed it, 0 for an erased entry

queues == <<addQ, delQ, tmp, chk, addDel, chkDel>>
deltas == <<ins, del, upd>>
vars == <<pc, nei, cand, li, checked, batch, nBatch, queues, activated, deltas>>

(* A task or record <<v, x, u, w>> concerns the list of <<v, u>> for w and *)
(* its possible entry x.                                                   *)
Records == DV \X DV \X QV \X QV

Owner(t) == <<t[1], t[3]>>
Partner(t) == <<t[2], t[4]>>
Mirror(t) == <<t[2], t[1], t[4], t[3]>>

Related ==
  {t \in Records : Owner(t) \in Compat /\ Partner(t) \in Compat /\ t[4] \in QNei[t[3]]}

LabelChecks == {<<p, QLabel[w]>> : p \in Compat, w \in QV}

Phases == {"turnOff", "delCollect", "delErase", "delCheck", "insert", "check",
           "addCollect", "addInsert", "addCheck", "addDelete", "record",
           "construct", "rest"}

TypeOK ==
  /\ pc \in Phases
  /\ nei \in [DV -> SUBSET DV]
  /\ cand \in Lists
  /\ li \subseteq Compat
  /\ checked \subseteq Compat
  /\ batch \in Seq(DV \X DV)
  /\ nBatch \in 0..MaxBatches
  /\ addQ \subseteq Compat /\ delQ \subseteq Compat
  /\ chk \subseteq Compat /\ addDel \subseteq Compat
  /\ tmp \subseteq Related
  /\ chkDel \subseteq LabelChecks
  /\ activated \subseteq Compat
  /\ ins \subseteq Records
  /\ del \subseteq Nat \X Records /\ upd \subseteq Nat \X Records

-----------------------------------------------------------------------------
(* The partners that the lists of a pair name: the tasks <<v, x, u, w>> of *)
(* its neighbours.                                                         *)
Entries(lists, p, w) ==
  {<<p[1], x, p[2], w>> : x \in {x \in lists[p[1]][p[2]][w] : GLabel[x] = QLabel[w]}}

Tasks(pairs, lists) ==
  UNION {UNION {Entries(lists, p, w) : w \in QNei[p[2]]} : p \in pairs}

(* Insert every record <<v, x, u, w>> of T: x joins the list of v. *)
Extend(lists, T) ==
  [v \in DV |-> [u \in QV |-> [w \in QV |->
     lists[v][u][w] \cup {x \in DV : <<v, x, u, w>> \in T}]]]

Present(lists, T) == {t \in T : t[2] \in lists[t[1]][t[3]][t[4]]}

(* Seeded fault: every insertion is recorded, a repeated one too. *)
RecordsAll(T) == T

(* What inserting T adds. *)
Added(T) == T \ Present(cand, T)

(* The edges of the window, with labelled ends, that are not in the graph. *)
Fresh(b) ==
  {e \in {b[k] : k \in DOMAIN b} :
     /\ GLabel[e[1]] # NoLabel /\ GLabel[e[2]] # NoLabel
     /\ e[2] \notin nei[e[1]]}

(* Seeded fault: an edge is stored in the direction it was read. *)
AsRead(E) == E

Directed(E) == E \cup {<<e[2], e[1]>> : e \in E}

Join(adj, E) == [v \in DV |-> adj[v] \cup {x \in DV : <<v, x>> \in E}]

(* Seeded fault: the label of the partner is not tested. *)
NewTasksUnlabelled(edges) ==
  {t \in Records : <<t[1], t[2]>> \in edges /\ Owner(t) \in Compat /\ t[4] \in QNei[t[3]]}

(* turnOnCond: the candidate entries that an edge makes possible. *)
NewTasks(edges) == {t \in Related : <<t[1], t[2]>> \in edges}

(* Seeded fault: repeated labels are not matched. *)
FailingEmpty == {p \in li : \E w \in QNei[p[2]] : cand[p[1]][p[2]][w] = {}}

(* turnOff: the pairs that are on and fail their check. *)
Failing == {p \in li : ~CheckNei(cand, p)}

(* Seeded fault: partners that are off have their entry erased as well. *)
ToEraseAll(pairs) == Tasks(pairs, cand)

(* What the deleted pairs are erased from: the partners that are on. *)
ToErase(pairs) == {t \in Tasks(pairs, cand) : Partner(t) \in li}

(* Seeded faults: a pair checked before is not checked again; a pair that  *)
(* is on is checked again.                                                 *)
ToCheckOnce(T) == {Partner(t) : t \in T} \ (li \cup checked)
ToCheckAll(T) == {Partner(t) : t \in T}

(* What activated pairs may activate: their partners that are off. *)
ToCheck(T) == {Partner(t) : t \in T} \ li

BothWays(T) == T \cup {Mirror(t) : t \in T}

(* constructCand: every list of every compatible pair, from the labels. *)
InitCand ==
  [v \in DV |-> [u \in QV |-> [w \in QV |->
     {x \in InitNei[v] : /\ <<v, u>> \in Compat
                         /\ w \in QNei[u]
                         /\ GLabel[x] = QLabel[w]}]]]

Init ==
  /\ pc = "turnOff"
  /\ nei = InitNei
  /\ cand = InitCand
  /\ li = Compat
  /\ checked = {}
  /\ batch = <<>> /\ nBatch = 0
  /\ addQ = {} /\ delQ = {} /\ tmp = {} /\ chk = {} /\ addDel = {} /\ chkDel = {}
  /\ activated = {}
  /\ ins = {} /\ del = {} /\ upd = {}

-----------------------------------------------------------------------------
(* staticFilter: turnOff on every vertex. *)
TurnOff ==
  /\ pc = "turnOff"
  /\ li' = li \ Failing
  /\ delQ' = Failing
  /\ pc' = "delCollect"
  /\ UNCHANGED <<nei, cand, checked, batch, nBatch, addQ, tmp, chk, addDel, chkDel,
                 activated, deltas>>

(* delAndCheck, first phase, and the loop around it.  The loop of          *)
(* staticFilter ends at rest, that of updateIndex goes on to Step 10.      *)
DelCollect ==
  /\ pc = "delCollect" /\ delQ # {}
  /\ tmp' = ToErase(delQ)
  /\ delQ' = {}
  /\ pc' = "delErase"
  /\ UNCHANGED <<nei, cand, li, checked, batch, nBatch, addQ, chk, addDel, chkDel,
                 activated, deltas>>

DelDone ==
  /\ pc = "delCollect" /\ delQ = {}
  /\ pc' = IF nBatch = 0 THEN "rest" ELSE "record"
  /\ UNCHANGED <<nei, cand, li, checked, batch, nBatch, queues, activated, deltas>>

(* delAndCheck, second phase: one task, under the lock of one list. *)
DelErase(t) ==
  /\ pc = "delErase" /\ t \in tmp
  /\ LET p == Partner(t)
         left == cand[p[1]][p[2]][t[3]] \ {t[1]}
     IN  /\ cand' = [cand EXCEPT ![p[1]][p[2]][t[3]] = left]
         /\ del' = del \cup {<<0, r>> : r \in Present(cand, {Mirror(t)})}
         /\ IF left = {}
            THEN /\ li' = li \ {p}
                 /\ delQ' = delQ \cup {p}
                 /\ UNCHANGED <<chkDel, checked>>
            ELSE /\ IF QLabel[t[3]] \in RepLabels(p[2])
                    THEN /\ chkDel' = chkDel \cup {<<p, QLabel[t[3]]>>}
                         /\ checked' = checked \ {p}
                    ELSE UNCHANGED <<chkDel, checked>>
                 /\ UNCHANGED <<li, delQ>>
  /\ tmp' = tmp \ {t}
  /\ UNCHANGED <<pc, nei, batch, nBatch, addQ, chk, addDel, activated, ins, upd>>

DelEraseDone ==
  /\ pc = "delErase" /\ tmp = {}
  /\ pc' = "delCheck"
  /\ UNCHANGED <<nei, cand, li, checked, batch, nBatch, queues, activated, deltas>>

(* delAndCheck, third phase: the first check of a pair sets isChecked, the *)
(* later ones return at once, whatever their label.                        *)
DelCheck(c) ==
  /\ pc = "delCheck" /\ c \in chkDel
  /\ LET p == c[1]
         fails == p \notin checked /\ ~TryNei(cand, p, Group(p[2], c[2]))
     IN  /\ checked' = checked \cup {p}
         /\ li' = IF fails THEN li \ {p} ELSE li
         /\ delQ' = IF fails THEN delQ \cup {p} ELSE delQ
  /\ chkDel' = chkDel \ {c}
  /\ UNCHANGED <<pc, nei, cand, batch, nBatch, addQ, tmp, chk, addDel, activated, deltas>>

DelCheckDone ==
  /\ pc = "delCheck" /\ chkDel = {}
  /\ pc' = "delCollect"
  /\ UNCHANGED <<nei, cand, li, checked, batch, nBatch, queues, activated, deltas>>

-----------------------------------------------------------------------------
(* updateIndex, Steps 2 to 4: read the window, queue the new candidate     *)
(* entries in both directions (turnOnCond), then insert the edges.         *)
StartBatch(b) ==
  /\ pc = "rest" /\ nBatch < MaxBatches
  /\ LET edges == Directed(Fresh(b))
     IN  /\ tmp' = NewTasks(edges)
         /\ nei' = Join(nei, edges)
  /\ batch' = b
  /\ nBatch' = nBatch + 1
  /\ ins' = {} /\ del' = {} /\ upd' = {}
  /\ activated' = {}
  /\ pc' = "insert"
  /\ UNCHANGED <<cand, li, checked, addQ, delQ, chk, addDel, chkDel>>

(* turnOnCheck, first phase: insert without a delta record. *)
TurnOnInsert ==
  /\ pc = "insert"
  /\ LET owners == {Owner(t) : t \in tmp}
     IN  /\ addQ' = owners \cap li
         /\ chk' = owners \ li
         /\ checked' = checked \ (owners \ li)
  /\ cand' = Extend(cand, tmp)
  /\ tmp' = {}
  /\ pc' = "check"
  /\ UNCHANGED <<nei, li, batch, nBatch, delQ, addDel, chkDel, activated, deltas>>

(* turnOnCheck, second phase. *)
TurnOnCheck ==
  /\ pc = "check"
  /\ LET on == {p \in chk \ (checked \cup li) : CheckNei(cand, p)}
     IN  /\ li' = li \cup on
         /\ addQ' = addQ \cup on
         /\ activated' = activated \cup on
  /\ checked' = checked \cup chk
  /\ chk' = {}
  /\ pc' = "addCollect"
  /\ UNCHANGED <<nei, cand, batch, nBatch, delQ, tmp, addDel, chkDel, deltas>>

(* addAndCheck, first phase, and the loop of Step 7 around it. *)
AddCollect ==
  /\ pc = "addCollect" /\ addQ # {}
  /\ tmp' = Tasks(addQ, cand)
  /\ chk' = ToCheck(Tasks(addQ, cand))
  /\ checked' = checked \ ToCheck(Tasks(addQ, cand))
  /\ addQ' = {}
  /\ pc' = "addInsert"
  /\ UNCHANGED <<nei, cand, li, batch, nBatch, delQ, addDel, chkDel, activated, deltas>>

AddDone ==
  /\ pc = "addCollect" /\ addQ = {}
  /\ pc' = "addDelete"
  /\ UNCHANGED <<nei, cand, li, checked, batch, nBatch, queues, activated, deltas>>

(* addAndCheck, second phase: the activated pair joins the lists of its    *)
(* partners; only a real insertion is recorded.                            *)
AddInsert ==
  /\ pc = "addInsert"
  /\ LET records == {Mirror(t) : t \in tmp}
     IN  /\ cand' = Extend(cand, records)
         /\ ins' = ins \cup Added(records)
  /\ tmp' = {}
  /\ pc' = "addCheck"
  /\ UNCHANGED <<nei, li, checked, batch, nBatch, addQ, delQ, chk, addDel, chkDel,
                 activated, del, upd>>

(* addAndCheck, third phase: a pair that fails is kept for deletion. *)
AddCheck ==
  /\ pc = "addCheck"
  /\ LET todo == chk \ checked
         on == {p \in todo : CheckNei(cand, p)}
     IN  /\ li' = li \cup on
         /\ addQ' = on
         /\ activated' = activated \cup on
         /\ addDel' = addDel \cup (todo \ on)
  /\ checked' = checked \cup chk
  /\ chk' = {}
  /\ pc' = "addCollect"
  /\ UNCHANGED <<nei, cand, batch, nBatch, delQ, tmp, chkDel, deltas>>

(* Seeded fault: the pairs that failed are dropped. *)
AddCheckDeleteLost ==
  /\ pc = "addDelete"
  /\ addDel' = {}
  /\ pc' = "delCollect"
  /\ UNCHANGED <<nei, cand, li, checked, batch, nBatch, addQ, delQ, tmp, chk, chkDel,
                 activated, deltas>>

(* addAndCheckDelete: of those, the pairs still off. *)
AddCheckDelete ==
  /\ pc = "addDelete"
  /\ delQ' = addDel \ li
  /\ addDel' = {}
  /\ pc' = "delCollect"
  /\ UNCHANGED <<nei, cand, li, checked, batch, nBatch, addQ, tmp, chk, chkDel,
                 activated, deltas>>

(* Step 10: the whole rows of the pairs that were activated and stayed on. *)
RecordActivated ==
  /\ pc = "record"
  /\ ins' = ins \cup Tasks(activated \cap li, cand)
  /\ pc' = "construct"
  /\ UNCHANGED <<nei, cand, li, checked, batch, nBatch, queues, activated, del, upd>>

(* The candidate entries that the update pair at k realises, in both       *)
(* directions, also when the edge was in the graph before the batch.       *)
Realised(k) == BothWays({t \in Tasks(li, cand) : <<t[1], t[2]>> = batch[k]})

UpdateEntries == UNION {{k} \X Realised(k) : k \in DOMAIN batch}

(* Seeded fault: the update entries stay in the index that is queried. *)
ConstructUpdateKept ==
  /\ pc = "construct"
  /\ upd' = UpdateEntries
  /\ pc' = "rest"
  /\ UNCHANGED <<nei, cand, li, checked, batch, nBatch, queues, activated, ins, del>>

(* ConstructUpdate: every update entry is also a deletion, so that the     *)
(* index queried for this batch is without the edges of the batch.         *)
ConstructUpdate ==
  /\ pc = "construct"
  /\ upd' = UpdateEntries
  /\ del' = del \cup UpdateEntries
  /\ pc' = "rest"
  /\ UNCHANGED <<nei, cand, li, checked, batch, nBatch, queues, activated, ins>>

-----------------------------------------------------------------------------
Work ==
  \/ TurnOff \/ DelCollect \/ DelDone
  \/ \E t \in tmp : DelErase(t)
  \/ DelEraseDone
  \/ \E c \in chkDel : DelCheck(c)
  \/ DelCheckDone
  \/ TurnOnInsert \/ TurnOnCheck
  \/ AddCollect \/ AddDone \/ AddInsert \/ AddCheck \/ AddCheckDelete
  \/ RecordActivated \/ ConstructUpdate

Next == Work \/ \E b \in Batches : StartBatch(b)

Spec == Init /\ [][Next]_vars

(* A batch that was started is worked on until it is done: the TBB workers *)
(* run every task of a phase.  Nothing says that another batch arrives.    *)
FairSpec == Spec /\ WF_vars(Work)
-----------------------------------------------------------------------------
(* Properties.                                                             *)

AtRest == pc = "rest"

Deleting == pc \in {"addDelete", "delCollect", "delErase", "delCheck", "record",
                    "construct", "rest"}

(* The filter never loses a match.  From the end of the activation rounds  *)
(* on, through every order of the deleting tasks and until the next batch, *)
(* no set of pairs that are off could support itself in the current graph, *)
(* even with the help of every pair that is on.  A pair of an embedding is *)
(* therefore on: the index is safe to enumerate from.                      *)
Sound == Deleting => Complete(nei, li)

(* The filter keeps nothing it could drop: with the batch done, every pair *)
(* that is on is supported by pairs that are on.  (Not true of a query     *)
(* vertex with two repeated labels: see isChecked in delAndCheck.)         *)
Tight == AtRest => Supported(nei, li, li)

(* With the batch done, the list of a pair that is on names exactly its    *)
(* neighbours that are on for the query neighbour: no entry outlives the   *)
(* pair it points to, and none was missed when that pair was activated.    *)
ListsExact ==
  AtRest => \A p \in li : \A w \in QNei[p[2]] :
    cand[p[1]][p[2]][w] = {x \in nei[p[1]] : <<x, w>> \in li}

(* Of two adjacent compatible pairs at least one keeps the other in its    *)
(* list, in every state but the one between the insertion of the edge and  *)
(* that of its entries.  A pair erased from both sides could never be      *)
(* found again by addAndCheck, which only walks lists.                     *)
NoEdgeForgotten ==
  pc # "insert" =>
    \A p, q \in Compat :
      (q[1] \in nei[p[1]] /\ q[2] \in QNei[p[2]]) =>
         (q[1] \in cand[p[1]][p[2]][q[2]] \/ p[1] \in cand[q[1]][q[2]][p[2]])

(* No list ever names a vertex that is not a neighbour, with the right     *)
(* label, in the graph as it is then.                                      *)
ListsInGraph ==
  \A v \in DV, u, w \in QV : \A x \in cand[v][u][w] :
    x \in nei[v] /\ w \in QNei[u] /\ <<v, u>> \in Compat /\ <<x, w>> \in Compat

(* The index as its user sees it: after each batch, the largest set of     *)
(* pairs that support one another in the graph with the batch inserted.    *)
Abstract == INSTANCE IndexSpec
              WITH adj <- nei, settled <- AtRest, live <- (IF AtRest THEN li ELSE {})

ImplementsIndexSpec == Abstract!SSpec

(* Every batch that is started is finished: the cascades of Step 7 and     *)
(* Step 8 stop, although each round queues the next.                       *)
BatchCompletes == []<>AtRest
=============================================================================
