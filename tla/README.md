# A TLA+ verification of the CGBDSM incremental subgraph matcher

The program counts the new matches of a small query graph while edges are
inserted into a large labelled data graph. A CPU index (CaLiG) filters which
data vertex may play which query vertex; its changes are sent, batch by batch,
to an index on the GPU; and kernels enumerate on the GPU the matches that the
batch made possible. Two threads run the CPU and the GPU side as a pipeline.

This directory models the parts in which the order of steps matters, checks
them with TLC on small instances, and proves some of the results with TLAPS.

## 1. Inventory

| Component (source) | State | Operations | Interactions | What is hard | What makes it correct |
|---|---|---|---|---|---|
| **CaLiG candidate index** (`index/calig.cpp`, `calig.h`) | data graph `G[v].nei`, candidate lists `G[v].cand[u][w]`, candidate bits `G_Li`, `isChecked`, work queues, deltas | `constructCand`, `staticFilter`, per batch `updateIndex` (activation rounds `turnOnCheck`, `addAndCheck`; deletion rounds `addAndCheckDelete`, `delAndCheck`) and `ConstructUpdate` | called by Stage 1; its deltas and bits are read by the staging | TBB workers apply tasks in any order under per-list locks; cascades over rounds; one `isChecked` flag for several label checks | no vertex of a match is ever filtered out; lists are exact when a batch is done; rounds end |
| **GPU index and staging** (`index/calig_helper_gamma.*`) | vertex renumbering, staged deltas per batch, `gpu_index`, update index | `ConvertGlobalIndex`, `PrepareUpdateAll`, `PrepareUpdateIndex`, `TransferUpdateAll`, `TransferUpdateIndex`, `BatchUpdateGlobalIndex` | Stage 1 stages, Stage 2 merges, batches later | deltas are differences filtered with later knowledge; merges keep equal entries, so an entry too many is counted twice | after each batch the GPU index is CaLiG's index of that batch, each row once; index and updates are disjoint while a batch is matched |
| **Pipeline** (`main_calig.cpp`) | `s1_batch`, `pipeline_end`, `pipe_mtx`, `cv_s1_done`, the window of each batch, `vertex_mapping_changed_` | Stage-1 thread, main thread | mutex and condition variable, per-batch slots | Stage 1 runs ahead without limit; a bit vector is written by both; the last batch is short | a batch is used only when staged; nothing published changes; every line of the stream is processed; both threads end |
| **Host mirror** (`index/cpu_index_mirror.*`) | sorted lists per query edge | `BuildInitial`, `MergeInsert`, `MergeDelete`, `RebuildUpdate` | fed from the same staged deltas; read by the CPU search | set semantics on one side, multiset on the other; storage reuse and compaction | the mirror is the GPU index |
| **Merged matching, host loop** (`graph/graph_gpu.cu`, `utils/mem_pool.h`) | cyclic result queue, current level | `MatchingBitAll`, `Step5CPUGPUSplit` | launches the kernels | a level that does not fit is abandoned; levels share one ring; the last level is split between CPU and GPU | levels do not overlap; every partial match is extended once |
| **Enumeration kernels** (`kernels/enumeration*.cu`, `cartesian_product.cu`) | shared-memory stacks per warp | `writeInitialResultsAllBit`, `extendBFSAllBit`, the balanced kernel | read GPU index and update index | which relation each query edge may read, for a match that starts at a given query edge; work stealing | each new match is counted exactly once |
| **Index merge kernels** (`kernels/indexing.cu`) | CSR rows, neighbour pool | `mergeCSROntoGraph`, removal, support masks | called by the staging | warp-parallel in-place merge, bump allocation | merged rows are the sorted bag union (difference) |
| **Query plan** (`graph/plan.cpp`, `graph/graph.cpp`) | matching orders, backward neighbours, Cartesian-product classes | constructors | read by host loop and kernels | one global order for all starting edges | every order is connected; backward neighbours are right |
| **CPU search** (`index/cpu_dfs.*`, `cpu_pre_matcher.*`) | partial match | recursive search | reads the mirror | must count as the GPU kernel does | same count as the kernel |

Other parts: helper variants for other builds (`calig_helper_gpma.cu`, whose
matching is modelled by `GpmaMatching`, and `calig_helper.cu`, which no target
compiles), third-party code (`gpma/`, `storage_hash_map.hpp`, `utils/nucleus/`),
older kernels no target compiles or no loop launches (`enumeration_2.cu`,
`enumeration_bin_search_cache.cu`, `enumeration_balance.cu`), the query sampler
and the motivation program. `PROJECT.json` lists every part with its status.

## 2. Modules and how they correspond to the code

| Module | Models | State and actions |
|---|---|---|
| `GraphInput` | the loaders of `calig.cpp` and `graph.cpp` | operators from the lines of a file to the graphs and numbers that the two parsers make of it |
| `Startup` | `main_calig.cpp` up to the pipeline, on top of `Plan` and `GraphInput` | one action per call of `main`: `inputQ`, one of the two data loaders, the split of a binary graph into data and updates, `CPUGraphLoader`, `Plan` |
| `Plan` | `plan.cpp` | the matching order is built a vertex per step, as the code picks it; indexing orders, rebuild flags, product classes and packed backward neighbours are functions of query and order |
| `SortedLists` | `std::sort`, and `insert` at a `lower_bound` | operators used by the loaders, the planner and the mirror |
| `CaLiGDefs` | query and data graph, `tryNei`, `checkNei` | operators over explicit lists; the backtracking of `tryNei` is stated as what it decides, the existence of distinct representatives |
| `IndexSpec` | the promise of the index | after each batch the answer is the largest set of pairs that support one another; no answer while a batch is worked on |
| `CaLiGIndex` | `constructCand`, `staticFilter`, `updateIndex`, `ConstructUpdate` | `nei`, `cand`, `li`, `checked` are `G[v].nei`, `G[v].cand`, `G_Li`, `isChecked`; each `tbb::parallel_for` is a phase (`pc`) and each `mergeTasks` a barrier; `tmp`, `chk`, `addQ`, ... are the queues of the same names |
| `GlobalIndex` | `calig_helper_gamma.cu` and the Stage-2 loop, on top of `CaLiGIndex` | `stages[b]` are the staged vectors of batch b, `idx` the GPU index as a bag of rows `<<v, x, u, w>>`, `mirror` the host mirror; `Prepare`, `TransferUpdateAll`, `BatchUpdateGlobalIndex` interleave with the CaLiG steps of later batches |
| `MergedMatching` | what `BuildLocalIndexBitAll`, `MatchingBitAll` and their kernels count, on top of `GlobalIndex` | `numMatches` is `num_positive_matches`; `SupportMask`, `Copies`, `Matches`, `Multiplicity` say what is enumerated from each starting query edge and how often; `history` is a ghost for the properties |
| `GpmaMatching` | the `USE_GPMA` build: `calig_helper_gpma.cu` and its branch of the main loop | the actions of `MergedMatching` with the sorted vector that this variant keeps, which nothing updates after a search |
| `Pipeline` | the two threads of `main_calig.cpp` | `s1_batch`, `pipeline_end`, the condition variable, per-batch slots, and `vertex_mapping_changed_` read and written as one word |
| `IndexRows`, `NeighbourPool` | the device lists: `nbr_mem_pool_`, `AllocateFromMappingGPU`, `mergeCSROntoGraph`, `removeCSROromGraph` | a warp takes its next vertex (`Take`), reserves a place (`Place`), sets the size (`SetSize`) and merges a block at a time (`MergeRound`, in which all lanes read before any writes); a removal is one step per kernel |
| `HostMirror` | `cpu_index_mirror.cpp` | each direction is an array with a place and a length per vertex; append, compaction and the per-batch update lists |
| `IndexStores` | both stores under the order of calls of the main thread | `rows` is a ghost: what the lists should hold |
| `CyclicQueue` | `CyclicQueue` of `mem_pool.h` | operators on a record of `start` and `end`, with the modulo arithmetic of the code, and cells read and written around the end |
| `MatchLoop` | `Matching`, `MatchingBit`, `MatchingBitAll`, `SyncCPUMirrorMasks`, `Step5CPUGPUSplit` | `step` is the place in the loop; each launch is an action that writes the next level, or gives up after any part of it |
| `SearchLists`, `LocalIndex` | what a search reads: `BuildLocalIndex`, `SetupLocalIndex(All)`, `BuildLocalIndexBitAll` and the kernels of `indexing.cu` they launch | operators: local lists filtered along the indexing order; one-bit and wide support masks |
| `Enumeration` | the initial kernels, the extension kernels of the three loops, the product kernels and the CPU's `cpuExtendBFSAllBitCount` | `warps[w]` holds the stacks of a warp (`queue`, `pos`, `endV`, `endNbr`, `cont`); `TakeRow`, `Intersect`, `Descend`, `Backtrack`, `Return`, `Reserve`, `WriteRows` interleave between warps |
| `MCGraphs`, `MCCaLiGIndex`, `MCMergedMatching`, `MCGpmaMatching`, `MCPlan`, `MCMatchLoop`, `MCEnumeration`, `MCIndexStores` | instances for TLC | query shapes, data graphs, batches, plans, searches, histories |
| `InductionLemmas` | no code: how the proofs do without induction over data | a least counterexample instead of induction, functions that recurse on a number, folds over finite sets |
| `GlobalIndexProofs` | theorems about `CaLiGIndex` and `GlobalIndex` | |
| `MatchCountProofs` | lemmas about the operators of `MergedMatching`; theorems about its specification | extends `GlobalIndexProofs` |
| `PipelineProofs`, `EnumerationProofs`, `MatchLoopProofs`, `IndexStoresProofs` | theorems about the modules of those names | |
| `PlanProofs` | lemmas about the operators of `GraphInput` and `Plan`; theorems about `Startup` | |

How the parts fit together. `Startup` runs the loaders and then the planner of
`Plan` on what they made. `GlobalIndex` extends `CaLiGIndex` and `MergedMatching`
extends both, so the `matching_*` runs check the whole path from an inserted edge
to the count, with the device lists as bags of rows, the host lists as sets, and a
search as a formula. Three groups of modules then open what those formulas
abstract, each with an interface the others rely on:

* `IndexStores` shows that both stores hold, list by list, exactly the rows merged
  into them. `GlobalIndex` keeps bags since it has histories in which a row is
  merged twice; `IndexStores` takes histories in which rows are merged once, which
  `MirrorInSync` shows the staging to give where no pair is left unsupported.
* `Enumeration` shows of each launch what `MatchLoop` assumes of it: the level it
  writes holds each extension once (`NothingTwice`, `NothingLost`), in the region it
  was given (`RegionKept`), and it ends (`LaunchEnds`).
* `MatchLoop` shows that the loops, whichever way they take, count every match that
  the kernels can extend a partial match to exactly once.

Granularity. In `CaLiGIndex` the bodies of a parallel phase commute (inserts
into sets, bit ors, appends to queues that are read after the barrier) except in
`delAndCheck`: there each erasing task and each label check is a step, in any
order, because a task tests the list it shortened and `isChecked` lets only the
first label check of a pair through. `Pipeline` takes a critical section as a
step, and a write of one `std::vector<bool>` element as a read and a write.
Stage 2 steps of `GlobalIndex` are atomic: they read and write only what Stage 2
owns and the slot of a published batch, which `PublishedIsStable` says does not
change. In `Enumeration` and `NeighbourPool` the lanes of a warp act together
(`__syncwarp`) and warps in any order; a reservation (`atomicAdd`) and the writes
that follow are steps of their own. The kernels of `LocalIndex` are one step each:
their threads write to different vertices or add bits with `atomicOr`.

Definitions whose comment says *seeded fault* are not part of the model: they
are forms the code could have had by mistake, which show that a property would
notice.

## 3. Runs

All runs stop when their input ends, so those whose specification has no step for
a finished program switch the deadlock check off.

| Run | Instance | Question and answer |
|---|---|---|
| `plan_small` | all connected queries of 2 to 4 vertices and six of 5, four ways to order, files with refused queries | Do the two parsers agree on numbers and labels; is an inserted edge kept out of the data graph; is every order connected; do the rebuild flags of indexing and matching orders agree; are the suffixes that are enumerated as products independent; are the packed neighbours read back (hold) |
| `index_kite` | 4-cycle of two repeated labels with a tail, 2 batches | `CaLiGIndex` implements `IndexSpec`, with lists exact, no edge forgotten and rounds that end, through activation cascades and deletions around the cycle (holds) |
| `matching_cycle` | 4-cycle, partly rebuilt masks, 2 batches | GPU index and mirror equal the CaLiG rows, the number of matches is right, and every batch reaches the GPU (holds) |
| `matching_double` | a centre with two repeated labels, 2 batches | the number of matches is wrong after a swallowed label check (violated, finding 3) |
| `matching_wide` | 17 query edges | the 5-bit edge number wraps (violated, finding 4) |
| `matching_gpma` | the 4-cycle with `USE_GPMA` | matches through earlier batches' edges are missed (violated, finding 5) |
| `pipeline_even` | 4 lines, batch sizes 2, 4, 6, 9 | every line indexed, staged before use, nothing published changes, both threads end (holds) |
| `pipeline_odd` | 3 lines, batch sizes 1 to 4 | an odd `batch_size` loses lines (violated, finding 1) |
| `pipeline_race` | 2 lines, 2 vertices to map | a lost bit of `vertex_mapping_changed_` (violated, finding 2) |
| `stores` | 648 histories of merges, 2 warps | every search that is started reads the right lists in the pool and in the mirror, also when the pool runs out (holds) |
| `loop` | 2 searches one after the other in a queue of 40 cells | levels are not overwritten, every match is counted once, the CPU prunes with its batch's masks (holds) |
| `kernels` | 12 searches of 4 batches, 2 warps of 2 lanes | no match lost, none found twice, no write outside the region or over another's, launches end (holds) |

### Bounds

`MaxBatches` bounds the stream of the index and matching runs to two batches: the
hazards need a batch that finds the leftovers of another one, and a Stage 2 one
batch behind. A batch has one or two edges, enough for two edges of one match in a
batch and for repeated edges within and across batches. Data graphs have two
candidates for most query vertices, so that a pair has something to lose and
another to keep, and one vertex no query vertex can use. In `Pipeline`, `MaxDV`
bounds the vertices that get a number; batches are told apart by whether they have
update entries; three batches or more are in flight for the smallest batch size.

`kernels`: a warp has 2 lanes and lists have up to 5 entries, so a list takes one,
two and three rounds, the last of them full or not; masks have 2 bits, so new edges
share them; a launch may write 3 rows (it is cut off) or 40 (it never is). Up to
`Resident` = 3 rows the two warps interleave freely; launches with more rows run
one warp at a time, as the rows are independent except for the reservation, which
the small launches and the theorem `RegionSafe` cover.
`loop`: 40 cells let levels of the chosen searches fill the ring, wrap around its
end, and not fit; five query vertices leave room for each of Steps 2 to 5, and a
second search starts from what the first one left.
`stores`: the least list capability is 8 as in the code; lists of up to 8 elements,
in every order of old and new, cross every block boundary of two lanes; the pool
holds 288 cells at first and 305 to 337 in all, which is room for both, one or none
of two lists that have to move.
`plan_small`: MAX_VCOUNT, MAX_ECOUNT and `Jump` are lowered to 12, 10 and 4, so that
refusal, the sentinel of the packed array and the cut of the estimate all happen;
data files (up to three edge lines over six, binary graphs of three vertices) vary
only with queries that are then refused, since the planner does not read them.

### Fairness

`CaLiGIndex!FairSpec` has weak fairness of `Work`: TBB runs every task of a
`parallel_for` and the main line of `updateIndex` goes on. There is none on the
arrival of a batch. `MFairSpec` adds each step of both stages, which are plain
sequential loops. `Pipeline!FairSpec` has weak fairness of each thread; a waiting
Stage 2 is not enabled until it is notified, so a lost notification would show,
and a spurious wake-up is allowed but never required. `Enumeration!Spec` has weak
fairness of the kernels taken together with the end of a launch: some warp goes on,
as a GPU that makes progress guarantees, while no warp is promised a turn of its
own. `MatchLoop`, `IndexStores` and `Startup` have safety properties only.

## 4. Proofs

For every query, data graph, stream and number of batches
(`QueryAssumption`: query neighbours are symmetric and irreflexive, labels are
real labels; `DataAssumption`; `InputAssumption`: the initial graph is
symmetric):

* `GlobalIndexProofs!TypeCorrect`: `TypeOK` is inductive as it stands.
* `GlobalIndexProofs!ListsWithinGraph` (`ListsInGraph`). Lists are extended from
  queued tasks while the graph grows, so the invariant must say what queued tasks
  are: `GraphInv` adds that the graph is symmetric, that every task in `tmp` runs
  along an edge, and that a list entry is related and along an edge.
* `GlobalIndexProofs!EdgesRemembered` (`NoEdgeForgotten`). A deletion erases a pair
  from the partners that were on when the tasks were made, and a partner may go off
  in between. `EdgeInv` adds to `GraphInv` that the pairs of the deletion queue are
  off (`OffIsQueued`), that the queue is empty outside the deletion rounds
  (`QueueDrained`), that the entry a pending erasure was read from is still in place
  and its mirror is not pending (`OneSided`), and that of each related pair of
  neighbours one side lists the other or is about to (`AllKnown`). `NoEdgeForgotten`
  alone is not inductive: nothing in it keeps a task and its mirror from being
  pending together.
* `GlobalIndexProofs!NoMatchLost` (`Sound`) and `ListsNameLivePairs`
  (`ListsExact`), from `FilterInv`, which says of each pair and list which queue
  still has to look at it. `QueueInv`: a task ends at a pair that is on or off as
  its phase needs, and each queue is empty outside its rounds (`Drained`).
  `OnListed`: every pair lists each of its neighbours that is on, or the round that
  adds the entry is under way (`Coming`). `WellListed`: of any set of pairs that are
  off, the one that was turned off first lists the others, since a deletion erases a
  pair only from lists of pairs that are on. `OffFails`: a pair that is off and would pass its
  test is queued to be tested; so a set of pairs that support one another cannot be
  off, because the member of `WellListed` would pass. `OffLeaves`: a pair that is on
  lists one that is off only while the deletion of that one, or a test that may turn
  it on, is queued (`Leaving`).
* `GlobalIndexProofs!NothingKeptUnsupported` (`Tight`) and `IndexImplementsSpec`
  (`ImplementsIndexSpec`, the refinement of `IndexSpec`), when every query vertex
  has at most one repeated label (`OneRepeated`). `OnPasses` and `ChecksFresh` say
  that the lists of a pair that is on pass each of its tests, or the check of that
  label is queued and `isChecked` will let it through; with two repeated labels one
  flag serves two checks, and `matching_double` shows what then goes wrong.
* `GlobalIndexProofs!IndexFollowsCaLiG` (`IndexFollows`), `RowsSplitForMatching`
  (`MatchingSeesBatchOnce`) and `MirrorHoldsIndex` (`MirrorInSync`), under
  `SmallQuery`: `OneRepeated`, and directed query edges whose numbers fit in their
  five bits. `GlobalInv` extends `FilterInv` by `BatchInv`: rows of the batch before
  are never erased, because the pairs that were on before (`Old`) support one another
  without the batch (`BaseKept`, `OldSupported`); every other listed row was recorded
  as an insertion or runs along the window, and what was recorded as inserted and
  then erased was recorded as deleted. So the deltas staged are a difference:
  `StagesOK` says that each stage leads to the next (`Leads`), and `StageTwoInv`
  where between two stages the GPU index and the mirror are. No bound on how far
  Stage 1 is ahead is needed.

For every plan (`EdgeAssumption`: query edges are numbered without collision;
`PlanAssumption`: the orders list every query vertex once, and from the second
position on each vertex has a neighbour before it):

* `MatchCountProofs!OneVisibleStart`: when the rows of an assignment are each
  in exactly one of index and updates, and some in the updates, it can be read in
  full from exactly one starting query edge, the largest one that reads an update
  row. The hypothesis is `RowsSplitForMatching`.
* `MatchCountProofs!MatchesStartOnce` (`OneStartingEdge`): with the support masks,
  the order of the matching and the distinctness tests included, each match that is
  due for a batch is reached from exactly one starting edge. `HistoryInv` says that
  what is staged for a batch contains the rows of every match of its graph
  (an embedding supports itself, so `Sound` keeps it) and that the update entries are
  those of them along its window. The masks, the levels and the reference definition
  `Embeddings` are recursive functions over positions; that such a function exists
  and equals its body is `Recursion`, and what they hold is shown position by
  position with the induction over a least counterexample (`Least`, `Stepwise`).
* `MatchCountProofs!MatchesAreCounted` (`MatchesCounted`): the number printed is the
  number of matches due, after every batch. The count is a sum over starting edges of
  sums over their matches, `SumOfParts` makes it the size of a union of disjoint
  sets, and each match has multiplicity one because no row is held twice.
  `CountInv` adds where Stage 2 stands (`PlaceInv`) and that no edge of the graph
  joins a vertex to itself (`LooplessInv`).

  The hypotheses: `SmallPlan` is `SmallQuery` with query-edge numbers that fit in
  the five-bit tag, the conditions that `matching_double` and `matching_wide`
  violate; `SimpleData` excludes edges from a vertex to itself (see section 5).
  All of them hold of the instance of `matching_cycle`.

For every stream and batch size (`PipelineAssumption`):

* `PipelineProofs!StagedFirst` (`StagedBeforeUse`) and
  `PipelineProofs!PublishedNeverChanges` (`PublishedIsStable`), from `PInv`:
  `s1_batch` is the batch before the one Stage 1 works on, everything behind it is
  staged, `pipeline_end` comes after the last batch, and a Stage 2 that is past its
  wait is behind Stage 1.
* `PipelineProofs!EvenBatchesReadEveryLine` (`EveryLineIndexed`), when every batch
  size is even or takes the stream at once. `WInv` says that the lines indexed are
  those that begin before the window that comes next; the arithmetic of the last,
  short window is in `WindowLines` and `LastWindow`. The hypothesis is the one that
  `pipeline_odd` violates.

For every search, warp width and limit (`WarpAssumption`, `SearchesAssumption`,
`OrdersAssumption`):

* `EnumerationProofs!RegionSafe` (`RegionKept`). The cells written do not tell who
  may write next, so `RInv` adds what is reserved: `Divided` says that the cells a
  warp has reserved and not written are within what was handed out, that no two
  warps share one, that nothing written lies in them, and that no row lies beyond
  `new_res_size` or the limit. `Counting` says that a launch that only counts
  reserves nothing.

For every search, capability and number of batches (`CapabilityAssumption`,
`SearchAssumption`):

* `MatchLoopProofs!MasksOfTheBatch` (`MasksCurrent`), from `MInv`: when no copy is
  pending the host buffer holds the masks that are on the GPU.
* `MatchLoopProofs!FirstLevelHeld`, `LevelBehindIsKept`, `LevelMoves`: the queue's
  part, for any capability. `Holds(q, at, size)` says that what is
  not free is the level of `size` cells from `at` on. The first level establishes
  it, writing or giving up in the free part keeps every cell of it, and pushing the
  next level and popping this one carries it over, including a level that fills the
  queue (`GetFree` 0) and one that runs over the end of the array.
* `MatchLoopProofs!LevelStaysIntact` (`LevelIntact`), `LevelNeverOverwritten`
  (`LevelKept`) and `EveryMatchCountedOnce` (`CountedOnce`), from `LInv`. The
  properties speak of the rows that are read back from the queue; that these are a
  level needs three things more. `LevelHeld` keeps the queue's `Holds` for the place
  and size of the level, and says that its rows, read cell by cell modulo the
  capability, list the partial matches of their length once each; `SplitCounted`
  says of a search in `split` which matches each processor that is done has counted;
  and `CountedOnce` itself is the part of the other steps. The next level lists each
  row once because the blocks of two rows are disjoint (`FlattenedOnce`) and every
  partial match extends exactly one row of the level before (`OnePrefix`); a row
  written to its cells is read back from them (`WrittenIsRead`, the division and
  remainder of the ring). At the end each match has one prefix among the rows, so the
  sizes of the blocks, the products and the two shares of a split each count it once.

For every history of merges (`ScriptsAssumption`: at least one batch, no fewer
vertices than before, and vertices for the rows of each batch):

* `IndexStoresProofs!MirrorIsTheIndex` (`MirrorRead`), from `MirrorInv`. The two
  stores are merged one after the other, so what the mirror holds is not what
  `rows` says in between: `MirrorInv` names the rows the mirror last merged and says
  how the device rows follow from them and what is on its way, which vertices each
  side has (those of the batch from its insertions on), and that every list of the
  mirror is sorted, without repetition, inside its array and apart from the others'.
  Each operation of the mirror is a fold over vertices; `FoldExists` gives the values
  the fold goes through, and the lemmas on append, merge, compaction and update lists
  say what one step does to the list of its vertex and to those of the others.

For every query file that numbers its vertices and connects them, all statistics and
each of the four variants (`InputsAssumption`, `PlanConstants`):

* `PlanProofs!PlanIsUsable` (`PlanUsable`), `StartIsRebuilt` (`StartRebuilt`),
  `FlagsAlwaysAgree` (`FlagsAgree`) and `ProductIsIndependent`
  (`ProductIndependent`), from `PlanInv`, which says what holds in each phase of
  `Startup`.
  * `Loaded`: the folds of the loader give a connected graph and the list of its
    edges (`QueryFacts`), and each indexing order is the breadth-first one. Breadth
    first from the ends of an edge reaches every vertex, because a connected graph
    has an edge out of any set that is not all of it (`Grown`, `GrownAll`).
  * `Ordered`: the order so far lists distinct vertices, each but the first next to
    one before it. A step keeps it because a connected query has a vertex to go on
    with (`SomeExtendable`), the cut at the first jump leaves one
    (`BeforeJumpSome`), and every tie has a best one (`Minimal`, `LeastValue`, and
    for fractions `FewerOrder`).
  * `Flagged`: the flags hold the first edge of every path from the start of the
    search to the updated edge, since the search for paths finds each of them
    (`PathsHit`); one runs along the indexing order (`PathExists`), so the start is
    rebuilt. And they hold all or none of the edges that lead back from a vertex of
    an indexing order (`AgreesWith`). This is a statement about simple paths: if one
    from the start passes vertex u before its end, and w leads from u to the updated
    edge, then some simple path from the start has the first edge of w (`Splice`).
    Where w first meets the path again decides how: at its end or not at all
    (`DetourToEnd`), after u (`DetourAhead`), or before u, when w is run through from
    its far end (`DetourBack`, `DetourAround`).
  * The classes of the suffixes are a recursive function downwards, shown from the
    last position to the second (`ProductInfoIs`, `ProductClasses`).
* `PlanProofs!BackwardIsDecoded` (`BackwardDecoded`), for queries of fewer than
  `MAX_ECOUNT` edges, the condition that the array of an indexing order needs. An
  offset, a sum over positions, is the number of entries before (`OffsetIs`), the
  lists joined up to a position have as many (`ListsNext`), and there are no more
  entries than query edges, since each leads back once (`EntriesAreEdges`).

Only model-checked:

* `LoadersAgree` and `DataLoaded`, which compare the readers of the files; they need
  files without repeated query edges and with vertices by number;
* `NothingLost` and `NothingTwice`, and `PoolRead`: the lists a search reads and a
  removal keeps are selections from sequences (`SelectSeq`), which the prover does
  not expand;
* liveness (`BatchCompletes`, `AllStaged`, `AllBatchesMerged`, `LaunchEnds`),
  which the prover does not handle.

## 5. Findings

1. `batch_size` counts vertex ids, two per line, not updates; an odd one splits
   lines between windows (`pipeline_odd`).
2. Both threads write elements of one `std::vector<bool>` without a lock; a flag
   can be lost, and a batch is then merged without room for its new vertices
   (`pipeline_race`).
3. One `isChecked` flag for several label checks lets an unsupported pair stay on;
   its rows end up in the GPU index twice and matches are counted twice
   (`matching_double`).
4. The loader accepts 42 query edges, the encoding of a row has room for 16
   (`matching_wide`).
5. The `USE_GPMA` build never adds a batch's edges to the index after matching it,
   so later matches that use them are not counted (`matching_gpma`).

Met while modelling and outside what the runs decide:

* `enumeration.cu:37-44` overwrites a warp's shared write position for its next
  vertex without a `__syncwarp` after the lanes have used it; the initial kernels are
  one step in the model.
* `graph_gpu.cu:1300` writes the initial rows without asking the queue for room
  (`SearchAssumption` keeps them within the capability).
* A query of two vertices has no suffix, but its product class is read at position
  2 (`SearchAssumption` asks for three vertices).
* `bni` has `MAX_ECOUNT` entries and a sentinel, one too few for 42 query edges.
* The loaders accept an edge from a vertex to itself (`calig.cpp:166-214`,
  `719-733`), and the initial kernels do not compare the first two vertices of a
  match (`enumeration.cu:727-800`): such an edge would be counted as a match of a
  query edge between equal labels. The instances have none and
  `MatchesAreCounted` excludes them.
* `indexing.cu:1490` writes `nb_mask & tmp == tmp`, in which `==` binds tighter than
  `&`; the code is switched off with `USE_PUSH_ALL`.

## 6. Not modelled, and the plan

Left out, and why:

* Edge deletions (`turnOffCond`, `turnOffCheck`): only negative ids reach them, the
  documented stream is insertion-only and the staging has no path for negative
  matches.
* Code that nothing calls: `BuildLocalIndexBit` with its candidate kernels,
  `SetConstantValidBits`, `ReAllocValidBits`, the look-ahead and the `pushAll` and
  trie kernels of `indexing.cu`, `shallowDFS` and `write_cpu_partial_results`,
  `enumeration_balance.cu`, `AddVertices`, `GroupDenseVertices`, `LoadInitial`,
  `LoadUpdate`, `DetectConflict`, statistics and printing.
* Code that no target compiles: `calig_helper.cu`, `enumeration_2.cu`,
  `enumeration_bin_search_cache.cu`, `cpu_pre_matcher.cpp`.
* Plan data that nothing reads: forward neighbours, triangles, NLF.
* Third-party code (`gpma/`, the hash map, `utils/nucleus/`), the sampler and the
  motivation program.
* Vertex ids beyond 27 bits, the order of thrust's sorts, CUDA memory management,
  NUMA placement and timing. An access outside a vector (a data graph without an edge
  line, an update id without a vertex) has no outcome to model.

What is open, in the order in which it would be taken up:

1. `NothingTwice`: the walk of a warp enumerates its tree without repetition.
2. `PoolRead`, and `NeighbourPool` as a refinement of the bag operations of
   `GlobalIndex`, with equal entries in a list.
