----------------------------- MODULE MatchLoop -----------------------------
(***************************************************************************)
(* The host loops that drive the search for matches on the GPU: Matching,  *)
(* MatchingBit and MatchingBitAll of src/graph/graph_gpu.cu, with          *)
(* SyncCPUMirrorMasks and Step5CPUGPUSplit.                                *)
(*                                                                         *)
(* A search starts with partial matches of two vertices and extends them   *)
(* a level at a time (Step 2), several levels at once (Step 3) and to the  *)
(* end, by a product of lists (Step 4) or without storing levels (Step 5). *)
(* The level at hand lies in the result queue; the next is written behind  *)
(* it before it is released.  A level that does not fit is given up.  In   *)
(* MatchingBitAll the end may be shared with the CPU.                      *)
(*                                                                         *)
(* The search is a tree of partial matches, arbitrary here: which rows     *)
(* extend which is for the kernels.  The rows of a level are written in    *)
(* one order, as nothing depends on it.                                    *)
(***************************************************************************)
EXTENDS CyclicQueue, SequencesExt, FiniteSetsExt, Functions

CONSTANTS
  QV_COUNT,             \* number of query vertices
  MIN_NRESULTS_TO_GPU,  \* a level this large is not extended singly
  SIZE_SPACE,           \* entries of res_size_cartesian_product_
  Searches,             \* records of rows, a finite set of partial matches
                        \* (sequences) that holds their prefixes, and
                        \* product, the class of the suffix after a depth
  NumBatches            \* bound: how many searches follow each other

Depths == 2..QV_COUNT

ASSUME SearchAssumption ==
  /\ QV_COUNT \in Nat /\ QV_COUNT > 2
  /\ \A s \in Searches :
       /\ IsFiniteSet(s.rows)
       /\ \A m \in s.rows : m \in Seq(Range(m)) /\ Len(m) \in Depths
       /\ \A m \in s.rows : Len(m) > 2 => Front(m) \in s.rows
       /\ 2 * Cardinality({m \in s.rows : Len(m) = 2}) <= capability
       /\ DOMAIN s.product = 2..QV_COUNT - 1

VARIABLES
  loop,       \* the function that is used
  batch,      \* not in the code: number of the search
  search,     \* what there is to be found
  step,       \* where the loop is
  queue,      \* res_queue_
  array,      \* res_queue_.array_
  res,        \* res_, the first cell of the level
  res_size,   \* res_size_, its number of rows
  cur_depth,  \* cur_depth_, their length
  oom,        \* a level did not fit
  product,    \* enumerate_cartesian_product
  found,      \* per match, how often it was counted in num_matches
  split,      \* k: rows below it are for the CPU
  frontier,   \* h_frontier_buf_
  shares,     \* the processors that have not finished Step 5
  masks,      \* the batch whose support masks are on the GPU
  hostMasks,  \* the batch whose masks are in the host buffer sm_host_
  copies      \* pending copies on cpu_mask_stream_

vars == <<loop, batch, search, step, queue, array, res, res_size, cur_depth, oom,
          product, found, split, frontier, shares, masks, hostMasks, copies>>

level == <<queue, array, res, res_size, cur_depth>>
split_vars == <<split, frontier, shares>>
mask_vars == <<masks, hostMasks, copies>>
ended == <<product, found, split_vars, mask_vars>>

Level(d) == {m \in search.rows : Len(m) = d}

Rows == RowsAt(array, res, cur_depth, res_size)

(* The rows of a set in some order. *)
Listed(S) == FoldSet(LAMBDA m, ms : Append(ms, m), <<>>, S)

(* What a kernel makes of rows: those of length d that extend one.         *)
Extended(rows, d) ==
  FlattenSeq([i \in DOMAIN rows |-> Listed({m \in Level(d) : IsPrefix(rows[i], m)})])

Count(rows) ==
  LET complete == Extended(rows, QV_COUNT)
  IN  [m \in DOMAIN found |->
         found[m] + Cardinality({i \in DOMAIN complete : complete[i] = m})]

-----------------------------------------------------------------------------
Init ==
  /\ loop \in {"Matching", "MatchingBit", "MatchingBitAll"}
  /\ batch = 0 /\ search = [rows |-> {}, product |-> <<>>]
  /\ step = "done"
  /\ queue = Reset /\ array = [c \in Cells |-> 0]
  /\ res = 0 /\ res_size = 0 /\ cur_depth = 2
  /\ oom = FALSE /\ product = FALSE /\ found = <<>>
  /\ split = 0 /\ frontier = <<>> /\ shares = {}
  /\ masks = 0 /\ hostMasks = 0 /\ copies = 0

(* Before each search the local index and its masks are built, and the     *)
(* copy of the masks for the CPU is begun.                                 *)
SyncCPUMirrorMasks ==
  /\ masks' = masks + 1
  /\ copies' = IF loop = "MatchingBitAll" THEN copies + 1 ELSE copies
  /\ UNCHANGED hostMasks

Prepare ==
  /\ step = "done" /\ batch < NumBatches
  /\ SyncCPUMirrorMasks
  /\ batch' = batch + 1
  /\ search' \in Searches
  /\ found' = [m \in {m \in search'.rows : Len(m) = QV_COUNT} |-> 0]
  /\ oom' = FALSE
  /\ step' = "initial"
  /\ UNCHANGED <<loop, level, product, split_vars>>

(* A copy on the stream reads the masks when it runs. *)
CopyMasks ==
  /\ copies > 0
  /\ copies' = copies - 1
  /\ hostMasks' = masks
  /\ UNCHANGED <<loop, batch, search, step, level, oom, product, found, split_vars, masks>>

(* Step 1: the partial matches of two vertices.  GetFree of the queue that *)
(* was just reset is 0, but the kernel does not look at the limit.         *)
Step1 ==
  /\ step = "initial"
  /\ LET rows == Listed(Level(2))
     IN  /\ array' = Written(array, TryMax(Reset), 2, rows)
         /\ queue' = Push(Reset, Len(rows) * 2)
         /\ res' = TryMax(Reset) /\ res_size' = Len(rows) /\ cur_depth' = 2
         /\ step' = IF rows = <<>> THEN "done" ELSE "small"
  /\ UNCHANGED <<loop, batch, search, oom, ended>>

-----------------------------------------------------------------------------
(* Seeded fault: the level itself is counted as free. *)
MaxNewOver(d) == (GetFree(queue) + res_size * cur_depth) \div d

(* The level at hand is extended to depth d behind it. *)
MaxNew(d) == GetFree(queue) \div d

Store(d) ==
  LET new == Extended(Rows, d)
  IN  /\ Len(new) < MaxNew(d)
      /\ array' = Written(array, TryMax(queue), d, new)
      /\ queue' = Pop(Push(queue, Len(new) * d), res_size * cur_depth)
      /\ res' = TryMax(queue) /\ res_size' = Len(new)
      /\ cur_depth' = IF new = <<>> THEN cur_depth ELSE d
      /\ UNCHANGED <<loop, batch, search, oom, ended>>

(* The kernels stop when the limit is reached; the level is given up and   *)
(* what was written of it stays where it is.                               *)
GiveUp(d) ==
  /\ Len(Extended(Rows, d)) >= MaxNew(d)
  /\ array' = Scribbled(array, TryMax(queue), MaxNew(d) * d)
  /\ oom' = TRUE
  /\ UNCHANGED <<loop, batch, search, queue, res, res_size, cur_depth, ended>>

Small == res_size < MIN_NRESULTS_TO_GPU /\ QV_COUNT - cur_depth > 1

Step2 ==
  /\ step = "small"
  /\ \/ /\ Small /\ Store(cur_depth + 1)
        /\ step' = IF res_size' = 0 THEN "done" ELSE "small"
     \/ /\ Small /\ GiveUp(cur_depth + 1)
        /\ step' = "multi"
     \/ /\ ~Small
        /\ step' = "multi"
        /\ UNCHANGED <<loop, batch, search, level, oom, ended>>

(* Step 3: all levels up to the first that can be enumerated as a product  *)
(* or counted, at once.                                                    *)
Suffix(d) == search.product[d]

UpTo == {d \in cur_depth..QV_COUNT - 1 : Suffix(d) \in {"TreeCartesianProduct", "TreeSingle"}}

Several == ~oom /\ Suffix(cur_depth) # "TreeCartesianProduct" /\ QV_COUNT - cur_depth > 2

Step3 ==
  /\ step = "multi"
  /\ \/ /\ Several /\ UpTo # {} /\ Store(Min(UpTo))
        /\ step' = IF res_size' = 0 THEN "done" ELSE "analysis"
     \/ /\ Several /\ UpTo # {} /\ GiveUp(Min(UpTo))
        /\ step' = "analysis"
     \/ /\ ~(Several /\ UpTo # {})
        /\ step' = "analysis"
        /\ UNCHANGED <<loop, batch, search, level, oom, ended>>

(* Step 4: products are used unless all rows have large and similar ones,  *)
(* which depends on the lengths of the lists and is left open.             *)
Step4 ==
  /\ step = "analysis"
  /\ \E similar \in BOOLEAN :
       product' = (/\ Suffix(cur_depth) = "TreeCartesianProduct"
                   /\ res_size < SIZE_SPACE - 1
                   /\ ~similar)
  /\ step' = "final"
  /\ UNCHANGED <<loop, batch, search, level, oom, found, split_vars, mask_vars>>

(* Step 5, by products or by extending the whole level. *)
Step5 ==
  /\ step = "final"
  /\ found' = Count(Rows)
  /\ step' = "done"
  /\ UNCHANGED <<loop, batch, search, level, oom, product, split_vars, mask_vars>>

-----------------------------------------------------------------------------
(* Step5CPUGPUSplit: the rows below k are copied for the CPU, in two parts *)
(* when they run over the end of the array, and the GPU extends the others *)
(* meanwhile.  k follows a ratio that adapts to the speed of both.         *)
Frontier(k) ==
  LET need == k * cur_depth
      first == Min({need, capability - res})
  IN  [c \in 1..need |-> IF c <= first THEN array[res + c - 1] ELSE array[c - first - 1]]

Launch ==
  /\ step = "final" /\ ~product
  /\ \E k \in 1..res_size - 1 :
       /\ split' = k
       /\ frontier' = Frontier(k)
  /\ shares' = {"CPU", "GPU"}
  /\ step' = "split"
  /\ UNCHANGED <<loop, batch, search, level, oom, product, found, mask_vars>>

(* The CPU waits for both streams, then reads its rows from the copy.      *)
(* Seeded fault: it waits for the masks only the first time.               *)
MasksCopiedOnce == hostMasks > 0

MasksCopied == copies = 0

CPUShare ==
  /\ step = "split" /\ "CPU" \in shares /\ MasksCopied
  /\ found' = Count([i \in 1..split |->
                       [j \in 1..cur_depth |-> frontier[(i - 1) * cur_depth + j]]])
  /\ shares' = shares \ {"CPU"}
  /\ UNCHANGED <<loop, batch, search, step, level, oom, product, split, frontier, mask_vars>>

(* Seeded fault: the rows of the CPU are counted, not their cells. *)
GPURowsShort == RowsAt(array, res + split, cur_depth, res_size - split)

GPURows == RowsAt(array, res + split * cur_depth, cur_depth, res_size - split)

GPUShare ==
  /\ step = "split" /\ "GPU" \in shares
  /\ found' = Count(GPURows)
  /\ shares' = shares \ {"GPU"}
  /\ UNCHANGED <<loop, batch, search, step, level, oom, product, split, frontier, mask_vars>>

Join ==
  /\ step = "split" /\ shares = {}
  /\ step' = "done"
  /\ UNCHANGED <<loop, batch, search, level, oom, product, found, split_vars, mask_vars>>

-----------------------------------------------------------------------------
Steps == Step1 \/ Step2 \/ Step3 \/ Step4 \/ Step5

Matching == loop = "Matching" /\ (Prepare \/ Steps)

MatchingBit == loop = "MatchingBit" /\ (Prepare \/ Steps)

(* The masks are copied while the loop goes on. *)
MatchingBitAll ==
  /\ loop = "MatchingBitAll"
  /\ Prepare \/ Steps \/ Launch \/ CPUShare \/ GPUShare \/ Join \/ CopyMasks

Next == Matching \/ MatchingBit \/ MatchingBitAll

Spec == Init /\ [][Next]_vars

-----------------------------------------------------------------------------
(* Properties.                                                             *)

(* Between the steps the cells of the level hold exactly its partial       *)
(* matches, each once: the next level was not written over it, also when   *)
(* a level was given up half written, when regions run over the end of the *)
(* array, and when the queue is full.                                      *)
LevelIntact ==
  step \in {"small", "multi", "analysis", "final", "split"} =>
    /\ IsInjective(Rows)
    /\ Range(Rows) = Level(cur_depth)

(* A kernel that extends a level, also one that gives up, leaves the cells *)
(* of that level alone for as long as they are read.                       *)
LevelKept ==
  [][(step \in {"small", "multi"}) =>
       \A i \in 0..res_size - 1 : Row(array', res, cur_depth, i) = Row(array, res, cur_depth, i)]_vars

(* Whatever way a search takes (level by level, given up, several levels,  *)
(* products, shared with the CPU), each match is counted once.             *)
CountedOnce == step = "done" => \A m \in DOMAIN found : found[m] = 1

(* The CPU prunes with the masks of the batch at hand, although they are   *)
(* copied on a stream of their own and some batches never wait for it.     *)
MasksCurrent == [][CPUShare => hostMasks = masks]_vars
=============================================================================
