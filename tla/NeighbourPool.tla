--------------------------- MODULE NeighbourPool ----------------------------
(***************************************************************************)
(* The neighbour lists of the index on the device and the kernels that     *)
(* merge rows into them, src/kernels/indexing.cu.  The lists lie in a pool *)
(* that only grows: a list that may not fit in its place any more reserves *)
(* a new one, and every other is merged where it is, from the back, a      *)
(* block of WARP_SIZE of either list at a time.  The warps of a kernel     *)
(* run in any order; the lanes of a warp in step.  Offsets count from 0.   *)
(***************************************************************************)
EXTENDS IndexRows

CONSTANTS
  WARP_SIZE, MIN_NBR_SIZE,
  NUM_WARPS    \* blockDim.x * gridDim.x / WARP_SIZE

VARIABLES
  nv,          \* DV_COUNT, the vertices that have an entry
  pool,        \* nbr_mem_pool_: array_, capability_ and *occupy_
  index,       \* gpu_index: nbrs_, sizes_ and capability_ of [idx][u]
  update,      \* gpu_update_index: the list of [idx][u]
  launch,      \* the kernels still to run, and what they merge
  warps        \* of the kernel that runs: what a warp is doing

poolVars == <<nv, pool, index, update, launch, warps>>

Slots(n) == 0..n    \* one more than there are vertices

Block(S, first, last) == {i \in S : first <= i /\ i <= last}

-----------------------------------------------------------------------------
OutOfMemory == pool.occupy >= pool.capability

(* roundCapabilities, and the capability that a merge reserves *)
RoundedCapability(size) ==
  Max({MIN_NBR_SIZE, Min({2 ^ k : k \in {k \in 1..8 : 2 ^ k >= 2 * size}})})

(* What is at an entry of an array. *)
Cell(array, i) == IF i \in DOMAIN array THEN array[i] ELSE Null

ListAt(array, entry) == [i \in 1..entry.sizes |-> Cell(array, entry.nbrs + i - 1)]

Stored(array, start, s) == [i \in start..start + Len(s) - 1 |-> s[i - start + 1]] @@ array

NoEntry == [nbrs |-> Null, sizes |-> 0, capability |-> 0]

(* generateSizePtr: the rows, sorted, as lists. *)
GenerateSizePtr(rows, n) ==
  [idx \in Indexes |-> [u \in Slots(n) |-> AscendingSeq(Delta(rows, idx, u))]]

(* allocateFromMemPool and copyFromFlatCSR: the next place, and the list.  *)
AllocateFromMemPool(c, idx, u, list) ==
  LET size == RoundedCapability(Len(list))
  IN  [index |-> [c.index EXCEPT ![idx][u] =
                    [nbrs |-> c.occupy, sizes |-> Len(list), capability |-> size]],
       array |-> Stored(c.array, c.occupy, list), occupy |-> c.occupy + size]

(* Every vertex gets a place of the rounded size, whether it has           *)
(* neighbours or not, and its list is copied there.                        *)
ConvertGlobalIndex(rows, n, capability) ==
  LET lists   == GenerateSizePtr(rows, n)
      keys    == FoldLeft(LAMBDA s, idx : s \o [i \in 1..n + 1 |-> <<idx, i - 1>>],
                          <<>>, AscendingSeq(Indexes))
      grow(c, k) == AllocateFromMemPool(c, k[1], k[2], lists[k[1]][k[2]])
      built   == FoldLeft(grow, [index |-> [idx \in Indexes |-> [u \in Slots(n) |-> NoEntry]],
                                 array |-> <<>>, occupy |-> 0], keys)
  IN  /\ nv = n
      /\ index = built.index
      /\ pool = [array |-> built.array, occupy |-> built.occupy, capability |-> capability]
      /\ update = [idx \in Indexes |-> [u \in Slots(n) |-> <<>>]]

(* AllocateFromMappingGPU: the arrays grow, and what is new in them is 0. *)
AllocateFromMapping(n) ==
  /\ nv' = n
  /\ index' = [idx \in Indexes |->
                 [u \in Slots(n) |-> IF u \in Slots(nv) THEN index[idx][u] ELSE NoEntry]]

-----------------------------------------------------------------------------
(* mergeSortedEdgesToIndex: the lists of the rows, and a kernel for each   *)
(* direction in turn.                                                      *)
Idle == [kernels |-> <<>>, insert |-> FALSE]

AtStart == [w \in 0..NUM_WARPS - 1 |-> [at |-> "take", u |-> w]]

MergeSortedEdgesToIndex(rows, is_insertion, n) ==
  /\ update' = GenerateSizePtr(rows, n)
  /\ launch' = [kernels |-> AscendingSeq(Indexes), insert |-> is_insertion]
  /\ warps' = AtStart

(* mergeCSROntoGraph: the next vertex of the warp that has new neighbours. *)
Running == launch.kernels # <<>> /\ launch.insert

Idx == Head(launch.kernels)

Goes(w, state) == warps' = [warps EXCEPT ![w] = state]

Ended(w) == [at |-> "end", u |-> warps[w].u]

Take(w) ==
  LET mine == {u \in Slots(nv) : u >= warps[w].u /\ u % NUM_WARPS = w /\ update[Idx][u] # <<>>}
  IN  /\ Running /\ warps[w].at = "take"
      /\ Goes(w, IF mine = {} \/ OutOfMemory THEN Ended(w) ELSE [at |-> "place", u |-> Min(mine)])
      /\ UNCHANGED <<nv, pool, index, update, launch>>

(* The list stays where it is, or a place is reserved: the old one is      *)
(* still what is read.                                                     *)
Place(w) ==
  LET u     == warps[w].u
      entry == index[Idx][u]
      size  == entry.sizes + Len(update[Idx][u])
      new   == RoundedCapability(size)
      c     == IF size >= entry.capability /\ pool.occupy + new < pool.capability
               THEN pool.occupy ELSE entry.nbrs
  IN  /\ Running /\ warps[w].at = "place"
      /\ pool' = IF size >= entry.capability THEN [pool EXCEPT !.occupy = @ + new] ELSE pool
      /\ index' = IF c # entry.nbrs
                  THEN [index EXCEPT ![Idx][u].nbrs = c, ![Idx][u].capability = new] ELSE index
      /\ Goes(w, [at |-> "size", u |-> u, a |-> entry.nbrs, c |-> c])
      /\ UNCHANGED <<nv, update, launch>>

SetSize(w) ==
  LET u    == warps[w].u
      a    == index[Idx][u].sizes
      size == a + Len(update[Idx][u])
  IN  /\ Running /\ warps[w].at = "size"
      /\ IF OutOfMemory
         THEN Goes(w, Ended(w)) /\ UNCHANGED index
         ELSE /\ index' = [index EXCEPT ![Idx][u].sizes = size]
              /\ Goes(w, [at |-> "merge", u |-> u, a |-> warps[w].a, c |-> warps[w].c,
                          a_start |-> a - 1, b_start |-> Len(update[Idx][u]) - 1])
      /\ UNCHANGED <<nv, pool, update, launch>>

(* Seeded fault: both blocks are taken, however far they reach. *)
TakesBothBlocks(a, b, as, bs) == [a |-> as, b |-> bs]

(* A block of the existing list and one of the new, both from the back.    *)
(* The list whose block reaches further down is taken only as far as the   *)
(* other block reaches; of the other, the whole block.  Each element goes  *)
(* as many cells down as there are elements above it in the two blocks.    *)
Taken(a, b, as, bs) ==
  LET lowA == Min(as)
      lowB == Min(bs)
  IN  IF as = {} \/ bs = {} THEN [a |-> as, b |-> bs]
      ELSE IF a[lowA] < b[lowB] THEN [a |-> {i \in as : a[i] > b[lowB]}, b |-> bs]
      ELSE [a |-> as, b |-> {j \in bs : b[j] > a[lowA]}]

MergeRound(w) ==
  LET t  == warps[w]
      a  == [i \in 0..t.a_start |-> Cell(pool.array, t.a + i)]
      b  == [j \in 0..t.b_start |-> update[Idx][t.u][j + 1]]
      c_start == t.a_start + t.b_start + 1
      \* when the other list is exhausted, the rest of this one is copied
      as == Block(DOMAIN a, IF t.b_start < 0 THEN 0 ELSE t.a_start + 1 - WARP_SIZE, t.a_start)
      bs == Block(DOMAIN b, IF t.a_start < 0 THEN 0 ELSE t.b_start + 1 - WARP_SIZE, t.b_start)
      taken == Taken(a, b, as, bs)
      cellA(i) == t.c + c_start - Cardinality({j \in bs : b[j] > a[i]}) - (t.a_start - i)
      cellB(j) == t.c + c_start - Cardinality({i \in as : a[i] >= b[j]}) - (t.b_start - j)
      writes == {<<cellA(i), a[i]>> : i \in taken.a} \cup {<<cellB(j), b[j]>> : j \in taken.b}
      left == [t EXCEPT !.a_start = @ - Cardinality(taken.a), !.b_start = @ - Cardinality(taken.b)]
  IN  /\ Running /\ t.at = "merge"
      /\ IF OutOfMemory
         THEN Goes(w, Ended(w)) /\ UNCHANGED pool
         ELSE /\ pool' = [pool EXCEPT !.array =
                            [cell \in {p[1] : p \in writes} |->
                               (CHOOSE p \in writes : p[1] = cell)[2]] @@ @]
              /\ Goes(w, IF left.a_start < 0 /\ left.b_start < 0
                         THEN [at |-> "take", u |-> t.u + NUM_WARPS] ELSE left)
      /\ UNCHANGED <<nv, index, update, launch>>

(* removeCSROromGraph, all of a kernel: the lists are disjoint, and each   *)
(* is walked by one thread.                                                *)
RemoveCSR ==
  LET kept(u) == SelectSeq(ListAt(pool.array, index[Idx][u]),
                           LAMBDA v : v \notin Range(update[Idx][u]))
  IN  /\ launch.kernels # <<>> /\ ~launch.insert
      /\ pool' = [pool EXCEPT !.array =
                    FoldLeft(LAMBDA array, u : Stored(array, index[Idx][u].nbrs, kept(u)), @,
                             AscendingSeq(Slots(nv)))]
      /\ index' = [index EXCEPT ![Idx] = [u \in Slots(nv) |->
                                            [@[u] EXCEPT !.sizes = Len(kept(u))]]]
      /\ launch' = [launch EXCEPT !.kernels = Tail(@)]
      /\ UNCHANGED <<nv, update, warps>>

KernelEnds ==
  /\ Running /\ \A w \in DOMAIN warps : warps[w].at = "end"
  /\ launch' = [launch EXCEPT !.kernels = Tail(@)]
  /\ warps' = AtStart
  /\ UNCHANGED <<nv, pool, index, update>>

Kernel ==
  \/ \E w \in DOMAIN warps : Take(w) \/ Place(w) \/ SetSize(w) \/ MergeRound(w)
  \/ RemoveCSR
  \/ KernelEnds
=============================================================================
