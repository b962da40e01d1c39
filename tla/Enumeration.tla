---------------------------- MODULE Enumeration ----------------------------
(***************************************************************************)
(* The kernels that search for matches, src/kernels/enumeration.cu and     *)
(* src/kernels/cartesian_product.cu, and the CPU's share of the work,      *)
(* src/index/cpu_dfs.cpp, as the loops of MatchLoop launch them.           *)
(*                                                                         *)
(* A warp takes a row of the level, a partial match, and walks the tree of *)
(* its extensions: up to WARP_SIZE candidates of a position are found in   *)
(* one round and queued, the walk goes down to the first, comes back, and  *)
(* goes on with the next or looks for more.  The completed extensions are  *)
(* counted, or a region of the result queue is reserved for them with an   *)
(* atomicAdd and they are written.  The lanes of a warp act together: the  *)
(* warps do not, and find the limit of the region reached at any time.     *)
(*                                                                         *)
(* A row is [e, m]: the query edge it was started from and the vertices.   *)
(* In the merged search e is packed into the upper bits of the first.      *)
(***************************************************************************)
EXTENDS LocalIndex, SequencesExt

CONSTANTS
  WARP_SIZE,
  Searches,   \* a set of records: lists, what is searched; loop, by
              \* which loop, edge, from which query edge; orders and rebuild,
              \* the plan of each query edge; masks and shorter, how it is
              \* prepared
  Limits,     \* rows that the region of a launch can hold
  Resident    \* bound: launches with more rows run one warp at a time

ASSUME WarpAssumption == WARP_SIZE \in Nat \ {0} /\ Limits \subseteq Nat

ASSUME SearchesAssumption ==
  \A s \in Searches :
    /\ s.loop \in {"Matching", "MatchingBit", "MatchingBitAll"}
    /\ \A e \in QE :
         /\ IsOrder(s.orders[e])
         /\ s.loop = "MatchingBitAll" => s.orders[e] = s.orders[0]

VARIABLES
  search,       \* what is searched
  local,        \* local_index, or d_all_local_: per query edge
  masks,        \* the support masks, per query edge
  rows,         \* the level at hand
  cur_depth,    \* its length
  oom,          \* a launch reached its limit
  launch,       \* the kernel that runs, with end_depth, write_res and limit
  todo,         \* its rows (or chunks) that no warp has taken
  warps,        \* what the resident warps do
  new_res_size, \* rows reserved, or matches counted
  out           \* the cells written: pairs of a position and a row

vars == <<search, local, masks, rows, cur_depth, oom, launch, todo, warps, new_res_size, out>>

prepared == <<search, local, masks>>

level == <<prepared, rows, cur_depth, oom>>

None == [kernel |-> "none"]

Idle == [row |-> <<>>]

Merged == search.loop = "MatchingBitAll"

Order(e) == search.orders[e]

(* Without masks everything passes. *)
Masked == search.loop # "Matching"

Wide == search.masks # "1Bit"

(* The query edges of a search.                                            *)
EdgesOf(s) == IF s.loop = "MatchingBitAll" THEN {e \in QE : EdgeOk(s.lists, e)} ELSE {s.edge}

Searched == EdgesOf(search)

-----------------------------------------------------------------------------
(* The lists a kernel reads.  Those of the merged search see the new rows  *)
(* of earlier query edges beside the global index, which has none of them. *)
(* Seeded fault: those of the edge itself are read twice.                  *)
ReadListTwice(e, d, v) ==
  local[e][d][v] \o (IF Merged /\ DirToEdge[d] <= e THEN search.lists.update[d][v] ELSE <<>>)

ReadList(e, d, v) ==
  local[e][d][v] \o (IF Merged /\ DirToEdge[d] < e THEN search.lists.update[d][v] ELSE <<>>)

(* smask_read and, for wide masks, the bits that the path has in common:   *)
(* with one bit they are not tracked (USE_CUM_PATH_MASK).                  *)
SmaskOk(e, u, v, path) ==
  Masked => IF Wide THEN masks[e][u][v] \cap path # {} ELSE masks[e][u][v] # {}

PathMask(e, m) ==
  IF ~(Masked /\ Wide) THEN Bits
  ELSE {b \in Bits : \A j \in DOMAIN m : b \in masks[e][Order(e).vs[j]][m[j]]}

-----------------------------------------------------------------------------
(* The global index is as the main loop has it at this time, the local     *)
(* index and the masks as the loop prepares them.                          *)
LocalOf(s, e) ==
  CASE s.loop = "Matching" ->
         BuildLocalIndex(s.lists, UpdateGlobalIndex(s.lists, e), e, s.rebuild[e], s.shorter)
    [] s.loop = "MatchingBit" ->
         SetupLocalIndex(s.lists, UpdateGlobalIndex(s.lists, e), e)
    [] s.loop = "MatchingBitAll" -> SetupLocalIndex(s.lists, RowsOf(s.lists.index), e)

Init ==
  /\ search \in Searches
  /\ local = [e \in Searched |-> ListsFrom(LocalOf(search, e))]
  /\ masks = IF ~Masked THEN <<>>
             ELSE [e \in Searched |->
                     MasksFrom(BuildMasks(search.lists, e, search.rebuild[e], search.masks))]
  /\ rows = {} /\ cur_depth = 1 /\ oom = FALSE
  /\ launch = None /\ todo = <<>> /\ warps = [w \in {1, 2} |-> Idle]
  /\ new_res_size = 0 /\ out = {}

(* write_initial_partial_results, _bit and writeInitialResultsAllBit: each *)
(* warp reserves a region for the list of a vertex and writes it.          *)
InitialRows(e) ==
  LET o == Order(e)
      pairs == {vx \in DV \X DV :
                  /\ vx[2] \in Range(ReadList(e, Dir(o, 1, 2), vx[1]))
                  /\ SmaskOk(e, o.vs[2], vx[2], PathMask(e, <<vx[1]>>))
                  /\ Masked => masks[e][o.vs[1]][vx[1]] # {}}
  IN  {[e |-> e, m |-> vx] : vx \in pairs}

WriteInitial ==
  /\ cur_depth = 1
  /\ rows' = UNION {InitialRows(e) : e \in
                      {e \in Searched :
                         /\ EdgeOk(search.lists, e)
                         /\ search.loop = "Matching" =>
                              LocalOk(RowsOf(local[e]), e, search.rebuild[e])}}
  /\ cur_depth' = 2
  /\ UNCHANGED <<prepared, oom, launch, todo, warps, new_res_size, out>>

-----------------------------------------------------------------------------
(* A launch.  The loops write levels, one or several positions further,    *)
(* and end with one that counts complete matches.                          *)
Ready == launch = None /\ cur_depth > 1 /\ rows # {} /\ cur_depth < QV_COUNT

Listed(S) == FoldSet(LAMBDA r, rs : Append(rs, r), <<>>, S)

ExtendKernels ==
  CASE search.loop = "Matching" -> {"extendBFSDFSRegTwo"}
    [] search.loop = "MatchingBit" -> {"extendBFSDFSRegTwoBit"}
    [] search.loop = "MatchingBitAll" -> {"extendBFSAllBit"}

Begin(kernel, end, write, limit, tasks) ==
  /\ launch' = [kernel |-> kernel, end |-> end, write |-> write, limit |-> limit]
  /\ todo' = tasks
  /\ new_res_size' = 0 /\ out' = {}
  /\ UNCHANGED <<level, warps>>

StoreLevels ==
  /\ Ready /\ ~oom
  /\ \E kernel \in ExtendKernels, end \in cur_depth + 1..QV_COUNT - 1, limit \in Limits :
       Begin(kernel, end, TRUE, limit, Listed(rows))

(* The last launch: the rows of the CPU and of the GPU do not depend on    *)
(* each other, so that each may have all.                                  *)
CountMatches ==
  /\ Ready
  /\ \E kernel \in ExtendKernels
                   \cup (IF Merged THEN {"extendBFSAllBitGlobal"} ELSE {})
                   \cup (IF Merged /\ ~Wide THEN {"cpuExtendBFSAllBitCount"} ELSE {}) :
       Begin(kernel, QV_COUNT, FALSE, 0, Listed(rows))

Resting == todo = <<>> /\ \A w \in DOMAIN warps : warps[w] = Idle

(* The loop takes over the rows of a level that was written, and keeps     *)
(* those it has when the limit was reached.                                *)
EndLaunch ==
  /\ launch # None /\ Resting
  /\ IF ~launch.write
     THEN cur_depth' = QV_COUNT /\ UNCHANGED <<rows, oom>>
     ELSE IF new_res_size >= launch.limit
     THEN oom' = TRUE /\ UNCHANGED <<rows, cur_depth>>
     ELSE rows' = {a[2] : a \in out} /\ cur_depth' = launch.end /\ UNCHANGED oom
  /\ launch' = None /\ out' = {}
  /\ UNCHANGED <<prepared, todo, warps, new_res_size>>
-----------------------------------------------------------------------------
(* A warp.  Its record has, per position, the queue of candidates, the     *)
(* place in it, whether the position is being read (cont, the code's   *)
(* intersection_continue), how far the list of the first backward          *)
(* neighbour is read (endNbr) and whether it is done (endV); cum, the bits *)
(* of the path; and what it is about to write.  depth is one more than in  *)
(* the code, where positions count from 0.                                 *)
Start == cur_depth

FreshWalk(r) ==
  [row    |-> r.m,
   e      |-> r.e,
   depth  |-> Start + 1,
   queue  |-> [p \in Positions |-> IF p <= Start THEN <<r.m[p]>> ELSE <<>>],
   pos    |-> [p \in Positions |-> 1],
   endV   |-> [p \in Positions |-> 0],
   endNbr |-> [p \in Positions |-> 0],
   cont   |-> [p \in Positions |-> FALSE],
   cum    |-> [p \in Positions |-> PathMask(r.e, SubSeq(r.m, 1, IF p < Start THEN p ELSE Start))],
   found  |-> <<>>,
   at     |-> 0]

TakeRow(w) ==
  /\ launch # None /\ warps[w] = Idle /\ todo # <<>>
  /\ w = 1 \/ Cardinality(rows) <= Resident
  /\ warps' = [warps EXCEPT ![w] = FreshWalk(todo[1])]
  /\ todo' = Tail(todo)
  /\ UNCHANGED <<level, launch, new_res_size, out>>

Value(wp, p) == wp.queue[p][wp.pos[p]]

Pre(wp) == Order(wp.e).bni[wp.depth][1]

Path(wp) == [p \in 1..wp.depth - 1 |-> Value(wp, p)]

(* The region is full: every warp stops where it notices.                  *)
Full == launch.write /\ new_res_size >= launch.limit

Walking(w) == launch # None /\ warps[w] # Idle /\ warps[w].found = <<>>

Return(w) ==
  /\ launch # None /\ warps[w] # Idle /\ warps[w].at = 0
  /\ Full \/ warps[w].depth = Start
  /\ warps' = [warps EXCEPT ![w] = Idle]
  /\ UNCHANGED <<level, launch, todo, new_res_size, out>>

Exhausted(wp) == wp.pos[wp.depth] > Len(wp.queue[wp.depth])

(* The list is read for the vertex that is at hand, so far as the place in *)
(* the queue of its position tells: 0 when that is not queued.             *)
Place(wp) == IF Pre(wp) <= 2 THEN 0 ELSE wp.pos[Pre(wp)]

ReadThrough(wp) == wp.cont[wp.depth] /\ wp.endV[wp.depth] > Place(wp)

Steps(w) == Walking(w) /\ ~Full /\ warps[w].depth > Start

(* Nothing left at this position: back to the next of the one before. *)
Backtrack(w) ==
  LET wp == warps[w]
      p  == wp.depth
  IN  /\ Steps(w) /\ Exhausted(wp) /\ ReadThrough(wp)
      /\ warps' = [warps EXCEPT
            ![w].queue[p] = <<>>,
            ![w].pos = [wp.pos EXCEPT ![p] = 1, ![p - 1] = IF p > 3 THEN @ + 1 ELSE @],
            ![w].cont[p] = FALSE,
            ![w].depth = p - 1]
      /\ UNCHANGED <<level, launch, todo, new_res_size, out>>

(* The bits that the path has in common, with the vertex at hand. *)
CumPathMask(wp) ==
  LET p == wp.depth
  IN  IF Masked /\ Wide THEN wp.cum[p - 1] \cap masks[wp.e][Order(wp.e).vs[p]][Value(wp, p)]
      ELSE Bits

(* To the next position, with the first candidate that is queued. *)
Descend(w) ==
  LET wp == warps[w]
      p  == wp.depth
  IN  /\ Steps(w) /\ ~Exhausted(wp) /\ p < launch.end
      /\ warps' = [warps EXCEPT
            ![w].cum[p] = CumPathMask(wp),
            ![w].depth = p + 1]
      /\ UNCHANGED <<level, launch, todo, new_res_size, out>>

-----------------------------------------------------------------------------
(* One round of a position: the part of the list that is read from off on, *)
(* where the next round goes on, and whether there is more.                *)
(*                                                                         *)
(* extendBFSDFSRegTwo: one entry per lane; of the remaining entries no     *)
(* more than two per lane are counted.                                     *)
(* Seeded fault: a list that was read to its end is read on.               *)
RegTwoRoundOn(wp, list, off) ==
  LET rem    == Min({Len(list) - off, 2 * WARP_SIZE})
      active == Min({rem, WARP_SIZE})
  IN  [read |-> SubSeq(list, off + 1, off + active),
       next |-> off + active,
       more |-> rem >= active]

RegTwoRound(wp, list, off) ==
  LET rem    == Min({Len(list) - off, 2 * WARP_SIZE})
      active == Min({rem, WARP_SIZE})
  IN  [read |-> SubSeq(list, off + 1, off + active),
       next |-> off + active,
       more |-> rem > active]

(* The others look for WARP_SIZE entries that pass, a chunk at a time, and *)
(* go on behind the last that they keep.                                   *)
(* Seeded fault: they go on behind the chunk it was found in. *)
NextChunk(kept, off) == Last(kept) + ((WARP_SIZE - (Last(kept) - off)) % WARP_SIZE)

NextEntry(kept, off) == Last(kept)

Compacted(list, off, pass) ==
  LET passing == SelectSeq([i \in 1..Len(list) - off |-> off + i], LAMBDA i : list[i] \in pass)
      kept == SubSeq(passing, 1, Min({Len(passing), WARP_SIZE}))
  IN  IF kept = <<>> THEN [read |-> <<>>, next |-> 0, more |-> FALSE]
      ELSE [read |-> [k \in DOMAIN kept |-> list[kept[k]]],
            next |-> NextEntry(kept, off),
            more |-> NextEntry(kept, off) < Len(list)]

MaskPasses(wp, v) == SmaskOk(wp.e, Order(wp.e).vs[wp.depth], v, wp.cum[wp.depth - 1])

RegTwoBitRound(wp, list, off) ==
  Compacted(list, off, {v \in Range(list) : MaskPasses(wp, v)})

(* extendBFSAllBit leaves out the vertices of the path as well. *)
AllBitRound(wp, list, off) ==
  Compacted(list, off, {v \in Range(list) \ Range(Path(wp)) : MaskPasses(wp, v)})

OffPath(wp, v) == v \notin Range(Path(wp))

(* Binary searches in the lists of the other backward neighbours. *)
Connected(wp, v) ==
  LET o == Order(wp.e)
  IN  \A i \in 2..Len(o.bni[wp.depth]) :
        LET j == o.bni[wp.depth][i]
        IN  v \in Range(ReadList(wp.e, Dir(o, j, wp.depth), Value(wp, j)))

Extends(wp, v) == OffPath(wp, v) /\ Connected(wp, v)

(* found_mask: the lanes that have an extension.  Each takes the place of  *)
(* its rank among them.                                                    *)
FoundMask(wp, read) ==
  {lane \in 1..WARP_SIZE : lane \in DOMAIN read /\ Extends(wp, read[lane])}

Rank(mask, lane) == Cardinality({l \in mask : l <= lane})

Ranked(mask, read) ==
  [k \in 1..Cardinality(mask) |-> read[CHOOSE lane \in mask : Rank(mask, lane) = k]]

(* What a round leaves: candidates are queued, those of the last position  *)
(* are kept to be written or counted at once.                              *)
LastPosition(wp) == wp.depth = launch.end

Queued(wp, found) == IF LastPosition(wp) THEN <<>> ELSE found

ToWrite(wp, found) == IF LastPosition(wp) /\ launch.write THEN found ELSE <<>>

NumCounted(wp, mask) == IF LastPosition(wp) /\ ~launch.write THEN Cardinality(mask) ELSE 0

Round(wp, list, off) ==
  CASE launch.kernel = "extendBFSDFSRegTwo" -> RegTwoRound(wp, list, off)
    [] launch.kernel = "extendBFSDFSRegTwoBit" -> RegTwoBitRound(wp, list, off)
    [] OTHER -> AllBitRound(wp, list, off)

(* A position is begun anew, or gone on with. *)
Intersect(w) ==
  LET wp    == warps[w]
      p     == wp.depth
      list  == ReadList(wp.e, Dir(Order(wp.e), Pre(wp), p), Value(wp, Pre(wp)))
      round == Round(wp, list, IF wp.cont[p] THEN wp.endNbr[p] ELSE 0)
      mask  == FoundMask(wp, round.read)
      found == Ranked(mask, round.read)
      begun == IF wp.cont[p] THEN wp.endV[p] ELSE Place(wp)
  IN  /\ Steps(w) /\ Exhausted(wp) /\ ~ReadThrough(wp)
      /\ warps' = [warps EXCEPT
            ![w].cont[p] = TRUE,
            ![w].endNbr[p] = IF round.more THEN round.next ELSE 0,
            ![w].endV[p] = IF round.more THEN begun ELSE begun + 1,
            ![w].queue[p] = Queued(wp, found),
            ![w].pos[p] = 1,
            ![w].found = ToWrite(wp, found)]
      /\ new_res_size' = new_res_size + NumCounted(wp, mask)
      /\ UNCHANGED <<level, launch, todo, out>>

(* The rows are reserved, whatever the limit; a warp whose rows do not fit *)
(* returns without a row written.                                          *)
Reserve(w) ==
  /\ launch # None /\ warps[w] # Idle /\ warps[w].found # <<>> /\ warps[w].at = 0
  /\ new_res_size' = new_res_size + Len(warps[w].found)
  /\ warps' = [warps EXCEPT ![w].at = new_res_size + 1]
  /\ UNCHANGED <<level, launch, todo, out>>

(* Seeded fault: only the first row has to fit. *)
FitsFirst(wp) == wp.at <= launch.limit

Fits(wp) == wp.at - 1 + Len(wp.found) <= launch.limit

(* The cells of the region and the rows that go there. *)
RowsToWrite(wp) ==
  {<<wp.at + i - 1, [e |-> wp.e, m |-> Append(Path(wp), wp.found[i])]>> : i \in DOMAIN wp.found}

WriteRows(w) ==
  LET wp == warps[w]
  IN  /\ launch # None /\ wp # Idle /\ wp.found # <<>> /\ wp.at > 0
      /\ IF Fits(wp)
         THEN /\ out' = out \cup RowsToWrite(wp)
              /\ warps' = [warps EXCEPT ![w].found = <<>>, ![w].at = 0]
         ELSE warps' = [warps EXCEPT ![w] = Idle] /\ UNCHANGED out
      /\ UNCHANGED <<level, launch, todo, new_res_size>>

Walk(w) ==
  \/ TakeRow(w) \/ Return(w) \/ Backtrack(w) \/ Descend(w)
  \/ Intersect(w) \/ Reserve(w) \/ WriteRows(w)

ExtendBFSDFSRegTwo == launch.kernel = "extendBFSDFSRegTwo" /\ \E w \in DOMAIN warps : Walk(w)

ExtendBFSDFSRegTwoBit ==
  launch.kernel = "extendBFSDFSRegTwoBit" /\ \E w \in DOMAIN warps : Walk(w)

ExtendBFSAllBit == launch.kernel = "extendBFSAllBit" /\ \E w \in DOMAIN warps : Walk(w)

(* The queues are in global memory and a warp takes several rows. *)
ExtendBFSAllBitGlobal ==
  launch.kernel = "extendBFSAllBitGlobal" /\ \E w \in DOMAIN warps : Walk(w)
-----------------------------------------------------------------------------
(* Products: the vertices that are missing have degree one, so that their  *)
(* lists combine freely.  GetNumTree and GetNumTreeAllBit multiply the     *)
(* lengths of the lists, GetNumTreeBit counts what passes the masks; after *)
(* a prefix sum each lane takes one number and decodes it.                 *)
Degree(u) == Cardinality({d \in Dirs : d[1] = u})

TreeCartesianProduct ==
  /\ cur_depth < QV_COUNT - 1
  /\ \A p \in cur_depth + 1..QV_COUNT : \A e \in Searched : Degree(Order(e).vs[p]) = 1

SuffixList(r, p) ==
  LET j == Order(r.e).bni[p][1] IN ReadList(r.e, Dir(Order(r.e), j, p), r.m[j])

PassingSuffix(r, p) ==
  {i \in DOMAIN SuffixList(r, p) :
     SmaskOk(r.e, Order(r.e).vs[p], SuffixList(r, p)[i], PathMask(r.e, r.m))}

Product(S, f(_)) == FoldSet(LAMBDA p, n : n * f(p), 1, S)

GetNum(r) ==
  IF search.loop = "MatchingBit"
  THEN Product(cur_depth + 1..QV_COUNT, LAMBDA p : Cardinality(PassingSuffix(r, p)))
  ELSE Product(cur_depth + 1..QV_COUNT, LAMBDA p : Len(SuffixList(r, p)))

Decoded(r, n) ==
  LET go[p \in cur_depth..QV_COUNT] ==
        IF p = cur_depth THEN [m |-> r.m, n |-> n]
        ELSE LET before == go[p - 1]
                 list   == SuffixList(r, p)
             IN  [m |-> Append(before.m, list[(before.n % Len(list)) + 1]),
                  n |-> before.n \div Len(list)]
  IN  go[QV_COUNT].m

ProductOk(r, m) ==
  /\ IsInjective(m)
  /\ \A p \in cur_depth + 1..QV_COUNT :
       SmaskOk(r.e, Order(r.e).vs[p], m[p], PathMask(r.e, SubSeq(m, 1, p - 1)))

ProductKernel ==
  CASE search.loop = "Matching" -> "enumerateCartesianProductTree"
    [] search.loop = "MatchingBit" -> "enumerateCartesianProductTreeBit"
    [] search.loop = "MatchingBitAll" -> "enumerateCartesianProductAllBit"

(* MaxNumMatches: the rows, each with the sum of the numbers up to it.     *)
MaxNumMatches ==
  FoldSet(LAMBDA r, sums : Append(sums, [row |-> r, upto |-> Last(sums).upto + GetNum(r)]),
          <<[row |-> <<>>, upto |-> 0]>>, rows)

CountProducts ==
  /\ Ready /\ TreeCartesianProduct
  /\ LET sums == MaxNumMatches
     IN  /\ launch' = [kernel |-> ProductKernel, end |-> QV_COUNT, write |-> FALSE, limit |-> 0,
                       sums |-> sums]
         /\ todo' = [k \in 1..(Last(sums).upto + WARP_SIZE - 1) \div WARP_SIZE |-> k - 1]
  /\ new_res_size' = 0 /\ out' = {}
  /\ UNCHANGED <<level, warps>>

(* The number n belongs to the first row whose sum is above it; i is the   *)
(* one before it.                                                          *)
BeforeRowOf(sums, n) == Max({i \in DOMAIN sums : sums[i].upto <= n})

EnumerateCartesianProduct ==
  /\ launch # None /\ launch.kernel = ProductKernel /\ todo # <<>>
  /\ LET sums  == launch.sums
         lanes == {n \in todo[1] * WARP_SIZE..todo[1] * WARP_SIZE + WARP_SIZE - 1 :
                     n < Last(sums).upto}
         found == {n \in lanes :
                     LET i == BeforeRowOf(sums, n)
                         r == sums[i + 1].row
                     IN  ProductOk(r, Decoded(r, n - sums[i].upto))}
     IN  new_res_size' = new_res_size + Cardinality(found)
  /\ todo' = Tail(todo)
  /\ UNCHANGED <<level, launch, warps, out>>

-----------------------------------------------------------------------------
(* The CPU: depth first for one row, with the lists of the host mirror.    *)
MirrorList(e, d, v) ==
  (IF DirToEdge[d] = e THEN search.lists.update[d][v] ELSE search.lists.index[d][v])
  \o (IF DirToEdge[d] < e THEN search.lists.update[d][v] ELSE <<>>)

(* list_contains: a binary search in either part. *)
ListContains(e, d, x, v) == v \in Range(MirrorList(e, d, x))

TryNbr(e, m) ==
  LET o == Order(e)
      p == Len(m) + 1
      j(i) == o.bni[p][i]
  IN  SelectSeq(MirrorList(e, Dir(o, j(1), p), m[j(1)]), LAMBDA v :
        /\ masks[e][o.vs[p]][v] # {}
        /\ v \notin Range(m)
        /\ \A i \in 2..Len(o.bni[p]) : ListContains(e, Dir(o, j(i), p), m[j(i)], v))

(* run calls itself for each vertex: the partial matches that are to be    *)
(* extended are a stack.                                                   *)
CpuExtendBFSAllBitCount ==
  /\ launch # None /\ launch.kernel = "cpuExtendBFSAllBitCount" /\ todo # <<>>
  /\ LET r == Head(todo)
         nbrs == TryNbr(r.e, r.m)
     IN  IF Len(r.m) = QV_COUNT - 1
         THEN new_res_size' = new_res_size + Len(nbrs) /\ todo' = Tail(todo)
         ELSE /\ todo' = [k \in DOMAIN nbrs |-> [r EXCEPT !.m = Append(@, nbrs[k])]] \o Tail(todo)
              /\ UNCHANGED new_res_size
  /\ UNCHANGED <<level, launch, warps, out>>

-----------------------------------------------------------------------------
Kernels ==
  \/ ExtendBFSDFSRegTwo \/ ExtendBFSDFSRegTwoBit \/ ExtendBFSAllBit \/ ExtendBFSAllBitGlobal
  \/ EnumerateCartesianProduct \/ CpuExtendBFSAllBitCount

Next ==
  WriteInitial \/ StoreLevels \/ CountMatches \/ CountProducts \/ Kernels \/ EndLaunch

(* The warps of a kernel that was launched are run, and the host waits for *)
(* its end.                                                                *)
Fairness == WF_vars(Kernels \/ EndLaunch)

Spec == Init /\ [][Next]_vars /\ Fairness

-----------------------------------------------------------------------------
(* Properties.                                                             *)

Partial(n) ==
  UNION {{[e |-> e, m |-> m] : m \in PartialMatches(search.lists, e, Order(e), n)} :
           e \in IF Merged THEN QE ELSE {search.edge}}

(* No match is lost: not by the filters of the local index, nor by masks   *)
(* whose bits collide, nor where a list is longer than a round, nor when a *)
(* walk comes back to a position.  While levels are written every match    *)
(* has its prefix in the level, and in the end every match was counted.    *)
NothingLost ==
  launch = None /\ cur_depth > 1 =>
    IF cur_depth = QV_COUNT THEN new_res_size >= Cardinality(Partial(QV_COUNT))
    ELSE \A r \in Partial(QV_COUNT) : [r EXCEPT !.m = SubSeq(r.m, 1, cur_depth)] \in rows

(* Nothing is found twice, and nothing that is not there: a warp finds an  *)
(* extension once although it reads lists in parts and from two sources,   *)
(* and what is written is one partial match in each cell, without gaps.    *)
NothingTwice ==
  launch # None /\ Resting =>
    LET there == Partial(launch.end)
    IN  /\ new_res_size <= Cardinality(there)
        /\ \A a \in out : a[2] \in there
        /\ \A a, b \in out : a # b => a[1] # b[1] /\ a[2] # b[2]
        /\ launch.write /\ ~Full => {a[1] : a \in out} = 1..new_res_size

(* No warp writes outside the region of the launch, behind which the level *)
(* that is read may lie, nor where another one wrote, although all reserve *)
(* their rows and find the limit reached at different times.               *)
RegionKept ==
  launch # None =>
    /\ \A a \in out : a[1] \in 1..launch.limit
    /\ \A a, b \in out : a[1] = b[1] => a = b

(* Every launch ends: the walks come back from every position, whatever    *)
(* the lists, and warps that stop at the limit leave nothing waiting.      *)
LaunchEnds == (launch # None) ~> (launch = None)
=============================================================================
