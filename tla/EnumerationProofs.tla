-------------------------- MODULE EnumerationProofs --------------------------
(***************************************************************************)
(* Proofs about the kernels that write a level: whatever the lists, the    *)
(* plan and the limit, and however the warps take turns, the rows they     *)
(* write stay in the region of the launch and in cells of their own.       *)
(***************************************************************************)
EXTENDS Enumeration, FiniteSetTheorems, SequenceTheorems, TLAPS

Kernel3 == {"extendBFSDFSRegTwo", "extendBFSDFSRegTwoBit", "extendBFSAllBit"}

(* The cells that a warp has reserved and not written yet. *)
Pending(wp) == IF wp # Idle /\ wp.at > 0 THEN wp.at..(wp.at + Len(wp.found) - 1) ELSE {}

WarpOk(wp, size) ==
  /\ {"found", "at"} \subseteq DOMAIN wp
  /\ Len(wp.found) \in Nat /\ DOMAIN wp.found = 1..Len(wp.found)
  /\ wp.at \in Nat /\ (wp.found = <<>> => wp.at = 0)
  /\ wp.at > 0 => wp.at + Len(wp.found) - 1 <= size

(* What was reserved is divided among the warps and what is written.       *)
Divided ==
  /\ launch.kernel \in Kernel3 /\ launch.limit \in Nat /\ new_res_size \in Nat
  /\ \A w \in DOMAIN warps : warps[w] # Idle => WarpOk(warps[w], new_res_size)
  /\ \A w, x \in DOMAIN warps : w # x => Pending(warps[w]) \cap Pending(warps[x]) = {}
  /\ \A a \in out : a[1] \in 1..launch.limit /\ a[1] <= new_res_size
  /\ \A a \in out, w \in DOMAIN warps : a[1] \notin Pending(warps[w])
  /\ \A a, b \in out : a[1] = b[1] => a = b

(* A launch that counts writes nothing. *)
Counting ==
  /\ out = {}
  /\ \A w \in DOMAIN warps :
       warps[w] # Idle => "found" \in DOMAIN warps[w] /\ warps[w].found = <<>>

RInv ==
  /\ search \in Searches
  /\ DOMAIN warps = {1, 2}
  /\ launch = None => out = {} /\ \A w \in DOMAIN warps : warps[w] = Idle
  /\ launch # None => launch.write \in BOOLEAN
  /\ launch # None /\ launch.write => Divided
  /\ launch # None /\ ~launch.write => Counting

-----------------------------------------------------------------------------
(* What a round finds is a sequence, as long as its mask has lanes. *)
LEMMA RankedLength ==
  ASSUME NEW wp, NEW read
  PROVE  LET found == Ranked(FoundMask(wp, read), read)
         IN  Len(found) \in Nat /\ DOMAIN found = 1..Len(found)
<1> DEFINE mask == FoundMask(wp, read)
           n == Cardinality(mask)
           found == Ranked(mask, read)
<1>1. mask \subseteq 1..WARP_SIZE
  BY DEF FoundMask
<1>2. IsFiniteSet(1..WARP_SIZE)
  BY FS_Interval, WarpAssumption
<1>3. n \in Nat
  BY <1>1, <1>2, FS_Subset, FS_CardinalityType
<1>4. DOMAIN found = 1..n
  BY DEF Ranked
<1>5. Len(found) = n
  <2> DEFINE S == {found[k] : k \in 1..n}
  <2>1. found \in [1..n -> S]
    <3>1. found = [k \in 1..n |-> found[k]]
      BY DEF Ranked
    <3> HIDE DEF n, found
    <3> QED
      BY <3>1
  <2> HIDE DEF n
  <2> HIDE DEF found, S
  <2>2. found \in Seq(S)
    BY <1>3, <2>1, SeqDef
  <2> QED
    BY <1>3, <1>4, <2>2, LenProperties
<1> QED
  BY <1>3, <1>4, <1>5

(* The launches that write are those of the three kernels with warps.      *)
LEMMA WritesWithWarps ==
  ASSUME RInv, launch # None, launch.write
  PROVE  /\ launch.kernel # ProductKernel
         /\ launch.kernel # "cpuExtendBFSAllBitCount"
BY SearchesAssumption DEF RInv, Divided, Kernel3, ProductKernel

LEMMA RInit == Init => RInv
BY DEF Init, RInv

-----------------------------------------------------------------------------
(* The steps of a warp.                                                    *)

(* A step that changes one warp, which holds no reserved rows after it. *)
LEMMA NothingReserved ==
  ASSUME RInv, launch # None,
         NEW w \in DOMAIN warps,
         DOMAIN warps' = DOMAIN warps,
         \A x \in DOMAIN warps \ {w} : warps'[x] = warps[x],
         warps'[w] # Idle =>
           /\ launch.write => /\ WarpOk(warps'[w], new_res_size)
                              /\ warps'[w].at = 0
           /\ ~launch.write => "found" \in DOMAIN warps'[w] /\ warps'[w].found = <<>>,
         UNCHANGED <<search, launch, out>>,
         new_res_size' = new_res_size \/ ~launch.write
  PROVE  RInv'
<1>1. ASSUME launch.write PROVE Divided'
  <2> USE <1>1 DEF RInv
  <2>1. new_res_size' = new_res_size
    OBVIOUS
  <2>2. \A x \in DOMAIN warps : warps'[x] # Idle => WarpOk(warps'[x], new_res_size)
    BY DEF Divided
  <2>3. \A x \in DOMAIN warps : Pending(warps'[x]) \subseteq Pending(warps[x])
    <3>1. Pending(warps'[w]) = {}
      BY EmptySeq DEF Pending, WarpOk
    <3> QED
      BY <3>1
  <2> QED
    BY <2>1, <2>2, <2>3 DEF Divided
<1>2. ASSUME ~launch.write PROVE Counting'
  BY <1>2 DEF RInv, Counting
<1> QED
  BY <1>1, <1>2 DEF RInv

(* Taking a row, stopping, and going back and down keep RInv. *)
LEMMA Walked ==
  ASSUME RInv, NEW w \in DOMAIN warps,
         TakeRow(w) \/ Return(w) \/ Backtrack(w) \/ Descend(w)
  PROVE  RInv'
<1>1. UNCHANGED <<search, launch, out, new_res_size>> /\ launch # None
  BY DEF TakeRow, Return, Backtrack, Descend, Steps, Walking, level, prepared
<1>2. /\ DOMAIN warps' = DOMAIN warps
      /\ \A x \in DOMAIN warps \ {w} : warps'[x] = warps[x]
  BY DEF TakeRow, Return, Backtrack, Descend
<1>3. CASE TakeRow(w)
  <2>1. warps'[w] = FreshWalk(todo[1])
    BY <1>3 DEF TakeRow
  <2>2. {"found", "at"} \subseteq DOMAIN warps'[w] /\ warps'[w].found = <<>> /\ warps'[w].at = 0
    BY <2>1 DEF FreshWalk
  <2>3. WarpOk(warps'[w], new_res_size)
    BY <2>2, EmptySeq DEF WarpOk
  <2> QED
    BY <1>1, <1>2, <2>2, <2>3, NothingReserved
<1>4. CASE Return(w)
  <2>1. warps'[w] = Idle
    BY <1>4 DEF Return
  <2> QED
    BY <1>1, <1>2, <2>1, NothingReserved
<1>5. CASE Backtrack(w) \/ Descend(w)
  <2>1. warps[w] # Idle /\ warps[w].found = <<>>
    BY <1>5 DEF Backtrack, Descend, Steps, Walking
  <2>2. /\ launch.write => WarpOk(warps[w], new_res_size)
        /\ ~launch.write => "found" \in DOMAIN warps[w]
    BY <1>1, <2>1 DEF RInv, Divided, Counting
  <2>3. /\ DOMAIN warps'[w] = DOMAIN warps[w]
        /\ warps'[w].found = warps[w].found
        /\ launch.write => warps'[w].at = warps[w].at
    <3>1. "found" \in DOMAIN warps[w] /\ (launch.write => "at" \in DOMAIN warps[w])
      BY <1>1, <2>2 DEF RInv, WarpOk
    <3>2. CASE Backtrack(w)
      BY <3>1, <3>2 DEF Backtrack
    <3>3. CASE Descend(w)
      BY <3>1, <3>3 DEF Descend
    <3> QED
      BY <1>5, <3>2, <3>3
  <2>4. launch.write => WarpOk(warps'[w], new_res_size)
    BY <2>2, <2>3 DEF WarpOk
  <2> QED
    BY <1>1, <1>2, <2>1, <2>2, <2>3, <2>4, NothingReserved DEF WarpOk
<1> QED
  BY <1>3, <1>4, <1>5

(* A round keeps what it found in its warp, or counts it. *)
LEMMA Intersected ==
  ASSUME RInv, NEW w \in DOMAIN warps, Intersect(w)
  PROVE  RInv'
<1> DEFINE wp == warps[w]
           list == ReadList(wp.e, Dir(Order(wp.e), Pre(wp), wp.depth), Value(wp, Pre(wp)))
           read == Round(wp, list, IF wp.cont[wp.depth] THEN wp.endNbr[wp.depth] ELSE 0).read
           mask == FoundMask(wp, read)
           found == Ranked(mask, read)
<1>1. /\ UNCHANGED <<search, launch, out>> /\ launch # None
      /\ wp # Idle /\ wp.found = <<>>
  BY DEF Intersect, Steps, Walking, level, prepared
<1>2. /\ DOMAIN warps' = DOMAIN warps
      /\ \A x \in DOMAIN warps \ {w} : warps'[x] = warps[x]
  BY DEF Intersect
<1>3. /\ DOMAIN warps'[w] = DOMAIN warps[w]
      /\ "found" \in DOMAIN wp => warps'[w].found = ToWrite(wp, found)
      /\ "at" \in DOMAIN wp => warps'[w].at = wp.at
  <2>1. PICK a, b, q :
           warps' = [warps EXCEPT ![w].cont[wp.depth] = TRUE, ![w].endNbr[wp.depth] = a,
                                  ![w].endV[wp.depth] = b, ![w].queue[wp.depth] = q,
                                  ![w].pos[wp.depth] = 1, ![w].found = ToWrite(wp, found)]
    BY ZenonT(60) DEF Intersect
  <2> HIDE DEF found
  <2> QED
    BY <2>1, ZenonT(60)
<1>4. new_res_size' = new_res_size + NumCounted(wp, mask)
  BY DEF Intersect
<1>5. CASE ~launch.write
  <2>1. ToWrite(wp, found) = <<>>
    BY <1>5 DEF ToWrite
  <2> QED
    BY <1>1, <1>2, <1>3, <1>5, <2>1, NothingReserved DEF RInv, Counting
<1>6. CASE launch.write
  <2>1. WarpOk(wp, new_res_size) /\ new_res_size \in Nat
    BY <1>1, <1>6 DEF RInv, Divided
  <2>2. new_res_size' = new_res_size
    BY <1>4, <1>6, <2>1 DEF NumCounted
  <2>3. "found" \in DOMAIN wp /\ "at" \in DOMAIN wp /\ wp.at = 0
    BY <1>1, <2>1 DEF WarpOk
  <2>4. ToWrite(wp, found) \in {<<>>, found}
    BY DEF ToWrite
  <2>5. WarpOk(warps'[w], new_res_size) /\ warps'[w].at = 0
    BY <1>3, <2>3, <2>4, RankedLength, EmptySeq DEF WarpOk
  <2> QED
    BY <1>1, <1>2, <1>6, <2>2, <2>5, NothingReserved
<1> QED
  BY <1>5, <1>6

(* A warp that reserves gets cells that nobody has. *)
LEMMA Reserved ==
  ASSUME RInv, NEW w \in DOMAIN warps, Reserve(w)
  PROVE  RInv'
<1>1. /\ UNCHANGED <<search, launch, out>> /\ launch # None
      /\ warps[w] # Idle /\ warps[w].found # <<>> /\ warps[w].at = 0
      /\ new_res_size' = new_res_size + Len(warps[w].found)
  BY DEF Reserve, level, prepared
<1>2. launch.write /\ Divided
  BY <1>1 DEF RInv, Counting
<1>3. WarpOk(warps[w], new_res_size) /\ new_res_size \in Nat
  BY <1>1, <1>2 DEF Divided
<1>4. /\ DOMAIN warps' = DOMAIN warps
      /\ \A x \in DOMAIN warps \ {w} : warps'[x] = warps[x]
      /\ DOMAIN warps'[w] = DOMAIN warps[w]
      /\ warps'[w].found = warps[w].found
      /\ warps'[w].at = new_res_size + 1
  BY <1>3 DEF Reserve, WarpOk
<1>5. \A x \in DOMAIN warps : warps'[x] # Idle => WarpOk(warps'[x], new_res_size')
  <2>1. WarpOk(warps'[w], new_res_size')
    BY <1>1, <1>3, <1>4 DEF WarpOk
  <2>2. ASSUME NEW x \in DOMAIN warps \ {w}, warps'[x] # Idle
        PROVE  WarpOk(warps'[x], new_res_size')
    BY <1>1, <1>2, <1>3, <1>4, <2>2 DEF Divided, WarpOk
  <2> QED
    BY <2>1, <2>2
<1>6. \A x \in DOMAIN warps : \A c \in Pending(warps[x]) : c <= new_res_size
  BY <1>2, <1>3 DEF Divided, Pending, WarpOk
<1>7. /\ \A x \in DOMAIN warps \ {w} : Pending(warps'[x]) = Pending(warps[x])
      /\ \A c \in Pending(warps'[w]) : c > new_res_size
  BY <1>3, <1>4 DEF Pending, WarpOk
<1>8. \A x, y \in DOMAIN warps : x # y => Pending(warps'[x]) \cap Pending(warps'[y]) = {}
  <2> SUFFICES ASSUME NEW x \in DOMAIN warps, NEW y \in DOMAIN warps, x # y,
                      NEW c \in Pending(warps'[x]), c \in Pending(warps'[y])
               PROVE  FALSE
    OBVIOUS
  <2>1. c \in Int
    BY <1>4, <1>5 DEF Pending, WarpOk
  <2> QED
    BY <1>2, <1>3, <1>6, <1>7, <2>1 DEF Divided
<1>9. \A a \in out, x \in DOMAIN warps : a[1] \notin Pending(warps'[x])
  BY <1>2, <1>3, <1>7 DEF Divided
<1>10. new_res_size' \in Nat /\ \A a \in out : a[1] <= new_res_size'
  BY <1>1, <1>2, <1>3 DEF Divided, WarpOk
<1>11. Divided'
  BY <1>1, <1>2, <1>4, <1>5, <1>8, <1>9, <1>10 DEF Divided
<1> QED
  BY <1>1, <1>2, <1>4, <1>11 DEF RInv

(* A warp writes where it reserved, and only if all of that is in the      *)
(* region.                                                                 *)
LEMMA Wrote ==
  ASSUME RInv, NEW w \in DOMAIN warps, WriteRows(w)
  PROVE  RInv'
<1> DEFINE wp == warps[w]
<1>1. /\ UNCHANGED <<search, launch, new_res_size>> /\ launch # None
      /\ wp # Idle /\ wp.found # <<>> /\ wp.at > 0
  BY DEF WriteRows, level, prepared
<1>2. launch.write /\ Divided
  BY <1>1 DEF RInv, Counting
<1>3. WarpOk(wp, new_res_size) /\ new_res_size \in Nat
  BY <1>1, <1>2 DEF Divided
<1>4. CASE ~Fits(wp)
  <2>1. /\ DOMAIN warps' = DOMAIN warps
        /\ \A x \in DOMAIN warps \ {w} : warps'[x] = warps[x]
        /\ warps'[w] = Idle /\ out' = out
    BY <1>4 DEF WriteRows
  <2> QED
    BY <1>1, <2>1, NothingReserved
<1>5. CASE Fits(wp)
  <2>1. out' = out \cup RowsToWrite(wp)
    BY <1>5 DEF WriteRows
  <2>2. /\ DOMAIN warps' = DOMAIN warps
        /\ \A x \in DOMAIN warps \ {w} : warps'[x] = warps[x]
        /\ DOMAIN warps'[w] = DOMAIN wp
        /\ warps'[w].found = <<>> /\ warps'[w].at = 0
    <3>1. warps' = [warps EXCEPT ![w].found = <<>>, ![w].at = 0]
      BY <1>5 DEF WriteRows
    <3> QED
      BY <1>3, <3>1 DEF WarpOk
  <2>3. \A x \in DOMAIN warps : warps'[x] # Idle => WarpOk(warps'[x], new_res_size)
    <3>1. WarpOk(warps'[w], new_res_size)
      BY <1>3, <2>2, EmptySeq DEF WarpOk
    <3> QED
      BY <1>2, <2>2, <3>1 DEF Divided
  <2>4. \A x \in DOMAIN warps : Pending(warps'[x]) \subseteq Pending(warps[x])
    BY <2>2 DEF Pending
  <2>5. Pending(warps'[w]) = {}
    BY <2>2 DEF Pending
  <2>6. /\ \A a \in RowsToWrite(wp) : a[1] \in Pending(wp) /\ a[1] \in 1..launch.limit
                                      /\ a[1] <= new_res_size
        /\ \A a, b \in RowsToWrite(wp) : a[1] = b[1] => a = b
    <3>1. \A a \in RowsToWrite(wp) : \E i \in 1..Len(wp.found) :
            a = <<wp.at + i - 1, [e |-> wp.e, m |-> Append(Path(wp), wp.found[i])]>>
      BY <1>3 DEF RowsToWrite, WarpOk
    <3>2. \A a \in RowsToWrite(wp) : \E i \in 1..Len(wp.found) : a[1] = wp.at + i - 1
      BY <3>1
    <3>3. launch.limit \in Nat
      BY <1>2 DEF Divided
    <3>4. \A a \in RowsToWrite(wp) : a[1] \in Pending(wp) /\ a[1] \in 1..launch.limit
                                     /\ a[1] <= new_res_size
      BY <1>1, <1>3, <1>5, <3>2, <3>3 DEF Fits, Pending, WarpOk
    <3>5. ASSUME NEW a \in RowsToWrite(wp), NEW b \in RowsToWrite(wp), a[1] = b[1]
          PROVE  a = b
      <4>1. PICK i \in 1..Len(wp.found) :
              a = <<wp.at + i - 1, [e |-> wp.e, m |-> Append(Path(wp), wp.found[i])]>>
        BY <3>1
      <4>2. PICK j \in 1..Len(wp.found) :
              b = <<wp.at + j - 1, [e |-> wp.e, m |-> Append(Path(wp), wp.found[j])]>>
        BY <3>1
      <4>3. i = j
        <5>1. wp.at + i - 1 = wp.at + j - 1
          BY <3>5, <4>1, <4>2
        <5> QED
          BY <1>3, <5>1 DEF WarpOk
      <4> QED
        BY <4>1, <4>2, <4>3
    <3> QED
      BY <3>4, <3>5
  <2>7. \A a \in out' : a[1] \in 1..launch.limit /\ a[1] <= new_res_size
    BY <1>2, <2>1, <2>6 DEF Divided
  <2>8. \A a \in out', x \in DOMAIN warps : a[1] \notin Pending(warps'[x])
    BY <1>2, <2>1, <2>4, <2>5, <2>6 DEF Divided
  <2>9. \A a, b \in out' : a[1] = b[1] => a = b
    BY <1>2, <2>1, <2>6 DEF Divided
  <2>10. \A x, y \in DOMAIN warps : x # y => Pending(warps'[x]) \cap Pending(warps'[y]) = {}
    BY <1>2, <2>4 DEF Divided
  <2>11. Divided'
    BY <1>1, <1>2, <2>2, <2>3, <2>7, <2>8, <2>9, <2>10 DEF Divided
  <2> QED
    BY <1>1, <1>2, <2>2, <2>11 DEF RInv
<1> QED
  BY <1>4, <1>5

-----------------------------------------------------------------------------
LEMMA WarpStep ==
  ASSUME RInv, NEW w \in DOMAIN warps, Walk(w)
  PROVE  RInv'
BY Walked, Intersected, Reserved, Wrote DEF Walk

(* A launch begins with idle warps and an empty region. *)
LEMMA Launched ==
  ASSUME RInv, StoreLevels \/ CountMatches \/ CountProducts
  PROVE  RInv'
<1>1. launch = None /\ search' = search /\ warps' = warps /\ out' = {} /\ new_res_size' = 0
  BY DEF StoreLevels, CountMatches, CountProducts, Begin, Ready, level, prepared
<1>2. \A w \in DOMAIN warps : warps[w] = Idle
  BY <1>1 DEF RInv
<1>3. CASE StoreLevels
  <2>1. PICK kernel \in ExtendKernels, end \in cur_depth + 1..QV_COUNT - 1, limit \in Limits :
          launch' = [kernel |-> kernel, end |-> end, write |-> TRUE, limit |-> limit]
    BY <1>3 DEF StoreLevels, Begin
  <2>2. kernel \in Kernel3
    <3>1. search.loop \in {"Matching", "MatchingBit", "MatchingBitAll"}
      BY SearchesAssumption DEF RInv
    <3>2. ExtendKernels \subseteq Kernel3
      BY <3>1 DEF ExtendKernels, Kernel3
    <3> QED
      BY <3>2
  <2>3. limit \in Nat
    BY WarpAssumption
  <2>4. Divided'
    BY <1>1, <1>2, <2>1, <2>2, <2>3 DEF Divided, Pending
  <2> QED
    BY <1>1, <1>2, <2>1, <2>4 DEF RInv
<1>4. CASE CountMatches \/ CountProducts
  <2>1. launch'.write = FALSE
    BY <1>4 DEF CountMatches, CountProducts, Begin
  <2>2. Counting'
    BY <1>1, <1>2 DEF Counting
  <2> QED
    BY <1>1, <1>2, <2>1, <2>2 DEF RInv
<1> QED
  BY <1>3, <1>4

LEMMA RStep == RInv /\ [Next]_vars => RInv'
<1> SUFFICES ASSUME RInv, [Next]_vars PROVE RInv'
  OBVIOUS
<1>1. CASE WriteInitial
  <2>1. UNCHANGED <<search, warps, launch, out, new_res_size>>
    BY <1>1 DEF WriteInitial, prepared
  <2> QED
    BY <2>1 DEF RInv, Divided, Counting
<1>2. CASE StoreLevels \/ CountMatches \/ CountProducts
  BY <1>2, Launched
<1>3. CASE \E w \in DOMAIN warps : Walk(w)
  BY <1>3, WarpStep
<1>4. CASE EnumerateCartesianProduct \/ CpuExtendBFSAllBitCount
  <2>1. UNCHANGED <<search, warps, launch, out>> /\ launch # None
    BY <1>4 DEF EnumerateCartesianProduct, CpuExtendBFSAllBitCount, level, prepared
  <2>2. ~launch.write
    BY <1>4, <2>1, WritesWithWarps DEF EnumerateCartesianProduct, CpuExtendBFSAllBitCount, RInv
  <2> QED
    BY <2>1, <2>2 DEF RInv, Counting
<1>5. CASE EndLaunch
  <2>1. /\ UNCHANGED <<search, warps>> /\ launch' = None /\ out' = {}
        /\ \A w \in DOMAIN warps : warps[w] = Idle
    BY <1>5 DEF EndLaunch, Resting, prepared
  <2> QED
    BY <2>1 DEF RInv
<1>6. CASE UNCHANGED vars
  BY <1>6 DEF vars, RInv, Divided, Counting
<1> QED
  BY <1>1, <1>2, <1>3, <1>4, <1>5, <1>6
     DEF Next, Kernels, ExtendBFSDFSRegTwo, ExtendBFSDFSRegTwoBit, ExtendBFSAllBit,
         ExtendBFSAllBitGlobal

(* The rows that extendBFSDFSRegTwo, extendBFSAllBit and the like write    *)
(* behind the level stay in the region that the host allows                *)
(* (h_max_new_res_size_) and each in a cell of its own, whatever is        *)
(* searched, for every width of a warp, every limit and every order in     *)
(* which the warps find it reached.                                        *)
THEOREM RegionSafe == Spec => []RegionKept
<1>1. RInv => RegionKept
  BY DEF RInv, RegionKept, Divided, Counting
<1> QED
  BY <1>1, RInit, RStep, PTL DEF Spec
=============================================================================
