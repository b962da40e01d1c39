--------------------------- MODULE MatchLoopProofs ---------------------------
(***************************************************************************)
(* Proofs about the host loops of the search: the masks that the CPU reads *)
(* in the split of the last step are those of its batch; in the result     *)
(* queue a level is not written over the one it is made from, and what the *)
(* queue holds between the steps are the partial matches of a level, each  *)
(* once; and so every match is counted once.                               *)
(***************************************************************************)
EXTENDS MatchLoop, InductionLemmas

(* Once no copy is pending the host has the masks of the batch; only       *)
(* MatchingBitAll shares the last step.                                    *)
MInv ==
  /\ copies \in Nat
  /\ loop = "MatchingBitAll" /\ copies = 0 => hostMasks = masks
  /\ step = "split" => loop = "MatchingBitAll"

LEMMA MInit == Init => MInv
BY DEF Init, MInv

LEMMA MStep == MInv /\ [Next]_vars => MInv'
<1> SUFFICES ASSUME MInv, [Next]_vars PROVE MInv'
  OBVIOUS
<1> USE DEF MInv
<1>1. CASE Prepare
  BY <1>1 DEF Prepare, SyncCPUMirrorMasks
<1>2. CASE Step1
  BY <1>2 DEF Step1, ended, mask_vars
<1>3. CASE Step2
  <2>1. UNCHANGED <<loop, masks, hostMasks, copies>> /\ step' # "split"
    BY <1>3 DEF Step2, Store, GiveUp, ended, mask_vars, level
  <2> QED
    BY <2>1
<1>4. CASE Step3
  <2>1. UNCHANGED <<loop, masks, hostMasks, copies>> /\ step' # "split"
    BY <1>4 DEF Step3, Store, GiveUp, ended, mask_vars, level
  <2> QED
    BY <2>1
<1>5. CASE Step4
  BY <1>5 DEF Step4, mask_vars
<1>6. CASE Step5
  BY <1>6 DEF Step5, mask_vars
<1>7. CASE MatchingBitAll /\ Launch
  BY <1>7 DEF MatchingBitAll, Launch, mask_vars
<1>8. CASE CPUShare
  BY <1>8 DEF CPUShare, mask_vars
<1>9. CASE GPUShare
  BY <1>9 DEF GPUShare, mask_vars
<1>10. CASE Join
  BY <1>10 DEF Join, mask_vars
<1>11. CASE CopyMasks
  BY <1>11 DEF CopyMasks
<1>12. CASE UNCHANGED vars
  BY <1>12 DEF vars
<1> QED
  BY <1>1, <1>2, <1>3, <1>4, <1>5, <1>6, <1>7, <1>8, <1>9, <1>10, <1>11, <1>12
     DEF Next, Matching, MatchingBit, MatchingBitAll, Steps

(* Whatever is searched, however often and in whichever way the batches    *)
(* before it ended, the CPU's share of a last level is pruned with the     *)
(* masks of its own batch: Step5CPUGPUSplit waits for cpu_mask_stream_,    *)
(* and no batch leaves a copy behind that could come later.                *)
THEOREM MasksOfTheBatch == Spec => MasksCurrent
<1>1. MInv /\ [Next]_vars => [CPUShare => hostMasks = masks]_vars
  BY DEF MInv, CPUShare, MasksCopied
<1> QED
  BY <1>1, MInit, MStep, PTL DEF Spec, MasksCurrent

-----------------------------------------------------------------------------
(* The result queue.                                                       *)

(* The level of size cells from at on is what is not free. *)
Holds(q, at, size) ==
  /\ at \in Cells /\ size \in Nat /\ 0 < size /\ size <= capability
  /\ q.start \in Cells /\ q.start = (at + size) % capability
  /\ q.end \in Nat /\ q.end <= capability /\ q.end % capability = at

InRegion(c, at, size) == (c - at) % capability < size

LEMMA Wraps ==
  ASSUME NEW x \in Int
  PROVE  /\ 0 <= x /\ x < capability => x % capability = x
         /\ capability <= x /\ x < 2 * capability => x % capability = x - capability
         /\ -capability <= x /\ x < 0 => x % capability = x + capability
<1>1. capability \in Nat /\ capability > 0
  BY CapabilityAssumption
<1> DEFINE r == x % capability
           d == x \div capability
<1>2. d \in Int /\ x = capability * d + r /\ 0 <= r /\ r < capability
  BY <1>1, SMTT(30)
<1>3. r \in Int
  BY <1>1
<1> HIDE DEF r, d
<1>4. CASE d <= -2
  <2>1. capability * d <= -2 * capability
    BY <1>1, <1>2, <1>4
  <2> QED
    BY <1>1, <1>2, <1>3, <2>1 DEF r
<1>5. CASE d >= 2
  <2>1. capability * d >= 2 * capability
    BY <1>1, <1>2, <1>5
  <2> QED
    BY <1>1, <1>2, <1>3, <2>1 DEF r
<1>6. CASE d \in {-1, 0, 1}
  BY <1>1, <1>2, <1>3, <1>6 DEF r
<1> QED
  BY <1>2, <1>4, <1>5, <1>6

LEMMA ModInCells ==
  ASSUME NEW x \in Int
  PROVE  x % capability \in Cells
<1>1. capability \in Nat /\ capability > 0
  BY CapabilityAssumption
<1>2. x % capability \in Int /\ 0 <= x % capability /\ x % capability < capability
  BY <1>1, SMTT(30)
<1> QED
  BY <1>1, <1>2 DEF Cells

(* What the level does not take is free; a queue without a level would     *)
(* have nothing free.                                                      *)
LEMMA FreeIsRest ==
  ASSUME NEW q, NEW at, NEW size, Holds(q, at, size)
  PROVE  GetFree(q) = capability - size
<1>1. capability \in Nat /\ capability > 0
  BY CapabilityAssumption
<1>2. /\ at \in Int /\ 0 <= at /\ at < capability
      /\ q.start \in Int /\ 0 <= q.start /\ q.start < capability
      /\ size \in Nat /\ 0 < size /\ size <= capability
      /\ q.end \in Nat /\ q.end <= capability
  BY <1>1 DEF Holds, Cells
<1>3. q.start = IF at + size < capability THEN at + size ELSE at + size - capability
  BY <1>1, <1>2, Wraps DEF Holds
<1>4. at = IF q.end < capability THEN q.end ELSE 0
  BY <1>1, <1>2, Wraps DEF Holds
<1> DEFINE x == q.end + capability - q.start
<1>5. GetFree(q) = x % capability
  BY DEF GetFree
<1>6. x = capability - size \/ x = 2 * capability - size \/ x = 3 * capability - size
  <2>1. CASE q.end < capability
    BY <1>1, <1>2, <1>3, <1>4, <2>1
  <2>2. CASE q.end = capability
    BY <1>1, <1>2, <1>3, <1>4, <2>2
  <2> QED
    BY <1>1, <1>2, <2>1, <2>2
<1>7. 0 <= x /\ x <= 2 * capability
  BY <1>1, <1>2
<1>8. x \in Int /\ (x < 2 * capability \/ x = 2 * capability)
  BY <1>1, <1>2
<1> HIDE DEF x
<1>9. CASE x = 2 * capability
  <2>1. x - capability = capability /\ size = capability
    BY <1>1, <1>2, <1>6, <1>9
  <2>2. (2 * capability) % capability = 0
    BY <1>1, SMTT(30)
  <2> QED
    BY <1>1, <1>5, <1>9, <2>1, <2>2
<1>10. CASE x < 2 * capability
  <2>1. x % capability = IF x < capability THEN x ELSE x - capability
    BY <1>1, <1>7, <1>8, <1>10, Wraps
  <2> QED
    BY <1>1, <1>2, <1>5, <1>6, <1>7, <1>8, <1>10, <2>1
<1> QED
  BY <1>8, <1>9, <1>10

(* A cell of the level is beyond what is free behind it. *)
LEMMA BeyondFree ==
  ASSUME NEW q, NEW at, NEW size, Holds(q, at, size),
         NEW c \in Cells, InRegion(c, at, size)
  PROVE  (c - TryMax(q)) % capability \in Nat /\ (c - TryMax(q)) % capability >= GetFree(q)
<1>1. capability \in Nat /\ capability > 0
  BY CapabilityAssumption
<1>2. /\ at \in Int /\ 0 <= at /\ at < capability
      /\ q.start \in Int /\ 0 <= q.start /\ q.start < capability
      /\ size \in Nat /\ 0 < size /\ size <= capability
      /\ c \in Int /\ 0 <= c /\ c < capability
  BY <1>1 DEF Holds, Cells
<1>3. q.start = IF at + size < capability THEN at + size ELSE at + size - capability
  BY <1>1, <1>2, Wraps DEF Holds
<1>4. (c - at) % capability = IF c >= at THEN c - at ELSE c - at + capability
  BY <1>1, <1>2, Wraps
<1>5. (c - q.start) % capability = IF c >= q.start THEN c - q.start ELSE c - q.start + capability
  BY <1>1, <1>2, Wraps
<1>6. (IF c >= at THEN c - at ELSE c - at + capability) < size
  BY <1>4 DEF InRegion
<1> QED
  BY <1>1, <1>2, <1>3, <1>5, <1>6, FreeIsRest DEF TryMax

(* A kernel that writes rows behind the level, or gives up after any part  *)
(* of the free cells, leaves every cell of the level as it was, wherever   *)
(* either runs over the end of the array: CyclicQueue counts what is free  *)
(* so that MatchingBitAll may read a level while it writes the next.       *)
THEOREM LevelBehindIsKept ==
  ASSUME NEW q, NEW at, NEW size, Holds(q, at, size),
         NEW array0, NEW c \in Cells, InRegion(c, at, size)
  PROVE  /\ \A rows, d : Len(rows) \in Nat /\ d \in Nat /\ Len(rows) * d <= GetFree(q) =>
              Written(array0, TryMax(q), d, rows)[c] = array0[c]
         /\ \A n \in Nat : n <= GetFree(q) => Scribbled(array0, TryMax(q), n)[c] = array0[c]
<1>1. /\ (c - TryMax(q)) % capability \in Nat
      /\ (c - TryMax(q)) % capability >= GetFree(q)
  BY BeyondFree
<1>2. GetFree(q) \in Int
  <2>1. size \in Nat /\ capability \in Nat
    BY CapabilityAssumption DEF Holds
  <2> QED
    BY <2>1, FreeIsRest
<1>3. ASSUME NEW rows, NEW d, Len(rows) \in Nat, d \in Nat, Len(rows) * d <= GetFree(q)
      PROVE  Written(array0, TryMax(q), d, rows)[c] = array0[c]
  <2>1. Len(rows) * d \in Nat
    BY <1>3
  <2>2. ~((c - TryMax(q)) % capability < Len(rows) * d)
    BY <1>1, <1>2, <1>3, <2>1
  <2> QED
    BY <2>2 DEF Written
<1>4. ASSUME NEW n \in Nat, n <= GetFree(q)
      PROVE  Scribbled(array0, TryMax(q), n)[c] = array0[c]
  <2>1. ~((c - TryMax(q)) % capability < n)
    BY <1>1, <1>2, <1>4
  <2> QED
    BY <2>1 DEF Scribbled
<1> QED
  BY <1>3, <1>4

(* When the new level was pushed and the old one popped, the queue holds   *)
(* the new level in the same sense, so that the next level may be written  *)
(* in turn.                                                                *)
THEOREM LevelMoves ==
  ASSUME NEW q, NEW at, NEW size, Holds(q, at, size), q = [start |-> q.start, end |-> q.end],
         NEW new \in Nat, 0 < new, new <= GetFree(q)
  PROVE  Holds(Pop(Push(q, new), size), TryMax(q), new)
<1>1. capability \in Nat /\ capability > 0
  BY CapabilityAssumption
<1>2. /\ at \in Int /\ 0 <= at /\ at < capability
      /\ q.start \in Cells /\ q.start \in Int /\ 0 <= q.start /\ q.start < capability
      /\ size \in Nat /\ 0 < size /\ size <= capability
      /\ q.end \in Nat /\ q.end <= capability
  BY <1>1 DEF Holds, Cells
<1> DEFINE r == Pop(Push(q, new), size)
<1>3. r.start = (q.start + new) % capability /\ r.end = (q.end + size) % capability
  <2> DEFINE p == Push(q, new)
  <2>1. DOMAIN q = {"start", "end"}
    OBVIOUS
  <2>2. DOMAIN p = {"start", "end"} /\ p.start = (q.start + new) % capability /\ p.end = q.end
    BY <2>1 DEF Push
  <2>3. r = [p EXCEPT !.end = (p.end + size) % capability]
    BY DEF Pop
  <2> HIDE DEF p, r
  <2> QED
    BY <2>2, <2>3
<1>4. at = IF q.end < capability THEN q.end ELSE 0
  BY <1>1, <1>2, Wraps DEF Holds
<1>5. q.start = IF at + size < capability THEN at + size ELSE at + size - capability
  BY <1>1, <1>2, Wraps, SMTT(30) DEF Holds
<1>6. (q.end + size) % capability = q.start
  <2>1. CASE q.end + size < 2 * capability
    <3> DEFINE x == q.end + size
    <3>1. x \in Int /\ 0 <= x /\ x < 2 * capability
      BY <1>1, <1>2, <2>1
    <3>2. x % capability = IF x < capability THEN x ELSE x - capability
      <4> HIDE DEF x
      <4> QED
        BY <1>1, <3>1, Wraps
    <3>3. CASE q.end < capability
      BY <1>1, <1>2, <1>4, <1>5, <3>2, <3>3
    <3>4. CASE q.end = capability
      BY <1>1, <1>2, <1>4, <1>5, <2>1, <3>2, <3>4
    <3> QED
      BY <1>1, <1>2, <3>3, <3>4
  <2>2. CASE q.end + size = 2 * capability
    <3>1. (2 * capability) % capability = 0
      BY <1>1, SMTT(30)
    <3> QED
      BY <1>1, <1>2, <1>4, <1>5, <2>2, <3>1
  <2> QED
    BY <1>1, <1>2, <2>1, <2>2
<1>7. q.start % capability = q.start
  BY <1>1, <1>2, Wraps
<1>8. new <= capability
  BY <1>1, <1>2, FreeIsRest
<1>9. r.start \in Cells
  BY <1>2, <1>3, ModInCells
<1> HIDE DEF r
<1>10. Holds(r, q.start, new)
  BY <1>1, <1>2, <1>3, <1>6, <1>7, <1>8, <1>9 DEF Holds
<1> QED
  BY <1>10 DEF r, TryMax

(* The first level, pushed into the queue that was reset, is held from the *)
(* start of the array.                                                     *)
THEOREM FirstLevelHeld ==
  ASSUME NEW new \in Nat, 0 < new, new <= capability
  PROVE  Holds(Push(Reset, new), TryMax(Reset), new)
<1>1. capability \in Nat /\ capability > 0 /\ 0 \in Cells
  BY CapabilityAssumption DEF Cells
<1>2. capability % capability = 0
  BY <1>1, Wraps
<1>3. new % capability \in Cells
  BY ModInCells
<1>4. Push(Reset, new) = [start |-> new % capability, end |-> capability]
  BY DEF Push, Reset
<1> QED
  BY <1>1, <1>2, <1>3, <1>4 DEF Holds, TryMax, Reset

-----------------------------------------------------------------------------
(* The sequences that kernels make: sets in some order and what is joined. *)

(* A sequence and one more element that it lacks. *)
LEMMA AppendOne ==
  ASSUME NEW X, NEW s \in Seq(X), NEW x \in X, IsInjective(s), x \notin Range(s)
  PROVE  /\ Append(s, x) \in Seq(X) /\ Len(Append(s, x)) = Len(s) + 1
         /\ Range(Append(s, x)) = Range(s) \cup {x}
         /\ IsInjective(Append(s, x))
<1> DEFINE t == Append(s, x)
<1>1. /\ t \in Seq(X) /\ Len(t) = Len(s) + 1
      /\ \A i \in 1..Len(s) : t[i] = s[i]
      /\ t[Len(s) + 1] = x
  BY AppendProperties
<1>2. /\ Len(s) \in Nat /\ DOMAIN s = 1..Len(s)
      /\ DOMAIN t = 1..Len(s) + 1
  BY <1>1, LenProperties
<1> HIDE DEF t
<1>3. \A i \in DOMAIN t : i \in DOMAIN s \/ i = Len(s) + 1
  BY <1>2
<1>4. Range(t) = Range(s) \cup {x}
  <2>1. Range(t) \subseteq Range(s) \cup {x}
    BY <1>1, <1>2, <1>3 DEF Range
  <2>2. \A i \in DOMAIN s : i \in DOMAIN t
    BY <1>2
  <2>3. Len(s) + 1 \in DOMAIN t
    BY <1>2
  <2> QED
    BY <1>1, <1>2, <2>1, <2>2, <2>3 DEF Range
<1>5. IsInjective(t)
  BY <1>1, <1>2, <1>3 DEF Range, IsInjective
<1> QED
  BY <1>1, <1>4, <1>5 DEF t

(* A set is listed with each element once. *)
LEMMA ListedOnce ==
  ASSUME NEW S, IsFiniteSet(S)
  PROVE  /\ Listed(S) \in Seq(S) /\ Len(Listed(S)) = Cardinality(S)
         /\ Range(Listed(S)) = S
         /\ IsInjective(Listed(S))
<1> DEFINE first(s) == CHOOSE x \in s : TRUE
           Body(g, s) == IF s = {} THEN <<>> ELSE Append(g[s \ {first(s)}], first(s))
           iter[s \in SUBSET S] ==
             IF s = {} THEN <<>> ELSE LET x == CHOOSE x \in s : TRUE IN Append(iter[s \ {x}], x)
           D == SUBSET S
           rank == [s \in D |-> Cardinality(s)]
           n == Cardinality(S)
           X == Seq(S)
<1>1. Listed(S) = iter[S]
  BY DEF Listed, FoldSet, MapThenFoldSet
<1>2. iter = CHOOSE g : g = [s \in D |-> Body(g, s)]
  BY DEF iter
<1> HIDE DEF iter
<1>3. \A s \in D : IsFiniteSet(s) /\ (s # {} => first(s) \in s)
  BY FS_Subset
<1> HIDE DEF first
<1>4. \A s \in D : s # {} =>
        /\ s \ {first(s)} \in D
        /\ Cardinality(s \ {first(s)}) = Cardinality(s) - 1
  BY <1>3, FS_RemoveElement
<1>5. n \in Nat /\ \A s \in D : Cardinality(s) \in 0..n /\ Cardinality(s) \in Nat
  <2>1. \A s \in D : Cardinality(s) \in Nat /\ Cardinality(s) <= Cardinality(S)
    BY <1>3, FS_Subset, FS_CardinalityType
  <2>2. Cardinality(S) \in Nat
    BY FS_CardinalityType
  <2> QED
    BY <2>1, <2>2
<1>6. \A s \in D, g \in [D -> X] : Body(g, s) \in X
  <2> SUFFICES ASSUME NEW s \in D, NEW g \in [D -> X] PROVE Body(g, s) \in X
    OBVIOUS
  <2>1. CASE s = {}
    BY <2>1, EmptySeq
  <2>2. CASE s # {}
    <3>1. first(s) \in S /\ g[s \ {first(s)}] \in Seq(S)
      BY <1>3, <1>4, <2>2
    <3> QED
      BY <2>2, <3>1, AppendProperties
  <2> QED
    BY <2>1, <2>2
<1>7. iter = [s \in D |-> Body(iter, s)]
  <2> DEFINE Step == [z \in D \X [D -> X] |-> Body(z[2], z[1])]
  <2>1. \A s \in D, g \in [D -> X] : Step[<<s, g>>] = Body(g, s)
    OBVIOUS
  <2>2. Step \in [D \X [D -> X] -> X]
    BY <1>6
  <2>3. ASSUME NEW s \in D, NEW g \in [D -> X], NEW h \in [D -> X],
               \A k \in D : rank[k] < rank[s] => g[k] = h[k]
        PROVE  Body(g, s) = Body(h, s)
    <3>1. CASE s # {}
      <4>1. \A k \in D : Cardinality(k) < Cardinality(s) => g[k] = h[k]
        BY <2>3
      <4>2. Cardinality(s \ {first(s)}) < Cardinality(s)
        <5>1. Cardinality(s \ {first(s)}) = Cardinality(s) - 1
          BY <1>4, <3>1
        <5>2. Cardinality(s) \in Nat
          BY <1>5
        <5> QED
          BY <5>1, <5>2
      <4> QED
        BY <1>4, <3>1, <4>1, <4>2
    <3> QED
      BY <3>1
  <2>4. rank \in [D -> 0..n]
    BY <1>5
  <2>5. X # {}
    BY EmptySeq
  <2> HIDE DEF Step, Body, rank, n, X, D
  <2>6. Causal(D, rank, X, Step)
    BY <2>1, <2>2, <2>3 DEF Causal
  <2>7. PICK g : Follows(D, X, Step, g)
    BY <1>5, <2>4, <2>5, <2>6, RankedRecursion
  <2>8. g = [s \in D |-> Body(g, s)]
    BY <2>1, <2>7 DEF Follows
  <2> QED
    BY <1>2, <2>8
<1> DEFINE Good(s) == /\ iter[s] \in Seq(s) /\ Len(iter[s]) = Cardinality(s)
                      /\ Range(iter[s]) = s
                      /\ IsInjective(iter[s])
           good == [s \in D |-> Good(s)]
           true == [s \in D |-> TRUE]
<1>8. Good({})
  <2>1. iter[{}] = <<>>
    BY <1>7
  <2>2. <<>> \in Seq({}) /\ Len(<<>>) = 0 /\ Cardinality({}) = 0
    BY EmptySeq, FS_EmptySet
  <2>3. DOMAIN <<>> = {}
    OBVIOUS
  <2>4. Range(<<>>) = {} /\ IsInjective(<<>>)
    BY <2>3 DEF Range, IsInjective
  <2> QED
    BY <2>1, <2>2, <2>4
<1>9. ASSUME NEW s \in D, s # {}, \A x \in s : Good(s \ {x})
      PROVE  Good(s)
  <2> DEFINE x == first(s)
             l == iter[s \ {x}]
  <2>1. x \in s /\ s \ {x} \in D /\ Cardinality(s \ {x}) = Cardinality(s) - 1
    BY <1>3, <1>4, <1>9
  <2>2. iter[s] = Append(l, x)
    BY <1>7, <1>9
  <2>3. /\ l \in Seq(s \ {x}) /\ Len(l) = Cardinality(s) - 1
        /\ Range(l) = s \ {x} /\ IsInjective(l)
    BY <1>9, <2>1
  <2>4. Cardinality(s) \in Nat
    BY <1>5
  <2>5. l \in Seq(s)
    BY <2>3, SeqMonotonic
  <2> HIDE DEF x, l
  <2>6. /\ Append(l, x) \in Seq(s) /\ Len(Append(l, x)) = Cardinality(s)
        /\ Range(Append(l, x)) = s /\ IsInjective(Append(l, x))
    <3>1. Len(l) + 1 = Cardinality(s) /\ Range(l) \cup {x} = s /\ x \notin Range(l)
      BY <2>1, <2>3, <2>4
    <3>2. /\ Append(l, x) \in Seq(s) /\ Len(Append(l, x)) = Len(l) + 1
          /\ Range(Append(l, x)) = Range(l) \cup {x} /\ IsInjective(Append(l, x))
      <4>1. x \in s /\ l \in Seq(s) /\ IsInjective(l) /\ x \notin Range(l)
        BY <2>1, <2>3, <2>5, <3>1
      <4> QED
        BY <4>1, AppendOne
    <3> QED
      BY <3>1, <3>2
  <2> QED
    BY <2>2, <2>6
<1> HIDE DEF Good
<1>10. good[S] = true[S]
  <2>1. good[{}] = true[{}]
    BY <1>8
  <2>2. \A s \in SUBSET S :
          s # {} /\ (\A x \in s : good[s \ {x}] = true[s \ {x}]) => good[s] = true[s]
    BY <1>9
  <2> HIDE DEF good, true
  <2> QED
    BY <2>1, <2>2, Folded
<1> QED
  BY <1>1, <1>10 DEF Good

(* Two sequences without a common element. *)
LEMMA JoinTwo ==
  ASSUME NEW X, NEW s \in Seq(X), NEW t \in Seq(X), IsInjective(s), IsInjective(t),
         Range(s) \cap Range(t) = {}
  PROVE  /\ s \o t \in Seq(X)
         /\ Range(s \o t) = Range(s) \cup Range(t)
         /\ IsInjective(s \o t)
<1> DEFINE u == s \o t
           a == Len(s)
           b == Len(t)
<1>1. /\ u \in Seq(X) /\ Len(u) = a + b
      /\ \A i \in 1..a + b : u[i] = IF i <= a THEN s[i] ELSE t[i - a]
  BY ConcatProperties
<1>2. /\ a \in Nat /\ DOMAIN s = 1..a
      /\ b \in Nat /\ DOMAIN t = 1..b
      /\ DOMAIN u = 1..a + b
  BY <1>1, LenProperties
<1> HIDE DEF u, a, b
<1>3. \A i \in DOMAIN u :
        \/ i \in DOMAIN s /\ i <= a /\ u[i] = s[i] /\ u[i] \in Range(s)
        \/ i - a \in DOMAIN t /\ ~(i <= a) /\ u[i] = t[i - a] /\ u[i] \in Range(t)
  <2> SUFFICES ASSUME NEW i \in DOMAIN u
               PROVE  \/ i \in DOMAIN s /\ i <= a /\ u[i] = s[i] /\ u[i] \in Range(s)
                      \/ i - a \in DOMAIN t /\ ~(i <= a) /\ u[i] = t[i - a] /\ u[i] \in Range(t)
    OBVIOUS
  <2>1. CASE i <= a
    <3>1. i \in DOMAIN s /\ u[i] = s[i]
      BY <1>1, <1>2, <2>1
    <3> QED
      BY <2>1, <3>1 DEF Range
  <2>2. CASE ~(i <= a)
    <3>1. i - a \in DOMAIN t /\ u[i] = t[i - a]
      BY <1>1, <1>2, <2>2
    <3> QED
      BY <2>2, <3>1 DEF Range
  <2> QED
    BY <2>1, <2>2
<1>4. \A i \in DOMAIN s : i \in DOMAIN u /\ u[i] = s[i]
  BY <1>1, <1>2
<1>5. \A j \in DOMAIN t : j + a \in DOMAIN u /\ u[j + a] = t[j]
  BY <1>1, <1>2
<1>6. Range(u) = Range(s) \cup Range(t)
  <2>1. Range(u) \subseteq Range(s) \cup Range(t)
    BY <1>3 DEF Range
  <2>2. Range(s) \subseteq Range(u)
    BY <1>4 DEF Range
  <2>3. Range(t) \subseteq Range(u)
    BY <1>5 DEF Range
  <2> QED
    BY <2>1, <2>2, <2>3
<1>7. IsInjective(u)
  <2> SUFFICES ASSUME NEW i \in DOMAIN u, NEW j \in DOMAIN u, u[i] = u[j] PROVE i = j
    BY DEF IsInjective
  <2>1. CASE i \in DOMAIN s /\ u[i] = s[i] /\ u[i] \in Range(s)
    <3>1. j \in DOMAIN s /\ u[j] = s[j]
      BY <1>3, <2>1
    <3> QED
      BY <2>1, <3>1 DEF IsInjective
  <2>2. CASE i - a \in DOMAIN t /\ u[i] = t[i - a] /\ u[i] \in Range(t)
    <3>1. j - a \in DOMAIN t /\ u[j] = t[j - a]
      BY <1>3, <2>2
    <3>2. i - a = j - a
      BY <2>2, <3>1 DEF IsInjective
    <3>3. i \in Int /\ j \in Int
      BY <1>2
    <3> QED
      BY <1>2, <3>2, <3>3
  <2> QED
    BY <1>3, <2>1, <2>2
<1> QED
  BY <1>1, <1>6, <1>7 DEF u

(* Any number of them. *)
LEMMA FlattenedOnce ==
  ASSUME NEW X, NEW n \in Nat, NEW seqs \in [1..n -> Seq(X)],
         \A i \in 1..n : IsInjective(seqs[i]),
         \A i, j \in 1..n : i # j => Range(seqs[i]) \cap Range(seqs[j]) = {}
  PROVE  /\ FlattenSeq(seqs) \in Seq(X)
         /\ Range(FlattenSeq(seqs)) = UNION {Range(seqs[i]) : i \in 1..n}
         /\ IsInjective(FlattenSeq(seqs))
<1>1. seqs \in Seq(Seq(X)) /\ Len(seqs) = n
  <2>1. seqs \in Seq(Seq(X))
    OBVIOUS
  <2>2. DOMAIN seqs = 1..Len(seqs) /\ Len(seqs) \in Nat
    BY <2>1, LenProperties
  <2>3. DOMAIN seqs = 1..n
    OBVIOUS
  <2>4. 1..n = 1..Len(seqs)
    BY <2>2, <2>3
  <2> QED
    BY <2>1, <2>2, <2>4
<1>2. CASE n = 0
  <2>1. FlattenSeq(seqs) = seqs /\ seqs = <<>>
    BY <1>1, <1>2, EmptySeq DEF FlattenSeq
  <2>2. DOMAIN <<>> = {} /\ 1..n = {}
    BY <1>2
  <2>3. Range(<<>>) = {} /\ IsInjective(<<>>)
    BY <2>2 DEF Range, IsInjective
  <2> QED
    BY <2>1, <2>2, <2>3, EmptySeq
<1>3. CASE n # 0
  <2> DEFINE Body(f, i) == IF i = 1 THEN seqs[i] ELSE f[i - 1] \o seqs[i]
             D == 1..n
             Z == Seq(X)
             flatten[i \in D] == IF i = 1 THEN seqs[i] ELSE flatten[i - 1] \o seqs[i]
  <2>1. FlattenSeq(seqs) = flatten[n]
    BY <1>1, <1>3 DEF FlattenSeq
  <2>2. flatten = CHOOSE f : f = [i \in D |-> Body(f, i)]
    BY DEF flatten
  <2> HIDE DEF flatten
  <2>3. \A i \in D : i # 1 => i - 1 \in D /\ i - 1 < i
    OBVIOUS
  <2>4. \A i \in D, f \in [D -> Z] : Body(f, i) \in Z
    <3> SUFFICES ASSUME NEW i \in D, NEW f \in [D -> Z] PROVE Body(f, i) \in Z
      OBVIOUS
    <3>1. CASE i # 1
      <4>1. f[i - 1] \in Seq(X) /\ seqs[i] \in Seq(X)
        BY <2>3, <3>1
      <4> QED
        BY <3>1, <4>1, ConcatProperties
    <3> QED
      BY <3>1
  <2>5. flatten = [i \in D |-> Body(flatten, i)]
    <3> DEFINE Step == [z \in D \X [D -> Z] |-> Body(z[2], z[1])]
               rank == [d \in D |-> d]
    <3>1. \A i \in D, f \in [D -> Z] : Step[<<i, f>>] = Body(f, i)
      OBVIOUS
    <3>2. Step \in [D \X [D -> Z] -> Z]
      BY <2>4
    <3>3. ASSUME NEW i \in D, NEW f \in [D -> Z], NEW g \in [D -> Z],
                 \A k \in D : rank[k] < rank[i] => f[k] = g[k]
          PROVE  Body(f, i) = Body(g, i)
      BY <2>3, <3>3
    <3>4. Z # {}
      BY EmptySeq
    <3>5. D \subseteq 0..n
      OBVIOUS
    <3> HIDE DEF Step, Body, Z, D, rank
    <3>6. Causal(D, rank, Z, Step)
      BY <3>1, <3>2, <3>3 DEF Causal
    <3>7. PICK f : Follows(D, Z, Step, f)
      BY <3>4, <3>5, <3>6, Recursion DEF rank
    <3>8. f = [i \in D |-> Body(f, i)]
      BY <3>1, <3>7 DEF Follows
    <3> QED
      BY <2>2, <3>8
  <2> DEFINE Joined(i) == UNION {Range(seqs[k]) : k \in 1..i}
             Good(i) == /\ flatten[i] \in Seq(X)
                        /\ Range(flatten[i]) = Joined(i)
                        /\ IsInjective(flatten[i])
             S == {i \in D : Good(i)}
  <2>6. ASSUME NEW i \in D, \A k \in D : k < i => k \in S
        PROVE  Good(i)
    <3>1. CASE i = 1
      <4>1. flatten[i] = seqs[1]
        BY <2>5, <3>1
      <4>2. 1..i = {1}
        BY <3>1
      <4>3. Joined(i) = Range(seqs[1])
        BY <4>2
      <4>4. 1 \in 1..n /\ seqs[1] \in Seq(X)
        BY <3>1
      <4> QED
        BY <4>1, <4>3, <4>4
    <3>2. CASE i # 1
      <4>1. i - 1 \in D /\ i - 1 < i /\ Good(i - 1)
        BY <2>3, <2>6, <3>2
      <4>2. flatten[i] = flatten[i - 1] \o seqs[i]
        BY <2>5, <3>2
      <4>3. 1..i = (1..i - 1) \cup {i}
        OBVIOUS
      <4>4. Joined(i) = Joined(i - 1) \cup Range(seqs[i])
        BY <4>3
      <4>5. \A k \in 1..i - 1 : k \in 1..n /\ k # i
        OBVIOUS
      <4>6. Range(flatten[i - 1]) \cap Range(seqs[i]) = {}
        BY <4>1, <4>5
      <4>7. seqs[i] \in Seq(X) /\ IsInjective(seqs[i])
        OBVIOUS
      <4> HIDE DEF D, Joined
      <4>8. /\ flatten[i - 1] \o seqs[i] \in Seq(X)
            /\ Range(flatten[i - 1] \o seqs[i]) = Range(flatten[i - 1]) \cup Range(seqs[i])
            /\ IsInjective(flatten[i - 1] \o seqs[i])
        BY <4>1, <4>6, <4>7, JoinTwo
      <4> QED
        BY <4>1, <4>2, <4>4, <4>8
    <3> QED
      BY <3>1, <3>2
  <2>7. n \in D
    BY <1>3
  <2>8. D \subseteq S
    <3>1. D \subseteq Nat
      OBVIOUS
    <3>2. \A i \in D : (\A k \in D : k < i => k \in S) => i \in S
      BY <2>6
    <3> HIDE DEF D, S
    <3> QED
      BY <3>1, <3>2, Stepwise
  <2> QED
    BY <2>1, <2>7, <2>8
<1> QED
  BY <1>2, <1>3

-----------------------------------------------------------------------------
(* Partial matches and what extends them. *)

(* The matches. *)
Complete == Level(QV_COUNT)

Entries == UNION {Range(m) : m \in search.rows}

LEMMA RowFacts ==
  ASSUME search \in Searches
  PROVE  /\ QV_COUNT \in Nat /\ QV_COUNT > 2
         /\ IsFiniteSet(search.rows)
         /\ \A m \in search.rows : m \in Seq(Entries) /\ Len(m) \in 2..QV_COUNT
         /\ \A m \in search.rows : Len(m) > 2 => Front(m) \in search.rows
<1>1. /\ QV_COUNT \in Nat /\ QV_COUNT > 2
      /\ IsFiniteSet(search.rows)
      /\ \A m \in search.rows : m \in Seq(Range(m)) /\ Len(m) \in 2..QV_COUNT
      /\ \A m \in search.rows : Len(m) > 2 => Front(m) \in search.rows
  BY SearchAssumption DEF Depths
<1>2. ASSUME NEW m \in search.rows PROVE m \in Seq(Entries)
  <2>1. Range(m) \subseteq Entries
    BY DEF Entries
  <2> QED
    BY <1>1, <2>1, SeqMonotonic
<1> QED
  BY <1>1, <1>2

LEMMA PrefixIs ==
  ASSUME NEW X, NEW s \in Seq(X), NEW t \in Seq(X)
  PROVE  IsPrefix(s, t) <=> Len(s) <= Len(t) /\ \A i \in 1..Len(s) : s[i] = t[i]
<1>1. Len(s) \in Nat /\ Len(t) \in Nat
  BY LenProperties
<1>2. ASSUME Len(s) <= Len(t)
      PROVE  SubSeq(s, 1, Len(s)) = SubSeq(t, 1, Len(s)) <=> \A i \in 1..Len(s) : s[i] = t[i]
  <2> DEFINE n == Len(s)
  <2>1. \A i \in 1..n : s[i] \in X /\ t[i] \in X
    BY <1>1, <1>2, ElementOfSeq
  <2>2. n \in Int /\ 1 \in Int /\ n - 1 + 1 = n /\ (IF 1 <= n THEN n ELSE 0) = n
    BY <1>1
  <2> DEFINE a == SubSeq(s, 1, n)
             b == SubSeq(t, 1, n)
  <2>3. a \in Seq(X) /\ Len(a) = n /\ \A i \in 1..n : a[i] = s[i]
    <3>1. a = s
      BY SubSeqFull
    <3> QED
      BY <3>1
  <2>4. b \in Seq(X) /\ Len(b) = n /\ \A i \in 1..n : b[i] = t[i]
    <3>1. /\ b \in Seq(X)
          /\ Len(b) = IF 1 <= n THEN n - 1 + 1 ELSE 0
          /\ \A i \in 1..n - 1 + 1 : b[i] = t[1 + i - 1]
      BY <2>1, <2>2, SubSeqProperties
    <3>2. \A i \in 1..n : 1 + i - 1 = i
      BY <2>2
    <3> QED
      BY <2>2, <3>1, <3>2
  <2> HIDE DEF a, b
  <2>5. a = b <=> \A i \in 1..n : a[i] = b[i]
    <3> HIDE DEF n
    <3> QED
      BY <2>3, <2>4, SeqEqual
  <2> QED
    BY <2>3, <2>4, <2>5 DEF a, b
<1> QED
  BY <1>2 DEF IsPrefix

LEMMA FrontIs ==
  ASSUME NEW X, NEW s \in Seq(X), Len(s) > 0
  PROVE  /\ Front(s) \in Seq(X) /\ Len(Front(s)) = Len(s) - 1
         /\ \A i \in 1..Len(s) - 1 : Front(s)[i] = s[i]
<1> DEFINE n == Len(s) - 1
           b == SubSeq(s, 1, n)
<1>1. n \in Nat /\ n + 1 = Len(s)
  BY LenProperties
<1>2. \A i \in 1..n : s[i] \in X
  BY <1>1, ElementOfSeq
<1>3. n \in Int /\ 1 \in Int /\ n - 1 + 1 = n /\ (IF 1 <= n THEN n ELSE 0) = n
  BY <1>1
<1>4. /\ b \in Seq(X)
      /\ Len(b) = IF 1 <= n THEN n - 1 + 1 ELSE 0
      /\ \A i \in 1..n - 1 + 1 : b[i] = s[1 + i - 1]
  BY <1>2, <1>3, SubSeqProperties
<1>5. \A i \in 1..n : 1 + i - 1 = i
  BY <1>3
<1>6. Front(s) = b
  BY DEF Front
<1> QED
  BY <1>3, <1>4, <1>5, <1>6

(* A partial match holds one of every length below it. *)
LEMMA PrefixInLevel ==
  ASSUME search \in Searches, NEW m \in search.rows, NEW c \in 2..Len(m)
  PROVE  \E p \in Level(c) : IsPrefix(p, m)
<1> DEFINE l == Len(m)
           D == 0..l - 2
           S == {k \in D : \E p \in Level(l - k) : IsPrefix(p, m)}
<1>1. m \in Seq(Entries) /\ l \in Nat /\ c \in 2..l
  BY RowFacts
<1>2. ASSUME NEW k \in D, \A j \in D : j < k => j \in S
      PROVE  \E p \in Level(l - k) : IsPrefix(p, m)
  <2>1. CASE k = 0
    <3>1. m \in Level(l - k)
      BY <1>1, <2>1 DEF Level
    <3>2. IsPrefix(m, m)
      BY <1>1, PrefixIs
    <3> QED
      BY <3>1, <3>2
  <2>2. CASE k # 0
    <3>1. k - 1 \in D /\ k - 1 < k /\ k \in Int
      BY <1>1, <2>2
    <3>2. PICK p \in Level(l - (k - 1)) : IsPrefix(p, m)
      BY <1>2, <3>1
    <3>3. p \in search.rows /\ p \in Seq(Entries) /\ Len(p) = l - (k - 1)
      BY <3>2, RowFacts DEF Level
    <3>4. Len(p) > 2 /\ Len(p) > 0 /\ Len(p) - 1 = l - k /\ Len(p) - 1 <= Len(p)
      BY <1>1, <3>1, <3>3
    <3> DEFINE f == Front(p)
    <3>5. f \in search.rows
      BY <3>3, <3>4, RowFacts
    <3>6. f \in Seq(Entries) /\ Len(f) = l - k /\ \A i \in 1..l - k : f[i] = p[i]
      BY <3>3, <3>4, FrontIs
    <3> HIDE DEF f
    <3>7. f \in Level(l - k)
      BY <3>5, <3>6 DEF Level
    <3>8. Len(p) <= Len(m) /\ \A i \in 1..Len(p) : p[i] = m[i]
      BY <1>1, <3>2, <3>3, PrefixIs
    <3>9. Len(f) <= Len(m) /\ \A i \in 1..Len(f) : f[i] = m[i]
      <4>1. \A i \in 1..l - k : i \in 1..Len(p)
        BY <1>1, <3>1, <3>3
      <4> QED
        BY <1>1, <3>1, <3>3, <3>6, <3>8, <4>1
    <3>10. IsPrefix(f, m)
      BY <1>1, <3>6, <3>9, PrefixIs
    <3> QED
      BY <3>7, <3>10
  <2> QED
    BY <2>1, <2>2
<1>3. D \subseteq S
  <2>1. D \subseteq Nat
    OBVIOUS
  <2>2. \A k \in D : (\A j \in D : j < k => j \in S) => k \in S
    BY <1>2
  <2> HIDE DEF D, S
  <2> QED
    BY <2>1, <2>2, Stepwise
<1>4. l - c \in D /\ l - (l - c) = c
  BY <1>1
<1> QED
  BY <1>3, <1>4

(* Partial matches of one length that are prefixes of the same one are the *)
(* same. *)
LEMMA OnePrefix ==
  ASSUME search \in Searches, NEW p \in search.rows, NEW q \in search.rows, Len(p) = Len(q),
         NEW m \in search.rows, IsPrefix(p, m), IsPrefix(q, m)
  PROVE  p = q
<1>1. p \in Seq(Entries) /\ q \in Seq(Entries) /\ m \in Seq(Entries)
  BY RowFacts
<1>2. \A i \in 1..Len(p) : p[i] = q[i]
  BY <1>1, PrefixIs
<1> QED
  BY <1>1, <1>2, SeqEqual

(* A kernel that extends rows of one length, each once, makes the partial  *)
(* matches that extend one of them, each once. *)
LEMMA ExtendedOnce ==
  ASSUME search \in Searches, NEW c, NEW d, NEW n \in Nat,
         NEW R \in [1..n -> Level(c)], IsInjective(R)
  PROVE  /\ Extended(R, d) \in Seq(Level(d))
         /\ Range(Extended(R, d)) = {m \in Level(d) : \E i \in 1..n : IsPrefix(R[i], m)}
         /\ IsInjective(Extended(R, d))
<1> DEFINE E(i) == {m \in Level(d) : IsPrefix(R[i], m)}
           seqs == [i \in 1..n |-> Listed(E(i))]
<1>1. Extended(R, d) = FlattenSeq(seqs)
  <2>1. DOMAIN R = 1..n
    OBVIOUS
  <2> QED
    BY <2>1 DEF Extended
<1>2. ASSUME NEW i \in 1..n
      PROVE  /\ Listed(E(i)) \in Seq(Level(d))
             /\ Range(Listed(E(i))) = E(i)
             /\ IsInjective(Listed(E(i)))
  <2>1. E(i) \subseteq search.rows /\ E(i) \subseteq Level(d)
    BY DEF Level
  <2>2. IsFiniteSet(E(i))
    BY <2>1, RowFacts, FS_Subset
  <2> HIDE DEF E
  <2>3. /\ Listed(E(i)) \in Seq(E(i))
        /\ Range(Listed(E(i))) = E(i)
        /\ IsInjective(Listed(E(i)))
    BY <2>2, ListedOnce
  <2> QED
    BY <2>1, <2>3, SeqMonotonic
<1>3. ASSUME NEW i \in 1..n, NEW j \in 1..n, i # j
      PROVE  E(i) \cap E(j) = {}
  <2> SUFFICES ASSUME NEW m \in E(i) \cap E(j) PROVE FALSE
    OBVIOUS
  <2>1. /\ R[i] \in search.rows /\ R[j] \in search.rows /\ m \in search.rows
        /\ Len(R[i]) = Len(R[j])
        /\ IsPrefix(R[i], m) /\ IsPrefix(R[j], m)
    BY DEF Level
  <2>2. R[i] = R[j]
    BY <2>1, OnePrefix
  <2> QED
    BY <1>3, <2>2 DEF IsInjective
<1> DEFINE X == Seq(Level(d))
<1>4. seqs \in [1..n -> X]
  BY <1>2
<1>5. \A i \in 1..n : Range(seqs[i]) = E(i) /\ IsInjective(seqs[i])
  BY <1>2
<1>6. UNION {E(i) : i \in 1..n} = {m \in Level(d) : \E i \in 1..n : IsPrefix(R[i], m)}
  OBVIOUS
<1> HIDE DEF E, seqs
<1>7. \A i, j \in 1..n : i # j => Range(seqs[i]) \cap Range(seqs[j]) = {}
  BY <1>3, <1>5
<1>8. UNION {Range(seqs[i]) : i \in 1..n} = UNION {E(i) : i \in 1..n}
  BY <1>5
<1>9. /\ FlattenSeq(seqs) \in Seq(Level(d))
      /\ Range(FlattenSeq(seqs)) = UNION {Range(seqs[i]) : i \in 1..n}
      /\ IsInjective(FlattenSeq(seqs))
  BY <1>4, <1>5, <1>7, FlattenedOnce
<1> QED
  BY <1>1, <1>6, <1>8, <1>9

(* A whole level is extended to a whole level; if nothing extends it,      *)
(* there is no match. *)
LEMMA ExtendedLevel ==
  ASSUME search \in Searches, NEW c, NEW d, c \in 2..QV_COUNT, d \in c..QV_COUNT,
         NEW n \in Nat, NEW R \in [1..n -> Level(c)], IsInjective(R), Range(R) = Level(c)
  PROVE  /\ Extended(R, d) \in Seq(Level(d))
         /\ Range(Extended(R, d)) = Level(d)
         /\ IsInjective(Extended(R, d))
<1>1. ASSUME NEW m \in Level(d) PROVE \E i \in 1..n : IsPrefix(R[i], m)
  <2>1. m \in search.rows /\ Len(m) = d /\ c \in 2..Len(m)
    BY RowFacts DEF Level
  <2>2. PICK p \in Level(c) : IsPrefix(p, m)
    BY <2>1, PrefixInLevel
  <2>3. PICK i \in DOMAIN R : R[i] = p
    BY <2>2 DEF Range
  <2> QED
    BY <2>2, <2>3
<1>2. {m \in Level(d) : \E i \in 1..n : IsPrefix(R[i], m)} = Level(d)
  BY <1>1
<1>3. /\ Extended(R, d) \in Seq(Level(d))
      /\ Range(Extended(R, d)) = {m \in Level(d) : \E i \in 1..n : IsPrefix(R[i], m)}
      /\ IsInjective(Extended(R, d))
  BY ExtendedOnce
<1> QED
  BY <1>2, <1>3

LEMMA NothingExtends ==
  ASSUME search \in Searches, NEW d \in 2..QV_COUNT, Level(d) = {}
  PROVE  Complete = {}
<1>1. \A m \in Complete : m \in search.rows /\ d \in 2..Len(m)
  BY RowFacts DEF Complete, Level
<1> QED
  BY <1>1, PrefixInLevel

(* What is counted of each match when rows are extended to the end. *)
LEMMA CountIs ==
  ASSUME search \in Searches, NEW c, NEW n \in Nat,
         NEW R \in [1..n -> Level(c)], IsInjective(R), DOMAIN found = Complete
  PROVE  Count(R) = [m \in Complete |->
                       found[m] + IF \E i \in 1..n : IsPrefix(R[i], m) THEN 1 ELSE 0]
<1> DEFINE e == Extended(R, QV_COUNT)
           At(m) == {i \in DOMAIN e : e[i] = m}
<1>1. /\ e \in Seq(Complete) /\ IsInjective(e)
      /\ Range(e) = {m \in Complete : \E i \in 1..n : IsPrefix(R[i], m)}
  BY ExtendedOnce DEF Complete
<1>2. Count(R) = [m \in Complete |-> found[m] + Cardinality(At(m))]
  BY DEF Count
<1> HIDE DEF e
<1>3. ASSUME NEW m \in Complete
      PROVE  Cardinality(At(m)) = IF \E i \in 1..n : IsPrefix(R[i], m) THEN 1 ELSE 0
  <2>1. CASE m \in Range(e)
    <3>1. PICK i \in DOMAIN e : e[i] = m
      BY <2>1 DEF Range
    <3>2. At(m) = {i}
      BY <1>1, <3>1 DEF IsInjective
    <3> QED
      BY <1>1, <2>1, <3>2, FS_Singleton
  <2>2. CASE m \notin Range(e)
    <3>1. At(m) = {}
      BY <2>2 DEF Range
    <3> QED
      BY <1>1, <2>2, <3>1, FS_EmptySet
  <2> QED
    BY <2>1, <2>2
<1> HIDE DEF At
<1> QED
  BY <1>2, <1>3

-----------------------------------------------------------------------------
(* The cells of rows that lie in the queue.                                *)

LEMMA BlockIs ==
  ASSUME NEW d \in Nat, NEW n \in Nat, NEW i \in 1..n, NEW j \in 1..d
  PROVE  /\ (i - 1) * d + (j - 1) \in Nat
         /\ (i - 1) * d + (j - 1) < n * d
         /\ ((i - 1) * d + (j - 1)) \div d = i - 1
         /\ ((i - 1) * d + (j - 1)) % d = j - 1
<1> DEFINE a == i - 1
           b == j - 1
           y == a * d + b
           q == y \div d
           r == y % d
<1>1. a \in Nat /\ b \in Nat /\ 0 <= b /\ b < d /\ a + 1 <= n /\ d > 0
  OBVIOUS
<1> HIDE DEF a, b
<1>2. a * d \in Nat
  BY <1>1
<1>3. y \in Nat
  BY <1>1, <1>2
<1>4. (a + 1) * d <= n * d
  BY <1>1, SMTT(30)
<1>5. (a + 1) * d = a * d + d /\ n * d \in Nat
  BY <1>1, SMTT(30)
<1>6. y < n * d
  BY <1>1, <1>2, <1>4, <1>5
<1>7. q \in Int /\ r \in Int /\ y = d * q + r /\ 0 <= r /\ r < d
  BY <1>1, <1>3, SMTT(30)
<1> HIDE DEF y, q, r
<1>8. q = a
  <2>1. ASSUME q < a PROVE FALSE
    <3>1. d * (q + 1) <= d * a
      BY <1>1, <1>7, <2>1, SMTT(30)
    <3>2. d * (q + 1) = d * q + d /\ d * a = a * d /\ d * q \in Int
      BY <1>1, <1>7, SMTT(30)
    <3> QED
      BY <1>1, <1>2, <1>7, <3>1, <3>2 DEF y
  <2>2. ASSUME a < q PROVE FALSE
    <3>1. d * (a + 1) <= d * q
      BY <1>1, <1>7, <2>2, SMTT(30)
    <3>2. d * (a + 1) = a * d + d /\ d * q \in Int
      BY <1>1, <1>7, SMTT(30)
    <3> QED
      BY <1>1, <1>2, <1>7, <3>1, <3>2 DEF y
  <2> QED
    BY <1>1, <1>7, <2>1, <2>2
<1>9. r = b
  <2>1. d * q = a * d
    BY <1>1, <1>8, SMTT(30)
  <2> QED
    BY <1>1, <1>2, <1>7, <2>1 DEF y
<1> QED
  BY <1>3, <1>6, <1>8, <1>9 DEF a, b, y, q, r

LEMMA OffsetIs ==
  ASSUME NEW at \in Cells, NEW y \in Cells
  PROVE  /\ (at + y) % capability \in Cells
         /\ (((at + y) % capability) - at) % capability = y
<1>1. capability \in Nat /\ capability > 0
  BY CapabilityAssumption
<1>2. /\ at \in Int /\ 0 <= at /\ at < capability
      /\ y \in Int /\ 0 <= y /\ y < capability
  BY <1>1 DEF Cells
<1> DEFINE x == at + y
           z == (x % capability) - at
<1>3. x \in Int /\ 0 <= x /\ x < 2 * capability
  BY <1>1, <1>2
<1>4. x % capability = IF x < capability THEN x ELSE x - capability
  <2> HIDE DEF x
  <2> QED
    BY <1>1, <1>3, Wraps
<1>5. z = y \/ z = y - capability
  BY <1>1, <1>2, <1>4
<1>6. z % capability = y
  <2>1. z \in Int
    BY <1>1, <1>2, <1>5
  <2> HIDE DEF z
  <2>2. CASE z = y
    BY <1>1, <1>2, <2>1, <2>2, Wraps
  <2>3. CASE z = y - capability
    BY <1>1, <1>2, <2>1, <2>3, Wraps
  <2> QED
    BY <1>5, <2>2, <2>3
<1>7. (at + y) % capability \in Cells
  BY <1>3, ModInCells
<1> QED
  BY <1>6, <1>7

(* The cell of a row at place j. *)
CellAt(at, d, i, j) == ((at + (i - 1) * d) + (j - 1)) % capability

(* The cells of n rows are a region of n * d cells. *)
LEMMA CellOfRow ==
  ASSUME NEW at \in Cells, NEW d \in Nat, NEW n \in Nat, n * d <= capability,
         NEW i \in 1..n, NEW j \in 1..d
  PROVE  /\ CellAt(at, d, i, j) \in Cells
         /\ (CellAt(at, d, i, j) - at) % capability = (i - 1) * d + (j - 1)
<1> DEFINE y == (i - 1) * d + (j - 1)
           e == (i - 1) * d
<1>1. y \in Nat /\ y < n * d
  BY BlockIs
<1>2. n * d \in Nat /\ e \in Int /\ j - 1 \in Int
  OBVIOUS
<1>3. capability \in Nat
  BY CapabilityAssumption
<1>4. y \in Cells /\ at \in Int
  <2> HIDE DEF y
  <2> QED
    BY <1>1, <1>2, <1>3 DEF Cells
<1>5. (at + e) + (j - 1) = at + y
  <2>1. y = e + (j - 1)
    OBVIOUS
  <2> HIDE DEF e, y
  <2> QED
    BY <1>2, <1>4, <2>1
<1> HIDE DEF y
<1>6. /\ (at + y) % capability \in Cells
      /\ (((at + y) % capability) - at) % capability = y
  BY <1>4, OffsetIs
<1>7. CellAt(at, d, i, j) = (at + y) % capability
  BY <1>5 DEF CellAt
<1> QED
  BY <1>6, <1>7 DEF y

(* What was written is read, also over the end of the array. *)
LEMMA WrittenIsRead ==
  ASSUME NEW array0, NEW at \in Cells, NEW d \in Nat,
         NEW rows, Len(rows) \in Nat, Len(rows) * d <= capability,
         NEW i \in 1..Len(rows), NEW j \in 1..d
  PROVE  Written(array0, at, d, rows)[CellAt(at, d, i, j)] = rows[i][j]
<1> DEFINE n == Len(rows)
           new == Written(array0, at, d, rows)
           c == CellAt(at, d, i, j)
           y == (i - 1) * d + (j - 1)
<1>0. n \in Nat /\ i \in 1..n /\ n * d <= capability
  OBVIOUS
<1> HIDE DEF n
<1>1. c \in Cells /\ (c - at) % capability = y
  BY <1>0, CellOfRow
<1>2. y < n * d /\ y \div d = i - 1 /\ y % d = j - 1
  BY <1>0, BlockIs
<1>3. i - 1 + 1 = i /\ j - 1 + 1 = j
  OBVIOUS
<1> HIDE DEF c, y
<1>4. new[c] = rows[(y \div d) + 1][(y % d) + 1]
  BY <1>1, <1>2 DEF Written, n
<1> QED
  BY <1>2, <1>3, <1>4 DEF c

-----------------------------------------------------------------------------
(* The invariant of a search.                                              *)

(* The steps in which there is a level. *)
Active == {"small", "multi", "analysis", "final", "split"}

(* The queue holds the level and nothing else, and the cells of the level  *)
(* are its partial matches. *)
LevelHeld ==
  /\ search \in Searches
  /\ cur_depth \in 2..QV_COUNT - 1
  /\ res_size \in Nat \ {0}
  /\ queue = [start |-> queue.start, end |-> queue.end]
  /\ Holds(queue, res, res_size * cur_depth)
  /\ IsInjective(Rows)
  /\ Range(Rows) = Level(cur_depth)

(* The matches that extend one of the first k rows. *)
OfCPU(m) == \E i \in 1..split : IsPrefix(Rows[i], m)

(* What was counted of the matches in the split: those of the CPU when it  *)
(* has finished, and the others when the GPU has.                          *)
SplitCounted ==
  /\ split \in 1..res_size - 1
  /\ frontier = Frontier(split)
  /\ shares \subseteq {"CPU", "GPU"}
  /\ found = [m \in Complete |->
                IF (IF OfCPU(m) THEN "CPU" ELSE "GPU") \in shares THEN 0 ELSE 1]

LInv ==
  /\ step \in Active \cup {"initial", "done"}
  /\ step = "initial" => search \in Searches
  /\ step \in Active => LevelHeld
  /\ step \in (Active \cup {"initial"}) \ {"split"} => found = [m \in Complete |-> 0]
  /\ step = "split" => SplitCounted
  /\ CountedOnce

-----------------------------------------------------------------------------
(* The steps. *)

LEMMA Divided ==
  ASSUME NEW g \in Nat, NEW d \in Nat \ {0}
  PROVE  /\ g \div d \in Nat
         /\ (g \div d) * d <= g
         /\ \A n \in Nat : n < g \div d => n * d <= g
<1> DEFINE q == g \div d
           r == g % d
<1>1. q \in Nat /\ r \in Nat /\ g = d * q + r
  BY SMTT(30)
<1> HIDE DEF q, r
<1>2. d * q \in Nat /\ q * d = d * q
  BY <1>1
<1>3. q * d <= g
  BY <1>1, <1>2
<1>4. ASSUME NEW n \in Nat, n < q PROVE n * d <= g
  <2>1. n * d <= q * d /\ n * d \in Nat
    BY <1>1, <1>4, SMTT(30)
  <2> QED
    BY <1>2, <1>3, <2>1
<1> QED
  BY <1>1, <1>3, <1>4 DEF q

LEMMA MinIn ==
  ASSUME NEW S, S \subseteq Nat, S # {}
  PROVE  Min(S) \in S
BY LeastNumber DEF Min

LEMMA NewRows ==
  ASSUME search \in Searches, NEW d \in Nat, NEW rows \in Seq(Level(d)),
         NEW array0, NEW at \in Cells, Len(rows) * d <= capability
  PROVE  RowsAt(Written(array0, at, d, rows), at, d, Len(rows)) = rows
<1> DEFINE n == Len(rows)
           new == Written(array0, at, d, rows)
<1>1. n \in Nat /\ DOMAIN rows = 1..n /\ \A i \in 1..n : rows[i] \in Level(d)
  BY LenProperties, ElementOfSeq
<1>2. ASSUME NEW i \in 1..n PROVE rows[i] = [j \in 1..d |-> rows[i][j]]
  <2>1. rows[i] \in Seq(Entries) /\ Len(rows[i]) = d
    BY <1>1, RowFacts DEF Level
  <2>2. rows[i] \in [1..d -> Entries]
    BY <2>1, LenProperties
  <2> QED
    BY <2>2
<1>3. rows = [i \in 1..n |-> rows[i]]
  <2>1. rows \in [1..n -> Level(d)]
    BY <1>1, LenProperties
  <2> HIDE DEF n
  <2> QED
    BY <2>1
<1>4. ASSUME NEW i \in 1..n
      PROVE  Row(new, at, d, i - 1) = [j \in 1..d |-> rows[i][j]]
  <2>1. ASSUME NEW j \in 1..d PROVE new[CellAt(at, d, i, j)] = rows[i][j]
    <3>1. Len(rows) \in Nat /\ i \in 1..Len(rows) /\ j \in 1..d
      BY <1>1
    <3> QED
      BY <3>1, WrittenIsRead
  <2> HIDE DEF new
  <2> QED
    BY <2>1 DEF Row, CellAt
<1> HIDE DEF n, new
<1>5. RowsAt(new, at, d, n) = [i \in 1..n |-> rows[i]]
  BY <1>2, <1>4 DEF RowsAt
<1> QED
  BY <1>3, <1>5 DEF n, new

LEMMA LevelFacts ==
  ASSUME LevelHeld
  PROVE  /\ search \in Searches /\ QV_COUNT \in Nat /\ QV_COUNT > 2
         /\ cur_depth \in Nat \ {0} /\ cur_depth \in 2..QV_COUNT - 1
         /\ res_size \in Nat \ {0}
         /\ res \in Cells /\ capability \in Nat
         /\ res_size * cur_depth \in Nat /\ res_size * cur_depth <= capability
         /\ GetFree(queue) \in Nat /\ GetFree(queue) <= capability
         /\ TryMax(queue) \in Cells
         /\ Rows \in [1..res_size -> Level(cur_depth)]
         /\ IsInjective(Rows) /\ Range(Rows) = Level(cur_depth)
         /\ \A i \in 1..res_size : Rows[i] = Row(array, res, cur_depth, i - 1)
<1>1. /\ search \in Searches /\ cur_depth \in 2..QV_COUNT - 1 /\ res_size \in Nat \ {0}
      /\ Holds(queue, res, res_size * cur_depth)
      /\ IsInjective(Rows) /\ Range(Rows) = Level(cur_depth)
  BY DEF LevelHeld
<1>2. QV_COUNT \in Nat /\ QV_COUNT > 2
  BY <1>1, RowFacts
<1>3. cur_depth \in Nat \ {0}
  BY <1>1, <1>2
<1> DEFINE size == res_size * cur_depth
<1>4. size \in Nat
  BY <1>1, <1>3
<1>5. capability \in Nat
  BY CapabilityAssumption
<1> HIDE DEF size
<1>6. Holds(queue, res, size)
  BY <1>1 DEF size
<1>7. res \in Cells /\ size <= capability /\ TryMax(queue) \in Cells
  BY <1>6 DEF Holds, TryMax
<1>8. GetFree(queue) = capability - size
  BY <1>6, FreeIsRest
<1>9. GetFree(queue) \in Nat /\ GetFree(queue) <= capability
  BY <1>4, <1>5, <1>7, <1>8
<1>10. Rows = [i \in 1..res_size |-> Row(array, res, cur_depth, i - 1)]
  BY DEF Rows, RowsAt
<1>11. Rows \in [1..res_size -> Level(cur_depth)]
  <2>1. \A i \in 1..res_size : Rows[i] \in Range(Rows)
    BY <1>10 DEF Range
  <2> QED
    BY <1>1, <1>10, <2>1
<1> QED
  BY <1>1, <1>2, <1>3, <1>4, <1>5, <1>7, <1>9, <1>10, <1>11 DEF size

(* What a kernel writes behind the level leaves the level alone. *)
LEMMA BehindKept ==
  ASSUME LevelHeld, NEW array1,
         \A c \in Cells :
           InRegion(c, res, res_size * cur_depth) => array1[c] = array[c]
  PROVE  /\ \A i \in 0..res_size - 1 : Row(array1, res, cur_depth, i) = Row(array, res, cur_depth, i)
         /\ RowsAt(array1, res, cur_depth, res_size) = Rows
<1>1. ASSUME NEW k \in 0..res_size - 1
      PROVE  Row(array1, res, cur_depth, k) = Row(array, res, cur_depth, k)
  <2> DEFINE d == cur_depth
             n == res_size
             size == n * d
             i == k + 1
  <2>1. res \in Cells /\ d \in Nat /\ n \in Nat /\ n * d <= capability
    BY LevelFacts
  <2>2. i \in 1..n /\ i - 1 = k
    BY <2>1
  <2>3. \A c \in Cells : InRegion(c, res, size) => array1[c] = array[c]
    OBVIOUS
  <2> HIDE DEF i, d, n, size
  <2>4. ASSUME NEW j \in 1..d
        PROVE  array1[CellAt(res, d, i, j)] = array[CellAt(res, d, i, j)]
    <3> DEFINE c == CellAt(res, d, i, j)
               y == (i - 1) * d + (j - 1)
    <3>1. c \in Cells /\ (c - res) % capability = y
      BY <2>1, <2>2, CellOfRow
    <3>2. y < n * d
      BY <2>1, <2>2, BlockIs
    <3> HIDE DEF c, y
    <3>3. array1[c] = array[c]
      BY <2>3, <3>1, <3>2 DEF InRegion, size
    <3> QED
      BY <3>3 DEF c
  <2>5. Row(array1, res, d, k) = Row(array, res, d, k)
    BY <2>2, <2>4 DEF Row, CellAt
  <2> QED
    BY <2>5 DEF d
<1>2. \A i \in 1..res_size : Row(array1, res, cur_depth, i - 1) = Row(array, res, cur_depth, i - 1)
  <2>1. res_size \in Nat
    BY LevelFacts
  <2>2. \A i \in 1..res_size : i - 1 \in 0..res_size - 1
    BY <2>1
  <2> QED
    BY <1>1, <2>2
<1> QED
  BY <1>1, <1>2 DEF Rows, RowsAt

LEMMA StoreStep ==
  ASSUME LevelHeld, NEW d \in cur_depth..QV_COUNT - 1, Store(d)
  PROVE  /\ \A i \in 0..res_size - 1 : Row(array', res, cur_depth, i) = Row(array, res, cur_depth, i)
         /\ res_size' # 0 => LevelHeld'
         /\ res_size' = 0 => Complete = {}
         /\ UNCHANGED <<search, found>>
<1> DEFINE new == Extended(Rows, d)
           size == res_size * cur_depth
           at == TryMax(queue)
           g == GetFree(queue)
           q == Pop(Push(queue, Len(new) * d), size)
<1>1. /\ search \in Searches /\ QV_COUNT \in Nat /\ QV_COUNT > 2
      /\ cur_depth \in 2..QV_COUNT - 1 /\ res_size \in Nat
      /\ capability \in Nat /\ size \in Nat
      /\ g \in Nat /\ g <= capability /\ at \in Cells
      /\ Rows \in [1..res_size -> Level(cur_depth)]
      /\ IsInjective(Rows) /\ Range(Rows) = Level(cur_depth)
  BY LevelFacts
<1>2. d \in Nat \ {0} /\ d \in 2..QV_COUNT - 1 /\ d \in cur_depth..QV_COUNT /\ d \in 2..QV_COUNT
      /\ cur_depth \in 2..QV_COUNT
  BY <1>1
<1>3. new \in Seq(Level(d)) /\ Range(new) = Level(d) /\ IsInjective(new)
  BY <1>1, <1>2, ExtendedLevel
<1>4. Len(new) \in Nat
  BY <1>3, LenProperties
<1>5. /\ Len(new) < MaxNew(d)
      /\ array' = Written(array, at, d, new)
      /\ queue' = q /\ res' = at /\ res_size' = Len(new)
      /\ cur_depth' = IF new = <<>> THEN cur_depth ELSE d
      /\ search' = search /\ found' = found
  BY DEF Store, ended
<1> HIDE DEF new, size, at, g
<1>6. Len(new) * d <= g /\ Len(new) * d \in Nat
  BY <1>1, <1>2, <1>4, <1>5, Divided DEF MaxNew, g
<1>7. Holds(queue, res, size) /\ queue = [start |-> queue.start, end |-> queue.end]
  BY DEF LevelHeld, size
<1>8. \A i \in 0..res_size - 1 : Row(array', res, cur_depth, i) = Row(array, res, cur_depth, i)
  <2>1. ASSUME NEW c \in Cells, InRegion(c, res, size)
        PROVE  array'[c] = array[c]
    BY <1>2, <1>4, <1>5, <1>6, <1>7, <2>1, LevelBehindIsKept DEF g, at
  <2> QED
    BY <2>1, BehindKept DEF size
<1>9. ASSUME res_size' = 0 PROVE Complete = {}
  <2>1. DOMAIN new = {}
    <3>1. DOMAIN new = 1..Len(new) /\ Len(new) = 0
      BY <1>3, <1>5, <1>9, LenProperties
    <3> QED
      BY <3>1
  <2>2. Level(d) = {}
    BY <1>3, <2>1 DEF Range
  <2> QED
    BY <1>1, <1>2, <2>2, NothingExtends
<1>10. ASSUME res_size' # 0 PROVE LevelHeld'
  <2>1. Len(new) # 0 /\ new # <<>>
    BY <1>5, <1>10
  <2>2. cur_depth' = d
    BY <1>5, <2>1
  <2>3. 0 < Len(new) * d
    BY <1>2, <1>4, <2>1
  <2>4. Holds(queue', res', res_size' * cur_depth')
    BY <1>5, <1>6, <1>7, <2>2, <2>3, LevelMoves DEF g, at
  <2>5. queue' = [start |-> queue'.start, end |-> queue'.end]
    <3> DEFINE b == (queue.start + Len(new) * d) % capability
               e == (queue.end + size) % capability
               p == Push(queue, Len(new) * d)
    <3>1. p = [start |-> b, end |-> queue.end]
      BY <1>7 DEF Push
    <3>2. q = [p EXCEPT !.end = (p.end + size) % capability]
      BY DEF Pop
    <3> HIDE DEF b, p, q
    <3>3. q = [start |-> b, end |-> e]
      BY <3>1, <3>2
    <3> QED
      BY <1>5, <3>3
  <2>6. Rows' = new
    <3>1. Len(new) * d <= capability
      BY <1>1, <1>6
    <3>2. RowsAt(Written(array, at, d, new), at, d, Len(new)) = new
      BY <1>1, <1>2, <1>3, <3>1, NewRows
    <3> QED
      BY <1>5, <2>2, <3>2 DEF Rows
  <2>7. Level(cur_depth)' = Level(d)
    BY <1>5, <2>2 DEF Level
  <2>8. res_size' \in Nat \ {0}
    BY <1>4, <1>5, <2>1
  <2> QED
    BY <1>1, <1>2, <1>3, <1>5, <2>2, <2>4, <2>5, <2>6, <2>7, <2>8 DEF LevelHeld
<1> QED
  BY <1>5, <1>8, <1>9, <1>10

LEMMA GiveUpStep ==
  ASSUME LevelHeld, NEW d \in Nat \ {0}, GiveUp(d)
  PROVE  /\ \A i \in 0..res_size - 1 : Row(array', res, cur_depth, i) = Row(array, res, cur_depth, i)
         /\ LevelHeld'
         /\ UNCHANGED <<search, found>>
<1> DEFINE size == res_size * cur_depth
           at == TryMax(queue)
           g == GetFree(queue)
           n == MaxNew(d) * d
<1>1. g \in Nat /\ res_size \in Nat
  BY LevelFacts
<1>2. /\ array' = Scribbled(array, at, n)
      /\ UNCHANGED <<queue, res, res_size, cur_depth, search, found>>
  BY DEF GiveUp, ended
<1>3. n \in Nat /\ n <= g
  <2> HIDE DEF g
  <2>1. g \div d \in Nat /\ (g \div d) * d <= g
    BY <1>1, Divided
  <2>2. MaxNew(d) = g \div d
    BY DEF MaxNew, g
  <2> QED
    BY <2>1, <2>2
<1>4. Holds(queue, res, size)
  BY DEF LevelHeld
<1> HIDE DEF size, at, g, n
<1>5. ASSUME NEW c \in Cells, InRegion(c, res, size)
      PROVE  array'[c] = array[c]
  BY <1>2, <1>3, <1>4, <1>5, LevelBehindIsKept DEF g, at
<1>6. /\ \A i \in 0..res_size - 1 : Row(array', res, cur_depth, i) = Row(array, res, cur_depth, i)
      /\ RowsAt(array', res, cur_depth, res_size) = Rows
  BY <1>5, BehindKept DEF size
<1>7. Rows' = Rows /\ Level(cur_depth)' = Level(cur_depth)
  BY <1>2, <1>6 DEF Rows, Level
<1> QED
  BY <1>2, <1>6, <1>7 DEF LevelHeld

LEMMA LevelStays ==
  ASSUME LevelHeld, UNCHANGED <<search, level>>
  PROVE  LevelHeld' /\ Rows' = Rows
<1>1. UNCHANGED <<search, queue, array, res, res_size, cur_depth>>
  BY DEF level
<1>2. Rows' = Rows /\ Level(cur_depth)' = Level(cur_depth)
  BY <1>1 DEF Rows, Level
<1> QED
  BY <1>1, <1>2 DEF LevelHeld

-----------------------------------------------------------------------------
(* The split of the last step.                                             *)

(* A match extends exactly one row of the level. *)
LEMMA OneOwner ==
  ASSUME LevelHeld, NEW m \in Complete
  PROVE  /\ \E i \in 1..res_size : IsPrefix(Rows[i], m)
         /\ \A i, j \in 1..res_size : IsPrefix(Rows[i], m) /\ IsPrefix(Rows[j], m) => i = j
<1>1. /\ search \in Searches /\ cur_depth \in 2..QV_COUNT - 1 /\ QV_COUNT \in Nat
      /\ Rows \in [1..res_size -> Level(cur_depth)]
      /\ IsInjective(Rows) /\ Range(Rows) = Level(cur_depth)
  BY LevelFacts
<1>2. m \in search.rows /\ cur_depth \in 2..Len(m)
  <2>1. m \in search.rows /\ Len(m) = QV_COUNT
    BY DEF Complete, Level
  <2> QED
    BY <1>1, <2>1
<1>3. PICK p \in Level(cur_depth) : IsPrefix(p, m)
  BY <1>1, <1>2, PrefixInLevel
<1>4. PICK i \in DOMAIN Rows : Rows[i] = p
  BY <1>1, <1>3 DEF Range
<1>5. ASSUME NEW k \in 1..res_size, NEW j \in 1..res_size,
             IsPrefix(Rows[k], m), IsPrefix(Rows[j], m)
      PROVE  k = j
  <2>1. Rows[k] \in Level(cur_depth) /\ Rows[j] \in Level(cur_depth)
    BY <1>1
  <2>2. /\ Rows[k] \in search.rows /\ Rows[j] \in search.rows
        /\ Len(Rows[k]) = Len(Rows[j])
    BY <2>1 DEF Level
  <2>3. Rows[k] = Rows[j]
    BY <1>1, <1>2, <1>5, <2>2, OnePrefix
  <2>4. DOMAIN Rows = 1..res_size
    BY <1>1
  <2> QED
    BY <1>1, <2>3, <2>4 DEF IsInjective
<1> QED
  BY <1>1, <1>3, <1>4, <1>5

LEMMA MinOfTwo ==
  ASSUME NEW a \in Nat, NEW b \in Nat
  PROVE  Min({a, b}) = IF a <= b THEN a ELSE b
<1>1. \E x \in {a, b} : \A y \in {a, b} : x <= y
  OBVIOUS
<1>2. Min({a, b}) \in {a, b} /\ \A y \in {a, b} : Min({a, b}) <= y
  BY <1>1 DEF Min
<1> QED
  BY <1>2

(* The rows that the CPU reads from its copy are the first ones of the     *)
(* level, also when the level runs over the end of the array.              *)
LEMMA CPURowIs ==
  ASSUME LevelHeld, split \in 1..res_size - 1, frontier = Frontier(split), NEW i \in 1..split
  PROVE  [j \in 1..cur_depth |-> frontier[(i - 1) * cur_depth + j]] = Rows[i]
<1> DEFINE d == cur_depth
           need == split * d
           first == Min({need, capability - res})
<1>1. /\ d \in Nat \ {0} /\ res_size \in Nat /\ res \in Cells /\ capability \in Nat
      /\ res_size * d <= capability
      /\ \A k \in 1..res_size : Rows[k] = Row(array, res, d, k - 1)
  BY LevelFacts
<1>2. split \in Nat /\ split < res_size /\ i \in 1..res_size
  BY <1>1
<1>3. need \in Nat /\ need <= capability
  <2>1. split * d \in Nat /\ res_size * d \in Nat
    BY <1>1, <1>2
  <2>2. split * d <= res_size * d
    BY <1>1, <1>2, SMTT(30)
  <2> QED
    BY <1>1, <2>1, <2>2
<1>4. res \in Nat /\ res < capability
  BY <1>1 DEF Cells
<1> HIDE DEF need
<1>5. first = IF need <= capability - res THEN need ELSE capability - res
  BY <1>1, <1>3, <1>4, MinOfTwo
<1>6. frontier = [c \in 1..need |-> IF c <= first THEN array[res + c - 1] ELSE array[c - first - 1]]
  BY DEF Frontier, need
<1> HIDE DEF first
<1>7. ASSUME NEW j \in 1..d
      PROVE  frontier[(i - 1) * d + j] = array[CellAt(res, d, i, j)]
  <2> DEFINE e == (i - 1) * d
             y == e + (j - 1)
             c == e + j
             x == res + y
  <2>1. y \in Nat /\ y < need
    BY <1>1, <1>2, BlockIs DEF need
  <2>2. e \in Int /\ j \in Int
    BY <1>1
  <2>3. CellAt(res, d, i, j) = x % capability
    <3>1. (res + e) + (j - 1) = x
      <4> HIDE DEF e
      <4> QED
        BY <1>4, <2>2
    <3> QED
      BY <3>1 DEF CellAt
  <2> HIDE DEF e
  <2>4. c \in 1..need /\ c = y + 1
    BY <1>3, <2>1, <2>2
  <2>5. x \in Int /\ 0 <= x /\ x < 2 * capability
    <3> HIDE DEF y
    <3> QED
      BY <1>1, <1>3, <1>4, <2>1
  <2>6. x % capability = IF x < capability THEN x ELSE x - capability
    <3>1. capability \in Nat
      BY <1>1
    <3> HIDE DEF x
    <3> QED
      BY <2>5, <3>1, Wraps
  <2>7. frontier[c] = IF c <= first THEN array[res + c - 1] ELSE array[c - first - 1]
    BY <1>6, <2>4
  <2>8. CASE c <= first
    <3>1. res + c - 1 = x /\ x < capability
      BY <1>1, <1>3, <1>4, <1>5, <2>1, <2>2, <2>4, <2>8
    <3> QED
      BY <2>3, <2>6, <2>7, <2>8, <3>1 DEF e
  <2>9. CASE ~(c <= first)
    <3>1. first = capability - res
      BY <1>1, <1>3, <1>4, <1>5, <2>4, <2>9
    <3>2. c - first - 1 = x - capability /\ ~(x < capability)
      BY <1>1, <1>4, <2>1, <2>2, <2>4, <2>9, <3>1
    <3> QED
      BY <2>3, <2>6, <2>7, <2>9, <3>2 DEF e
  <2> QED
    BY <2>8, <2>9
<1>8. Rows[i] = [j \in 1..d |-> array[CellAt(res, d, i, j)]]
  <2>1. Rows[i] = Row(array, res, d, i - 1)
    BY <1>1, <1>2
  <2> QED
    BY <2>1 DEF Row, CellAt
<1>9. [j \in 1..d |-> frontier[(i - 1) * d + j]] = [j \in 1..d |-> array[CellAt(res, d, i, j)]]
  BY <1>7
<1> QED
  BY <1>8, <1>9

(* The GPU reads the others where they lie. *)
LEMMA GPURowIs ==
  ASSUME LevelHeld, split \in 1..res_size - 1, NEW i \in 1..res_size - split
  PROVE  /\ GPURows[i] = Rows[split + i]
         /\ split + i \in 1..res_size
<1> DEFINE d == cur_depth
<1>1. /\ d \in Nat \ {0} /\ res_size \in Nat /\ res \in Cells /\ capability \in Nat
      /\ \A k \in 1..res_size : Rows[k] = Row(array, res, d, k - 1)
  BY LevelFacts
<1>2. split \in Nat /\ i \in Nat /\ i > 0 /\ split + i \in 1..res_size /\ res \in Int
  BY <1>1 DEF Cells
<1>3. GPURows[i] = Row(array, res + split * d, d, i - 1)
  BY DEF GPURows, RowsAt
<1>4. (res + split * d) + (i - 1) * d = res + (split + i - 1) * d
  <2>1. split * d \in Int /\ (i - 1) * d \in Int /\ (split + i - 1) * d \in Int
    BY <1>1, <1>2
  <2>2. (split + i - 1) * d = split * d + (i - 1) * d
    BY <1>1, <1>2, SMTT(30)
  <2> DEFINE a == split * d
             b == (i - 1) * d
             c == (split + i - 1) * d
  <2> HIDE DEF a, b, c
  <2>3. a \in Int /\ b \in Int /\ c = a + b
    BY <2>1, <2>2 DEF a, b, c
  <2>4. (res + a) + b = res + c
    BY <1>2, <2>3
  <2> QED
    BY <2>4 DEF a, b, c
<1>5. Row(array, res + split * d, d, i - 1) = Row(array, res, d, split + i - 1)
  <2> DEFINE u == (res + split * d) + (i - 1) * d
             v == res + (split + i - 1) * d
  <2>1. u = v
    BY <1>4
  <2>2. Row(array, res + split * d, d, i - 1) = [j \in 1..d |-> array[(u + (j - 1)) % capability]]
    BY DEF Row
  <2>3. Row(array, res, d, split + i - 1) = [j \in 1..d |-> array[(v + (j - 1)) % capability]]
    BY DEF Row
  <2> HIDE DEF u, v
  <2> QED
    BY <2>1, <2>2, <2>3
<1>6. Rows[split + i] = Row(array, res, d, split + i - 1)
  BY <1>1, <1>2
<1> QED
  BY <1>2, <1>3, <1>5, <1>6

(* What each of the two counts: the matches of its rows, once. *)
LEMMA CPUCount ==
  ASSUME LevelHeld, split \in 1..res_size - 1, frontier = Frontier(split), DOMAIN found = Complete
  PROVE  Count([i \in 1..split |-> [j \in 1..cur_depth |-> frontier[(i - 1) * cur_depth + j]]]) =
           [m \in Complete |-> found[m] + IF OfCPU(m) THEN 1 ELSE 0]
<1> DEFINE R == [i \in 1..split |-> [j \in 1..cur_depth |-> frontier[(i - 1) * cur_depth + j]]]
<1>1. \A i \in 1..split : R[i] = Rows[i]
  BY CPURowIs
<1>2. DOMAIN R = 1..split /\ R = [i \in 1..split |-> R[i]]
  OBVIOUS
<1>3. /\ search \in Searches /\ res_size \in Nat
      /\ Rows \in [1..res_size -> Level(cur_depth)] /\ IsInjective(Rows)
  BY LevelFacts
<1>4. split \in Nat /\ \A i \in 1..split : i \in 1..res_size
  BY <1>3
<1> HIDE DEF R
<1>5. R \in [1..split -> Level(cur_depth)]
  BY <1>1, <1>2, <1>3, <1>4
<1>6. IsInjective(R)
  BY <1>1, <1>2, <1>3, <1>4 DEF IsInjective
<1>7. Count(R) = [m \in Complete |->
                    found[m] + IF \E i \in 1..split : IsPrefix(R[i], m) THEN 1 ELSE 0]
  BY <1>3, <1>4, <1>5, <1>6, CountIs
<1>8. \A m : (\E i \in 1..split : IsPrefix(R[i], m)) <=> OfCPU(m)
  BY <1>1 DEF OfCPU
<1> QED
  BY <1>7, <1>8 DEF R

LEMMA GPUCount ==
  ASSUME LevelHeld, split \in 1..res_size - 1, DOMAIN found = Complete
  PROVE  Count(GPURows) = [m \in Complete |-> found[m] + IF OfCPU(m) THEN 0 ELSE 1]
<1> DEFINE n == res_size - split
           R == GPURows
<1>1. \A i \in 1..n : R[i] = Rows[split + i] /\ split + i \in 1..res_size
  BY GPURowIs
<1>2. DOMAIN R = 1..n /\ R = [i \in 1..n |-> R[i]]
  BY DEF GPURows, RowsAt
<1>3. /\ search \in Searches /\ res_size \in Nat
      /\ Rows \in [1..res_size -> Level(cur_depth)] /\ IsInjective(Rows)
  BY LevelFacts
<1>4. split \in Nat /\ n \in Nat /\ split + n = res_size /\ split < res_size
  BY <1>3
<1> HIDE DEF R, n
<1>5. R \in [1..n -> Level(cur_depth)]
  BY <1>1, <1>2, <1>3
<1>6. IsInjective(R)
  <2> SUFFICES ASSUME NEW i \in 1..n, NEW j \in 1..n, R[i] = R[j] PROVE i = j
    BY <1>2 DEF IsInjective
  <2>1. split + i = split + j
    BY <1>1, <1>3 DEF IsInjective
  <2> QED
    BY <1>4, <2>1
<1>7. Count(R) = [m \in Complete |->
                    found[m] + IF \E i \in 1..n : IsPrefix(R[i], m) THEN 1 ELSE 0]
  BY <1>3, <1>4, <1>5, <1>6, CountIs
<1>8. ASSUME NEW m \in Complete
      PROVE  (\E i \in 1..n : IsPrefix(R[i], m)) <=> ~OfCPU(m)
  <2>1. PICK k \in 1..res_size : IsPrefix(Rows[k], m)
    BY OneOwner
  <2>2. \A i \in 1..res_size : IsPrefix(Rows[i], m) => i = k
    BY <2>1, OneOwner
  <2>3. CASE k <= split
    <3>1. k \in 1..split
      BY <1>3, <1>4, <2>3
    <3>2. \A i \in 1..n : split + i # k
      BY <1>3, <1>4, <2>3
    <3> QED
      BY <1>1, <2>1, <2>2, <3>1, <3>2 DEF OfCPU
  <2>4. CASE ~(k <= split)
    <3>1. k - split \in 1..n /\ split + (k - split) = k
      BY <1>3, <1>4, <2>4
    <3>2. \A i \in 1..split : i \in 1..res_size /\ i # k
      BY <1>3, <1>4, <2>4
    <3> QED
      BY <1>1, <2>1, <2>2, <3>1, <3>2 DEF OfCPU
  <2> QED
    BY <2>3, <2>4
<1> QED
  BY <1>7, <1>8 DEF R

-----------------------------------------------------------------------------
(* The invariant holds.                                                    *)

LEMMA LInit == Init => LInv
<1> SUFFICES ASSUME Init PROVE LInv
  OBVIOUS
<1>1. step = "done" /\ found = <<>>
  BY DEF Init
<1>2. DOMAIN found = {}
  BY <1>1
<1> QED
  BY <1>1, <1>2 DEF LInv, CountedOnce, Active

(* A step that leaves a level to the next one. *)
LEMMA GoesOn ==
  ASSUME step' \in {"small", "multi", "analysis", "final"}, LevelHeld',
         found' = [m \in Complete' |-> 0]
  PROVE  LInv'
BY DEF LInv, CountedOnce, Active

(* A step that finds that there is no match. *)
LEMMA EndsEmpty ==
  ASSUME step' = "done", DOMAIN found' = {}
  PROVE  LInv'
BY DEF LInv, CountedOnce, Active

LEMMA CompleteStays ==
  ASSUME UNCHANGED search
  PROVE  Complete' = Complete
BY DEF Complete, Level

LEMMA StoreInv ==
  ASSUME LInv, step \in {"small", "multi"}, NEW d \in cur_depth..QV_COUNT - 1, Store(d),
         NEW next \in {"small", "analysis"}, step' = IF res_size' = 0 THEN "done" ELSE next
  PROVE  LInv'
<1>1. LevelHeld /\ found = [m \in Complete |-> 0]
  BY DEF LInv, Active
<1>2. /\ res_size' # 0 => LevelHeld'
      /\ res_size' = 0 => Complete = {}
      /\ search' = search /\ found' = found
  BY <1>1, StoreStep
<1>3. Complete' = Complete
  BY <1>2, CompleteStays
<1>4. CASE res_size' = 0
  <2>1. DOMAIN found' = {}
    BY <1>1, <1>2, <1>4
  <2> QED
    BY <1>4, <2>1, EndsEmpty
<1>5. CASE res_size' # 0
  <2>1. found' = [m \in Complete' |-> 0]
    BY <1>1, <1>2, <1>3
  <2> QED
    BY <1>2, <1>5, <2>1, GoesOn
<1> QED
  BY <1>4, <1>5

LEMMA GiveUpInv ==
  ASSUME LInv, step \in {"small", "multi"}, NEW d \in Nat \ {0}, GiveUp(d),
         step' \in {"multi", "analysis"}
  PROVE  LInv'
<1>1. LevelHeld /\ found = [m \in Complete |-> 0]
  BY DEF LInv, Active
<1>2. LevelHeld' /\ search' = search /\ found' = found
  BY <1>1, GiveUpStep
<1>3. found' = [m \in Complete' |-> 0]
  BY <1>1, <1>2, CompleteStays
<1> QED
  BY <1>2, <1>3, GoesOn

LEMMA PassInv ==
  ASSUME LInv, step \in {"small", "multi", "analysis"}, UNCHANGED <<search, level, found>>,
         step' \in {"multi", "analysis", "final"}
  PROVE  LInv'
<1>1. LevelHeld /\ found = [m \in Complete |-> 0]
  BY DEF LInv, Active
<1>2. LevelHeld'
  BY <1>1, LevelStays
<1>3. found' = [m \in Complete' |-> 0]
  BY <1>1, CompleteStays
<1> QED
  BY <1>2, <1>3, GoesOn

LEMMA StutterInv ==
  ASSUME LInv, UNCHANGED <<search, step, level, found, split_vars>>
  PROVE  LInv'
<1>1. UNCHANGED <<search, step, queue, array, res, res_size, cur_depth, found, split, frontier, shares>>
  BY DEF level, split_vars
<1>2. Rows' = Rows /\ Complete' = Complete /\ Frontier(split)' = Frontier(split)
  BY <1>1 DEF Rows, Complete, Level, Frontier
<1>3. LevelHeld => LevelHeld'
  BY LevelStays
<1>4. \A m : OfCPU(m)' <=> OfCPU(m)
  BY <1>1, <1>2 DEF OfCPU
<1>5. SplitCounted => SplitCounted'
  BY <1>1, <1>2, <1>4 DEF SplitCounted
<1> QED
  BY <1>1, <1>2, <1>3, <1>5 DEF LInv, CountedOnce

LEMMA PrepareInv ==
  ASSUME Prepare
  PROVE  LInv'
<1>1. search' \in Searches /\ step' = "initial"
  BY DEF Prepare
<1>2. found' = [m \in Complete' |-> 0]
  BY DEF Prepare, Complete, Level
<1> QED
  BY <1>1, <1>2 DEF LInv, CountedOnce, Active

LEMMA Step1Inv ==
  ASSUME LInv, Step1
  PROVE  LInv'
<1> DEFINE rows == Listed(Level(2))
<1>1. search \in Searches /\ found = [m \in Complete |-> 0]
  BY DEF LInv, Step1, Active
<1>2. /\ array' = Written(array, TryMax(Reset), 2, rows)
      /\ queue' = Push(Reset, Len(rows) * 2)
      /\ res' = TryMax(Reset) /\ res_size' = Len(rows) /\ cur_depth' = 2
      /\ step' = IF rows = <<>> THEN "done" ELSE "small"
      /\ search' = search /\ found' = found
  BY DEF Step1, ended
<1>3. QV_COUNT \in Nat /\ QV_COUNT > 2
  BY <1>1, RowFacts
<1>4. IsFiniteSet(Level(2))
  <2>1. Level(2) \subseteq search.rows
    BY DEF Level
  <2> QED
    BY <1>1, <2>1, RowFacts, FS_Subset
<1>5. /\ rows \in Seq(Level(2)) /\ Len(rows) = Cardinality(Level(2))
      /\ Range(rows) = Level(2) /\ IsInjective(rows)
  BY <1>4, ListedOnce
<1>6. Len(rows) \in Nat /\ DOMAIN rows = 1..Len(rows)
  BY <1>5, LenProperties
<1>7. Len(rows) * 2 <= capability
  <2>1. 2 * Cardinality(Level(2)) <= capability
    BY <1>1, SearchAssumption DEF Level
  <2> QED
    BY <1>5, <1>6, <2>1
<1> HIDE DEF rows
<1>8. CASE rows = <<>>
  <2>1. Level(2) = {}
    <3>1. DOMAIN rows = {}
      BY <1>8
    <3> QED
      BY <1>5, <3>1 DEF Range
  <2>2. Complete = {}
    <3>1. 2 \in 2..QV_COUNT
      BY <1>3
    <3> QED
      BY <1>1, <2>1, <3>1, NothingExtends
  <2>3. DOMAIN found' = {}
    BY <1>1, <1>2, <2>2
  <2> QED
    BY <1>2, <1>8, <2>3, EndsEmpty
<1>9. CASE rows # <<>>
  <2>1. Len(rows) # 0
    BY <1>5, <1>9, EmptySeq
  <2> DEFINE size == Len(rows) * 2
  <2>2. size \in Nat /\ 0 < size /\ size <= capability
    BY <1>6, <1>7, <2>1
  <2> HIDE DEF size
  <2>3. Holds(Push(Reset, size), TryMax(Reset), size)
    BY <2>2, FirstLevelHeld
  <2>4. Holds(queue', res', res_size' * cur_depth')
    BY <1>2, <2>3 DEF size
  <2>5. queue' = [start |-> queue'.start, end |-> queue'.end]
    <3>1. Push(Reset, size) = [start |-> (0 + size) % capability, end |-> capability]
      BY DEF Push, Reset
    <3> QED
      BY <1>2, <3>1 DEF size
  <2>6. Rows' = rows
    <3>1. TryMax(Reset) \in Cells
      BY CapabilityAssumption DEF TryMax, Reset, Cells
    <3>2. RowsAt(Written(array, TryMax(Reset), 2, rows), TryMax(Reset), 2, Len(rows)) = rows
      BY <1>1, <1>5, <1>7, <3>1, NewRows
    <3> QED
      BY <1>2, <3>2 DEF Rows
  <2>7. Level(cur_depth)' = Level(2)
    BY <1>2 DEF Level
  <2>8. LevelHeld'
    BY <1>1, <1>2, <1>3, <1>5, <1>6, <2>1, <2>4, <2>5, <2>6, <2>7 DEF LevelHeld
  <2>9. found' = [m \in Complete' |-> 0]
    BY <1>1, <1>2, CompleteStays
  <2> QED
    BY <1>2, <1>9, <2>8, <2>9, GoesOn
<1> QED
  BY <1>8, <1>9

LEMMA Step2Inv ==
  ASSUME LInv, Step2
  PROVE  LInv'
<1>1. LevelHeld /\ step = "small"
  BY DEF Step2, LInv, Active
<1>2. cur_depth \in Nat \ {0} /\ cur_depth \in 2..QV_COUNT - 1 /\ QV_COUNT \in Nat
  BY <1>1, LevelFacts
<1>3. ASSUME Small, Store(cur_depth + 1), step' = IF res_size' = 0 THEN "done" ELSE "small"
      PROVE  LInv'
  <2>1. cur_depth + 1 \in cur_depth..QV_COUNT - 1
    BY <1>2, <1>3 DEF Small
  <2> QED
    BY <1>1, <1>3, <2>1, StoreInv
<1>4. ASSUME GiveUp(cur_depth + 1), step' = "multi"
      PROVE  LInv'
  <2>1. cur_depth + 1 \in Nat \ {0}
    BY <1>2
  <2> QED
    BY <1>1, <1>4, <2>1, GiveUpInv
<1>5. ASSUME step' = "multi", UNCHANGED <<loop, batch, search, level, oom, ended>>
      PROVE  LInv'
  BY <1>1, <1>5, PassInv DEF ended
<1> QED
  BY <1>3, <1>4, <1>5 DEF Step2

LEMMA FirstUpTo ==
  ASSUME LevelHeld, UpTo # {}
  PROVE  Min(UpTo) \in cur_depth..QV_COUNT - 1 /\ Min(UpTo) \in Nat \ {0}
<1>1. cur_depth \in Nat \ {0} /\ QV_COUNT \in Nat
  BY LevelFacts
<1>2. UpTo \subseteq cur_depth..QV_COUNT - 1
  BY DEF UpTo
<1>3. \A d \in cur_depth..QV_COUNT - 1 : d \in Nat \ {0}
  BY <1>1
<1>4. Min(UpTo) \in UpTo
  <2>1. UpTo \subseteq Nat
    BY <1>2, <1>3
  <2> QED
    BY <2>1, MinIn
<1> QED
  BY <1>2, <1>3, <1>4

LEMMA Step3Inv ==
  ASSUME LInv, Step3
  PROVE  LInv'
<1>1. LevelHeld /\ step = "multi"
  BY DEF Step3, LInv, Active
<1>2. ASSUME UpTo # {}
      PROVE  Min(UpTo) \in cur_depth..QV_COUNT - 1 /\ Min(UpTo) \in Nat \ {0}
  BY <1>1, <1>2, FirstUpTo
<1>3. ASSUME UpTo # {}, Store(Min(UpTo)), step' = IF res_size' = 0 THEN "done" ELSE "analysis"
      PROVE  LInv'
  BY <1>1, <1>2, <1>3, StoreInv
<1>4. ASSUME UpTo # {}, GiveUp(Min(UpTo)), step' = "analysis"
      PROVE  LInv'
  BY <1>1, <1>2, <1>4, GiveUpInv
<1>5. ASSUME step' = "analysis", UNCHANGED <<loop, batch, search, level, oom, ended>>
      PROVE  LInv'
  BY <1>1, <1>5, PassInv DEF ended
<1> QED
  BY <1>3, <1>4, <1>5 DEF Step3

LEMMA Step5Inv ==
  ASSUME LInv, Step5
  PROVE  LInv'
<1>1. LevelHeld /\ found = [m \in Complete |-> 0]
  BY DEF Step5, LInv, Active
<1>2. found' = Count(Rows) /\ step' = "done"
  BY DEF Step5
<1>3. /\ search \in Searches /\ res_size \in Nat
      /\ Rows \in [1..res_size -> Level(cur_depth)] /\ IsInjective(Rows)
  BY <1>1, LevelFacts
<1>4. DOMAIN found = Complete
  BY <1>1
<1>5. Count(Rows) = [m \in Complete |->
                       found[m] + IF \E i \in 1..res_size : IsPrefix(Rows[i], m) THEN 1 ELSE 0]
  BY <1>3, <1>4, CountIs
<1>6. \A m \in Complete : \E i \in 1..res_size : IsPrefix(Rows[i], m)
  BY <1>1, OneOwner
<1>7. \A m \in DOMAIN found' : found'[m] = 1
  BY <1>1, <1>2, <1>5, <1>6
<1> QED
  BY <1>2, <1>7 DEF LInv, CountedOnce, Active

LEMMA LaunchInv ==
  ASSUME LInv, Launch
  PROVE  LInv'
<1>1. LevelHeld /\ found = [m \in Complete |-> 0]
  BY DEF Launch, LInv, Active
<1>2. /\ step' = "split" /\ shares' = {"CPU", "GPU"}
      /\ split' \in 1..res_size - 1 /\ frontier' = Frontier(split')
      /\ UNCHANGED <<search, queue, array, res, res_size, cur_depth, found>>
  BY DEF Launch, level
<1>3. LevelHeld' /\ Rows' = Rows
  <2>1. UNCHANGED <<search, level>>
    BY DEF Launch
  <2> QED
    BY <1>1, <2>1, LevelStays
<1>4. Complete' = Complete
  BY <1>2, CompleteStays
<1>5. frontier' = Frontier(split)'
  BY <1>2 DEF Frontier
<1>6. found' = [m \in Complete' |-> IF (IF OfCPU(m)' THEN "CPU" ELSE "GPU") \in shares' THEN 0 ELSE 1]
  BY <1>1, <1>2, <1>4
<1>7. SplitCounted'
  BY <1>2, <1>5, <1>6 DEF SplitCounted
<1> QED
  BY <1>2, <1>3, <1>7 DEF LInv, CountedOnce, Active

(* What one of the two counts is what it had left. *)
LEMMA ShareInv ==
  ASSUME LInv, step = "split", UNCHANGED <<search, step, level, split, frontier>>,
         NEW p \in {"CPU", "GPU"}, p \in shares, shares' = shares \ {p},
         found' = [m \in Complete |->
                     found[m] + IF (IF OfCPU(m) THEN "CPU" ELSE "GPU") = p THEN 1 ELSE 0]
  PROVE  LInv'
<1>1. LevelHeld /\ SplitCounted
  BY DEF LInv, Active
<1>2. UNCHANGED <<queue, array, res, res_size, cur_depth>>
  BY DEF level
<1>3. LevelHeld' /\ Rows' = Rows
  BY <1>1, LevelStays
<1>4. Complete' = Complete
  BY CompleteStays
<1>5. Frontier(split)' = Frontier(split)
  BY <1>2 DEF Frontier
<1>6. \A m : OfCPU(m)' <=> OfCPU(m)
  BY <1>3 DEF OfCPU
<1> DEFINE owner(m) == IF OfCPU(m) THEN "CPU" ELSE "GPU"
<1>7. found = [m \in Complete |-> IF owner(m) \in shares THEN 0 ELSE 1]
  BY <1>1 DEF SplitCounted
<1>8. found' = [m \in Complete |-> IF owner(m) \in shares' THEN 0 ELSE 1]
  <2> HIDE DEF owner
  <2>1. found' = [m \in Complete |-> found[m] + IF owner(m) = p THEN 1 ELSE 0]
    BY DEF owner
  <2>2. \A m \in Complete : found[m] + (IF owner(m) = p THEN 1 ELSE 0) =
                              IF owner(m) \in shares' THEN 0 ELSE 1
    BY <1>7
  <2> QED
    BY <2>1, <2>2
<1>9. SplitCounted'
  BY <1>1, <1>2, <1>4, <1>5, <1>6, <1>8 DEF SplitCounted
<1> QED
  BY <1>3, <1>9 DEF LInv, CountedOnce, Active

LEMMA CPUShareInv ==
  ASSUME LInv, CPUShare
  PROVE  LInv'
<1>1. LevelHeld /\ SplitCounted /\ step = "split"
  BY DEF CPUShare, LInv, Active
<1>2. /\ split \in 1..res_size - 1 /\ frontier = Frontier(split) /\ DOMAIN found = Complete
  BY <1>1 DEF SplitCounted
<1>3. found' = [m \in Complete |-> found[m] + IF OfCPU(m) THEN 1 ELSE 0]
  BY <1>1, <1>2, CPUCount DEF CPUShare
<1>4. found' = [m \in Complete |->
                  found[m] + IF (IF OfCPU(m) THEN "CPU" ELSE "GPU") = "CPU" THEN 1 ELSE 0]
  BY <1>3
<1>5. UNCHANGED <<search, step, level, split, frontier>> /\ "CPU" \in shares /\ shares' = shares \ {"CPU"}
  BY DEF CPUShare
<1> QED
  BY <1>1, <1>4, <1>5, ShareInv

LEMMA GPUShareInv ==
  ASSUME LInv, GPUShare
  PROVE  LInv'
<1>1. LevelHeld /\ SplitCounted /\ step = "split"
  BY DEF GPUShare, LInv, Active
<1>2. split \in 1..res_size - 1 /\ DOMAIN found = Complete
  BY <1>1 DEF SplitCounted
<1>3. found' = [m \in Complete |-> found[m] + IF OfCPU(m) THEN 0 ELSE 1]
  BY <1>1, <1>2, GPUCount DEF GPUShare
<1>4. found' = [m \in Complete |->
                  found[m] + IF (IF OfCPU(m) THEN "CPU" ELSE "GPU") = "GPU" THEN 1 ELSE 0]
  BY <1>3
<1>5. UNCHANGED <<search, step, level, split, frontier>> /\ "GPU" \in shares /\ shares' = shares \ {"GPU"}
  BY DEF GPUShare
<1> QED
  BY <1>1, <1>4, <1>5, ShareInv

LEMMA JoinInv ==
  ASSUME LInv, Join
  PROVE  LInv'
<1>1. SplitCounted
  BY DEF Join, LInv
<1>2. shares = {} /\ found' = found /\ step' = "done"
  BY DEF Join
<1>3. \A m \in DOMAIN found' : found'[m] = 1
  BY <1>1, <1>2 DEF SplitCounted
<1> QED
  BY <1>2, <1>3 DEF LInv, CountedOnce, Active

LEMMA LStep == LInv /\ [Next]_vars => LInv'
<1> SUFFICES ASSUME LInv, [Next]_vars PROVE LInv'
  OBVIOUS
<1>1. CASE Prepare
  BY <1>1, PrepareInv
<1>2. CASE Step1
  BY <1>2, Step1Inv
<1>3. CASE Step2
  BY <1>3, Step2Inv
<1>4. CASE Step3
  BY <1>4, Step3Inv
<1>5. CASE Step4
  BY <1>5, PassInv DEF Step4
<1>6. CASE Step5
  BY <1>6, Step5Inv
<1>7. CASE Launch
  BY <1>7, LaunchInv
<1>8. CASE CPUShare
  BY <1>8, CPUShareInv
<1>9. CASE GPUShare
  BY <1>9, GPUShareInv
<1>10. CASE Join
  BY <1>10, JoinInv
<1>11. CASE CopyMasks
  BY <1>11, StutterInv DEF CopyMasks
<1>12. CASE UNCHANGED vars
  BY <1>12, StutterInv DEF vars, level, split_vars
<1> QED
  BY <1>1, <1>2, <1>3, <1>4, <1>5, <1>6, <1>7, <1>8, <1>9, <1>10, <1>11, <1>12
     DEF Next, Matching, MatchingBit, MatchingBitAll, Steps

(* LInv holds throughout: the level in the queue, the threshold of the     *)
(* split and the matches counted so far are tied to the search tree        *)
(* between any two steps of the loops.                                     *)
THEOREM SearchInvariant == Spec => []LInv
BY LInit, LStep, PTL DEF Spec

(* Between the steps the result queue holds exactly the partial matches of *)
(* the level at hand, each once, for every search tree, capacity of the    *)
(* queue and threshold: Matching, MatchingBit and MatchingBitAll write the *)
(* next level behind it, give a level up that does not fit and wrap around *)
(* the end of the array without losing a row.                              *)
THEOREM LevelStaysIntact == Spec => []LevelIntact
<1>1. LInv => LevelIntact
  BY DEF LInv, LevelHeld, LevelIntact, Active
<1> QED
  BY <1>1, SearchInvariant, PTL

(* No kernel of Steps 2 and 3 overwrites a row that it still reads,        *)
(* whether its new level fits or is given up half written.                 *)
THEOREM LevelNeverOverwritten == Spec => LevelKept
<1> DEFINE Kept == \A i \in 0..res_size - 1 :
                     Row(array', res, cur_depth, i) = Row(array, res, cur_depth, i)
<1>1. ASSUME LInv, [Next]_vars, step \in {"small", "multi"}
      PROVE  Kept
  <2>1. LevelHeld
    BY <1>1 DEF LInv, Active
  <2>2. cur_depth \in Nat \ {0} /\ cur_depth \in 2..QV_COUNT - 1 /\ QV_COUNT \in Nat
    BY <2>1, LevelFacts
  <2>3. CASE array' = array
    BY <2>3
  <2>4. CASE Step2
    <3>1. ASSUME Small, Store(cur_depth + 1)
          PROVE  Kept
      <4>1. cur_depth + 1 \in cur_depth..QV_COUNT - 1
        BY <2>2, <3>1 DEF Small
      <4> QED
        BY <2>1, <3>1, <4>1, StoreStep
    <3>2. ASSUME GiveUp(cur_depth + 1)
          PROVE  Kept
      <4>1. cur_depth + 1 \in Nat \ {0}
        BY <2>2
      <4> QED
        BY <2>1, <3>2, <4>1, GiveUpStep
    <3> HIDE DEF Kept
    <3> QED
      BY <2>3, <2>4, <3>1, <3>2 DEF Step2, level
  <2>5. CASE Step3
    <3>1. ASSUME UpTo # {}
          PROVE  Min(UpTo) \in cur_depth..QV_COUNT - 1 /\ Min(UpTo) \in Nat \ {0}
      BY <2>1, <3>1, FirstUpTo
    <3>2. ASSUME UpTo # {}, Store(Min(UpTo)) PROVE Kept
      BY <2>1, <3>1, <3>2, StoreStep
    <3>3. ASSUME UpTo # {}, GiveUp(Min(UpTo)) PROVE Kept
      BY <2>1, <3>1, <3>3, GiveUpStep
    <3> HIDE DEF Kept
    <3> QED
      BY <2>3, <2>5, <3>2, <3>3 DEF Step3, level
  <2>6. CASE CopyMasks \/ UNCHANGED vars
    BY <2>3, <2>6 DEF CopyMasks, level, vars
  <2>7. CASE Prepare \/ Step1 \/ Step4 \/ Step5 \/ Launch \/ CPUShare \/ GPUShare \/ Join
    BY <1>1, <2>7 DEF Prepare, Step1, Step4, Step5, Launch, CPUShare, GPUShare, Join
  <2> HIDE DEF Kept
  <2> QED
    BY <1>1, <2>4, <2>5, <2>6, <2>7 DEF Next, Matching, MatchingBit, MatchingBitAll, Steps
<1>2. LInv /\ [Next]_vars => [(step \in {"small", "multi"}) => Kept]_vars
  BY <1>1
<1> QED
  BY <1>2, SearchInvariant, PTL DEF Spec, LevelKept

(* Whichever way a search ends (no row left, counted at the GPU, products, *)
(* shared with the CPU from any row on), num_matches counts each of its    *)
(* matches once.                                                           *)
THEOREM EveryMatchCountedOnce == Spec => []CountedOnce
<1>1. LInv => CountedOnce
  BY DEF LInv
<1> QED
  BY <1>1, SearchInvariant, PTL
=============================================================================
