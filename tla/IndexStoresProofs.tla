------------------------- MODULE IndexStoresProofs --------------------------
(***************************************************************************)
(* The mirror on the host holds the rows of the index whenever the CPU     *)
(* searches: proofs about IndexStores, for every number of scripts,        *)
(* batches, vertices and rows, and whenever the vector of a direction is   *)
(* compacted.                                                              *)
(*                                                                         *)
(* Each operation of the mirror is a fold over the vertices it touches.    *)
(* FoldExists gives the values that a fold goes through, one per vertex,   *)
(* and what the last one holds is shown by induction on their number: a    *)
(* list that has been worked on is the one wanted, and one that has not is *)
(* what it was, although lists before it have been appended (Appended) or  *)
(* the vector made anew (CompactedFacts).  The lists are sorted, so the    *)
(* set of what a list holds decides it.                                    *)
(*                                                                         *)
(* The main thread changes what the device holds before it changes the     *)
(* mirror.  The invariant MirrorInv says what the mirror held last and     *)
(* which rows of the batch are on their way, and that no vertex is new     *)
(* after the insertions.                                                   *)
(***************************************************************************)
EXTENDS IndexStores, InductionLemmas

-----------------------------------------------------------------------------
(* The list of a set: each element once. *)
Enumerates(ts, S, V) ==
  /\ ts \in Seq(V) /\ ts \in Seq(Nat) /\ Len(ts) \in Nat /\ DOMAIN ts = 1..Len(ts)
  /\ \A i \in 1..Len(ts) : ts[i] \in V
  /\ \A i, j \in 1..Len(ts) : ts[i] = ts[j] => i = j
  /\ \A u : u \in S <=> \E i \in 1..Len(ts) : ts[i] = u

LEMMA AscendingList ==
  ASSUME NEW V, V \subseteq Nat, NEW S, S \subseteq V, IsFiniteSet(S)
  PROVE  Enumerates(AscendingSeq(S), S, V)
<1> DEFINE ts == AscendingSeq(S)
<1>1. ts \in Seq(S) /\ Range(ts) = S /\ Sorted(ts)
  BY Ascending
<1> HIDE DEF ts
<1>2. ts \in Seq(V) /\ ts \in Seq(Nat)
  BY <1>1, SeqMonotonic
<1>3. Len(ts) \in Nat /\ DOMAIN ts = 1..Len(ts)
  BY <1>1, LenProperties
<1>4. \A i \in 1..Len(ts) : ts[i] \in V
  BY <1>2, ElementOfSeq
<1>5. \A u : u \in S <=> \E i \in 1..Len(ts) : ts[i] = u
  BY <1>1, <1>3 DEF Range
<1>6. \A i, j \in 1..Len(ts) : ts[i] = ts[j] => i = j
  <2>1. \A i, j \in 1..Len(ts) : i < j => ts[i] < ts[j]
    BY <1>1, <1>3 DEF Sorted
  <2>2. \A i \in 1..Len(ts) : ts[i] \in Nat
    BY <1>4
  <2>3. \A i, j \in 1..Len(ts) : i < j \/ j < i \/ i = j
    BY <1>3
  <2>4. \A x, y \in Nat : x < y => x # y /\ y # x
    OBVIOUS
  <2> QED
    BY <2>1, <2>2, <2>3, <2>4
<1> QED
  BY <1>2, <1>3, <1>4, <1>5, <1>6 DEF ts, Enumerates

LEMMA AscendingNone == AscendingSeq({}) = <<>>
<1>1. AscendingSeq({}) \in Seq({}) /\ Len(AscendingSeq({})) = 0
  BY Ascending, FS_EmptySet
<1> QED
  BY <1>1, EmptySeq

-----------------------------------------------------------------------------
(* The mirror of one direction. *)
Records(V) == [ptr : [V -> Nat], len : [V -> Nat], data : Seq(Nat), live : Int]

Fits(m, u) == m.len[u] = 0 \/ m.ptr[u] + m.len[u] <= Len(m.data)

Mains(V) == {m \in Records(V) : \A u \in V : Fits(m, u)}

LEMMA RecordFields ==
  ASSUME NEW V, NEW m \in Records(V)
  PROVE  /\ m = [ptr |-> m.ptr, len |-> m.len, data |-> m.data, live |-> m.live]
         /\ m.ptr \in [V -> Nat] /\ m.len \in [V -> Nat]
         /\ m.data \in Seq(Nat) /\ m.live \in Int
         /\ Len(m.data) \in Nat /\ DOMAIN m.data = 1..Len(m.data)
         /\ \A u \in V : m.ptr[u] \in Nat /\ m.len[u] \in Nat
<1>1. /\ m = [ptr |-> m.ptr, len |-> m.len, data |-> m.data, live |-> m.live]
      /\ m.ptr \in [V -> Nat] /\ m.len \in [V -> Nat]
      /\ m.data \in Seq(Nat) /\ m.live \in Int
  BY DEF Records
<1>2. Len(m.data) \in Nat /\ DOMAIN m.data = 1..Len(m.data)
  BY <1>1, LenProperties
<1> QED
  BY <1>1, <1>2

LEMMA FunctionAsSeq ==
  ASSUME NEW X, NEW n \in Nat, NEW f, f \in [1..n -> X]
  PROVE  f \in Seq(X) /\ Len(f) = n
OBVIOUS

LEMMA MainLists ==
  ASSUME NEW V, NEW m \in Records(V), NEW u \in V, Fits(m, u)
  PROVE  /\ MainList(m, u) \in Seq(Nat) /\ Len(MainList(m, u)) = m.len[u]
         /\ \A i \in 1..m.len[u] : m.ptr[u] + i \in DOMAIN m.data
                                  /\ MainList(m, u)[i] = m.data[m.ptr[u] + i]
<1>1. /\ m.data \in Seq(Nat) /\ DOMAIN m.data = 1..Len(m.data)
      /\ Len(m.data) \in Nat /\ m.ptr[u] \in Nat /\ m.len[u] \in Nat
  BY RecordFields
<1> DEFINE p == m.ptr[u]
           l == m.len[u]
           d == m.data
           n == Len(m.data)
<1>2. d \in [1..n -> Nat]
  BY <1>1, ElementOfSeq
<1>3. p \in Nat /\ l \in Nat /\ n \in Nat /\ (l = 0 \/ p + l <= n) /\ DOMAIN d = 1..n
  BY <1>1 DEF Fits
<1>4. MainList(m, u) = [i \in 1..l |-> IF p + i \in DOMAIN d THEN d[p + i] ELSE Null]
  BY DEF MainList
<1> HIDE DEF p, l, d, n
<1>5. \A i \in 1..l : p + i \in 1..n
  BY <1>3
<1>6. MainList(m, u) = [i \in 1..l |-> d[p + i]]
  BY <1>3, <1>4, <1>5
<1>7. MainList(m, u) \in [1..l -> Nat]
  BY <1>2, <1>5, <1>6
<1>8. MainList(m, u) \in Seq(Nat) /\ Len(MainList(m, u)) = l
  BY <1>3, <1>7, FunctionAsSeq
<1>9. \A i \in 1..l : p + i \in DOMAIN d /\ MainList(m, u)[i] = d[p + i]
  BY <1>3, <1>5, <1>6
<1> QED
  BY <1>8, <1>9 DEF p, l, d, n

(* r is m with the list tmp for u. *)
HasList(r, m, V, u, tmp) ==
  /\ r \in Records(V) /\ Fits(r, u) /\ MainList(r, u) = tmp
  /\ \A w \in V : w # u /\ Fits(m, w) => Fits(r, w) /\ MainList(r, w) = MainList(m, w)

(* A list that is appended changes no other that fits. *)
LEMMA Appended ==
  ASSUME NEW V, NEW m \in Records(V), NEW u \in V, NEW tmp \in Seq(Nat)
  PROVE  /\ HasList(AppendList(m, u, tmp), m, V, u, tmp)
         /\ AppendList(m, u, tmp).len = [m.len EXCEPT ![u] = Len(tmp)]
<1> DEFINE r == AppendList(m, u, tmp)
           n == Len(m.data)
           k == Len(tmp)
<1>1. /\ m = [ptr |-> m.ptr, len |-> m.len, data |-> m.data, live |-> m.live]
      /\ m.ptr \in [V -> Nat] /\ m.len \in [V -> Nat]
      /\ m.data \in Seq(Nat) /\ m.live \in Int
      /\ n \in Nat /\ DOMAIN m.data = 1..n
      /\ \A w \in V : m.ptr[w] \in Nat /\ m.len[w] \in Nat
  BY RecordFields
<1>2. k \in Nat /\ DOMAIN tmp = 1..k
  BY LenProperties
<1>3. r = [ptr |-> [m.ptr EXCEPT ![u] = n], len |-> [m.len EXCEPT ![u] = k],
           data |-> m.data \o tmp, live |-> m.live]
  BY DEF AppendList
<1>4. /\ r.ptr = [m.ptr EXCEPT ![u] = n] /\ r.len = [m.len EXCEPT ![u] = k]
      /\ r.data = m.data \o tmp /\ r.live = m.live
  BY <1>3
<1> HIDE DEF r
<1>5. /\ r.data \in Seq(Nat) /\ Len(r.data) = n + k
      /\ \A i \in 1..n + k : r.data[i] = IF i <= n THEN m.data[i] ELSE tmp[i - n]
  BY <1>1, <1>2, <1>4, ConcatProperties
<1>6. r.ptr \in [V -> Nat] /\ r.len \in [V -> Nat]
  BY <1>1, <1>2, <1>4
<1>7. r \in Records(V)
  BY <1>1, <1>3, <1>4, <1>5, <1>6 DEF Records
<1>8. r.ptr[u] = n /\ r.len[u] = k
  BY <1>1, <1>4
<1>9. Fits(r, u)
  BY <1>1, <1>2, <1>5, <1>8 DEF Fits
<1>10. MainList(r, u) = tmp
  <2>1. /\ MainList(r, u) \in Seq(Nat) /\ Len(MainList(r, u)) = k
        /\ \A i \in 1..k : MainList(r, u)[i] = r.data[n + i]
    BY <1>7, <1>8, <1>9, MainLists
  <2>2. \A i \in 1..k : n + i \in 1..n + k /\ ~(n + i <= n) /\ (n + i) - n = i
    BY <1>1, <1>2
  <2>3. \A i \in 1..k : MainList(r, u)[i] = tmp[i]
    BY <1>5, <2>1, <2>2
  <2> QED
    BY <2>1, <2>3, SeqEqual
<1>11. ASSUME NEW w \in V, w # u, Fits(m, w)
       PROVE  Fits(r, w) /\ MainList(r, w) = MainList(m, w)
  <2>1. r.ptr[w] = m.ptr[w] /\ r.len[w] = m.len[w]
    BY <1>1, <1>4, <1>11
  <2>2. Fits(r, w)
    BY <1>1, <1>2, <1>5, <1>11, <2>1 DEF Fits
  <2>3. /\ MainList(m, w) \in Seq(Nat) /\ Len(MainList(m, w)) = m.len[w]
        /\ \A i \in 1..m.len[w] : m.ptr[w] + i \in 1..n
                                 /\ MainList(m, w)[i] = m.data[m.ptr[w] + i]
    <3>1. /\ MainList(m, w) \in Seq(Nat) /\ Len(MainList(m, w)) = m.len[w]
          /\ \A i \in 1..m.len[w] : m.ptr[w] + i \in DOMAIN m.data
                                   /\ MainList(m, w)[i] = m.data[m.ptr[w] + i]
      BY <1>11, MainLists
    <3>2. DOMAIN m.data = 1..n
      BY <1>1
    <3> HIDE DEF n, k
    <3> QED
      BY <3>1, <3>2
  <2>4. /\ MainList(r, w) \in Seq(Nat) /\ Len(MainList(r, w)) = m.len[w]
        /\ \A i \in 1..m.len[w] : MainList(r, w)[i] = r.data[m.ptr[w] + i]
    BY <1>7, <2>1, <2>2, MainLists
  <2>5. \A i \in 1..n : i \in 1..n + k /\ i <= n
    BY <1>1, <1>2
  <2>6. \A i \in 1..m.len[w] : MainList(r, w)[i] = MainList(m, w)[i]
    BY <1>5, <2>3, <2>4, <2>5
  <2> QED
    BY <2>2, <2>3, <2>4, <2>6, SeqEqual
<1> QED
  BY <1>4, <1>7, <1>9, <1>10, <1>11 DEF r, HasList

(* The rows have vertices of V. *)
RowsWithin(S, V) == S \subseteq Indexes \X V \X V

LEMMA DeltaFacts ==
  ASSUME NEW V, V \subseteq Nat, IsFiniteSet(V), NEW S, RowsWithin(S, V), NEW idx
  PROVE  /\ Touched(S, idx) \subseteq V /\ IsFiniteSet(Touched(S, idx))
         /\ \A u : Delta(S, idx, u) \subseteq V /\ IsFiniteSet(Delta(S, idx, u))
         /\ \A u : u \notin Touched(S, idx) => Delta(S, idx, u) = {}
<1>0. \A r \in S : r[2] \in V /\ r[3] \in V
  BY DEF RowsWithin
<1>1. Touched(S, idx) \subseteq V /\ \A u : Delta(S, idx, u) \subseteq V
  BY <1>0 DEF Touched, Delta, RowsOfIdx
<1>2. \A u : u \notin Touched(S, idx) => Delta(S, idx, u) = {}
  BY DEF Touched, Delta, RowsOfIdx
<1> QED
  BY <1>1, <1>2, FS_Subset

(* r is m with the list l for u. *)
Changed(r, m, V, u, l) ==
  /\ r \in Mains(V) /\ MainList(r, u) = l
  /\ \A w \in V : w # u => MainList(r, w) = MainList(m, w)

(* What a list of m becomes. *)
Combined(A, B, is_insert) == IF is_insert THEN A \cup B ELSE A \ B

NowHolds(m, S, idx, is_insert, u) == Combined(Range(MainList(m, u)), Delta(S, idx, u), is_insert)

(* The merge of one list. *)
LEMMA MergedListFacts ==
  ASSUME NEW V, V \subseteq Nat, IsFiniteSet(V), NEW S, RowsWithin(S, V), NEW idx,
         NEW is_insert \in BOOLEAN, NEW m \in Mains(V), NEW u \in V
  PROVE  Changed(MergedList(m, S, idx, is_insert, u), m, V, u,
                 AscendingSeq(NowHolds(m, S, idx, is_insert, u)))
<1> DEFINE ex  == Range(MainList(m, u))
           now == IF is_insert THEN ex \cup Delta(S, idx, u) ELSE ex \ Delta(S, idx, u)
           tmp == AscendingSeq(now)
           a   == AppendList(m, u, tmp)
           r   == MergedList(m, S, idx, is_insert, u)
<1>1. m \in Records(V) /\ \A w \in V : Fits(m, w)
  BY DEF Mains
<1>2. MainList(m, u) \in Seq(Nat)
  BY <1>1, MainLists
<1>3. ex \subseteq Nat /\ IsFiniteSet(ex)
  <2> DEFINE l == MainList(m, u)
  <2>1. l \in [1..Len(l) -> Nat] /\ DOMAIN l = 1..Len(l) /\ Len(l) \in Nat
    BY <1>2, LenProperties, ElementOfSeq
  <2>2. Range(l) = {l[i] : i \in 1..Len(l)}
    BY <2>1 DEF Range
  <2>3. IsFiniteSet(1..Len(l))
    BY <2>1, FS_Interval
  <2> HIDE DEF l
  <2>4. IsFiniteSet({l[i] : i \in 1..Len(l)})
    BY <2>3, FiniteImage
  <2>5. Range(l) \subseteq Nat
    BY <2>1, <2>2
  <2> QED
    BY <2>2, <2>4, <2>5 DEF l
<1>4. Delta(S, idx, u) \subseteq Nat /\ IsFiniteSet(Delta(S, idx, u))
  BY DeltaFacts
<1> HIDE DEF ex
<1>5. now \subseteq Nat /\ IsFiniteSet(now)
  <2>1. IsFiniteSet(ex \cup Delta(S, idx, u))
    BY <1>3, <1>4, FS_Union
  <2> QED
    BY <1>3, <1>4, <2>1, FS_Subset
<1> HIDE DEF now
<1>6. tmp \in Seq(Nat) /\ Len(tmp) \in Nat
  <2>1. tmp \in Seq(now)
    BY <1>5, Ascending
  <2> QED
    BY <1>5, <2>1, SeqMonotonic, LenProperties
<1>7. r = [a EXCEPT !.live = @ + Len(tmp) - m.len[u]]
  BY DEF MergedList, now, ex
<1> HIDE DEF tmp, r
<1>8. /\ a \in Records(V) /\ Fits(a, u) /\ MainList(a, u) = tmp
      /\ \A w \in V : w # u => Fits(a, w) /\ MainList(a, w) = MainList(m, w)
  <2>1. HasList(a, m, V, u, tmp)
    BY <1>1, <1>6, Appended
  <2> HIDE DEF a
  <2> QED
    BY <1>1, <2>1 DEF HasList
<1> HIDE DEF a
<1>9. /\ a = [ptr |-> a.ptr, len |-> a.len, data |-> a.data, live |-> a.live]
      /\ a.ptr \in [V -> Nat] /\ a.len \in [V -> Nat]
      /\ a.data \in Seq(Nat) /\ a.live \in Int
  BY <1>8, RecordFields
<1>10. m.len[u] \in Nat
  BY <1>1, RecordFields
<1> DEFINE live == a.live + Len(tmp) - m.len[u]
<1>11. r = [ptr |-> a.ptr, len |-> a.len, data |-> a.data, live |-> live] /\ live \in Int
  <2>1. live \in Int
    BY <1>6, <1>9, <1>10
  <2>2. PICK p, l, d, v : a = [ptr |-> p, len |-> l, data |-> d, live |-> v]
    BY <1>9
  <2>3. r = [ptr |-> p, len |-> l, data |-> d, live |-> live]
    <3>1. a.live = v
      BY <2>2
    <3> QED
      BY <1>7, <2>2, <3>1
  <2>4. a.ptr = p /\ a.len = l /\ a.data = d
    BY <2>2
  <2> QED
    BY <2>1, <2>3, <2>4
<1> HIDE DEF live
<1>12. r \in Records(V)
  BY <1>9, <1>11 DEF Records
<1>13. r.ptr = a.ptr /\ r.len = a.len /\ r.data = a.data
  BY <1>11
<1>14. \A w : (Fits(r, w) <=> Fits(a, w)) /\ MainList(r, w) = MainList(a, w)
  BY <1>13 DEF Fits, MainList
<1>15. r \in Mains(V)
  BY <1>8, <1>12, <1>14 DEF Mains
<1> QED
  BY <1>8, <1>14, <1>15 DEF tmp, now, ex, r, Changed, NowHolds, Combined

(* The values of the fold that merges. *)
MergeValues(h, m, S, idx, is_insert) ==
  LET ts == AscendingSeq(Touched(S, idx))
  IN  /\ h[0] = m
      /\ \A k \in 1..Len(ts) : h[k] = MergedList(h[k - 1], S, idx, is_insert, ts[k])
      /\ Merged(m, S, idx, is_insert) = h[Len(ts)]

LEMMA MergeFold ==
  ASSUME NEW V, V \subseteq Nat, IsFiniteSet(V), NEW S, RowsWithin(S, V), NEW idx,
         NEW is_insert \in BOOLEAN, NEW m \in Mains(V)
  PROVE  \E h : MergeValues(h, m, S, idx, is_insert)
<1> DEFINE ts == AscendingSeq(Touched(S, idx))
           n == Len(ts)
           X == Mains(V)
           base == m
           Body(g, s) == IF s = {} THEN base
                         ELSE MergedList(g[s \ {Max(s)}], S, idx, is_insert, ts[Max(s)])
           Step == [z \in X \X (1..n) |-> MergedList(z[1], S, idx, is_insert, ts[z[2]])]
           iter[s \in SUBSET DOMAIN ts] ==
             IF s = {} THEN m
             ELSE LET x == Max(s) IN MergedList(iter[s \ {x}], S, idx, is_insert, ts[x])
<1>1. ts \in Seq(V) /\ n \in Nat /\ DOMAIN ts = 1..n
  <2>1. Enumerates(ts, Touched(S, idx), V)
    BY DeltaFacts, AscendingList
  <2> QED
    BY <2>1 DEF Enumerates
<1>2. Merged(m, S, idx, is_insert) = iter[DOMAIN ts]
  BY DEF Merged, FoldLeft, MapThenFoldSet
<1>3. iter = CHOOSE g : g = [s \in SUBSET DOMAIN ts |-> Body(g, s)]
  BY DEF iter
<1> HIDE DEF iter, ts
<1>4. \A i \in 1..n : ts[i] \in V
  BY <1>1, ElementOfSeq
<1> HIDE DEF n
<1>5. Step \in [X \X (1..n) -> X]
  <2>1. \A c \in X, i \in 1..n : MergedList(c, S, idx, is_insert, ts[i]) \in X
    BY <1>4, MergedListFacts DEF Changed
  <2> QED
    BY <2>1
<1>6. \A c \in X, i \in 1..n : Step[<<c, i>>] = MergedList(c, S, idx, is_insert, ts[i])
  OBVIOUS
<1>7. base \in X
  BY DEF X, base
<1> HIDE DEF Step, X, base
<1>8. PICK g \in [SUBSET (1..n) -> X] : FoldsFrom(g, n, base, Step)
  BY <1>1, <1>5, <1>7, FoldValues
<1>9. \A s \in SUBSET (1..n) : s # {} => Max(s) \in 1..n /\ s \ {Max(s)} \in SUBSET (1..n)
  BY <1>1, MaxNumber
<1>10. \A s \in SUBSET (1..n) : g[s] = Body(g, s)
  BY <1>6, <1>8, <1>9 DEF FoldsFrom
<1>11. g = [s \in SUBSET (1..n) |-> Body(g, s)]
  <2> HIDE DEF Body
  <2> QED
    BY <1>10
<1>12. iter = [s \in SUBSET (1..n) |-> Body(iter, s)]
  <2> HIDE DEF Body
  <2> QED
    BY <1>1, <1>3, <1>11
<1> DEFINE h == [k \in 0..n |-> iter[1..k]]
<1>13. h[0] = base /\ \A k \in 1..n : h[k] = MergedList(h[k - 1], S, idx, is_insert, ts[k])
  <2>1. \A s \in SUBSET (1..n) : iter[s] = Body(iter, s)
    <3> HIDE DEF Body
    <3> QED
      BY <1>12
  <2>2. 1..0 = {} /\ 1..0 \in SUBSET (1..n) /\ 0 \in 0..n
    BY <1>1
  <2>3. ASSUME NEW k \in 1..n PROVE h[k] = MergedList(h[k - 1], S, idx, is_insert, ts[k])
    <3>1. k \in 0..n /\ k - 1 \in 0..n
      BY <1>1
    <3>2. Max(1..k) = k /\ (1..k) \ {k} = 1..k - 1 /\ 1..k \in SUBSET (1..n) /\ 1..k # {}
      BY <1>1, MaxOfFirst
    <3>3. iter[1..k] = MergedList(iter[1..k - 1], S, idx, is_insert, ts[k])
      BY <2>1, <3>2
    <3> QED
      BY <3>1, <3>3
  <2> QED
    BY <2>1, <2>2, <2>3
<1>14. n \in 0..n /\ h[n] = iter[DOMAIN ts]
  BY <1>1
<1> HIDE DEF h
<1> QED
  BY <1>2, <1>13, <1>14 DEF ts, n, base, MergeValues

(* r is m after a merge. *)
AfterMerge(r, m, V, S, idx, is_insert) ==
  /\ r \in Mains(V)
  /\ \A u \in V : MainList(r, u) =
       IF u \in Touched(S, idx) THEN AscendingSeq(NowHolds(m, S, idx, is_insert, u))
       ELSE MainList(m, u)

(* The merge of the lists that are touched. *)
LEMMA MergedFacts ==
  ASSUME NEW V, V \subseteq Nat, IsFiniteSet(V), NEW S, RowsWithin(S, V), NEW idx,
         NEW is_insert \in BOOLEAN, NEW m \in Mains(V)
  PROVE  AfterMerge(Merged(m, S, idx, is_insert), m, V, S, idx, is_insert)
<1> DEFINE now(u) == NowHolds(m, S, idx, is_insert, u)
           ts == AscendingSeq(Touched(S, idx))
           n == Len(ts)
<1>0. PICK h : MergeValues(h, m, S, idx, is_insert)
  BY MergeFold
<1>1. /\ h[0] = m
      /\ \A k \in 1..n : h[k] = MergedList(h[k - 1], S, idx, is_insert, ts[k])
      /\ Merged(m, S, idx, is_insert) = h[n]
  BY <1>0 DEF MergeValues
<1>2. /\ n \in Nat /\ \A i \in 1..n : ts[i] \in V
      /\ \A i, j \in 1..n : ts[i] = ts[j] => i = j
      /\ \A u : u \in Touched(S, idx) <=> \E i \in 1..n : ts[i] = u
  <2>1. Enumerates(ts, Touched(S, idx), V)
    BY DeltaFacts, AscendingList
  <2> QED
    BY <2>1 DEF Enumerates
<1> HIDE DEF ts, n
<1> DEFINE Done(k, u) == \E i \in 1..k : ts[i] = u
           P(k) == /\ h[k] \in Mains(V)
                   /\ \A u \in V : MainList(h[k], u) =
                                   IF Done(k, u) THEN AscendingSeq(now(u)) ELSE MainList(m, u)
           G == {k \in 0..n : P(k)}
<1>3. 0 \in G
  <2>1. \A u : ~Done(0, u)
    OBVIOUS
  <2>2. 0 \in 0..n
    BY <1>2
  <2> HIDE DEF Done, now
  <2> QED
    BY <1>1, <2>1, <2>2
<1>4. ASSUME NEW k \in 1..n, k - 1 \in G PROVE k \in G
  <2> DEFINE c == h[k - 1]
             t == ts[k]
  <2>1. P(k - 1)
    BY <1>4
  <2>2. h[k] = MergedList(c, S, idx, is_insert, t) /\ t \in V /\ k \in 0..n
    BY <1>1, <1>2
  <2>3. ~Done(k - 1, t)
    <3>1. \A i \in 1..k - 1 : i \in 1..n /\ i # k
      BY <1>2
    <3> QED
      BY <1>2, <3>1
  <2>4. \A u : Done(k, u) <=> Done(k - 1, u) \/ u = t
    <3>1. \A i : i \in 1..k <=> i \in 1..k - 1 \/ i = k
      BY <1>2
    <3> QED
      BY <3>1
  <2> HIDE DEF Done
  <2>5. c \in Mains(V) /\ MainList(c, t) = MainList(m, t)
    BY <2>1, <2>2, <2>3
  <2>6. NowHolds(c, S, idx, is_insert, t) = now(t)
    BY <2>5 DEF NowHolds
  <2> HIDE DEF now
  <2>7. \A u \in V : MainList(c, u) = IF Done(k - 1, u) THEN AscendingSeq(now(u)) ELSE MainList(m, u)
    BY <2>1
  <2> HIDE DEF c, t
  <2>8. Changed(h[k], c, V, t, AscendingSeq(NowHolds(c, S, idx, is_insert, t)))
    BY <2>2, <2>5, MergedListFacts
  <2>9. /\ h[k] \in Mains(V)
        /\ MainList(h[k], t) = AscendingSeq(now(t))
        /\ \A w \in V : w # t => MainList(h[k], w) = MainList(c, w)
    BY <2>6, <2>8 DEF Changed
  <2>10. \A u \in V : MainList(h[k], u) =
                      IF Done(k, u) THEN AscendingSeq(now(u)) ELSE MainList(m, u)
    BY <2>3, <2>4, <2>7, <2>9
  <2> QED
    BY <2>2, <2>9, <2>10
<1>5. P(n)
  <2> HIDE DEF P
  <2>1. \A k \in 0..n : k \in G
    <3> HIDE DEF G
    <3> QED
      BY <1>2, <1>3, <1>4, CountUp
  <2>2. n \in 0..n
    BY <1>2
  <2> QED
    BY <2>1, <2>2
<1> HIDE DEF now
<1>6. \A u \in V : Done(n, u) <=> u \in Touched(S, idx)
  BY <1>2
<1> HIDE DEF Done
<1> QED
  BY <1>1, <1>5, <1>6 DEF now, AfterMerge

Emptied(m) == [m EXCEPT !.data = <<>>]

(* Compacting starts from an empty vector. *)
LEMMA EmptiedFacts ==
  ASSUME NEW V, NEW m \in Records(V)
  PROVE  Emptied(m) \in Records(V) /\ Emptied(m).len = m.len
<1>1. /\ m = [ptr |-> m.ptr, len |-> m.len, data |-> m.data, live |-> m.live]
      /\ m.ptr \in [V -> Nat] /\ m.len \in [V -> Nat] /\ m.live \in Int
  BY RecordFields
<1>2. PICK p, l, d, v : m = [ptr |-> p, len |-> l, data |-> d, live |-> v]
  BY <1>1
<1>3. m.ptr = p /\ m.len = l /\ m.live = v
  BY <1>2
<1>4. Emptied(m) = [ptr |-> p, len |-> l, data |-> <<>>, live |-> v]
  BY <1>2 DEF Emptied
<1>5. <<>> \in Seq(Nat)
  BY EmptySeq
<1> QED
  BY <1>1, <1>3, <1>4, <1>5 DEF Records

(* A list that has none is moved nowhere. *)
LEMMA EmptyList ==
  ASSUME NEW V, NEW m \in Records(V), NEW u \in V, m.len[u] = 0
  PROVE  Fits(m, u) /\ MainList(m, u) = <<>>
<1>1. Fits(m, u)
  BY DEF Fits
<1>2. MainList(m, u) \in Seq(Nat) /\ Len(MainList(m, u)) = 0
  BY <1>1, MainLists
<1> QED
  BY <1>1, <1>2, EmptySeq

(* A list that is moved is the same list. *)
LEMMA MovedListFacts ==
  ASSUME NEW V, NEW m \in Mains(V), NEW u \in V, NEW c \in Records(V)
  PROVE  /\ MovedList(c, m, u) \in Records(V)
         /\ c.len = m.len =>
              /\ MovedList(c, m, u).len = m.len
              /\ Fits(MovedList(c, m, u), u) /\ MainList(MovedList(c, m, u), u) = MainList(m, u)
              /\ \A w \in V : w # u /\ Fits(c, w) =>
                   Fits(MovedList(c, m, u), w) /\ MainList(MovedList(c, m, u), w) = MainList(c, w)
<1> DEFINE r == MovedList(c, m, u)
           l == MainList(m, u)
<1>1. m \in Records(V) /\ Fits(m, u)
  BY DEF Mains
<1>2. l \in Seq(Nat) /\ Len(l) = m.len[u]
  BY <1>1, MainLists
<1>3. m.len \in [V -> Nat] /\ m.len[u] \in Nat
  BY <1>1, RecordFields
<1>4. CASE m.len[u] > 0
  <2>1. r = AppendList(c, u, l)
    BY <1>4 DEF MovedList
  <2> HIDE DEF r, l
  <2>2. HasList(r, c, V, u, l) /\ r.len = [c.len EXCEPT ![u] = Len(l)]
    BY <1>2, <2>1, Appended
  <2>3. c.len = m.len => r.len = m.len
    BY <1>2, <1>3, <2>2
  <2> QED
    BY <2>2, <2>3 DEF HasList, r, l
<1>5. CASE m.len[u] = 0
  <2>1. r = c
    BY <1>5 DEF MovedList
  <2>2. l = <<>>
    BY <1>1, <1>5, EmptyList
  <2>3. c.len = m.len => Fits(c, u) /\ MainList(c, u) = <<>>
    BY <1>5, EmptyList
  <2> QED
    BY <2>1, <2>2, <2>3
<1> QED
  BY <1>3, <1>4, <1>5

(* The values of the fold that compacts. *)
CompactValues(h, m) ==
  LET ts == AscendingSeq(DOMAIN m.len)
  IN  /\ h[0] = Emptied(m)
      /\ \A k \in 1..Len(ts) : h[k] = MovedList(h[k - 1], m, ts[k])
      /\ Compacted(m) = h[Len(ts)]

LEMMA CompactFold ==
  ASSUME NEW V, V \subseteq Nat, IsFiniteSet(V), NEW m \in Mains(V)
  PROVE  \E h : CompactValues(h, m)
<1> DEFINE ts == AscendingSeq(DOMAIN m.len)
           n == Len(ts)
           X == Records(V)
           base == Emptied(m)
           Body(g, s) == IF s = {} THEN base
                         ELSE MovedList(g[s \ {Max(s)}], m, ts[Max(s)])
           Step == [z \in X \X (1..n) |-> MovedList(z[1], m, ts[z[2]])]
           iter[s \in SUBSET DOMAIN ts] ==
             IF s = {} THEN Emptied(m)
             ELSE LET x == Max(s) IN MovedList(iter[s \ {x}], m, ts[x])
<1>1. ts \in Seq(V) /\ n \in Nat /\ DOMAIN ts = 1..n
  <2>1. DOMAIN m.len = V
    BY RecordFields DEF Mains
  <2>2. Enumerates(ts, V, V)
    BY <2>1, AscendingList
  <2> QED
    BY <2>2 DEF Enumerates
<1>2. Compacted(m) = iter[DOMAIN ts]
  BY DEF Compacted, Emptied, FoldLeft, MapThenFoldSet
<1>3. iter = CHOOSE g : g = [s \in SUBSET DOMAIN ts |-> Body(g, s)]
  BY DEF iter
<1> HIDE DEF iter, ts
<1>4. \A i \in 1..n : ts[i] \in V
  BY <1>1, ElementOfSeq
<1> HIDE DEF n
<1>5. Step \in [X \X (1..n) -> X]
  <2>1. \A c \in X, i \in 1..n : MovedList(c, m, ts[i]) \in X
    BY <1>4, MovedListFacts DEF Mains
  <2> QED
    BY <2>1
<1>6. \A c \in X, i \in 1..n : Step[<<c, i>>] = MovedList(c, m, ts[i])
  OBVIOUS
<1>7. base \in X
  <2>1. m \in Records(V)
    BY DEF Mains
  <2> QED
    BY <2>1, EmptiedFacts DEF X, base
<1> HIDE DEF Step, X, base
<1>8. PICK g \in [SUBSET (1..n) -> X] : FoldsFrom(g, n, base, Step)
  BY <1>1, <1>5, <1>7, FoldValues
<1>9. \A s \in SUBSET (1..n) : s # {} => Max(s) \in 1..n /\ s \ {Max(s)} \in SUBSET (1..n)
  BY <1>1, MaxNumber
<1>10. \A s \in SUBSET (1..n) : g[s] = Body(g, s)
  BY <1>6, <1>8, <1>9 DEF FoldsFrom
<1>11. g = [s \in SUBSET (1..n) |-> Body(g, s)]
  <2> HIDE DEF Body
  <2> QED
    BY <1>10
<1>12. iter = [s \in SUBSET (1..n) |-> Body(iter, s)]
  <2> HIDE DEF Body
  <2> QED
    BY <1>1, <1>3, <1>11
<1> DEFINE h == [k \in 0..n |-> iter[1..k]]
<1>13. h[0] = base /\ \A k \in 1..n : h[k] = MovedList(h[k - 1], m, ts[k])
  <2>1. \A s \in SUBSET (1..n) : iter[s] = Body(iter, s)
    <3> HIDE DEF Body
    <3> QED
      BY <1>12
  <2>2. 1..0 = {} /\ 1..0 \in SUBSET (1..n) /\ 0 \in 0..n
    BY <1>1
  <2>3. ASSUME NEW k \in 1..n PROVE h[k] = MovedList(h[k - 1], m, ts[k])
    <3>1. k \in 0..n /\ k - 1 \in 0..n
      BY <1>1
    <3>2. Max(1..k) = k /\ (1..k) \ {k} = 1..k - 1 /\ 1..k \in SUBSET (1..n) /\ 1..k # {}
      BY <1>1, MaxOfFirst
    <3>3. iter[1..k] = MovedList(iter[1..k - 1], m, ts[k])
      BY <2>1, <3>2
    <3> QED
      BY <3>1, <3>3
  <2> QED
    BY <2>1, <2>2, <2>3
<1>14. n \in 0..n /\ h[n] = iter[DOMAIN ts]
  BY <1>1
<1> HIDE DEF h
<1> QED
  BY <1>2, <1>13, <1>14 DEF ts, n, base, CompactValues

(* Compacting a mirror changes no list. *)
LEMMA CompactedFacts ==
  ASSUME NEW V, V \subseteq Nat, IsFiniteSet(V), NEW m \in Mains(V)
  PROVE  /\ Compacted(m) \in Mains(V)
         /\ \A u \in V : MainList(Compacted(m), u) = MainList(m, u)
<1> DEFINE ts == AscendingSeq(DOMAIN m.len)
           n == Len(ts)
<1>0. PICK h : CompactValues(h, m)
  BY CompactFold
<1>1. /\ h[0] = Emptied(m)
      /\ \A k \in 1..n : h[k] = MovedList(h[k - 1], m, ts[k])
      /\ Compacted(m) = h[n]
  BY <1>0 DEF CompactValues
<1>2. /\ n \in Nat /\ \A i \in 1..n : ts[i] \in V
      /\ \A i, j \in 1..n : ts[i] = ts[j] => i = j
      /\ \A u \in V : \E i \in 1..n : ts[i] = u
  <2>1. DOMAIN m.len = V
    BY RecordFields DEF Mains
  <2>2. Enumerates(ts, V, V)
    BY <2>1, AscendingList
  <2> QED
    BY <2>2 DEF Enumerates
<1> HIDE DEF ts, n
<1> DEFINE P(k) == /\ h[k] \in Records(V) /\ h[k].len = m.len
                   /\ \A i \in 1..k : /\ Fits(h[k], ts[i])
                                     /\ MainList(h[k], ts[i]) = MainList(m, ts[i])
           G == {k \in 0..n : P(k)}
<1>3. 0 \in G
  <2>1. m \in Records(V)
    BY DEF Mains
  <2>2. 0 \in 0..n /\ 1..0 = {}
    BY <1>2
  <2> QED
    BY <1>1, <2>1, <2>2, EmptiedFacts
<1>4. ASSUME NEW k \in 1..n, k - 1 \in G PROVE k \in G
  <2> DEFINE c == h[k - 1]
             t == ts[k]
  <2>1. P(k - 1)
    BY <1>4
  <2>2. h[k] = MovedList(c, m, t) /\ t \in V /\ k \in 0..n
    BY <1>1, <1>2
  <2>3. \A i \in 1..k : i = k \/ (i \in 1..k - 1 /\ ts[i] # t /\ ts[i] \in V)
    <3>1. \A i \in 1..k : i \in 1..n /\ (i = k \/ (i \in 1..k - 1 /\ i # k))
      BY <1>2
    <3> QED
      BY <1>2, <3>1
  <2>4. c \in Records(V) /\ c.len = m.len
        /\ \A i \in 1..k - 1 : Fits(c, ts[i]) /\ MainList(c, ts[i]) = MainList(m, ts[i])
    BY <2>1
  <2>5. /\ h[k] \in Records(V) /\ h[k].len = m.len
        /\ Fits(h[k], t) /\ MainList(h[k], t) = MainList(m, t)
        /\ \A w \in V : w # t /\ Fits(c, w) =>
             Fits(h[k], w) /\ MainList(h[k], w) = MainList(c, w)
    <3> HIDE DEF c, t
    <3> QED
      BY <2>2, <2>4, MovedListFacts
  <2>6. \A i \in 1..k : Fits(h[k], ts[i]) /\ MainList(h[k], ts[i]) = MainList(m, ts[i])
    <3> SUFFICES ASSUME NEW i \in 1..k
                 PROVE  Fits(h[k], ts[i]) /\ MainList(h[k], ts[i]) = MainList(m, ts[i])
      OBVIOUS
    <3> HIDE DEF c
    <3> QED
      BY <2>3, <2>4, <2>5
  <2> QED
    BY <2>2, <2>5, <2>6
<1>5. P(n)
  <2> HIDE DEF P
  <2>1. \A k \in 0..n : k \in G
    <3> HIDE DEF G
    <3> QED
      BY <1>2, <1>3, <1>4, CountUp
  <2>2. n \in 0..n
    BY <1>2
  <2> QED
    BY <2>1, <2>2
<1>6. \A u \in V : Fits(h[n], u) /\ MainList(h[n], u) = MainList(m, u)
  BY <1>2, <1>5
<1> QED
  BY <1>1, <1>5, <1>6 DEF Mains

(* And compacted or not, it holds the same lists. *)
LEMMA MergeIdxMainFacts ==
  ASSUME NEW V, V \subseteq Nat, IsFiniteSet(V), NEW S, RowsWithin(S, V), NEW idx,
         NEW is_insert \in BOOLEAN, NEW m \in Mains(V)
  PROVE  AfterMerge(MergeIdxMain(m, S, idx, is_insert), m, V, S, idx, is_insert)
<1> DEFINE after == Merged(m, S, idx, is_insert)
<1>1. AfterMerge(after, m, V, S, idx, is_insert)
  BY MergedFacts
<1>2. MergeIdxMain(m, S, idx, is_insert) \in {after, Compacted(after)}
  BY DEF MergeIdxMain
<1> HIDE DEF after
<1>3. /\ Compacted(after) \in Mains(V)
      /\ \A u \in V : MainList(Compacted(after), u) = MainList(after, u)
  BY <1>1, CompactedFacts DEF AfterMerge
<1> QED
  BY <1>1, <1>2, <1>3 DEF AfterMerge

LEMMA DeltaList ==
  ASSUME NEW V, V \subseteq Nat, IsFiniteSet(V), NEW S, RowsWithin(S, V), NEW idx, NEW u
  PROVE  /\ AscendingSeq(Delta(S, idx, u)) \in Seq(Nat)
         /\ Len(AscendingSeq(Delta(S, idx, u))) \in Nat
         /\ Range(AscendingSeq(Delta(S, idx, u))) = Delta(S, idx, u)
<1>1. Delta(S, idx, u) \subseteq Nat /\ IsFiniteSet(Delta(S, idx, u))
  BY DeltaFacts
<1>2. AscendingSeq(Delta(S, idx, u)) \in Seq(Delta(S, idx, u))
      /\ Range(AscendingSeq(Delta(S, idx, u))) = Delta(S, idx, u)
  BY <1>1, Ascending
<1> QED
  BY <1>1, <1>2, SeqMonotonic, LenProperties

LEMMA BuiltListFacts ==
  ASSUME NEW V, V \subseteq Nat, IsFiniteSet(V), NEW S, RowsWithin(S, V), NEW idx,
         NEW m \in Mains(V), NEW u \in V
  PROVE  Changed(BuiltList(m, S, idx, u), m, V, u, AscendingSeq(Delta(S, idx, u)))
<1>1. m \in Records(V) /\ \A w \in V : Fits(m, w)
  BY DEF Mains
<1>2. AscendingSeq(Delta(S, idx, u)) \in Seq(Nat)
  BY DeltaList
<1>3. HasList(BuiltList(m, S, idx, u), m, V, u, AscendingSeq(Delta(S, idx, u)))
  BY <1>1, <1>2, Appended DEF BuiltList
<1> QED
  BY <1>1, <1>3 DEF HasList, Changed, Mains

(* The values of the fold that builds the mirror. *)
BuildValues(h, m, S, idx) ==
  LET ts == AscendingSeq(Touched(S, idx))
  IN  /\ h[0] = Emptied(m)
      /\ \A k \in 1..Len(ts) : h[k] = BuiltList(h[k - 1], S, idx, ts[k])
      /\ Built(m, S, idx) = h[Len(ts)]

LEMMA BuildFold ==
  ASSUME NEW V, V \subseteq Nat, IsFiniteSet(V), NEW S, RowsWithin(S, V), NEW idx,
         NEW m, Emptied(m) \in Mains(V)
  PROVE  \E h : BuildValues(h, m, S, idx)
<1> DEFINE ts == AscendingSeq(Touched(S, idx))
           n == Len(ts)
           X == Mains(V)
           base == Emptied(m)
           Body(g, s) == IF s = {} THEN base
                         ELSE BuiltList(g[s \ {Max(s)}], S, idx, ts[Max(s)])
           Step == [z \in X \X (1..n) |-> BuiltList(z[1], S, idx, ts[z[2]])]
           iter[s \in SUBSET DOMAIN ts] ==
             IF s = {} THEN Emptied(m)
             ELSE LET x == Max(s) IN BuiltList(iter[s \ {x}], S, idx, ts[x])
<1>1. ts \in Seq(V) /\ n \in Nat /\ DOMAIN ts = 1..n
  <2>1. Enumerates(ts, Touched(S, idx), V)
    BY DeltaFacts, AscendingList
  <2> QED
    BY <2>1 DEF Enumerates
<1>2. Built(m, S, idx) = iter[DOMAIN ts]
  BY DEF Built, Emptied, FoldLeft, MapThenFoldSet
<1>3. iter = CHOOSE g : g = [s \in SUBSET DOMAIN ts |-> Body(g, s)]
  BY DEF iter
<1> HIDE DEF iter, ts
<1>4. \A i \in 1..n : ts[i] \in V
  BY <1>1, ElementOfSeq
<1> HIDE DEF n
<1>5. Step \in [X \X (1..n) -> X]
  <2>1. \A c \in X, i \in 1..n : BuiltList(c, S, idx, ts[i]) \in X
    BY <1>4, BuiltListFacts DEF Changed
  <2> QED
    BY <2>1
<1>6. \A c \in X, i \in 1..n : Step[<<c, i>>] = BuiltList(c, S, idx, ts[i])
  OBVIOUS
<1>7. base \in X
  BY DEF X, base
<1> HIDE DEF Step, X, base
<1>8. PICK g \in [SUBSET (1..n) -> X] : FoldsFrom(g, n, base, Step)
  BY <1>1, <1>5, <1>7, FoldValues
<1>9. \A s \in SUBSET (1..n) : s # {} => Max(s) \in 1..n /\ s \ {Max(s)} \in SUBSET (1..n)
  BY <1>1, MaxNumber
<1>10. \A s \in SUBSET (1..n) : g[s] = Body(g, s)
  BY <1>6, <1>8, <1>9 DEF FoldsFrom
<1>11. g = [s \in SUBSET (1..n) |-> Body(g, s)]
  <2> HIDE DEF Body
  <2> QED
    BY <1>10
<1>12. iter = [s \in SUBSET (1..n) |-> Body(iter, s)]
  <2> HIDE DEF Body
  <2> QED
    BY <1>1, <1>3, <1>11
<1> DEFINE h == [k \in 0..n |-> iter[1..k]]
<1>13. h[0] = base /\ \A k \in 1..n : h[k] = BuiltList(h[k - 1], S, idx, ts[k])
  <2>1. \A s \in SUBSET (1..n) : iter[s] = Body(iter, s)
    <3> HIDE DEF Body
    <3> QED
      BY <1>12
  <2>2. 1..0 = {} /\ 1..0 \in SUBSET (1..n) /\ 0 \in 0..n
    BY <1>1
  <2>3. ASSUME NEW k \in 1..n PROVE h[k] = BuiltList(h[k - 1], S, idx, ts[k])
    <3>1. k \in 0..n /\ k - 1 \in 0..n
      BY <1>1
    <3>2. Max(1..k) = k /\ (1..k) \ {k} = 1..k - 1 /\ 1..k \in SUBSET (1..n) /\ 1..k # {}
      BY <1>1, MaxOfFirst
    <3>3. iter[1..k] = BuiltList(iter[1..k - 1], S, idx, ts[k])
      BY <2>1, <3>2
    <3> QED
      BY <3>1, <3>3
  <2> QED
    BY <2>1, <2>2, <2>3
<1>14. n \in 0..n /\ h[n] = iter[DOMAIN ts]
  BY <1>1
<1> HIDE DEF h
<1> QED
  BY <1>2, <1>13, <1>14 DEF ts, n, base, BuildValues

(* The mirror is built with the lists of the rows. *)
LEMMA BuiltFacts ==
  ASSUME NEW V, V \subseteq Nat, IsFiniteSet(V), NEW S, RowsWithin(S, V), NEW idx,
         NEW m \in Records(V), \A u \in V : m.len[u] = 0
  PROVE  /\ Built(m, S, idx) \in Mains(V)
         /\ \A u \in V : MainList(Built(m, S, idx), u) = AscendingSeq(Delta(S, idx, u))
<1> DEFINE ts == AscendingSeq(Touched(S, idx))
           n == Len(ts)
<1>a. /\ Emptied(m) \in Mains(V)
      /\ \A u \in V : MainList(Emptied(m), u) = <<>>
  BY EmptiedFacts, EmptyList DEF Mains
<1>0. PICK h : BuildValues(h, m, S, idx)
  BY <1>a, BuildFold
<1>1. /\ h[0] = Emptied(m)
      /\ \A k \in 1..n : h[k] = BuiltList(h[k - 1], S, idx, ts[k])
      /\ Built(m, S, idx) = h[n]
  BY <1>0 DEF BuildValues
<1>2. /\ n \in Nat /\ \A i \in 1..n : ts[i] \in V
      /\ \A i, j \in 1..n : ts[i] = ts[j] => i = j
      /\ \A u : u \in Touched(S, idx) <=> \E i \in 1..n : ts[i] = u
  <2>1. Enumerates(ts, Touched(S, idx), V)
    BY DeltaFacts, AscendingList
  <2> QED
    BY <2>1 DEF Enumerates
<1> HIDE DEF ts, n
<1> DEFINE now(u) == AscendingSeq(Delta(S, idx, u))
           Done(k, u) == \E i \in 1..k : ts[i] = u
           P(k) == /\ h[k] \in Mains(V)
                   /\ \A u \in V : MainList(h[k], u) = IF Done(k, u) THEN now(u) ELSE <<>>
           G == {k \in 0..n : P(k)}
<1>3. 0 \in G
  <2>1. \A u : ~Done(0, u)
    OBVIOUS
  <2>2. 0 \in 0..n
    BY <1>2
  <2> HIDE DEF Done, now
  <2> QED
    BY <1>a, <1>1, <2>1, <2>2
<1>4. ASSUME NEW k \in 1..n, k - 1 \in G PROVE k \in G
  <2> DEFINE c == h[k - 1]
             t == ts[k]
  <2>1. P(k - 1)
    BY <1>4
  <2>2. h[k] = BuiltList(c, S, idx, t) /\ t \in V /\ k \in 0..n
    BY <1>1, <1>2
  <2>3. \A u : Done(k, u) <=> Done(k - 1, u) \/ u = t
    <3>1. \A i : i \in 1..k <=> i \in 1..k - 1 \/ i = k
      BY <1>2
    <3> QED
      BY <3>1
  <2> HIDE DEF Done
  <2>4. c \in Mains(V) /\ \A u \in V : MainList(c, u) = IF Done(k - 1, u) THEN now(u) ELSE <<>>
    BY <2>1
  <2>5. Changed(h[k], c, V, t, now(t))
    <3> HIDE DEF c, t
    <3> QED
      BY <2>2, <2>4, BuiltListFacts
  <2> HIDE DEF now, c, t
  <2>6. /\ h[k] \in Mains(V) /\ MainList(h[k], t) = now(t)
        /\ \A w \in V : w # t => MainList(h[k], w) = MainList(c, w)
    BY <2>5 DEF Changed
  <2>7. \A u \in V : MainList(h[k], u) = IF Done(k, u) THEN now(u) ELSE <<>>
    BY <2>3, <2>4, <2>6
  <2> QED
    BY <2>2, <2>6, <2>7
<1>5. P(n)
  <2> HIDE DEF P
  <2>1. \A k \in 0..n : k \in G
    <3> HIDE DEF G
    <3> QED
      BY <1>2, <1>3, <1>4, CountUp
  <2>2. n \in 0..n
    BY <1>2
  <2> QED
    BY <2>1, <2>2
<1>6. \A u \in V : ~Done(n, u) => now(u) = <<>>
  <2>1. \A u \in V : ~Done(n, u) => u \notin Touched(S, idx)
    BY <1>2
  <2>2. \A u \in V : u \notin Touched(S, idx) => Delta(S, idx, u) = {}
    BY DeltaFacts
  <2> QED
    BY <2>1, <2>2, AscendingNone
<1> HIDE DEF Done, now
<1>7. \A u \in V : MainList(h[n], u) = now(u)
  BY <1>5, <1>6
<1> QED
  BY <1>1, <1>5, <1>7 DEF now

-----------------------------------------------------------------------------
(* The update lists of one direction. *)
Updates == [keys : Seq(Nat), data : Seq(Nat), off : Seq(Nat)]

NoUpdates == [keys |-> <<>>, off |-> <<0>>, data |-> <<>>]

LEMMA UpdateFields ==
  ASSUME NEW x \in Updates
  PROVE  /\ x.keys \in Seq(Nat) /\ x.data \in Seq(Nat) /\ x.off \in Seq(Nat)
         /\ Len(x.keys) \in Nat /\ Len(x.data) \in Nat /\ Len(x.off) \in Nat
<1>1. x.keys \in Seq(Nat) /\ x.data \in Seq(Nat) /\ x.off \in Seq(Nat)
  BY DEF Updates
<1> QED
  BY <1>1, LenProperties

(* r is x with one more list. *)
OneMore(r, x, u, list) ==
  /\ r \in Updates /\ r.keys = Append(x.keys, u) /\ r.data = x.data \o list
  /\ r.off = Append(x.off, Len(x.data) + Len(list))

(* One more list of an update. *)
LEMMA UpdateWithFacts ==
  ASSUME NEW V, V \subseteq Nat, IsFiniteSet(V), NEW S, RowsWithin(S, V), NEW idx,
         NEW x \in Updates, NEW u \in V
  PROVE  OneMore(UpdateWith(x, S, idx, u), x, u, AscendingSeq(Delta(S, idx, u)))
<1> DEFINE list == AscendingSeq(Delta(S, idx, u))
           r == UpdateWith(x, S, idx, u)
<1>1. list \in Seq(Nat) /\ Len(list) \in Nat
  BY DeltaList
<1>2. r = [keys |-> Append(x.keys, u), data |-> x.data \o list,
           off |-> Append(x.off, Len(x.data) + Len(list))]
  BY DEF UpdateWith
<1> HIDE DEF list, r
<1>3. /\ x.keys \in Seq(Nat) /\ x.data \in Seq(Nat) /\ x.off \in Seq(Nat)
      /\ Len(x.data) \in Nat
  BY UpdateFields
<1>4. Append(x.keys, u) \in Seq(Nat)
  BY <1>3, AppendProperties
<1>5. Append(x.off, Len(x.data) + Len(list)) \in Seq(Nat)
  <2>1. Len(x.data) + Len(list) \in Nat
    BY <1>1, <1>3
  <2> QED
    BY <1>3, <2>1, AppendProperties
<1>6. x.data \o list \in Seq(Nat)
  BY <1>1, <1>3, ConcatProperties
<1>7. r \in Updates
  BY <1>2, <1>4, <1>5, <1>6 DEF Updates
<1>8. /\ r.keys = Append(x.keys, u) /\ r.data = x.data \o list
      /\ r.off = Append(x.off, Len(x.data) + Len(list))
  BY <1>2
<1> QED
  BY <1>7, <1>8 DEF list, r, OneMore

(* The values of the fold that lists an update. *)
UpdateValues(h, S, idx) ==
  LET ts == AscendingSeq(Touched(S, idx))
  IN  /\ h[0] = NoUpdates
      /\ \A k \in 1..Len(ts) : h[k] = UpdateWith(h[k - 1], S, idx, ts[k])
      /\ UpdateOf(S, idx) = h[Len(ts)]

LEMMA UpdateFold ==
  ASSUME NEW V, V \subseteq Nat, IsFiniteSet(V), NEW S, RowsWithin(S, V), NEW idx
  PROVE  \E h : UpdateValues(h, S, idx)
<1> DEFINE ts == AscendingSeq(Touched(S, idx))
           n == Len(ts)
           X == Updates
           base == NoUpdates
           Body(g, s) == IF s = {} THEN base
                         ELSE UpdateWith(g[s \ {Max(s)}], S, idx, ts[Max(s)])
           Step == [z \in X \X (1..n) |-> UpdateWith(z[1], S, idx, ts[z[2]])]
           iter[s \in SUBSET DOMAIN ts] ==
             IF s = {} THEN NoUpdates
             ELSE LET x == Max(s) IN UpdateWith(iter[s \ {x}], S, idx, ts[x])
<1>1. ts \in Seq(V) /\ n \in Nat /\ DOMAIN ts = 1..n
  <2>1. Enumerates(ts, Touched(S, idx), V)
    BY DeltaFacts, AscendingList
  <2> QED
    BY <2>1 DEF Enumerates
<1>2. UpdateOf(S, idx) = iter[DOMAIN ts]
  BY DEF UpdateOf, NoUpdates, FoldLeft, MapThenFoldSet
<1>3. iter = CHOOSE g : g = [s \in SUBSET DOMAIN ts |-> Body(g, s)]
  BY DEF iter
<1> HIDE DEF iter, ts
<1>4. \A i \in 1..n : ts[i] \in V
  BY <1>1, ElementOfSeq
<1> HIDE DEF n
<1>5. Step \in [X \X (1..n) -> X]
  <2>1. \A c \in X, i \in 1..n : UpdateWith(c, S, idx, ts[i]) \in X
    BY <1>4, UpdateWithFacts DEF OneMore
  <2> QED
    BY <2>1
<1>6. \A c \in X, i \in 1..n : Step[<<c, i>>] = UpdateWith(c, S, idx, ts[i])
  OBVIOUS
<1>7. base \in X
  <2>1. <<>> \in Seq(Nat) /\ <<0>> \in Seq(Nat)
    BY EmptySeq
  <2> QED
    BY <2>1 DEF X, base, Updates, NoUpdates
<1> HIDE DEF Step, X, base
<1>8. PICK g \in [SUBSET (1..n) -> X] : FoldsFrom(g, n, base, Step)
  BY <1>1, <1>5, <1>7, FoldValues
<1>9. \A s \in SUBSET (1..n) : s # {} => Max(s) \in 1..n /\ s \ {Max(s)} \in SUBSET (1..n)
  BY <1>1, MaxNumber
<1>10. \A s \in SUBSET (1..n) : g[s] = Body(g, s)
  BY <1>6, <1>8, <1>9 DEF FoldsFrom
<1>11. g = [s \in SUBSET (1..n) |-> Body(g, s)]
  <2> HIDE DEF Body
  <2> QED
    BY <1>10
<1>12. iter = [s \in SUBSET (1..n) |-> Body(iter, s)]
  <2> HIDE DEF Body
  <2> QED
    BY <1>1, <1>3, <1>11
<1> DEFINE h == [k \in 0..n |-> iter[1..k]]
<1>13. h[0] = base /\ \A k \in 1..n : h[k] = UpdateWith(h[k - 1], S, idx, ts[k])
  <2>1. \A s \in SUBSET (1..n) : iter[s] = Body(iter, s)
    <3> HIDE DEF Body
    <3> QED
      BY <1>12
  <2>2. 1..0 = {} /\ 1..0 \in SUBSET (1..n) /\ 0 \in 0..n
    BY <1>1
  <2>3. ASSUME NEW k \in 1..n PROVE h[k] = UpdateWith(h[k - 1], S, idx, ts[k])
    <3>1. k \in 0..n /\ k - 1 \in 0..n
      BY <1>1
    <3>2. Max(1..k) = k /\ (1..k) \ {k} = 1..k - 1 /\ 1..k \in SUBSET (1..n) /\ 1..k # {}
      BY <1>1, MaxOfFirst
    <3>3. iter[1..k] = UpdateWith(iter[1..k - 1], S, idx, ts[k])
      BY <2>1, <3>2
    <3> QED
      BY <3>1, <3>3
  <2> QED
    BY <2>1, <2>2, <2>3
<1>14. n \in 0..n /\ h[n] = iter[DOMAIN ts]
  BY <1>1
<1> HIDE DEF h
<1> QED
  BY <1>2, <1>13, <1>14 DEF ts, n, base, UpdateValues

(* The list l lies in d after the first o elements. *)
LiesAt(d, o, l) == \A i \in 1..Len(l) : o + i \in DOMAIN d /\ d[o + i] = l[i]

(* A slice holds the list that lies there, *)
LEMMA Sliced ==
  ASSUME NEW d \in Seq(Nat), NEW o \in Nat, NEW l \in Seq(Nat), LiesAt(d, o, l)
  PROVE  SubSeq(d, o + 1, o + Len(l)) = l
<1> DEFINE n == Len(l)
           s == SubSeq(d, o + 1, o + n)
<1>1. n \in Nat /\ \A i \in 1..n : o + i \in 1..Len(d) /\ d[o + i] = l[i]
  BY LenProperties DEF LiesAt
<1> HIDE DEF n
<1>2. o + 1 \in Int /\ o + n \in Int
  BY <1>1
<1>4. s = [i \in 1..n |-> d[o + i]]
  BY <1>1, <1>2
<1>5. \A i \in 1..n : d[o + i] \in Nat
  BY <1>1, ElementOfSeq
<1> HIDE DEF s
<1>6. s \in [1..n -> Nat]
  BY <1>4, <1>5
<1>7. s \in Seq(Nat) /\ Len(s) = n
  BY <1>1, <1>6, FunctionAsSeq
<1>8. \A i \in 1..n : s[i] = l[i]
  BY <1>1, <1>4
<1> QED
  BY <1>7, <1>8, SeqEqual DEF s, n

(* which still lies there when more is appended. *)
LEMMA LiesAtLonger ==
  ASSUME NEW d \in Seq(Nat), NEW e \in Seq(Nat)
  PROVE  /\ \A o, l : LiesAt(d, o, l) => LiesAt(d \o e, o, l)
         /\ LiesAt(d \o e, Len(d), e)
<1> DEFINE n == Len(d)
           k == Len(e)
           r == d \o e
<1>1. n \in Nat /\ k \in Nat /\ DOMAIN d = 1..n /\ DOMAIN e = 1..k
  BY LenProperties
<1>2. /\ r \in Seq(Nat) /\ Len(r) = n + k
      /\ \A i \in 1..n + k : r[i] = IF i <= n THEN d[i] ELSE e[i - n]
  BY ConcatProperties
<1>3. DOMAIN r = 1..n + k
  BY <1>2, LenProperties
<1> HIDE DEF n, k, r
<1>4. \A j \in DOMAIN d : j \in DOMAIN r /\ r[j] = d[j]
  BY <1>1, <1>2, <1>3
<1>5. \A i \in 1..k : n + i \in DOMAIN r /\ r[n + i] = e[i]
  <2> SUFFICES ASSUME NEW i \in 1..k PROVE n + i \in DOMAIN r /\ r[n + i] = e[i]
    OBVIOUS
  <2>1. n + i \in 1..n + k /\ ~(n + i <= n) /\ (n + i) - n = i
    BY <1>1
  <2> QED
    BY <1>2, <1>3, <2>1
<1>6. \A o, l : LiesAt(d, o, l) => LiesAt(r, o, l)
  BY <1>4 DEF LiesAt
<1>7. LiesAt(r, n, e)
  BY <1>5 DEF LiesAt, k
<1> QED
  BY <1>6, <1>7 DEF n, r

(* What is looked up in the update of a direction is its list. *)
LEMMA UpdateOfFacts ==
  ASSUME NEW V, V \subseteq Nat, IsFiniteSet(V), NEW S, RowsWithin(S, V), NEW idx, NEW v \in V
  PROVE  UpdateList(UpdateOf(S, idx), v) = AscendingSeq(Delta(S, idx, v))
<1> DEFINE ts == AscendingSeq(Touched(S, idx))
           n == Len(ts)
           list(u) == AscendingSeq(Delta(S, idx, u))
<1>0. PICK h : UpdateValues(h, S, idx)
  BY UpdateFold
<1>1. /\ h[0] = NoUpdates
      /\ \A k \in 1..n : h[k] = UpdateWith(h[k - 1], S, idx, ts[k])
      /\ UpdateOf(S, idx) = h[n]
  BY <1>0 DEF UpdateValues
<1>2. /\ n \in Nat /\ \A i \in 1..n : ts[i] \in V
      /\ \A i, j \in 1..n : ts[i] = ts[j] => i = j
      /\ \A u : u \in Touched(S, idx) <=> \E i \in 1..n : ts[i] = u
  <2>1. Enumerates(ts, Touched(S, idx), V)
    BY DeltaFacts, AscendingList
  <2> QED
    BY <2>1 DEF Enumerates
<1> HIDE DEF ts, n
<1>3. \A u : list(u) \in Seq(Nat) /\ Len(list(u)) \in Nat
  BY DeltaList
<1> HIDE DEF list
<1> DEFINE P(k) ==
             /\ h[k] \in Updates
             /\ Len(h[k].keys) = k /\ \A i \in 1..k : h[k].keys[i] = ts[i]
             /\ Len(h[k].off) = k + 1 /\ h[k].off[k + 1] = Len(h[k].data)
             /\ \A j \in 1..k : /\ h[k].off[j + 1] = h[k].off[j] + Len(list(ts[j]))
                               /\ LiesAt(h[k].data, h[k].off[j], list(ts[j]))
           G == {k \in 0..n : P(k)}
<1>4. 0 \in G
  <2>1. <<>> \in Seq(Nat) /\ <<0>> \in Seq(Nat) /\ Len(<<>>) = 0 /\ Len(<<0>>) = 1 /\ <<0>>[1] = 0
    BY EmptySeq
  <2>2. NoUpdates \in Updates
    BY <2>1 DEF Updates, NoUpdates
  <2>3. NoUpdates.keys = <<>> /\ NoUpdates.data = <<>> /\ NoUpdates.off = <<0>>
    BY DEF NoUpdates
  <2>4. 0 \in 0..n /\ 1..0 = {} /\ 0 + 1 = 1
    BY <1>2
  <2>5. P(0)
    BY <1>1, <2>1, <2>2, <2>3, <2>4
  <2> QED
    BY <2>4, <2>5
<1>5. ASSUME NEW k \in 1..n, k - 1 \in G PROVE k \in G
  <2> DEFINE c == h[k - 1]
             t == ts[k]
             r == h[k]
             l == list(t)
  <2>1. P(k - 1) /\ k \in Nat /\ k - 1 \in Nat /\ (k - 1) + 1 = k
    BY <1>2, <1>5
  <2>2. r = UpdateWith(c, S, idx, t) /\ t \in V /\ k \in 0..n
    BY <1>1, <1>2
  <2>3. /\ c \in Updates
        /\ Len(c.keys) = k - 1 /\ \A i \in 1..k - 1 : c.keys[i] = ts[i]
        /\ Len(c.off) = k /\ c.off[k] = Len(c.data)
        /\ \A j \in 1..k - 1 : /\ c.off[j + 1] = c.off[j] + Len(list(ts[j]))
                              /\ LiesAt(c.data, c.off[j], list(ts[j]))
    BY <2>1
  <2>4. /\ r \in Updates /\ r.keys = Append(c.keys, t) /\ r.data = c.data \o l
        /\ r.off = Append(c.off, Len(c.data) + Len(l))
    <3> HIDE DEF c, t, r
    <3>1. OneMore(r, c, t, AscendingSeq(Delta(S, idx, t)))
      BY <2>2, <2>3, UpdateWithFacts
    <3> QED
      BY <3>1 DEF OneMore, list
  <2>5. l \in Seq(Nat) /\ Len(l) \in Nat
    BY <1>3
  <2>6. /\ c.keys \in Seq(Nat) /\ c.data \in Seq(Nat) /\ c.off \in Seq(Nat)
        /\ Len(c.data) \in Nat
    BY <2>3, UpdateFields
  <2>7. t \in Nat
    BY <2>2
  <2> HIDE DEF P, G
  <2> HIDE DEF c, r, l
  <2>8. Len(r.keys) = k /\ \A i \in 1..k : r.keys[i] = ts[i]
    <3>1. /\ Len(r.keys) = Len(c.keys) + 1 /\ r.keys[Len(c.keys) + 1] = t
          /\ \A i \in 1..Len(c.keys) : r.keys[i] = c.keys[i]
      BY <2>4, <2>6, <2>7, AppendProperties
    <3>2. \A i \in 1..k : i \in 1..k - 1 \/ i = k
      BY <2>1
    <3> QED
      BY <2>1, <2>3, <3>1, <3>2
  <2>9. /\ Len(r.off) = k + 1 /\ r.off[k + 1] = Len(c.data) + Len(l)
        /\ \A i \in 1..k : r.off[i] = c.off[i]
    <3> DEFINE e == Len(c.data) + Len(l)
    <3>1. e \in Nat
      BY <2>5, <2>6
    <3> HIDE DEF e
    <3>2. /\ Len(Append(c.off, e)) = Len(c.off) + 1 /\ Append(c.off, e)[Len(c.off) + 1] = e
          /\ \A i \in 1..Len(c.off) : Append(c.off, e)[i] = c.off[i]
      BY <2>6, <3>1, AppendProperties
    <3> QED
      BY <2>3, <2>4, <3>2 DEF e
  <2>10. Len(r.data) = Len(c.data) + Len(l)
    BY <2>4, <2>5, <2>6, ConcatProperties
  <2>11. /\ LiesAt(r.data, Len(c.data), l)
         /\ \A o, x : LiesAt(c.data, o, x) => LiesAt(r.data, o, x)
    BY <2>4, <2>5, <2>6, LiesAtLonger
  <2>12. ASSUME NEW j \in 1..k
         PROVE  /\ r.off[j + 1] = r.off[j] + Len(list(ts[j]))
                /\ LiesAt(r.data, r.off[j], list(ts[j]))
    <3>1. CASE j = k
      BY <2>3, <2>9, <2>11, <3>1 DEF l
    <3>2. CASE j # k
      <4>1. j \in 1..k - 1 /\ j + 1 \in 1..k
        BY <2>1, <3>2
      <4>2. r.off[j] = c.off[j] /\ r.off[j + 1] = c.off[j + 1]
        BY <2>9, <4>1
      <4> QED
        BY <2>3, <2>11, <4>1, <4>2
    <3> QED
      BY <3>1, <3>2
  <2>13. P(k)
    BY <2>4, <2>8, <2>9, <2>10, <2>12 DEF P, r
  <2> QED
    BY <2>2, <2>13 DEF G
<1>6. P(n)
  <2> HIDE DEF P
  <2>1. \A k \in 0..n : k \in G
    <3> HIDE DEF G
    <3> QED
      BY <1>2, <1>4, <1>5, CountUp
  <2>2. n \in 0..n
    BY <1>2
  <2> QED
    BY <2>1, <2>2
<1> DEFINE x == h[n]
<1>7. /\ x \in Updates /\ Len(x.keys) = n /\ DOMAIN x.keys = 1..n
      /\ x.keys \in Seq(Nat) /\ x.data \in Seq(Nat) /\ x.off \in Seq(Nat) /\ Len(x.off) = n + 1
      /\ \A i \in 1..n : x.keys[i] = ts[i]
      /\ \A j \in 1..n : /\ x.off[j + 1] = x.off[j] + Len(list(ts[j]))
                        /\ LiesAt(x.data, x.off[j], list(ts[j]))
  <2>1. x \in Updates /\ Len(x.keys) = n /\ Len(x.off) = n + 1
    BY <1>6
  <2>2. /\ x.keys \in Seq(Nat) /\ x.data \in Seq(Nat) /\ x.off \in Seq(Nat)
    BY <2>1, UpdateFields
  <2> QED
    BY <1>6, <2>1, <2>2, LenProperties
<1> HIDE DEF P, x
<1>8. Range(x.keys) = Touched(S, idx)
  <2>1. Range(x.keys) = {x.keys[i] : i \in 1..n}
    BY <1>7 DEF Range
  <2>2. {x.keys[i] : i \in 1..n} = {ts[i] : i \in 1..n}
    BY <1>7
  <2>3. {ts[i] : i \in 1..n} = Touched(S, idx)
    BY <1>2
  <2> QED
    BY <2>1, <2>2, <2>3
<1>9. CASE v \notin Touched(S, idx)
  <2>1. UpdateList(x, v) = <<>>
    BY <1>8, <1>9 DEF UpdateList
  <2>2. Delta(S, idx, v) = {}
    BY <1>9, DeltaFacts
  <2> QED
    BY <1>1, <2>1, <2>2, AscendingNone DEF x
<1>10. CASE v \in Touched(S, idx)
  <2> DEFINE p == CHOOSE p \in DOMAIN x.keys : x.keys[p] = v
  <2>1. \E i \in DOMAIN x.keys : x.keys[i] = v
    BY <1>2, <1>7, <1>10
  <2>2. p \in 1..n /\ ts[p] = v
    BY <1>7, <2>1
  <2>3. UpdateList(x, v) = SubSeq(x.data, x.off[p] + 1, x.off[p + 1])
    BY <1>8, <1>10 DEF UpdateList
  <2> HIDE DEF p
  <2>4. x.off[p + 1] = x.off[p] + Len(list(v)) /\ LiesAt(x.data, x.off[p], list(v))
    BY <1>7, <2>2
  <2>5. x.off[p] \in Nat
    <3>1. p \in 1..n + 1
      BY <1>2, <2>2
    <3> QED
      BY <1>7, <3>1, ElementOfSeq
  <2>6. SubSeq(x.data, x.off[p] + 1, x.off[p] + Len(list(v))) = list(v)
    BY <1>3, <1>7, <2>4, <2>5, Sliced
  <2> QED
    BY <1>1, <2>3, <2>4, <2>6 DEF x, list
<1> QED
  BY <1>9, <1>10

-----------------------------------------------------------------------------
(* The mirror holds the rows R. *)
Holds(mirror, n, R) ==
  /\ RowsWithin(R, 0..n - 1)
  /\ \A idx \in Indexes :
       /\ mirror[idx] \in Mains(0..n - 1)
       /\ \A u \in 0..n - 1 : MainList(mirror[idx], u) = AscendingSeq(Delta(R, idx, u))

LEMMA Vertices ==
  ASSUME NEW n \in Nat
  PROVE  0..n - 1 \subseteq Nat /\ IsFiniteSet(0..n - 1)
BY FS_Interval

LEMMA DeltaOf ==
  ASSUME NEW V, NEW R, RowsWithin(R, V), NEW idx \in Indexes, NEW u, NEW v
  PROVE  v \in Delta(R, idx, u) <=> <<idx, u, v>> \in R
<1>1. ASSUME v \in Delta(R, idx, u) PROVE <<idx, u, v>> \in R
  <2>1. PICK r \in R : r[1] = idx /\ r[2] = u /\ r[3] = v
    BY <1>1 DEF Delta, RowsOfIdx
  <2>2. r \in Indexes \X V \X V
    BY <2>1 DEF RowsWithin
  <2>3. r = <<r[1], r[2], r[3]>>
    BY <2>2
  <2> QED
    BY <2>1, <2>3
<1>2. ASSUME <<idx, u, v>> \in R PROVE v \in Delta(R, idx, u)
  <2> DEFINE r == <<idx, u, v>>
  <2>1. r \in R /\ r[1] = idx /\ r[2] = u /\ r[3] = v
    BY <1>2
  <2> HIDE DEF r
  <2> QED
    BY <2>1 DEF Delta, RowsOfIdx
<1> QED
  BY <1>1, <1>2

(* The rows of a vertex after a merge are its rows, merged. *)
LEMMA DeltaMerged ==
  ASSUME NEW V, NEW R, RowsWithin(R, V), NEW S, RowsWithin(S, V), NEW idx \in Indexes, NEW u,
         NEW is_insert \in BOOLEAN
  PROVE  Delta(Combined(R, S, is_insert), idx, u) =
           Combined(Delta(R, idx, u), Delta(S, idx, u), is_insert)
<1> DEFINE T == Combined(R, S, is_insert)
<1>1. RowsWithin(T, V)
  BY DEF RowsWithin, Combined
<1> HIDE DEF T
<1>2. \A v : /\ v \in Delta(R, idx, u) <=> <<idx, u, v>> \in R
             /\ v \in Delta(S, idx, u) <=> <<idx, u, v>> \in S
             /\ v \in Delta(T, idx, u) <=> <<idx, u, v>> \in T
  BY <1>1, DeltaOf
<1>3. \A v : v \in Delta(T, idx, u) <=>
             v \in Combined(Delta(R, idx, u), Delta(S, idx, u), is_insert)
  BY <1>2 DEF T, Combined
<1>4. Delta(T, idx, u) = Combined(Delta(R, idx, u), Delta(S, idx, u), is_insert)
  BY <1>3
<1> QED
  BY <1>4 DEF T

(* Merging rows into the mirror, and taking them out. *)
LEMMA MergeHolds ==
  ASSUME NEW n \in Nat, NEW mirror, NEW R, Holds(mirror, n, R), NEW S, RowsWithin(S, 0..n - 1),
         NEW is_insert \in BOOLEAN
  PROVE  Holds(Merge(mirror, S, is_insert), n, Combined(R, S, is_insert))
<1> DEFINE V == 0..n - 1
           T == Combined(R, S, is_insert)
           after == Merge(mirror, S, is_insert)
<1>1. V \subseteq Nat /\ IsFiniteSet(V)
  BY Vertices
<1>2. /\ RowsWithin(R, V) /\ RowsWithin(S, V)
      /\ \A idx \in Indexes :
           /\ mirror[idx] \in Mains(V)
           /\ \A u \in V : MainList(mirror[idx], u) = AscendingSeq(Delta(R, idx, u))
  BY DEF Holds
<1> HIDE DEF V
<1>3. RowsWithin(T, V)
  BY <1>2 DEF RowsWithin, Combined
<1>4. \A idx \in Indexes : \A u :
        Delta(T, idx, u) = Combined(Delta(R, idx, u), Delta(S, idx, u), is_insert)
  BY <1>2, DeltaMerged
<1> HIDE DEF T
<1>5. ASSUME NEW idx \in Indexes
      PROVE  /\ after[idx] \in Mains(V)
             /\ \A u \in V : MainList(after[idx], u) = AscendingSeq(Delta(T, idx, u))
  <2>0. \A u : u \notin Touched(S, idx) => Delta(T, idx, u) = Delta(R, idx, u)
    <3>1. \A u : u \notin Touched(S, idx) => Delta(S, idx, u) = {}
      BY <1>1, <1>2, DeltaFacts
    <3>2. ASSUME NEW u, Delta(S, idx, u) = {} PROVE Delta(T, idx, u) = Delta(R, idx, u)
      <4>1. Combined(Delta(R, idx, u), {}, is_insert) = Delta(R, idx, u)
        BY DEF Combined
      <4> QED
        BY <1>4, <3>2, <4>1
    <3> QED
      BY <3>1, <3>2
  <2>1. CASE RowsOfIdx(S, idx) = {}
    <3>1. after[idx] = mirror[idx]
      BY <2>1 DEF Merge
    <3>2. Touched(S, idx) = {}
      BY <2>1 DEF Touched
    <3> QED
      BY <1>2, <2>0, <3>1, <3>2
  <2>2. CASE RowsOfIdx(S, idx) # {}
    <3> DEFINE m == mirror[idx]
    <3>1. after[idx] = MergeIdxMain(m, S, idx, is_insert)
      BY <2>2 DEF Merge
    <3>2. m \in Mains(V) /\ \A u \in V : MainList(m, u) = AscendingSeq(Delta(R, idx, u))
      BY <1>2
    <3> HIDE DEF m, after
    <3>3. AfterMerge(after[idx], m, V, S, idx, is_insert)
      BY <1>1, <1>2, <3>1, <3>2, MergeIdxMainFacts
    <3>4. \A u \in V : Range(MainList(m, u)) = Delta(R, idx, u)
      BY <1>1, <1>2, <3>2, DeltaList
    <3>5. \A u \in V : NowHolds(m, S, idx, is_insert, u) = Delta(T, idx, u)
      BY <1>4, <3>4 DEF NowHolds
    <3>6. \A u \in V : MainList(after[idx], u) = AscendingSeq(Delta(T, idx, u))
      BY <2>0, <3>2, <3>3, <3>5 DEF AfterMerge
    <3> QED
      BY <3>3, <3>6 DEF AfterMerge
  <2> QED
    BY <2>1, <2>2
<1> HIDE DEF after
<1>6. Holds(after, n, T)
  BY <1>3, <1>5 DEF Holds, V
<1> QED
  BY <1>6 DEF T, after

(* More vertices have an entry. *)
LEMMA ResizeHolds ==
  ASSUME NEW n \in Nat, NEW k \in Nat, n <= k, NEW mirror, NEW R, Holds(mirror, n, R)
  PROVE  Holds(ResizeForDVCount(mirror, k), k, R)
<1> DEFINE V == 0..n - 1
           W == 0..k - 1
           after == ResizeForDVCount(mirror, k)
<1>1. V \subseteq Nat /\ IsFiniteSet(V) /\ V \subseteq W
  BY Vertices
<1>2. /\ RowsWithin(R, V)
      /\ \A idx \in Indexes :
           /\ mirror[idx] \in Mains(V)
           /\ \A u \in V : MainList(mirror[idx], u) = AscendingSeq(Delta(R, idx, u))
  BY DEF Holds
<1>3. after = [idx \in Indexes |->
                 LET grown(f) == [u \in W |-> IF u \in DOMAIN f THEN f[u] ELSE 0]
                     m == mirror[idx]
                 IN  [ptr |-> grown(m.ptr), len |-> grown(m.len), data |-> m.data, live |-> m.live]]
  BY DEF ResizeForDVCount
<1> HIDE DEF V, W, after
<1>4. RowsWithin(R, W)
  BY <1>1, <1>2 DEF RowsWithin
<1>5. ASSUME NEW idx \in Indexes
      PROVE  /\ after[idx] \in Mains(W)
             /\ \A u \in W : MainList(after[idx], u) = AscendingSeq(Delta(R, idx, u))
  <2> DEFINE m == mirror[idx]
             r == after[idx]
             grow(f) == [u \in W |-> IF u \in V THEN f[u] ELSE 0]
  <2>1. m \in Mains(V) /\ m \in Records(V) /\ \A u \in V : Fits(m, u)
    BY <1>2 DEF Mains
  <2>2. /\ m = [ptr |-> m.ptr, len |-> m.len, data |-> m.data, live |-> m.live]
        /\ m.ptr \in [V -> Nat] /\ m.len \in [V -> Nat]
        /\ m.data \in Seq(Nat) /\ m.live \in Int
    BY <2>1, RecordFields
  <2>3. r = [ptr |-> grow(m.ptr), len |-> grow(m.len), data |-> m.data, live |-> m.live]
    <3>1. r = [ptr |-> [u \in W |-> IF u \in DOMAIN m.ptr THEN m.ptr[u] ELSE 0],
               len |-> [u \in W |-> IF u \in DOMAIN m.len THEN m.len[u] ELSE 0],
               data |-> m.data, live |-> m.live]
      BY <1>3
    <3>2. DOMAIN m.ptr = V /\ DOMAIN m.len = V
      BY <2>2
    <3> QED
      BY <3>1, <3>2
  <2> HIDE DEF m, r
  <2>4. grow(m.ptr) \in [W -> Nat] /\ grow(m.len) \in [W -> Nat]
    BY <2>2
  <2>5. \A u \in W : /\ grow(m.ptr)[u] = IF u \in V THEN m.ptr[u] ELSE 0
                    /\ grow(m.len)[u] = IF u \in V THEN m.len[u] ELSE 0
    OBVIOUS
  <2> HIDE DEF grow
  <2>6. r \in Records(W) /\ r.ptr = grow(m.ptr) /\ r.len = grow(m.len) /\ r.data = m.data
    BY <2>2, <2>3, <2>4 DEF Records
  <2>7. \A u \in V : Fits(r, u) /\ MainList(r, u) = MainList(m, u)
    <3>1. \A u \in V : r.ptr[u] = m.ptr[u] /\ r.len[u] = m.len[u]
      BY <1>1, <2>5, <2>6
    <3> QED
      BY <2>1, <2>6, <3>1 DEF Fits, MainList
  <2>8. \A u \in W : u \notin V => Fits(r, u) /\ MainList(r, u) = <<>>
    BY <2>5, <2>6, EmptyList
  <2>9. \A u \in W : u \notin V => Delta(R, idx, u) = {}
    <3>1. \A u : u \notin Touched(R, idx) => Delta(R, idx, u) = {}
      BY <1>1, <1>2, DeltaFacts
    <3>2. Touched(R, idx) \subseteq V
      BY <1>1, <1>2, DeltaFacts
    <3> QED
      BY <3>1, <3>2
  <2>10. \A u \in V : MainList(m, u) = AscendingSeq(Delta(R, idx, u))
    BY <1>2 DEF m
  <2> QED
    BY <2>6, <2>7, <2>8, <2>9, <2>10, AscendingNone DEF Mains, r
<1> QED
  BY <1>4, <1>5 DEF Holds, W, after

(* The first mirror. *)
LEMMA InitHolds ==
  ASSUME NEW n \in Nat, NEW R, RowsWithin(R, 0..n - 1)
  PROVE  Holds(InitFromSortedEdges([idx \in Indexes |-> EmptyMain(n)], R), n, R)
<1> DEFINE V == 0..n - 1
           e == EmptyMain(n)
           after == InitFromSortedEdges([idx \in Indexes |-> EmptyMain(n)], R)
<1>1. V \subseteq Nat /\ IsFiniteSet(V)
  BY Vertices
<1>2. e \in Records(V) /\ \A u \in V : e.len[u] = 0
  <2>1. <<>> \in Seq(Nat)
    BY EmptySeq
  <2> QED
    BY <2>1 DEF EmptyMain, Records
<1>3. \A idx \in Indexes : after[idx] = [Built(e, R, idx) EXCEPT !.live = Len(Built(e, R, idx).data)]
  BY DEF InitFromSortedEdges
<1> HIDE DEF V, e, after
<1>4. ASSUME NEW idx \in Indexes
      PROVE  /\ after[idx] \in Mains(V)
             /\ \A u \in V : MainList(after[idx], u) = AscendingSeq(Delta(R, idx, u))
  <2> DEFINE m == Built(e, R, idx)
             r == after[idx]
  <2>1. /\ m \in Mains(V)
        /\ \A u \in V : MainList(m, u) = AscendingSeq(Delta(R, idx, u))
    BY <1>1, <1>2, BuiltFacts DEF V
  <2>2. r = [m EXCEPT !.live = Len(m.data)]
    BY <1>3
  <2> HIDE DEF m, r
  <2>3. m \in Records(V) /\ \A u \in V : Fits(m, u)
    BY <2>1 DEF Mains
  <2>4. /\ m = [ptr |-> m.ptr, len |-> m.len, data |-> m.data, live |-> m.live]
        /\ m.ptr \in [V -> Nat] /\ m.len \in [V -> Nat]
        /\ m.data \in Seq(Nat) /\ Len(m.data) \in Int
    BY <2>3, RecordFields
  <2>5. r = [ptr |-> m.ptr, len |-> m.len, data |-> m.data, live |-> Len(m.data)]
    <3>1. PICK p, l, d, v : m = [ptr |-> p, len |-> l, data |-> d, live |-> v]
      BY <2>4
    <3>2. m.ptr = p /\ m.len = l /\ m.data = d
      BY <3>1
    <3> QED
      BY <2>2, <3>1, <3>2
  <2>6. r \in Records(V) /\ r.ptr = m.ptr /\ r.len = m.len /\ r.data = m.data
    BY <2>4, <2>5 DEF Records
  <2>7. \A u : (Fits(r, u) <=> Fits(m, u)) /\ MainList(r, u) = MainList(m, u)
    BY <2>6 DEF Fits, MainList
  <2> QED
    BY <2>1, <2>3, <2>6, <2>7 DEF Mains, r
<1> QED
  BY <1>4 DEF Holds, V, after

-----------------------------------------------------------------------------
(* What the mirror holds while the rows of a batch are on their way: R is  *)
(* what it was last merged to, and the rows are those of the device.       *)
MirrorHolds(R) ==
  /\ Holds(main, nv, R)
  /\ rows = CASE host = "remove" -> R \cup Batch.ins
               [] host = "mirror" -> (R \cup Batch.ins) \ Batch.del
               [] host = "exit"   -> rows
               [] OTHER           -> R

(* The vertices are those of the batch from its insertions on. *)
AtBatch ==
  /\ script \in Scripts /\ b \in 1..Len(script.batches)
  /\ nv \in Nat
  /\ IF host = "insert" THEN nv <= Batch.nv ELSE nv = Batch.nv

MirrorInv ==
  /\ AtBatch
  /\ script.merged =>
       /\ host # "edge"
       /\ \E R : MirrorHolds(R)
       /\ host = "search" => upd = RebuildUpdate(Batch.upd)

(* The assumption about the scripts, at a batch. *)
LEMMA BatchFacts ==
  ASSUME NEW s \in Scripts
  PROVE  /\ s.nv \in Nat /\ RowsWithin(s.rows, 0..s.nv - 1)
         /\ Len(s.batches) \in Nat /\ Len(s.batches) > 0
         /\ s.nv <= s.batches[1].nv
         /\ \A i \in 1..Len(s.batches) :
              /\ s.batches[i].nv \in Nat
              /\ i + 1 \in 1..Len(s.batches) => s.batches[i].nv <= s.batches[i + 1].nv
              /\ RowsWithin(s.batches[i].ins, 0..s.batches[i].nv - 1)
              /\ RowsWithin(s.batches[i].del, 0..s.batches[i].nv - 1)
              /\ RowsWithin(s.batches[i].upd, 0..s.batches[i].nv - 1)
<1>1. /\ s.nv \in Nat /\ s.rows \subseteq RowsOver(s.nv)
      /\ s.batches \in Seq(Range(s.batches)) /\ Len(s.batches) > 0
      /\ \A i \in DOMAIN s.batches :
           /\ s.batches[i].nv \in Nat
           /\ s.batches[i].nv >= IF i = 1 THEN s.nv ELSE s.batches[i - 1].nv
           /\ s.batches[i].ins \cup s.batches[i].del \cup s.batches[i].upd
                \subseteq RowsOver(s.batches[i].nv)
  BY ScriptsAssumption DEF ScriptsAssumption
<1>2. Len(s.batches) \in Nat /\ DOMAIN s.batches = 1..Len(s.batches)
  BY <1>1, LenProperties
<1> DEFINE n == Len(s.batches)
<1>3. \A i \in 1..n : /\ s.batches[i].nv \in Nat
                      /\ s.batches[i].nv >= IF i = 1 THEN s.nv ELSE s.batches[i - 1].nv
  BY <1>1, <1>2
<1>4. 1 \in 1..n /\ n \in Nat
  BY <1>1, <1>2
<1>5. s.nv <= s.batches[1].nv
  <2>1. s.batches[1].nv \in Nat /\ s.batches[1].nv >= s.nv
    BY <1>3, <1>4
  <2> QED
    BY <1>1, <2>1
<1>6. ASSUME NEW i \in 1..n, i + 1 \in 1..n PROVE s.batches[i].nv <= s.batches[i + 1].nv
  <2>1. i + 1 # 1 /\ (i + 1) - 1 = i
    BY <1>4
  <2>2. /\ s.batches[i].nv \in Nat /\ s.batches[i + 1].nv \in Nat
        /\ s.batches[i + 1].nv >= s.batches[i].nv
    BY <1>3, <1>6, <2>1
  <2> QED
    BY <2>2
<1>7. \A i \in 1..n : /\ RowsWithin(s.batches[i].ins, 0..s.batches[i].nv - 1)
                      /\ RowsWithin(s.batches[i].del, 0..s.batches[i].nv - 1)
                      /\ RowsWithin(s.batches[i].upd, 0..s.batches[i].nv - 1)
  BY <1>1, <1>2 DEF RowsWithin, RowsOver
<1>8. RowsWithin(s.rows, 0..s.nv - 1)
  BY <1>1 DEF RowsWithin, RowsOver
<1> QED
  BY <1>1, <1>2, <1>3, <1>5, <1>6, <1>7, <1>8

(* It holds at the start: the mirror is built from the first rows. *)
LEMMA MirrorInit == Init => MirrorInv
<1> SUFFICES ASSUME Init PROVE MirrorInv
  OBVIOUS
<1>1. PICK s \in Scripts :
        /\ script = s /\ b = 1 /\ host = "insert" /\ nv = s.nv
        /\ main = InitFromSortedEdges([idx \in Indexes |-> EmptyMain(s.nv)], s.rows)
        /\ rows = s.rows
  BY DEF Init, ConvertGlobalIndex
<1>2. /\ s.nv \in Nat /\ RowsWithin(s.rows, 0..s.nv - 1)
      /\ Len(s.batches) \in Nat /\ Len(s.batches) > 0
      /\ s.nv <= s.batches[1].nv
  BY BatchFacts
<1>3. AtBatch
  BY <1>1, <1>2 DEF AtBatch, Batch
<1>4. Holds(main, nv, rows)
  BY <1>1, <1>2, InitHolds
<1>5. MirrorHolds(rows)
  BY <1>1, <1>4 DEF MirrorHolds
<1> QED
  BY <1>1, <1>3, <1>5 DEF MirrorInv

(* Each step of the main thread keeps it, and the kernels touch nothing it *)
(* is about.                                                               *)
LEMMA MirrorStep == MirrorInv /\ [Next]_vars => MirrorInv'
<1> SUFFICES ASSUME MirrorInv, [Next]_vars PROVE MirrorInv'
  OBVIOUS
<1>1. AtBatch /\ (script.merged => host # "edge")
  BY DEF MirrorInv
<1>2. /\ script \in Scripts /\ b \in 1..Len(script.batches) /\ nv \in Nat
      /\ Batch = script.batches[b]
      /\ Len(script.batches) \in Nat
      /\ Batch.nv \in Nat
      /\ b + 1 \in 1..Len(script.batches) => Batch.nv <= script.batches[b + 1].nv
      /\ RowsWithin(Batch.ins, 0..Batch.nv - 1)
      /\ RowsWithin(Batch.del, 0..Batch.nv - 1)
      /\ RowsWithin(Batch.upd, 0..Batch.nv - 1)
  <2>1. script \in Scripts /\ b \in 1..Len(script.batches) /\ nv \in Nat
    BY <1>1 DEF AtBatch
  <2> QED
    BY <2>1, BatchFacts DEF Batch
<1>3. script' = script
  BY DEF Next, Host, vars, TransferInsertions, Exit, TransferDeletions, TransferUpdate,
         UpdateGlobalIndex, Search, BatchUpdateGlobalIndex, NextBatch, Stopped
<1>4. ASSUME UNCHANGED <<nv, script, b, host, main, upd, rows>> PROVE MirrorInv'
  <2>1. AtBatch' <=> AtBatch
    BY <1>4 DEF AtBatch, Batch
  <2>2. \A R : MirrorHolds(R)' <=> MirrorHolds(R)
    BY <1>4 DEF MirrorHolds, Batch, Holds
  <2>3. Batch' = Batch
    BY <1>4 DEF Batch
  <2> QED
    BY <1>4, <2>1, <2>2, <2>3 DEF MirrorInv
<1>5. CASE TransferInsertions
  <2>1. /\ host = "insert" /\ host' = "remove" /\ nv' = Batch.nv
        /\ main' = ResizeForDVCount(main, Batch.nv)
        /\ rows' = rows \cup Batch.ins /\ b' = b
    BY <1>5 DEF TransferInsertions, At, AllocateFromMapping
  <2>2. Batch' = Batch
    BY <1>3, <2>1 DEF Batch
  <2>3. AtBatch'
    BY <1>2, <1>3, <2>1, <2>2 DEF AtBatch
  <2>4. ASSUME script.merged PROVE \E R : MirrorHolds(R)'
    <3>1. nv <= Batch.nv
      BY <1>1, <2>1 DEF AtBatch
    <3>2. PICK R : Holds(main, nv, R) /\ rows = R
      BY <2>1, <2>4 DEF MirrorInv, MirrorHolds
    <3>3. Holds(main', nv', R)
      BY <1>2, <2>1, <3>1, <3>2, ResizeHolds
    <3>4. rows' = R \cup Batch'.ins
      BY <2>1, <2>2, <3>2
    <3>5. MirrorHolds(R)'
      BY <2>1, <3>3, <3>4 DEF MirrorHolds
    <3> QED
      BY <3>5
  <2> QED
    BY <1>3, <2>1, <2>3, <2>4 DEF MirrorInv
<1>6. ASSUME UNCHANGED <<script, nv>>, b' = b, host # "insert", host' # "insert"
      PROVE  Batch' = Batch /\ AtBatch'
  BY <1>1, <1>6 DEF AtBatch, Batch
<1>7. CASE Exit
  <2>1. /\ host \in {"remove", "search", "next"} /\ host' = "exit"
        /\ UNCHANGED <<nv, b, main, upd, rows>>
    BY <1>7 DEF Exit, At, poolVars
  <2>2. AtBatch'
    BY <1>3, <1>6, <2>1
  <2>3. ASSUME script.merged PROVE \E R : MirrorHolds(R)'
    <3>1. PICK R : Holds(main, nv, R)
      BY <2>3 DEF MirrorInv, MirrorHolds
    <3>2. MirrorHolds(R)'
      BY <2>1, <3>1 DEF MirrorHolds
    <3> QED
      BY <3>2
  <2> QED
    BY <1>3, <2>1, <2>2, <2>3 DEF MirrorInv
<1>8. CASE TransferDeletions
  <2>1. /\ host = "remove" /\ host' = "mirror" /\ rows' = rows \ Batch.del
        /\ UNCHANGED <<nv, b, main, upd>>
    BY <1>8 DEF TransferDeletions, At
  <2>2. Batch' = Batch /\ AtBatch'
    BY <1>3, <1>6, <2>1
  <2>3. ASSUME script.merged PROVE \E R : MirrorHolds(R)'
    <3>1. PICK R : Holds(main, nv, R) /\ rows = R \cup Batch.ins
      BY <2>1, <2>3 DEF MirrorInv, MirrorHolds
    <3>2. MirrorHolds(R)'
      BY <2>1, <2>2, <3>1 DEF MirrorHolds
    <3> QED
      BY <3>2
  <2> QED
    BY <1>3, <2>1, <2>2, <2>3 DEF MirrorInv
<1>9. CASE TransferUpdate
  <2>1. /\ host = "mirror"
        /\ main' = MergeRemove(MergeInsert(main, Batch.ins), Batch.del)
        /\ IF Batch.upd = {} THEN host' = "next" /\ UNCHANGED upd
           ELSE /\ upd' = RebuildUpdate(Batch.upd)
                /\ host' = IF script.merged THEN "search" ELSE "edge"
        /\ UNCHANGED <<nv, b, rows>>
    BY <1>9 DEF TransferUpdate, At
  <2>2. host' \in {"next", "search", "edge"} /\ (script.merged => host' # "edge")
    BY <2>1
  <2>3. Batch' = Batch /\ AtBatch'
    BY <1>3, <1>6, <2>1, <2>2
  <2>4. ASSUME script.merged PROVE \E R : MirrorHolds(R)'
    <3>1. PICK R : Holds(main, nv, R) /\ rows = (R \cup Batch.ins) \ Batch.del
      BY <2>1, <2>4 DEF MirrorInv, MirrorHolds
    <3>2. nv = Batch.nv
      BY <1>1, <2>1 DEF AtBatch
    <3>3. Holds(MergeInsert(main, Batch.ins), nv, Combined(R, Batch.ins, TRUE))
      BY <1>2, <3>1, <3>2, MergeHolds DEF MergeInsert
    <3>4. Holds(main', nv, Combined(Combined(R, Batch.ins, TRUE), Batch.del, FALSE))
      <4> DEFINE T == Combined(R, Batch.ins, TRUE)
                 mirror == MergeInsert(main, Batch.ins)
      <4> HIDE DEF T, mirror
      <4>1. Holds(mirror, nv, T) /\ main' = Merge(mirror, Batch.del, FALSE)
        BY <2>1, <3>3 DEF T, mirror, MergeRemove
      <4>2. Holds(main', nv, Combined(T, Batch.del, FALSE))
        BY <1>2, <3>2, <4>1, MergeHolds
      <4> QED
        BY <4>2 DEF T
    <3>5. Holds(main', nv', rows')
      BY <2>1, <3>1, <3>4 DEF Combined
    <3>6. PICK T : T = rows'
      OBVIOUS
    <3>7. MirrorHolds(T)'
      BY <2>2, <3>5, <3>6 DEF MirrorHolds
    <3> QED
      BY <3>7
  <2>5. host' = "search" => upd' = RebuildUpdate(Batch'.upd)
    BY <2>1, <2>3
  <2> QED
    BY <1>3, <2>2, <2>3, <2>4, <2>5 DEF MirrorInv
<1>10. CASE UpdateGlobalIndex
  <2>1. host = "edge" /\ host' = "search" /\ UNCHANGED <<nv, b>>
    BY <1>10 DEF UpdateGlobalIndex, At
  <2>2. AtBatch'
    BY <1>3, <1>6, <2>1
  <2> QED
    BY <1>1, <1>3, <2>1, <2>2 DEF MirrorInv
<1>11. CASE Search
  <2>1. /\ host = "search" /\ host' \in {"batch", "edge", "next"}
        /\ script.merged => host' = "batch"
        /\ UNCHANGED <<nv, b, main, rows>>
    BY <1>11 DEF Search, At, poolVars
  <2>2. Batch' = Batch /\ AtBatch'
    BY <1>3, <1>6, <2>1
  <2>3. ASSUME script.merged PROVE \E R : MirrorHolds(R)'
    <3>1. PICK R : Holds(main, nv, R) /\ rows = R
      BY <2>1, <2>3 DEF MirrorInv, MirrorHolds
    <3>2. MirrorHolds(R)'
      BY <2>1, <2>3, <3>1 DEF MirrorHolds
    <3> QED
      BY <3>2
  <2> QED
    BY <1>3, <2>1, <2>2, <2>3 DEF MirrorInv
<1>12. CASE BatchUpdateGlobalIndex
  <2>1. /\ host = "batch" /\ host' = "next"
        /\ main' = MergeInsert(main, Batch.upd) /\ rows' = rows \cup Batch.upd
        /\ UNCHANGED <<nv, b>>
    BY <1>12 DEF BatchUpdateGlobalIndex, At
  <2>2. Batch' = Batch /\ AtBatch'
    BY <1>3, <1>6, <2>1
  <2>3. ASSUME script.merged PROVE \E R : MirrorHolds(R)'
    <3>1. Holds(main, nv, rows)
      BY <2>1, <2>3 DEF MirrorInv, MirrorHolds
    <3>2. nv = Batch.nv
      BY <1>1, <2>1 DEF AtBatch
    <3>3. Holds(main', nv, Combined(rows, Batch.upd, TRUE))
      BY <1>2, <2>1, <3>1, <3>2, MergeHolds DEF MergeInsert
    <3>4. Holds(main', nv', rows')
      BY <2>1, <3>3 DEF Combined
    <3>5. PICK T : T = rows'
      OBVIOUS
    <3>6. MirrorHolds(T)'
      BY <2>1, <3>4, <3>5 DEF MirrorHolds
    <3> QED
      BY <3>6
  <2> QED
    BY <1>3, <2>1, <2>2, <2>3 DEF MirrorInv
<1>13. CASE NextBatch
  <2>1. /\ host = "next" /\ UNCHANGED <<nv, main, rows>>
        /\ IF b < Len(script.batches) THEN b' = b + 1 /\ host' = "insert"
           ELSE host' = "done" /\ UNCHANGED b
    BY <1>13 DEF NextBatch, At, poolVars
  <2>2. nv = Batch.nv
    BY <1>1, <2>1 DEF AtBatch
  <2>3. AtBatch'
    <3>1. CASE b < Len(script.batches)
      <4>1. b + 1 \in 1..Len(script.batches)
        BY <1>2, <3>1
      <4>2. Batch' = script.batches[b + 1]
        BY <1>3, <2>1, <3>1 DEF Batch
      <4> QED
        BY <1>2, <1>3, <2>1, <2>2, <3>1, <4>1, <4>2 DEF AtBatch
    <3>2. CASE ~(b < Len(script.batches))
      <4>1. Batch' = Batch
        BY <1>3, <2>1, <3>2 DEF Batch
      <4> QED
        BY <1>2, <1>3, <2>1, <2>2, <3>2, <4>1 DEF AtBatch
    <3> QED
      BY <3>1, <3>2
  <2>4. ASSUME script.merged PROVE \E R : MirrorHolds(R)'
    <3>1. Holds(main, nv, rows)
      BY <2>1, <2>4 DEF MirrorInv, MirrorHolds
    <3>2. Holds(main', nv', rows')
      BY <2>1, <3>1
    <3>3. host' \in {"insert", "done"}
      BY <2>1
    <3>4. PICK T : T = rows'
      OBVIOUS
    <3>5. MirrorHolds(T)'
      BY <3>2, <3>3, <3>4 DEF MirrorHolds
    <3> QED
      BY <3>5
  <2> QED
    BY <1>3, <2>1, <2>3, <2>4 DEF MirrorInv
<1>14. CASE Kernel /\ UNCHANGED <<script, b, host, edge, main, upd, rows>>
  <2>1. UNCHANGED nv
    BY <1>14 DEF Kernel, Take, Place, SetSize, MergeRound, RemoveCSR, KernelEnds
  <2> QED
    BY <1>4, <1>14, <2>1
<1>15. CASE Stopped \/ UNCHANGED vars
  BY <1>4, <1>15 DEF Stopped, vars, poolVars
<1> QED
  BY <1>5, <1>7, <1>8, <1>9, <1>10, <1>11, <1>12, <1>13, <1>14, <1>15 DEF Next, Host

(* The search of the CPU reads from the mirror the rows of the index and   *)
(* of the update.                                                          *)
LEMMA MirrorSafe == MirrorInv => MirrorRead
<1> SUFFICES ASSUME MirrorInv, Searching, script.merged, NEW u \in 0..nv - 1
             PROVE  /\ [idx \in Indexes |-> MainList(main[idx], u)] = Lists(rows, u)
                    /\ [idx \in Indexes |-> UpdateList(upd[idx], u)] = Lists(Batch.upd, u)
  BY DEF MirrorRead
<1>1. host = "search"
  BY DEF Searching, At
<1>2. /\ AtBatch /\ Holds(main, nv, rows) /\ upd = RebuildUpdate(Batch.upd)
  BY <1>1 DEF MirrorInv, MirrorHolds
<1>3. \A idx \in Indexes : MainList(main[idx], u) = AscendingSeq(Delta(rows, idx, u))
  BY <1>2 DEF Holds
<1>4. nv \in Nat /\ RowsWithin(Batch.upd, 0..nv - 1)
  BY <1>1, <1>2, BatchFacts DEF AtBatch, Batch
<1>5. 0..nv - 1 \subseteq Nat /\ IsFiniteSet(0..nv - 1)
  BY <1>4, Vertices
<1>6. \A idx \in Indexes : UpdateList(UpdateOf(Batch.upd, idx), u) = AscendingSeq(Delta(Batch.upd, idx, u))
  BY <1>4, <1>5, UpdateOfFacts
<1>7. \A idx \in Indexes : upd[idx] = UpdateOf(Batch.upd, idx)
  BY <1>2 DEF RebuildUpdate
<1> QED
  BY <1>3, <1>6, <1>7 DEF Lists

(* Every search of the CPU that is started reads from the mirror, at every *)
(* vertex and in every direction, exactly the rows merged and not taken    *)
(* out since, in order, and from the update index those of the batch       *)
(* (cpu_index_mirror.cpp): whatever lists have been left behind, compacted *)
(* or emptied, and whichever vertices are new.                             *)
THEOREM MirrorIsTheIndex == Spec => []MirrorRead
<1>1. Spec => []MirrorInv
  BY MirrorInit, MirrorStep, PTL DEF Spec
<1> QED
  BY <1>1, MirrorSafe, PTL

=============================================================================
