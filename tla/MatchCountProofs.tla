-------------------------- MODULE MatchCountProofs --------------------------
(***************************************************************************)
(* Every match that is due for a batch is reached from one starting edge   *)
(* and no other, and is counted once: proofs about MergedMatching, for     *)
(* every query that fits into the tags and has at most one repeated label  *)
(* per vertex, every plan, data graph and stream, and however far Stage 1  *)
(* is ahead.                                                               *)
(*                                                                         *)
(* The matches, the support masks and the levels of the matching are       *)
(* recursive functions: they exist by Recursion, and what they hold is     *)
(* shown position by position.  The invariant says that the rows staged    *)
(* for a batch contain the rows of every match of its graph, and that the  *)
(* update index is the part of them that runs along the window.  The       *)
(* count is a sum over starting edges of sums over matches: the matches of *)
(* the starting edges are parts of those due, each of multiplicity one.    *)
(***************************************************************************)
EXTENDS MergedMatching, InductionLemmas, GlobalIndexProofs

-----------------------------------------------------------------------------
(* The places of a match where it uses a query edge, and the query edge.   *)
Places == {p \in Positions \X Positions : p[1] \in Backward(Order, p[2])}
EdgeAt(p) == EdgeOf[Order[p[1]]][Order[p[2]]]

LEMMA CopiesNat ==
  ASSUME NEW B, IsABag(B), NEW r
  PROVE  CountOf(r, B) \in Nat
BY DEF IsABag, CountOf, BagIn, BagToSet

LEMMA PositionsNat == Positions \subseteq Nat
BY DEF Positions

LEMMA OrderFacts ==
  /\ Order \in [Positions -> QV]
  /\ \A k, d \in Positions : Order[k] = Order[d] => k = d
  /\ \A u \in QV : \E d \in Positions : Order[d] = u
BY PlanAssumption DEF Bijection, Injection, Surjection, IsInjective

LEMMA SameEnds ==
  ASSUME NEW u \in QV, NEW w \in QV, NEW x \in QV, NEW y \in QV,
         w \in QNei[u], EdgeOf[u][w] = EdgeOf[x][y]
  PROVE  (u = x /\ w = y) \/ (u = y /\ w = x)
<1>1. {u, w} = {x, y}
  BY EdgeAssumption
<1> QED
  BY <1>1

(* Different places have different query edges, and every query edge has a *)
(* place: a match runs along each query edge once.                         *)
LEMMA EdgePlaces ==
  /\ \A p \in Places : EdgeAt(p) \in QEdges
  /\ \A p, q \in Places : EdgeAt(p) = EdgeAt(q) => p = q
  /\ \A e \in QEdges : \E p \in Places : EdgeAt(p) = e
<1>1. ASSUME NEW p \in Places PROVE EdgeAt(p) \in QEdges
  <2>1. Order[p[1]] \in QV /\ Order[p[2]] \in QV /\ Order[p[1]] \in QNei[Order[p[2]]]
    BY OrderFacts DEF Places, Backward
  <2>2. EdgeOf[Order[p[2]]][Order[p[1]]] = EdgeAt(p) /\ EdgeAt(p) # 0
    BY <2>1, EdgeAssumption DEF EdgeAt
  <2> QED
    BY <2>1, <2>2 DEF QEdges
<1>2. ASSUME NEW p \in Places, NEW q \in Places, EdgeAt(p) = EdgeAt(q)
      PROVE  p = q
  <2>1. /\ p = <<p[1], p[2]>> /\ q = <<q[1], q[2]>>
        /\ p[1] \in Positions /\ p[2] \in Positions
        /\ q[1] \in Positions /\ q[2] \in Positions
        /\ p[1] \in 1..p[2] - 1 /\ q[1] \in 1..q[2] - 1
        /\ Order[p[1]] \in QNei[Order[p[2]]]
    BY DEF Places, Backward
  <2>2. /\ Order[p[1]] \in QV /\ Order[p[2]] \in QV
        /\ Order[q[1]] \in QV /\ Order[q[2]] \in QV
    BY <2>1, OrderFacts
  <2>3. EdgeOf[Order[p[2]]][Order[p[1]]] = EdgeOf[Order[q[2]]][Order[q[1]]]
    BY <2>2, <1>2, EdgeAssumption DEF EdgeAt
  <2>4. \/ Order[p[1]] = Order[q[1]] /\ Order[p[2]] = Order[q[2]]
        \/ Order[p[1]] = Order[q[2]] /\ Order[p[2]] = Order[q[1]]
    BY <2>1, <2>2, <2>3, SameEnds
  <2>5. \/ p[1] = q[1] /\ p[2] = q[2]
        \/ p[1] = q[2] /\ p[2] = q[1]
    BY <2>1, <2>4, OrderFacts
  <2>6. p[1] < p[2] /\ q[1] < q[2] /\ p[1] \in Nat /\ p[2] \in Nat /\ q[1] \in Nat /\ q[2] \in Nat
    BY <2>1, PositionsNat
  <2>7. p[1] = q[1] /\ p[2] = q[2]
    BY <2>5, <2>6
  <2> QED
    BY <2>1, <2>7
<1>3. ASSUME NEW e \in QEdges PROVE \E p \in Places : EdgeAt(p) = e
  <2>1. PICK u \in QV, w \in QV : e = EdgeOf[u][w] /\ e # 0
    BY DEF QEdges
  <2>2. w \in QNei[u] /\ u \in QNei[w] /\ EdgeOf[w][u] = e
    BY <2>1, EdgeAssumption
  <2>3. PICK k \in Positions : Order[k] = u
    BY OrderFacts
  <2>4. PICK d \in Positions : Order[d] = w
    BY OrderFacts
  <2>5. k # d
    BY <2>2, <2>3, <2>4, QueryAssumption
  <2>6. k \in Nat /\ d \in Nat /\ k >= 1 /\ d >= 1
    BY DEF Positions
  <2>7. CASE k < d
    <3>1. <<k, d>> \in Places /\ EdgeAt(<<k, d>>) = e
      BY <2>1, <2>2, <2>3, <2>4, <2>6, <2>7 DEF Places, Backward, EdgeAt
    <3> QED BY <3>1
  <2>8. CASE d < k
    <3>1. <<d, k>> \in Places /\ EdgeAt(<<d, k>>) = e
      BY <2>1, <2>2, <2>3, <2>4, <2>6, <2>8 DEF Places, Backward, EdgeAt
    <3> QED BY <3>1
  <2> QED
    BY <2>5, <2>6, <2>7, <2>8
<1> QED
  BY <1>1, <1>2, <1>3

(* A set of query edges has a largest one. *)
LEMMA LargestEdge ==
  ASSUME NEW U, U \subseteq QEdges, U # {}
  PROVE  \E e \in U : \A f \in U : f <= e
<1>1. \A e \in U : e \in 0..MAX_ECOUNT
  BY EdgeAssumption DEF QEdges
<1>2. MAX_ECOUNT \in Nat
  BY EdgeAssumption
<1> DEFINE T == {MAX_ECOUNT - e : e \in U}
<1>3. T \subseteq Nat /\ T # {}
  BY <1>1, <1>2
<1>4. PICK t \in T : \A y \in T : ~ (<<y, t>> \in OpToRel(<, Nat))
  BY <1>3, WFMin, NatLessThanWellFounded
<1>5. \A y \in T : ~ (y < t)
  BY <1>3, <1>4 DEF OpToRel
<1>6. PICK e \in U : t = MAX_ECOUNT - e
  OBVIOUS
<1>7. ASSUME NEW f \in U PROVE f <= e
  <2>1. MAX_ECOUNT - f \in T
    OBVIOUS
  <2>2. ~ (MAX_ECOUNT - f < MAX_ECOUNT - e)
    BY <2>1, <1>5, <1>6
  <2> QED
    BY <2>2, <1>1, <1>2
<1> QED
  BY <1>7

(* What a match that starts at ei reads of a row (Copies): SetupLocalIndex *)
(* and the visibility test of the kernels.                                 *)
LEMMA SeenAt ==
  ASSUME NEW index, NEW updates, IsABag(index), IsABag(updates),
         NEW ei \in QEdges, NEW m, NEW p \in Places
  PROVE  LET r == RowAt(m, p[1], p[2])
         IN  Seen(index, updates, ei, r) <=>
               \/ EdgeAt(p) # ei /\ CountOf(r, index) > 0
               \/ EdgeAt(p) <= ei /\ CountOf(r, updates) > 0
<1> DEFINE r == RowAt(m, p[1], p[2])
<1>1. CountOf(r, index) \in Nat /\ CountOf(r, updates) \in Nat
  BY CopiesNat
<1>2. EdgeOf[r[3]][r[4]] = EdgeAt(p)
  BY DEF RowAt, EdgeAt
<1>3. EdgeAt(p) \in Int /\ ei \in Int
  BY EdgePlaces, EdgeAssumption DEF QEdges
<1>4. CASE EdgeAt(p) = ei
  BY <1>1, <1>2, <1>3, <1>4 DEF Seen, Copies
<1>5. CASE EdgeAt(p) < ei
  BY <1>1, <1>2, <1>3, <1>5 DEF Seen, Copies
<1>6. CASE EdgeAt(p) > ei
  BY <1>1, <1>2, <1>3, <1>6 DEF Seen, Copies
<1> QED
  BY <1>3, <1>4, <1>5, <1>6

(* Every row of an assignment m is in one of index and updates, one at     *)
(* least in the updates; and every row is readable from e.                 *)
SplitRows(index, updates, m) ==
  \A p \in Places : LET r == RowAt(m, p[1], p[2])
                    IN  CountOf(r, index) > 0 <=> ~(CountOf(r, updates) > 0)

UsesUpdate(updates, m) == \E p \in Places : CountOf(RowAt(m, p[1], p[2]), updates) > 0

AllSeen(index, updates, e, m) ==
  \A p \in Places : Seen(index, updates, e, RowAt(m, p[1], p[2]))

(* The visibility rule of SetupLocalIndex and extendBFSAllBit: when index  *)
(* and updates have no row in common, an assignment of data vertices whose *)
(* rows are all in one of the two, and at least one in the updates, is     *)
(* readable from exactly one starting edge.  So no match of a batch is     *)
(* lost and none is found twice, whatever update rows it combines.         *)
THEOREM OneVisibleStart ==
  ASSUME NEW index, NEW updates, IsABag(index), IsABag(updates), NEW m,
         SplitRows(index, updates, m), UsesUpdate(updates, m)
  PROVE  \E ei \in QEdges : \A e \in QEdges : AllSeen(index, updates, e, m) <=> e = ei
<1> DEFINE New(p) == CountOf(RowAt(m, p[1], p[2]), updates) > 0
           Indexed(p) == CountOf(RowAt(m, p[1], p[2]), index) > 0
           All(e) == \A p \in Places : Seen(index, updates, e, RowAt(m, p[1], p[2]))
<1>1. \A p \in Places : (Indexed(p) \/ New(p)) /\ ~(Indexed(p) /\ New(p))
  BY DEF SplitRows
<1>2. \A p \in Places : EdgeAt(p) \in QEdges
  BY EdgePlaces
<1>3. QEdges \subseteq Int
  BY EdgeAssumption DEF QEdges
<1>4. \A e \in QEdges : All(e) <=>
        \A p \in Places : (EdgeAt(p) # e /\ Indexed(p)) \/ (EdgeAt(p) <= e /\ New(p))
  BY SeenAt
<1> DEFINE U == {EdgeAt(p) : p \in {q \in Places : New(q)}}
<1>5. U \subseteq QEdges /\ U # {}
  BY <1>2 DEF UsesUpdate
<1>6. PICK ei \in U : \A f \in U : f <= ei
  BY <1>5, LargestEdge
<1>7. PICK last \in Places : New(last) /\ EdgeAt(last) = ei
  OBVIOUS
<1> HIDE DEF New, Indexed, All
<1>8. All(ei)
  <2>1. SUFFICES ASSUME NEW p \in Places
                 PROVE  (EdgeAt(p) # ei /\ Indexed(p)) \/ (EdgeAt(p) <= ei /\ New(p))
    BY <1>4, <1>5
  <2>2. CASE New(p)
    BY <2>2, <1>6
  <2>3. CASE ~New(p)
    BY <2>3, <1>1, <1>7, EdgePlaces
  <2> QED
    BY <2>2, <2>3
<1>9. ASSUME NEW e \in QEdges, All(e) PROVE e = ei
  <2>1. ei <= e
    BY <1>1, <1>4, <1>7, <1>9
  <2>2. PICK p \in Places : EdgeAt(p) = e
    BY EdgePlaces
  <2>3. New(p)
    BY <1>4, <1>9, <2>2
  <2>4. e <= ei
    BY <1>6, <2>2, <2>3
  <2>5. e \in Int /\ ei \in Int
    BY <1>3, <1>5
  <2> QED
    BY <2>1, <2>4, <2>5
<1>10. ei \in QEdges
  BY <1>5
<1>11. \A e \in QEdges : All(e) <=> e = ei
  BY <1>8, <1>9
<1> QED
  BY <1>10, <1>11 DEF All, AllSeen

-----------------------------------------------------------------------------
(* Sums and products over finite sets. *)

(* A sum whose terms are the sizes of disjoint sets is the size of their   *)
(* union.                                                                  *)
LEMMA SumOfParts ==
  ASSUME NEW S, IsFiniteSet(S), NEW P, NEW f, f = [x \in S |-> Cardinality(P[x])],
         \A x \in S : IsFiniteSet(P[x]),
         \A x, y \in S : x # y => P[x] \cap P[y] = {}
  PROVE  SumFunction(f) = Cardinality(UNION {P[x] : x \in S})
<1> DEFINE part(s) == UNION {P[x] : x \in s}
           first(s) == CHOOSE x \in s : TRUE
           w == [s \in SUBSET S |-> Cardinality(part(s))]
           Body(g, s) == IF s = {} THEN 0 ELSE f[first(s)] + g[s \ {first(s)}]
           iter[s \in SUBSET S] ==
             IF s = {} THEN 0 ELSE LET x == CHOOSE x \in s : TRUE IN f[x] + iter[s \ {x}]
<1>1. SumFunction(f) = iter[S]
  <2>1. DOMAIN f = S
    OBVIOUS
  <2> QED
    BY <2>1 DEF SumFunction, SumFunctionOnSet, FoldFunctionOnSet, MapThenFoldSet
<1>2. iter = CHOOSE g : g = [s \in SUBSET S |-> Body(g, s)]
  BY DEF iter
<1>3. ASSUME NEW s \in SUBSET S, NEW x \in s
      PROVE  Cardinality(part(s)) = f[x] + Cardinality(part(s \ {x}))
  <2>1. part(s) = P[x] \cup part(s \ {x})
    OBVIOUS
  <2>2. P[x] \cap part(s \ {x}) = {}
    OBVIOUS
  <2>3. IsFiniteSet(P[x]) /\ f[x] = Cardinality(P[x])
    OBVIOUS
  <2>4. IsFiniteSet(part(s \ {x}))
    <3>1. IsFiniteSet(s \ {x})
      BY FS_Subset
    <3>2. IsFiniteSet({P[y] : y \in s \ {x}})
      BY <3>1, FiniteImage
    <3> QED
      BY <3>2, FS_UNION
  <2> DEFINE A == P[x]
             B == part(s \ {x})
  <2>5. IsFiniteSet(A) /\ IsFiniteSet(B) /\ A \cap B = {} /\ part(s) = A \cup B /\ f[x] = Cardinality(A)
    BY <2>1, <2>2, <2>3, <2>4
  <2> HIDE DEF part, A, B
  <2>6. Cardinality(A \cup B) = Cardinality(A) + Cardinality(B) - Cardinality({})
    BY <2>5, FS_Union
  <2>7. Cardinality({}) = 0 /\ Cardinality(A) \in Nat /\ Cardinality(B) \in Nat
    BY <2>5, FS_EmptySet, FS_CardinalityType
  <2>8. Cardinality(part(s)) = f[x] + Cardinality(B)
    BY <2>5, <2>6, <2>7
  <2> QED
    BY <2>8 DEF B
<1> HIDE DEF part, iter
<1>4. \A s \in SUBSET S : s # {} => first(s) \in s
  OBVIOUS
<1>5. part({}) = {} /\ Cardinality({}) = 0
  BY FS_EmptySet DEF part
<1> HIDE DEF first
<1>6. w = [s \in SUBSET S |-> Body(w, s)]
  <2>1. ASSUME NEW s \in SUBSET S PROVE w[s] = Body(w, s)
    <3>1. CASE s = {}
      BY <1>5, <3>1
    <3>2. CASE s # {}
      BY <1>3, <1>4, <3>2
    <3> QED
      BY <3>1, <3>2
  <2> QED
    BY <2>1
<1>7. iter = [s \in SUBSET S |-> Body(iter, s)]
  <2> HIDE DEF w, Body
  <2> QED
    BY <1>2, <1>6
<1>8. iter[{}] = w[{}]
  BY <1>5, <1>7
<1>9. ASSUME NEW s \in SUBSET S, s # {}, \A x \in s : iter[s \ {x}] = w[s \ {x}]
      PROVE  iter[s] = w[s]
  <2>1. iter[s] = Body(iter, s) /\ w[s] = Body(w, s)
    <3> HIDE DEF w, Body
    <3> QED
      BY <1>6, <1>7
  <2> QED
    BY <1>4, <1>9, <2>1
<1>10. iter[S] = w[S]
  <2> HIDE DEF w
  <2> QED
    BY <1>8, <1>9, Folded
<1> QED
  BY <1>1, <1>10 DEF part

LEMMA SumOfOnes ==
  ASSUME NEW S, IsFiniteSet(S), NEW f, f = [x \in S |-> 1]
  PROVE  SumFunction(f) = Cardinality(S)
<1> DEFINE P == [x \in S |-> {x}]
<1>1. \A x \in S : IsFiniteSet(P[x]) /\ Cardinality(P[x]) = 1
  BY FS_Singleton
<1>2. \A x, y \in S : x # y => P[x] \cap P[y] = {}
  OBVIOUS
<1>3. UNION {P[x] : x \in S} = S
  OBVIOUS
<1>4. f = [x \in S |-> Cardinality(P[x])]
  BY <1>1
<1> HIDE DEF P
<1> QED
  BY <1>1, <1>2, <1>3, <1>4, SumOfParts

LEMMA ProductOfOnes ==
  ASSUME NEW S, IsFiniteSet(S), NEW f, f = [x \in S |-> 1]
  PROVE  FoldFunction(LAMBDA a, b : a * b, 1, f) = 1
<1> DEFINE first(s) == CHOOSE x \in s : TRUE
           w == [s \in SUBSET S |-> 1]
           Body(g, s) == IF s = {} THEN 1 ELSE f[first(s)] * g[s \ {first(s)}]
           iter[s \in SUBSET S] ==
             IF s = {} THEN 1 ELSE LET x == CHOOSE x \in s : TRUE IN f[x] * iter[s \ {x}]
<1>1. FoldFunction(LAMBDA a, b : a * b, 1, f) = iter[S]
  <2>1. DOMAIN f = S
    OBVIOUS
  <2> QED
    BY <2>1 DEF FoldFunction, FoldFunctionOnSet, MapThenFoldSet
<1>2. iter = CHOOSE g : g = [s \in SUBSET S |-> Body(g, s)]
  BY DEF iter
<1> HIDE DEF iter
<1>3. \A s \in SUBSET S : s # {} => first(s) \in s /\ f[first(s)] = 1
  OBVIOUS
<1> HIDE DEF first
<1>4. w = [s \in SUBSET S |-> Body(w, s)]
  BY <1>3
<1>5. iter = [s \in SUBSET S |-> Body(iter, s)]
  <2> HIDE DEF w, Body
  <2> QED
    BY <1>2, <1>4
<1>6. iter[{}] = w[{}]
  BY <1>5
<1>7. ASSUME NEW s \in SUBSET S, s # {}, \A x \in s : iter[s \ {x}] = w[s \ {x}]
      PROVE  iter[s] = w[s]
  <2>1. iter[s] = Body(iter, s)
    <3> HIDE DEF w, Body
    <3> QED
      BY <1>5
  <2> QED
    BY <1>3, <1>7, <2>1
<1>8. iter[S] = w[S]
  <2> HIDE DEF w
  <2> QED
    BY <1>6, <1>7, Folded
<1> QED
  BY <1>1, <1>8

-----------------------------------------------------------------------------
(* The matches of a graph. *)
LEMMA QuerySize == Cardinality(QV) \in Nat
BY QueryAssumption, FS_CardinalityType

IsMatch(adj, m) ==
  /\ m \in Seq(DV) /\ Len(m) = Cardinality(QV)
  /\ \A d \in Positions : GLabel[m[d]] = QLabel[Order[d]]
  /\ \A k, d \in Positions : m[k] = m[d] => k = d
  /\ \A p \in Places : m[p[1]] \in adj[m[p[2]]]

LEMMA Extended ==
  ASSUME NEW p \in Seq(DV), NEW x \in DV
  PROVE  /\ Append(p, x) \in Seq(DV) /\ Len(Append(p, x)) = Len(p) + 1
         /\ Append(p, x)[Len(p) + 1] = x
         /\ \A k \in 1..Len(p) : Append(p, x)[k] = p[k]
BY AppendProperties

LEMMA Prefix ==
  ASSUME NEW m \in Seq(DV), NEW d \in Nat, d < Len(m)
  PROVE  LET p == [k \in 1..d |-> m[k]]
         IN  /\ p \in Seq(DV) /\ Len(p) = d /\ m[d + 1] \in DV
             /\ Append(p, m[d + 1]) = [k \in 1..d + 1 |-> m[k]]
<1> DEFINE p == [k \in 1..d |-> m[k]]
           q == [k \in 1..d + 1 |-> m[k]]
<1>1. \A k \in 1..d + 1 : m[k] \in DV
  BY ElementOfSeq
<1>2. p \in Seq(DV) /\ Len(p) = d /\ q \in Seq(DV) /\ Len(q) = d + 1
  <2>1. p \in [1..d -> DV] /\ q \in [1..d + 1 -> DV] /\ d + 1 \in Nat
    BY <1>1
  <2> QED
    BY <2>1, SeqDef, LenProperties
<1>3. m[d + 1] \in DV
  BY <1>1
<1>4. /\ Append(p, m[d + 1]) \in Seq(DV) /\ Len(Append(p, m[d + 1])) = d + 1
      /\ Append(p, m[d + 1])[d + 1] = m[d + 1]
      /\ \A k \in 1..d : Append(p, m[d + 1])[k] = p[k]
  BY <1>2, <1>3, Extended
<1>5. \A k \in 1..d + 1 : Append(p, m[d + 1])[k] = q[k]
  BY <1>4
<1>6. Append(p, m[d + 1]) = q
  BY <1>2, <1>4, <1>5, SeqEqual
<1> QED
  BY <1>2, <1>3, <1>6

(* Embeddings holds the matches: each position is tested when it is filled, *)
(* against those before it.                                                *)
LEMMA EmbeddingsMatch ==
  ASSUME NEW adj, NEW m
  PROVE  m \in Embeddings(adj) <=> IsMatch(adj, m)
<1> DEFINE D == {0} \cup Positions
           N == Cardinality(QV)
           X == SUBSET Seq(DV)
           fits(q, d) ==
             /\ GLabel[q[d]] = QLabel[Order[d]] /\ IsInjective(q)
             /\ \A k \in Backward(Order, d) : q[k] \in adj[q[d]]
           Body(g, d) ==
             IF d = 0 THEN {<<>>}
             ELSE {q \in {Append(p, x) : p \in g[d - 1], x \in DV} : fits(q, d)}
           first[d \in D] ==
             IF d = 0 THEN {<<>>}
             ELSE {q \in {Append(p, x) : p \in first[d - 1], x \in DV} : fits(q, d)}
<1>1. first = CHOOSE g : g = [d \in D |-> Body(g, d)]
  BY DEF first
<1>2. Embeddings(adj) = first[N]
  BY DEF Embeddings
<1>3. N \in Nat /\ D \subseteq 0..N /\ D \subseteq Nat /\ N \in D
  BY QuerySize DEF Positions
<1>4. \A d \in D : d # 0 => d - 1 \in D /\ d - 1 < d /\ d \in Positions
  BY <1>3 DEF Positions
<1> HIDE DEF first, fits, N, D
<1>5. ASSUME NEW d \in D, NEW g \in [D -> X] PROVE Body(g, d) \in X
  <2>1. CASE d = 0
    BY <2>1
  <2>2. CASE d # 0
    <3>1. g[d - 1] \subseteq Seq(DV)
      BY <1>4, <2>2
    <3>2. \A p \in g[d - 1], x \in DV : Append(p, x) \in Seq(DV)
      BY <3>1, Extended
    <3> QED
      BY <2>2, <3>2
  <2> QED
    BY <2>1, <2>2
<1>6. ASSUME NEW d \in D, NEW g \in [D -> X], NEW h \in [D -> X],
             \A k \in D : k < d => g[k] = h[k]
      PROVE  Body(g, d) = Body(h, d)
  <2>1. CASE d = 0
    BY <2>1
  <2>2. CASE d # 0
    <3>1. g[d - 1] = h[d - 1]
      BY <1>4, <1>6, <2>2
    <3> QED
      BY <2>2, <3>1
  <2> QED
    BY <2>1, <2>2
<1> HIDE DEF Body
<1>7. first = [d \in D |-> Body(first, d)]
  <2>1. X # {}
    OBVIOUS
  <2> HIDE DEF X
  <2> DEFINE Step == [z \in D \X [D -> X] |-> Body(z[2], z[1])]
  <2>2. \A d \in D, g \in [D -> X] : Step[<<d, g>>] = Body(g, d)
    OBVIOUS
  <2>3. Step \in [D \X [D -> X] -> X]
    BY <1>5
  <2> HIDE DEF Step
  <2>4. Causal(D, [d \in D |-> d], X, Step)
    BY <1>6, <2>2, <2>3 DEF Causal
  <2>5. PICK g : Follows(D, X, Step, g)
    BY <1>3, <2>1, <2>4, Recursion
  <2>6. g = [d \in D |-> Body(g, d)]
    BY <2>2, <2>5 DEF Follows
  <2> QED
    BY <1>1, <2>6
<1> DEFINE Tested(q, k) ==
             /\ GLabel[q[k]] = QLabel[Order[k]]
             /\ \A b \in Backward(Order, k) : q[b] \in adj[q[k]]
           Holds(q, d) ==
             /\ q \in Seq(DV) /\ Len(q) = d /\ (d # 0 => IsInjective(q))
             /\ \A k \in 1..d : Tested(q, k)
           S == {d \in D : \A q \in first[d] : Holds(q, d)}
<1>8. ASSUME NEW d \in D, \A k \in D : k < d => k \in S PROVE d \in S
  <2> SUFFICES ASSUME NEW q \in first[d] PROVE Holds(q, d)
    OBVIOUS
  <2>1. q \in Body(first, d)
    BY <1>7
  <2>2. CASE d = 0
    <3>1. q = <<>>
      BY <2>1, <2>2 DEF Body
    <3> QED
      BY <2>2, <3>1
  <2>3. CASE d # 0
    <3>1. PICK p \in first[d - 1], x \in DV : q = Append(p, x)
      BY <2>1, <2>3 DEF Body
    <3>2. fits(q, d)
      BY <2>1, <2>3 DEF Body
    <3>3. Holds(p, d - 1)
      BY <1>4, <1>8, <2>3, <3>1
    <3>4. d \in Nat /\ d >= 1 /\ (d - 1) + 1 = d
      BY <1>3, <2>3
    <3>5. /\ q \in Seq(DV) /\ Len(q) = d /\ \A k \in 1..d - 1 : q[k] = p[k]
      BY <3>1, <3>3, <3>4, Extended
    <3>6. Tested(q, d) /\ IsInjective(q)
      BY <3>2 DEF fits
    <3>7. ASSUME NEW k \in 1..d - 1 PROVE Tested(q, k)
      <4>1. Backward(Order, k) \subseteq 1..d - 1
        BY <3>4 DEF Backward
      <4>2. Tested(p, k)
        BY <3>3
      <4> QED
        BY <3>5, <4>1, <4>2
    <3>8. \A k \in 1..d : k = d \/ k \in 1..d - 1
      BY <3>4
    <3> QED
      BY <3>5, <3>6, <3>7, <3>8
  <2> QED
    BY <2>2, <2>3
<1>9. D \subseteq S
  <2> HIDE DEF S
  <2> QED
    BY <1>3, <1>8, Stepwise
<1>10. \A d \in Positions : Backward(Order, d) \subseteq Positions /\ \A k \in Backward(Order, d) : <<k, d>> \in Places
  BY <1>3 DEF Places, Backward, Positions, N
<1>11. ASSUME m \in Embeddings(adj) PROVE IsMatch(adj, m)
  <2>1. Holds(m, N)
    BY <1>2, <1>3, <1>9, <1>11
  <2>2. Positions = 1..N /\ \A k, d \in Positions : m[k] = m[d] => k = d
    <3>1. Positions = 1..N
      BY DEF Positions, N
    <3>2. m \in Seq(DV) /\ Len(m) = N /\ DOMAIN m = 1..N
      BY <2>1
    <3>3. N = 0 \/ IsInjective(m)
      BY <2>1
    <3> QED
      BY <1>3, <3>1, <3>2, <3>3 DEF IsInjective
  <2>3. \A d \in Positions : Tested(m, d)
    BY <2>1, <2>2
  <2>4. \A p \in Places : p[2] \in Positions /\ p[1] \in Backward(Order, p[2])
    BY DEF Places
  <2> QED
    BY <2>1, <2>2, <2>3, <2>4 DEF IsMatch, N
<1>12. ASSUME IsMatch(adj, m) PROVE m \in Embeddings(adj)
  <2> DEFINE pre(d) == [k \in 1..d |-> m[k]]
             R == {d \in D : pre(d) \in first[d]}
  <2>1. /\ m \in Seq(DV) /\ Len(m) = N /\ Positions = 1..N
        /\ \A d \in Positions : GLabel[m[d]] = QLabel[Order[d]]
        /\ \A k, d \in Positions : m[k] = m[d] => k = d
        /\ \A p \in Places : m[p[1]] \in adj[m[p[2]]]
    BY <1>12 DEF IsMatch, Positions, N
  <2>2. ASSUME NEW d \in D, \A k \in D : k < d => k \in R PROVE d \in R
    <3>1. CASE d = 0
      <4>1. pre(d) = <<>>
        BY <3>1
      <4>2. <<>> \in Body(first, 0)
        BY DEF Body
      <4> QED
        BY <1>7, <3>1, <4>1, <4>2
    <3>2. CASE d # 0
      <4> DEFINE p == pre(d - 1)
      <4>1. /\ d - 1 \in D /\ d - 1 < d /\ (d - 1) + 1 = d /\ d - 1 \in Nat /\ d <= N
            /\ d - 1 < Len(m) /\ d \in Positions /\ d \in Nat
        BY <1>3, <1>4, <2>1, <3>2
      <4>2. p \in Seq(DV) /\ Len(p) = d - 1 /\ m[d] \in DV /\ Append(p, m[d]) = pre(d)
        BY <2>1, <4>1, Prefix
      <4>3. p \in first[d - 1]
        BY <2>2, <4>1
      <4>4. \A k \in 1..d : k \in Positions /\ pre(d)[k] = m[k]
        BY <2>1, <4>1
      <4>5. GLabel[pre(d)[d]] = QLabel[Order[d]]
        BY <2>1, <4>1, <4>4
      <4>6. IsInjective(pre(d))
        BY <2>1, <4>4 DEF IsInjective
      <4>7. ASSUME NEW k \in Backward(Order, d) PROVE pre(d)[k] \in adj[pre(d)[d]]
        <5>1. k \in 1..d - 1 /\ <<k, d>> \in Places
          BY <1>10, <4>1 DEF Backward
        <5>2. m[k] \in adj[m[d]]
          BY <2>1, <5>1
        <5> QED
          BY <4>1, <4>4, <5>1, <5>2
      <4>8. fits(pre(d), d)
        BY <4>5, <4>6, <4>7 DEF fits
      <4>9. pre(d) \in Body(first, d)
        <5> HIDE DEF p, pre
        <5> QED
          BY <3>2, <4>2, <4>3, <4>8 DEF Body
      <4> QED
        BY <1>7, <4>9
    <3> QED
      BY <3>1, <3>2
  <2>3. D \subseteq R
    <3> HIDE DEF R
    <3> QED
      BY <1>3, <2>2, Stepwise
  <2>4. pre(N) = m
    <3>1. m = [k \in 1..N |-> m[k]]
      BY <2>1
    <3> QED
      BY <3>1
  <2> QED
    BY <1>2, <1>3, <2>3, <2>4
<1> QED
  BY <1>11, <1>12

-----------------------------------------------------------------------------
(* The support masks keep an assignment whose rows are all readable, and   *)
(* whose rows of the starting edge are in the update index.                *)
RowOf(a, u, w) == <<a[u], a[w], u, w>>

LEMMA TwoPositions ==
  ASSUME NEW e \in QEdges
  PROVE  1 \in Positions /\ 2 \in Positions /\ 2 \in 1..Cardinality(QV)
<1>1. PICK p \in Places : EdgeAt(p) = e
  BY EdgePlaces
<1>2. p[1] \in 1..Cardinality(QV) /\ p[2] \in 1..Cardinality(QV) /\ p[1] \in 1..p[2] - 1
  BY DEF Places, Positions, Backward
<1> QED
  BY <1>2, QuerySize DEF Positions

Readable(index, updates, e, a) ==
  \A u \in QV : \A w \in QNei[u] :
    /\ MaskReads(index, updates, e, RowOf(a, u, w))
    /\ EdgeOf[u][w] = e => CountOf(RowOf(a, u, w), updates) > 0

LEMMA MasksKeep ==
  ASSUME NEW index, NEW updates, NEW e \in QEdges
  PROVE  /\ SupportMask(index, updates, e) \in [QV -> SUBSET DV]
         /\ \A a \in [QV -> DV] :
              Readable(index, updates, e, a) =>
                \A u \in QV : a[u] \in SupportMask(index, updates, e)[u]
<1> DEFINE ord == IndexOrder[e]
           D == Positions
           N == Cardinality(QV)
           X == SUBSET DV
           starts(v, d) ==
             \E x \in DV : CountOf(<<v, x, ord[d], ord[3 - d]>>, updates) > 0
           Body(g, d) ==
             {v \in DV : ord[d] \in Rebuild[e] =>
                IF d <= 2 THEN starts(v, d)
                ELSE \A k \in Backward(ord, d) : \E x \in g[k] :
                       MaskReads(index, updates, e, <<v, x, ord[d], ord[k]>>)}
           mask[d \in D] ==
             {v \in DV : ord[d] \in Rebuild[e] =>
                IF d <= 2 THEN starts(v, d)
                ELSE \A k \in Backward(ord, d) : \E x \in mask[k] :
                       MaskReads(index, updates, e, <<v, x, ord[d], ord[k]>>)}
<1>1. mask = CHOOSE g : g = [d \in D |-> Body(g, d)]
  BY DEF mask
<1>2. SupportMask(index, updates, e) = [u \in QV |-> mask[CHOOSE d \in D : ord[d] = u]]
  BY DEF SupportMask
<1>3. N \in Nat /\ D \subseteq 0..N /\ D \subseteq Nat /\ D = 1..N
  BY QuerySize DEF Positions
<1>4. /\ ord \in [D -> QV]
      /\ \A u \in QV : \E d \in D : ord[d] = u
  BY PlanAssumption DEF Bijection, Injection, Surjection
<1>5. /\ ord[1] \in QV /\ ord[2] \in QV /\ EdgeOf[ord[1]][ord[2]] = e
      /\ ord[2] \in QNei[ord[1]] /\ ord[1] \in QNei[ord[2]] /\ EdgeOf[ord[2]][ord[1]] = e
  <2>1. ord[1] \in QV /\ ord[2] \in QV
    BY <1>4, TwoPositions
  <2>2. EdgeOf[ord[1]][ord[2]] = e /\ e # 0
    BY PlanAssumption DEF QEdges
  <2> QED
    BY <2>1, <2>2, EdgeAssumption, QueryAssumption
<1>6. \A d \in D : \A k \in Backward(ord, d) : k \in D /\ k < d /\ ord[k] \in QNei[ord[d]]
  BY <1>3 DEF Backward
<1> HIDE DEF mask, starts, N, D
<1>7. ASSUME NEW d \in D, NEW g \in [D -> X], NEW h \in [D -> X],
             \A k \in D : k < d => g[k] = h[k]
      PROVE  Body(g, d) = Body(h, d)
  <2>1. \A k \in Backward(ord, d) : g[k] = h[k]
    BY <1>6, <1>7
  <2> QED
    BY <2>1
<1>8. \A d \in D, g \in [D -> X] : Body(g, d) \in X
  OBVIOUS
<1> HIDE DEF Body
<1>9. mask = [d \in D |-> Body(mask, d)]
  <2>1. X # {}
    OBVIOUS
  <2> HIDE DEF X
  <2> DEFINE Step == [z \in D \X [D -> X] |-> Body(z[2], z[1])]
  <2>2. \A d \in D, g \in [D -> X] : Step[<<d, g>>] = Body(g, d)
    OBVIOUS
  <2>3. Step \in [D \X [D -> X] -> X]
    BY <1>8
  <2> HIDE DEF Step
  <2>4. Causal(D, [d \in D |-> d], X, Step)
    BY <1>7, <2>2, <2>3 DEF Causal
  <2>5. PICK g : Follows(D, X, Step, g)
    BY <1>3, <2>1, <2>4, Recursion
  <2>6. g = [d \in D |-> Body(g, d)]
    BY <2>2, <2>5 DEF Follows
  <2> QED
    BY <1>1, <2>6
<1>t. SupportMask(index, updates, e) \in [QV -> SUBSET DV]
  <2>1. ASSUME NEW u \in QV PROVE mask[CHOOSE d \in D : ord[d] = u] \subseteq DV
    <3>1. (CHOOSE d \in D : ord[d] = u) \in D
      BY <1>4
    <3>2. \A d \in D : mask[d] = Body(mask, d) /\ Body(mask, d) \subseteq DV
      BY <1>9 DEF Body
    <3> QED
      BY <3>1, <3>2
  <2> QED
    BY <1>2, <2>1
<1> SUFFICES ASSUME NEW a \in [QV -> DV], Readable(index, updates, e, a)
             PROVE  \A u \in QV : a[u] \in SupportMask(index, updates, e)[u]
  BY <1>t
<1>r. \A u \in QV : \A w \in QNei[u] :
        /\ MaskReads(index, updates, e, <<a[u], a[w], u, w>>)
        /\ EdgeOf[u][w] = e => CountOf(<<a[u], a[w], u, w>>, updates) > 0
  BY DEF Readable, RowOf
<1> DEFINE S == {d \in D : a[ord[d]] \in mask[d]}
<1>10. ASSUME NEW d \in D, \A k \in D : k < d => k \in S PROVE d \in S
  <2> DEFINE v == a[ord[d]]
  <2>1. v \in DV /\ ord[d] \in QV
    BY <1>4
  <2>m. mask[d] = Body(mask, d)
    BY <1>9
  <2>2. CASE d <= 2
    <3>1. (d = 1 /\ 3 - d = 2) \/ (d = 2 /\ 3 - d = 1)
      BY <1>3, <2>2
    <3>2. CountOf(<<v, a[ord[3 - d]], ord[d], ord[3 - d]>>, updates) > 0
      BY <1>5, <1>r, <3>1
    <3>3. a[ord[3 - d]] \in DV
      BY <1>5, <3>1
    <3>4. starts(v, d)
      BY <3>2, <3>3 DEF starts
    <3> QED
      BY <2>1, <2>2, <2>m, <3>4 DEF Body
  <2>3. CASE ~(d <= 2)
    <3>1. ASSUME NEW k \in Backward(ord, d)
          PROVE  \E x \in mask[k] : MaskReads(index, updates, e, <<v, x, ord[d], ord[k]>>)
      <4>1. k \in D /\ ord[k] \in QNei[ord[d]] /\ a[ord[k]] \in mask[k]
        BY <1>6, <1>10, <3>1
      <4>2. MaskReads(index, updates, e, <<v, a[ord[k]], ord[d], ord[k]>>)
        BY <1>r, <2>1, <4>1
      <4> QED
        BY <4>1, <4>2
    <3> QED
      BY <2>1, <2>3, <2>m, <3>1 DEF Body
  <2> QED
    BY <2>2, <2>3
<1>11. D \subseteq S
  <2>1. D \subseteq Nat
    BY <1>3
  <2> HIDE DEF S
  <2> QED
    BY <1>10, <2>1, Stepwise
<1>12. ASSUME NEW u \in QV PROVE a[u] \in SupportMask(index, updates, e)[u]
  <2> DEFINE d == CHOOSE d \in D : ord[d] = u
  <2>1. d \in D /\ ord[d] = u
    BY <1>4
  <2> HIDE DEF d
  <2>2. a[u] \in mask[d]
    BY <1>11, <2>1
  <2> QED
    BY <1>2, <2>2 DEF d
<1> QED
  BY <1>12

-----------------------------------------------------------------------------
(* Matches lists the assignments that are readable from a starting edge    *)
(* and are in its masks.                                                   *)
(* The vertices after the second are compared with those before them. *)
Apart(m) == \A d \in Positions \ {1, 2} : \A k \in 1..d - 1 : m[k] # m[d]

LEMMA MatchesVisible ==
  ASSUME NEW index, NEW updates, NEW e \in QEdges, Carried(e) = e, NEW m
  PROVE  /\ m \in Matches(index, updates, e) =>
              /\ m \in Seq(DV) /\ Len(m) = Cardinality(QV) /\ Apart(m)
              /\ AllSeen(index, updates, e, m)
         /\ m \in Seq(DV) /\ Len(m) = Cardinality(QV) /\ Apart(m)
            /\ AllSeen(index, updates, e, m)
            /\ (\A d \in Positions : m[d] \in SupportMask(index, updates, e)[Order[d]])
              => m \in Matches(index, updates, e)
<1> DEFINE D == Positions \ {1}
           N == Cardinality(QV)
           first == SupportMask(index, updates, e)
           mask == SupportMask(index, updates, Carried(e))
           U == DV \cup UNION {mask[Order[k]] : k \in Nat}
           X == SUBSET Seq(U)
           Body(g, d) ==
             IF d = 2
             THEN {q \in first[Order[1]] \X first[Order[2]] :
                     Seen(index, updates, e, RowAt(q, 1, 2))}
             ELSE UNION {{Append(q, x) : x \in Extensions(index, updates, Carried(e), mask, q)} :
                           q \in g[d - 1]}
           level[d \in D] ==
             IF d = 2
             THEN {q \in first[Order[1]] \X first[Order[2]] :
                     Seen(index, updates, e, RowAt(q, 1, 2))}
             ELSE UNION {{Append(q, x) : x \in Extensions(index, updates, Carried(e), mask, q)} :
                           q \in level[d - 1]}
<1>1. level = CHOOSE g : g = [d \in D |-> Body(g, d)]
  BY DEF level
<1>2. Matches(index, updates, e) = level[N]
  BY DEF Matches
<1>3. N \in Nat /\ D \subseteq 0..N /\ D \subseteq Nat /\ N \in D /\ Positions = 1..N
  BY QuerySize, TwoPositions DEF Positions
<1>4. \A d \in D : d >= 2 /\ (d # 2 => d - 1 \in D /\ d - 1 < d /\ (d - 1) + 1 = d)
  BY <1>3
<1>m. mask = first
  OBVIOUS
<1>o. Order[1] \in QV /\ Order[2] \in QV /\ \A d \in D : Order[d] \in QV
  BY OrderFacts, TwoPositions
<1>f. first \in [QV -> SUBSET DV]
  BY MasksKeep
<1> HIDE DEF level, N, D, first, mask
<1>e. ASSUME NEW q, NEW x \in Extensions(index, updates, Carried(e), mask, q)
      PROVE  /\ x \in mask[Order[Len(q) + 1]]
             /\ \A k \in 1..Len(q) + 1 - 1 : q[k] # x
             /\ \A k \in Backward(Order, Len(q) + 1) :
                  Seen(index, updates, e, RowAt(Append(q, x), k, Len(q) + 1))
  BY <1>e DEF Extensions
<1>5. ASSUME NEW d \in D, NEW g \in [D -> X] PROVE Body(g, d) \in X
  <2>1. CASE d = 2
    <3>1. first[Order[1]] \subseteq U /\ first[Order[2]] \subseteq U
      BY <1>f, <1>o
    <3>2. \A y, z \in U : <<y, z>> \in Seq(U)
      OBVIOUS
    <3>3. ASSUME NEW q \in first[Order[1]] \X first[Order[2]] PROVE q \in Seq(U)
      <4> HIDE DEF U
      <4>1. q[1] \in U /\ q[2] \in U /\ q = <<q[1], q[2]>>
        BY <3>1
      <4> QED
        BY <3>2, <4>1, Zenon
    <3> QED
      BY <2>1, <3>3
  <2>2. CASE d # 2
    <3>1. ASSUME NEW q \in g[d - 1], NEW x \in Extensions(index, updates, Carried(e), mask, q)
          PROVE  Append(q, x) \in Seq(U)
      <4>1. q \in Seq(U)
        BY <1>4, <2>2
      <4>2. Len(q) + 1 \in Nat
        BY <4>1
      <4>3. x \in U
        BY <1>e, <4>2
      <4> QED
        BY <4>1, <4>3
    <3>2. ASSUME NEW r \in Body(g, d) PROVE r \in Seq(U)
      <4>1. PICK q \in g[d - 1] :
              r \in {Append(q, x) : x \in Extensions(index, updates, Carried(e), mask, q)}
        BY <2>2
      <4> QED
        BY <3>1, <4>1
    <3> QED
      BY <3>2
  <2> QED
    BY <2>1, <2>2
<1>6. ASSUME NEW d \in D, NEW g \in [D -> X], NEW h \in [D -> X],
             \A k \in D : k < d => g[k] = h[k]
      PROVE  Body(g, d) = Body(h, d)
  <2>1. CASE d = 2
    BY <2>1
  <2>2. CASE d # 2
    <3>1. g[d - 1] = h[d - 1]
      BY <1>4, <1>6, <2>2
    <3> QED
      BY <2>2, <3>1
  <2> QED
    BY <2>1, <2>2
<1> HIDE DEF Body
<1>7. level = [d \in D |-> Body(level, d)]
  <2>1. X # {}
    OBVIOUS
  <2> HIDE DEF X
  <2> DEFINE Step == [z \in D \X [D -> X] |-> Body(z[2], z[1])]
  <2>2. \A d \in D, g \in [D -> X] : Step[<<d, g>>] = Body(g, d)
    OBVIOUS
  <2>3. Step \in [D \X [D -> X] -> X]
    BY <1>5
  <2> HIDE DEF Step
  <2>4. Causal(D, [d \in D |-> d], X, Step)
    BY <1>6, <2>2, <2>3 DEF Causal
  <2>5. PICK g : Follows(D, X, Step, g)
    BY <1>3, <2>1, <2>4, Recursion
  <2>6. g = [d \in D |-> Body(g, d)]
    BY <2>2, <2>5 DEF Follows
  <2> QED
    BY <1>1, <2>6
<1>8. \A d \in D : level[d] = Body(level, d)
  BY <1>7
(* What a partial match of d vertices has been tested for. *)
<1> DEFINE Tested(q, d) ==
             /\ q \in Seq(DV) /\ Len(q) = d
             /\ \A j \in Positions \ {1, 2} : j <= d => \A k \in 1..j - 1 : q[k] # q[j]
             /\ \A p \in Places : p[2] <= d => Seen(index, updates, e, RowAt(q, p[1], p[2]))
           S == {d \in D : \A q \in level[d] : Tested(q, d)}
<1>p. \A p \in Places : /\ p[2] \in D /\ p[2] \in Nat /\ p[1] \in Nat /\ p[1] < p[2] /\ p[1] >= 1
                        /\ p[1] \in Backward(Order, p[2])
  BY <1>3 DEF Places, Backward, D
<1>9. ASSUME NEW d \in D, \A k \in D : k < d => k \in S PROVE d \in S
  <2> SUFFICES ASSUME NEW q \in level[d] PROVE Tested(q, d)
    OBVIOUS
  <2>1. q \in Body(level, d)
    BY <1>8
  <2>2. CASE d = 2
    <3>1. q \in first[Order[1]] \X first[Order[2]] /\ Seen(index, updates, e, RowAt(q, 1, 2))
      BY <2>1, <2>2 DEF Body
    <3>2. q \in Seq(DV) /\ Len(q) = 2
      <4>1. q[1] \in DV /\ q[2] \in DV /\ q = <<q[1], q[2]>>
        BY <1>f, <1>o, <3>1
      <4>2. \A y, z \in DV : <<y, z>> \in Seq(DV) /\ Len(<<y, z>>) = 2
        OBVIOUS
      <4> QED
        BY <4>1, <4>2, Zenon
    <3>3. \A p \in Places : p[2] <= 2 => p[1] = 1 /\ p[2] = 2
      BY <1>4, <1>p
    <3>4. \A j \in Positions \ {1, 2} : ~(j <= 2)
      BY <1>3
    <3> QED
      BY <2>2, <3>1, <3>2, <3>3, <3>4
  <2>3. CASE d # 2
    <3>1. PICK r \in level[d - 1] : \E x \in Extensions(index, updates, Carried(e), mask, r) :
                                      q = Append(r, x)
      BY <2>1, <2>3 DEF Body
    <3>2. PICK x \in Extensions(index, updates, Carried(e), mask, r) : q = Append(r, x)
      BY <3>1
    <3>3. Tested(r, d - 1)
      BY <1>4, <1>9, <2>3, <3>1
    <3>4. Len(r) + 1 = d /\ d \in Nat /\ d - 1 \in Nat
      BY <1>3, <1>4, <2>3, <3>3
    <3>5. x \in DV
      BY <1>e, <1>f, <1>m, <1>o, <3>4
    <3>6. q \in Seq(DV) /\ Len(q) = d /\ \A k \in 1..d - 1 : q[k] = r[k]
      BY <3>2, <3>3, <3>4, <3>5, Extended
    <3>7. ASSUME NEW p \in Places, p[2] <= d
          PROVE  Seen(index, updates, e, RowAt(q, p[1], p[2]))
      <4>1. CASE p[2] = d
        BY <1>e, <1>p, <3>2, <3>4, <4>1
      <4>2. CASE p[2] < d
        <5>1. p[1] \in 1..d - 1 /\ p[2] \in 1..d - 1 /\ p[2] <= d - 1
          BY <1>p, <3>4, <4>2
        <5>2. RowAt(q, p[1], p[2]) = RowAt(r, p[1], p[2])
          BY <3>6, <5>1 DEF RowAt
        <5> QED
          BY <3>3, <5>1, <5>2
      <4> QED
        BY <1>p, <3>4, <3>7, <4>1, <4>2
    <3>8. ASSUME NEW j \in Positions \ {1, 2}, j <= d, NEW k \in 1..j - 1 PROVE q[k] # q[j]
      <4>1. j \in Nat /\ k \in 1..d - 1 /\ (j = d \/ j \in 1..d - 1)
        BY <1>3, <3>4, <3>8
      <4>2. CASE j = d
        <5>1. r[k] # x /\ q[k] = r[k] /\ q[d] = x
          BY <1>e, <3>2, <3>3, <3>4, <3>5, <3>6, <3>8, <4>1, <4>2, Extended
        <5> QED
          BY <4>2, <5>1
      <4>3. CASE j \in 1..d - 1
        <5>1. j <= d - 1
          BY <3>4, <4>3
        <5>2. r[k] # r[j]
          BY <3>3, <5>1
        <5> QED
          BY <3>6, <4>1, <4>3, <5>2
      <4> QED
        BY <4>1, <4>2, <4>3
    <3> QED
      BY <3>6, <3>7, <3>8
  <2> QED
    BY <2>2, <2>3
<1>10. ASSUME m \in Matches(index, updates, e)
       PROVE  m \in Seq(DV) /\ Len(m) = N /\ Apart(m) /\ AllSeen(index, updates, e, m)
  <2>1. D \subseteq S
    <3>1. D \subseteq Nat
      BY <1>3
    <3> HIDE DEF S
    <3> QED
      BY <1>9, <3>1, Stepwise
  <2>2. Tested(m, N)
    BY <1>2, <1>3, <1>10, <2>1
  <2>3. \A p \in Places : p[2] <= N
    BY <1>3 DEF Places
  <2>4. \A j \in Positions : j <= N
    BY <1>3
  <2> QED
    BY <2>2, <2>3, <2>4 DEF AllSeen, Apart
<1>11. ASSUME m \in Seq(DV), Len(m) = N, Apart(m), AllSeen(index, updates, e, m), \A d \in Positions : m[d] \in first[Order[d]]
       PROVE  m \in Matches(index, updates, e)
  <2> DEFINE pre(d) == [k \in 1..d |-> m[k]]
             R == {d \in D : pre(d) \in level[d]}
  <2>1. ASSUME NEW d \in D, \A k \in D : k < d => k \in R PROVE d \in R
    <3>1. CASE d = 2
      <4>1. m[1] \in first[Order[1]] /\ m[2] \in first[Order[2]]
        BY <1>11, TwoPositions
      <4>2. <<1, 2>> \in Places
        BY TwoPositions, PlanAssumption DEF Places, Backward
      <4>3. Seen(index, updates, e, RowAt(m, 1, 2))
        BY <1>11, <4>2 DEF AllSeen
      <4>4. pre(2) = <<m[1], m[2]>>
        OBVIOUS
      <4>5. RowAt(<<m[1], m[2]>>, 1, 2) = RowAt(m, 1, 2)
        BY DEF RowAt
      <4>6. <<m[1], m[2]>> \in Body(level, 2)
        BY <4>1, <4>3, <4>5 DEF Body
      <4> QED
        BY <1>8, <3>1, <4>4, <4>6
    <3>2. CASE d # 2
      <4> DEFINE p == pre(d - 1)
      <4>1. /\ d - 1 \in D /\ d - 1 < d /\ (d - 1) + 1 = d /\ d - 1 \in Nat /\ d <= N
            /\ d - 1 < Len(m) /\ d \in Positions /\ d \in Positions \ {1, 2}
        BY <1>3, <1>4, <1>11, <3>2 DEF D
      <4>2. p \in Seq(DV) /\ Len(p) = d - 1 /\ m[d] \in DV /\ Append(p, m[d]) = pre(d)
        BY <1>11, <4>1, Prefix
      <4>3. p \in level[d - 1]
        BY <2>1, <4>1
      <4>4. m[d] \in mask[Order[d]]
        BY <1>11, <1>m, <4>1
      <4>5. \A k \in 1..d - 1 : p[k] # m[d]
        BY <1>11, <4>1 DEF Apart
      <4>6. ASSUME NEW k \in Backward(Order, d)
            PROVE  Seen(index, updates, Carried(e), RowAt(Append(p, m[d]), k, d))
        <5>1. k \in 1..d - 1 /\ <<k, d>> \in Places
          BY <1>3, <4>1 DEF Places, Backward
        <5>2. RowAt(pre(d), k, d) = RowAt(m, k, d)
          BY <4>1, <5>1 DEF RowAt
        <5>3. Seen(index, updates, e, RowAt(m, k, d))
          BY <1>11, <5>1 DEF AllSeen
        <5> QED
          BY <4>2, <5>2, <5>3
      <4>7. m[d] \in Extensions(index, updates, Carried(e), mask, p)
        <5> HIDE DEF p
        <5>1. Len(p) + 1 = d
          BY <4>1, <4>2
        <5> QED
          BY <4>4, <4>5, <4>6, <5>1 DEF Extensions
      <4>8. Append(p, m[d]) \in Body(level, d)
        <5> HIDE DEF p
        <5> QED
          BY <3>2, <4>3, <4>7 DEF Body
      <4> QED
        BY <1>8, <4>2, <4>8
    <3> QED
      BY <3>1, <3>2
  <2>2. D \subseteq R
    <3>1. D \subseteq Nat
      BY <1>3
    <3> HIDE DEF R
    <3> QED
      BY <2>1, <3>1, Stepwise
  <2>3. pre(N) = m
    <3>1. m = [k \in 1..N |-> m[k]]
      BY <1>11, LenProperties
    <3> QED
      BY <3>1
  <2> QED
    BY <1>2, <1>3, <2>2, <2>3
<1> QED
  BY <1>10, <1>11 DEF first, N


-----------------------------------------------------------------------------
(* What is staged for a batch: the rows of every match of its graph, and   *)
(* an update index that is the part of them along its window.              *)
Embeds(adj, a) ==
  /\ \A u \in QV : <<a[u], u>> \in Compat
  /\ \A u, w \in QV : a[u] = a[w] => u = w
  /\ \A u \in QV : \A w \in QNei[u] : a[w] \in adj[a[u]]

OnWindow(r, window) ==
  \E i \in DOMAIN window : window[i] \in {<<r[1], r[2]>>, <<r[2], r[1]>>}

CarriesMatches(h, s) ==
  /\ \A v, x \in DV : x \in h.nei[v] <=> v \in h.nei[x]
  /\ \A a \in [QV -> DV] :
       Embeds(h.nei, a) => \A u \in QV : \A w \in QNei[u] : RowOf(a, u, w) \in s.rows
  /\ \A r \in s.rows : r \in BagToSet(s.upd) <=> OnWindow(r, h.window)
  /\ \A r \in s.rows : r[2] \in h.nei[r[1]]
  /\ s.flat = BagToSet(s.upd)
  /\ NoRepetition(h.window) => \A r \in BagToSet(s.upd) : s.upd[r] = 1

(* The pairs of an embedding support one another with any pairs besides,   *)
(* so the filter has them on.                                              *)
LEMMA EmbeddingSupported ==
  ASSUME NEW adj, NEW a \in [QV -> DV], Embeds(adj, a), NEW S,
         \A w \in QV : <<a[w], w>> \in S, NEW u \in QV
  PROVE  CheckNei(Justified(adj, S), <<a[u], u>>)
<1> DEFINE p == <<a[u], u>>
           J == Justified(adj, S)
<1>1. QNei[u] \subseteq QV /\ a[u] \in DV /\ p \in Compat /\ p[1] = a[u] /\ p[2] = u
  BY QueryAssumption DEF Embeds
<1>2. \A w \in QNei[u] : a[w] \in J[a[u]][u][w]
  BY <1>1 DEF Justified, Embeds
<1> HIDE DEF J, p
<1>3. ASSUME NEW lb \in RepLabels(u) PROVE TryNei(J, p, Group(u, lb))
  <2> DEFINE group == Group(u, lb)
             pick == [w \in group |-> a[w]]
  <2>1. group \subseteq QNei[u]
    BY DEF Group
  <2> HIDE DEF group
  <2>2. \A w \in group : a[w] \in J[p[1]][p[2]][w]
    BY <1>1, <1>2, <2>1
  <2>3. pick \in [group -> UNION {J[p[1]][p[2]][w] : w \in group}]
    BY <2>2
  <2>4. \A w, y \in group : w # y => pick[w] # pick[y]
    BY <1>1, <2>1 DEF Embeds
  <2>5. \A w \in group : pick[w] = a[w]
    OBVIOUS
  <2> HIDE DEF pick
  <2>6. \A w \in group : pick[w] \in J[p[1]][p[2]][w]
    BY <2>2, <2>5
  <2> QED
    BY <2>3, <2>4, <2>6 DEF TryNei, group
<1>4. \A w \in QNei[p[2]] : J[p[1]][p[2]][w] # {}
  BY <1>1, <1>2
<1>5. \A lb \in RepLabels(p[2]) : TryNei(J, p, Group(p[2], lb))
  BY <1>1, <1>3
<1> QED
  BY <1>4, <1>5 DEF CheckNei, J, p

LEMMA EmbeddingOn ==
  ASSUME FilterInv, AtRest, NEW a \in [QV -> DV], Embeds(nei, a)
  PROVE  \A u \in QV : <<a[u], u>> \in li
<1> DEFINE A == {<<a[u], u>> : u \in QV}
           T == A \ li
<1>1. A \subseteq Compat
  BY DEF Embeds
<1>2. Complete(nei, li)
  BY FilterSound DEF Sound, Deleting, AtRest
<1>3. Supported(nei, li \cup T, T)
  <2>1. \A u \in QV : <<a[u], u>> \in li \cup T
    OBVIOUS
  <2> HIDE DEF T
  <2>2. \A u \in QV : CheckNei(Justified(nei, li \cup T), <<a[u], u>>)
    BY <2>1, EmbeddingSupported
  <2> QED
    BY <2>2 DEF Supported, T
<1>4. T \in SUBSET {p \in Compat \ li : Supported(nei, Compat, {p})}
  <2>1. \A u \in QV : CheckNei(Justified(nei, Compat), <<a[u], u>>)
    BY <1>1, EmbeddingSupported
  <2>2. \A p \in T : p \in Compat \ li /\ CheckNei(Justified(nei, Compat), p)
    BY <1>1, <2>1
  <2> QED
    BY <2>2 DEF Supported
<1>5. T = {}
  BY <1>2, <1>3, <1>4 DEF Complete
<1> QED
  BY <1>5

LEMMA StageCarries ==
  ASSUME SmallQuery, FilterInv, AtRest, BatchFacts, NEW h, h.nei = nei, h.window = batch,
         NEW s, s.rows = Rows, s.upd = Encoded(StagedUpd),
         BagToSet(s.upd) = {t[2] : t \in StagedUpd}, s.flat = {t[2] : t \in StagedUpd}
  PROVE  CarriesMatches(h, s)
<1>i. /\ TypeOK /\ Symmetric /\ ListsExact /\ OnEdges
      /\ upd = UpdateEntries
  BY FilterListsExact DEF FilterInv, EdgeInv, GraphInv, BatchFacts, UpdatesRecorded, AtRest
<1>1. \A v, x \in DV : x \in nei[v] <=> v \in nei[x]
  BY <1>i DEF Symmetric
<1>2. ASSUME NEW a \in [QV -> DV], Embeds(nei, a), NEW u \in QV, NEW w \in QNei[u]
      PROVE  RowOf(a, u, w) \in Rows
  <2>1. <<a[u], u>> \in li /\ <<a[w], w>> \in li /\ w \in QV
    BY <1>2, EmbeddingOn, QueryAssumption
  <2>2. /\ a[w] \in nei[a[u]] /\ a[u] \in DV /\ a[w] \in DV
        /\ <<a[u], u>> \in Compat /\ <<a[w], w>> \in Compat
    BY <1>2, <2>1 DEF Embeds
  <2>3. a[w] \in cand[a[u]][u][w]
    BY <1>i, <2>1, <2>2 DEF ListsExact
  <2> DEFINE r == RowOf(a, u, w)
  <2>4. r = <<a[u], a[w], u, w>>
    BY DEF RowOf
  <2>5. r \in Related /\ Listed(r) /\ Owner(r) \in li
    BY <2>1, <2>2, <2>3, <2>4 DEF Related, Records, Listed, Owner, Partner
  <2> QED
    BY <2>5, RowsAtRest
<1>3. ASSUME NEW r \in Rows PROVE r \in {t[2] : t \in StagedUpd} <=> OnBatch(r)
  <2>1. ASSUME OnBatch(r) PROVE r \in {t[2] : t \in StagedUpd}
    <3>1. PICK k \in DOMAIN batch : <<k, r>> \in upd
      BY <1>i, <2>1, UpdatesAreRows
    <3>2. r \in Related
      BY <1>i, TasksType DEF Rows, TypeOK
    <3>3. \A p \in li : p[1] \in NumberedNow
      BY DEF NumberedNow
    <3>4. Numbered(NumberedNow, r)
      BY <3>2, <3>3, RowsNumbered
    <3>5. <<k, r>> \in StagedUpd /\ <<k, r>>[2] = r
      BY <3>1, <3>4 DEF StagedUpd
    <3> QED
      BY <3>5
  <2>2. ASSUME NEW t \in StagedUpd, r = t[2] PROVE OnBatch(r)
    <3>1. PICK k \in DOMAIN batch : r \in Realised(k)
      BY <1>i, <2>2 DEF StagedUpd, UpdateEntries
    <3>2. PICK q \in Rows : <<q[1], q[2]>> = batch[k] /\ (r = q \/ r = Mirror(q))
      BY <3>1 DEF Realised, BothWays, Rows
    <3>3. r = q \/ (r[1] = q[2] /\ r[2] = q[1])
      BY <3>2 DEF Mirror
    <3> QED
      BY <3>2, <3>3 DEF OnBatch
  <2> QED
    BY <2>1, <2>2
<1>4. ASSUME NEW r \in Rows PROVE r[2] \in nei[r[1]]
  <2>1. r \in Related /\ Listed(r)
    BY <1>i, TasksType DEF Rows, Listed, TypeOK
  <2> QED
    BY <1>i, <2>1, RelatedEnds DEF OnEdges, Listed
<1>5. ASSUME NoRepetition(batch), NEW r \in {t[2] : t \in StagedUpd}
      PROVE  Encoded(StagedUpd)[r] = 1
  <2> DEFINE At == {t \in StagedUpd : Packed(t[2]) = r}
  <2>1. \A t \in StagedUpd : t \in UpdateEntries /\ t[2] \in Related /\ Packed(t[2]) = t[2]
    BY <1>i, UpdateEntriesRelated, PackedSame DEF StagedUpd
  <2>2. PICK t \in StagedUpd : r = t[2]
    BY <1>5
  <2>3. ASSUME NEW q \in StagedUpd, q[2] = r
        PROVE  /\ q = <<q[1], r>> /\ q[1] \in DOMAIN batch
               /\ batch[q[1]] \in {<<r[1], r[2]>>, <<r[2], r[1]>>}
    <3>1. PICK k \in DOMAIN batch : q \in {k} \X Realised(k)
      BY <2>1 DEF UpdateEntries
    <3>2. q = <<k, r>> /\ r \in Realised(k)
      BY <2>3, <3>1
    <3>3. PICK y \in Rows : <<y[1], y[2]>> = batch[k] /\ (r = y \/ r = Mirror(y))
      BY <3>2 DEF Realised, BothWays, Rows
    <3>4. r = y \/ (r[1] = y[2] /\ r[2] = y[1])
      BY <3>3 DEF Mirror
    <3> QED
      BY <3>2, <3>3, <3>4
  <2>4. At = {t}
    <3>1. ASSUME NEW q \in At PROVE q = t
      <4>1. q \in StagedUpd /\ q[2] = r
        BY <2>1
      <4>2. q[1] = t[1]
        BY <1>5, <2>2, <2>3, <4>1 DEF NoRepetition
      <4> QED
        BY <2>2, <2>3, <4>1, <4>2
    <3> QED
      BY <2>1, <2>2, <3>1
  <2>5. r \in {Packed(q[2]) : q \in StagedUpd}
    BY <2>1, <2>2
  <2>6. Encoded(StagedUpd)[r] = Cardinality(At)
    BY <2>5 DEF Encoded
  <2> HIDE DEF At
  <2> QED
    BY <2>4, <2>6, FS_Singleton
<1> QED
  BY <1>1, <1>2, <1>3, <1>4, <1>5 DEF CarriesMatches, OnWindow, OnBatch

-----------------------------------------------------------------------------
(* Every staged batch carries the matches of its graph. *)
HistoryInv ==
  /\ history \in Seq([nei : [DV -> SUBSET DV], window : Seq(DV \X DV)])
  /\ Len(history) = Len(stages)
  /\ \A i \in 1..Len(stages) : CarriesMatches(history[i], stages[i])

MatchingInv == GlobalInv /\ HistoryInv

LEMMA MatchingIsGlobal ==
  /\ MInit => GInit
  /\ [MNext]_mallvars => [GNext]_allvars
<1>1. MInit => GInit
  BY DEF MInit
<1>2. MNext => GNext \/ UNCHANGED allvars
  BY DEF MNext, Stage1, StageBatch, Transfer, MatchingBitAll, Update, GNext
<1>3. UNCHANGED mallvars => UNCHANGED allvars
  BY DEF mallvars
<1> QED
  BY <1>1, <1>2, <1>3

LEMMA InitMatchingInv == MInit => MatchingInv
<1> SUFFICES ASSUME MInit PROVE MatchingInv
  OBVIOUS
<1>1. GInit /\ history = <<>> /\ stages = <<>>
  BY DEF MInit, GInit
<1>2. GlobalInv
  BY <1>1, InitGlobalInv
<1> QED
  BY <1>1, <1>2 DEF MatchingInv, HistoryInv

LEMMA StageBatchStep ==
  ASSUME SmallQuery, MatchingInv, StageBatch
  PROVE  HistoryInv'
<1> DEFINE h == [nei |-> nei, window |-> batch]
           H == [nei : [DV -> SUBSET DV], window : Seq(DV \X DV)]
<1>1. /\ Prepare /\ AtRest /\ history' = Append(history, h) /\ FilterInv /\ TypeOK
      /\ BatchFacts /\ stages \in Seq(StageType)
  BY DEF StageBatch, Prepare, Unstaged, MatchingInv, GlobalInv, BatchInv, InBatch,
     StagesOK, FilterInv, EdgeInv, GraphInv
<1>2. PICK s \in StageType :
        /\ stages' = Append(stages, s) /\ s.rows = Rows
        /\ s.upd = Encoded(StagedUpd) /\ BagToSet(s.upd) = {t[2] : t \in StagedUpd}
        /\ s.flat = {t[2] : t \in StagedUpd}
  BY <1>1, StageMade
<1>3. h \in H /\ h.nei = nei /\ h.window = batch
  BY <1>1 DEF TypeOK
<1> HIDE DEF h, H
<1>4. CarriesMatches(h, s)
  BY <1>1, <1>2, <1>3, StageCarries
<1>5. history \in Seq(H) /\ Len(history) = Len(stages) /\ Len(stages) \in Nat
  BY <1>1 DEF MatchingInv, HistoryInv, H
<1>6. /\ history' \in Seq(H) /\ Len(history') = Len(history) + 1
      /\ history'[Len(history) + 1] = h
      /\ \A i \in 1..Len(history) : history'[i] = history[i]
  BY <1>1, <1>3, <1>5, Appended
<1>7. /\ Len(stages') = Len(stages) + 1
      /\ stages'[Len(stages) + 1] = s
      /\ \A i \in 1..Len(stages) : stages'[i] = stages[i]
  BY <1>1, <1>2, Appended
<1>8. ASSUME NEW i \in 1..Len(stages') PROVE CarriesMatches(history'[i], stages'[i])
  <2>1. i = Len(stages) + 1 \/ i \in 1..Len(stages)
    BY <1>5, <1>7
  <2>2. \A j \in 1..Len(stages) : CarriesMatches(history[j], stages[j])
    BY DEF MatchingInv, HistoryInv
  <2> QED
    BY <1>4, <1>5, <1>6, <1>7, <2>1, <2>2
<1> QED
  BY <1>5, <1>6, <1>7, <1>8 DEF HistoryInv, H, CarriesMatches

LEMMA MatchingStep ==
  ASSUME SmallQuery, MatchingInv, [MNext]_mallvars
  PROVE  MatchingInv'
<1>1. GlobalInv'
  BY MatchingIsGlobal, GlobalStep DEF MatchingInv
<1>2. CASE StageBatch
  BY <1>1, <1>2, StageBatchStep DEF MatchingInv
<1>3. ASSUME UNCHANGED <<stages, history>> PROVE MatchingInv'
  BY <1>1, <1>3 DEF MatchingInv, HistoryInv, CarriesMatches
<1>4. StageBatch \/ UNCHANGED <<stages, history>>
  BY DEF MNext, Stage1, Index, ConvertGlobalIndex, Transfer, TransferUpdateAll, MatchingBitAll,
     Update, BatchUpdateGlobalIndex, mallvars, allvars, gvars, mvars
<1> QED
  BY <1>2, <1>3, <1>4

LEMMA MatchingInvariant ==
  ASSUME SmallQuery
  PROVE  MSpec => []MatchingInv
BY InitMatchingInv, MatchingStep, PTL DEF MSpec

-----------------------------------------------------------------------------
(* A match as an assignment of data vertices to query vertices. *)
Assigned(m) == [u \in QV |-> m[CHOOSE d \in Positions : Order[d] = u]]

LEMMA AssignedAt ==
  ASSUME NEW m \in Seq(DV), Len(m) = Cardinality(QV)
  PROVE  /\ Assigned(m) \in [QV -> DV]
         /\ \A d \in Positions : Assigned(m)[Order[d]] = m[d]
<1> DEFINE at(u) == CHOOSE d \in Positions : Order[d] = u
<1>1. \A u \in QV : at(u) \in Positions /\ Order[at(u)] = u
  BY OrderFacts
<1>2. \A d \in Positions : Order[d] \in QV /\ at(Order[d]) = d
  BY <1>1, OrderFacts
<1>3. \A d \in Positions : m[d] \in DV
  BY ElementOfSeq DEF Positions
<1>4. Assigned(m) = [u \in QV |-> m[at(u)]]
  BY DEF Assigned
<1> HIDE DEF at
<1> QED
  BY <1>1, <1>2, <1>3, <1>4

(* Every query edge has its place, in one direction. *)
LEMMA PlaceOf ==
  ASSUME NEW u \in QV, NEW w \in QNei[u]
  PROVE  \E p \in Places :
           /\ EdgeAt(p) = EdgeOf[u][w]
           /\ \/ Order[p[1]] = u /\ Order[p[2]] = w
              \/ Order[p[1]] = w /\ Order[p[2]] = u
<1>1. w \in QV /\ EdgeOf[u][w] \in QEdges
  BY EdgeAssumption, QueryAssumption DEF QEdges
<1>2. PICK p \in Places : EdgeAt(p) = EdgeOf[u][w]
  BY <1>1, EdgePlaces
<1>3. Order[p[1]] \in QV /\ Order[p[2]] \in QV
  BY OrderFacts DEF Places
<1>4. \/ Order[p[1]] = u /\ Order[p[2]] = w
      \/ Order[p[1]] = w /\ Order[p[2]] = u
  BY <1>1, <1>2, <1>3, SameEnds DEF EdgeAt
<1> QED
  BY <1>2, <1>4

LEMMA MatchEmbeds ==
  ASSUME NEW adj, \A v, x \in DV : x \in adj[v] <=> v \in adj[x],
         NEW m, IsMatch(adj, m)
  PROVE  Embeds(adj, Assigned(m))
<1> DEFINE a == Assigned(m)
<1>1. /\ a \in [QV -> DV]
      /\ \A d \in Positions : a[Order[d]] = m[d]
  BY AssignedAt DEF IsMatch
<1> HIDE DEF a
<1>2. \A u \in QV : \E d \in Positions : Order[d] = u
  BY OrderFacts
<1>3. ASSUME NEW u \in QV PROVE <<a[u], u>> \in Compat
  <2>1. PICK d \in Positions : Order[d] = u
    BY <1>2
  <2>2. a[u] \in DV /\ GLabel[a[u]] = QLabel[u]
    BY <1>1, <2>1 DEF IsMatch
  <2> QED
    BY <2>2 DEF Compat
<1>4. ASSUME NEW u \in QV, NEW w \in QV, a[u] = a[w] PROVE u = w
  <2>1. PICK k \in Positions : Order[k] = u
    BY <1>2
  <2>2. PICK d \in Positions : Order[d] = w
    BY <1>2
  <2>3. k = d
    BY <1>1, <1>4, <2>1, <2>2 DEF IsMatch
  <2> QED
    BY <2>1, <2>2, <2>3
<1>5. ASSUME NEW u \in QV, NEW w \in QNei[u] PROVE a[w] \in adj[a[u]]
  <2>1. w \in QV /\ a[u] \in DV /\ a[w] \in DV
    BY <1>1, QueryAssumption
  <2>2. PICK p \in Places : \/ Order[p[1]] = u /\ Order[p[2]] = w
                            \/ Order[p[1]] = w /\ Order[p[2]] = u
    BY PlaceOf
  <2>3. m[p[1]] \in adj[m[p[2]]] /\ p[1] \in Positions /\ p[2] \in Positions
    BY DEF IsMatch, Places
  <2>4. a[Order[p[1]]] \in adj[a[Order[p[2]]]]
    BY <1>1, <2>3
  <2> QED
    BY <2>1, <2>2, <2>4
<1> QED
  BY <1>3, <1>4, <1>5 DEF Embeds, a

SmallPlan == SmallQuery /\ QEdges \subseteq 1..TagSpan

(* What the search of the batch at hand reads: the index holds the rows of *)
(* the batch that are not in the update index, once each.                  *)
LEMMA BatchAtHand ==
  ASSUME MatchingInv, s2pc = "update"
  PROVE  LET s == stages[s2b + 1]
             new == BagToSet(s.upd)
         IN  /\ s2b + 1 \in 1..Len(stages) /\ s \in StageType /\ new \subseteq s.rows
             /\ CarriesMatches(history[s2b + 1], s) /\ UpdateIndex = s.upd
             /\ IsABag(idx) /\ IsABag(s.upd)
             /\ \A r : CountOf(r, s.upd) > 0 <=> r \in new
             /\ \A r : CountOf(r, idx) = IF r \in s.rows \ new THEN 1 ELSE 0
<1> DEFINE s == stages[s2b + 1]
           new == BagToSet(s.upd)
<1>1. /\ s2b + 1 \in 1..Len(stages) /\ CarriesMatches(history[s2b + 1], s) /\ s \in StageType
      /\ new \subseteq s.rows /\ idx = SetToBag(s.rows \ new)
  <2>1. /\ s2b + 1 \in 1..Len(stages) /\ stages \in Seq(StageType)
        /\ new \subseteq s.rows
    BY DEF MatchingInv, GlobalInv, StageTwoInv, StagesOK
  <2>2. mirror = s.rows \ new /\ idx = SetToBag(mirror)
    BY DEF MatchingInv, GlobalInv, StageTwoInv, MirrorInSync, Stage, UpdateIndex
  <2>3. s \in StageType
    BY <2>1, ElementOfSeq
  <2> QED
    BY <2>1, <2>2, <2>3 DEF MatchingInv, HistoryInv
<1>2. IsABag(idx) /\ IsABag(s.upd) /\ UpdateIndex = s.upd
  <2>1. s.upd \in RowBags
    BY <1>1 DEF StageType
  <2>2. IsABag(s.upd)
    BY <2>1 DEF RowBags, IsABag
  <2>3. IsABag(idx)
    BY <1>1 DEF SetToBag, IsABag
  <2> QED
    BY <2>2, <2>3 DEF UpdateIndex, Stage
<1>3. /\ \A r : CountOf(r, s.upd) > 0 <=> r \in new
      /\ \A r : CountOf(r, idx) = IF r \in s.rows \ new THEN 1 ELSE 0
  <2>1. s.upd \in RowBags
    BY <1>1 DEF StageType
  <2>2. \A r : CountOf(r, s.upd) > 0 <=> r \in new
    BY <2>1 DEF RowBags, CountOf, BagIn, BagToSet
  <2>3. \A r : CountOf(r, idx) = IF r \in s.rows \ new THEN 1 ELSE 0
    BY <1>1 DEF SetToBag, CountOf, BagIn, BagToSet
  <2> QED
    BY <2>2, <2>3
<1> QED
  BY <1>1, <1>2, <1>3

LEMMA StartsOnce ==
  ASSUME SmallPlan, MatchingInv, s2pc = "update", NEW m \in Due(history[s2b + 1])
  PROVE  \E ei \in QEdges : \A e \in QEdges : m \in Matches(idx, UpdateIndex, e) <=> e = ei
<1> DEFINE s == stages[s2b + 1]
           h == history[s2b + 1]
           new == BagToSet(s.upd)
           a == Assigned(m)
           row(p) == RowAt(m, p[1], p[2])
<1>1. /\ CarriesMatches(h, s) /\ UpdateIndex = s.upd /\ IsABag(idx) /\ IsABag(s.upd)
      /\ \A r : CountOf(r, s.upd) > 0 <=> r \in new
      /\ \A r : CountOf(r, idx) = IF r \in s.rows \ new THEN 1 ELSE 0
  BY BatchAtHand
<1>2. IsABag(idx) /\ IsABag(s.upd)
  BY <1>1
<1>3. /\ \A r : CountOf(r, s.upd) > 0 <=> r \in new
      /\ \A r \in s.rows : CountOf(r, idx) > 0 <=> r \notin new
  BY <1>1
<1>4. IsMatch(h.nei, m) /\ UsesEdge(m, h.window)
  BY EmbeddingsMatch DEF Due
<1>5. /\ m \in Seq(DV) /\ Len(m) = Cardinality(QV)
      /\ a \in [QV -> DV] /\ \A d \in Positions : a[Order[d]] = m[d]
  BY <1>4, AssignedAt DEF IsMatch
<1>6. \A u \in QV : \A w \in QNei[u] : RowOf(a, u, w) \in s.rows
  BY <1>1, <1>4, <1>5, MatchEmbeds DEF CarriesMatches
<1>7. \A r \in s.rows : r \in new <=> OnWindow(r, h.window)
  BY <1>1 DEF CarriesMatches
<1> HIDE DEF s, h, new, a
<1>8. ASSUME NEW p \in Places
      PROVE  /\ row(p) = RowOf(a, Order[p[1]], Order[p[2]])
             /\ Order[p[1]] \in QV /\ Order[p[2]] \in QNei[Order[p[1]]]
             /\ row(p) \in s.rows
  <2>1. /\ p[1] \in Positions /\ p[2] \in Positions
        /\ Order[p[1]] \in QV /\ Order[p[2]] \in QV /\ Order[p[1]] \in QNei[Order[p[2]]]
    BY OrderFacts DEF Places, Backward
  <2>2. Order[p[2]] \in QNei[Order[p[1]]]
    BY <2>1, QueryAssumption
  <2>3. row(p) = RowOf(a, Order[p[1]], Order[p[2]])
    BY <1>5, <2>1 DEF RowAt, RowOf
  <2> QED
    BY <1>6, <2>1, <2>2, <2>3
<1>9. \A u \in QV : \A w \in QNei[u] : RowOf(a, u, w) \in new <=> RowOf(a, w, u) \in new
  <2>1. \A u \in QV : \A w \in QNei[u] : w \in QV /\ u \in QNei[w]
    BY QueryAssumption
  <2>2. \A u, w : OnWindow(RowOf(a, u, w), h.window) <=> OnWindow(RowOf(a, w, u), h.window)
    BY DEF OnWindow, RowOf
  <2> QED
    BY <1>6, <1>7, <2>1, <2>2
<1>10. PICK ei \in QEdges : \A e \in QEdges : AllSeen(idx, s.upd, e, m) <=> e = ei
  <2>1. SplitRows(idx, s.upd, m)
    BY <1>3, <1>8 DEF SplitRows
  <2>2. UsesUpdate(s.upd, m)
    <3>0. PICK d \in Positions : \E k \in Backward(Order, d) : \E i \in DOMAIN h.window :
            h.window[i] \in {<<m[k], m[d]>>, <<m[d], m[k]>>}
      BY <1>4 DEF UsesEdge
    <3>1. PICK k \in Backward(Order, d) : \E i \in DOMAIN h.window :
            h.window[i] \in {<<m[k], m[d]>>, <<m[d], m[k]>>}
      BY <3>0
    <3>2. k \in Positions
      BY QuerySize DEF Backward, Positions
    <3>3. <<k, d>> \in Places
      BY <3>2 DEF Places
    <3>4. OnWindow(row(<<k, d>>), h.window)
      BY <3>1 DEF OnWindow, RowAt
    <3>5. row(<<k, d>>) \in new
      BY <1>7, <1>8, <3>3, <3>4
    <3> QED
      BY <1>3, <3>3, <3>5 DEF UsesUpdate
  <2> QED
    BY <1>2, <2>1, <2>2, OneVisibleStart
<1>11. ASSUME NEW e \in QEdges
       PROVE  m \in Matches(idx, s.upd, e) <=> AllSeen(idx, s.upd, e, m)
  <2>1. Carried(e) = e
    BY TagKept DEF Carried, SmallPlan, TagSpan
  <2>2. Apart(m)
    <3>1. \A d \in Positions : \A k \in 1..d - 1 : k \in Positions /\ k # d
      BY QuerySize DEF Positions
    <3> QED
      BY <1>4, <3>1 DEF IsMatch, Apart
  <2>3. ASSUME AllSeen(idx, s.upd, e, m) PROVE Readable(idx, s.upd, e, a)
    <3> SUFFICES ASSUME NEW u \in QV, NEW w \in QNei[u]
                 PROVE  /\ MaskReads(idx, s.upd, e, RowOf(a, u, w))
                        /\ EdgeOf[u][w] = e => CountOf(RowOf(a, u, w), s.upd) > 0
      BY DEF Readable
    <3>1. PICK p \in Places :
            /\ EdgeAt(p) = EdgeOf[u][w]
            /\ \/ Order[p[1]] = u /\ Order[p[2]] = w
               \/ Order[p[1]] = w /\ Order[p[2]] = u
      BY PlaceOf
    <3>2. \/ EdgeAt(p) # e /\ CountOf(row(p), idx) > 0
          \/ EdgeAt(p) <= e /\ CountOf(row(p), s.upd) > 0
      BY <1>2, <2>3, SeenAt DEF AllSeen
    <3>3. RowOf(a, u, w) \in new <=> row(p) \in new
      BY <1>8, <1>9, <3>1
    <3>4. RowOf(a, u, w) \in s.rows /\ row(p) \in s.rows
      BY <1>6, <1>8
    <3>5. EdgeOf[RowOf(a, u, w)[3]][RowOf(a, u, w)[4]] = EdgeAt(p)
      BY <3>1 DEF RowOf
    <3>6. CASE row(p) \in new
      BY <1>3, <3>1, <3>2, <3>3, <3>4, <3>5, <3>6 DEF MaskReads
    <3>7. CASE row(p) \notin new
      BY <1>3, <3>1, <3>2, <3>3, <3>4, <3>5, <3>7 DEF MaskReads
    <3> QED
      BY <3>6, <3>7
  <2>4. AllSeen(idx, s.upd, e, m) =>
          \A d \in Positions : m[d] \in SupportMask(idx, s.upd, e)[Order[d]]
    BY <1>5, <2>3, MasksKeep, OrderFacts
  <2> QED
    BY <1>5, <2>1, <2>2, <2>4, MatchesVisible
<1> QED
  BY <1>1, <1>10, <1>11

(* A match that is enumerated from e is due, e has update entries in both  *)
(* directions, and when the window names no edge twice it is found once.   *)
LEMMA MatchesDue ==
  ASSUME SmallPlan, MatchingInv, s2pc = "update",
         \A v \in DV : v \notin history[s2b + 1].nei[v],
         NEW e \in QEdges, NEW m \in Matches(idx, UpdateIndex, e)
  PROVE  /\ m \in Due(history[s2b + 1]) /\ EdgeOk(Stage.flat, e)
         /\ NoRepetition(history[s2b + 1].window) => Multiplicity(idx, UpdateIndex, e, m) = 1
<1> DEFINE s == stages[s2b + 1]
           h == history[s2b + 1]
           new == BagToSet(s.upd)
           a == Assigned(m)
           row(p) == RowAt(m, p[1], p[2])
<1>1. /\ s \in StageType /\ new \subseteq s.rows /\ CarriesMatches(h, s)
      /\ UpdateIndex = s.upd /\ IsABag(idx) /\ IsABag(s.upd)
      /\ \A r : CountOf(r, s.upd) > 0 <=> r \in new
      /\ \A r : CountOf(r, idx) = IF r \in s.rows \ new THEN 1 ELSE 0
  BY BatchAtHand
<1>2. /\ s.rows \subseteq Related
      /\ \A v, x \in DV : x \in h.nei[v] <=> v \in h.nei[x]
      /\ \A b \in [QV -> DV] :
           Embeds(h.nei, b) => \A u \in QV : \A w \in QNei[u] : RowOf(b, u, w) \in s.rows
      /\ \A r \in s.rows : r \in new <=> OnWindow(r, h.window)
      /\ \A r \in s.rows : r[2] \in h.nei[r[1]]
      /\ s.flat = new
      /\ NoRepetition(h.window) => \A r \in new : s.upd[r] = 1
  BY <1>1 DEF CarriesMatches, StageType
<1>3. Stage.flat = s.flat
  BY DEF Stage
<1>4. Carried(e) = e
  BY TagKept DEF Carried, SmallPlan, TagSpan
<1>5. m \in Seq(DV) /\ Len(m) = Cardinality(QV) /\ Apart(m) /\ AllSeen(idx, s.upd, e, m)
  BY <1>1, <1>4, MatchesVisible
<1>6. \A v \in DV : v \notin h.nei[v]
  OBVIOUS
<1> HIDE DEF s, h, new, a
<1>7. ASSUME NEW p \in Places
      PROVE  /\ p[1] \in Positions /\ p[2] \in Positions
             /\ row(p) = <<m[p[1]], m[p[2]], Order[p[1]], Order[p[2]]>>
             /\ \/ EdgeAt(p) # e /\ row(p) \in s.rows \ new
                \/ EdgeAt(p) <= e /\ row(p) \in new
  <2>1. \/ EdgeAt(p) # e /\ CountOf(row(p), idx) > 0
        \/ EdgeAt(p) <= e /\ CountOf(row(p), s.upd) > 0
    BY <1>1, <1>5, SeenAt DEF AllSeen
  <2>2. CountOf(row(p), idx) > 0 => row(p) \in s.rows \ new
    BY <1>1
  <2> QED
    BY <1>1, <2>1, <2>2 DEF RowAt, Places
<1>8. ASSUME NEW p \in Places
      PROVE  /\ m[p[1]] \in DV /\ m[p[2]] \in DV /\ m[p[1]] \in h.nei[m[p[2]]]
             /\ GLabel[m[p[1]]] = QLabel[Order[p[1]]]
             /\ GLabel[m[p[2]]] = QLabel[Order[p[2]]]
  <2>1. row(p) \in s.rows /\ row(p) \in Related
    BY <1>1, <1>2, <1>7
  <2>2. /\ row(p)[1] \in DV /\ row(p)[2] \in DV
        /\ <<row(p)[1], row(p)[3]>> \in Compat /\ <<row(p)[2], row(p)[4]>> \in Compat
    BY <2>1, RelatedEnds
  <2>3. row(p)[2] \in h.nei[row(p)[1]]
    BY <1>2, <2>1
  <2>4. /\ row(p)[1] = m[p[1]] /\ row(p)[2] = m[p[2]]
        /\ row(p)[3] = Order[p[1]] /\ row(p)[4] = Order[p[2]]
    BY <1>7
  <2> HIDE DEF row
  <2>5. <<m[p[1]], Order[p[1]]>> \in Compat /\ <<m[p[2]], Order[p[2]]>> \in Compat
    BY <2>2, <2>4
  <2> QED
    BY <1>2, <2>2, <2>3, <2>4, <2>5 DEF Compat
<1>9. /\ <<1, 2>> \in Places
      /\ \A d \in Positions \ {1} : <<First[d], d>> \in Places
  <2>1. \A d \in Positions \ {1} : First[d] \in Backward(Order, d) /\ First[d] \in Positions
    BY PlanAssumption, QuerySize DEF Backward, Positions
  <2>2. \A d \in Positions \ {1} : <<First[d], d>> \in Places
    BY <2>1 DEF Places
  <2>3. 1 \in Positions /\ 2 \in Positions \ {1} /\ First[2] \in 1..1
    BY <2>1, TwoPositions DEF Backward
  <2> QED
    BY <2>2, <2>3
<1>10. IsMatch(h.nei, m)
  <2>1. ASSUME NEW d \in Positions PROVE GLabel[m[d]] = QLabel[Order[d]]
    <3>1. \E p \in Places : p[1] = d \/ p[2] = d
      <4>1. <<1, 2>>[1] = 1 /\ <<First[d], d>>[2] = d
        OBVIOUS
      <4> QED
        BY <1>9, <4>1
    <3> QED
      BY <1>8, <3>1
  <2>2. m[1] # m[2]
    BY <1>6, <1>8, <1>9
  <2>3. ASSUME NEW k \in Positions, NEW d \in Positions, k < d PROVE m[k] # m[d]
    <3>1. k \in 1..d - 1 /\ (d = 2 => k = 1) /\ d # 1
      BY <2>3, QuerySize DEF Positions
    <3> QED
      BY <1>5, <2>2, <3>1 DEF Apart
  <2>4. \A k, d \in Positions : k = d \/ k < d \/ d < k
    BY PositionsNat
  <2> QED
    BY <1>5, <1>8, <2>1, <2>3, <2>4 DEF IsMatch
<1>11. PICK p \in Places : EdgeAt(p) = e
  BY EdgePlaces
<1>12. row(p) \in new /\ OnWindow(row(p), h.window)
  BY <1>1, <1>2, <1>7, <1>11
<1>13. m \in Due(h)
  <2>1. p[1] \in Backward(Order, p[2]) /\ p[2] \in Positions
    BY DEF Places
  <2>2. \E i \in DOMAIN h.window : h.window[i] \in {<<m[p[1]], m[p[2]]>>, <<m[p[2]], m[p[1]]>>}
    BY <1>7, <1>12 DEF OnWindow
  <2> QED
    BY <1>10, <2>1, <2>2, EmbeddingsMatch DEF Due, UsesEdge
<1>14. EdgeOk(s.flat, e)
  <2> DEFINE q == <<m[p[2]], m[p[1]], Order[p[2]], Order[p[1]]>>
             u == Order[p[1]]
             w == Order[p[2]]
             io == IndexOrder[e]
  <2>1. u \in QV /\ w \in QV /\ u \in QNei[w] /\ EdgeOf[u][w] = e
    BY <1>11, OrderFacts DEF Places, Backward, EdgeAt
  <2>2. q = RowOf(a, w, u)
    BY <1>5, <1>7, AssignedAt DEF RowOf, a
  <2>3. a \in [QV -> DV] /\ Embeds(h.nei, a)
    BY <1>2, <1>5, <1>10, AssignedAt, MatchEmbeds DEF a
  <2>4. q \in s.rows
    BY <1>2, <2>1, <2>2, <2>3
  <2>5. OnWindow(q, h.window)
    BY <1>7, <1>12 DEF OnWindow
  <2>6. q \in new
    BY <1>2, <2>4, <2>5
  <2>7. io[1] \in QV /\ io[2] \in QV /\ EdgeOf[io[1]][io[2]] = e
    BY TwoPositions, PlanAssumption DEF Bijection, Injection
  <2>8. (io[1] = u /\ io[2] = w) \/ (io[1] = w /\ io[2] = u)
    BY <2>1, <2>7, SameEnds, QueryAssumption
  <2>9. /\ row(p)[3] = u /\ row(p)[4] = w /\ q[3] = w /\ q[4] = u
        /\ row(p) \in s.flat /\ q \in s.flat
    BY <1>2, <1>7, <1>12, <2>6
  <2> HIDE DEF q, u, w, io, row
  <2>10. \A d \in 1..2 : (d = 1 /\ 3 - d = 2) \/ (d = 2 /\ 3 - d = 1)
    OBVIOUS
  <2>11. ASSUME NEW d \in 1..2 PROVE \E r \in s.flat : r[3] = io[d] /\ r[4] = io[3 - d]
    BY <2>8, <2>9, <2>10
  <2> QED
    BY <2>11 DEF EdgeOk, io
<1>15. ASSUME NoRepetition(h.window) PROVE Multiplicity(idx, s.upd, e, m) = 1
  <2> DEFINE D == Positions \ {1}
             f == [d \in D |->
                     Copies(idx, s.upd, IF d = 2 THEN e ELSE Carried(e), RowAt(m, First[d], d))]
  <2>1. ASSUME NEW d \in D
        PROVE  Copies(idx, s.upd, IF d = 2 THEN e ELSE Carried(e), RowAt(m, First[d], d)) = 1
    <3> DEFINE y == <<First[d], d>>
               r == RowAt(m, First[d], d)
               c == EdgeAt(y)
    <3>1. y \in Places /\ row(y) = r /\ EdgeOf[r[3]][r[4]] = c
      BY <1>9 DEF RowAt, EdgeAt
    <3>2. (c # e /\ r \in s.rows \ new) \/ (c <= e /\ r \in new)
      BY <1>7, <3>1
    <3>3. c \in Int /\ e \in Int
      BY <3>1, EdgePlaces, EdgeAssumption DEF QEdges
    <3>4. CountOf(r, idx) = IF r \in s.rows \ new THEN 1 ELSE 0
      BY <1>1
    <3>5. CountOf(r, s.upd) = IF r \in new THEN 1 ELSE 0
      <4>1. r \in new => s.upd[r] = 1
        BY <1>2, <1>15
      <4> QED
        BY <4>1 DEF CountOf, BagIn, new
    <3> HIDE DEF r, c, y
    <3>6. Copies(idx, s.upd, e, r) = 1
      BY <3>1, <3>2, <3>3, <3>4, <3>5 DEF Copies
    <3> QED
      BY <1>4, <3>6 DEF r
  <2>2. f = [d \in D |-> 1]
    BY <2>1
  <2>3. IsFiniteSet(D)
    <3>1. IsFiniteSet(Positions)
      BY QuerySize, FS_Interval DEF Positions
    <3> QED
      BY <3>1, FS_RemoveElement
  <2>4. Multiplicity(idx, s.upd, e, m) = FoldFunction(LAMBDA x, y : x * y, 1, f)
    BY DEF Multiplicity
  <2> HIDE DEF D, f
  <2> QED
    BY <2>2, <2>3, <2>4, ProductOfOnes
<1> QED
  BY <1>1, <1>3, <1>13, <1>14, <1>15 DEF h, s

(* A match that is due for a batch is reached from one starting edge and   *)
(* no other, whatever update edges it combines: the filter has its pairs,  *)
(* the staged rows its edges, the masks its vertices, and the visibility   *)
(* rule gives it to the last of its update edges.                          *)
THEOREM MatchesStartOnce ==
  ASSUME SmallPlan
  PROVE  MSpec => []OneStartingEdge
<1>1. MatchingInv => OneStartingEdge
  <2> SUFFICES ASSUME MatchingInv, s2pc = "update", NEW m \in Due(history[s2b + 1])
               PROVE  Cardinality({e \in QEdges : m \in Matches(idx, UpdateIndex, e)}) = 1
    BY DEF OneStartingEdge
  <2>1. PICK ei \in QEdges : \A e \in QEdges : m \in Matches(idx, UpdateIndex, e) <=> e = ei
    BY StartsOnce
  <2>2. {e \in QEdges : m \in Matches(idx, UpdateIndex, e)} = {ei}
    BY <2>1
  <2> QED
    BY <2>2, FS_Singleton
<1>2. SmallQuery
  BY DEF SmallPlan
<1> QED
  BY <1>1, <1>2, MatchingInvariant, PTL

-----------------------------------------------------------------------------
(* The sizes. *)
LEMMA DueFinite == ASSUME NEW h PROVE IsFiniteSet(Due(h))
<1> DEFINE N == Cardinality(QV)
           S == SUBSET ((1..N) \X DV)
           P == [T \in S |-> [i \in 1..N |-> CHOOSE x : <<i, x>> \in T]]
<1>1. IsFiniteSet(S)
  <2>1. IsFiniteSet(1..N) /\ IsFiniteSet(DV)
    BY QuerySize, FS_Interval, DataAssumption
  <2> QED
    BY <2>1, FS_Product, FS_SUBSET
<1>2. ASSUME NEW m \in Due(h) PROVE m \in {P[T] : T \in S}
  <2>1. m \in Seq(DV) /\ Len(m) = N
    BY EmbeddingsMatch DEF Due, IsMatch
  <2>2. m = [i \in 1..N |-> m[i]] /\ \A i \in 1..N : m[i] \in DV
    BY <2>1
  <2> DEFINE T == {<<i, m[i]>> : i \in 1..N}
  <2>3. T \in S
    BY <2>2
  <2>4. \A i \in 1..N : \A x : <<i, x>> \in T <=> x = m[i]
    OBVIOUS
  <2> HIDE DEF T
  <2>5. \A i \in 1..N : (CHOOSE x : <<i, x>> \in T) = m[i]
    BY <2>4
  <2>6. P[T] = [i \in 1..N |-> CHOOSE x : <<i, x>> \in T]
    BY <2>3
  <2>7. P[T] = m
    BY <2>2, <2>5, <2>6
  <2> HIDE DEF P, S
  <2> QED
    BY <2>3, <2>7
<1> HIDE DEF P, S
<1>3. IsFiniteSet({P[T] : T \in S})
  BY <1>1, FiniteImage
<1> QED
  BY <1>2, <1>3, FS_Subset

(* The search of a batch counts the matches that are due: the starting     *)
(* edges divide them, and each is found once.                              *)
LEMMA BatchCounted ==
  ASSUME SmallPlan, MatchingInv, s2pc = "update",
         \A v \in DV : v \notin history[s2b + 1].nei[v],
         NoRepetition(history[s2b + 1].window)
  PROVE  CountMatches(idx, UpdateIndex, Stage.flat) = Cardinality(Due(history[s2b + 1]))
<1> DEFINE due == Due(history[s2b + 1])
           E == {e \in QEdges : EdgeOk(Stage.flat, e)}
           M(e) == Matches(idx, UpdateIndex, e)
           P == [e \in E |-> M(e)]
           found(e) == SumFunction([m \in M(e) |-> Multiplicity(idx, UpdateIndex, e, m)])
           f == [e \in E |-> found(e)]
<1>1. \A e \in QEdges : \A m \in M(e) :
        m \in due /\ EdgeOk(Stage.flat, e) /\ Multiplicity(idx, UpdateIndex, e, m) = 1
  BY MatchesDue
<1>2. \A m \in due : \E ei \in QEdges : \A e \in QEdges : m \in M(e) <=> e = ei
  BY StartsOnce
<1>3. CountMatches(idx, UpdateIndex, Stage.flat) = SumFunction(f)
  BY DEF CountMatches
<1>4. IsFiniteSet(E)
  <2>1. QEdges \subseteq 0..MAX_ECOUNT /\ MAX_ECOUNT \in Nat
    BY EdgeAssumption DEF QEdges
  <2>2. IsFiniteSet(0..MAX_ECOUNT)
    BY <2>1, FS_Interval
  <2> QED
    BY <2>1, <2>2, FS_Subset
<1>5. E \subseteq QEdges
  OBVIOUS
<1>6. IsFiniteSet(due)
  BY DueFinite
<1>7. \A e \in QEdges : IsFiniteSet(M(e))
  BY <1>1, <1>6, FS_Subset
<1>8. ASSUME NEW e \in E PROVE found(e) = Cardinality(M(e))
  <2> DEFINE g == [m \in M(e) |-> Multiplicity(idx, UpdateIndex, e, m)]
  <2>1. g = [m \in M(e) |-> 1]
    BY <1>1
  <2>2. IsFiniteSet(M(e))
    BY <1>5, <1>7
  <2>3. found(e) = SumFunction(g)
    OBVIOUS
  <2> HIDE DEF g, M, found
  <2> QED
    BY <2>1, <2>2, <2>3, SumOfOnes
<1> HIDE DEF found, M, due, E
<1>9. f = [e \in E |-> Cardinality(P[e])]
  BY <1>8
<1>10. \A e \in E : IsFiniteSet(P[e])
  BY <1>5, <1>7
<1>11. \A e, d \in E : e # d => P[e] \cap P[d] = {}
  BY <1>1, <1>2, <1>5
<1>12. UNION {P[e] : e \in E} = due
  <2>1. ASSUME NEW e \in E, NEW m \in P[e] PROVE m \in due
    BY <1>1, <1>5
  <2>2. ASSUME NEW m \in due PROVE \E e \in E : m \in P[e]
    <3>1. PICK e \in QEdges : m \in M(e)
      BY <1>2
    <3>2. e \in E
      BY <1>1, <3>1 DEF E
    <3> QED
      BY <3>1, <3>2
  <2> QED
    BY <2>1, <2>2
<1> HIDE DEF P, f
<1>13. SumFunction(f) = Cardinality(due)
  BY <1>4, <1>9, <1>10, <1>11, <1>12, SumOfParts
<1> QED
  BY <1>3, <1>13 DEF due

LEMMA BatchWithoutUpdates ==
  ASSUME NEW h, NEW s, CarriesMatches(h, s), s.upd = EmptyBag
  PROVE  Due(h) = {}
<1> SUFFICES ASSUME NEW m \in Due(h) PROVE FALSE
  OBVIOUS
<1>1. IsMatch(h.nei, m) /\ UsesEdge(m, h.window)
  BY EmbeddingsMatch DEF Due
<1>2. PICK d \in Positions : \E k \in Backward(Order, d) : \E i \in DOMAIN h.window :
        h.window[i] \in {<<m[k], m[d]>>, <<m[d], m[k]>>}
  BY <1>1 DEF UsesEdge
<1>3. PICK k \in Backward(Order, d) : \E i \in DOMAIN h.window :
        h.window[i] \in {<<m[k], m[d]>>, <<m[d], m[k]>>}
  BY <1>2
<1> DEFINE a == Assigned(m)
           u == Order[k]
           w == Order[d]
<1>4. /\ a \in [QV -> DV] /\ \A j \in Positions : a[Order[j]] = m[j]
  BY <1>1, AssignedAt DEF IsMatch
<1>5. k \in Positions /\ u \in QV /\ w \in QV /\ w \in QNei[u]
  <2>1. k \in Positions /\ u \in QNei[w]
    BY <1>3, QuerySize DEF Backward, Positions
  <2> QED
    BY <2>1, OrderFacts, QueryAssumption
<1>6. RowOf(a, u, w) \in s.rows
  BY <1>1, <1>4, <1>5, MatchEmbeds DEF CarriesMatches
<1>7. RowOf(a, u, w)[1] = m[k] /\ RowOf(a, u, w)[2] = m[d]
  BY <1>4, <1>5 DEF RowOf
<1>8. OnWindow(RowOf(a, u, w), h.window)
  BY <1>3, <1>7 DEF OnWindow
<1>9. RowOf(a, u, w) \in BagToSet(EmptyBag)
  BY <1>6, <1>8 DEF CarriesMatches
<1> QED
  BY <1>9 DEF BagToSet, EmptyBag, SetToBag

Total(hist, n) == SumFunction([i \in 1..n |-> Cardinality(Due(hist[i]))])

LEMMA TotalSize ==
  ASSUME NEW hist, NEW n \in Nat
  PROVE  Total(hist, n) = Cardinality(UNION {{i} \X Due(hist[i]) : i \in 1..n})
<1> DEFINE P == [i \in 1..n |-> {i} \X Due(hist[i])]
           f == [i \in 1..n |-> Cardinality(Due(hist[i]))]
           all == UNION {{i} \X Due(hist[i]) : i \in 1..n}
           parts == UNION {P[i] : i \in 1..n}
<1>1. ASSUME NEW i \in 1..n
      PROVE  IsFiniteSet(P[i]) /\ Cardinality(P[i]) = Cardinality(Due(hist[i]))
  <2>1. IsFiniteSet({i}) /\ Cardinality({i}) = 1 /\ IsFiniteSet(Due(hist[i]))
    BY FS_Singleton, DueFinite
  <2>2. Cardinality(Due(hist[i])) \in Nat
    BY <2>1, FS_CardinalityType
  <2>3. P[i] = {i} \X Due(hist[i])
    OBVIOUS
  <2>4. IsFiniteSet(P[i]) /\ Cardinality(P[i]) = 1 * Cardinality(Due(hist[i]))
    BY <2>1, <2>3, FS_Product
  <2> QED
    BY <2>2, <2>4
<1>2. f = [i \in 1..n |-> Cardinality(P[i])]
  <2> HIDE DEF P
  <2> QED
    BY <1>1
<1>3. \A i, j \in 1..n : i # j => P[i] \cap P[j] = {}
  OBVIOUS
<1>4. IsFiniteSet(1..n)
  BY FS_Interval
<1>5. parts = all
  OBVIOUS
<1>6. Total(hist, n) = SumFunction(f)
  BY DEF Total
<1> HIDE DEF P, f
<1>7. SumFunction(f) = Cardinality(parts)
  <2>1. \A i \in 1..n : IsFiniteSet(P[i])
    BY <1>1
  <2> QED
    BY <2>1, <1>2, <1>3, <1>4, SumOfParts
<1>8. Total(hist, n) = Cardinality(all)
  <2> HIDE DEF parts, all
  <2> QED
    BY <1>5, <1>6, <1>7
<1> QED
  BY <1>8

LEMMA TotalNext ==
  ASSUME NEW hist, NEW n \in Nat
  PROVE  /\ Total(hist, n) \in Nat /\ Cardinality(Due(hist[n + 1])) \in Nat
         /\ Total(hist, n + 1) = Total(hist, n) + Cardinality(Due(hist[n + 1]))
<1> DEFINE part(i) == {i} \X Due(hist[i])
           A == UNION {part(i) : i \in 1..n}
           B == part(n + 1)
<1>1. IsFiniteSet(A)
  <2> DEFINE P == [i \in 1..n |-> part(i)]
  <2>1. \A i \in 1..n : IsFiniteSet(P[i])
    BY DueFinite, FS_Singleton, FS_Product
  <2>2. IsFiniteSet(1..n)
    BY FS_Interval
  <2>3. {P[i] : i \in 1..n} = {part(i) : i \in 1..n}
    OBVIOUS
  <2> HIDE DEF P
  <2>4. IsFiniteSet({P[i] : i \in 1..n})
    BY <2>2, FiniteImage
  <2> QED
    BY <2>1, <2>3, <2>4, FS_UNION
<1>2. /\ IsFiniteSet(B) /\ Cardinality(Due(hist[n + 1])) \in Nat
      /\ Cardinality(B) = Cardinality(Due(hist[n + 1]))
  <2>1. IsFiniteSet({n + 1}) /\ Cardinality({n + 1}) = 1 /\ IsFiniteSet(Due(hist[n + 1]))
    BY FS_Singleton, DueFinite
  <2>2. Cardinality(Due(hist[n + 1])) \in Nat
    BY <2>1, FS_CardinalityType
  <2>3. IsFiniteSet(B) /\ Cardinality(B) = 1 * Cardinality(Due(hist[n + 1]))
    BY <2>1, FS_Product
  <2> QED
    BY <2>2, <2>3
<1>3. A \cap B = {}
  OBVIOUS
<1>4. UNION {part(i) : i \in 1..n + 1} = A \cup B
  <2>1. 1..n + 1 = (1..n) \cup {n + 1}
    OBVIOUS
  <2> HIDE DEF part
  <2> QED
    BY <2>1
<1>5. Total(hist, n) = Cardinality(A) /\ Total(hist, n + 1) = Cardinality(A \cup B)
  BY <1>4, TotalSize
<1> HIDE DEF A, B
<1>6. Cardinality(A \cup B) = Cardinality(A) + Cardinality(B) - Cardinality({})
  BY <1>1, <1>2, <1>3, FS_Union
<1>7. Cardinality({}) = 0 /\ Cardinality(A) \in Nat
  BY <1>1, FS_EmptySet, FS_CardinalityType
<1> QED
  BY <1>2, <1>5, <1>6, <1>7

-----------------------------------------------------------------------------
(* The data graph has no edge from a vertex to itself: the first two       *)
(* vertices of a match are not compared, so such an edge is a match of a   *)
(* query edge between equal labels.                                        *)
SimpleData ==
  /\ \A v \in DV : v \notin InitNei[v]
  /\ \A b \in Batches : \A k \in DOMAIN b : b[k][1] # b[k][2]

Loopless(adj) == \A v \in DV : v \notin adj[v]

LooplessInv == Loopless(nei) /\ \A i \in 1..Len(history) : Loopless(history[i].nei)

LEMMA LooplessStep ==
  ASSUME SimpleData, MatchingInv, LooplessInv, [MNext]_mallvars
  PROVE  LooplessInv'
<1>1. /\ history \in Seq([nei : [DV -> SUBSET DV], window : Seq(DV \X DV)])
      /\ nei \in [DV -> SUBSET DV] /\ batch \in Seq(DV \X DV)
  BY DEF MatchingInv, HistoryInv, GlobalInv, FilterInv, EdgeInv, GraphInv, TypeOK
<1>2. Loopless(nei')
  <2>1. CASE nei' = nei
    BY <2>1 DEF LooplessInv
  <2>2. ASSUME NEW b \in Batches, StartBatch(b) PROVE Loopless(nei')
    <3> SUFFICES ASSUME NEW v \in DV PROVE v \notin nei'[v]
      BY DEF Loopless
    <3> DEFINE edges == Directed(Fresh(b))
    <3>1. nei' = Join(nei, edges)
      BY <2>2 DEF StartBatch
    <3>2. \A k \in DOMAIN b : b[k] \in DV \X DV /\ b[k][1] # b[k][2]
      BY InputAssumption, ElementOfSeq DEF SimpleData
    <3>3. \A e \in Fresh(b) : e[1] # e[2]
      BY <3>2 DEF Fresh
    <3>4. <<v, v>> \notin edges
      BY <3>3 DEF Directed
    <3> HIDE DEF edges
    <3>5. v \notin nei[v]
      BY DEF LooplessInv, Loopless
    <3> QED
      BY <3>1, <3>4, <3>5 DEF Join
  <2>3. nei' = nei \/ \E b \in Batches : StartBatch(b)
    BY DEF MNext, Stage1, StageBatch, Prepare, Index, Work, TurnOff, DelCollect, DelDone,
       DelErase, DelEraseDone, DelCheck, DelCheckDone, TurnOnInsert, TurnOnCheck, AddCollect,
       AddDone, AddInsert, AddCheck, AddCheckDelete, RecordActivated, ConstructUpdate,
       ConvertGlobalIndex, Transfer, TransferUpdateAll, MatchingBitAll, Update,
       BatchUpdateGlobalIndex, mallvars, allvars, vars
  <2> QED
    BY <2>1, <2>2, <2>3
<1>3. ASSUME NEW i \in 1..Len(history') PROVE Loopless(history'[i].nei)
  <2>1. CASE history' = history
    BY <2>1 DEF LooplessInv
  <2>2. CASE StageBatch
    <3> DEFINE h == [nei |-> nei, window |-> batch]
    <3>1. h \in [nei : [DV -> SUBSET DV], window : Seq(DV \X DV)] /\ h.nei = nei
      BY <1>1
    <3>2. history' = Append(history, h)
      BY <2>2 DEF StageBatch
    <3> HIDE DEF h
    <3>3. /\ Len(history') = Len(history) + 1 /\ history'[Len(history) + 1] = h
          /\ \A j \in 1..Len(history) : history'[j] = history[j]
      BY <1>1, <3>1, <3>2, Appended
    <3>4. i = Len(history) + 1 \/ i \in 1..Len(history)
      BY <1>1, <3>3
    <3> QED
      BY <3>1, <3>3, <3>4 DEF LooplessInv
  <2>3. history' = history \/ StageBatch
    BY DEF MNext, Stage1, Transfer, MatchingBitAll, Update, mallvars, mvars
  <2> QED
    BY <2>1, <2>2, <2>3
<1> QED
  BY <1>2, <1>3 DEF LooplessInv

-----------------------------------------------------------------------------
(* Stage 2 has matched the batches that it has completed, and that at hand *)
(* or not; and their matches are counted.                                  *)
PlaceInv ==
  /\ matched \in {s2b, s2b + 1}
  /\ s2pc = "transfer" => matched = s2b

CountInv == MatchingInv /\ LooplessInv /\ PlaceInv /\ MatchesCounted

LEMMA MatchedStaged ==
  ASSUME MatchingInv, PlaceInv
  PROVE  /\ matched \in Nat /\ s2b \in Nat /\ matched <= Len(stages) /\ Len(stages) \in Nat
         /\ Len(history) = Len(stages) /\ (s2pc = "transfer" \/ s2pc = "update")
         /\ s2pc = "update" => s2b + 1 <= Len(stages)
<1>1. /\ s2b \in 0..Len(stages) /\ stages \in Seq(StageType) /\ s2pc \in {"transfer", "update"}
      /\ s2pc = "update" => s2b < Len(stages)
  BY DEF MatchingInv, GlobalInv, StageTwoInv, StagesOK
<1>2. Len(stages) \in Nat
  BY <1>1, LenProperties
<1> QED
  BY <1>1, <1>2 DEF PlaceInv, MatchingInv, HistoryInv

LEMMA PlaceStep ==
  ASSUME MatchingInv, PlaceInv, [MNext]_mallvars
  PROVE  PlaceInv'
<1>1. s2b \in Nat
  BY MatchedStaged
<1>2. CASE Transfer
  BY <1>1, <1>2 DEF Transfer, TransferUpdateAll, Ready, PlaceInv
<1>3. CASE MatchingBitAll
  BY <1>1, <1>3 DEF MatchingBitAll, MatchNext, PlaceInv, allvars, gvars
<1>4. CASE Update
  BY <1>1, <1>4 DEF Update, BatchUpdateGlobalIndex, PlaceInv, mvars
<1>5. UNCHANGED <<matched, s2b, s2pc>> => PlaceInv'
  BY DEF PlaceInv
<1>6. Stage1 \/ UNCHANGED mallvars => UNCHANGED <<matched, s2b, s2pc>>
  BY DEF Stage1, StageBatch, Prepare, Index, ConvertGlobalIndex, mallvars, allvars, gvars, mvars
<1> QED
  BY <1>2, <1>3, <1>4, <1>5, <1>6 DEF MNext

LEMMA CountedIsTotal ==
  MatchesCounted <=>
    ((\A i \in 1..matched : NoRepetition(history[i].window)) => numMatches = Total(history, matched))
BY DEF MatchesCounted, Total

LEMMA TotalKept ==
  ASSUME NEW n, NEW g, NEW h, \A i \in 1..n : g[i] = h[i]
  PROVE  Total(g, n) = Total(h, n)
<1>1. [i \in 1..n |-> Cardinality(Due(g[i]))] = [i \in 1..n |-> Cardinality(Due(h[i]))]
  OBVIOUS
<1> QED
  BY <1>1 DEF Total

(* The next batch counted. *)
LEMMA OneMore ==
  ASSUME MatchingInv, PlaceInv, MatchesCounted, UNCHANGED history, matched = s2b,
         matched' = matched + 1,
         NoRepetition(history[s2b + 1].window) =>
           \/ numMatches' = numMatches + Cardinality(Due(history[s2b + 1]))
           \/ numMatches' = numMatches /\ Due(history[s2b + 1]) = {}
  PROVE  MatchesCounted'
<1> SUFFICES ASSUME \A i \in 1..matched' : NoRepetition(history[i].window)
             PROVE  numMatches' = Total(history, matched')
  BY DEF MatchesCounted, Total
<1>1. matched \in Nat /\ 1..matched \subseteq 1..matched' /\ matched + 1 \in 1..matched'
  BY MatchedStaged
<1>2. numMatches = Total(history, matched)
  BY <1>1, CountedIsTotal
<1>3. /\ Total(history, matched) \in Nat
      /\ Total(history, matched + 1) = Total(history, matched) + Cardinality(Due(history[matched + 1]))
  BY <1>1, TotalNext
<1>4. NoRepetition(history[matched + 1].window)
  BY <1>1
<1> QED
  BY <1>2, <1>3, <1>4, FS_EmptySet

LEMMA CountStep ==
  ASSUME SmallPlan, SimpleData, CountInv, [MNext]_mallvars
  PROVE  CountInv'
<1>i. MatchingInv /\ LooplessInv /\ PlaceInv /\ MatchesCounted
  BY DEF CountInv
<1>s. /\ matched \in Nat /\ s2b \in Nat /\ matched <= Len(stages) /\ Len(stages) \in Nat
      /\ Len(history) = Len(stages) /\ (s2pc = "transfer" \/ s2pc = "update")
      /\ s2pc = "update" => s2b + 1 <= Len(stages)
  BY <1>i, MatchedStaged
<1>1. MatchingInv'
  BY <1>i, MatchingStep DEF SmallPlan
<1>2. LooplessInv' /\ PlaceInv'
  BY <1>i, LooplessStep, PlaceStep
<1>3. ASSUME UNCHANGED <<matched, numMatches>>,
             \A i \in 1..Len(history) : history'[i] = history[i]
      PROVE  MatchesCounted'
  <2>1. \A i \in 1..matched : history'[i] = history[i]
    BY <1>3, <1>s
  <2>2. Total(history', matched) = Total(history, matched)
    BY <2>1, TotalKept
  <2> QED
    BY <1>3, <1>i, <2>1, <2>2 DEF MatchesCounted, Total
<1>4. ASSUME UNCHANGED <<matched, numMatches, history>> PROVE MatchesCounted'
  BY <1>3, <1>4
<1>5. ASSUME StageBatch PROVE MatchesCounted'
  <2>1. /\ history \in Seq([nei : [DV -> SUBSET DV], window : Seq(DV \X DV)])
        /\ nei \in [DV -> SUBSET DV] /\ batch \in Seq(DV \X DV)
    BY <1>i DEF MatchingInv, HistoryInv, GlobalInv, FilterInv, EdgeInv, GraphInv, TypeOK
  <2> DEFINE h == [nei |-> nei, window |-> batch]
  <2>2. h \in [nei : [DV -> SUBSET DV], window : Seq(DV \X DV)]
    BY <2>1
  <2>3. history' = Append(history, h) /\ UNCHANGED <<matched, numMatches>>
    BY <1>5 DEF StageBatch
  <2> HIDE DEF h
  <2> QED
    BY <1>3, <2>1, <2>2, <2>3, Appended
<1>6. ASSUME Transfer PROVE MatchesCounted'
  <2>1. /\ s2pc = "transfer" /\ s2b < Len(stages) /\ matched = s2b /\ matched' = s2b'
        /\ UNCHANGED <<numMatches, history>>
        /\ IF Stage.upd = EmptyBag THEN s2b' = s2b + 1 ELSE s2b' = s2b
    BY <1>6, <1>i DEF Transfer, TransferUpdateAll, Ready, PlaceInv
  <2>2. CASE Stage.upd = EmptyBag
    <3>1. CarriesMatches(history[s2b + 1], Stage)
      BY <1>i, <1>s, <2>1 DEF MatchingInv, HistoryInv, Stage
    <3>2. Due(history[s2b + 1]) = {}
      BY <2>2, <3>1, BatchWithoutUpdates
    <3> QED
      BY <1>i, <2>1, <2>2, <3>2, OneMore
  <2>3. CASE Stage.upd # EmptyBag
    BY <1>4, <2>1, <2>3
  <2> QED
    BY <2>2, <2>3
<1>7. ASSUME MatchingBitAll PROVE MatchesCounted'
  <2>1. /\ s2pc = "update" /\ matched = s2b /\ matched' = s2b + 1 /\ UNCHANGED history
        /\ numMatches' = numMatches + CountMatches(idx, UpdateIndex, Stage.flat)
    BY <1>7 DEF MatchingBitAll, MatchNext
  <2>2. \A v \in DV : v \notin history[s2b + 1].nei[v]
    BY <1>i, <1>s, <2>1 DEF LooplessInv, Loopless
  <2>3. NoRepetition(history[s2b + 1].window) =>
          CountMatches(idx, UpdateIndex, Stage.flat) = Cardinality(Due(history[s2b + 1]))
    BY <1>i, <2>1, <2>2, BatchCounted
  <2> QED
    BY <1>i, <2>1, <2>3, OneMore
<1>8. \/ UNCHANGED <<matched, numMatches, history>>
      \/ StageBatch \/ Transfer \/ MatchingBitAll
  BY DEF MNext, Stage1, Update, mallvars, mvars
<1>9. MatchesCounted'
  BY <1>4, <1>5, <1>6, <1>7, <1>8
<1> QED
  BY <1>1, <1>2, <1>9 DEF CountInv

LEMMA InitCountInv == SimpleData /\ MInit => CountInv
<1> SUFFICES ASSUME SimpleData, MInit PROVE CountInv
  OBVIOUS
<1>1. MatchingInv
  BY InitMatchingInv
<1>2. nei = InitNei /\ history = <<>> /\ matched = 0 /\ s2b = 0 /\ numMatches = 0
  BY DEF MInit, GInit, Init
<1>3. LooplessInv
  BY <1>2 DEF SimpleData, LooplessInv, Loopless
<1>4. PlaceInv
  BY <1>2 DEF PlaceInv
<1>5. Total(history, 0) = 0
  <2>1. UNION {{i} \X Due(history[i]) : i \in 1..0} = {}
    OBVIOUS
  <2> QED
    BY <2>1, TotalSize, FS_EmptySet
<1>6. MatchesCounted
  BY <1>2, <1>5, CountedIsTotal
<1> QED
  BY <1>1, <1>3, <1>4, <1>6 DEF CountInv

(* The number printed is the number of the matches due (MatchesCounted),   *)
(* after every batch and for every query, plan, graph and stream of the    *)
(* kind assumed: filtering, staging, masks and starting edges lose none    *)
(* and count none twice.  SmallPlan is what the 5 bits of the tag hold.    *)
THEOREM MatchesAreCounted ==
  ASSUME SmallPlan, SimpleData
  PROVE  MSpec => []MatchesCounted
<1>1. MInit => CountInv
  BY InitCountInv
<1>2. CountInv /\ [MNext]_mallvars => CountInv'
  BY CountStep
<1>3. CountInv => MatchesCounted
  BY DEF CountInv
<1> QED
  BY <1>1, <1>2, <1>3, PTL DEF MSpec
=============================================================================
