----------------------------- MODULE PlanProofs ------------------------------
(***************************************************************************)
(* Proofs about Startup and Plan, for every query file that numbers its    *)
(* vertices and connects them, all statistics of the data graph and the    *)
(* four ways to order (InputsAssumption, PlanConstants).                   *)
(*                                                                         *)
(* First what the loader makes of the lines: a connected graph and the     *)
(* list of its edges.  Then that each choice of the planner has something  *)
(* to choose from, and that its ties, which compare numbers and fractions, *)
(* have a best one.  Then the indexing orders, breadth first and so        *)
(* complete, and the paths that the flags come from.  The invariant says   *)
(* what is planned in each phase of the program.                           *)
(***************************************************************************)
EXTENDS Startup, InductionLemmas

-----------------------------------------------------------------------------
(* Sequences. *)

(* r is s with x added, and nothing else. *)
Added(r, s, x, V) == r \in Seq(V) /\ Range(r) = Range(s) \cup {x}

LEMMA InsertedFacts ==
  ASSUME NEW V, V \subseteq Nat, NEW s \in Seq(V), NEW x \in V
  PROVE  Added(Inserted(s, x), s, x, V)
<1> DEFINE low == {i \in DOMAIN s : s[i] < x}
           k == Cardinality(low)
           n == Len(s)
           a == SubSeq(s, 1, k)
           c == SubSeq(s, k + 1, n)
           r == Inserted(s, x)
<1>1. n \in Nat /\ DOMAIN s = 1..n /\ \A i \in 1..n : s[i] \in V
  BY LenProperties, ElementOfSeq
<1> HIDE DEF n
<1>2. k \in 0..n
  <2>1. IsFiniteSet(1..n) /\ Cardinality(1..n) = n
    <3>1. /\ IsFiniteSet(1..n)
          /\ Cardinality(1..n) = IF 1 > n THEN 0 ELSE n - 1 + 1
      BY <1>1, FS_Interval
    <3> QED
      BY <1>1, <3>1
  <2>2. k \in Nat /\ k <= n
    BY <1>1, <2>1, FS_Subset, FS_CardinalityType
  <2> QED
    BY <1>1, <2>2
<1> HIDE DEF low
<1>3. r = (a \o <<x>>) \o c
  <2>1. (1 + k) - 1 = k /\ 1 + k = k + 1
    BY <1>2
  <2> QED
    BY <2>1 DEF Inserted, InsertAt, low, n
<1> HIDE DEF k
<1>4. a \in Seq(V) /\ Len(a) = k /\ \A i \in 1..k : a[i] = s[i]
  <2>1. 1 \in Int /\ k \in Int /\ \A i \in 1..k : s[i] \in V
    BY <1>1, <1>2
  <2>2. a \in Seq(V) /\ Len(a) = (IF 1 <= k THEN k - 1 + 1 ELSE 0)
        /\ \A i \in 1..k - 1 + 1 : a[i] = s[1 + i - 1]
    BY <2>1, SubSeqProperties
  <2>3. k - 1 + 1 = k /\ (1 <= k \/ k = 0)
    BY <1>2
  <2>4. \A i \in 1..k : 1 + i - 1 = i
    BY <1>2
  <2> QED
    BY <2>2, <2>3, <2>4
<1>5. c \in Seq(V) /\ Len(c) = n - k /\ \A i \in 1..n - k : c[i] = s[k + i]
  <2>1. k + 1 \in 1..n + 1 /\ n \in k..n
    BY <1>1, <1>2
  <2>2. c \in Seq(V) /\ Len(c) = (IF k + 1 <= n THEN n - (k + 1) + 1 ELSE 0)
        /\ \A i \in 1..n - (k + 1) + 1 : c[i] = s[(k + 1) + i - 1]
    BY SMTT(30), <1>1, <1>2, <2>1, SubSeqProperties
  <2>3. n - (k + 1) + 1 = n - k /\ (k + 1 <= n \/ n - k = 0)
    BY <1>1, <1>2
  <2>4. \A i \in 1..n - k : (k + 1) + i - 1 = k + i
    BY <1>1, <1>2
  <2> QED
    BY <2>2, <2>3, <2>4
<1> HIDE DEF a, c, r
<1>6. a \o <<x>> \in Seq(V) /\ Len(a \o <<x>>) = k + 1
      /\ (\A i \in 1..k : (a \o <<x>>)[i] = s[i]) /\ (a \o <<x>>)[k + 1] = x
  <2>1. <<x>> \in Seq(V) /\ Len(<<x>>) = 1 /\ <<x>>[1] = x
    OBVIOUS
  <2>2. (a \o <<x>>) \in Seq(V) /\ Len(a \o <<x>>) = k + 1
    BY <1>2, <1>4, <2>1, ConcatProperties
  <2>3. \A i \in 1..k + 1 : (a \o <<x>>)[i] = IF i <= k THEN a[i] ELSE <<x>>[i - k]
    BY <1>2, <1>4, <2>1, ConcatProperties
  <2>4. k + 1 \in 1..k + 1 /\ ~(k + 1 <= k) /\ (k + 1) - k = 1
        /\ \A i \in 1..k : i <= k /\ i \in 1..k + 1
    BY <1>2
  <2> QED
    BY <1>4, <2>1, <2>2, <2>3, <2>4
<1> DEFINE b == a \o <<x>>
<1> HIDE DEF b
<1>7. b \in Seq(V) /\ Len(b) = k + 1 /\ (\A i \in 1..k : b[i] = s[i]) /\ b[k + 1] = x
      /\ r = b \o c
  BY <1>3, <1>6 DEF b
<1>8. /\ r \in Seq(V) /\ Len(r) = n + 1
      /\ \A i \in 1..n + 1 : r[i] = IF i <= k + 1 THEN b[i] ELSE c[i - (k + 1)]
  <2>1. (k + 1) + (n - k) = n + 1
    BY <1>1, <1>2
  <2>2. /\ r \in Seq(V) /\ Len(r) = Len(b) + Len(c)
        /\ \A i \in 1..Len(b) + Len(c) : r[i] = IF i <= Len(b) THEN b[i] ELSE c[i - Len(b)]
    BY <1>5, <1>7, ConcatProperties
  <2>3. Len(b) + Len(c) = n + 1
    BY <1>5, <1>7, <2>1
  <2> QED
    BY <1>7, <2>2, <2>3
<1>9. DOMAIN r = 1..n + 1
  BY <1>8, LenProperties
<1>10. ASSUME NEW i \in 1..n + 1 PROVE r[i] \in Range(s) \cup {x}
  <2>1. CASE i <= k
    <3>1. i \in 1..k /\ i <= k + 1 /\ i \in 1..n
      BY <1>1, <1>2, <2>1
    <3> QED
      BY <1>1, <1>7, <1>8, <3>1 DEF Range
  <2>2. CASE i = k + 1
    BY <1>7, <1>8, <2>2
  <2>3. CASE i > k + 1
    <3>1. i - (k + 1) \in 1..n - k /\ k + (i - (k + 1)) = i - 1 /\ i - 1 \in 1..n /\ ~(i <= k + 1)
      BY <1>1, <1>2, <2>3
    <3>2. r[i] = s[i - 1]
      BY <1>5, <1>8, <3>1
    <3> QED
      BY <1>1, <3>1, <3>2 DEF Range
  <2> QED
    BY <1>2, <2>1, <2>2, <2>3
<1>11. ASSUME NEW i \in 1..n PROVE s[i] \in Range(r)
  <2>1. CASE i <= k
    <3>1. i \in 1..k /\ i <= k + 1 /\ i \in 1..n + 1
      BY <1>1, <1>2, <2>1
    <3> QED
      BY <1>7, <1>8, <1>9, <3>1 DEF Range
  <2>2. CASE ~(i <= k)
    <3>1. i + 1 \in 1..n + 1 /\ ~(i + 1 <= k + 1) /\ (i + 1) - (k + 1) = i - k
          /\ i - k \in 1..n - k /\ k + (i - k) = i
      BY <1>1, <1>2, <2>2
    <3>2. r[i + 1] = s[i]
      BY <1>5, <1>8, <3>1
    <3> QED
      BY <1>9, <3>1, <3>2 DEF Range
  <2> QED
    BY <2>1, <2>2
<1>12. x \in Range(r)
  <2>1. k + 1 \in 1..n + 1 /\ k + 1 <= k + 1
    BY <1>1, <1>2
  <2> QED
    BY <1>7, <1>8, <1>9, <2>1 DEF Range
<1>13. Range(r) = Range(s) \cup {x}
  BY <1>1, <1>9, <1>10, <1>11, <1>12 DEF Range
<1> QED
  BY <1>8, <1>13 DEF r, Added

-----------------------------------------------------------------------------
(* The query that is loaded. *)

(* r is nbr with w added at u. *)
EndAdded(r, nbr, V, u, w) ==
  /\ r \in [V -> Seq(V)]
  /\ \A x \in V : Range(r[x]) = IF x = u THEN Range(nbr[x]) \cup {w} ELSE Range(nbr[x])

LEMMA WithEndFacts ==
  ASSUME NEW V, V \subseteq Nat, NEW nbr \in [V -> Seq(V)], NEW u \in V, NEW w \in V
  PROVE  EndAdded(WithEnd(nbr, u, w), nbr, V, u, w)
<1>1. Added(Inserted(nbr[u], w), nbr[u], w, V)
  BY InsertedFacts
<1> QED
  BY <1>1 DEF WithEnd, Added, EndAdded

(* r is nbr with the ends of a line added. *)
LineAdded(r, nbr, V, l) ==
  /\ r \in [V -> Seq(V)]
  /\ \A x \in V : Range(r[x]) = Range(nbr[x]) \cup {w \in V : l \in {<<x, w>>, <<w, x>>}}

LEMMA WithLineFacts ==
  ASSUME NEW V, V \subseteq Nat, NEW nbr \in [V -> Seq(V)], NEW l \in V \X V
  PROVE  LineAdded(WithLine(nbr, l), nbr, V, l)
<1> DEFINE one == WithEnd(nbr, l[1], l[2])
           two == WithEnd(one, l[2], l[1])
<1>1. l[1] \in V /\ l[2] \in V /\ l = <<l[1], l[2]>>
  OBVIOUS
<1>2. EndAdded(one, nbr, V, l[1], l[2])
  BY <1>1, WithEndFacts
<1> HIDE DEF one
<1>3. one \in [V -> Seq(V)]
  BY <1>2 DEF EndAdded
<1>4. EndAdded(two, one, V, l[2], l[1])
  BY <1>1, <1>3, WithEndFacts
<1>5. WithLine(nbr, l) = two
  BY DEF WithLine, one
<1> HIDE DEF two
<1>6. ASSUME NEW x \in V
      PROVE  {w \in V : l \in {<<x, w>>, <<w, x>>}} =
               (IF x = l[1] THEN {l[2]} ELSE {}) \cup (IF x = l[2] THEN {l[1]} ELSE {})
  <2>1. \A w : l = <<x, w>> <=> l[1] = x /\ l[2] = w
    BY <1>1
  <2>2. \A w : l = <<w, x>> <=> l[1] = w /\ l[2] = x
    BY <1>1
  <2> QED
    BY <1>1, <2>1, <2>2
<1>7. ASSUME NEW x \in V
      PROVE  Range(two[x]) = Range(nbr[x]) \cup {w \in V : l \in {<<x, w>>, <<w, x>>}}
  <2>1. Range(one[x]) = IF x = l[1] THEN Range(nbr[x]) \cup {l[2]} ELSE Range(nbr[x])
    BY <1>2 DEF EndAdded
  <2>2. Range(two[x]) = IF x = l[2] THEN Range(one[x]) \cup {l[1]} ELSE Range(one[x])
    BY <1>4 DEF EndAdded
  <2> QED
    BY <1>6, <2>1, <2>2
<1> QED
  BY <1>4, <1>5, <1>7 DEF EndAdded, LineAdded

(* The values of the fold that reads the edge lines. *)
ReadValues(h, file) ==
  LET ts == file.es
  IN  /\ h[0] = [u \in 0..Max({l[1] : l \in Range(file.vs)}) |-> <<>>]
      /\ \A k \in 1..Len(ts) : h[k] = WithLine(h[k - 1], ts[k])
      /\ ReadNbrs(file) = h[Len(ts)]

LEMMA ReadFold ==
  ASSUME NEW V, V \subseteq Nat, NEW file, file.es \in Seq(V \X V),
         V = 0..Max({l[1] : l \in Range(file.vs)})
  PROVE  \E h : ReadValues(h, file)
<1> DEFINE ts == file.es
           n == Len(ts)
           X == [V -> Seq(V)]
           base == [u \in 0..Max({l[1] : l \in Range(file.vs)}) |-> <<>>]
           Body(g, s) == IF s = {} THEN base
                         ELSE WithLine(g[s \ {Max(s)}], ts[Max(s)])
           Step == [z \in X \X (1..n) |-> WithLine(z[1], ts[z[2]])]
           iter[s \in SUBSET DOMAIN ts] ==
             IF s = {} THEN [u \in 0..Max({l[1] : l \in Range(file.vs)}) |-> <<>>]
             ELSE LET x == Max(s) IN WithLine(iter[s \ {x}], ts[x])
<1>1. ts \in Seq(V \X V) /\ n \in Nat /\ DOMAIN ts = 1..n
  BY LenProperties
<1>2. ReadNbrs(file) = iter[DOMAIN ts]
  BY DEF ReadNbrs, FoldLeft, MapThenFoldSet
<1>3. iter = CHOOSE g : g = [s \in SUBSET DOMAIN ts |-> Body(g, s)]
  BY DEF iter
<1> HIDE DEF iter, ts
<1>4. \A i \in 1..n : ts[i] \in V \X V
  BY <1>1, ElementOfSeq
<1> HIDE DEF n
<1>5. Step \in [X \X (1..n) -> X]
  <2>1. \A c \in X, i \in 1..n : WithLine(c, ts[i]) \in X
    BY <1>4, WithLineFacts DEF X, LineAdded
  <2> QED
    BY <2>1
<1>6. \A c \in X, i \in 1..n : Step[<<c, i>>] = WithLine(c, ts[i])
  OBVIOUS
<1>7. base \in X
  BY EmptySeq
<1> HIDE DEF Step, X, base
<1>8. PICK g \in [SUBSET (1..n) -> X] : FoldsFrom(g, n, base, Step)
  BY <1>1, <1>5, <1>7, FoldValues
<1>9. \A s \in SUBSET (1..n) : s # {} => Max(s) \in 1..n /\ s \ {Max(s)} \in SUBSET (1..n)
  BY <1>1, MaxNumber
<1>10. \A s \in SUBSET (1..n) : g[s] = Body(g, s)
  BY <1>6, <1>8, <1>9 DEF FoldsFrom
<1>11. g = [s \in SUBSET (1..n) |-> Body(g, s)]
  <2> HIDE DEF Body
  <2> QED
    BY <1>10
<1>12. iter = [s \in SUBSET (1..n) |-> Body(iter, s)]
  <2> HIDE DEF Body
  <2> QED
    BY <1>1, <1>3, <1>11
<1> DEFINE h == [k \in 0..n |-> iter[1..k]]
<1>13. h[0] = base /\ \A k \in 1..n : h[k] = WithLine(h[k - 1], ts[k])
  <2>1. \A s \in SUBSET (1..n) : iter[s] = Body(iter, s)
    <3> HIDE DEF Body
    <3> QED
      BY <1>12
  <2>2. 1..0 = {} /\ 1..0 \in SUBSET (1..n) /\ 0 \in 0..n
    BY <1>1
  <2>3. ASSUME NEW k \in 1..n PROVE h[k] = WithLine(h[k - 1], ts[k])
    <3>1. k \in 0..n /\ k - 1 \in 0..n
      BY <1>1
    <3>2. Max(1..k) = k /\ (1..k) \ {k} = 1..k - 1 /\ 1..k \in SUBSET (1..n) /\ 1..k # {}
      BY <1>1, MaxOfFirst
    <3>3. iter[1..k] = WithLine(iter[1..k - 1], ts[k])
      BY <2>1, <3>2
    <3> QED
      BY <3>1, <3>3
  <2> QED
    BY <2>1, <2>2, <2>3
<1>14. n \in 0..n /\ h[n] = iter[DOMAIN ts]
  BY <1>1
<1> HIDE DEF h
<1> QED
  BY <1>2, <1>13, <1>14 DEF ts, n, base, ReadValues

(* The vertices of a file that is accepted. *)
LEMMA FileVertices ==
  ASSUME NEW file, file.vs \in Seq(Range(file.vs)), file.vs # <<>>,
         \A i \in DOMAIN file.vs : file.vs[i][1] = i - 1
  PROVE  Len(file.vs) \in Nat \ {0} /\ 0..Max({l[1] : l \in Range(file.vs)}) = 0..Len(file.vs) - 1
<1> DEFINE n == Len(file.vs)
           ids == {l[1] : l \in Range(file.vs)}
<1>1. n \in Nat /\ DOMAIN file.vs = 1..n
  BY LenProperties
<1>2. n # 0
  BY EmptySeq
<1> HIDE DEF n
<1>3. ids = {i - 1 : i \in 1..n}
  BY <1>1 DEF Range
<1>4. ids = 0..n - 1
  <2>1. \A i \in 1..n : i - 1 \in 0..n - 1
    BY <1>1
  <2>2. \A k \in 0..n - 1 : k + 1 \in 1..n /\ (k + 1) - 1 = k
    BY <1>1
  <2> QED
    BY <1>3, <2>1, <2>2
<1>5. Max(0..n - 1) = n - 1
  <2>1. n - 1 \in 0..n - 1 /\ \A y \in 0..n - 1 : n - 1 >= y
    BY <1>1, <1>2
  <2>2. Max(0..n - 1) \in 0..n - 1 /\ \A y \in 0..n - 1 : Max(0..n - 1) >= y
    BY <2>1 DEF Max
  <2>3. Max(0..n - 1) >= n - 1
    BY <2>1, <2>2
  <2> QED
    BY <1>1, <2>2, <2>3
<1> QED
  BY <1>1, <1>2, <1>4, <1>5 DEF n

(* The neighbours that are read are those of the lines. *)
HasLines(nbr, V, es) ==
  /\ nbr \in [V -> Seq(V)]
  /\ \A u \in V : Range(nbr[u]) = {w \in V : Joined(es, u, w)}

LEMMA ReadFacts ==
  ASSUME NEW V, V \subseteq Nat, NEW file, file.es \in Seq(V \X V),
         V = 0..Max({l[1] : l \in Range(file.vs)})
  PROVE  HasLines(ReadNbrs(file), V, file.es)
<1> DEFINE es == file.es
           n == Len(es)
           X == [V -> Seq(V)]
           Line(i, u, w) == es[i] \in {<<u, w>>, <<w, u>>}
<1>1. PICK h : ReadValues(h, file)
  BY ReadFold
<1>2. /\ h[0] = [u \in V |-> <<>>]
      /\ \A k \in 1..n : h[k] = WithLine(h[k - 1], es[k])
      /\ ReadNbrs(file) = h[n]
  BY <1>1 DEF ReadValues
<1>3. n \in Nat /\ DOMAIN es = 1..n /\ \A i \in 1..n : es[i] \in V \X V
  BY LenProperties, ElementOfSeq
<1> HIDE DEF n, es, X
<1> DEFINE S == {k \in 0..n : h[k] \in X /\ \A u \in V :
                   Range(h[k][u]) = {w \in V : \E i \in 1..k : Line(i, u, w)}}
<1>4. 0 \in S
  <2>1. Range(<<>>) = {}
    BY DEF Range
  <2>2. <<>> \in Seq(V)
    BY EmptySeq
  <2>3. 0 \in 0..n /\ ~\E i \in 1..0 : TRUE
    BY <1>3
  <2> QED
    BY <1>2, <2>1, <2>2, <2>3 DEF X
<1>5. ASSUME NEW k \in 1..n, k - 1 \in S PROVE k \in S
  <2>1. h[k - 1] \in X /\ es[k] \in V \X V /\ h[k] = WithLine(h[k - 1], es[k])
    BY <1>2, <1>3, <1>5
  <2>2. LineAdded(h[k], h[k - 1], V, es[k])
    BY <2>1, WithLineFacts DEF X
  <2>3. 1..k = (1..k - 1) \cup {k} /\ k \in 0..n
    BY <1>3
  <2>4. ASSUME NEW u \in V
        PROVE  Range(h[k][u]) = {w \in V : \E i \in 1..k : Line(i, u, w)}
    <3>1. Range(h[k][u]) = Range(h[k - 1][u]) \cup {w \in V : Line(k, u, w)}
      BY <2>2 DEF LineAdded
    <3>2. Range(h[k - 1][u]) = {w \in V : \E i \in 1..k - 1 : Line(i, u, w)}
      BY <1>5
    <3> HIDE DEF Line
    <3> QED
      BY <2>3, <3>1, <3>2
  <2>5. h[k] \in X
    BY <2>2 DEF LineAdded, X
  <2> HIDE DEF Line
  <2> QED
    BY <2>3, <2>4, <2>5
<1>6. n \in S
  <2>1. n \in 0..n
    BY <1>3
  <2> HIDE DEF S
  <2>2. \A k \in 0..n : k \in S
    BY <1>3, <1>4, <1>5, CountUp
  <2> QED
    BY <2>1, <2>2
<1>7. \A u, w : (\E i \in 1..n : Line(i, u, w)) <=> Joined(es, u, w)
  BY <1>3 DEF Joined
<1> HIDE DEF Line
<1> QED
  BY <1>2, <1>6, <1>7 DEF HasLines, X, es

(* The values of the fold that lists the edges from a vertex. *)
FromValues(h, list, nbr, u) ==
  LET ts == nbr[u]
  IN  /\ h[0] = list
      /\ \A k \in 1..Len(ts) : h[k] = WithEdge(h[k - 1], u, ts[k])
      /\ EdgesFrom(list, nbr, u) = h[Len(ts)]

LEMMA FromFold ==
  ASSUME NEW V, V \subseteq Nat, NEW nbr \in [V -> Seq(V)], NEW u \in V,
         NEW list \in Seq(V \X V)
  PROVE  \E h : FromValues(h, list, nbr, u)
<1> DEFINE ts == nbr[u]
           n == Len(ts)
           X == Seq(V \X V)
           base == list
           Body(g, s) == IF s = {} THEN base
                         ELSE WithEdge(g[s \ {Max(s)}], u, ts[Max(s)])
           Step == [z \in X \X (1..n) |-> WithEdge(z[1], u, ts[z[2]])]
           iter[s \in SUBSET DOMAIN ts] ==
             IF s = {} THEN list
             ELSE LET x == Max(s) IN WithEdge(iter[s \ {x}], u, ts[x])
<1>1. ts \in Seq(V) /\ n \in Nat /\ DOMAIN ts = 1..n
  BY LenProperties
<1>2. EdgesFrom(list, nbr, u) = iter[DOMAIN ts]
  BY DEF EdgesFrom, FoldLeft, MapThenFoldSet
<1>3. iter = CHOOSE g : g = [s \in SUBSET DOMAIN ts |-> Body(g, s)]
  BY DEF iter
<1> HIDE DEF iter, ts
<1>4. \A i \in 1..n : ts[i] \in V
  BY <1>1, ElementOfSeq
<1> HIDE DEF n
<1>5. Step \in [X \X (1..n) -> X]
  <2>1. \A c \in X, i \in 1..n : WithEdge(c, u, ts[i]) \in X
    BY <1>4, AppendProperties DEF X, WithEdge
  <2> QED
    BY <2>1
<1>6. \A c \in X, i \in 1..n : Step[<<c, i>>] = WithEdge(c, u, ts[i])
  OBVIOUS
<1>7. base \in X
  OBVIOUS
<1> HIDE DEF Step, X, base
<1>8. PICK g \in [SUBSET (1..n) -> X] : FoldsFrom(g, n, base, Step)
  BY <1>1, <1>5, <1>7, FoldValues
<1>9. \A s \in SUBSET (1..n) : s # {} => Max(s) \in 1..n /\ s \ {Max(s)} \in SUBSET (1..n)
  BY <1>1, MaxNumber
<1>10. \A s \in SUBSET (1..n) : g[s] = Body(g, s)
  BY <1>6, <1>8, <1>9 DEF FoldsFrom
<1>11. g = [s \in SUBSET (1..n) |-> Body(g, s)]
  <2> HIDE DEF Body
  <2> QED
    BY <1>10
<1>12. iter = [s \in SUBSET (1..n) |-> Body(iter, s)]
  <2> HIDE DEF Body
  <2> QED
    BY <1>1, <1>3, <1>11
<1> DEFINE h == [k \in 0..n |-> iter[1..k]]
<1>13. h[0] = base /\ \A k \in 1..n : h[k] = WithEdge(h[k - 1], u, ts[k])
  <2>1. \A s \in SUBSET (1..n) : iter[s] = Body(iter, s)
    <3> HIDE DEF Body
    <3> QED
      BY <1>12
  <2>2. 1..0 = {} /\ 1..0 \in SUBSET (1..n) /\ 0 \in 0..n
    BY <1>1
  <2>3. ASSUME NEW k \in 1..n PROVE h[k] = WithEdge(h[k - 1], u, ts[k])
    <3>1. k \in 0..n /\ k - 1 \in 0..n
      BY <1>1
    <3>2. Max(1..k) = k /\ (1..k) \ {k} = 1..k - 1 /\ 1..k \in SUBSET (1..n) /\ 1..k # {}
      BY <1>1, MaxOfFirst
    <3>3. iter[1..k] = WithEdge(iter[1..k - 1], u, ts[k])
      BY <2>1, <3>2
    <3> QED
      BY <3>1, <3>3
  <2> QED
    BY <2>1, <2>2, <2>3
<1>14. n \in 0..n /\ h[n] = iter[DOMAIN ts]
  BY <1>1
<1> HIDE DEF h
<1> QED
  BY <1>2, <1>13, <1>14 DEF ts, n, base, FromValues

(* r is list with the edges of a vertex u that lead to ws. *)
EdgesAdded(r, list, V, u, ws) ==
  /\ r \in Seq(V \X V)
  /\ Range(r) = Range(list) \cup {p \in V \X V : p[1] = u /\ p[2] \in ws /\ ~(u > p[2])}

LEMMA EdgesFromFacts ==
  ASSUME NEW V, V \subseteq Nat, NEW nbr \in [V -> Seq(V)], NEW u \in V, NEW list \in Seq(V \X V)
  PROVE  EdgesAdded(EdgesFrom(list, nbr, u), list, V, u, Range(nbr[u]))
<1> DEFINE ts == nbr[u]
           n == Len(ts)
           X == Seq(V \X V)
           To(ws) == {p \in V \X V : p[1] = u /\ p[2] \in ws /\ ~(u > p[2])}
<1>1. PICK h : FromValues(h, list, nbr, u)
  BY FromFold
<1>2. /\ h[0] = list
      /\ \A k \in 1..n : h[k] = WithEdge(h[k - 1], u, ts[k])
      /\ EdgesFrom(list, nbr, u) = h[n]
  BY <1>1 DEF FromValues
<1>3. n \in Nat /\ DOMAIN ts = 1..n /\ \A i \in 1..n : ts[i] \in V
  BY LenProperties, ElementOfSeq
<1> HIDE DEF n, ts
<1> DEFINE S == {k \in 0..n : h[k] \in X /\ Range(h[k]) = Range(list) \cup To({ts[i] : i \in 1..k})}
<1>4. 0 \in S
  <2>1. {ts[i] : i \in 1..0} = {} /\ 0 \in 0..n
    BY <1>3
  <2> QED
    BY <1>2, <2>1
<1>5. ASSUME NEW k \in 1..n, k - 1 \in S PROVE k \in S
  <2> DEFINE c == h[k - 1]
             w == ts[k]
  <2>1. c \in X /\ w \in V /\ h[k] = WithEdge(c, u, w)
        /\ Range(c) = Range(list) \cup To({ts[i] : i \in 1..k - 1})
    BY <1>2, <1>3, <1>5
  <2>2. {ts[i] : i \in 1..k} = {ts[i] : i \in 1..k - 1} \cup {w} /\ k \in 0..n
    <3>1. 1..k = (1..k - 1) \cup {k} /\ k \in 0..n
      BY <1>3
    <3> QED
      BY <3>1
  <2> HIDE DEF c, w
  <2>3. CASE u > w
    <3>1. h[k] = c /\ To({w}) = {}
      BY <2>1, <2>3 DEF WithEdge
    <3> QED
      BY <2>1, <2>2, <3>1
  <2>4. CASE ~(u > w)
    <3>1. h[k] = Append(c, <<u, w>>)
      BY <2>1, <2>4 DEF WithEdge
    <3>2. To({w}) = {<<u, w>>}
      BY <2>1, <2>4
    <3>3. /\ h[k] \in X /\ Len(h[k]) = Len(c) + 1 /\ h[k][Len(c) + 1] = <<u, w>>
          /\ \A i \in 1..Len(c) : h[k][i] = c[i]
      BY <2>1, <3>1, AppendProperties
    <3>4. DOMAIN h[k] = 1..Len(c) + 1 /\ DOMAIN c = 1..Len(c) /\ Len(c) \in Nat
      BY <2>1, <3>3, LenProperties
    <3>5. 1..Len(c) + 1 = (1..Len(c)) \cup {Len(c) + 1}
      BY <3>4
    <3>6. Range(h[k]) = {h[k][i] : i \in 1..Len(c)} \cup {<<u, w>>}
      BY <3>3, <3>4, <3>5 DEF Range
    <3>7. Range(h[k]) = Range(c) \cup {<<u, w>>}
      BY <3>3, <3>4, <3>6 DEF Range
    <3> QED
      BY <2>1, <2>2, <3>2, <3>3, <3>7
  <2> QED
    BY <2>3, <2>4
<1>6. n \in S
  <2>1. n \in 0..n
    BY <1>3
  <2> HIDE DEF S
  <2>2. \A k \in 0..n : k \in S
    BY <1>3, <1>4, <1>5, CountUp
  <2> QED
    BY <2>1, <2>2
<1>7. {ts[i] : i \in 1..n} = Range(ts)
  BY <1>3 DEF Range
<1> QED
  BY <1>2, <1>6, <1>7 DEF EdgesAdded, ts

(* The values of the fold that lists the edges. *)
EdgeListValues(h, nbr) ==
  LET ts == AscendingSeq(DOMAIN nbr)
  IN  /\ h[0] = <<>>
      /\ \A k \in 1..Len(ts) : h[k] = EdgesFrom(h[k - 1], nbr, ts[k])
      /\ EdgeList(nbr) = h[Len(ts)]

LEMMA EdgeListFold ==
  ASSUME NEW V, V \subseteq Nat, IsFiniteSet(V), NEW nbr \in [V -> Seq(V)]
  PROVE  \E h : EdgeListValues(h, nbr)
<1> DEFINE ts == AscendingSeq(DOMAIN nbr)
           n == Len(ts)
           X == Seq(V \X V)
           base == <<>>
           Body(g, s) == IF s = {} THEN base
                         ELSE EdgesFrom(g[s \ {Max(s)}], nbr, ts[Max(s)])
           Step == [z \in X \X (1..n) |-> EdgesFrom(z[1], nbr, ts[z[2]])]
           iter[s \in SUBSET DOMAIN ts] ==
             IF s = {} THEN <<>>
             ELSE LET x == Max(s) IN EdgesFrom(iter[s \ {x}], nbr, ts[x])
<1>1. ts \in Seq(V) /\ n \in Nat /\ DOMAIN ts = 1..n
  BY Ascending, LenProperties
<1>2. EdgeList(nbr) = iter[DOMAIN ts]
  BY DEF EdgeList, FoldLeft, MapThenFoldSet
<1>3. iter = CHOOSE g : g = [s \in SUBSET DOMAIN ts |-> Body(g, s)]
  BY DEF iter
<1> HIDE DEF iter, ts
<1>4. \A i \in 1..n : ts[i] \in V
  BY <1>1, ElementOfSeq
<1> HIDE DEF n
<1>5. Step \in [X \X (1..n) -> X]
  <2>1. \A c \in X, i \in 1..n : EdgesFrom(c, nbr, ts[i]) \in X
    BY <1>4, EdgesFromFacts DEF X, EdgesAdded
  <2> QED
    BY <2>1
<1>6. \A c \in X, i \in 1..n : Step[<<c, i>>] = EdgesFrom(c, nbr, ts[i])
  OBVIOUS
<1>7. base \in X
  BY EmptySeq
<1> HIDE DEF Step, X, base
<1>8. PICK g \in [SUBSET (1..n) -> X] : FoldsFrom(g, n, base, Step)
  BY <1>1, <1>5, <1>7, FoldValues
<1>9. \A s \in SUBSET (1..n) : s # {} => Max(s) \in 1..n /\ s \ {Max(s)} \in SUBSET (1..n)
  BY <1>1, MaxNumber
<1>10. \A s \in SUBSET (1..n) : g[s] = Body(g, s)
  BY <1>6, <1>8, <1>9 DEF FoldsFrom
<1>11. g = [s \in SUBSET (1..n) |-> Body(g, s)]
  <2> HIDE DEF Body
  <2> QED
    BY <1>10
<1>12. iter = [s \in SUBSET (1..n) |-> Body(iter, s)]
  <2> HIDE DEF Body
  <2> QED
    BY <1>1, <1>3, <1>11
<1> DEFINE h == [k \in 0..n |-> iter[1..k]]
<1>13. h[0] = base /\ \A k \in 1..n : h[k] = EdgesFrom(h[k - 1], nbr, ts[k])
  <2>1. \A s \in SUBSET (1..n) : iter[s] = Body(iter, s)
    <3> HIDE DEF Body
    <3> QED
      BY <1>12
  <2>2. 1..0 = {} /\ 1..0 \in SUBSET (1..n) /\ 0 \in 0..n
    BY <1>1
  <2>3. ASSUME NEW k \in 1..n PROVE h[k] = EdgesFrom(h[k - 1], nbr, ts[k])
    <3>1. k \in 0..n /\ k - 1 \in 0..n
      BY <1>1
    <3>2. Max(1..k) = k /\ (1..k) \ {k} = 1..k - 1 /\ 1..k \in SUBSET (1..n) /\ 1..k # {}
      BY <1>1, MaxOfFirst
    <3>3. iter[1..k] = EdgesFrom(iter[1..k - 1], nbr, ts[k])
      BY <2>1, <3>2
    <3> QED
      BY <3>1, <3>3
  <2> QED
    BY <2>1, <2>2, <2>3
<1>14. n \in 0..n /\ h[n] = iter[DOMAIN ts]
  BY <1>1
<1> HIDE DEF h
<1> QED
  BY <1>2, <1>13, <1>14 DEF ts, n, base, EdgeListValues

(* The list has each query edge, from its smaller end. *)
ListsEdges(list, nbr, V) ==
  /\ list \in Seq(V \X V)
  /\ Range(list) = {p \in V \X V : p[2] \in Range(nbr[p[1]]) /\ ~(p[1] > p[2])}

LEMMA EdgeListFacts ==
  ASSUME NEW V, V \subseteq Nat, IsFiniteSet(V), NEW nbr \in [V -> Seq(V)]
  PROVE  ListsEdges(EdgeList(nbr), nbr, V)
<1> DEFINE ts == AscendingSeq(V)
           n == Len(ts)
           X == Seq(V \X V)
           From(us) == {p \in V \X V : p[1] \in us /\ p[2] \in Range(nbr[p[1]]) /\ ~(p[1] > p[2])}
<1>1. PICK h : EdgeListValues(h, nbr)
  BY EdgeListFold
<1>2. /\ h[0] = <<>>
      /\ \A k \in 1..n : h[k] = EdgesFrom(h[k - 1], nbr, ts[k])
      /\ EdgeList(nbr) = h[n]
  BY <1>1 DEF EdgeListValues
<1>3. ts \in Seq(V) /\ Range(ts) = V
  BY Ascending
<1>4. n \in Nat /\ DOMAIN ts = 1..n /\ \A i \in 1..n : ts[i] \in V
  BY <1>3, LenProperties, ElementOfSeq
<1> HIDE DEF n, ts
<1> DEFINE S == {k \in 0..n : h[k] \in X /\ Range(h[k]) = From({ts[i] : i \in 1..k})}
<1>5. 0 \in S
  <2>1. {ts[i] : i \in 1..0} = {} /\ 0 \in 0..n /\ Range(<<>>) = {}
    BY <1>4 DEF Range
  <2> QED
    BY <1>2, <2>1, EmptySeq
<1>6. ASSUME NEW k \in 1..n, k - 1 \in S PROVE k \in S
  <2> DEFINE c == h[k - 1]
             u == ts[k]
  <2>1. c \in X /\ u \in V /\ h[k] = EdgesFrom(c, nbr, u)
        /\ Range(c) = From({ts[i] : i \in 1..k - 1})
    BY <1>2, <1>4, <1>6
  <2>2. {ts[i] : i \in 1..k} = {ts[i] : i \in 1..k - 1} \cup {u} /\ k \in 0..n
    <3>1. 1..k = (1..k - 1) \cup {k} /\ k \in 0..n
      BY <1>4
    <3> QED
      BY <3>1
  <2> HIDE DEF c, u
  <2>3. EdgesAdded(h[k], c, V, u, Range(nbr[u]))
    <3>1. c \in Seq(V \X V)
      BY <2>1
    <3>2. EdgesAdded(EdgesFrom(c, nbr, u), c, V, u, Range(nbr[u]))
      BY <2>1, <3>1, EdgesFromFacts
    <3> QED
      BY <2>1, <3>2
  <2>4. {p \in V \X V : p[1] = u /\ p[2] \in Range(nbr[u]) /\ ~(u > p[2])} = From({u})
    OBVIOUS
  <2> QED
    BY <2>1, <2>2, <2>3, <2>4 DEF EdgesAdded
<1>7. n \in S
  <2>1. n \in 0..n
    BY <1>4
  <2> HIDE DEF S
  <2>2. \A k \in 0..n : k \in S
    BY <1>4, <1>5, <1>6, CountUp
  <2> QED
    BY <2>1, <2>2
<1>8. {ts[i] : i \in 1..n} = V
  BY <1>3, <1>4 DEF Range
<1> QED
  BY <1>2, <1>7, <1>8 DEF ListsEdges
-----------------------------------------------------------------------------
(* A query graph over V: mutual neighbours, none of itself, connected. *)
Connected(g, V) ==
  /\ g \in [V -> SUBSET V]
  /\ \A u \in V : u \notin g[u]
  /\ \A u, w \in V : w \in g[u] => u \in g[w]
  /\ \A S \in SUBSET V : S # {} /\ S # V => \E u \in S, w \in V \ S : w \in g[u]

Edges(list, g, V) ==
  /\ list \in Seq(V \X V) /\ list # <<>>
  /\ \A e \in DOMAIN list : list[e][2] \in g[list[e][1]]
  /\ \A u, w \in V : w \in g[u] => <<u, w>> \in Range(list) \/ <<w, u>> \in Range(list)

(* The query that is loaded is such a graph, and its edges are listed. *)
LEMMA QueryFacts ==
  ASSUME NEW i \in Inputs
  PROVE  /\ Len(i.query.vs) \in Nat
         /\ Connected(QueryOf(i.query), 0..Len(i.query.vs) - 1)
         /\ Len(i.query.vs) >= 2 =>
              Edges(EdgeList(ReadNbrs(i.query)), QueryOf(i.query), 0..Len(i.query.vs) - 1)
<1> DEFINE file == i.query
           n == Len(file.vs)
           V == 0..n - 1
           nbr == ReadNbrs(file)
           g == QueryOf(file)
           list == EdgeList(nbr)
<1>1. /\ file.vs \in Seq(Range(file.vs)) /\ file.vs # <<>>
      /\ \A k \in DOMAIN file.vs : file.vs[k][1] = k - 1
      /\ file.es \in Seq({p \in V \X V : p[1] # p[2]})
      /\ \A S \in (SUBSET V) \ {{}, V} : \E u \in S, w \in V \ S : Joined(file.es, u, w)
  BY InputsAssumption DEF Connects
<1> HIDE DEF file
<1>2. n \in Nat \ {0} /\ V = 0..Max({l[1] : l \in Range(file.vs)})
  BY <1>1, FileVertices
<1>3. V \subseteq Nat /\ IsFiniteSet(V)
  <2>1. n - 1 \in Int /\ 0 \in Int
    BY <1>2
  <2> QED
    BY <2>1, FS_Interval
<1>4. \A k \in DOMAIN file.es : file.es[k] \in V \X V /\ file.es[k][1] # file.es[k][2]
  <2> DEFINE P == {p \in V \X V : p[1] # p[2]}
  <2>1. \A k \in 1..Len(file.es) : file.es[k] \in P
    BY <1>1, ElementOfSeq
  <2>2. DOMAIN file.es = 1..Len(file.es)
    BY <1>1, LenProperties
  <2> QED
    BY <2>1, <2>2
<1>5. file.es \in Seq(V \X V)
  <2>1. DOMAIN file.es = 1..Len(file.es) /\ Len(file.es) \in Nat /\ file.es = [k \in 1..Len(file.es) |-> file.es[k]]
    BY <1>1, LenProperties
  <2> QED
    BY <1>4, <2>1, IsASeq
<1>6. HasLines(nbr, V, file.es)
  <2> HIDE DEF V
  <2> QED
    BY <1>2, <1>3, <1>5, ReadFacts
<1>7. \A u, w : Joined(file.es, u, w) <=> Joined(file.es, w, u)
  BY DEF Joined
<1>8. \A u : ~Joined(file.es, u, u)
  BY <1>4 DEF Joined
<1> HIDE DEF n, V, nbr
<1>9. g = [u \in V |-> Range(nbr[u])]
  BY <1>6 DEF QueryOf, HasLines, nbr
<1> HIDE DEF g
<1>10. g \in [V -> SUBSET V] /\ \A u \in V : g[u] = {w \in V : Joined(file.es, u, w)}
  BY <1>6, <1>9 DEF HasLines
<1>11. Connected(g, V)
  <2>1. ASSUME NEW S \in SUBSET V, S # {}, S # V
        PROVE  \E u \in S, w \in V \ S : w \in g[u]
    <3>1. S \in (SUBSET V) \ {{}, V}
      BY <2>1
    <3>2. PICK u \in S, w \in V \ S : Joined(file.es, u, w)
      BY <1>1, <3>1
    <3> QED
      BY <1>10, <3>2
  <2> QED
    BY <1>7, <1>8, <1>10, <2>1 DEF Connected
<1>12. ASSUME n >= 2 PROVE Edges(list, g, V)
  <2>1. ListsEdges(list, nbr, V)
    BY <1>3, <1>6, EdgeListFacts DEF HasLines
  <2> HIDE DEF list
  <2>2. list \in Seq(V \X V)
        /\ Range(list) = {p \in V \X V : p[2] \in Range(nbr[p[1]]) /\ ~(p[1] > p[2])}
    BY <2>1 DEF ListsEdges
  <2>3. \A e \in DOMAIN list : list[e] \in Range(list)
    BY DEF Range
  <2>4. \A e \in DOMAIN list : list[e][2] \in g[list[e][1]]
    BY <1>9, <2>2, <2>3
  <2>5. 0 \in V /\ 1 \in V /\ \A w \in V : ~(0 > w)
    BY <1>2, <1>12 DEF V
  <2>6. PICK w \in V : w \in g[0]
    <3>1. {0} \in SUBSET V /\ {0} # {} /\ {0} # V
      BY <2>5
    <3> QED
      BY <1>11, <3>1 DEF Connected
  <2>7. <<0, w>> \in Range(list)
    BY <1>9, <2>2, <2>5, <2>6
  <2>8. list # <<>>
    BY <2>7 DEF Range
  <2>9. ASSUME NEW u \in V, NEW x \in V, x \in g[u]
        PROVE  <<u, x>> \in Range(list) \/ <<x, u>> \in Range(list)
    <3>1. u \in g[x] /\ (~(u > x) \/ ~(x > u))
      <4>1. u \in Nat /\ x \in Nat
        BY <1>3
      <4>2. u \in g[x]
        BY <1>11, <2>9 DEF Connected
      <4> QED
        BY <4>1, <4>2
    <3>2. u \in Range(nbr[x]) /\ x \in Range(nbr[u])
      BY <1>9, <2>9, <3>1
    <3> QED
      BY <2>2, <3>1, <3>2
  <2> QED
    BY <2>2, <2>4, <2>8, <2>9 DEF Edges
<1> QED
  BY <1>2, <1>11, <1>12 DEF n, V, g, list, nbr, file

-----------------------------------------------------------------------------
(* Choices from finite sets. *)

(* An order without cycles has a least element in every finite set. *)
LEMMA Minimal ==
  ASSUME NEW S, IsFiniteSet(S), S # {}, NEW R,
         \A x \in S : <<x, x>> \notin R,
         \A x, y, z \in S : <<x, y>> \in R /\ <<y, z>> \in R => <<x, z>> \in R
  PROVE  \E x \in S : \A y \in S : <<y, x>> \notin R
<1> DEFINE below == [x \in S |-> {y \in S : <<y, x>> \in R}]
           T == {k \in Nat : \E x \in S : k = Cardinality(below[x])}
<1>1. \A x \in S : IsFiniteSet(below[x]) /\ Cardinality(below[x]) \in Nat
  BY FS_Subset, FS_CardinalityType
<1>2. PICK t \in T : \A s \in T : t <= s
  <2>1. T \subseteq Nat
    OBVIOUS
  <2>2. T # {}
    BY <1>1
  <2> HIDE DEF T
  <2> QED
    BY <2>1, <2>2, LeastNumber
<1>3. PICK x \in S : t = Cardinality(below[x])
  OBVIOUS
<1>4. ASSUME NEW y \in S, <<y, x>> \in R PROVE FALSE
  <2>1. below[y] \subseteq below[x] /\ y \in below[x] /\ y \notin below[y]
    BY <1>4
  <2> HIDE DEF below
  <2>2. Cardinality(below[y]) < Cardinality(below[x])
    <3>1. below[y] # below[x]
      BY <2>1
    <3>2. Cardinality(below[y]) <= Cardinality(below[x])
      BY <1>1, <2>1, FS_Subset
    <3>3. Cardinality(below[y]) # Cardinality(below[x])
      BY <1>1, <2>1, <3>1, FS_Subset
    <3> QED
      BY <1>1, <3>2, <3>3
  <2>3. t <= Cardinality(below[y])
    BY <1>1, <1>2
  <2> QED
    BY <1>1, <1>3, <2>2, <2>3
<1> QED
  BY <1>4

LEMMA LeastValue ==
  ASSUME NEW S, IsFiniteSet(S), S # {}, NEW f, \A x \in S : f[x] \in Nat
  PROVE  /\ \E x \in S : \A y \in S : f[x] <= f[y]
         /\ \E x \in S : \A y \in S : f[y] <= f[x]
<1> DEFINE less == {p \in S \X S : f[p[1]] < f[p[2]]}
           more == {p \in S \X S : f[p[1]] > f[p[2]]}
<1>1. \E x \in S : \A y \in S : <<y, x>> \notin less
  <2>1. \A x \in S : <<x, x>> \notin less
    OBVIOUS
  <2>2. \A x, y, z \in S : <<x, y>> \in less /\ <<y, z>> \in less => <<x, z>> \in less
    OBVIOUS
  <2> HIDE DEF less
  <2> QED
    BY <2>1, <2>2, Minimal
<1>2. \E x \in S : \A y \in S : <<y, x>> \notin more
  <2>1. \A x \in S : <<x, x>> \notin more
    OBVIOUS
  <2>2. \A x, y, z \in S : <<x, y>> \in more /\ <<y, z>> \in more => <<x, z>> \in more
    OBVIOUS
  <2> HIDE DEF more
  <2> QED
    BY <2>1, <2>2, Minimal
<1>3. \A x, y \in S : <<y, x>> \notin less => f[x] <= f[y]
  OBVIOUS
<1>4. \A x, y \in S : <<y, x>> \notin more => f[y] <= f[x]
  OBVIOUS
<1> HIDE DEF less, more
<1> QED
  BY <1>1, <1>2, <1>3, <1>4

LEMMA FewerOrder ==
  ASSUME NEW f \in Nat \X (Nat \ {0}), NEW g \in Nat \X (Nat \ {0}), NEW h \in Nat \X (Nat \ {0})
  PROVE  /\ ~Fewer(f, f)
         /\ Fewer(f, g) /\ Fewer(g, h) => Fewer(f, h)
<1>1. /\ f[1] \in Nat /\ f[2] \in Nat /\ f[2] > 0
      /\ g[1] \in Nat /\ g[2] \in Nat /\ g[2] > 0
      /\ h[1] \in Nat /\ h[2] \in Nat /\ h[2] > 0
  OBVIOUS
<1>2. \A a, b, c, d, e, k \in Nat :
        b > 0 /\ d > 0 /\ k > 0 /\ a * d < c * b /\ c * k < e * d => a * k < e * b
  <2> SUFFICES ASSUME NEW a \in Nat, NEW b \in Nat, NEW c \in Nat,
                      NEW d \in Nat, NEW e \in Nat, NEW k \in Nat,
                      b > 0, d > 0, k > 0, a * d < c * b, c * k < e * d
               PROVE  a * k < e * b
    OBVIOUS
  <2>1. \A x, y, z \in Nat : x < y /\ z > 0 => x * z < y * z
    OBVIOUS
  <2>2. \A x, y \in Nat : x * y \in Nat
    OBVIOUS
  <2>3. (a * d) * k < (c * b) * k /\ (c * k) * b < (e * d) * b
    BY <2>1, <2>2
  <2>4. (a * d) * k = (a * k) * d /\ (c * b) * k = (c * k) * b /\ (e * d) * b = (e * b) * d
    OBVIOUS
  <2>5. (a * k) * d < (e * b) * d
    <3> DEFINE x == (a * k) * d
               y == (c * k) * b
               z == (e * b) * d
    <3>1. x \in Nat /\ y \in Nat /\ z \in Nat
      BY <2>2
    <3>2. x < y /\ y < z
      BY <2>3, <2>4
    <3> HIDE DEF x, y, z
    <3>3. x < z
      BY <3>1, <3>2
    <3> QED
      BY <3>3 DEF x, z
  <2>6. \A x, y, z \in Nat : x * z < y * z => x < y
    <3> SUFFICES ASSUME NEW x \in Nat, NEW y \in Nat, NEW z \in Nat, x * z < y * z, ~(x < y)
                 PROVE  FALSE
      OBVIOUS
    <3>1. PICK t \in Nat : x = y + t
      <4>1. x - y \in Nat /\ x = y + (x - y)
        OBVIOUS
      <4> QED
        BY <4>1
    <3>2. (y + t) * z = y * z + t * z /\ y * z \in Nat /\ t * z \in Nat
      BY <2>2
    <3> QED
      BY <3>1, <3>2
  <2> QED
    BY <2>2, <2>5, <2>6
<1>3. Fewer(f, g) /\ Fewer(g, h) => Fewer(f, h)
  BY <1>1, <1>2 DEF Fewer
<1>4. ~Fewer(f, f)
  <2>1. f[1] * f[2] \in Nat /\ f[2] > 0
    BY <1>1
  <2> QED
    BY <2>1 DEF Fewer
<1> QED
  BY <1>3, <1>4

LEMMA PowerNat ==
  ASSUME NEW x \in Nat, NEW n \in Nat
  PROVE  Power(x, n) \in Nat
<1> DEFINE D == 0..n
           Body(g, k) == IF k = 0 THEN 1 ELSE x * g[k - 1]
           Step == [z \in D \X [D -> Nat] |-> Body(z[2], z[1])]
           power[k \in 0..n] == IF k = 0 THEN 1 ELSE x * power[k - 1]
<1>1. Power(x, n) = power[n]
  BY DEF Power
<1>2. power = CHOOSE g : g = [k \in D |-> Body(g, k)]
  BY DEF power
<1> HIDE DEF power
<1>3. \A k \in D : k # 0 => k - 1 \in D /\ k - 1 < k
  OBVIOUS
<1>4. \A y, z \in Nat : y * z \in Nat
  OBVIOUS
<1>5. \A g \in [D -> Nat], k \in D : Body(g, k) \in Nat
  BY <1>3, <1>4
<1>6. \A g \in [D -> Nat], k \in D : Step[<<k, g>>] = Body(g, k)
  OBVIOUS
<1>7. Step \in [D \X [D -> Nat] -> Nat]
  BY <1>5
<1>8. \A d \in D : \A g, h \in [D -> Nat] :
        (\A k \in D : k < d => g[k] = h[k]) => Body(g, d) = Body(h, d)
  BY <1>3
<1> HIDE DEF Step, Body
<1>9. \E f : Follows(D, Nat, Step, f)
  <2>1. D \subseteq 0..n
    OBVIOUS
  <2> HIDE DEF D
  <2>2. Causal(D, [d \in D |-> d], Nat, Step)
    BY <1>6, <1>7, <1>8 DEF Causal
  <2> QED
    BY <2>1, <2>2, Recursion
<1>10. PICK f : f \in [D -> Nat] /\ \A d \in D : f[d] = Body(f, d)
  BY <1>6, <1>9 DEF Follows
<1>11. f = [k \in D |-> Body(f, k)]
  BY <1>10
<1>12. power = [k \in D |-> Body(power, k)]
  BY <1>2, <1>11
<1> DEFINE S == {k \in 0..n : power[k] \in Nat}
<1>13. 0 \in S
  BY <1>12 DEF Body
<1>14. ASSUME NEW k \in 1..n, k - 1 \in S PROVE k \in S
  <2>1. k \in D /\ k # 0
    OBVIOUS
  <2>2. power[k] = x * power[k - 1]
    BY <1>12, <2>1 DEF Body
  <2> QED
    BY <1>4, <1>14, <2>1, <2>2
<1>15. n \in S
  <2>1. n \in 0..n
    OBVIOUS
  <2> HIDE DEF S
  <2> QED
    BY <1>13, <1>14, <2>1, CountUp
<1> QED
  BY <1>1, <1>15

-----------------------------------------------------------------------------
(* Sequences without repetition. *)

LEMMA DistinctSeq ==
  ASSUME NEW V, IsFiniteSet(V), NEW s \in Seq(V), IsInjective(s)
  PROVE  /\ Range(s) \subseteq V
         /\ Cardinality(Range(s)) = Len(s)
         /\ Len(s) <= Cardinality(V)
         /\ Len(s) = Cardinality(V) <=> Range(s) = V
<1> DEFINE n == Len(s)
<1>1. n \in Nat /\ DOMAIN s = 1..n /\ \A i \in 1..n : s[i] \in V
  BY LenProperties, ElementOfSeq
<1>2. IsFiniteSet(1..n) /\ Cardinality(1..n) = n
  <2> HIDE DEF n
  <2>1. /\ IsFiniteSet(1..n)
        /\ Cardinality(1..n) = IF 1 > n THEN 0 ELSE n - 1 + 1
    BY <1>1, FS_Interval
  <2> QED
    BY <1>1, <2>1
<1>3. s \in [1..n -> Range(s)] /\ Range(s) \subseteq V
  <2>1. s = [i \in 1..n |-> s[i]]
    BY LenProperties
  <2> QED
    BY <1>1, <2>1 DEF Range
<1>4. s \in Surjection(1..n, Range(s)) /\ s \in Injection(1..n, Range(s))
  BY <1>1, <1>3 DEF Surjection, Injection, Range
<1>5. IsFiniteSet(Range(s)) /\ Cardinality(Range(s)) = n
  <2> HIDE DEF n
  <2> QED
    BY <1>2, <1>4, FS_Surjection
<1>6. /\ Cardinality(Range(s)) <= Cardinality(V)
      /\ Cardinality(Range(s)) = Cardinality(V) => Range(s) = V
  BY <1>3, <1>5, FS_Subset
<1> QED
  BY <1>3, <1>5, <1>6

(* r is s with x at the end. *)
Longer(r, s, x, V) ==
  /\ r \in Seq(V) /\ Len(r) = Len(s) + 1 /\ DOMAIN r = 1..Len(s) + 1
  /\ r[Len(s) + 1] = x /\ \A i \in 1..Len(s) : r[i] = s[i]
  /\ Range(r) = Range(s) \cup {x}
  /\ IsInjective(s) /\ x \notin Range(s) => IsInjective(r)

LEMMA AppendLonger ==
  ASSUME NEW V, NEW s \in Seq(V), NEW x \in V
  PROVE  Longer(Append(s, x), s, x, V)
<1> DEFINE r == Append(s, x)
           n == Len(s)
<1>1. r \in Seq(V) /\ Len(r) = n + 1 /\ r[n + 1] = x /\ \A i \in 1..n : r[i] = s[i]
  BY AppendProperties
<1>2. n \in Nat /\ DOMAIN s = 1..n
  BY LenProperties
<1> HIDE DEF r, n
<1>3. DOMAIN r = 1..n + 1
  BY <1>1, LenProperties
<1>4. 1..n + 1 = (1..n) \cup {n + 1}
  BY <1>2
<1>5. Range(r) = {r[i] : i \in 1..n} \cup {x}
  BY <1>1, <1>3, <1>4 DEF Range
<1>6. {r[i] : i \in 1..n} = Range(s)
  BY <1>1, <1>2 DEF Range
<1>7. ASSUME IsInjective(s), x \notin Range(s) PROVE IsInjective(r)
  <2>1. \A i \in 1..n : s[i] # x
    BY <1>2, <1>7 DEF Range
  <2>2. \A i, j \in 1..n : s[i] = s[j] => i = j
    BY <1>2, <1>7 DEF IsInjective
  <2> QED
    BY <1>1, <1>3, <1>4, <2>1, <2>2 DEF IsInjective
<1> QED
  BY <1>1, <1>3, <1>5, <1>6, <1>7 DEF Longer, r, n

-----------------------------------------------------------------------------
(* The choice of the next query vertex. *)

(* The query and the plan of the indexing orders are there, *)
Loaded ==
  /\ QV \subseteq Nat /\ IsFiniteSet(QV) /\ N >= 2
  /\ Connected(nbrs, QV)
  /\ Edges(qe_list, nbrs, QV)
  /\ indexing = [e \in DOMAIN qe_list |-> IndexingOrder(nbrs, qe_list[e])]

(* the statistics and the variant are chosen, *)
Measured ==
  /\ stat \in [avg : Numbers(nbrs), card : Numbers(nbrs)]
  /\ variant \in {"global", "gsi", "edge", "forced"}
  /\ edge \in IF variant \in {"edge", "forced"} THEN QEdges ELSE {0}

(* and the order so far is one that can be matched. *)
Ordered ==
  /\ order \in Seq(QV) /\ IsInjective(order)
  /\ \A d \in 2..Len(order) : Backward(order, d) # {}
  /\ visits \in [QV -> Nat]
  /\ variant = "gsi" => \A u \in QV : visits[u] = Cardinality(BackwardNbrs(u))

LEMMA OrderedFacts ==
  ASSUME Loaded, Ordered
  PROVE  /\ N \in Nat
         /\ Visited \subseteq QV /\ Cardinality(Visited) = Len(order) /\ Len(order) <= N
         /\ Len(order) = N <=> Visited = QV
         /\ \A S \in SUBSET QV : IsFiniteSet(S) /\ Cardinality(S) \in Nat /\ S \subseteq Nat
         /\ \A u \in QV : nbrs[u] \subseteq QV /\ u \notin nbrs[u]
<1>1. QV \subseteq Nat /\ IsFiniteSet(QV) /\ order \in Seq(QV) /\ IsInjective(order)
  BY DEF Loaded, Ordered
<1>2. /\ Range(order) \subseteq QV
      /\ Cardinality(Range(order)) = Len(order)
      /\ Len(order) <= Cardinality(QV)
      /\ Len(order) = Cardinality(QV) <=> Range(order) = QV
  BY <1>1, DistinctSeq
<1>3. \A S \in SUBSET QV : IsFiniteSet(S) /\ Cardinality(S) \in Nat /\ S \subseteq Nat
  BY <1>1, FS_Subset, FS_CardinalityType
<1>4. nbrs \in [QV -> SUBSET QV] /\ \A u \in QV : u \notin nbrs[u]
  BY DEF Loaded, Connected
<1> QED
  BY <1>2, <1>3, <1>4 DEF N, Visited

(* A connected query has a vertex to go on with. *)
LEMMA SomeExtendable ==
  ASSUME Loaded, Ordered, order # <<>>, Len(order) < N
  PROVE  Extendable # {} /\ Extendable \subseteq QV
<1>1. Visited \in SUBSET QV /\ Visited # QV
  BY OrderedFacts
<1>2. Visited # {}
  <2>1. order \in Seq(QV)
    BY DEF Ordered
  <2>2. Len(order) # 0 /\ Len(order) \in Nat /\ DOMAIN order = 1..Len(order)
    BY <2>1, EmptySeq, LenProperties
  <2>3. 1 \in DOMAIN order
    BY <2>2
  <2> QED
    BY <2>3 DEF Visited, Range
<1>3. PICK u \in Visited, w \in QV \ Visited : w \in nbrs[u]
  BY <1>1, <1>2 DEF Loaded, Connected
<1>4. u \in nbrs[w]
  BY <1>1, <1>3 DEF Loaded, Connected
<1> QED
  BY <1>3, <1>4 DEF Extendable, BackwardNbrs

(* What the choices compare are numbers. *)
LEMMA MeasuredNat ==
  ASSUME Measured, NEW u \in QV, NEW w \in QV
  PROVE  stat.avg[u][w] \in Nat /\ stat.card[u][w] \in Nat
<1>1. stat.avg \in Numbers(nbrs) /\ stat.card \in Numbers(nbrs)
  BY DEF Measured
<1>2. Numbers(nbrs) = [QV -> [QV -> Nat]]
  BY DEF Numbers, QV
<1> HIDE DEF QV
<1> QED
  BY <1>1, <1>2

LEMMA EstimateNat ==
  ASSUME Loaded, Measured, Ordered, NEW u \in Extendable
  PROVE  Estimate(u) \in Nat
<1> DEFINE E == {stat.avg[b][u] : b \in BackwardNbrs(u)}
<1>1. u \in QV /\ BackwardNbrs(u) # {} /\ BackwardNbrs(u) \subseteq QV
  BY OrderedFacts DEF Extendable, BackwardNbrs
<1>2. \A b \in QV : stat.avg[b][u] \in Nat
  BY <1>1, MeasuredNat
<1>3. E \subseteq Nat /\ E # {}
  BY <1>1, <1>2
<1> HIDE DEF E
<1>4. Min(E) \in Nat
  BY <1>3, MinNumber
<1> QED
  BY <1>4 DEF Estimate, E

LEMMA TiesNat ==
  ASSUME Loaded, Ordered, NEW u \in QV
  PROVE  NumBackward(u) \in Nat /\ NumReached(u) \in Nat /\ NumDangling(u) \in Nat
<1>1. nbrs[u] \subseteq QV /\ Visited \subseteq QV
  BY OrderedFacts
<1>2. Forward(u) \subseteq QV /\ \A f : BackwardNbrs(f) \subseteq QV
  BY <1>1 DEF Forward, BackwardNbrs
<1>3. /\ BackwardNbrs(u) \in SUBSET QV
      /\ UNION {BackwardNbrs(f) : f \in Forward(u)} \in SUBSET QV
      /\ {f \in Forward(u) : BackwardNbrs(f) = {}} \in SUBSET QV
  BY <1>2
<1> QED
  BY <1>3, OrderedFacts DEF NumBackward, NumReached, NumDangling

(* T is a part of S, and not empty. *)
Some(T, S) == T \subseteq S /\ IsFiniteSet(T) /\ T # {}

LEMMA BestOf ==
  ASSUME NEW S, IsFiniteSet(S), S # {}, NEW f, \A x \in S : f[x] \in Nat
  PROVE  Some({x \in S : \A y \in S : f[y] <= f[x]}, S)
<1> DEFINE T == {x \in S : \A y \in S : f[y] <= f[x]}
<1>1. T # {}
  <2>1. \E x \in S : \A y \in S : f[y] <= f[x]
    BY LeastValue
  <2> QED
    BY <2>1
<1>2. T \subseteq S /\ IsFiniteSet(T)
  BY FS_Subset
<1> QED
  BY <1>1, <1>2 DEF Some

LEMMA LeastOf ==
  ASSUME NEW S, IsFiniteSet(S), S # {}, NEW f, \A x \in S : f[x] \in Nat
  PROVE  Some({x \in S : \A y \in S : f[x] <= f[y]}, S)
<1> DEFINE T == {x \in S : \A y \in S : f[x] <= f[y]}
<1>1. T # {}
  <2>1. \E x \in S : \A y \in S : f[x] <= f[y]
    BY LeastValue
  <2> QED
    BY <2>1
<1>2. T \subseteq S /\ IsFiniteSet(T)
  BY FS_Subset
<1> QED
  BY <1>1, <1>2 DEF Some

LEMMA PreferredIn ==
  ASSUME Loaded, Measured, Ordered, NEW S, S \subseteq Extendable, S # {}
  PROVE  Preferred(S) \in S
<1> DEFINE A == Best(S, NumBackward)
           B == Best(A, NumReached)
           C == Best(B, NumDangling)
           D == FewestCandidates(C)
<1>1. Extendable \subseteq QV
  BY DEF Extendable
<1>2. IsFiniteSet(S) /\ S \subseteq Nat
  BY <1>1, OrderedFacts
<1>3. Some(A, S)
  <2> DEFINE f == [x \in S |-> NumBackward(x)]
  <2>1. \A x \in S : f[x] \in Nat /\ f[x] = NumBackward(x)
    BY <1>1, TiesNat
  <2> HIDE DEF f
  <2>2. Some({x \in S : \A y \in S : f[y] <= f[x]}, S)
    BY <1>2, <2>1, BestOf
  <2>3. A = {x \in S : \A y \in S : f[y] <= f[x]}
    BY <2>1 DEF Best
  <2> QED
    BY <2>2, <2>3
<1> HIDE DEF A
<1>4. Some(B, A)
  <2> DEFINE f == [x \in A |-> NumReached(x)]
  <2>1. \A x \in A : f[x] \in Nat /\ f[x] = NumReached(x)
    BY <1>1, <1>3, TiesNat DEF Some
  <2> HIDE DEF f
  <2>2. IsFiniteSet(A) /\ A # {}
    BY <1>3 DEF Some
  <2>3. Some({x \in A : \A y \in A : f[y] <= f[x]}, A)
    BY <2>1, <2>2, BestOf
  <2>4. B = {x \in A : \A y \in A : f[y] <= f[x]}
    BY <2>1 DEF Best
  <2> QED
    BY <2>3, <2>4
<1> HIDE DEF B
<1>5. Some(C, B)
  <2> DEFINE f == [x \in B |-> NumDangling(x)]
  <2>1. \A x \in B : f[x] \in Nat /\ f[x] = NumDangling(x)
    BY <1>1, <1>3, <1>4, TiesNat DEF Some
  <2> HIDE DEF f
  <2>2. IsFiniteSet(B) /\ B # {}
    BY <1>4 DEF Some
  <2>3. Some({x \in B : \A y \in B : f[y] <= f[x]}, B)
    BY <2>1, <2>2, BestOf
  <2>4. C = {x \in B : \A y \in B : f[y] <= f[x]}
    BY <2>1 DEF Best
  <2> QED
    BY <2>3, <2>4
<1> HIDE DEF C
<1>6. Some(D, C)
  <2> DEFINE f == [x \in C |-> Estimate(x)]
  <2>1. \A x \in C : f[x] \in Nat /\ f[x] = Estimate(x)
    BY <1>3, <1>4, <1>5, EstimateNat DEF Some
  <2> HIDE DEF f
  <2>2. IsFiniteSet(C) /\ C # {}
    BY <1>5 DEF Some
  <2>3. Some({x \in C : \A y \in C : f[x] <= f[y]}, C)
    BY <2>1, <2>2, LeastOf
  <2>4. D = {x \in C : \A y \in C : f[x] <= f[y]}
    BY <2>1 DEF FewestCandidates, Least
  <2> QED
    BY <2>3, <2>4
<1>7. Preferred(S) = Min(D)
  BY DEF Preferred, A, B, C
<1> HIDE DEF D
<1>8. D \subseteq S /\ D # {}
  BY <1>3, <1>4, <1>5, <1>6 DEF Some
<1>9. Min(D) \in D
  BY <1>2, <1>8, MinNumber
<1> QED
  BY <1>7, <1>8, <1>9

(* The cut at the first jump leaves something. *)
LEMMA BeforeJumpSome ==
  ASSUME Loaded, Measured, Ordered, Extendable # {}, NEW S \in BeforeJump(Extendable)
  PROVE  S \subseteq Extendable /\ S # {}
<1>1. CASE \E u \in Extendable : Estimate(u) = 0
  <2>1. S \in {{u} : u \in {u \in Extendable : Estimate(u) = 0}}
    BY <1>1 DEF BeforeJump
  <2> QED
    BY <2>1
<1>2. CASE ~\E u \in Extendable : Estimate(u) = 0
  <2> DEFINE f == [u \in Extendable |-> Estimate(u)]
  <2>1. S = {u \in Extendable : \A w \in Extendable : Estimate(w) <= Estimate(u) =>
              \/ \A x \in Extendable : Estimate(w) <= Estimate(x)
              \/ \E x \in Extendable : /\ Estimate(x) < Estimate(w)
                                       /\ Estimate(w) < Jump * Estimate(x)}
    BY <1>2 DEF BeforeJump
  <2>2. \A u \in Extendable : Estimate(u) \in Nat
    BY EstimateNat
  <2>3. IsFiniteSet(Extendable)
    BY OrderedFacts DEF Extendable
  <2>4. PICK u \in Extendable : \A x \in Extendable : Estimate(u) <= Estimate(x)
    <3>1. \A x \in Extendable : f[x] \in Nat /\ f[x] = Estimate(x)
      BY <2>2
    <3> HIDE DEF f
    <3>2. \E u \in Extendable : \A x \in Extendable : f[u] <= f[x]
      BY <2>3, <3>1, LeastValue
    <3> QED
      BY <3>1, <3>2
  <2>5. \A w \in Extendable : Estimate(w) <= Estimate(u) =>
          \A x \in Extendable : Estimate(w) <= Estimate(x)
    BY <2>2, <2>4
  <2>6. u \in S
    BY <2>1, <2>5
  <2> QED
    BY <2>1, <2>6
<1> QED
  BY <1>1, <1>2

(* The first edge. *)
LEMMA PartnersNat ==
  ASSUME Loaded, Measured, NEW e \in QEdges
  PROVE  Partners(e) \in Nat
<1> DEFINE P == {p \in {qe_list[e][1], qe_list[e][2]} \X (QV \ {qe_list[e][1], qe_list[e][2]}) :
                   p[2] \in nbrs[p[1]]}
           first(s) == CHOOSE x \in s : TRUE
           iter[s \in SUBSET P] ==
             IF s = {} THEN 0
             ELSE LET x == CHOOSE x \in s : TRUE IN stat.avg[x[1]][x[2]] + iter[s \ {x}]
           Body(g, s) == IF s = {} THEN 0
                         ELSE stat.avg[first(s)[1]][first(s)[2]] + g[s \ {first(s)}]
           pick == [s \in SUBSET P |-> first(s)]
           Step == [z \in Nat \X P |-> stat.avg[z[2][1]][z[2][2]] + z[1]]
<1>1. Partners(e) = iter[P]
  BY DEF Partners, MapThenSumSet, MapThenFoldSet
<1>2. iter = CHOOSE g : g = [s \in SUBSET P |-> Body(g, s)]
  BY DEF iter
<1> HIDE DEF iter
<1>3. qe_list[e] \in QV \X QV
  BY ElementOfSeq, LenProperties DEF Loaded, Edges, QEdges
<1>4. P \subseteq QV \X QV /\ IsFiniteSet(P)
  <2>1. P \subseteq QV \X QV
    BY <1>3
  <2>2. IsFiniteSet(QV \X QV)
    BY FS_Product DEF Loaded
  <2> HIDE DEF P
  <2> QED
    BY <2>1, <2>2, FS_Subset
<1>5. \A x \in P : stat.avg[x[1]][x[2]] \in Nat
  <2> HIDE DEF P
  <2>1. \A x \in P : x[1] \in QV /\ x[2] \in QV
    BY <1>4
  <2> QED
    BY <2>1, MeasuredNat
<1> HIDE DEF P
<1>6. \A s \in SUBSET P : s # {} => first(s) \in s /\ first(s) \in P
  OBVIOUS
<1> HIDE DEF first
<1>7. Step \in [Nat \X P -> Nat]
  BY <1>5
<1>8. \A s \in SUBSET P : s # {} => pick[s] \in s
  BY <1>6
<1>9. \A k \in Nat, x \in P : Step[<<k, x>>] = stat.avg[x[1]][x[2]] + k
  OBVIOUS
<1>10. \A s \in SUBSET P : pick[s] = first(s)
  OBVIOUS
<1> HIDE DEF Step, pick
<1>11. PICK g \in [SUBSET P -> Nat] : IsFold(g, P, 0, Step, pick)
  BY <1>4, <1>7, <1>8, FoldExists
<1>12. ASSUME NEW s \in SUBSET P PROVE g[s] = Body(g, s)
  <2>1. CASE s = {}
    BY <1>11, <2>1 DEF IsFold
  <2>2. CASE s # {}
    <3>1. first(s) \in P /\ g[s \ {first(s)}] \in Nat
      BY <1>6, <2>2
    <3>2. g[s] = Step[<<g[s \ {first(s)}], first(s)>>]
      BY <1>10, <1>11, <2>2 DEF IsFold
    <3> QED
      BY <1>9, <2>2, <3>1, <3>2
  <2> QED
    BY <2>1, <2>2
<1> HIDE DEF Body
<1>13. iter = [s \in SUBSET P |-> Body(iter, s)]
  <2>1. g = [s \in SUBSET P |-> Body(g, s)]
    BY <1>12
  <2> QED
    BY <1>2, <2>1
<1> DEFINE number == [s \in SUBSET P |-> IF iter[s] \in Nat THEN 1 ELSE 0]
           one == [s \in SUBSET P |-> 1]
<1>14. number[P] = one[P]
  <2>1. number[{}] = one[{}]
    <3>1. iter[{}] = 0
      BY <1>13 DEF Body
    <3> QED
      BY <3>1
  <2>2. ASSUME NEW s \in SUBSET P, s # {}, \A x \in s : number[s \ {x}] = one[s \ {x}]
        PROVE  number[s] = one[s]
    <3>1. first(s) \in s /\ first(s) \in P /\ s \ {first(s)} \in SUBSET P
      BY <1>6, <2>2
    <3>2. iter[s \ {first(s)}] \in Nat
      <4>1. number[s \ {first(s)}] = 1
        BY <2>2, <3>1
      <4> QED
        BY <3>1, <4>1
    <3>3. iter[s] = stat.avg[first(s)[1]][first(s)[2]] + iter[s \ {first(s)}]
      BY <1>13, <2>2 DEF Body
    <3>4. iter[s] \in Nat
      BY <1>5, <3>1, <3>2, <3>3
    <3> QED
      BY <3>4
  <2> HIDE DEF number, one
  <2> QED
    BY <1>4, <2>1, <2>2, Folded
<1>15. iter[P] \in Nat
  BY <1>14
<1> QED
  BY <1>1, <1>15

LEMMA StartingEdges ==
  ASSUME Loaded, Measured
  PROVE  Densest \subseteq QEdges /\ Cheapest(Densest) \in QEdges
<1> DEFINE A == Best(QEdges, DegreeSum)
           C == Least(Densest, Rows)
           D == Least(C, Partners)
<1>1. IsFiniteSet(QEdges) /\ QEdges # {} /\ QEdges \subseteq Nat
  <2>1. qe_list \in Seq(QV \X QV) /\ qe_list # <<>>
    BY DEF Loaded, Edges
  <2>2. Len(qe_list) \in Nat /\ Len(qe_list) # 0 /\ QEdges = 1..Len(qe_list)
    BY <2>1, EmptySeq, LenProperties DEF QEdges
  <2>3. IsFiniteSet(1..Len(qe_list))
    BY <2>2, FS_Interval
  <2> QED
    BY <2>2, <2>3
<1>2. \A e \in QEdges : qe_list[e][1] \in QV /\ qe_list[e][2] \in QV
  <2>1. \A e \in QEdges : qe_list[e] \in QV \X QV
    BY ElementOfSeq, LenProperties DEF Loaded, Edges, QEdges
  <2> QED
    BY <2>1
<1>3. \A u \in QV : nbrs[u] \in SUBSET QV /\ Cardinality(nbrs[u]) \in Nat
  BY FS_Subset, FS_CardinalityType DEF Loaded, Connected
<1>4. \A e \in QEdges : DegreeSum(e) \in Nat
  BY <1>2, <1>3 DEF DegreeSum
<1>5. \A e \in QEdges : Triangles(e) \in Nat
  <2>1. ASSUME NEW u \in QV, NEW w \in QV PROVE Cardinality(nbrs[u] \cap nbrs[w]) \in Nat
    BY <1>3, FS_Subset, FS_CardinalityType DEF Loaded
  <2> QED
    BY <1>2, <2>1 DEF Triangles
<1>6. \A e \in QEdges : Rows(e) \in Nat
  BY <1>2, MeasuredNat DEF Rows
<1> HIDE DEF QEdges
<1>7. Some(A, QEdges)
  <2> DEFINE f == [x \in QEdges |-> DegreeSum(x)]
  <2>1. \A x \in QEdges : f[x] \in Nat /\ f[x] = DegreeSum(x)
    BY <1>4
  <2> HIDE DEF f
  <2>2. Some({x \in QEdges : \A y \in QEdges : f[y] <= f[x]}, QEdges)
    BY <1>1, <2>1, BestOf
  <2>3. A = {x \in QEdges : \A y \in QEdges : f[y] <= f[x]}
    BY <2>1 DEF Best
  <2> QED
    BY <2>2, <2>3
<1>8. Some(Densest, A)
  <2> DEFINE f == [x \in A |-> Triangles(x)]
             B == Densest
  <2>1. B = Best(A, Triangles)
    BY DEF Densest
  <2> HIDE DEF A, B
  <2>2. IsFiniteSet(A) /\ A # {}
    BY <1>7 DEF Some
  <2>3. \A x \in A : f[x] \in Nat /\ f[x] = Triangles(x)
    BY <1>5, <1>7 DEF Some
  <2> HIDE DEF f
  <2>4. Some({x \in A : \A y \in A : f[y] <= f[x]}, A)
    BY <2>2, <2>3, BestOf
  <2>5. B = {x \in A : \A y \in A : f[y] <= f[x]}
    BY <2>1, <2>3 DEF Best
  <2> QED
    BY <2>4, <2>5 DEF B
<1> HIDE DEF A
<1> DEFINE B == Densest
<1>9. B \subseteq QEdges /\ IsFiniteSet(B) /\ B # {}
  BY <1>7, <1>8 DEF Some
<1>10. C = Least(B, Rows) /\ Cheapest(B) = Min(D)
  BY DEF Cheapest
<1> HIDE DEF B, C
<1>11. Some(C, B)
  <2> DEFINE f == [x \in B |-> Rows(x)]
  <2>1. \A x \in B : f[x] \in Nat /\ f[x] = Rows(x)
    BY <1>6, <1>9
  <2> HIDE DEF f
  <2>2. Some({x \in B : \A y \in B : f[x] <= f[y]}, B)
    BY <1>9, <2>1, LeastOf
  <2>3. C = {x \in B : \A y \in B : f[x] <= f[y]}
    BY <1>10, <2>1 DEF Least
  <2> QED
    BY <2>2, <2>3
<1>12. Some(D, C)
  <2> DEFINE f == [x \in C |-> Partners(x)]
  <2>1. IsFiniteSet(C) /\ C # {}
    BY <1>11 DEF Some
  <2>2. \A x \in C : f[x] \in Nat /\ f[x] = Partners(x)
    BY <1>9, <1>11, PartnersNat DEF Some
  <2> HIDE DEF f
  <2>3. Some({x \in C : \A y \in C : f[x] <= f[y]}, C)
    BY <2>1, <2>2, LeastOf
  <2>4. D = {x \in C : \A y \in C : f[x] <= f[y]}
    BY <2>2 DEF Least
  <2> QED
    BY <2>3, <2>4
<1> HIDE DEF D
<1>13. D \subseteq QEdges /\ D # {}
  BY <1>9, <1>11, <1>12 DEF Some
<1>14. Min(D) \in D
  BY <1>1, <1>13, MinNumber
<1> QED
  BY <1>9, <1>10, <1>13, <1>14 DEF B

(* The scores of USE_GSI_ORDER are fractions. *)
LEMMA ScoreIs ==
  ASSUME Loaded, Measured, Ordered, variant = "gsi", NEW u \in QV
  PROVE  Score(u) \in Nat \X (Nat \ {0})
<1> DEFINE F == {IF stat.avg[u][w] = 0 THEN <<0, 1>>
                 ELSE <<stat.card[u][w], stat.avg[u][w]>> : w \in nbrs[u]}
           P == Nat \X (Nat \ {0})
           less == {p \in P \X P : Fewer(p[1], p[2])}
           value == [w \in nbrs[u] |-> IF stat.avg[u][w] = 0 THEN <<0, 1>>
                                       ELSE <<stat.card[u][w], stat.avg[u][w]>>]
           est == Fraction(F)
           v == visits[u]
           c == Cardinality(nbrs[u])
<1>1. nbrs[u] \subseteq QV /\ u \notin nbrs[u] /\ IsFiniteSet(QV) /\ N \in Nat
      /\ IsFiniteSet(nbrs[u]) /\ c \in Nat
  <2>1. nbrs[u] \subseteq QV /\ u \notin nbrs[u] /\ N \in Nat
    BY OrderedFacts
  <2> QED
    BY <2>1, OrderedFacts DEF Loaded
<1>2. nbrs[u] # {}
  <2>1. {u} # QV
    <3>1. Cardinality({u}) = 1 /\ N >= 2
      BY FS_Singleton DEF Loaded
    <3> QED
      BY <3>1 DEF N
  <2>2. {u} \in SUBSET QV /\ {u} # {}
    OBVIOUS
  <2>3. \E x \in {u}, w \in QV \ {u} : w \in nbrs[x]
    BY <2>1, <2>2 DEF Loaded, Connected
  <2> QED
    BY <2>3
<1>3. c # 0 /\ c <= N - 1
  <2>1. c # 0
    BY <1>1, <1>2, FS_EmptySet
  <2>2. Cardinality(QV \ {u}) = N - 1 /\ IsFiniteSet(QV \ {u})
    BY <1>1, FS_RemoveElement DEF N
  <2>3. nbrs[u] \subseteq QV \ {u}
    BY <1>1
  <2>4. c <= Cardinality(QV \ {u})
    BY <2>2, <2>3, FS_Subset
  <2> QED
    BY <2>1, <2>2, <2>4
<1>4. v \in Nat /\ v <= c
  <2>1. v = Cardinality(BackwardNbrs(u))
    BY DEF Ordered
  <2>2. BackwardNbrs(u) \subseteq nbrs[u]
    BY DEF BackwardNbrs
  <2> HIDE DEF v
  <2>3. Cardinality(BackwardNbrs(u)) \in Nat /\ Cardinality(BackwardNbrs(u)) <= c
    BY <1>1, <2>2, FS_Subset, FS_CardinalityType
  <2> QED
    BY <2>1, <2>3
<1>5. Power(9, v) \in Nat /\ Power(10, N - 1 - v) \in Nat
  <2> HIDE DEF c, v
  <2>1. N - 1 - v \in Nat
    BY <1>1, <1>3, <1>4
  <2> QED
    BY <1>4, <2>1, PowerNat
<1>6. \A w \in nbrs[u] : value[w] \in P
  BY <1>1, MeasuredNat
<1>7. F = {value[w] : w \in nbrs[u]}
  OBVIOUS
<1> HIDE DEF F, value, P
<1>8. F \subseteq P /\ F # {} /\ IsFiniteSet(F)
  <2>1. IsFiniteSet({value[w] : w \in nbrs[u]})
    BY <1>1, FiniteImage
  <2> QED
    BY <1>2, <1>6, <1>7, <2>1
<1>9. est \in F
  <2>1. \A f \in P : <<f, f>> \notin less
    BY FewerOrder DEF P
  <2>2. \A f, g, h \in P : <<f, g>> \in less /\ <<g, h>> \in less => <<f, h>> \in less
    BY FewerOrder DEF P
  <2>3. \A f, g \in P : Fewer(g, f) => <<g, f>> \in less
    OBVIOUS
  <2> HIDE DEF less
  <2>4. \E f \in F : \A g \in F : <<g, f>> \notin less
    <3>1. \A x \in F : <<x, x>> \notin less
      BY <1>8, <2>1
    <3>2. \A x, y, z \in F : <<x, y>> \in less /\ <<y, z>> \in less => <<x, z>> \in less
      BY <1>8, <2>2
    <3> QED
      BY <1>8, <3>1, <3>2, Minimal
  <2>5. \E f \in F : \A g \in F : ~Fewer(g, f)
    BY <1>8, <2>3, <2>4
  <2> QED
    BY <2>5 DEF Fraction
<1>10. est[1] \in Nat /\ est[2] \in Nat /\ est[2] # 0
  BY <1>8, <1>9 DEF P
<1>11. Score(u) = <<est[1] * Power(9, v) * Power(10, N - 1 - v), est[2] * c>>
  BY DEF Score, F
<1> HIDE DEF est, v, c
<1>12. \A x, y, z \in Nat : x * y * z \in Nat /\ (x # 0 /\ y # 0 => x * y \in Nat \ {0})
  <2>1. \A x, y \in Nat : x * y \in Nat
    OBVIOUS
  <2>2. \A x, y \in Nat : x # 0 /\ y # 0 => x * y # 0
    OBVIOUS
  <2> QED
    BY <2>1, <2>2
<1> QED
  BY <1>1, <1>3, <1>5, <1>10, <1>11, <1>12

LEMMA GSIChoice ==
  ASSUME Loaded, Measured, Ordered, variant = "gsi", NEW S \in SUBSET QV, S # {}
  PROVE  Min(Best(Lowest(S), NumBackward)) \in S
<1> DEFINE less == {p \in S \X S : Fewer(Score(p[1]), Score(p[2]))}
           A == Lowest(S)
           B == Best(A, NumBackward)
<1>1. IsFiniteSet(S) /\ S \subseteq Nat
  BY OrderedFacts
<1>2. \A u \in S : Score(u) \in Nat \X (Nat \ {0})
  BY ScoreIs
<1>3. A # {}
  <2>1. \A x \in S : ~Fewer(Score(x), Score(x))
    BY <1>2, FewerOrder
  <2>2. \A x, y, z \in S : Fewer(Score(x), Score(y)) /\ Fewer(Score(y), Score(z)) =>
          Fewer(Score(x), Score(z))
    BY <1>2, FewerOrder
  <2>3. \A x, y \in S : <<x, y>> \in less <=> Fewer(Score(x), Score(y))
    OBVIOUS
  <2> HIDE DEF less
  <2>4. \A x \in S : <<x, x>> \notin less
    BY <2>1, <2>3
  <2>5. \A x, y, z \in S : <<x, y>> \in less /\ <<y, z>> \in less => <<x, z>> \in less
    BY <2>2, <2>3
  <2>6. \E x \in S : \A y \in S : <<y, x>> \notin less
    BY <1>1, <2>4, <2>5, Minimal
  <2> QED
    BY <2>3, <2>6 DEF Lowest
<1>4. A \subseteq S
  BY DEF Lowest
<1> HIDE DEF A
<1>5. IsFiniteSet(A)
  BY <1>1, <1>4, FS_Subset
<1>6. Some(B, A)
  <2> DEFINE f == [x \in A |-> NumBackward(x)]
  <2>1. \A x \in A : f[x] \in Nat /\ f[x] = NumBackward(x)
    BY <1>4, TiesNat
  <2> HIDE DEF f
  <2>2. Some({x \in A : \A y \in A : f[y] <= f[x]}, A)
    BY <1>3, <1>5, <2>1, BestOf
  <2>3. B = {x \in A : \A y \in A : f[y] <= f[x]}
    BY <2>1 DEF Best
  <2> QED
    BY <2>2, <2>3
<1>7. Best(Lowest(S), NumBackward) = B
  BY DEF A
<1> HIDE DEF B
<1>8. B \subseteq S /\ B # {}
  BY <1>4, <1>6 DEF Some
<1>9. Min(B) \in B
  BY <1>1, <1>8, MinNumber
<1> QED
  BY <1>7, <1>8, <1>9

-----------------------------------------------------------------------------
(* The indexing orders. *)

(* t is s followed by a. *)
Follow(t, s, a, V) ==
  /\ t \in Seq(V) /\ Len(t) = Len(s) + Len(a) /\ DOMAIN t = 1..Len(s) + Len(a)
  /\ \A i \in 1..Len(s) : t[i] = s[i]
  /\ \A i \in 1..Len(a) : t[Len(s) + i] = a[i]
  /\ Range(t) = Range(s) \cup Range(a)

LEMMA JoinFacts ==
  ASSUME NEW V, NEW s \in Seq(V), NEW a \in Seq(V)
  PROVE  Follow(s \o a, s, a, V)
<1> DEFINE t == s \o a
           m == Len(s)
           n == Len(a)
<1>1. /\ t \in Seq(V) /\ Len(t) = m + n
      /\ \A i \in 1..m + n : t[i] = IF i <= m THEN s[i] ELSE a[i - m]
  BY ConcatProperties
<1>2. m \in Nat /\ n \in Nat /\ DOMAIN s = 1..m /\ DOMAIN a = 1..n
  BY LenProperties
<1> HIDE DEF t, m, n
<1>3. DOMAIN t = 1..m + n
  BY <1>1, LenProperties
<1>4. \A i \in 1..m : t[i] = s[i]
  <2>1. \A i \in 1..m : i \in 1..m + n /\ i <= m
    BY <1>2
  <2> QED
    BY <1>1, <2>1
<1>5. \A i \in 1..n : t[m + i] = a[i]
  <2>1. \A i \in 1..n : m + i \in 1..m + n /\ ~(m + i <= m) /\ (m + i) - m = i
    BY <1>2
  <2> QED
    BY <1>1, <2>1
<1>6. Range(t) = Range(s) \cup Range(a)
  <2>1. \A i \in 1..m + n : t[i] \in Range(s) \cup Range(a)
    <3>1. \A i \in 1..m + n : i \in 1..m \/ (i - m \in 1..n /\ i = m + (i - m))
      BY <1>2
    <3> QED
      BY <1>2, <1>4, <1>5, <3>1 DEF Range
  <2>2. \A i \in 1..m : s[i] \in Range(t)
    <3>1. \A i \in 1..m : i \in 1..m + n
      BY <1>2
    <3> QED
      BY <1>3, <1>4, <3>1 DEF Range
  <2>3. \A i \in 1..n : a[i] \in Range(t)
    <3>1. \A i \in 1..n : m + i \in 1..m + n
      BY <1>2
    <3> QED
      BY <1>3, <1>5, <3>1 DEF Range
  <2> QED
    BY <1>2, <1>3, <2>1, <2>2, <2>3 DEF Range
<1> QED
  BY <1>1, <1>3, <1>4, <1>5, <1>6 DEF Follow, t, m, n

(* After k rounds: from p, every vertex has a neighbour before it, and the *)
(* neighbours of the first k are there.                                    *)
Grown(s, k, g, p, V) ==
  /\ s \in Seq(V) /\ IsInjective(s)
  /\ Len(s) >= 2 /\ s[1] = p[1] /\ s[2] = p[2]
  /\ \A i \in 1..Len(s) : i <= k => g[s[i]] \subseteq Range(s)
  /\ \A d \in 2..Len(s) : \E j \in 1..d - 1 : s[j] \in g[s[d]]

LEMMA GrownAll ==
  ASSUME NEW V, IsFiniteSet(V), NEW g, Connected(g, V), NEW p \in V \X V,
         NEW k \in Nat, NEW s, Grown(s, k, g, p, V), Len(s) <= k
  PROVE  Len(s) = Cardinality(V)
<1>1. s \in Seq(V) /\ IsInjective(s) /\ Len(s) >= 2
  BY DEF Grown
<1>2. Len(s) \in Nat /\ DOMAIN s = 1..Len(s)
  BY <1>1, LenProperties
<1>3. Range(s) \in SUBSET V /\ (Range(s) = V => Len(s) = Cardinality(V))
  BY <1>1, DistinctSeq
<1>4. Range(s) # {}
  <2>1. 1 \in DOMAIN s
    BY <1>1, <1>2
  <2> QED
    BY <2>1 DEF Range
<1>5. \A u \in Range(s) : g[u] \subseteq Range(s)
  <2>1. \A i \in 1..Len(s) : i <= k
    BY <1>2
  <2>2. \A i \in 1..Len(s) : g[s[i]] \subseteq Range(s)
    BY <2>1 DEF Grown
  <2> QED
    BY <1>2, <2>2 DEF Range
<1>6. Range(s) = V
  BY <1>3, <1>4, <1>5 DEF Connected
<1> QED
  BY <1>3, <1>6

LEMMA GrowStep ==
  ASSUME NEW V, V \subseteq Nat, IsFiniteSet(V), NEW g, Connected(g, V), NEW p \in V \X V,
         NEW k \in Nat \ {0}, NEW s, Grown(s, k - 1, g, p, V), k <= Len(s)
  PROVE  Grown(s \o AscendingSeq(g[s[k]] \ Range(s)), k, g, p, V)
<1> DEFINE W == g[s[k]] \ Range(s)
           a == AscendingSeq(W)
           t == s \o a
           m == Len(s)
           n == Len(a)
<1>1. s \in Seq(V) /\ IsInjective(s) /\ m >= 2 /\ s[1] = p[1] /\ s[2] = p[2]
      /\ (\A i \in 1..m : i <= k - 1 => g[s[i]] \subseteq Range(s))
      /\ \A d \in 2..m : \E j \in 1..d - 1 : s[j] \in g[s[d]]
  BY DEF Grown
<1>2. m \in Nat /\ DOMAIN s = 1..m /\ \A i \in 1..m : s[i] \in V
  BY <1>1, LenProperties, ElementOfSeq
<1>3. k \in 1..m
  BY <1>2
<1>4. W \subseteq V /\ W \subseteq g[s[k]] /\ g[s[k]] \subseteq W \cup Range(s)
      /\ W \cap Range(s) = {}
  BY <1>2, <1>3 DEF Connected
<1> HIDE DEF W
<1>5. W \subseteq Nat /\ IsFiniteSet(W)
  BY <1>4, FS_Subset
<1>6. a \in Seq(W) /\ Range(a) = W /\ Sorted(a)
  BY <1>5, Ascending
<1>7. n \in Nat /\ DOMAIN a = 1..n /\ \A i \in 1..n : a[i] \in W
  BY <1>6, LenProperties, ElementOfSeq
<1> HIDE DEF a
<1>8. a \in Seq(V)
  BY <1>4, <1>6, SeqMonotonic
<1>9. Follow(t, s, a, V)
  BY <1>1, <1>8, JoinFacts
<1> HIDE DEF t
<1>10. /\ t \in Seq(V) /\ Len(t) = m + n /\ DOMAIN t = 1..m + n
       /\ (\A i \in 1..m : t[i] = s[i]) /\ (\A i \in 1..n : t[m + i] = a[i])
       /\ Range(t) = Range(s) \cup W
  BY <1>6, <1>9 DEF Follow
<1> HIDE DEF m, n
<1>11. \A i \in 1..m + n : i \in 1..m \/ (i - m \in 1..n /\ i = m + (i - m))
  BY <1>2, <1>7
<1>12. \A i \in 1..m : s[i] \in Range(s)
  BY <1>2 DEF Range
<1>13. IsInjective(t)
  <2>1. \A i, j \in 1..n : a[i] = a[j] => i = j
    <3> SUFFICES ASSUME NEW i \in 1..n, NEW j \in 1..n, a[i] = a[j], i # j PROVE FALSE
      OBVIOUS
    <3>1. a[i] \in Nat /\ a[j] \in Nat
      BY <1>5, <1>7
    <3>2. i < j \/ j < i
      OBVIOUS
    <3>3. a[i] < a[j] \/ a[j] < a[i]
      BY <1>6, <1>7, <3>2 DEF Sorted
    <3> QED
      BY <3>1, <3>3
  <2>2. \A i, j \in 1..m : s[i] = s[j] => i = j
    BY <1>1, <1>2 DEF IsInjective
  <2>3. \A i \in 1..m, j \in 1..n : s[i] # a[j]
    BY <1>4, <1>7, <1>12
  <2> SUFFICES ASSUME NEW i \in 1..m + n, NEW j \in 1..m + n, t[i] = t[j]
               PROVE  i = j
    BY <1>10 DEF IsInjective
  <2>4. CASE i \in 1..m /\ j \in 1..m
    BY <1>10, <2>2, <2>4
  <2>5. CASE i \in 1..m /\ j \notin 1..m
    BY <1>10, <1>11, <2>3, <2>5
  <2>6. CASE i \notin 1..m /\ j \in 1..m
    BY <1>10, <1>11, <2>3, <2>6
  <2>7. CASE i \notin 1..m /\ j \notin 1..m
    <3>1. i - m \in 1..n /\ i = m + (i - m) /\ j - m \in 1..n /\ j = m + (j - m)
      BY <1>11, <2>7
    <3>2. a[i - m] = a[j - m]
      BY <1>10, <3>1
    <3>3. i - m = j - m
      BY <2>1, <3>1, <3>2
    <3> QED
      BY <3>1, <3>3
  <2> QED
    BY <2>4, <2>5, <2>6, <2>7
<1>14. m + n >= 2 /\ t[1] = p[1] /\ t[2] = p[2]
  <2>1. 1 \in 1..m /\ 2 \in 1..m /\ m + n >= 2
    BY <1>1, <1>2, <1>7 DEF m
  <2> QED
    BY <1>1, <1>10, <2>1
<1>15. ASSUME NEW i \in 1..m + n, i <= k PROVE g[t[i]] \subseteq Range(t)
  <2>1. i \in 1..m /\ (i <= k - 1 \/ i = k)
    BY <1>2, <1>3, <1>15
  <2>2. t[i] = s[i]
    BY <1>10, <2>1
  <2>3. CASE i <= k - 1
    BY <1>1, <1>10, <2>1, <2>2, <2>3 DEF m
  <2>4. CASE i = k
    BY <1>4, <1>10, <2>2, <2>4
  <2> QED
    BY <2>1, <2>3, <2>4
<1>16. ASSUME NEW d \in 2..m + n PROVE \E j \in 1..d - 1 : t[j] \in g[t[d]]
  <2>1. CASE d \in 1..m
    <3>1. d \in 2..m
      BY <1>16, <2>1
    <3>2. PICK j \in 1..d - 1 : s[j] \in g[s[d]]
      BY <1>1, <3>1 DEF m
    <3>3. j \in 1..m
      BY <1>2, <2>1
    <3>4. t[j] = s[j] /\ t[d] = s[d]
      BY <1>10, <2>1, <3>3
    <3> QED
      BY <3>2, <3>4
  <2>2. CASE d \notin 1..m
    <3>1. d \in 1..m + n
      BY <1>2, <1>7
    <3>2. d - m \in 1..n /\ d = m + (d - m)
      BY <1>11, <2>2, <3>1
    <3>3. t[d] = a[d - m] /\ a[d - m] \in W
      BY <1>7, <1>10, <3>2
    <3>4. s[k] \in V /\ t[d] \in V /\ t[d] \in g[s[k]]
      BY <1>2, <1>3, <1>4, <3>3
    <3>5. s[k] \in g[t[d]]
      BY <3>4 DEF Connected
    <3>6. k \in 1..d - 1
      BY <1>2, <1>3, <3>2
    <3> QED
      BY <1>3, <1>10, <3>5, <3>6
  <2> QED
    BY <2>1, <2>2
<1> QED
  BY <1>10, <1>13, <1>14, <1>15, <1>16 DEF Grown, t, a, W

LEMMA PairIs ==
  ASSUME NEW V, NEW p \in V \X V
  PROVE  \E a, b \in V : p = <<a, b>>
OBVIOUS

(* The rounds of the search, one after the other. *)
LEMMA IndexingGrown ==
  ASSUME NEW V, V \subseteq Nat, IsFiniteSet(V), NEW g, Connected(g, V),
         NEW p \in V \X V, p[2] \in g[p[1]]
  PROVE  Grown(IndexingOrder(g, p), Cardinality(V), g, p, V)
<1> DEFINE n == Cardinality(V)
           D == 0..n
           X == Seq(V)
           Join(s, k) == s \o AscendingSeq(g[s[k]] \ Range(s))
           Body(f, k) == IF k = 0 THEN p ELSE Join(f[k - 1], k)
           Typed(f, k) == IF k = 0 THEN p
                          ELSE IF k <= Len(f[k - 1]) THEN Join(f[k - 1], k) ELSE p
           Step == [z \in D \X [D -> X] |-> Typed(z[2], z[1])]
           grown[k \in 0..n] ==
             IF k = 0 THEN p
             ELSE LET ord == grown[k - 1]
                      new == g[ord[k]] \ Range(ord)
                  IN  ord \o AscendingSeq(new)
<1>1. n \in Nat /\ DOMAIN g = V
  BY FS_CardinalityType DEF Connected
<1>2. IndexingOrder(g, p) = grown[n]
  BY <1>1 DEF IndexingOrder
<1>3. grown = CHOOSE f : f = [k \in D |-> Body(f, k)]
  BY DEF grown
<1> HIDE DEF grown
<1>4. Grown(p, 0, g, p, V)
  <2>1. PICK a \in V, b \in V : p = <<a, b>>
    BY PairIs
  <2>2. p[1] = a /\ p[2] = b /\ a # b /\ a \in g[b]
    <3>1. p[1] = a /\ p[2] = b
      BY <2>1
    <3>2. b \in g[a]
      BY <3>1
    <3> QED
      BY <3>1, <3>2 DEF Connected
  <2>3. p \in Seq(V) /\ Len(p) = 2 /\ DOMAIN p = 1..2
    BY <2>1
  <2>4. IsInjective(p)
    <3>1. \A i \in 1..2 : i = 1 \/ i = 2
      OBVIOUS
    <3> QED
      BY <2>2, <2>3, <3>1 DEF IsInjective
  <2>5. \A i \in 1..2 : ~(i <= 0)
    OBVIOUS
  <2>6. \A d \in 2..2 : d = 2 /\ 1 \in 1..d - 1
    OBVIOUS
  <2>7. \A d \in 2..2 : \E j \in 1..d - 1 : p[j] \in g[p[d]]
    BY <2>2, <2>6
  <2>8. 2 >= 2
    OBVIOUS
  <2> QED
    BY <2>3, <2>4, <2>5, <2>7, <2>8 DEF Grown
<1>5. ASSUME NEW k \in 1..n, NEW s, Grown(s, k - 1, g, p, V)
      PROVE  k <= Len(s) /\ Grown(Join(s, k), k, g, p, V)
  <2>1. k - 1 \in Nat /\ k \in Nat \ {0} /\ k <= n
    BY <1>1
  <2>2. Len(s) \in Nat
    BY <1>5, LenProperties DEF Grown
  <2>3. k <= Len(s)
    <3>1. Len(s) <= k - 1 => Len(s) = n
      BY <1>5, <2>1, GrownAll
    <3> QED
      BY <1>1, <2>1, <2>2, <3>1
  <2> QED
    BY <1>5, <2>1, <2>3, GrowStep
<1>6. \A k \in D : k # 0 => k \in 1..n /\ k - 1 \in D /\ k - 1 < k
  BY <1>1
<1>7. \A s, k : Grown(s, k, g, p, V) => s \in X
  BY DEF Grown
<1>8. p \in X
  BY <1>4, <1>7
<1>9. \A f \in [D -> X], k \in D : Typed(f, k) \in X
  <2> SUFFICES ASSUME NEW f \in [D -> X], NEW k \in D, k # 0, k <= Len(f[k - 1])
               PROVE  Join(f[k - 1], k) \in X
    BY <1>8
  <2> DEFINE s == f[k - 1]
             W == g[s[k]] \ Range(s)
  <2>1. s \in X /\ k \in 1..n /\ k <= Len(s)
    BY <1>6
  <2> HIDE DEF s
  <2>2. s[k] \in V
    <3>1. k \in 1..Len(s)
      BY <2>1, LenProperties
    <3> QED
      BY <2>1, <3>1, ElementOfSeq
  <2>3. W \subseteq V
    BY <2>2 DEF Connected
  <2> HIDE DEF W
  <2>4. AscendingSeq(W) \in Seq(W)
    BY <2>3, FS_Subset, Ascending
  <2>5. AscendingSeq(W) \in Seq(V)
    BY <2>3, <2>4, SeqMonotonic
  <2>6. s \o AscendingSeq(W) \in X
    BY <2>1, <2>5, ConcatProperties
  <2> QED
    BY <2>6 DEF W, s
<1>10. \A f \in [D -> X], k \in D : Step[<<k, f>>] = Typed(f, k)
  OBVIOUS
<1>11. Step \in [D \X [D -> X] -> X]
  <2> HIDE DEF X, D, Typed
  <2> QED
    BY <1>9
<1>12. \A d \in D : \A f, h \in [D -> X] :
         (\A k \in D : k < d => f[k] = h[k]) => Typed(f, d) = Typed(h, d)
  <2> HIDE DEF Join
  <2> QED
    BY <1>6
<1>13. X # {} /\ D \subseteq 0..n
  BY <1>8
<1> HIDE DEF Step, X, D, Join
<1>14. PICK f : f \in [D -> X] /\ \A k \in D : f[k] = Typed(f, k)
  <2> HIDE DEF Typed
  <2>1. Causal(D, [d \in D |-> d], X, Step)
    BY SMTT(30), <1>10, <1>11, <1>12 DEF Causal
  <2>2. \E f : Follows(D, X, Step, f)
    BY <1>1, <1>13, <2>1, Recursion
  <2> QED
    <3>1. PICK f : Follows(D, X, Step, f)
      BY <2>2
    <3>2. f \in [D -> X] /\ \A k \in D : f[k] = Step[<<k, f>>]
      BY <3>1 DEF Follows
    <3>3. \A k \in D : f[k] = Typed(f, k)
      BY <1>10, <3>2
    <3> QED
      BY <3>2, <3>3
<1>15. 0 \in D /\ \A k \in 1..n : k \in D /\ k # 0 /\ k - 1 \in 0..n
  BY <1>1 DEF D
<1>16. \A k \in 0..n : Grown(f[k], k, g, p, V)
  <2> DEFINE S == {k \in 0..n : Grown(f[k], k, g, p, V)}
  <2>1. 0 \in S
    <3>1. f[0] = p
      BY <1>14, <1>15
    <3> QED
      BY <1>1, <1>4, <3>1
  <2>2. ASSUME NEW k \in 1..n, k - 1 \in S PROVE k \in S
    <3>1. k <= Len(f[k - 1]) /\ Grown(Join(f[k - 1], k), k, g, p, V)
      BY <1>5, <2>2
    <3>2. f[k] = Join(f[k - 1], k)
      BY <1>14, <1>15, <3>1
    <3> QED
      BY <1>1, <3>1, <3>2
  <2>3. \A k \in 0..n : k \in S
    <3> HIDE DEF S
    <3> QED
      BY <1>1, <2>1, <2>2, CountUp
  <2> QED
    BY <2>3
<1>17. f = [k \in D |-> Body(f, k)]
  <2>1. ASSUME NEW k \in D PROVE f[k] = Body(f, k)
    <3>1. CASE k = 0
      BY <1>14, <3>1
    <3>2. CASE k # 0
      <4>1. k \in 1..n /\ k - 1 \in 0..n
        BY <1>6, <1>15, <3>2
      <4>2. k <= Len(f[k - 1])
        BY <1>5, <1>16, <4>1
      <4> QED
        BY <1>14, <3>2, <4>2
    <3> QED
      BY <3>1, <3>2
  <2> HIDE DEF Body
  <2> QED
    BY <1>14, <2>1
<1>18. \A k \in D : grown[k] = Body(grown, k)
  <2> HIDE DEF Body
  <2>1. grown = [k \in D |-> Body(grown, k)]
    BY <1>3, <1>17
  <2> QED
    BY <2>1
<1>19. Grown(grown[n], n, g, p, V)
  <2> DEFINE S == {k \in 0..n : Grown(grown[k], k, g, p, V)}
  <2>1. 0 \in S
    BY <1>1, <1>4, <1>15, <1>18
  <2>2. ASSUME NEW k \in 1..n, k - 1 \in S PROVE k \in S
    <3>1. Grown(Join(grown[k - 1], k), k, g, p, V)
      BY <1>5, <2>2
    <3>2. grown[k] = Join(grown[k - 1], k)
      BY <1>15, <1>18
    <3> QED
      BY <1>1, <3>1, <3>2
  <2>3. n \in 0..n
    BY <1>1
  <2>4. n \in S
    <3> HIDE DEF S
    <3> QED
      BY <1>1, <2>1, <2>2, <2>3, CountUp
  <2> QED
    BY <2>4
<1> QED
  BY <1>2, <1>19

(* What the indexing orders are used for: they have every query vertex     *)
(* once, the ends of the edge first, and lead back from each of the others.*)
IndexingOf(e) ==
  /\ indexing[e] \in Seq(QV) /\ IsInjective(indexing[e]) /\ Len(indexing[e]) = N
  /\ indexing[e][1] = qe_list[e][1] /\ indexing[e][2] = qe_list[e][2]
  /\ Range(indexing[e]) = QV
  /\ \A d \in 2..N : Backward(indexing[e], d) # {}

LEMMA IndexingUsable ==
  ASSUME Loaded, NEW e \in QEdges
  PROVE  IndexingOf(e)
<1> DEFINE V == QV
           p == qe_list[e]
           s == IndexingOrder(nbrs, p)
<1>1. V \subseteq Nat /\ IsFiniteSet(V) /\ Connected(nbrs, V)
  BY DEF Loaded
<1>2. p \in V \X V /\ p[2] \in nbrs[p[1]]
  BY ElementOfSeq, LenProperties DEF Loaded, Edges, QEdges
<1>3. indexing[e] = s
  BY DEF Loaded, QEdges
<1>4. Cardinality(V) \in Nat /\ N = Cardinality(V)
  BY <1>1, FS_CardinalityType DEF N
<1> HIDE DEF V, p
<1>5. Grown(s, Cardinality(V), nbrs, p, V)
  BY <1>1, <1>2, IndexingGrown
<1> HIDE DEF s
<1>6. s \in Seq(V) /\ IsInjective(s) /\ s[1] = p[1] /\ s[2] = p[2]
      /\ \A d \in 2..Len(s) : \E j \in 1..d - 1 : s[j] \in nbrs[s[d]]
  BY <1>5 DEF Grown
<1>7. Len(s) <= Cardinality(V) /\ (Len(s) = Cardinality(V) <=> Range(s) = V)
  BY <1>1, <1>6, DistinctSeq
<1>8. Len(s) = N /\ Range(s) = V
  BY <1>1, <1>2, <1>4, <1>5, <1>7, GrownAll
<1> QED
  BY <1>3, <1>6, <1>8 DEF IndexingOf, Backward, V, p

-----------------------------------------------------------------------------
(* The paths that flag query edges. *)

(* A simple path from s that stops at the first end of query edge e. *)
PathTo(p, s, e) ==
  /\ p \in Seq(QV) /\ IsInjective(p) /\ Len(p) >= 2
  /\ p[1] = s /\ p[Len(p)] \in {qe_list[e][1], qe_list[e][2]}
  /\ \A i \in 2..Len(p) : p[i] \in nbrs[p[i - 1]]
  /\ \A i \in 2..Len(p) - 1 : p[i] \notin {qe_list[e][1], qe_list[e][2]}

(* The search finds it. *)
PathValues(h, s, e) ==
  LET ends == {qe_list[e][1], qe_list[e][2]}
  IN  /\ h[1] = {<<s>>}
      /\ \A k \in 2..N : \A p \in h[k - 1] : \A x \in nbrs[Last(p)] \ Range(p) :
           k = 2 \/ Last(p) \notin ends => Append(p, x) \in h[k]
      /\ \A k \in 2..N : \A r \in h[k] : \E p \in h[k - 1] :
           /\ k = 2 \/ Last(p) \notin ends
           /\ \E x \in nbrs[Last(p)] \ Range(p) : r = Append(p, x)
      /\ Hits(s, e) = {p \in UNION {h[k] : k \in 2..N} : Last(p) \in ends}

LEMMA PathFold ==
  ASSUME Loaded, NEW s \in QV, NEW e \in QEdges
  PROVE  \E h : PathValues(h, s, e)
<1> DEFINE ends == {qe_list[e][1], qe_list[e][2]}
           D == 1..N
           Y == Seq(QV) \ {<<>>}
           X == SUBSET Y
           longer(p) == {Append(p, x) : x \in nbrs[Last(p)] \ Range(p)}
           Body(f, k) == IF k = 1 THEN {<<s>>}
                         ELSE UNION {longer(p) : p \in {p \in f[k - 1] : k = 2 \/ Last(p) \notin ends}}
           Step == [z \in D \X [D -> X] |-> Body(z[2], z[1])]
           paths[k \in 1..N] ==
             IF k = 1 THEN {<<s>>}
             ELSE UNION {longer(p) : p \in {p \in paths[k - 1] : k = 2 \/ Last(p) \notin ends}}
<1>1. Hits(s, e) = {p \in UNION {paths[k] : k \in 2..N} : Last(p) \in ends}
  BY DEF Hits
<1>2. paths = CHOOSE f : f = [k \in D |-> Body(f, k)]
  BY DEF paths
<1> HIDE DEF paths
<1>3. N \in Nat /\ N >= 2 /\ nbrs \in [QV -> SUBSET QV]
  BY FS_CardinalityType DEF Loaded, Connected, N
<1>4. \A k \in D : k # 1 => k - 1 \in D /\ k - 1 < k
  BY <1>3
<1>5. \A p \in Y : longer(p) \subseteq Y
  <2> SUFFICES ASSUME NEW p \in Y, NEW x \in nbrs[Last(p)] PROVE Append(p, x) \in Y
    OBVIOUS
  <2>1. Len(p) \in Nat /\ Len(p) # 0
    BY EmptySeq, LenProperties
  <2>2. Last(p) \in QV
    <3>1. Len(p) \in 1..Len(p)
      BY <2>1
    <3> QED
      BY <3>1, ElementOfSeq DEF Last
  <2>3. x \in QV
    BY <1>3, <2>2
  <2>4. Append(p, x) \in Seq(QV) /\ Len(Append(p, x)) = Len(p) + 1
    BY <2>3, AppendProperties
  <2>5. Len(Append(p, x)) # 0
    BY <2>1, <2>4
  <2> QED
    BY <2>4, <2>5, EmptySeq
<1>6. {<<s>>} \in X
  <2>1. <<s>> \in Seq(QV) /\ Len(<<s>>) = 1
    OBVIOUS
  <2> QED
    BY <2>1, EmptySeq
<1> HIDE DEF longer, Y
<1>7. \A f \in [D -> X], k \in D : Body(f, k) \in X
  <2> SUFFICES ASSUME NEW f \in [D -> X], NEW k \in D, k # 1,
                      NEW p \in f[k - 1], NEW q \in longer(p)
               PROVE  q \in Y
    BY <1>6
  <2>1. p \in Y
    BY <1>4
  <2> QED
    BY <1>5, <2>1
<1>8. \A f \in [D -> X], k \in D : Step[<<k, f>>] = Body(f, k)
  OBVIOUS
<1>9. Step \in [D \X [D -> X] -> X]
  <2> HIDE DEF D, X, Body
  <2> QED
    BY <1>7
<1>10. \A d \in D : \A f, h \in [D -> X] :
         (\A k \in D : k < d => f[k] = h[k]) => Body(f, d) = Body(h, d)
  BY <1>4
<1>11. X # {} /\ D \subseteq 0..N
  BY <1>3, <1>6
<1> HIDE DEF Step, X, D, Body
<1>12. PICK f : f \in [D -> X] /\ \A k \in D : f[k] = Body(f, k)
  <2>1. Causal(D, [d \in D |-> d], X, Step)
    BY <1>8, <1>9, <1>10 DEF Causal
  <2>2. \E f : Follows(D, X, Step, f)
    BY <1>3, <1>11, <2>1, Recursion
  <2> QED
    BY <1>8, <2>2 DEF Follows
<1>13. f = [k \in D |-> Body(f, k)]
  BY <1>12
<1>14. \A k \in D : paths[k] = Body(paths, k)
  <2>1. paths = [k \in D |-> Body(paths, k)]
    BY <1>2, <1>13
  <2> QED
    BY <2>1
<1>15. paths[1] = {<<s>>}
  <2>1. 1 \in D
    BY <1>3 DEF D
  <2> QED
    BY <1>14, <2>1 DEF Body
<1>16. ASSUME NEW k \in 2..N, NEW p \in paths[k - 1], NEW x \in nbrs[Last(p)] \ Range(p),
              k = 2 \/ Last(p) \notin ends
       PROVE  Append(p, x) \in paths[k]
  <2>1. k \in D /\ k # 1
    BY <1>3 DEF D
  <2>2. paths[k] = UNION {longer(q) : q \in {q \in paths[k - 1] : k = 2 \/ Last(q) \notin ends}}
    BY <1>14, <2>1 DEF Body
  <2>3. Append(p, x) \in longer(p)
    BY <1>16 DEF longer
  <2> QED
    BY <1>16, <2>2, <2>3
<1>17. ASSUME NEW k \in 2..N, NEW r \in paths[k]
       PROVE  \E p \in paths[k - 1] :
                /\ k = 2 \/ Last(p) \notin ends
                /\ \E x \in nbrs[Last(p)] \ Range(p) : r = Append(p, x)
  <2>1. k \in D /\ k # 1
    BY <1>3 DEF D
  <2>2. paths[k] = UNION {longer(q) : q \in {q \in paths[k - 1] : k = 2 \/ Last(q) \notin ends}}
    BY <1>14, <2>1 DEF Body
  <2> QED
    BY <2>2 DEF longer
<1> QED
  BY <1>1, <1>15, <1>16, <1>17 DEF PathValues

LEMMA PathsHit ==
  ASSUME Loaded, NEW s \in QV, NEW e \in QEdges, NEW p, PathTo(p, s, e)
  PROVE  p \in Hits(s, e)
<1> DEFINE ends == {qe_list[e][1], qe_list[e][2]}
           n == Len(p)
           pre(k) == [i \in 1..k |-> p[i]]
<1>1. PICK h : PathValues(h, s, e)
  BY PathFold
<1>2. /\ p \in Seq(QV) /\ IsInjective(p) /\ n >= 2 /\ p[1] = s /\ p[n] \in ends
      /\ \A i \in 2..n : p[i] \in nbrs[p[i - 1]]
      /\ \A i \in 2..n - 1 : p[i] \notin ends
  BY DEF PathTo
<1>3. n \in Nat /\ DOMAIN p = 1..n /\ \A i \in 1..n : p[i] \in QV
  BY <1>2, LenProperties, ElementOfSeq
<1>4. n <= N
  BY <1>2, DistinctSeq DEF Loaded, N
<1>5. p = pre(n)
  BY <1>2, LenProperties
<1> HIDE DEF n
<1>6. N \in Nat
  BY FS_CardinalityType DEF Loaded, N
<1> DEFINE S == {k \in 1..n : pre(k) \in h[k]}
<1>7. 1 \in S
  <2>1. pre(1) = <<s>>
    BY <1>2
  <2>2. 1 \in 1..n
    BY <1>2, <1>3
  <2> QED
    BY <1>1, <2>1, <2>2 DEF PathValues
<1>8. ASSUME NEW k \in 2..n, k - 1 \in S PROVE k \in S
  <2> DEFINE q == pre(k - 1)
             x == p[k]
  <2>1. k - 1 \in 1..n /\ k \in 1..n /\ k \in 2..N
    BY <1>3, <1>4, <1>6
  <2>2. q \in Seq(QV) /\ Len(q) = k - 1 /\ DOMAIN q = 1..k - 1 /\ \A i \in 1..k - 1 : q[i] = p[i]
    <3>1. \A i \in 1..k - 1 : p[i] \in QV
      BY <1>3, <2>1
    <3>2. k - 1 \in Nat
      OBVIOUS
    <3>3. q \in Seq(QV)
      BY <3>1, <3>2, IsASeq
    <3>4. Len(q) = k - 1
      BY <3>2, <3>3, LenProperties
    <3> QED
      BY <3>3, <3>4
  <2>3. q \in h[k - 1]
    BY <1>8
  <2> HIDE DEF q
  <2>4. Last(q) = p[k - 1]
    BY <2>1, <2>2 DEF Last
  <2>5. x \in nbrs[Last(q)] \ Range(q) /\ x \in QV
    <3>1. x \in nbrs[p[k - 1]] /\ x \in QV
      BY <1>2, <1>3, <2>1
    <3>2. \A i \in 1..k - 1 : p[i] # x
      <4>1. \A i \in 1..k - 1 : i \in 1..n /\ i # k
        BY <1>3
      <4> QED
        BY <1>2, <1>3, <2>1, <4>1 DEF IsInjective
    <3> QED
      BY <2>2, <2>4, <3>1, <3>2 DEF Range
  <2>6. k = 2 \/ Last(q) \notin ends
    <3>1. k # 2 => k - 1 \in 2..n - 1
      BY <1>3
    <3> QED
      BY <1>2, <2>4, <3>1
  <2>7. Append(q, x) \in h[k]
    BY <1>1, <2>1, <2>3, <2>5, <2>6 DEF PathValues
  <2>8. pre(k) = Append(q, x)
    <3> DEFINE r == Append(q, x)
    <3>1. Longer(r, q, x, QV)
      BY <2>2, <2>5, AppendLonger
    <3> HIDE DEF r
    <3>2. /\ r \in Seq(QV) /\ Len(r) = (k - 1) + 1 /\ r[(k - 1) + 1] = x
          /\ \A i \in 1..k - 1 : r[i] = q[i]
      BY <2>2, <3>1 DEF Longer
    <3>3. (k - 1) + 1 = k /\ 1..k = (1..k - 1) \cup {k}
      OBVIOUS
    <3>4. r = [i \in 1..k |-> r[i]]
      BY <3>2, <3>3, LenProperties
    <3>5. \A i \in 1..k : r[i] = p[i]
      BY <2>2, <3>2, <3>3
    <3>6. r = pre(k)
      BY <3>4, <3>5
    <3> QED
      BY <3>6 DEF r
  <2> QED
    BY <2>1, <2>7, <2>8
<1>9. n \in S
  <2> DEFINE T == {j \in 0..n - 1 : j + 1 \in S}
  <2>1. 0 \in T
    BY <1>2, <1>3, <1>7
  <2>2. ASSUME NEW j \in 1..n - 1, j - 1 \in T PROVE j \in T
    <3>1. j + 1 \in 2..n /\ (j + 1) - 1 = (j - 1) + 1
      BY <1>3
    <3> HIDE DEF S
    <3>2. (j + 1) - 1 \in S
      BY <2>2, <3>1
    <3>3. j + 1 \in S
      BY <1>8, <3>1, <3>2
    <3> QED
      BY <1>3, <3>3
  <2>3. n - 1 \in Nat /\ n - 1 \in 0..n - 1 /\ (n - 1) + 1 = n
    BY <1>2, <1>3
  <2>4. n - 1 \in T
    <3> HIDE DEF T
    <3> QED
      BY <2>1, <2>2, <2>3, CountUp
  <2> HIDE DEF S
  <2> QED
    BY <2>3, <2>4
<1>10. p \in h[n]
  BY <1>5, <1>9
<1>11. n \in 2..N /\ Last(p) \in ends
  BY <1>2, <1>3, <1>4, <1>6 DEF Last, n
<1> QED
  BY <1>1, <1>10, <1>11 DEF PathValues

(* From every position after the second a path of the indexing order leads *)
(* back to an end of its edge, along backward neighbours.                  *)
LeadsBack(p, e, d) ==
  /\ PathTo(p, indexing[e][d], e)
  /\ \A i \in 1..Len(p) : \E j \in 1..d : p[i] = indexing[e][j]
  /\ \E k \in Backward(indexing[e], d) : p[2] = indexing[e][k]

LEMMA PathOfTwo ==
  ASSUME Loaded, NEW e \in QEdges, NEW d \in 3..N, NEW k \in Backward(indexing[e], d), k <= 2
  PROVE  LeadsBack(<<indexing[e][d], indexing[e][k]>>, e, d)
<1> DEFINE ord == indexing[e]
           a == ord[d]
           b == ord[k]
           p == <<a, b>>
<1>1. /\ ord \in Seq(QV) /\ IsInjective(ord) /\ Len(ord) = N
      /\ ord[1] = qe_list[e][1] /\ ord[2] = qe_list[e][2]
  BY IndexingUsable DEF IndexingOf
<1>2. N \in Nat
  BY FS_CardinalityType DEF Loaded, N
<1>3. \A i \in 1..N : ord[i] \in QV /\ DOMAIN ord = 1..N
  BY <1>1, LenProperties, ElementOfSeq
<1>4. k \in 1..d - 1 /\ b \in nbrs[a]
  BY DEF Backward
<1>5. d \in 1..N /\ k \in 1..N /\ d # k /\ k \in 1..d /\ d \in 1..d /\ (k = 1 \/ k = 2)
  BY <1>2, <1>4
<1>6. a \in QV /\ b \in QV /\ a # b
  BY <1>1, <1>3, <1>5 DEF IsInjective
<1>7. b \in {qe_list[e][1], qe_list[e][2]}
  BY <1>1, <1>5
<1>8. k \in Backward(ord, d)
  OBVIOUS
<1> HIDE DEF ord, a, b
<1>9. p \in Seq(QV) /\ Len(p) = 2 /\ DOMAIN p = 1..2 /\ p[1] = a /\ p[2] = b
  BY <1>6
<1> HIDE DEF p
<1>10. \A i \in 1..2 : i = 1 \/ i = 2
  OBVIOUS
<1>11. IsInjective(p)
  BY <1>6, <1>9, <1>10 DEF IsInjective
<1>12. \A i \in 2..2 : p[i] \in nbrs[p[i - 1]]
  <2>1. \A i \in 2..2 : i = 2 /\ i - 1 = 1
    OBVIOUS
  <2> QED
    BY <1>4, <1>9, <2>1
<1>13. \A i \in 2..2 - 1 : FALSE
  OBVIOUS
<1>14. 2 >= 2
  OBVIOUS
<1>15. PathTo(p, ord[d], e)
  BY <1>7, <1>9, <1>11, <1>12, <1>13, <1>14 DEF PathTo, a
<1>16. \A i \in 1..Len(p) : \E j \in 1..d : p[i] = ord[j]
  BY <1>5, <1>9, <1>10 DEF a, b
<1>17. \E j \in Backward(ord, d) : p[2] = ord[j]
  BY <1>8, <1>9 DEF b
<1> QED
  BY <1>15, <1>16, <1>17 DEF LeadsBack, p, a, b, ord

LEMMA PathLonger ==
  ASSUME Loaded, NEW e \in QEdges, NEW d \in 3..N, NEW k \in Backward(indexing[e], d), k > 2,
         NEW q, LeadsBack(q, e, k)
  PROVE  LeadsBack(<<indexing[e][d]>> \o q, e, d)
<1> DEFINE ord == indexing[e]
           a == ord[d]
           s == <<a>>
           p == s \o q
           n == Len(q)
           ends == {qe_list[e][1], qe_list[e][2]}
<1>1. /\ ord \in Seq(QV) /\ IsInjective(ord) /\ Len(ord) = N
      /\ ord[1] = qe_list[e][1] /\ ord[2] = qe_list[e][2]
  BY IndexingUsable DEF IndexingOf
<1>2. N \in Nat
  BY FS_CardinalityType DEF Loaded, N
<1>3. \A i \in 1..N : ord[i] \in QV /\ DOMAIN ord = 1..N
  BY <1>1, LenProperties, ElementOfSeq
<1>4. k \in 1..d - 1 /\ ord[k] \in nbrs[a]
  BY DEF Backward
<1>5. d \in 1..N /\ d \in 1..d /\ k \in 1..N /\ k # 1 /\ k # 2 /\ 1 \in 1..N /\ 2 \in 1..N
  BY <1>2, <1>4
<1>6. a \in QV
  BY <1>3, <1>5
<1>7. /\ q \in Seq(QV) /\ IsInjective(q) /\ n >= 2 /\ q[1] = ord[k] /\ q[n] \in ends
      /\ \A i \in 2..n : q[i] \in nbrs[q[i - 1]]
      /\ \A i \in 2..n - 1 : q[i] \notin ends
      /\ \A i \in 1..n : \E j \in 1..k : q[i] = ord[j]
  BY DEF LeadsBack, PathTo
<1>8. n \in Nat /\ DOMAIN q = 1..n
  BY <1>7, LenProperties
<1>9. q[1] \notin ends
  <2>1. ord[k] # ord[1] /\ ord[k] # ord[2]
    BY <1>1, <1>3, <1>5 DEF IsInjective
  <2> QED
    BY <1>1, <1>7, <2>1
<1>10. \A i \in 1..n : q[i] # a
  <2> SUFFICES ASSUME NEW i \in 1..n PROVE q[i] # a
    OBVIOUS
  <2>1. PICK j \in 1..k : q[i] = ord[j]
    BY <1>7
  <2>2. j \in 1..N /\ j # d
    BY <1>2, <1>4
  <2> QED
    BY <1>1, <1>3, <1>5, <2>1, <2>2 DEF IsInjective
<1>11. k \in Backward(ord, d)
  OBVIOUS
<1> HIDE DEF ord, ends
<1>12. s \in Seq(QV) /\ Len(s) = 1 /\ s[1] = a
  BY <1>6
<1> HIDE DEF s, a
<1>13. Follow(p, s, q, QV)
  BY <1>7, <1>12, JoinFacts
<1> HIDE DEF p, n
<1>14. /\ p \in Seq(QV) /\ Len(p) = 1 + n /\ DOMAIN p = 1..1 + n
       /\ (\A i \in 1..1 : p[i] = a) /\ (\A i \in 1..n : p[1 + i] = q[i])
  BY <1>12, <1>13 DEF Follow, n
<1>15. p[1] = a /\ \A i \in 2..1 + n : i - 1 \in 1..n /\ 1 + (i - 1) = i
  <2>1. 1 \in 1..1
    OBVIOUS
  <2>2. \A i \in 2..1 + n : i - 1 \in 1..n /\ 1 + (i - 1) = i
    BY <1>8
  <2> QED
    BY <1>14, <2>1, <2>2
<1>16. \A i \in 2..1 + n : p[i] = q[i - 1]
  BY <1>14, <1>15
<1>17. \A i \in 1..1 + n : i = 1 \/ i \in 2..1 + n
  BY <1>8
<1>18. IsInjective(p)
  <2> SUFFICES ASSUME NEW i \in 1..1 + n, NEW j \in 1..1 + n, p[i] = p[j] PROVE i = j
    BY <1>14 DEF IsInjective
  <2>1. CASE i = 1 /\ j = 1
    BY <2>1
  <2>2. CASE i = 1 /\ j \in 2..1 + n
    BY <1>10, <1>15, <1>16, <2>2
  <2>3. CASE i \in 2..1 + n /\ j = 1
    BY <1>10, <1>15, <1>16, <2>3
  <2>4. CASE i \in 2..1 + n /\ j \in 2..1 + n
    <3>1. i - 1 = j - 1
      BY <1>7, <1>8, <1>15, <1>16, <2>4 DEF IsInjective
    <3> QED
      BY <2>4, <3>1
  <2> QED
    BY <1>17, <2>1, <2>2, <2>3, <2>4
<1>19. \A i \in 2..1 + n : p[i] \in nbrs[p[i - 1]]
  <2> SUFFICES ASSUME NEW i \in 2..1 + n PROVE p[i] \in nbrs[p[i - 1]]
    OBVIOUS
  <2>1. CASE i = 2
    <3>1. p[2] = q[1] /\ i - 1 = 1
      BY <1>16, <2>1
    <3> QED
      BY <1>4, <1>7, <1>15, <2>1, <3>1
  <2>2. CASE i # 2
    <3>1. i - 1 \in 2..n /\ i - 1 \in 2..1 + n
      BY <1>8, <2>2
    <3>2. p[i] = q[i - 1] /\ p[i - 1] = q[(i - 1) - 1]
      BY <1>16, <3>1
    <3> QED
      BY <1>7, <3>1, <3>2
  <2> QED
    BY <2>1, <2>2
<1>20. \A i \in 2..(1 + n) - 1 : p[i] \notin ends
  <2> SUFFICES ASSUME NEW i \in 2..(1 + n) - 1 PROVE p[i] \notin ends
    OBVIOUS
  <2>1. i \in 2..1 + n /\ (i - 1 = 1 \/ i - 1 \in 2..n - 1)
    BY <1>8
  <2> QED
    BY <1>7, <1>9, <1>16, <2>1
<1>21. p[1 + n] \in ends
  <2>1. 1 + n \in 2..1 + n /\ (1 + n) - 1 = n
    BY <1>7, <1>8 DEF n
  <2> QED
    BY <1>7, <1>16, <2>1 DEF n
<1>22. 1 + n >= 2
  BY <1>7, <1>8 DEF n
<1>23. PathTo(p, a, e)
  BY <1>14, <1>15, <1>18, <1>19, <1>20, <1>21, <1>22 DEF PathTo, ends
<1>24. \A i \in 1..1 + n : \E j \in 1..d : p[i] = ord[j]
  <2> SUFFICES ASSUME NEW i \in 1..1 + n PROVE \E j \in 1..d : p[i] = ord[j]
    OBVIOUS
  <2>1. CASE i = 1
    BY <1>5, <1>15, <2>1 DEF a
  <2>2. CASE i \in 2..1 + n
    <3>1. PICK j \in 1..k : q[i - 1] = ord[j]
      BY <1>7, <1>15, <2>2 DEF n
    <3>2. j \in 1..d
      BY <1>4
    <3> QED
      BY <1>16, <2>2, <3>1, <3>2
  <2> QED
    BY <1>17, <2>1, <2>2
<1>25. \E j \in Backward(ord, d) : p[2] = ord[j]
  <2>1. 2 \in 2..1 + n /\ 2 - 1 = 1
    BY <1>7, <1>8 DEF n
  <2>2. p[2] = ord[k]
    BY <1>7, <1>16, <2>1
  <2> QED
    BY <1>11, <2>2
<1> QED
  BY <1>14, <1>23, <1>24, <1>25 DEF LeadsBack, a, s, p, ord

LEMMA PathExists ==
  ASSUME Loaded, NEW e \in QEdges
  PROVE  \A d \in 3..N : \E p : LeadsBack(p, e, d)
<1> DEFINE D == 3..N
           S == {d \in D : \E p : LeadsBack(p, e, d)}
<1>1. N \in Nat
  BY FS_CardinalityType DEF Loaded, N
<1>2. ASSUME NEW d \in D, \A k \in D : k < d => k \in S PROVE d \in S
  <2>1. d \in 2..N /\ d \in Nat
    BY <1>1
  <2>2. PICK k \in Backward(indexing[e], d) : TRUE
    BY <2>1, IndexingUsable DEF IndexingOf
  <2>3. k \in 1..d - 1
    BY DEF Backward
  <2>4. CASE k <= 2
    BY <2>4, PathOfTwo
  <2>5. CASE k > 2
    <3>1. k \in D /\ k < d
      BY <1>1, <2>1, <2>3, <2>5
    <3>2. PICK q : LeadsBack(q, e, k)
      BY <1>2, <3>1
    <3> QED
      BY <2>5, <3>2, PathLonger
  <2> QED
    BY <2>1, <2>3, <2>4, <2>5
<1>3. D \subseteq Nat
  BY <1>1
<1>4. D \subseteq S
  <2> HIDE DEF D, S
  <2> QED
    BY <1>2, <1>3, Stepwise
<1> QED
  BY <1>4

-----------------------------------------------------------------------------
(* The steps of the matching order. *)

(* Every backward list has a first entry. *)
LEMMA FirstSome ==
  ASSUME Measured, order \in Seq(QV), IsFiniteSet(QV),
         NEW d \in 2..Len(order), Backward(order, d) # {}
  PROVE  First(order, d) # {}
<1> DEFINE B == Backward(order, d)
           f == [k \in B |-> stat.avg[order[k]][order[d]]]
<1>1. Len(order) \in Nat /\ \A k \in 1..Len(order) : order[k] \in QV
  BY LenProperties, ElementOfSeq
<1>2. B \subseteq 1..Len(order) /\ d \in 1..Len(order)
  BY <1>1 DEF Backward
<1>3. IsFiniteSet(B)
  <2>1. IsFiniteSet(1..Len(order))
    BY <1>1, FS_Interval
  <2> QED
    BY <1>2, <2>1, FS_Subset
<1>4. \A k \in B : f[k] \in Nat /\ f[k] = stat.avg[order[k]][order[d]]
  BY <1>1, <1>2, MeasuredNat
<1>5. First(order, d) =
        {x \in B : \A y \in B : stat.avg[order[x]][order[d]] <= stat.avg[order[y]][order[d]]}
  BY DEF First, Least
<1> HIDE DEF f, B
<1>6. Some({x \in B : \A y \in B : f[x] <= f[y]}, B)
  <2>1. B # {}
    BY DEF B
  <2> QED
    BY <1>3, <1>4, <2>1, LeastOf
<1>7. First(order, d) = {x \in B : \A y \in B : f[x] <= f[y]}
  BY <1>4, <1>5
<1> QED
  BY <1>6, <1>7 DEF Some

(* A vertex next to the order leaves it one that can be matched. *)
LEMMA OrderGrows ==
  ASSUME Loaded, Measured, Ordered, UNCHANGED query,
         NEW u \in QV \ Visited, order # <<>> => u \in Extendable,
         order' = Append(order, u),
         variant = "gsi" =>
           visits' = [w \in QV |-> IF w \in nbrs[u] THEN visits[w] + 1 ELSE visits[w]],
         variant # "gsi" => visits' = visits
  PROVE  Ordered'
<1> DEFINE n == Len(order)
<1>1. /\ order \in Seq(QV) /\ IsInjective(order) /\ visits \in [QV -> Nat]
      /\ \A d \in 2..n : Backward(order, d) # {}
      /\ variant = "gsi" => \A w \in QV : visits[w] = Cardinality(BackwardNbrs(w))
  BY DEF Ordered
<1>2. nbrs' = nbrs /\ QV' = QV /\ variant' = variant
  BY DEF query, QV
<1>3. Longer(order', order, u, QV)
  BY <1>1, AppendLonger
<1>4. /\ order' \in Seq(QV) /\ Len(order') = n + 1 /\ order'[n + 1] = u
      /\ \A i \in 1..n : order'[i] = order[i]
      /\ Visited' = Visited \cup {u} /\ IsInjective(order')
  BY <1>1, <1>3 DEF Longer, Visited
<1>5. n \in Nat /\ DOMAIN order = 1..n
  BY <1>1, LenProperties
<1> HIDE DEF n
<1>6. ASSUME NEW d \in 2..n + 1 PROVE Backward(order, d)' # {}
  <2>1. Backward(order, d)' = {k \in 1..d - 1 : order'[k] \in nbrs[order'[d]]}
    BY <1>2 DEF Backward
  <2>2. CASE d \in 2..n
    <3>1. PICK k \in 1..d - 1 : order[k] \in nbrs[order[d]]
      BY <1>1, <2>2 DEF Backward
    <3>2. k \in 1..n /\ d \in 1..n
      BY <1>5, <2>2
    <3> QED
      BY <1>4, <2>1, <3>1, <3>2
  <2>3. CASE d = n + 1
    <3>1. n # 0
      BY <1>5, <2>3
    <3>2. u \in Extendable
      BY <1>1, <3>1, EmptySeq DEF n
    <3>3. PICK b \in Visited : b \in nbrs[u]
      BY <3>2 DEF Extendable, BackwardNbrs
    <3>4. PICK k \in 1..n : order[k] = b
      BY <1>5, <3>3 DEF Visited, Range
    <3>5. order'[k] \in nbrs[order'[d]] /\ k \in 1..d - 1
      BY <1>4, <1>5, <2>3, <3>3, <3>4
    <3> QED
      BY <2>1, <3>5
  <2> QED
    BY <1>5, <2>2, <2>3
<1>7. visits' \in [QV -> Nat]
  <2>1. CASE variant # "gsi"
    BY <1>1, <2>1
  <2>2. CASE variant = "gsi"
    <3>1. \A w \in QV : visits[w] \in Nat /\ visits[w] + 1 \in Nat
      BY <1>1
    <3> QED
      BY <2>2, <3>1
  <2> QED
    BY <2>1, <2>2
<1>8. ASSUME variant = "gsi", NEW w \in QV
      PROVE  visits'[w] = Cardinality(BackwardNbrs(w)')
  <2>1. BackwardNbrs(w)' = nbrs[w] \cap (Visited \cup {u})
    BY <1>2, <1>4 DEF BackwardNbrs
  <2>2. w \in nbrs[u] <=> u \in nbrs[w]
    BY DEF Loaded, Connected
  <2>3. IsFiniteSet(BackwardNbrs(w)) /\ u \notin BackwardNbrs(w)
    BY OrderedFacts DEF BackwardNbrs
  <2>4. visits[w] = Cardinality(BackwardNbrs(w))
    BY <1>1, <1>8
  <2>5. CASE u \in nbrs[w]
    <3>1. BackwardNbrs(w)' = BackwardNbrs(w) \cup {u}
      BY <2>1, <2>5 DEF BackwardNbrs
    <3>2. visits'[w] = visits[w] + 1
      BY <1>8, <2>2, <2>5
    <3>3. Cardinality(BackwardNbrs(w) \cup {u}) = Cardinality(BackwardNbrs(w)) + 1
      BY <2>3, FS_AddElement
    <3> QED
      BY <2>4, <3>1, <3>2, <3>3
  <2>6. CASE u \notin nbrs[w]
    <3>1. BackwardNbrs(w)' = BackwardNbrs(w)
      BY <2>1, <2>6 DEF BackwardNbrs
    <3>2. visits'[w] = visits[w]
      BY <1>8, <2>2, <2>6
    <3> QED
      BY <2>4, <3>1, <3>2
  <2> QED
    BY <2>5, <2>6
<1>9. \A d \in 2..Len(order') : Backward(order, d)' # {}
  BY <1>4, <1>6
<1> QED
  BY <1>2, <1>4, <1>7, <1>8, <1>9 DEF Ordered

(* The two ends of a query edge are such an order. *)
LEMMA OrderStarts ==
  ASSUME Loaded, Measured, Ordered, UNCHANGED <<query, visits>>, variant # "gsi",
         NEW e \in QEdges, order' = qe_list[e]
  PROVE  Ordered'
<1>1. qe_list[e] \in QV \X QV /\ qe_list[e][2] \in nbrs[qe_list[e][1]]
  BY ElementOfSeq, LenProperties DEF Loaded, Edges, QEdges
<1>2. PICK a, b \in QV : qe_list[e] = <<a, b>>
  BY <1>1, PairIs
<1>3. a # b /\ a \in nbrs[b]
  <2>1. b \in nbrs[a]
    BY <1>1, <1>2
  <2> QED
    BY <2>1 DEF Loaded, Connected
<1>4. /\ order' \in Seq(QV) /\ Len(order') = 2 /\ IsInjective(order')
      /\ order'[1] = a /\ order'[2] = b
  BY <1>2, <1>3 DEF IsInjective
<1>5. nbrs' = nbrs /\ QV' = QV /\ variant' = variant
  BY DEF query, QV
<1>6. \A d \in 2..2 : Backward(order, d)' # {}
  <2>1. Backward(order, 2)' = {k \in 1..1 : order'[k] \in nbrs[order'[2]]}
    BY <1>5 DEF Backward
  <2>2. 1 \in Backward(order, 2)'
    BY <1>3, <1>4, <2>1
  <2>3. \A d \in 2..2 : d = 2
    OBVIOUS
  <2> QED
    BY <2>2, <2>3
<1> QED
  BY <1>4, <1>5, <1>6 DEF Ordered

-----------------------------------------------------------------------------
(* The search for paths finds nothing else. *)
LEMMA HitsArePaths ==
  ASSUME Loaded, NEW s \in QV, NEW e \in QEdges, NEW p \in Hits(s, e)
  PROVE  PathTo(p, s, e)
<1> DEFINE ends == {qe_list[e][1], qe_list[e][2]}
           Walk(q, k) == /\ q \in Seq(QV) /\ IsInjective(q) /\ Len(q) = k /\ q[1] = s
                         /\ \A i \in 2..k : q[i] \in nbrs[q[i - 1]]
                         /\ \A i \in 2..k - 1 : q[i] \notin ends
<1>1. PICK h : PathValues(h, s, e)
  BY PathFold
<1>2. /\ h[1] = {<<s>>}
      /\ \A k \in 2..N : \A r \in h[k] : \E q \in h[k - 1] :
           /\ k = 2 \/ Last(q) \notin ends
           /\ \E x \in nbrs[Last(q)] \ Range(q) : r = Append(q, x)
      /\ Hits(s, e) = {q \in UNION {h[k] : k \in 2..N} : Last(q) \in ends}
  BY <1>1 DEF PathValues
<1> HIDE DEF ends
<1>3. N \in Nat /\ nbrs \in [QV -> SUBSET QV]
  BY FS_CardinalityType DEF Loaded, Connected, N
<1> DEFINE S == {k \in 0..N : k # 0 => \A q \in h[k] : Walk(q, k)}
<1>4. Walk(<<s>>, 1)
  BY DEF IsInjective
<1>5. ASSUME NEW k \in 2..N, NEW q \in h[k - 1], Walk(q, k - 1), k = 2 \/ Last(q) \notin ends,
             NEW x \in nbrs[Last(q)] \ Range(q)
      PROVE  Walk(Append(q, x), k)
  <2> DEFINE r == Append(q, x)
  <2>1. /\ q \in Seq(QV) /\ IsInjective(q) /\ Len(q) = k - 1 /\ q[1] = s
        /\ \A i \in 2..k - 1 : q[i] \in nbrs[q[i - 1]]
        /\ \A i \in 2..(k - 1) - 1 : q[i] \notin ends
    BY <1>5
  <2>2. Last(q) = q[k - 1]
    BY <2>1 DEF Last
  <2>3. x \in QV
    <3>1. k - 1 \in 1..Len(q)
      BY <1>3, <2>1
    <3>2. q[k - 1] \in QV
      BY <2>1, <3>1, ElementOfSeq
    <3> QED
      BY <1>3, <2>2, <3>2
  <2>4. Longer(r, q, x, QV)
    BY <2>1, <2>3, AppendLonger
  <2> HIDE DEF r
  <2>5. /\ r \in Seq(QV) /\ Len(r) = k /\ r[k] = x /\ IsInjective(r)
        /\ \A i \in 1..k - 1 : r[i] = q[i]
    BY <1>3, <2>1, <2>4 DEF Longer
  <2>6. ASSUME NEW i \in 2..k PROVE r[i] \in nbrs[r[i - 1]]
    <3>1. i - 1 \in 1..k - 1 /\ (i = k \/ i \in 2..k - 1) /\ (i # k => i \in 1..k - 1)
      BY <1>3
    <3>2. CASE i = k
      BY <2>2, <2>5, <3>1, <3>2
    <3>3. CASE i \in 2..k - 1
      BY <2>1, <2>5, <3>1, <3>3
    <3> QED
      BY <3>1, <3>2, <3>3
  <2>7. ASSUME NEW i \in 2..k - 1 PROVE r[i] \notin ends
    <3>1. i \in 1..k - 1 /\ (i = k - 1 \/ i \in 2..(k - 1) - 1) /\ k # 2
      BY <1>3
    <3>2. CASE i = k - 1
      BY <1>5, <2>2, <2>5, <3>1, <3>2
    <3>3. CASE i \in 2..(k - 1) - 1
      BY <2>1, <2>5, <3>1, <3>3
    <3> QED
      BY <3>1, <3>2, <3>3
  <2>8. r[1] = s
    <3>1. 1 \in 1..k - 1
      BY <1>3
    <3> QED
      BY <2>1, <2>5, <3>1
  <2> QED
    BY <2>5, <2>6, <2>7, <2>8 DEF r
<1> HIDE DEF Walk
<1>6. 0 \in S
  BY <1>3
<1>7. ASSUME NEW k \in 1..N, k - 1 \in S PROVE k \in S
  <2>1. CASE k = 1
    <3>1. \A q \in h[k] : q = <<s>>
      BY <1>2, <2>1
    <3>2. \A q \in h[k] : Walk(q, k)
      BY <1>4, <2>1, <3>1
    <3> QED
      BY <3>2
  <2>2. CASE k # 1
    <3>1. k \in 2..N /\ k - 1 # 0
      BY <1>3, <2>2
    <3>2. ASSUME NEW r \in h[k] PROVE Walk(r, k)
      <4>1. PICK q \in h[k - 1] :
              /\ k = 2 \/ Last(q) \notin ends
              /\ \E x \in nbrs[Last(q)] \ Range(q) : r = Append(q, x)
        BY <1>2, <3>1
      <4>2. Walk(q, k - 1)
        BY <1>7, <3>1
      <4> QED
        BY <1>5, <3>1, <4>1, <4>2
    <3> QED
      BY <3>2
  <2> QED
    BY <2>1, <2>2
<1>8. \A k \in 0..N : k \in S
  <2> HIDE DEF S
  <2> QED
    BY <1>3, <1>6, <1>7, CountUp
<1>9. PICK k \in 2..N : p \in h[k] /\ Last(p) \in ends
  BY <1>2
<1>10. Walk(p, k)
  <2>1. k \in 0..N /\ k # 0
    BY <1>3
  <2> QED
    BY <1>8, <1>9, <2>1
<1>11. p[Len(p)] \in ends /\ Len(p) >= 2
  BY <1>3, <1>9, <1>10 DEF Last, Walk
<1> QED
  BY <1>10, <1>11 DEF PathTo, Walk, ends

-----------------------------------------------------------------------------
(* Simple paths, their parts and what they are joined to. *)
Simple(p) ==
  /\ p \in Seq(QV) /\ IsInjective(p) /\ Len(p) >= 1
  /\ \A i \in 2..Len(p) : p[i] \in nbrs[p[i - 1]]

Section(p, a, b) == [i \in 1..b - a + 1 |-> p[a + i - 1]]

Backwards(p) == [i \in 1..Len(p) |-> p[Len(p) + 1 - i]]

(* q has the vertices of p from position a to b; from the last to the first. *)
SectionOf(q, p, a, b) ==
  /\ Simple(q) /\ Len(q) = b - a + 1 /\ q[1] = p[a] /\ q[b - a + 1] = p[b]
  /\ Range(q) = {p[i] : i \in a..b}

Reversed(q, p) ==
  /\ Simple(q) /\ Len(q) = Len(p) /\ q[1] = p[Len(p)] /\ q[Len(p)] = p[1]
  /\ Range(q) = Range(p)

LEMMA SectionIs ==
  ASSUME NEW p, Simple(p), NEW a \in 1..Len(p), NEW b \in a..Len(p)
  PROVE  \E q : SectionOf(q, p, a, b)
<1> DEFINE q == Section(p, a, b)
           n == b - a + 1
<1>1. Len(p) \in Nat /\ DOMAIN p = 1..Len(p) /\ \A i \in 1..Len(p) : p[i] \in QV
  BY LenProperties, ElementOfSeq DEF Simple
<1>2. n \in Nat /\ n >= 1 /\ \A i \in 1..n : a + i - 1 \in a..b /\ a + i - 1 \in 1..Len(p)
  BY <1>1
<1>3. q = [i \in 1..n |-> p[a + i - 1]]
  BY DEF Section
<1>4. q \in Seq(QV) /\ Len(q) = n /\ DOMAIN q = 1..n /\ \A i \in 1..n : q[i] = p[a + i - 1]
  <2>1. q \in [1..n -> QV]
    BY <1>1, <1>2, <1>3
  <2>2. q \in Seq(QV)
    BY <1>2, <2>1, SeqDef
  <2> HIDE DEF n
  <2>3. Len(q) = n
    BY <1>2, <2>1, <2>2, LenProperties
  <2> QED
    BY <1>3, <2>2, <2>3
<1> HIDE DEF q, n
<1>5. IsInjective(q)
  <2> SUFFICES ASSUME NEW i \in 1..n, NEW j \in 1..n, q[i] = q[j] PROVE i = j
    BY <1>4 DEF IsInjective
  <2>1. a + i - 1 = a + j - 1
    BY <1>1, <1>2, <1>4 DEF Simple, IsInjective
  <2> QED
    BY <2>1
<1>6. ASSUME NEW i \in 2..n PROVE q[i] \in nbrs[q[i - 1]]
  <2>1. i \in 1..n /\ i - 1 \in 1..n /\ a + i - 1 \in 2..Len(p) /\ a + (i - 1) - 1 = (a + i - 1) - 1
    BY <1>1, <1>2 DEF n
  <2> QED
    BY <1>4, <2>1 DEF Simple
<1>7. q[1] = p[a] /\ q[n] = p[b]
  <2>1. 1 \in 1..n /\ n \in 1..n /\ a + 1 - 1 = a /\ a + n - 1 = b
    BY <1>1, <1>2 DEF n
  <2> QED
    BY <1>4, <2>1
<1>8. Range(q) = {p[i] : i \in a..b}
  <2>1. ASSUME NEW i \in a..b PROVE p[i] \in Range(q)
    <3>1. i - a + 1 \in 1..n /\ a + (i - a + 1) - 1 = i
      BY <1>1 DEF n
    <3> QED
      BY <1>4, <3>1 DEF Range
  <2>2. Range(q) = {q[i] : i \in 1..n}
    BY <1>4 DEF Range
  <2>3. ASSUME NEW i \in 1..n PROVE q[i] \in {p[k] : k \in a..b}
    <3>1. a + i - 1 \in a..b /\ q[i] = p[a + i - 1]
      BY <1>2, <1>4
    <3> QED
      BY <3>1
  <2> DEFINE T == {p[k] : k \in a..b}
             R == Range(q)
  <2>4. R \subseteq T
    BY <2>2, <2>3
  <2>5. T \subseteq R
    BY <2>1
  <2> HIDE DEF T, R
  <2>6. R = T
    BY <2>4, <2>5
  <2> QED
    BY <2>6 DEF R, T
<1> QED
  BY <1>2, <1>4, <1>5, <1>6, <1>7, <1>8 DEF SectionOf, Simple, n

(* The neighbour of a vertex has it as a neighbour. *)
LEMMA Mutual ==
  ASSUME Loaded, NEW p, Simple(p), NEW i \in 2..Len(p)
  PROVE  p[i - 1] \in nbrs[p[i]]
<1>1. Len(p) \in Nat /\ \A j \in 1..Len(p) : p[j] \in QV
  BY LenProperties, ElementOfSeq DEF Simple
<1>2. i \in 1..Len(p) /\ i - 1 \in 1..Len(p)
  BY <1>1
<1>3. p[i] \in QV /\ p[i - 1] \in QV /\ p[i] \in nbrs[p[i - 1]]
  BY <1>1, <1>2 DEF Simple
<1> QED
  BY <1>3 DEF Loaded, Connected

LEMMA BackwardsIs ==
  ASSUME Loaded, NEW p, Simple(p)
  PROVE  \E q : Reversed(q, p)
<1> DEFINE q == Backwards(p)
           n == Len(p)
<1>1. n \in Nat /\ n >= 1 /\ DOMAIN p = 1..n /\ \A i \in 1..n : p[i] \in QV
  BY LenProperties, ElementOfSeq DEF Simple
<1>2. q = [i \in 1..n |-> p[n + 1 - i]]
  BY DEF Backwards
<1> HIDE DEF n
<1>3. \A i \in 1..n : n + 1 - i \in 1..n /\ n + 1 - (n + 1 - i) = i
  BY <1>1
<1>4. q \in Seq(QV) /\ Len(q) = n /\ DOMAIN q = 1..n /\ \A i \in 1..n : q[i] = p[n + 1 - i]
  <2>1. q \in [1..n -> QV]
    BY <1>1, <1>2, <1>3
  <2>2. q \in Seq(QV)
    BY <1>1, <2>1, SeqDef
  <2>3. Len(q) = n
    BY <1>1, <2>1, <2>2, LenProperties
  <2> QED
    BY <1>2, <2>2, <2>3
<1> HIDE DEF q
<1>5. IsInjective(q)
  <2> SUFFICES ASSUME NEW i \in 1..n, NEW j \in 1..n, q[i] = q[j] PROVE i = j
    BY <1>4 DEF IsInjective
  <2>1. \A k, l \in 1..n : p[k] = p[l] => k = l
    BY <1>1 DEF Simple, IsInjective
  <2>2. p[n + 1 - i] = p[n + 1 - j] /\ n + 1 - i \in 1..n /\ n + 1 - j \in 1..n
    BY <1>3, <1>4
  <2>3. n + 1 - i = n + 1 - j
    BY <2>1, <2>2
  <2> QED
    BY <1>1, <2>3
<1>6. ASSUME NEW i \in 2..n PROVE q[i] \in nbrs[q[i - 1]]
  <2>1. /\ i \in 1..n /\ i - 1 \in 1..n
        /\ n + 1 - (i - 1) \in 2..n /\ (n + 1 - (i - 1)) - 1 = n + 1 - i
    BY <1>1
  <2>2. p[n + 1 - (i - 1)] \in nbrs[p[n + 1 - i]]
    <3>1. \A k \in 2..n : p[k] \in nbrs[p[k - 1]]
      BY DEF Simple, n
    <3> QED
      BY <2>1, <3>1
  <2>3. p[n + 1 - (i - 1)] \in QV /\ p[n + 1 - i] \in QV
    BY <1>1, <1>3, <2>1
  <2>4. p[n + 1 - i] \in nbrs[p[n + 1 - (i - 1)]]
    BY <2>2, <2>3 DEF Loaded, Connected
  <2> QED
    BY <1>4, <2>1, <2>4
<1>7. q[1] = p[n] /\ q[n] = p[1]
  <2>1. 1 \in 1..n /\ n \in 1..n /\ n + 1 - 1 = n /\ n + 1 - n = 1
    BY <1>1
  <2> QED
    BY <1>4, <2>1
<1>8. Range(q) = Range(p)
  BY <1>1, <1>3, <1>4 DEF Range
<1> QED
  BY <1>1, <1>4, <1>5, <1>6, <1>7, <1>8 DEF Reversed, Simple, n

(* Paths that share no vertex, the second from a neighbour of the last of  *)
(* the first.                                                              *)
Joins(p, q) ==
  Simple(p) /\ Simple(q) /\ Range(p) \cap Range(q) = {} /\ q[1] \in nbrs[p[Len(p)]]

LEMMA Glued ==
  ASSUME NEW p, NEW q, Joins(p, q)
  PROVE  \E r : Simple(r) /\ Follow(r, p, q, QV)
<1> DEFINE r == p \o q
           m == Len(p)
           n == Len(q)
<1>1. /\ p \in Seq(QV) /\ m >= 1
      /\ \A i \in 2..m : p[i] \in nbrs[p[i - 1]]
  BY DEF Joins, Simple
<1>2. /\ q \in Seq(QV) /\ n >= 1
      /\ \A i \in 2..n : q[i] \in nbrs[q[i - 1]]
  BY DEF Joins, Simple
<1>3. m \in Nat /\ n \in Nat /\ DOMAIN p = 1..m /\ DOMAIN q = 1..n
  BY <1>1, <1>2, LenProperties
<1>4. Follow(r, p, q, QV)
  BY <1>1, <1>2, JoinFacts
<1> HIDE DEF r
<1>5. /\ r \in Seq(QV) /\ Len(r) = m + n /\ DOMAIN r = 1..m + n
      /\ \A i \in 1..m : r[i] = p[i]
      /\ \A i \in 1..n : r[m + i] = q[i]
  BY <1>4 DEF Follow
<1>6. \A i, j \in 1..m : p[i] = p[j] => i = j
  BY <1>3 DEF Joins, Simple, IsInjective
<1>7. \A i, j \in 1..n : q[i] = q[j] => i = j
  BY <1>3 DEF Joins, Simple, IsInjective
<1>8. \A i \in 1..m : \A j \in 1..n : p[i] # q[j]
  BY <1>3 DEF Joins, Range
<1>9. q[1] \in nbrs[p[m]]
  BY DEF Joins
<1> HIDE DEF m, n
<1>10. \A i \in 1..m + n : i \in 1..m \/ (i - m \in 1..n /\ m + (i - m) = i)
  BY <1>3
<1>11. \A i \in 1..m : r[i] = p[i]
  BY <1>5
<1>12. ASSUME NEW i \in 1..m + n, i - m \in 1..n PROVE r[i] = q[i - m]
  <2>1. m + (i - m) = i
    BY <1>3
  <2> QED
    BY <1>5, <1>12, <2>1
<1>13. IsInjective(r)
  <2> SUFFICES ASSUME NEW i \in 1..m + n, NEW j \in 1..m + n, r[i] = r[j] PROVE i = j
    BY <1>5 DEF IsInjective
  <2>1. CASE i \in 1..m /\ j \in 1..m
    BY <1>6, <1>11, <2>1
  <2>2. CASE i - m \in 1..n /\ j - m \in 1..n
    <3>1. i - m = j - m
      BY <1>7, <1>12, <2>2
    <3> QED
      BY <1>3, <3>1
  <2>3. CASE i \in 1..m /\ j - m \in 1..n
    BY <1>8, <1>11, <1>12, <2>3
  <2>4. CASE j \in 1..m /\ i - m \in 1..n
    BY <1>8, <1>11, <1>12, <2>4
  <2> QED
    BY <1>10, <2>1, <2>2, <2>3, <2>4
<1>14. ASSUME NEW i \in 2..m + n PROVE r[i] \in nbrs[r[i - 1]]
  <2>1. CASE i \in 2..m
    <3>1. i \in 1..m /\ i - 1 \in 1..m
      BY <1>3, <2>1
    <3> QED
      BY <1>1, <1>11, <2>1, <3>1 DEF m
  <2>2. CASE i = m + 1
    <3>1. m \in 1..m /\ 1 \in 1..n /\ i - 1 = m
      BY <1>1, <1>2, <1>3, <2>2 DEF m, n
    <3>2. r[i] = q[1] /\ r[i - 1] = p[m]
      BY <1>5, <2>2, <3>1
    <3> QED
      BY <1>9, <3>2
  <2>3. CASE i - m \in 2..n
    <3>1. /\ i - m \in 1..n /\ (i - 1) - m \in 1..n /\ (i - 1) - m = (i - m) - 1
          /\ i \in 1..m + n /\ i - 1 \in 1..m + n
      BY <1>3, <2>3
    <3>2. r[i] = q[i - m] /\ r[i - 1] = q[(i - m) - 1]
      BY <1>12, <3>1
    <3> QED
      BY <1>2, <2>3, <3>2 DEF n
  <2>4. i \in 2..m \/ i = m + 1 \/ i - m \in 2..n
    BY <1>3
  <2> QED
    BY <2>1, <2>2, <2>3, <2>4
<1>15. m + n >= 1
  BY <1>1, <1>2, <1>3 DEF m, n
<1> QED
  BY <1>4, <1>5, <1>13, <1>14, <1>15 DEF Simple

(* A path to query edge e that has not met it; such a path goes on past    *)
(* vertices that are no ends of e, and is closed by one that is.           *)
Ends(e) == {qe_list[e][1], qe_list[e][2]}

Open(p, s, e) == Simple(p) /\ p[1] = s /\ \A x \in Range(p) : x \in Ends(e) => x = s

Closing(q, e) == q[Len(q)] \in Ends(e) /\ \A x \in Range(q) : x \in Ends(e) => x = q[Len(q)]

LEMMA Extended ==
  ASSUME NEW p, NEW s, NEW e, Open(p, s, e), NEW q, Joins(p, q),
         \A x \in Range(q) : x \notin Ends(e)
  PROVE  \E r : Open(r, s, e) /\ Follow(r, p, q, QV)
<1>1. PICK r : Simple(r) /\ Follow(r, p, q, QV)
  BY Glued
<1>2. Range(r) = Range(p) \cup Range(q)
  BY <1>1 DEF Follow
<1>3. r[1] = s
  <2>1. 1 \in 1..Len(p)
    BY LenProperties DEF Open, Simple
  <2> QED
    BY <1>1, <2>1 DEF Follow, Open
<1> QED
  BY <1>1, <1>2, <1>3 DEF Open

LEMMA Closed ==
  ASSUME NEW p, NEW s, NEW e, Open(p, s, e), NEW q, Joins(p, q),
         Closing(q, e)
  PROVE  \E r : PathTo(r, s, e) /\ Follow(r, p, q, QV)
<1>1. PICK r : Simple(r) /\ Follow(r, p, q, QV)
  BY Glued
<1> DEFINE n == Len(p) + Len(q)
<1>2. /\ Len(r) = n /\ DOMAIN r = 1..n /\ Range(r) = Range(p) \cup Range(q)
      /\ \A i \in 1..Len(p) : r[i] = p[i]
      /\ \A i \in 1..Len(q) : r[Len(p) + i] = q[i]
  BY <1>1 DEF Follow
<1>3. /\ Len(p) \in Nat /\ Len(q) \in Nat /\ Len(p) >= 1 /\ Len(q) >= 1
  BY LenProperties DEF Joins, Simple
<1>4. 1 \in 1..Len(p) /\ Len(q) \in 1..Len(q) /\ n \in Nat /\ n >= 2
  BY <1>3
<1>5. r[1] = s /\ r[n] = q[Len(q)]
  BY <1>2, <1>4 DEF Open
<1>6. \A x \in Range(r) : x \in Ends(e) => x = r[1] \/ x = r[n]
  BY <1>2, <1>5 DEF Open, Closing
<1> HIDE DEF n
<1>7. \A i, j \in 1..n : r[i] = r[j] => i = j
  BY <1>1, <1>2 DEF Simple, IsInjective
<1>8. ASSUME NEW i \in 2..n - 1, r[i] \in Ends(e) PROVE FALSE
  <2>1. i \in 1..n /\ 1 \in 1..n /\ n \in 1..n /\ i # 1 /\ i # n
    BY <1>4
  <2>2. r[i] \in Range(r)
    BY <1>2, <2>1 DEF Range
  <2>3. r[i] = r[1] \/ r[i] = r[n]
    BY <1>6, <1>8, <2>2
  <2> QED
    BY <1>7, <2>1, <2>3
<1>9. PathTo(r, s, e)
  BY <1>1, <1>2, <1>4, <1>5, <1>8 DEF PathTo, Simple, Ends, Closing
<1> QED
  BY <1>1, <1>9

-----------------------------------------------------------------------------
(* Vertices that follow one another on a path, either way. *)
HasEdge(r, x, y) == \E i \in 1..Len(r) - 1 : {r[i], r[i + 1]} = {x, y}

LEMMA FollowEdges ==
  ASSUME NEW r, NEW p, NEW q, Joins(p, q), Follow(r, p, q, QV)
  PROVE  /\ HasEdge(r, p[Len(p)], q[1]) /\ r[Len(r)] = q[Len(q)]
         /\ \A x, y : HasEdge(p, x, y) => HasEdge(r, x, y)
<1> DEFINE m == Len(p)
           n == Len(q)
<1>1. m \in Nat /\ n \in Nat /\ m >= 1 /\ n >= 1
  BY LenProperties DEF Joins, Simple
<1>2. /\ Len(r) = m + n
      /\ \A i \in 1..m : r[i] = p[i]
      /\ \A i \in 1..n : r[m + i] = q[i]
  BY DEF Follow
<1> HIDE DEF m, n
<1>3. m \in 1..m /\ 1 \in 1..n /\ n \in 1..n /\ m \in 1..(m + n) - 1
  BY <1>1
<1>4. r[m] = p[m] /\ r[m + 1] = q[1] /\ r[m + n] = q[n]
  BY <1>2, <1>3
<1>5. ASSUME NEW x, NEW y, NEW i \in 1..m - 1, {p[i], p[i + 1]} = {x, y}
      PROVE  HasEdge(r, x, y)
  <2>1. i \in 1..m /\ i + 1 \in 1..m /\ i \in 1..(m + n) - 1
    BY <1>1
  <2>2. {r[i], r[i + 1]} = {x, y}
    BY <1>2, <1>5, <2>1
  <2> QED
    BY <1>2, <2>1, <2>2 DEF HasEdge
<1>6. HasEdge(r, p[m], q[1])
  BY <1>2, <1>3, <1>4 DEF HasEdge
<1>7. \A x, y : HasEdge(p, x, y) => HasEdge(r, x, y)
  BY <1>5 DEF HasEdge, m
<1> QED
  BY <1>2, <1>4, <1>6, <1>7 DEF m, n

LEMMA PathFacts ==
  ASSUME NEW p, NEW s, NEW e, PathTo(p, s, e)
  PROVE  /\ Simple(p) /\ Len(p) \in Nat /\ Len(p) >= 2 /\ DOMAIN p = 1..Len(p) /\ p[1] = s
         /\ p[Len(p)] \in Ends(e)
         /\ \A i \in 2..Len(p) - 1 : p[i] \notin Ends(e)
         /\ \A i, j \in 1..Len(p) : p[i] = p[j] => i = j
         /\ \A i \in 2..Len(p) : p[i] \in nbrs[p[i - 1]]
<1>1. Len(p) \in Nat /\ DOMAIN p = 1..Len(p) /\ Len(p) >= 2 /\ IsInjective(p)
  BY LenProperties DEF PathTo
<1>2. Len(p) >= 1
  BY <1>1
<1>3. \A i, j \in 1..Len(p) : p[i] = p[j] => i = j
  BY <1>1 DEF IsInjective
<1> QED
  BY <1>1, <1>2, <1>3 DEF PathTo, Simple, Ends

(* The beginning of a path to e, what is between, and what ends it. *)
LEMMA HeadOf ==
  ASSUME NEW p, NEW s, NEW e, PathTo(p, s, e), NEW b \in 1..Len(p) - 1
  PROVE  \E a : SectionOf(a, p, 1, b) /\ Open(a, s, e)
<1>1. /\ Simple(p) /\ Len(p) \in Nat /\ p[1] = s
      /\ \A i \in 2..Len(p) - 1 : p[i] \notin Ends(e)
  BY PathFacts
<1>2. 1 \in 1..Len(p) /\ b \in 1..Len(p)
  BY <1>1
<1>3. PICK a : SectionOf(a, p, 1, b)
  BY <1>1, <1>2, SectionIs
<1>4. ASSUME NEW i \in 1..b, p[i] \in Ends(e) PROVE p[i] = s
  <2>1. i = 1 \/ i \in 2..Len(p) - 1
    BY <1>1
  <2> QED
    BY <1>1, <1>4, <2>1
<1>5. Simple(a) /\ a[1] = p[1] /\ Range(a) = {p[i] : i \in 1..b}
  BY <1>3 DEF SectionOf
<1>6. \A x \in Range(a) : x \in Ends(e) => x = s
  BY <1>4, <1>5
<1> QED
  BY <1>1, <1>3, <1>5, <1>6 DEF Open

LEMMA TailOf ==
  ASSUME NEW p, NEW s, NEW e, PathTo(p, s, e), NEW b \in 1..Len(p),
         b = 1 => p[1] \notin Ends(e)
  PROVE  \E c : SectionOf(c, p, b, Len(p)) /\ Closing(c, e)
<1>1. /\ Simple(p) /\ Len(p) \in Nat /\ p[Len(p)] \in Ends(e)
      /\ \A i \in 2..Len(p) - 1 : p[i] \notin Ends(e)
  BY PathFacts
<1>2. Len(p) \in b..Len(p)
  BY <1>1
<1>3. PICK c : SectionOf(c, p, b, Len(p))
  BY <1>1, <1>2, SectionIs
<1>4. ASSUME NEW i \in b..Len(p), p[i] \in Ends(e) PROVE p[i] = p[Len(p)]
  <2>1. i = Len(p) \/ i \in 2..Len(p) - 1 \/ (b = 1 /\ i = 1)
    BY <1>1
  <2> QED
    BY <1>1, <1>4, <2>1
<1>5. /\ Len(c) = Len(p) - b + 1 /\ c[Len(p) - b + 1] = p[Len(p)]
      /\ Range(c) = {p[i] : i \in b..Len(p)}
  BY <1>3 DEF SectionOf
<1>6. c[Len(c)] = p[Len(p)]
  BY <1>5
<1>7. \A x \in Range(c) : x \in Ends(e) => x = p[Len(p)]
  BY <1>4, <1>5
<1>8. Closing(c, e)
  BY <1>1, <1>6, <1>7 DEF Closing
<1> QED
  BY <1>3, <1>8

(* Two paths to query edge e, p from s and w from a vertex that p passes   *)
(* at t, which is no end of e.                                             *)
PathsCross(p, w, t, s, e) ==
  /\ PathTo(p, s, e) /\ t \in 1..Len(p) - 1
  /\ PathTo(w, p[t], e) /\ p[t] \notin Ends(e)

(* There is a path from s with the first edge of w. *)
Detour(w, s, e) == \E r : PathTo(r, s, e) /\ HasEdge(r, w[1], w[2])

LEMMA CrossFacts ==
  ASSUME NEW p, NEW w, NEW t, NEW s, NEW e, PathsCross(p, w, t, s, e)
  PROVE  /\ Len(w) \in Nat /\ Len(w) >= 2 /\ Simple(w) /\ w[1] = p[t] /\ w[2] \in nbrs[w[1]]
         /\ Len(p) \in Nat /\ t \in 1..Len(p) - 1
<1>1. PathTo(w, p[t], e) /\ PathTo(p, s, e)
  BY DEF PathsCross
<1>2. Len(w) \in Nat /\ Len(w) >= 2 /\ \A i \in 2..Len(w) : w[i] \in nbrs[w[i - 1]]
  BY <1>1, PathFacts
<1>3. 2 \in 2..Len(w) /\ 2 - 1 = 1
  BY <1>2
<1> QED
  BY <1>1, <1>2, <1>3, PathFacts DEF PathsCross

(* The part of w from its second vertex to k. *)
LEMMA MiddleOf ==
  ASSUME NEW p, NEW w, NEW t, NEW s, NEW e, PathsCross(p, w, t, s, e), NEW k \in 2..Len(w)
  PROVE  \E b : /\ SectionOf(b, w, 2, k) /\ b[1] = w[2] /\ b[Len(b)] = w[k]
                /\ w[k] \in Ends(e) => Closing(b, e)
                /\ w[k] \notin Ends(e) => \A x \in Range(b) : x \notin Ends(e)
<1>1. Simple(w) /\ Len(w) \in Nat /\ \A i \in 2..Len(w) - 1 : w[i] \notin Ends(e)
  BY PathFacts DEF PathsCross
<1>2. 2 \in 1..Len(w) /\ k \in 2..Len(w)
  BY <1>1
<1>3. PICK b : SectionOf(b, w, 2, k)
  BY <1>1, <1>2, SectionIs
<1>4. /\ Len(b) = k - 2 + 1 /\ b[1] = w[2] /\ b[k - 2 + 1] = w[k]
      /\ Range(b) = {w[i] : i \in 2..k}
  BY <1>3 DEF SectionOf
<1>5. \A i \in 2..k : i = k \/ i \in 2..Len(w) - 1
  BY <1>1
<1>6. b[Len(b)] = w[k]
  BY <1>4
<1>7. \A x \in Range(b) : x \in Ends(e) => x = w[k]
  BY <1>1, <1>4, <1>5
<1>8. w[k] \in Ends(e) => Closing(b, e)
  BY <1>6, <1>7 DEF Closing
<1> QED
  BY <1>3, <1>4, <1>6, <1>7, <1>8

(* w is left at k, where it meets an end of e, and not p before t. *)
LEMMA DetourToEnd ==
  ASSUME NEW s, NEW e, NEW p, NEW w, NEW t, PathsCross(p, w, t, s, e),
         NEW k \in 2..Len(w), w[k] \in Ends(e),
         \A i \in 2..k : \A j \in 1..t : w[i] # p[j]
  PROVE  Detour(w, s, e)
<1>1. PICK a : SectionOf(a, p, 1, t) /\ Open(a, s, e)
  BY HeadOf DEF PathsCross
<1>2. PICK b : SectionOf(b, w, 2, k) /\ b[1] = w[2] /\ Closing(b, e)
  BY MiddleOf
<1>3. Simple(a) /\ Simple(b) /\ Range(a) = {p[j] : j \in 1..t} /\ Range(b) = {w[i] : i \in 2..k}
  BY <1>1, <1>2 DEF SectionOf
<1>4. a[Len(a)] = w[1]
  BY <1>1, CrossFacts DEF SectionOf
<1>5. Joins(a, b)
  BY <1>2, <1>3, <1>4, CrossFacts DEF Joins
<1>6. PICK r : PathTo(r, s, e) /\ Follow(r, a, b, QV)
  BY <1>1, <1>2, <1>5, Closed
<1>7. HasEdge(r, w[1], w[2])
  BY <1>2, <1>4, <1>5, <1>6, FollowEdges
<1> QED
  BY <1>6, <1>7 DEF Detour

(* w meets p after t and before the end, and is left there. *)
LEMMA DetourAhead ==
  ASSUME NEW s, NEW e, NEW p, NEW w, NEW t, PathsCross(p, w, t, s, e),
         NEW k \in 2..Len(w), NEW n \in t + 1..Len(p) - 1, w[k] = p[n],
         \A i \in 2..k - 1 : \A j \in 1..Len(p) : w[i] # p[j]
  PROVE  Detour(w, s, e)
<1> DEFINE m == Len(p)
<1>1. /\ m \in Nat /\ t \in 1..m - 1 /\ n \in t + 1..m - 1
      /\ \A i, j \in 1..m : p[i] = p[j] => i = j
      /\ \A i \in 2..m : p[i] \in nbrs[p[i - 1]]
      /\ \A i \in 2..m - 1 : p[i] \notin Ends(e)
  BY PathFacts DEF PathsCross
<1> HIDE DEF m
<1>2. /\ n + 1 \in 2..m /\ n + 1 \in 1..m /\ n + 1 # 1 /\ n \in 2..m - 1 /\ (n + 1) - 1 = n
      /\ \A i \in 1..t : i \in 1..m /\ i # n
      /\ \A i \in n + 1..m : i \in 1..m /\ i # n /\ i \notin 1..t
      /\ n \in 1..m
  <2>1. t \in Nat /\ t >= 1 /\ n \in Nat /\ n > t /\ n <= m - 1
    BY <1>1
  <2>2. n \in 2..m - 1 /\ n \in 1..m /\ n + 1 \in 2..m /\ n + 1 \in 1..m
    BY <1>1, <2>1
  <2>3. n + 1 # 1 /\ (n + 1) - 1 = n
    BY <2>1
  <2>4. \A i \in 1..t : i \in 1..m /\ i # n
    BY <1>1, <2>1
  <2>5. \A i \in n + 1..m : i \in 1..m /\ i # n /\ i \notin 1..t
    BY <1>1, <2>1
  <2> QED
    BY <2>2, <2>3, <2>4, <2>5
<1>3. PICK a : SectionOf(a, p, 1, t) /\ Open(a, s, e)
  BY HeadOf DEF PathsCross
<1>4. w[k] \notin Ends(e)
  BY <1>1, <1>2
<1>5. PICK b : /\ SectionOf(b, w, 2, k) /\ b[1] = w[2] /\ b[Len(b)] = w[k]
               /\ \A x \in Range(b) : x \notin Ends(e)
  BY <1>4, MiddleOf
<1>6. PICK c : SectionOf(c, p, n + 1, m) /\ Closing(c, e)
  BY <1>2, TailOf DEF PathsCross, m
<1>7. /\ Simple(a) /\ Simple(b) /\ Simple(c) /\ c[1] = p[n + 1]
      /\ Range(a) = {p[j] : j \in 1..t} /\ Range(b) = {w[i] : i \in 2..k}
      /\ Range(c) = {p[j] : j \in n + 1..m}
  BY <1>3, <1>5, <1>6 DEF SectionOf
<1>8. a[Len(a)] = w[1]
  BY <1>3, CrossFacts DEF SectionOf
<1>9. k \in Nat /\ \A i \in 2..k : i = k \/ i \in 2..k - 1
  BY CrossFacts
<1>10. \A i \in 2..k : \A j \in 1..m : j # n => w[i] # p[j]
  BY <1>1, <1>2, <1>9 DEF m
<1>11. Range(a) \cap Range(b) = {}
  BY <1>2, <1>7, <1>10
<1>12. Joins(a, b)
  BY <1>5, <1>7, <1>8, <1>11, CrossFacts DEF Joins
<1>13. PICK q : Open(q, s, e) /\ Follow(q, a, b, QV)
  BY <1>3, <1>5, <1>12, Extended
<1>14. HasEdge(q, w[1], w[2]) /\ q[Len(q)] = p[n]
  BY <1>5, <1>8, <1>12, <1>13, FollowEdges
<1>15. Range(a) \cap Range(c) = {} /\ Range(b) \cap Range(c) = {}
  <2>1. ASSUME NEW i \in 1..t, NEW j \in n + 1..m PROVE p[i] # p[j]
    <3>1. i \in 1..m /\ j \in 1..m /\ i # j
      BY <1>2
    <3> QED
      BY <1>1, <3>1
  <2>2. \A i \in 2..k : \A j \in n + 1..m : w[i] # p[j]
    BY <1>2, <1>10
  <2> QED
    BY <1>7, <2>1, <2>2
<1>16. Joins(q, c)
  <2>1. Range(q) \cap Range(c) = {} /\ Simple(q)
    BY <1>13, <1>15 DEF Follow, Open
  <2>2. p[n + 1] \in nbrs[p[n]]
    BY <1>1, <1>2
  <2> QED
    BY <1>7, <1>14, <2>1, <2>2 DEF Joins
<1>17. PICK r : PathTo(r, s, e) /\ Follow(r, q, c, QV)
  BY <1>6, <1>13, <1>16, Closed
<1>18. HasEdge(r, w[1], w[2])
  BY <1>14, <1>16, <1>17, FollowEdges
<1> QED
  BY <1>17, <1>18 DEF Detour

(* w goes straight back to where p was before t. *)
LEMMA DetourBack ==
  ASSUME Loaded, NEW s, NEW e, NEW p, NEW w, NEW t, PathsCross(p, w, t, s, e),
         NEW n \in 1..t - 1, w[2] = p[n]
  PROVE  Detour(w, s, e)
<1> DEFINE m == Len(p)
<1>1. /\ m \in Nat /\ t \in 1..m - 1
      /\ \A i, j \in 1..m : p[i] = p[j] => i = j
  BY PathFacts DEF PathsCross
<1> HIDE DEF m
<1>2. /\ n \in 1..m - 1 /\ t \in 1..m
      /\ \A i \in 1..n : i \in 1..m /\ i \notin t..m
      /\ \A i \in t..m : i \in 1..m
  BY <1>1
<1>3. PICK a : SectionOf(a, p, 1, n) /\ Open(a, s, e)
  BY <1>2, HeadOf DEF PathsCross, m
<1>4. PICK c : SectionOf(c, p, t, m) /\ Closing(c, e)
  BY <1>2, TailOf DEF PathsCross, m
<1>5. /\ Simple(a) /\ Simple(c) /\ c[1] = w[1] /\ a[Len(a)] = w[2]
      /\ Range(a) = {p[j] : j \in 1..n} /\ Range(c) = {p[j] : j \in t..m}
  BY <1>3, <1>4, CrossFacts DEF SectionOf
<1>6. Range(a) \cap Range(c) = {}
  BY <1>1, <1>2, <1>5
<1>7. w[1] \in nbrs[w[2]]
  <2>1. Simple(w) /\ 2 \in 2..Len(w) /\ 2 - 1 = 1
    BY CrossFacts
  <2> QED
    BY <2>1, Mutual
<1>8. Joins(a, c)
  BY <1>5, <1>6, <1>7 DEF Joins
<1>9. PICK r : PathTo(r, s, e) /\ Follow(r, a, c, QV)
  BY <1>3, <1>4, <1>8, Closed
<1>10. HasEdge(r, w[2], w[1])
  BY <1>5, <1>8, <1>9, FollowEdges
<1> QED
  BY <1>9, <1>10 DEF Detour, HasEdge

(* w meets p before t: p up to there, w back to its beginning, p from t. *)
LEMMA DetourAround ==
  ASSUME Loaded, NEW s, NEW e, NEW p, NEW w, NEW t, PathsCross(p, w, t, s, e),
         NEW k \in 3..Len(w), NEW n \in 1..t - 1, w[k] = p[n],
         \A i \in 2..k - 1 : \A j \in 1..Len(p) : w[i] # p[j]
  PROVE  Detour(w, s, e)
<1> DEFINE m == Len(p)
<1>1. /\ m \in Nat /\ t \in 1..m - 1
      /\ \A i, j \in 1..m : p[i] = p[j] => i = j
  BY PathFacts DEF PathsCross
<1> HIDE DEF m
<1>2. /\ n \in 1..m - 1 /\ t \in 1..m
      /\ \A i \in 1..n : i \in 1..m /\ i \notin t..m
      /\ \A i \in t..m : i \in 1..m
  BY <1>1
<1>3. PICK a : SectionOf(a, p, 1, n) /\ Open(a, s, e)
  BY <1>2, HeadOf DEF PathsCross, m
<1>4. PICK c : SectionOf(c, p, t, m) /\ Closing(c, e)
  BY <1>2, TailOf DEF PathsCross, m
<1>5. /\ Simple(a) /\ Simple(c) /\ c[1] = w[1] /\ a[Len(a)] = w[k]
      /\ Range(a) = {p[j] : j \in 1..n} /\ Range(c) = {p[j] : j \in t..m}
  BY <1>3, <1>4, CrossFacts DEF SectionOf
<1>6. /\ k \in 2..Len(w) /\ k - 1 \in 2..Len(w) /\ k - 1 \in 2..Len(w) - 1
  BY CrossFacts
<1>7. w[k - 1] \notin Ends(e) /\ w[k] \in nbrs[w[k - 1]]
  BY <1>6, PathFacts DEF PathsCross
<1>8. PICK b : /\ SectionOf(b, w, 2, k - 1) /\ b[1] = w[2] /\ b[Len(b)] = w[k - 1]
               /\ \A x \in Range(b) : x \notin Ends(e)
  BY <1>6, <1>7, MiddleOf
<1>9. Simple(b) /\ Range(b) = {w[i] : i \in 2..k - 1}
  BY <1>8 DEF SectionOf
<1>10. PICK v : Reversed(v, b)
  BY <1>9, BackwardsIs
<1>11. Simple(v) /\ Range(v) = Range(b) /\ v[1] = w[k - 1] /\ v[Len(v)] = w[2]
  BY <1>8, <1>10 DEF Reversed
<1>12. Range(a) \cap Range(v) = {} /\ Range(v) \cap Range(c) = {} /\ Range(a) \cap Range(c) = {}
  <2>1. ASSUME NEW i \in 1..n, NEW j \in t..m PROVE p[i] # p[j]
    <3>1. i \in 1..m /\ j \in 1..m /\ i # j
      BY <1>2
    <3> QED
      BY <1>1, <3>1
  <2>2. \A i \in 2..k - 1 : \A j \in 1..n : w[i] # p[j]
    BY <1>2 DEF m
  <2>3. \A i \in 2..k - 1 : \A j \in t..m : w[i] # p[j]
    BY <1>2 DEF m
  <2> QED
    BY <1>5, <1>9, <1>11, <2>1, <2>2, <2>3
<1>13. w[1] \in nbrs[w[2]] /\ w[k - 1] \in nbrs[w[k]]
  <2>1. Simple(w) /\ 2 \in 2..Len(w) /\ 2 - 1 = 1
    BY CrossFacts
  <2> QED
    BY <1>6, <2>1, Mutual
<1>14. Joins(a, v)
  BY <1>5, <1>11, <1>12, <1>13 DEF Joins
<1>15. PICK q : Open(q, s, e) /\ Follow(q, a, v, QV)
  <2>1. \A x \in Range(v) : x \notin Ends(e)
    BY <1>8, <1>11
  <2> QED
    BY <1>3, <1>14, <2>1, Extended
<1>16. q[Len(q)] = w[2]
  BY <1>11, <1>14, <1>15, FollowEdges
<1>17. Joins(q, c)
  <2>1. Range(q) \cap Range(c) = {} /\ Simple(q)
    BY <1>12, <1>15 DEF Follow, Open
  <2> QED
    BY <1>5, <1>13, <1>16, <2>1 DEF Joins
<1>18. PICK r : PathTo(r, s, e) /\ Follow(r, q, c, QV)
  BY <1>4, <1>15, <1>17, Closed
<1>19. HasEdge(r, w[2], w[1])
  BY <1>5, <1>16, <1>17, <1>18, FollowEdges
<1> QED
  BY <1>18, <1>19 DEF Detour, HasEdge

(* So wherever w goes, some path from s has its first edge. *)
LEMMA Splice ==
  ASSUME Loaded, NEW s, NEW e, NEW p, NEW w, NEW t, PathsCross(p, w, t, s, e)
  PROVE  Detour(w, s, e)
<1> DEFINE K == {k \in 2..Len(w) : \E j \in 1..Len(p) : w[k] = p[j]}
           m == Len(p)
<1>1. /\ m \in Nat /\ t \in 1..m - 1 /\ p[m] \in Ends(e)
      /\ \A i, j \in 1..m : p[i] = p[j] => i = j
  BY PathFacts DEF PathsCross
<1>2. /\ Len(w) \in Nat /\ Len(w) >= 2 /\ w[1] = p[t] /\ w[Len(w)] \in Ends(e)
      /\ \A i, j \in 1..Len(w) : w[i] = w[j] => i = j
  BY PathFacts DEF PathsCross
<1>3. Len(w) \in 2..Len(w) /\ 1 \in 1..Len(w) /\ \A i \in 1..t : i \in 1..m /\ i # m
  BY <1>1, <1>2
<1>4. CASE K = {}
  <2>1. \A i \in 2..Len(w) : \A j \in 1..t : w[i] # p[j]
    BY <1>3, <1>4
  <2> QED
    BY <1>2, <1>3, <2>1, DetourToEnd
<1>5. CASE K # {}
  <2>1. PICK k \in K : \A i \in K : k <= i
    <3>1. K \subseteq Nat
      BY <1>2
    <3> QED
      BY <1>5, <3>1, LeastNumber
  <2>2. PICK n \in 1..m : w[k] = p[n]
    BY <2>1
  <2>3. /\ k \in 2..Len(w) /\ k \in Nat /\ k \in 1..Len(w) /\ k # 1
        /\ \A i \in 2..k - 1 : i \in 2..Len(w) /\ i < k
        /\ \A i \in 2..k : i = k \/ i \in 2..k - 1
    BY <1>2, <2>1
  <2>4. \A i \in 2..k - 1 : \A j \in 1..m : w[i] # p[j]
    <3> SUFFICES ASSUME NEW i \in 2..k - 1, NEW j \in 1..m, w[i] = p[j] PROVE FALSE
      OBVIOUS
    <3>1. i \in K /\ i < k
      BY <2>3
    <3>2. k <= i
      BY <2>1, <3>1
    <3> QED
      BY <2>3, <3>1, <3>2
  <2>5. n # t
    <3>1. w[k] # w[1]
      BY <1>2, <1>3, <2>3
    <3> QED
      BY <1>2, <2>2, <3>1
  <2> HIDE DEF K
  <2>6. CASE n = m
    <3>1. \A i \in 2..k : \A j \in 1..t : w[i] # p[j]
      <4>1. \A j \in 1..t : p[n] # p[j]
        BY <1>1, <1>3, <2>6
      <4> QED
        BY <1>3, <2>2, <2>3, <2>4, <4>1
    <3>2. w[k] \in Ends(e)
      BY <1>1, <2>2, <2>6
    <3> QED
      BY <2>3, <3>1, <3>2, DetourToEnd
  <2>7. CASE n \in t + 1..m - 1
    BY <2>2, <2>3, <2>4, <2>7, DetourAhead
  <2>8. CASE n \in 1..t - 1 /\ k = 2
    BY <2>2, <2>8, DetourBack
  <2>9. CASE n \in 1..t - 1 /\ k # 2
    <3>1. k \in 3..Len(w)
      BY <2>3, <2>9
    <3> QED
      BY <2>2, <2>4, <2>9, <3>1, DetourAround
  <2>10. n = m \/ n \in t + 1..m - 1 \/ n \in 1..t - 1
    BY <1>1, <2>5
  <2> QED
    BY <2>6, <2>7, <2>8, <2>9, <2>10
<1> QED
  BY <1>4, <1>5

(* A path leads back through each backward neighbour. *)
LEMMA PathThrough ==
  ASSUME Loaded, NEW e \in QEdges, NEW d \in 3..N, NEW k \in Backward(indexing[e], d)
  PROVE  \E p : PathTo(p, indexing[e][d], e) /\ p[2] = indexing[e][k]
<1> DEFINE ord == indexing[e]
           a == <<ord[d]>>
<1>1. N \in Nat
  BY FS_CardinalityType DEF Loaded, N
<1>2. k \in 1..d - 1 /\ d \in Nat
  BY <1>1 DEF Backward
<1>3. CASE k <= 2
  <2>1. PathTo(<<ord[d], ord[k]>>, ord[d], e)
    BY <1>3, PathOfTwo DEF LeadsBack
  <2> QED
    BY <2>1
<1>4. CASE k > 2
  <2>1. k \in 3..N
    BY <1>1, <1>2, <1>4
  <2>2. PICK q : LeadsBack(q, e, k)
    BY <2>1, PathExists
  <2>3. PathTo(a \o q, ord[d], e)
    BY <1>4, <2>2, PathLonger DEF LeadsBack
  <2>4. q \in Seq(QV) /\ Len(q) \in Nat /\ Len(q) >= 2 /\ q[1] = ord[k]
    BY <2>2, LenProperties DEF LeadsBack, PathTo
  <2>5. ord[d] \in QV
    <3>1. ord \in Seq(QV) /\ Len(ord) = N /\ d \in 1..N
      BY <1>1, IndexingUsable DEF IndexingOf
    <3> QED
      BY <3>1, ElementOfSeq
  <2>6. a \in Seq(QV) /\ Len(a) = 1
    BY <2>5
  <2> HIDE DEF a
  <2>7. Follow(a \o q, a, q, QV)
    BY <2>4, <2>6, JoinFacts
  <2>8. (a \o q)[1 + 1] = q[1]
    <3>1. 1 \in 1..Len(q)
      BY <2>4
    <3> QED
      BY <2>6, <2>7, <3>1 DEF Follow
  <2>9. (a \o q)[2] = ord[k]
    BY <2>4, <2>8
  <2> HIDE DEF ord
  <2> QED
    BY <2>3, <2>9, Zenon DEF ord
<1> QED
  BY <1>2, <1>3, <1>4

(* Of the query edges that lead back from a vertex all or none are in F. *)
AgreesWith(F, e) ==
  \A d \in 2..N : \A j, k \in Backward(indexing[e], d) :
    {indexing[e][j], indexing[e][d]} \in F => {indexing[e][k], indexing[e][d]} \in F

LEMMA FlagsAgreeing ==
  ASSUME Loaded, NEW e \in QEdges, order[1] \in QV, order[2] \in QV
  PROVE  AgreesWith(RebuildFlags(e), e)
<1> DEFINE ord == indexing[e]
<1>1. /\ ord \in Seq(QV) /\ Len(ord) = N
      /\ ord[1] = qe_list[e][1] /\ ord[2] = qe_list[e][2]
      /\ \A i, j \in 1..N : ord[i] = ord[j] => i = j
  <2>1. ord \in Seq(QV) /\ Len(ord) = N /\ IsInjective(ord) /\ DOMAIN ord = 1..N
    BY IndexingUsable, LenProperties DEF IndexingOf
  <2> QED
    BY <2>1, IndexingUsable DEF IndexingOf, IsInjective
<1>2. N \in Nat /\ N >= 2
  BY FS_CardinalityType DEF Loaded, N
<1>3. SUFFICES ASSUME NEW d \in 2..N, NEW j \in Backward(ord, d), NEW k \in Backward(ord, d),
                      {ord[j], ord[d]} \in RebuildFlags(e)
               PROVE  {ord[k], ord[d]} \in RebuildFlags(e)
  BY DEF AgreesWith
<1>4. j \in 1..d - 1 /\ k \in 1..d - 1
  BY DEF Backward
<1>5. CASE d = 2
  <2>1. j = k
    BY <1>4, <1>5
  <2> QED
    BY <1>3, <2>1
<1>6. CASE d # 2
  <2> DEFINE u == ord[d]
             edges(p) == {{p[i], p[i + 1]} : i \in 1..Len(p) - 1}
             hits == Hits(order[1], e) \cup Hits(order[2], e)
  <2>1. d \in 3..N /\ d \in 1..N /\ 1 \in 1..N /\ 2 \in 1..N /\ d # 1
    BY <1>2, <1>6
  <2>2. u \notin Ends(e)
    BY <1>1, <1>6, <2>1 DEF Ends
  <2>3. Range(qe_list[e]) = Ends(e)
    <3>1. qe_list[e] \in QV \X QV
      BY ElementOfSeq, LenProperties DEF Loaded, Edges, QEdges
    <3>2. PICK a, b \in QV : qe_list[e] = <<a, b>>
      BY <3>1, PairIs
    <3>3. Range(<<a, b>>) = {a, b}
      BY DEF Range
    <3> QED
      BY <3>2, <3>3 DEF Ends
  <2>4. RebuildFlags(e) = {Range(qe_list[e])} \cup UNION {edges(p) : p \in hits}
    BY DEF RebuildFlags
  <2>5. PICK p \in hits : {ord[j], u} \in edges(p)
    <3>1. {ord[j], u} # Range(qe_list[e])
      BY <2>2, <2>3
    <3> QED
      BY <1>3, <2>4, <3>1
  <2>6. PICK i \in 1..Len(p) - 1 : {ord[j], u} = {p[i], p[i + 1]}
    BY <2>5
  <2>7. PICK s \in QV : p \in Hits(s, e) /\ Hits(s, e) \subseteq hits
    <3>1. CASE p \in Hits(order[1], e)
      BY <3>1
    <3>2. CASE p \in Hits(order[2], e)
      BY <3>2
    <3> QED
      BY <2>5, <3>1, <3>2
  <2> HIDE DEF hits
  <2>8. PathTo(p, s, e)
    BY <2>7, HitsArePaths
  <2>9. Len(p) \in Nat /\ p[Len(p)] \in Ends(e)
    BY <2>8, PathFacts
  <2>10. PICK t \in 1..Len(p) - 1 : p[t] = u
    <3>1. CASE p[i] = u
      BY <3>1
    <3>2. CASE p[i + 1] = u
      <4>1. i + 1 # Len(p)
        BY <2>2, <2>9, <3>2
      <4>2. i + 1 \in 1..Len(p) - 1
        BY <2>9, <4>1
      <4> QED
        BY <3>2, <4>2
    <3>3. u \in {p[i], p[i + 1]}
      BY <2>6
    <3> QED
      BY <3>1, <3>2, <3>3
  <2>11. PICK w : PathTo(w, u, e) /\ w[2] = ord[k]
    BY <2>1, PathThrough
  <2>12. w[1] = u
    BY <2>11 DEF PathTo
  <2> HIDE DEF u
  <2>13. PathsCross(p, w, t, s, e)
    BY <2>2, <2>8, <2>10, <2>11 DEF PathsCross
  <2>14. PICK r : PathTo(r, s, e) /\ HasEdge(r, w[1], w[2])
    BY <2>13, Splice DEF Detour
  <2>15. r \in hits
    BY <2>7, <2>14, PathsHit
  <2>16. {w[1], w[2]} \in edges(r)
    BY <2>14 DEF HasEdge
  <2>17. {w[1], w[2]} = {ord[k], u}
    BY <2>11, <2>12
  <2> HIDE DEF edges
  <2> QED
    BY <2>4, <2>15, <2>16, <2>17 DEF u
<1> QED
  BY <1>5, <1>6

-----------------------------------------------------------------------------
(* What the flags have for the start of the search. *)

(* Query edge e itself, and the first edge of every path from s to it. *)
FlagsFrom(F, s, e) ==
  /\ Range(qe_list[e]) \in F
  /\ \A p : PathTo(p, s, e) => {p[1], p[2]} \in F

Flagged ==
  /\ flags # <<>> =>
       /\ Len(order) = N
       /\ \A e \in Planned : \A s \in {order[1], order[2]} : FlagsFrom(flags[e], s, e)
       /\ \A e \in Planned : AgreesWith(flags[e], e)
  /\ rebuild # <<>> =>
       /\ flags # <<>>
       /\ \A e \in Planned : {order[1], order[2]} \subseteq rebuild[e]

LEMMA FlagsMade ==
  ASSUME Loaded, NEW e \in QEdges, NEW s \in QV, s \in {order[1], order[2]}
  PROVE  FlagsFrom(RebuildFlags(e), s, e)
<1>1. Range(qe_list[e]) \in RebuildFlags(e)
  BY DEF RebuildFlags
<1>2. ASSUME NEW p, PathTo(p, s, e) PROVE {p[1], p[2]} \in RebuildFlags(e)
  <2>1. p \in Hits(s, e)
    BY <1>2, PathsHit
  <2>2. p \in Hits(order[1], e) \cup Hits(order[2], e)
    BY <2>1
  <2>3. 1 \in 1..Len(p) - 1
    BY <1>2, LenProperties DEF PathTo
  <2>4. {p[1], p[2]} \in {{p[i], p[i + 1]} : i \in 1..Len(p) - 1}
    BY <2>3
  <2> QED
    BY <2>2, <2>4 DEF RebuildFlags
<1> QED
  BY <1>1, <1>2 DEF FlagsFrom

(* A vertex with such flags is rebuilt. *)
LEMMA StartInRebuild ==
  ASSUME Loaded, NEW e \in QEdges, NEW s \in QV, FlagsFrom(flags[e], s, e)
  PROVE  s \in RebuildV(e)
<1> DEFINE ord == indexing[e]
<1>1. /\ ord \in Seq(QV) /\ IsInjective(ord) /\ Len(ord) = N
      /\ ord[1] = qe_list[e][1] /\ ord[2] = qe_list[e][2]
      /\ Range(ord) = QV
      /\ \A d \in 2..N : Backward(ord, d) # {}
  BY IndexingUsable DEF IndexingOf
<1>2. N \in Nat /\ N >= 2 /\ DOMAIN ord = 1..N
  BY <1>1, LenProperties, FS_CardinalityType DEF Loaded, N
<1>3. PICK d \in 1..N : ord[d] = s
  BY <1>1, <1>2 DEF Range
<1>4. d = 1 \/ FlaggedBackward(e, d) # {}
  <2>1. CASE d = 1
    BY <2>1
  <2>2. CASE d = 2
    <3>1. 1 \in Backward(ord, 2)
      <4>1. Backward(ord, 2) \subseteq {1}
        BY DEF Backward
      <4> QED
        BY <1>1, <1>2, <4>1
    <3>2. Range(qe_list[e]) = {ord[1], ord[2]}
      <4>1. qe_list[e] \in QV \X QV
        BY ElementOfSeq, LenProperties DEF Loaded, Edges, QEdges
      <4>2. PICK a, b \in QV : qe_list[e] = <<a, b>>
        BY <4>1, PairIs
      <4>3. ord[1] = a /\ ord[2] = b
        BY <1>1, <4>2
      <4>4. Range(<<a, b>>) = {a, b}
        BY DEF Range
      <4> QED
        BY <4>2, <4>3, <4>4
    <3>3. 1 \in FlaggedBackward(e, d)
      BY <2>2, <3>1, <3>2 DEF FlaggedBackward, FlagsFrom
    <3> QED
      BY <3>3
  <2>3. CASE d >= 3
    <3>1. PICK p : LeadsBack(p, e, d)
      BY <1>2, <2>3, PathExists
    <3>2. PathTo(p, s, e) /\ p[1] = s
      BY <1>3, <3>1 DEF LeadsBack, PathTo
    <3>3. PICK k \in Backward(ord, d) : p[2] = ord[k]
      BY <3>1 DEF LeadsBack
    <3>4. {ord[k], ord[d]} \in flags[e]
      <4>1. {p[1], p[2]} \in flags[e]
        BY <3>2 DEF FlagsFrom
      <4>2. {p[1], p[2]} = {ord[k], ord[d]}
        BY <1>3, <3>2, <3>3
      <4> QED
        BY <4>1, <4>2
    <3>5. k \in FlaggedBackward(e, d)
      BY <3>3, <3>4 DEF FlaggedBackward
    <3> QED
      BY <3>5
  <2> QED
    BY <1>2, <2>1, <2>2, <2>3
<1> QED
  BY <1>3, <1>4 DEF RebuildV

-----------------------------------------------------------------------------
(* The suffixes that are enumerated as products. *)

(* No two of the positions from d on are neighbours, and all are leaves. *)
Independent(ord, d) == \A j, k \in d..N : ord[k] \notin nbrs[ord[j]]
Leaves(ord, d) == \A k \in d..N : Leaf(ord[k])

(* info follows the classes from the last position down. *)
Classified(info, ord) ==
  \A d \in 2..N :
    info[d] = IF d = N THEN LastClass(ord[d]) ELSE ClassBefore(ord, d, info[d + 1])

Classes == {"None", "TreeSingle", "NonTreeSingle", "TreeCartesianProduct", "NonTreeCartesianProduct"}

LEMMA ProductInfoIs ==
  ASSUME N \in Nat, N >= 2, NEW ord
  PROVE  Classified(ProductInfo(ord), ord)
<1> DEFINE D == 2..N
           X == Classes
           rank == [d \in D |-> N - d]
           Body(g, d) == IF d = N THEN LastClass(ord[d]) ELSE ClassBefore(ord, d, g[d + 1])
           Step == [z \in D \X [D -> X] |-> Body(z[2], z[1])]
           info[d \in 2..N] ==
             IF d = N THEN LastClass(ord[d]) ELSE ClassBefore(ord, d, info[d + 1])
<1>1. ProductInfo(ord) = info
  BY DEF ProductInfo
<1>2. info = CHOOSE g : g = [d \in D |-> Body(g, d)]
  BY DEF info
<1> HIDE DEF info
<1>3. \A d \in D : d # N => d + 1 \in D /\ rank[d + 1] < rank[d]
  OBVIOUS
<1>4. rank \in [D -> 0..N]
  OBVIOUS
<1>5. \A g \in [D -> X], d \in D : Body(g, d) \in X
  BY DEF LastClass, ClassBefore, Classes
<1>6. \A g \in [D -> X], d \in D : Step[<<d, g>>] = Body(g, d)
  OBVIOUS
<1>7. Step \in [D \X [D -> X] -> X]
  BY <1>5
<1>8. \A d \in D : \A g, h \in [D -> X] :
        (\A k \in D : rank[k] < rank[d] => g[k] = h[k]) => Body(g, d) = Body(h, d)
  BY <1>3
<1>x. X # {}
  BY DEF Classes
<1> HIDE DEF Step, Body, rank, X
<1>9. \E f : Follows(D, X, Step, f)
  <2> HIDE DEF D
  <2>1. Causal(D, rank, X, Step)
    BY <1>6, <1>7, <1>8 DEF Causal
  <2> QED
    BY <1>4, <1>x, <2>1, RankedRecursion
<1>10. PICK f : f \in [D -> X] /\ \A d \in D : f[d] = Body(f, d)
  BY <1>6, <1>9 DEF Follows
<1>11. f = [d \in D |-> Body(f, d)]
  BY <1>10
<1>12. info = [d \in D |-> Body(info, d)]
  BY <1>2, <1>11
<1> QED
  BY <1>1, <1>12 DEF Classified, Body

LEMMA ProductClasses ==
  ASSUME N \in Nat, N >= 2, Connected(nbrs, QV), NEW ord \in Seq(QV), Len(ord) = N,
         NEW info, Classified(info, ord)
  PROVE  \A d \in 2..N :
           /\ info[d] # "None" <=> Independent(ord, d)
           /\ info[d] \in {"TreeSingle", "TreeCartesianProduct"} <=>
                Independent(ord, d) /\ Leaves(ord, d)
<1> DEFINE Known(d) ==
             /\ info[d] # "None" <=> Independent(ord, d)
             /\ info[d] \in {"TreeSingle", "TreeCartesianProduct"} <=>
                  Independent(ord, d) /\ Leaves(ord, d)
           S == {i \in 0..N - 2 : Known(N - i)}
<1>1. \A k \in 1..N : ord[k] \in QV
  BY ElementOfSeq
<1>2. \A u, w \in QV : (w \in nbrs[u] <=> u \in nbrs[w]) /\ u \notin nbrs[u]
  BY DEF Connected
<1>3. Known(N)
  <2>1. info[N] = LastClass(ord[N])
    BY DEF Classified
  <2>2. N..N = {N}
    OBVIOUS
  <2>3. ord[N] \notin nbrs[ord[N]]
    BY <1>1, <1>2
  <2>4. Independent(ord, N) /\ (Leaves(ord, N) <=> Leaf(ord[N]))
    BY <2>2, <2>3 DEF Independent, Leaves
  <2> QED
    BY <2>1, <2>4 DEF LastClass
<1>4. ASSUME NEW d \in 2..N - 1, Known(d + 1) PROVE Known(d)
  <2>1. info[d] = ClassBefore(ord, d, info[d + 1])
    <3>1. d \in 2..N /\ d # N
      OBVIOUS
    <3> QED
      BY <3>1 DEF Classified
  <2>2. d..N = {d} \cup (d + 1..N) /\ d \in 1..N /\ \A k \in d + 1..N : k \in 1..N
    OBVIOUS
  <2>3. Independent(ord, d) <=> Independent(ord, d + 1) /\ NoEdgeToLater(ord, d)
    <3>1. ord[d] \notin nbrs[ord[d]]
      BY <1>1, <1>2, <2>2
    <3>2. \A k \in d + 1..N : ord[k] \in nbrs[ord[d]] <=> ord[d] \in nbrs[ord[k]]
      BY <1>1, <1>2, <2>2
    <3> QED
      BY <2>2, <3>1, <3>2 DEF Independent, NoEdgeToLater
  <2>4. Leaves(ord, d) <=> Leaves(ord, d + 1) /\ Leaf(ord[d])
    BY <2>2 DEF Leaves
  <2> QED
    BY <1>4, <2>1, <2>3, <2>4 DEF ClassBefore
<1>5. \A d \in 2..N : Known(d)
  <2>1. 0 \in S
    BY <1>3
  <2>2. ASSUME NEW i \in 1..N - 2, i - 1 \in S PROVE i \in S
    <3>1. N - i \in 2..N - 1 /\ N - (i - 1) = N - i + 1
      OBVIOUS
    <3>2. Known(N - i + 1)
      BY <2>2, <3>1
    <3> HIDE DEF Known
    <3>3. Known(N - i)
      BY <1>4, <3>1, <3>2
    <3> QED
      BY <3>3
  <2> HIDE DEF Known
  <2>3. \A d \in 2..N : N - d \in 0..N - 2 /\ N - (N - d) = d
    OBVIOUS
  <2>4. \A i \in 0..N - 2 : i \in S
    <3>1. N - 2 \in Nat
      OBVIOUS
    <3> HIDE DEF S
    <3>2. 0..N - 2 \subseteq S
      BY <2>1, <2>2, <3>1, CountUp
    <3> QED
      BY <3>2
  <2> QED
    BY <2>3, <2>4
<1> QED
  BY <1>5

LEMMA ProductHolds ==
  ASSUME Loaded, order \in Seq(QV), Len(order) = N
  PROVE  \A d \in 2..N - 1 :
           LET tail == {order[k] : k \in d..N}
           IN  /\ ProductInfo(order)[d] # "None" <=> \A u \in tail : nbrs[u] \cap tail = {}
               /\ ProductInfo(order)[d] = "TreeCartesianProduct" <=>
                    \A u \in tail : Cardinality(nbrs[u]) = 1 /\ nbrs[u] \cap tail = {}
<1> DEFINE info == ProductInfo(order)
<1>1. N \in Nat /\ N >= 2 /\ Connected(nbrs, QV)
  BY FS_CardinalityType DEF Loaded, N
<1>2. Classified(info, order)
  BY <1>1, ProductInfoIs
<1> HIDE DEF info
<1> SUFFICES ASSUME NEW d \in 2..N - 1
             PROVE LET tail == {order[k] : k \in d..N}
                   IN  /\ info[d] # "None" <=> \A u \in tail : nbrs[u] \cap tail = {}
                       /\ info[d] = "TreeCartesianProduct" <=>
                            \A u \in tail : Cardinality(nbrs[u]) = 1 /\ nbrs[u] \cap tail = {}
  BY DEF info
<1> DEFINE tail == {order[k] : k \in d..N}
<1>3. d \in 2..N /\ d # N
  BY <1>1
<1>4. /\ info[d] # "None" <=> Independent(order, d)
      /\ info[d] \in {"TreeSingle", "TreeCartesianProduct"} <=>
           Independent(order, d) /\ Leaves(order, d)
  BY <1>1, <1>2, <1>3, ProductClasses
<1>5. info[d] # "TreeSingle"
  BY <1>2, <1>3 DEF Classified, ClassBefore
<1>6. Independent(order, d) <=> \A u \in tail : nbrs[u] \cap tail = {}
  BY DEF Independent
<1>7. Leaves(order, d) <=> \A u \in tail : Cardinality(nbrs[u]) = 1
  BY DEF Leaves, Leaf
<1> QED
  BY <1>4, <1>5, <1>6, <1>7

-----------------------------------------------------------------------------
(* The arrays that the kernels get of an indexing order. *)

(* The entries of bni_ for positions s of an order. *)
Entries(ord, s) == {x \in s \X (1..N) : x[2] \in Backward(ord, x[1])}

LEMMA EntriesOne ==
  ASSUME N \in Nat, NEW ord, NEW s \in SUBSET (1..N), NEW k \in (1..N) \ s
  PROVE  /\ Cardinality(Entries(ord, s)) \in Nat
         /\ Cardinality(Backward(ord, k)) \in Nat
         /\ Cardinality(Entries(ord, s \cup {k}))
              = Cardinality(Entries(ord, s)) + Cardinality(Backward(ord, k))
<1> DEFINE B == Backward(ord, k)
           T == {k} \X B
           A == Entries(ord, s)
<1>1. IsFiniteSet(1..N)
  BY FS_Interval
<1>2. B \subseteq 1..N /\ k \in 1..N
  BY DEF Backward
<1>3. IsFiniteSet(B) /\ Cardinality(B) \in Nat
  <2> HIDE DEF B
  <2> QED
    BY <1>1, <1>2, FS_Subset, FS_CardinalityType
<1>4. \A r \in SUBSET (1..N) : IsFiniteSet(Entries(ord, r)) /\ Cardinality(Entries(ord, r)) \in Nat
  <2>1. IsFiniteSet((1..N) \X (1..N))
    BY <1>1, FS_Product
  <2>2. \A r \in SUBSET (1..N) : Entries(ord, r) \subseteq (1..N) \X (1..N)
    BY DEF Entries
  <2> QED
    BY <2>1, <2>2, FS_Subset, FS_CardinalityType
<1>5. IsFiniteSet(T) /\ Cardinality(T) = Cardinality(B)
  <2>1. IsFiniteSet({k}) /\ Cardinality({k}) = 1
    BY FS_Singleton
  <2> HIDE DEF B
  <2>2. IsFiniteSet(T) /\ Cardinality(T) = 1 * Cardinality(B)
    BY <1>3, <2>1, FS_Product
  <2> QED
    BY <1>3, <2>2
<1>6. Entries(ord, s \cup {k}) = A \cup T
  <2>1. ASSUME NEW x \in Entries(ord, s \cup {k}) PROVE x \in A \cup T
    BY DEF Entries
  <2>2. ASSUME NEW x \in A PROVE x \in Entries(ord, s \cup {k})
    BY DEF Entries
  <2>3. ASSUME NEW x \in T PROVE x \in Entries(ord, s \cup {k})
    BY <1>2 DEF Entries
  <2> HIDE DEF A, T
  <2> QED
    BY <2>1, <2>2, <2>3
<1>7. A \cap T = {}
  BY DEF Entries
<1>8. IsFiniteSet(A) /\ Cardinality(A) \in Nat
  BY <1>4
<1> HIDE DEF A, T, B
<1>9. Cardinality(A \cup T) = Cardinality(A) + Cardinality(T) - Cardinality(A \cap T)
  BY <1>5, <1>8, FS_Union
<1>10. Cardinality({}) = 0
  BY FS_EmptySet
<1>11. Cardinality(A \cup T) = Cardinality(A) + Cardinality(B)
  <2>1. Cardinality(A \cap T) = 0
    BY <1>7, <1>10
  <2>2. Cardinality(A \cup T) = Cardinality(A) + Cardinality(B) - 0
    BY <1>5, <1>9, <2>1
  <2> QED
    BY <1>3, <1>8, <2>2
<1> QED
  BY <1>3, <1>6, <1>8, <1>11 DEF A, B

(* bni_offs_ counts them. *)
LEMMA OffsetIs ==
  ASSUME N \in Nat, NEW ord, NEW d \in 2..N + 1
  PROVE  BniOffset(ord, d) = 1 + Cardinality(Entries(ord, 1..d - 1))
<1> DEFINE P == 1..d - 1
           first(s) == CHOOSE x \in s : TRUE
           iter[s \in SUBSET P] ==
             IF s = {} THEN 0
             ELSE LET x == CHOOSE x \in s : TRUE
                  IN  Cardinality(Backward(ord, x)) + iter[s \ {x}]
           Body(g, s) == IF s = {} THEN 0
                         ELSE Cardinality(Backward(ord, first(s))) + g[s \ {first(s)}]
           count == [s \in SUBSET P |-> Cardinality(Entries(ord, s))]
<1>1. BniOffset(ord, d) = 1 + iter[P]
  BY DEF BniOffset, MapThenSumSet, MapThenFoldSet
<1>2. iter = CHOOSE g : g = [s \in SUBSET P |-> Body(g, s)]
  BY DEF iter
<1> HIDE DEF iter
<1>3. P \subseteq 1..N /\ IsFiniteSet(P)
  <2>1. P \subseteq 1..N
    OBVIOUS
  <2>2. IsFiniteSet(P)
    BY FS_Interval
  <2> QED
    BY <2>1, <2>2
<1> HIDE DEF P
<1>4. \A s \in SUBSET P : s # {} => first(s) \in s
  OBVIOUS
<1> HIDE DEF first
<1>5. count[{}] = 0
  <2>1. Entries(ord, {}) = {}
    BY DEF Entries
  <2> QED
    BY <2>1, FS_EmptySet
<1>6. ASSUME NEW s \in SUBSET P, NEW x \in s
      PROVE  /\ count[s] = Cardinality(Backward(ord, x)) + count[s \ {x}]
             /\ count[s \ {x}] \in Nat /\ Cardinality(Backward(ord, x)) \in Nat
  <2>1. s \ {x} \in SUBSET (1..N) /\ x \in (1..N) \ (s \ {x}) /\ (s \ {x}) \cup {x} = s
    BY <1>3
  <2>2. /\ Cardinality(Entries(ord, s \ {x})) \in Nat
        /\ Cardinality(Backward(ord, x)) \in Nat
        /\ Cardinality(Entries(ord, (s \ {x}) \cup {x}))
             = Cardinality(Entries(ord, s \ {x})) + Cardinality(Backward(ord, x))
    BY <2>1, EntriesOne
  <2>3. s \ {x} \in SUBSET P
    OBVIOUS
  <2> QED
    BY <2>1, <2>2, <2>3
<1>7. count = [s \in SUBSET P |-> Body(count, s)]
  <2>1. ASSUME NEW s \in SUBSET P PROVE count[s] = Body(count, s)
    <3>1. CASE s = {}
      BY <1>5, <3>1
    <3>2. CASE s # {}
      BY <1>4, <1>6, <3>2
    <3> QED
      BY <3>1, <3>2
  <2> HIDE DEF Body
  <2> QED
    BY <2>1
<1> HIDE DEF count
<1>8. iter = [s \in SUBSET P |-> Body(iter, s)]
  <2> HIDE DEF Body
  <2> QED
    BY <1>2, <1>7
<1>9. iter[P] = count[P]
  <2>1. iter[{}] = count[{}]
    BY <1>5, <1>8
  <2>2. ASSUME NEW s \in SUBSET P, s # {}, \A x \in s : iter[s \ {x}] = count[s \ {x}]
        PROVE  iter[s] = count[s]
    <3>1. iter[s] = Cardinality(Backward(ord, first(s))) + iter[s \ {first(s)}]
      BY <1>8, <2>2
    <3>2. first(s) \in s
      BY <1>4, <2>2
    <3> QED
      BY <1>6, <2>2, <3>1, <3>2
  <2> QED
    BY <1>3, <2>1, <2>2, Folded
<1>10. count[P] = Cardinality(Entries(ord, P))
  BY DEF count
<1> QED
  BY <1>1, <1>9, <1>10 DEF P

(* A list of lists, joined one after the other. *)
Flattens(h, q) ==
  /\ h[1] = q[1] /\ \A k \in 2..N : h[k] = h[k - 1] \o q[k]
  /\ FlattenSeq(q) = h[N]

LEMMA FlattenFold ==
  ASSUME N \in Nat, N >= 1, NEW q \in [1..N -> Seq(Nat)]
  PROVE  \E h : Flattens(h, q)
<1> DEFINE D == 1..N
           X == Seq(Nat)
           flatten[i \in 1..Len(q)] == IF i = 1 THEN q[i] ELSE flatten[i - 1] \o q[i]
           Body(g, i) == IF i = 1 THEN q[i] ELSE g[i - 1] \o q[i]
           Step == [z \in D \X [D -> X] |-> Body(z[2], z[1])]
<1>1. q \in Seq(Seq(Nat)) /\ Len(q) = N
  <2>1. q \in Seq(Seq(Nat))
    BY SeqDef
  <2>2. DOMAIN q = 1..N /\ DOMAIN q = 1..Len(q) /\ Len(q) \in Nat
    BY <2>1, LenProperties
  <2> QED
    BY <2>1, <2>2
<1>2. FlattenSeq(q) = flatten[N]
  BY <1>1 DEF FlattenSeq
<1>3. flatten = CHOOSE g : g = [i \in D |-> Body(g, i)]
  BY <1>1 DEF flatten
<1> HIDE DEF flatten
<1>4. \A g \in [D -> X], i \in D : Body(g, i) \in X
  <2> SUFFICES ASSUME NEW g \in [D -> X], NEW i \in D PROVE Body(g, i) \in X
    OBVIOUS
  <2>1. q[i] \in X
    OBVIOUS
  <2>2. CASE i = 1
    BY <2>1, <2>2
  <2>3. CASE i # 1
    <3>1. g[i - 1] \in X
      BY <2>3
    <3>2. g[i - 1] \o q[i] \in X
      BY <2>1, <3>1, ConcatProperties
    <3> QED
      BY <2>3, <3>2
  <2> QED
    BY <2>2, <2>3
<1>5. \A d \in D : \A g, f \in [D -> X] :
         (\A k \in D : [i \in D |-> i][k] < [i \in D |-> i][d] => g[k] = f[k]) => Body(g, d) = Body(f, d)
  <2> SUFFICES ASSUME NEW d \in D, NEW g \in [D -> X], NEW f \in [D -> X],
                      \A k \in D : [i \in D |-> i][k] < [i \in D |-> i][d] => g[k] = f[k]
               PROVE  Body(g, d) = Body(f, d)
    OBVIOUS
  <2>1. CASE d = 1
    BY <2>1
  <2>2. CASE d # 1
    <3>1. d - 1 \in D /\ d - 1 < d
      BY <2>2
    <3>2. g[d - 1] = f[d - 1]
      BY <3>1
    <3> QED
      BY <2>2, <3>2
  <2> QED
    BY <2>1, <2>2
<1>6. Step \in [D \X [D -> X] -> X]
  <2> HIDE DEF D, X, Body
  <2> QED
    BY <1>4
<1>7. \A g \in [D -> X], i \in D : Step[<<i, g>>] = Body(g, i)
  <2> HIDE DEF D, X, Body
  <2> QED
    OBVIOUS
<1>8. D \subseteq 0..N /\ <<>> \in X
  OBVIOUS
<1> HIDE DEF Step, X, Body, D
<1>9. Causal(D, [d \in D |-> d], X, Step)
  BY <1>5, <1>6, <1>7 DEF Causal
<1>10. PICK f : Follows(D, X, Step, f)
  <2>1. X # {}
    BY <1>8
  <2> QED
    BY <1>8, <1>9, <2>1, Recursion
<1>11. f \in [D -> X] /\ \A i \in D : f[i] = Step[<<i, f>>]
  BY <1>10 DEF Follows
<1>12. f = [i \in D |-> Body(f, i)]
  BY <1>7, <1>11
<1>13. flatten = [i \in D |-> Body(flatten, i)]
  BY <1>3, <1>12
<1>14. \A i \in D : flatten[i] = Body(flatten, i)
  BY <1>13
<1>15. flatten[1] = q[1] /\ \A k \in 2..N : flatten[k] = flatten[k - 1] \o q[k]
  <2>1. 1 \in D /\ \A k \in 2..N : k \in D /\ k # 1
    BY DEF D
  <2>2. flatten[1] = q[1]
    BY <1>14, <2>1 DEF Body
  <2>3. ASSUME NEW k \in 2..N PROVE flatten[k] = flatten[k - 1] \o q[k]
    BY <1>14, <2>1 DEF Body
  <2> QED
    BY <2>2, <2>3
<1> QED
  BY <1>2, <1>15 DEF Flattens

(* The joined lists of the first k positions. *)
Count(ord, k) == Cardinality(Entries(ord, 1..k))

ListsUpTo(r, ord, k) ==
  /\ r \in Seq(Nat) /\ Len(r) = Count(ord, k)
  /\ \A d \in 1..k : /\ Count(ord, d) \in Nat /\ Count(ord, d - 1) \in Nat
                     /\ Count(ord, d) <= Count(ord, k)
                     /\ {r[i] : i \in Count(ord, d - 1) + 1..Count(ord, d)} = Backward(ord, d)

LEMMA CountNext ==
  ASSUME N \in Nat, NEW ord, NEW k \in 1..N
  PROVE  /\ Count(ord, k - 1) \in Nat /\ Cardinality(Backward(ord, k)) \in Nat
         /\ Count(ord, k) = Count(ord, k - 1) + Cardinality(Backward(ord, k))
<1> DEFINE s == 1..k - 1
<1>1. s \in SUBSET (1..N) /\ k \in (1..N) \ s /\ s \cup {k} = 1..k
  OBVIOUS
<1> HIDE DEF s
<1>2. /\ Cardinality(Entries(ord, s)) \in Nat
      /\ Cardinality(Backward(ord, k)) \in Nat
      /\ Cardinality(Entries(ord, s \cup {k}))
           = Cardinality(Entries(ord, s)) + Cardinality(Backward(ord, k))
  BY <1>1, EntriesOne
<1>3. Count(ord, k) = Cardinality(Entries(ord, s \cup {k}))
  BY <1>1 DEF Count
<1>4. Count(ord, k - 1) = Cardinality(Entries(ord, s))
  BY DEF Count, s
<1> QED
  BY <1>2, <1>3, <1>4

LEMMA CountNone ==
  ASSUME NEW ord
  PROVE  Count(ord, 0) = 0
<1>1. Entries(ord, 1..0) = {}
  BY DEF Entries
<1> QED
  BY <1>1, FS_EmptySet DEF Count

LEMMA ListsNext ==
  ASSUME N \in Nat, NEW ord, NEW k \in 1..N, NEW r, k = 1 \/ ListsUpTo(r, ord, k - 1)
  PROVE  ListsUpTo(IF k = 1 THEN AscendingSeq(Backward(ord, k))
               ELSE r \o AscendingSeq(Backward(ord, k)), ord, k)
<1> DEFINE B == Backward(ord, k)
           a == AscendingSeq(B)
           C(d) == Count(ord, d)
           t == IF k = 1 THEN a ELSE r \o a
<1>1. B \subseteq Nat /\ IsFiniteSet(B)
  <2>1. B \subseteq 1..N
    BY DEF Backward
  <2>2. IsFiniteSet(1..N) /\ 1..N \subseteq Nat
    BY FS_Interval
  <2> HIDE DEF B
  <2>3. IsFiniteSet(B)
    BY <2>1, <2>2, FS_Subset
  <2> QED
    BY <2>1, <2>2, <2>3
<1>2. C(k - 1) \in Nat /\ Cardinality(B) \in Nat /\ C(k) = C(k - 1) + Cardinality(B)
  BY CountNext
<1>3. C(0) = 0
  BY CountNone
<1> HIDE DEF B, C
<1>4. a \in Seq(Nat) /\ Len(a) = Cardinality(B) /\ Range(a) = B
  <2>1. a \in Seq(B) /\ Len(a) = Cardinality(B) /\ Range(a) = B
    BY <1>1, Ascending
  <2> QED
    BY <1>1, <2>1, SeqMonotonic
<1>5. \A i \in 1..Cardinality(B) : a[i] \in Nat
  BY <1>4, ElementOfSeq
<1>6. B = {a[i] : i \in 1..Cardinality(B)}
  <2>1. DOMAIN a = 1..Cardinality(B)
    BY <1>4, LenProperties
  <2> QED
    BY <1>4, <2>1 DEF Range
<1> HIDE DEF a
<1>7. /\ t \in Seq(Nat) /\ Len(t) = C(k)
      /\ \A i \in 1..Cardinality(B) : t[C(k - 1) + i] = a[i]
      /\ k # 1 => \A i \in 1..C(k - 1) : t[i] = r[i]
  <2>1. CASE k = 1
    <3>1. t = a /\ C(k - 1) = 0
      BY <1>3, <2>1
    <3> HIDE DEF t
    <3>2. Len(a) = C(k)
      BY <1>2, <1>4, <3>1
    <3>3. \A i \in 1..Cardinality(B) : 0 + i = i
      BY <1>2
    <3> QED
      BY <1>4, <2>1, <3>1, <3>2, <3>3
  <2>2. CASE k # 1
    <3>1. r \in Seq(Nat) /\ Len(r) = C(k - 1)
      BY <2>2 DEF ListsUpTo, C
    <3>2. t = r \o a
      BY <2>2
    <3> HIDE DEF t
    <3>3. t \in Seq(Nat) /\ Len(t) = Len(r) + Len(a)
          /\ \A i \in 1..Len(r) + Len(a) : t[i] = IF i <= Len(r) THEN r[i] ELSE a[i - Len(r)]
      BY <1>4, <3>1, <3>2, ConcatProperties
    <3>4. \A i \in 1..Cardinality(B) : /\ C(k - 1) + i \in 1..C(k - 1) + Cardinality(B)
                                       /\ ~(C(k - 1) + i <= C(k - 1))
                                       /\ (C(k - 1) + i) - C(k - 1) = i
      BY <1>2
    <3>5. \A i \in 1..C(k - 1) : i \in 1..C(k - 1) + Cardinality(B) /\ i <= C(k - 1)
      BY <1>2
    <3>6. Len(t) = C(k)
      BY <1>2, <1>4, <3>1, <3>3
    <3>7. \A i \in 1..Cardinality(B) : t[C(k - 1) + i] = a[i]
      BY <1>4, <3>1, <3>3, <3>4
    <3>8. \A i \in 1..C(k - 1) : t[i] = r[i]
      BY <1>4, <3>1, <3>3, <3>5
    <3> QED
      BY <3>3, <3>6, <3>7, <3>8
  <2> QED
    BY <2>1, <2>2
<1> HIDE DEF t
<1>8. ASSUME NEW d \in 1..k
      PROVE  /\ C(d) \in Nat /\ C(d - 1) \in Nat /\ C(d) <= C(k)
             /\ {t[i] : i \in C(d - 1) + 1..C(d)} = Backward(ord, d)
  <2>1. CASE d = k
    <3> DEFINE c == C(k - 1)
               n == Cardinality(B)
               R == {t[i] : i \in c + 1..c + n}
    <3>1. \A i \in 1..n : c + i \in c + 1..c + n
      BY <1>2
    <3>2. \A i \in c + 1..c + n : i - c \in 1..n /\ c + (i - c) = i
      BY <1>2
    <3> HIDE DEF c, n
    <3>3. \A i \in 1..n : t[c + i] = a[i]
      BY <1>7 DEF c, n
    <3>4. \A i \in 1..n : a[i] \in R
      BY <3>1, <3>3
    <3>5. \A i \in c + 1..c + n : t[i] = a[i - c]
      BY <3>2, <3>3
    <3>6. \A x \in R : \E i \in 1..n : x = a[i]
      BY <3>2, <3>5
    <3>7. B = {a[i] : i \in 1..n}
      BY <1>6 DEF n
    <3> HIDE DEF R
    <3>8. R = B
      BY <3>4, <3>6, <3>7
    <3>9. C(d - 1) = c /\ C(d) = c + n
      BY <1>2, <2>1 DEF c, n
    <3> QED
      BY <1>2, <2>1, <3>8, <3>9 DEF R, B, c, n
  <2>2. CASE d # k
    <3>1. k # 1 /\ d \in 1..k - 1
      BY <2>2
    <3>2. /\ C(d) \in Nat /\ C(d - 1) \in Nat /\ C(d) <= C(k - 1)
          /\ {r[i] : i \in C(d - 1) + 1..C(d)} = Backward(ord, d)
      BY <3>1 DEF ListsUpTo, C
    <3>3. \A i \in C(d - 1) + 1..C(d) : i \in 1..C(k - 1)
      BY <1>2, <3>2
    <3>4. \A i \in C(d - 1) + 1..C(d) : t[i] = r[i]
      BY <1>7, <3>1, <3>3
    <3>5. {t[i] : i \in C(d - 1) + 1..C(d)} = {r[i] : i \in C(d - 1) + 1..C(d)}
      BY <3>4
    <3>6. C(d) <= C(k)
      BY <1>2, <3>2
    <3> QED
      BY <3>2, <3>5, <3>6
  <2> QED
    BY <2>1, <2>2
<1> QED
  BY <1>7, <1>8 DEF ListsUpTo, t, a, B, C

(* Every query edge leads back once, from the later of its ends. *)
LEMMA EntriesAreEdges ==
  ASSUME Loaded, NEW e \in QEdges
  PROVE  Count(indexing[e], N) <= Len(qe_list)
<1> DEFINE ord == indexing[e]
           E == Entries(ord, 1..N)
           m == Len(qe_list)
           Is(i, x) == \/ qe_list[i] = <<ord[x[1]], ord[x[2]]>>
                       \/ qe_list[i] = <<ord[x[2]], ord[x[1]]>>
           at(x) == CHOOSE i \in 1..m : Is(i, x)
           f == [x \in E |-> at(x)]
<1>1. qe_list \in Seq(QV \X QV)
      /\ \A u, w \in QV : w \in nbrs[u] => <<u, w>> \in Range(qe_list) \/ <<w, u>> \in Range(qe_list)
  BY DEF Loaded, Edges
<1>2. m \in Nat /\ DOMAIN qe_list = 1..m
  BY <1>1, LenProperties
<1>3. ord \in Seq(QV) /\ IsInjective(ord) /\ Len(ord) = N
  BY IndexingUsable DEF IndexingOf
<1>4. N \in Nat
  BY FS_CardinalityType DEF Loaded, N
<1>5. DOMAIN ord = 1..N /\ \A k \in 1..N : ord[k] \in QV
  BY <1>3, LenProperties, ElementOfSeq
<1> HIDE DEF ord, m
<1>6. \A j, k \in 1..N : ord[j] = ord[k] => j = k
  BY <1>3, <1>5 DEF IsInjective
<1>7. ASSUME NEW x \in E
      PROVE  /\ x \in (1..N) \X (1..N) /\ x[1] \in 1..N /\ x[2] \in 1..N /\ x[2] < x[1]
             /\ x = <<x[1], x[2]>> /\ ord[x[2]] \in nbrs[ord[x[1]]]
  <2>1. x \in (1..N) \X (1..N) /\ x[2] \in Backward(ord, x[1])
    BY DEF Entries
  <2>2. x[1] \in 1..N /\ x[2] \in 1..N /\ x = <<x[1], x[2]>>
    BY <2>1
  <2>3. x[2] \in 1..x[1] - 1 /\ ord[x[2]] \in nbrs[ord[x[1]]]
    BY <2>1 DEF Backward
  <2>4. x[2] < x[1]
    BY <2>2, <2>3
  <2> QED
    BY <2>1, <2>2, <2>3, <2>4
<1> HIDE DEF E
<1>8. ASSUME NEW x \in E PROVE at(x) \in 1..m /\ Is(at(x), x)
  <2>1. \/ <<ord[x[1]], ord[x[2]]>> \in Range(qe_list)
        \/ <<ord[x[2]], ord[x[1]]>> \in Range(qe_list)
    BY <1>1, <1>5, <1>7
  <2>2. \E i \in 1..m : Is(i, x)
    BY <1>2, <2>1 DEF Range
  <2> HIDE DEF Is
  <2> QED
    BY <2>2
<1> HIDE DEF at
<1>9. ASSUME NEW x \in E, NEW y \in E, at(x) = at(y) PROVE x = y
  <2> DEFINE p == qe_list[at(x)]
  <2>1. p = <<ord[x[1]], ord[x[2]]>> \/ p = <<ord[x[2]], ord[x[1]]>>
    BY <1>8
  <2>2. p = <<ord[y[1]], ord[y[2]]>> \/ p = <<ord[y[2]], ord[y[1]]>>
    BY <1>8, <1>9
  <2> HIDE DEF p, Is
  <2>3. \/ ord[x[1]] = ord[y[1]] /\ ord[x[2]] = ord[y[2]]
        \/ ord[x[1]] = ord[y[2]] /\ ord[x[2]] = ord[y[1]]
    BY <2>1, <2>2
  <2>4. \/ x[1] = y[1] /\ x[2] = y[2]
        \/ x[1] = y[2] /\ x[2] = y[1]
    BY <1>6, <1>7, <2>3
  <2>5. ~(x[1] = y[2] /\ x[2] = y[1])
    <3>1. /\ x[1] \in 1..N /\ x[2] \in 1..N /\ x[2] < x[1]
          /\ y[1] \in 1..N /\ y[2] \in 1..N /\ y[2] < y[1]
      BY <1>7
    <3> QED
      BY <1>4, <3>1
  <2> QED
    BY <1>7, <2>4, <2>5
<1>10. f \in Injection(E, 1..m)
  BY <1>8, <1>9 DEF Injection, IsInjective
<1>11. IsFiniteSet(1..m) /\ Cardinality(1..m) = m
  <2>1. Cardinality(1..m) = IF 1 > m THEN 0 ELSE m - 1 + 1
    BY <1>2, FS_Interval
  <2> QED
    BY <1>2, <2>1, FS_Interval
<1> HIDE DEF f
<1>12. Cardinality(E) <= m
  BY <1>10, <1>11, FS_Injection
<1> QED
  BY <1>12 DEF Count, E, ord, m

(* What is read for a position are the joined entries of it. *)
LEMMA ReadIsBackward ==
  ASSUME Loaded, NEW e \in QEdges, NEW d \in 2..N, Len(qe_list) < MAX_ECOUNT
  PROVE  {BniRead(e, i) : i \in BniOffset(indexing[e], d)..BniOffset(indexing[e], d + 1) - 1}
           = Backward(indexing[e], d)
<1> DEFINE ord == indexing[e]
           q == [k \in 1..N |-> AscendingSeq(Backward(ord, k))]
           C(k) == Count(ord, k)
<1>1. N \in Nat /\ N >= 2
  BY FS_CardinalityType DEF Loaded, N
<1>2. \A k \in 1..N : AscendingSeq(Backward(ord, k)) \in Seq(Nat)
  <2> SUFFICES ASSUME NEW k \in 1..N PROVE AscendingSeq(Backward(ord, k)) \in Seq(Nat)
    OBVIOUS
  <2> DEFINE B == Backward(ord, k)
  <2>1. B \subseteq 1..N
    BY <1>1 DEF Backward
  <2>2. IsFiniteSet(1..N) /\ 1..N \subseteq Nat
    BY <1>1, FS_Interval
  <2> HIDE DEF B
  <2>3. IsFiniteSet(B) /\ B \subseteq Nat
    BY <2>1, <2>2, FS_Subset
  <2>4. AscendingSeq(B) \in Seq(B)
    BY <2>3, Ascending
  <2> QED
    BY <2>3, <2>4, SeqMonotonic DEF B
<1> HIDE DEF ord
<1>3. q \in [1..N -> Seq(Nat)]
  BY <1>2
<1>4. \A k \in 1..N : q[k] = AscendingSeq(Backward(ord, k))
  OBVIOUS
<1>5. BniWritten(ord) = <<2>> \o FlattenSeq(q)
  BY DEF BniWritten
<1> HIDE DEF q
<1>6. PICK h : Flattens(h, q)
  BY <1>1, <1>3, FlattenFold
<1>7. h[1] = q[1] /\ (\A k \in 2..N : h[k] = h[k - 1] \o q[k]) /\ FlattenSeq(q) = h[N]
  BY <1>6 DEF Flattens
<1>8. ListsUpTo(h[N], ord, N)
  <2> DEFINE S == {k \in 0..N : k = 0 \/ ListsUpTo(h[k], ord, k)}
  <2>1. 0 \in S
    BY <1>1
  <2>2. ASSUME NEW k \in 1..N, k - 1 \in S PROVE k \in S
    <3>1. k = 1 \/ ListsUpTo(h[k - 1], ord, k - 1)
      BY <2>2
    <3>2. ListsUpTo(IF k = 1 THEN AscendingSeq(Backward(ord, k))
                ELSE h[k - 1] \o AscendingSeq(Backward(ord, k)), ord, k)
      BY <1>1, <3>1, ListsNext
    <3>3. h[k] = IF k = 1 THEN AscendingSeq(Backward(ord, k))
                 ELSE h[k - 1] \o AscendingSeq(Backward(ord, k))
      <4>1. CASE k = 1
        BY <1>4, <1>7, <4>1
      <4>2. CASE k # 1
        <5>1. k \in 2..N
          BY <4>2
        <5> QED
          BY <1>4, <1>7, <4>2, <5>1
      <4> QED
        BY <4>1, <4>2
    <3> QED
      BY <3>2, <3>3
  <2>3. N \in 0..N /\ N # 0
    BY <1>1
  <2> HIDE DEF S
  <2>4. N \in S
    BY <1>1, <2>1, <2>2, <2>3, CountUp
  <2> QED
    BY <2>3, <2>4 DEF S
<1> DEFINE r == h[N]
           w == BniWritten(ord)
<1>9. /\ r \in Seq(Nat) /\ Len(r) = C(N)
      /\ C(d) \in Nat /\ C(d - 1) \in Nat /\ C(d) <= C(N)
      /\ {r[i] : i \in C(d - 1) + 1..C(d)} = Backward(ord, d)
  <2>1. d \in 1..N
    OBVIOUS
  <2> QED
    BY <1>8, <2>1 DEF ListsUpTo
<1>10. BniOffset(ord, d) = 1 + C(d - 1) /\ BniOffset(ord, d + 1) = 1 + C(d)
  <2>1. d \in 2..N + 1 /\ d + 1 \in 2..N + 1 /\ (d + 1) - 1 = d
    BY <1>1
  <2> QED
    BY <1>1, <2>1, OffsetIs DEF Count
<1>11. C(N) <= Len(qe_list) /\ Len(qe_list) \in Nat /\ C(N) \in Nat
  <2>1. C(N) <= Len(qe_list)
    BY EntriesAreEdges DEF ord
  <2>2. Len(qe_list) \in Nat
    BY LenProperties DEF Loaded, Edges
  <2>3. C(N) \in Nat
    BY <1>9, LenProperties
  <2> QED
    BY <2>1, <2>2, <2>3
<1> HIDE DEF C, r, w
<1>12. \A i \in 1..C(N) : w[i + 1] = r[i]
  <2>1. <<2>> \in Seq(Nat) /\ Len(<<2>>) = 1
    OBVIOUS
  <2>2. w = <<2>> \o r
    BY <1>5, <1>7 DEF w, r
  <2>3. \A i \in 1..Len(<<2>>) + Len(r) : w[i] = IF i <= Len(<<2>>) THEN <<2>>[i] ELSE r[i - Len(<<2>>)]
    BY <1>9, <2>1, <2>2, ConcatProperties
  <2>4. \A i \in 1..C(N) : i + 1 \in 1..1 + C(N) /\ ~(i + 1 <= 1) /\ (i + 1) - 1 = i
    BY <1>11
  <2> QED
    BY <1>9, <2>1, <2>3, <2>4
<1>13. \A i \in 1 + C(d - 1)..C(d) : i \in 1..C(N) /\ i < MAX_ECOUNT
  BY <1>9, <1>11, PlanConstants
<1>14. \A i \in 1 + C(d - 1)..C(d) : BniRead(e, i) = r[i]
  BY <1>12, <1>13 DEF BniRead, w, ord
<1>15. BniOffset(ord, d + 1) - 1 = C(d) /\ BniOffset(ord, d) = C(d - 1) + 1
  <2>1. (1 + C(d)) - 1 = C(d) /\ 1 + C(d - 1) = C(d - 1) + 1
    BY <1>9
  <2> QED
    BY <1>10, <2>1
<1>16. {BniRead(e, i) : i \in C(d - 1) + 1..C(d)} = {r[i] : i \in C(d - 1) + 1..C(d)}
  <2>1. 1 + C(d - 1) = C(d - 1) + 1
    BY <1>9
  <2> QED
    BY <1>14, <2>1
<1> QED
  BY <1>9, <1>15, <1>16 DEF ord

-----------------------------------------------------------------------------
(* The invariant: nothing is planned before the query is accepted; then    *)
(* the query and its indexing orders are there, and once the index is      *)
(* measured the order so far and the flags are as above.                   *)
Reading == {"inputQ", "inputG", "inputGBin", "inputUpdate", "SetQueryMeta", "exit"}

Waiting ==
  /\ nbrs = QueryOf(input.query) /\ Loaded
  /\ order = <<>> /\ visits = [u \in QV |-> 0]
  /\ flags = <<>> /\ rebuild = <<>>

PlanInv ==
  /\ input \in Inputs
  /\ phase \in Reading \cup {"ConvertGlobalIndex", "plan"}
  /\ phase \in Reading => NoPlan
  /\ phase = "ConvertGlobalIndex" => Waiting
  /\ phase = "plan" => Loaded /\ Measured /\ Ordered /\ Flagged

LEMMA PlanInitial == StartupInit => PlanInv
BY DEF StartupInit, PlanInv, Reading

(* The files are read. *)
LEMMA ReadingStep ==
  ASSUME PlanInv, InputQ \/ InputG \/ InputUpdate \/ InputGBin \/ Refuse
  PROVE  PlanInv'
<1>1. phase \in Reading /\ phase' \in Reading /\ UNCHANGED <<input, vars>>
  BY DEF InputQ, InputG, InputUpdate, InputGBin, Refuse, Reading, loaded
<1>2. NoPlan /\ input \in Inputs
  BY <1>1 DEF PlanInv
<1>3. NoPlan'
  BY <1>1, <1>2 DEF NoPlan, vars, query
<1>4. phase' \notin {"ConvertGlobalIndex", "plan"}
  BY <1>1 DEF Reading
<1> QED
  BY <1>1, <1>2, <1>3, <1>4 DEF PlanInv

(* The query is accepted. *)
LEMMA AcceptStep ==
  ASSUME PlanInv, SetQueryMeta
  PROVE  PlanInv'
<1> DEFINE nbr == ReadNbrs(input.query)
           g == QueryOf(input.query)
           list == EdgeList(nbr)
           n == Len(input.query.vs)
           V == 0..n - 1
<1>1. /\ input \in Inputs /\ NoPlan /\ Accepted
      /\ GenerateIndexingOrders(g, list)
      /\ phase' = "ConvertGlobalIndex" /\ input' = input
  BY DEF SetQueryMeta, PlanInv, Reading
<1>2. n \in Nat /\ n >= 2
  BY <1>1, QueryFacts DEF Accepted
<1>3. Connected(g, V) /\ Edges(list, g, V)
  BY <1>1, <1>2, QueryFacts
<1> HIDE DEF g, list, nbr, n
<1>4. DOMAIN g = V
  BY <1>3 DEF Connected
<1>5. IsFiniteSet(V) /\ Cardinality(V) = n /\ V \subseteq Nat
  <2>1. IsFiniteSet(V) /\ Cardinality(V) = IF 0 > n - 1 THEN 0 ELSE n - 1 - 0 + 1
    BY <1>2, FS_Interval
  <2> QED
    BY <1>2, <2>1
<1> HIDE DEF V
<1>6. /\ nbrs' = g /\ qe_list' = list
      /\ indexing' = [e \in DOMAIN list |-> IndexingOrder(g, list[e])]
      /\ visits' = [u \in DOMAIN g |-> 0]
      /\ order' = <<>> /\ flags' = <<>> /\ rebuild' = <<>>
  BY <1>1 DEF GenerateIndexingOrders, NoPlan
<1>7. QV' = V /\ N' = n
  BY <1>4, <1>5, <1>6 DEF QV, N
<1>8. Loaded'
  BY <1>2, <1>3, <1>5, <1>6, <1>7 DEF Loaded
<1>9. Waiting'
  BY <1>1, <1>4, <1>6, <1>7, <1>8 DEF Waiting, g
<1> QED
  BY <1>1, <1>9 DEF PlanInv, Reading

(* The index is measured. *)
LEMMA MeasureStep ==
  ASSUME PlanInv, Measure
  PROVE  PlanInv'
<1>1. /\ input \in Inputs /\ Waiting
      /\ ChooseStatistics /\ phase' = "plan" /\ input' = input
  BY DEF Measure, PlanInv, loaded
<1>2. /\ nbrs' = nbrs /\ qe_list' = qe_list /\ indexing' = indexing
      /\ order' = <<>> /\ visits' = visits /\ flags' = <<>> /\ rebuild' = <<>>
  BY <1>1 DEF ChooseStatistics, Waiting
<1>3. QV' = QV /\ N' = N /\ QEdges' = QEdges
  BY <1>2 DEF QV, N, QEdges
<1>4. Loaded'
  <2>1. Loaded
    BY <1>1 DEF Waiting
  <2> QED
    BY <1>2, <1>3, <2>1 DEF Loaded
<1>5. Measured'
  <2>1. Statistics(nbrs) \subseteq [avg : Numbers(nbrs), card : Numbers(nbrs)]
    BY <1>1, InputsAssumption DEF Waiting
  <2>2. /\ stat' \in Statistics(nbrs) /\ variant' \in Variants
        /\ edge' \in IF variant' \in {"edge", "forced"} THEN QEdges ELSE {0}
    BY <1>1 DEF ChooseStatistics
  <2>3. variant' \in {"global", "gsi", "edge", "forced"}
    BY <2>2, PlanConstants
  <2>4. stat' \in [avg : Numbers(nbrs), card : Numbers(nbrs)]
    BY <2>1, <2>2
  <2> QED
    BY <1>2, <1>3, <2>2, <2>3, <2>4 DEF Measured
<1>6. Ordered'
  <2>1. visits' = [u \in QV |-> 0]
    BY <1>1, <1>2 DEF Waiting
  <2>2. \A u \in QV : BackwardNbrs(u)' = {}
    <3>1. Visited' = {}
      BY <1>2 DEF Visited, Range
    <3> QED
      BY <3>1 DEF BackwardNbrs
  <2>3. Cardinality({}) = 0
    BY FS_EmptySet
  <2>4. /\ <<>> \in Seq(QV) /\ IsInjective(<<>>) /\ Len(<<>>) = 0 /\ 2..0 = {}
    BY DEF IsInjective
  <2>5. visits' \in [QV -> Nat]
    BY <2>1
  <2>6. \A u \in QV : visits'[u] = Cardinality(BackwardNbrs(u)')
    BY <2>1, <2>2, <2>3
  <2> QED
    BY <1>2, <1>3, <2>4, <2>5, <2>6 DEF Ordered
<1>7. Flagged'
  BY <1>2 DEF Flagged
<1> QED
  BY <1>1, <1>4, <1>5, <1>6, <1>7 DEF PlanInv, Reading

-----------------------------------------------------------------------------
(* A step of the planner: it leaves the query and the statistics alone. *)
LEMMA Kept ==
  ASSUME UNCHANGED query
  PROVE  /\ QV' = QV /\ N' = N /\ QEdges' = QEdges /\ Planned' = Planned
         /\ Loaded => Loaded'
         /\ Measured => Measured'
<1>1. /\ nbrs' = nbrs /\ qe_list' = qe_list /\ indexing' = indexing
      /\ stat' = stat /\ variant' = variant /\ edge' = edge
  BY DEF query
<1>2. QV' = QV /\ N' = N /\ QEdges' = QEdges
  BY <1>1 DEF QV, N, QEdges
<1>3. Planned' = Planned
  BY <1>1, <1>2 DEF Planned
<1>4. Loaded => Loaded'
  BY <1>1, <1>2 DEF Loaded
<1>5. Measured => Measured'
  BY <1>1, <1>2 DEF Measured
<1> QED
  BY <1>2, <1>3, <1>4, <1>5

(* The order is not complete, so nothing is flagged yet. *)
LEMMA NotFlagged ==
  ASSUME Flagged, Len(order) # N, UNCHANGED <<flags, rebuild>>
  PROVE  Flagged'
BY DEF Flagged

LEMMA StartStep ==
  ASSUME Loaded, Measured, Ordered, Flagged, Start
  PROVE  Ordered' /\ Flagged'
<1>1. order = <<>> /\ variant # "gsi" /\ UNCHANGED <<query, visits, flags, rebuild>>
  BY DEF Start
<1>2. \E e \in QEdges : order' = qe_list[e]
  <2>1. Cheapest(Densest) \in QEdges /\ Densest \subseteq QEdges
    BY StartingEdges
  <2>2. CASE variant = "global"
    BY <2>1, <2>2 DEF Start, SelectStartingEdge
  <2>3. CASE variant = "edge"
    BY <2>1, <2>3 DEF Start, StartingEdgeOf
  <2>4. CASE variant = "forced"
    BY <2>4 DEF Start, Measured
  <2> QED
    BY <1>1, <2>2, <2>3, <2>4 DEF Measured
<1>3. Ordered'
  BY <1>1, <1>2, OrderStarts
<1>4. Len(order) # N
  BY <1>1 DEF Loaded
<1> QED
  BY <1>1, <1>3, <1>4, NotFlagged

LEMMA AddStep ==
  ASSUME Loaded, Measured, Ordered, Flagged, AddVertex
  PROVE  Ordered' /\ Flagged'
<1>1. /\ order # <<>> /\ Len(order) < N /\ variant # "gsi"
      /\ UNCHANGED <<query, visits, flags, rebuild>>
  BY DEF AddVertex
<1>2. PICK S \in BeforeJump(Extendable) : order' = Append(order, Preferred(S))
  BY DEF AddVertex
<1>3. Extendable # {}
  BY <1>1, SomeExtendable
<1>4. S \subseteq Extendable /\ S # {}
  BY <1>3, BeforeJumpSome
<1>5. Preferred(S) \in S
  BY <1>4, PreferredIn
<1>6. Preferred(S) \in Extendable /\ Preferred(S) \in QV \ Visited
  BY <1>4, <1>5 DEF Extendable
<1>7. Ordered'
  BY <1>1, <1>2, <1>6, OrderGrows
<1>8. Len(order) # N
  <2>1. N \in Nat /\ Len(order) \in Nat
    BY OrderedFacts, LenProperties DEF Ordered
  <2> QED
    BY <1>1, <2>1
<1> QED
  BY <1>1, <1>7, <1>8, NotFlagged

LEMMA AddGSIStep ==
  ASSUME Loaded, Measured, Ordered, Flagged, AddVertexGSI
  PROVE  Ordered' /\ Flagged'
<1> DEFINE among == IF order = <<>> THEN QV ELSE Extendable
           u == Min(Best(Lowest(among), NumBackward))
<1>1. /\ variant = "gsi" /\ Len(order) < N
      /\ order' = Append(order, u)
      /\ visits' = [w \in QV |-> IF w \in nbrs[u] THEN visits[w] + 1 ELSE visits[w]]
      /\ UNCHANGED <<query, flags, rebuild>>
  BY DEF AddVertexGSI
<1>2. among \in SUBSET QV /\ among # {}
  <2>1. CASE order = <<>>
    <3>1. Len(order) = 0 /\ N >= 2 /\ Cardinality({}) = 0
      BY <2>1, FS_EmptySet DEF Loaded
    <3>2. QV # {}
      BY <3>1 DEF N
    <3> QED
      BY <2>1, <3>2
  <2>2. CASE order # <<>>
    BY <1>1, <2>2, SomeExtendable
  <2> QED
    BY <2>1, <2>2
<1>3. u \in among
  <2> HIDE DEF among
  <2> QED
    BY <1>1, <1>2, GSIChoice
<1>4. u \in QV \ Visited /\ (order # <<>> => u \in Extendable)
  <2>1. CASE order = <<>>
    <3>1. Visited = {}
      BY <2>1 DEF Visited, Range
    <3> QED
      BY <1>3, <2>1, <3>1
  <2>2. CASE order # <<>>
    BY <1>3, <2>2 DEF Extendable
  <2> QED
    BY <2>1, <2>2
<1> HIDE DEF u, among
<1>5. Ordered'
  BY <1>1, <1>4, OrderGrows
<1>6. Len(order) # N
  <2>1. N \in Nat /\ Len(order) \in Nat
    BY OrderedFacts, LenProperties DEF Ordered
  <2> QED
    BY <1>1, <2>1
<1> QED
  BY <1>1, <1>5, <1>6, NotFlagged

(* The search starts with the first two of a complete order. *)
LEMMA StartVertices ==
  ASSUME Loaded, Ordered, Len(order) = N
  PROVE  order[1] \in QV /\ order[2] \in QV
<1>1. N \in Nat /\ N >= 2 /\ order \in Seq(QV)
  BY FS_CardinalityType DEF Loaded, Ordered, N
<1>2. 1 \in 1..Len(order) /\ 2 \in 1..Len(order)
  BY <1>1
<1> QED
  BY <1>1, <1>2, ElementOfSeq

LEMMA FlagsStep ==
  ASSUME Loaded, Measured, Ordered, Flagged, SetFlags
  PROVE  Ordered' /\ Flagged'
<1>1. /\ Len(order) = N /\ flags = <<>>
      /\ flags' = [e \in Planned |-> RebuildFlags(e)]
      /\ UNCHANGED <<query, order, visits, rebuild>>
  BY DEF SetFlags
<1>2. rebuild' = <<>>
  BY <1>1 DEF Flagged
<1>3. \A e \in Planned : \A s \in {order[1], order[2]} : FlagsFrom(flags'[e], s, e)
  BY <1>1, StartVertices, FlagsMade DEF Planned
<1>4. \A e \in Planned : AgreesWith(flags'[e], e)
  BY <1>1, StartVertices, FlagsAgreeing DEF Planned
<1>5. /\ nbrs' = nbrs /\ qe_list' = qe_list /\ indexing' = indexing
      /\ QV' = QV /\ N' = N /\ Planned' = Planned
  BY <1>1, Kept DEF query
<1>6. (\A e \in Planned : \A s \in {order[1], order[2]} : FlagsFrom(flags[e], s, e))'
  BY <1>1, <1>3, <1>5 DEF FlagsFrom, PathTo
<1>7. (\A e \in Planned : AgreesWith(flags[e], e))'
  BY <1>4, <1>5 DEF AgreesWith, Backward
<1>8. Len(order') = N'
  BY <1>1, <1>5
<1>9. Flagged'
  BY <1>2, <1>6, <1>7, <1>8 DEF Flagged
<1>10. Ordered'
  BY <1>1, <1>5 DEF Ordered, Backward, BackwardNbrs, Visited, query
<1> QED
  BY <1>9, <1>10

LEMMA RebuildStep ==
  ASSUME Loaded, Measured, Ordered, Flagged, SetRebuildV
  PROVE  Ordered' /\ Flagged'
<1>1. /\ flags # <<>>
      /\ rebuild' = [e \in Planned |-> RebuildV(e)]
      /\ UNCHANGED <<query, order, visits, flags>>
  BY DEF SetRebuildV
<1>2. /\ Len(order) = N
      /\ \A e \in Planned : \A s \in {order[1], order[2]} : FlagsFrom(flags[e], s, e)
      /\ \A e \in Planned : AgreesWith(flags[e], e)
  BY <1>1 DEF Flagged
<1>3. \A e \in Planned : {order[1], order[2]} \subseteq rebuild'[e]
  BY <1>1, <1>2, StartVertices, StartInRebuild DEF Planned
<1>4. /\ nbrs' = nbrs /\ qe_list' = qe_list /\ indexing' = indexing
      /\ QV' = QV /\ N' = N /\ Planned' = Planned
  BY <1>1, Kept DEF query
<1>5. (\A e \in Planned : \A s \in {order[1], order[2]} : FlagsFrom(flags[e], s, e))'
  BY ZenonT(40), <1>1, <1>2, <1>4 DEF FlagsFrom, PathTo
<1>6. (\A e \in Planned : AgreesWith(flags[e], e))'
  BY <1>1, <1>2, <1>4 DEF AgreesWith, Backward
<1>7. /\ flags' # <<>> /\ Len(order') = N'
      /\ \A e \in Planned' : {order'[1], order'[2]} \subseteq rebuild'[e]
  BY <1>1, <1>2, <1>3, <1>4
<1>8. Flagged'
  BY <1>5, <1>6, <1>7 DEF Flagged
<1>9. Ordered'
  BY <1>1, <1>4 DEF Ordered, Backward, BackwardNbrs, Visited, query
<1> QED
  BY <1>8, <1>9

LEMMA PlannerStep ==
  ASSUME PlanInv, phase = "plan", Next, UNCHANGED <<loaded, phase>>
  PROVE  PlanInv'
<1>1. Loaded /\ Measured /\ Ordered /\ Flagged /\ input \in Inputs
  BY DEF PlanInv
<1>2. UNCHANGED query
  BY DEF Next, Start, AddVertex, AddVertexGSI, SetFlags, SetRebuildV
<1>3. Ordered' /\ Flagged'
  BY <1>1, StartStep, AddStep, AddGSIStep, FlagsStep, RebuildStep DEF Next
<1>4. Loaded' /\ Measured'
  BY <1>1, <1>2, Kept
<1> QED
  BY <1>1, <1>3, <1>4 DEF PlanInv, Reading, loaded

LEMMA StutterStep ==
  ASSUME PlanInv, UNCHANGED svars
  PROVE  PlanInv'
<1>1. UNCHANGED <<query, order, visits, flags, rebuild, input, phase>>
  BY DEF svars, loaded, vars
<1>2. /\ QV' = QV /\ N' = N /\ Planned' = Planned /\ nbrs' = nbrs /\ qe_list' = qe_list
  BY <1>1, Kept DEF query
<1>3. Ordered => Ordered'
  BY <1>1, <1>2 DEF Ordered, Backward, BackwardNbrs, Visited, query
<1>4. Flagged => Flagged'
  BY ZenonT(40), <1>1, <1>2 DEF Flagged, FlagsFrom, PathTo, AgreesWith, Backward, query
<1>5. NoPlan => NoPlan'
  BY <1>1 DEF NoPlan, query
<1>6. ASSUME Waiting PROVE Waiting'
  <2>1. /\ nbrs = QueryOf(input.query) /\ Loaded
        /\ order = <<>> /\ visits = [u \in QV |-> 0] /\ flags = <<>> /\ rebuild = <<>>
    BY <1>6 DEF Waiting
  <2>2. UNCHANGED query
    BY <1>1
  <2>3. Loaded'
    BY <2>1, <2>2, Kept
  <2>4. nbrs' = QueryOf(input.query)'
    BY <1>1, <1>2, <2>1
  <2> QED
    BY <1>1, <1>2, <2>1, <2>3, <2>4 DEF Waiting
<1>7. phase' = phase /\ input' = input /\ input \in Inputs
  BY <1>1 DEF PlanInv
<1>8. CASE phase \in Reading /\ NoPlan
  <2>1. NoPlan'
    BY <1>5, <1>8
  <2>2. phase \notin {"ConvertGlobalIndex", "plan"}
    BY <1>8 DEF Reading
  <2> QED
    BY <1>7, <1>8, <2>1, <2>2 DEF PlanInv
<1>9. CASE phase = "ConvertGlobalIndex" /\ Waiting
  BY <1>6, <1>7, <1>9 DEF PlanInv, Reading
<1>10. CASE phase = "plan" /\ Loaded /\ Measured /\ Ordered /\ Flagged
  <2>1. UNCHANGED query
    BY <1>1
  <2>2. Loaded' /\ Measured'
    BY <1>10, <2>1, Kept
  <2>3. Ordered' /\ Flagged'
    BY <1>3, <1>4, <1>10
  <2> QED
    BY <1>7, <1>10, <2>2, <2>3 DEF PlanInv, Reading
<1> QED
  BY <1>8, <1>9, <1>10 DEF PlanInv

LEMMA PlanPreserved == PlanInv /\ [StartupNext]_svars => PlanInv'
<1> SUFFICES ASSUME PlanInv, [StartupNext]_svars PROVE PlanInv'
  OBVIOUS
<1>1. CASE InputQ \/ InputG \/ InputUpdate \/ InputGBin \/ Refuse
  BY <1>1, ReadingStep
<1>2. CASE SetQueryMeta
  BY <1>2, AcceptStep
<1>3. CASE Measure
  BY <1>3, MeasureStep
<1>4. CASE phase = "plan" /\ Next /\ UNCHANGED <<loaded, phase>>
  BY <1>4, PlannerStep
<1>5. CASE UNCHANGED svars
  BY <1>5, StutterStep
<1> QED
  BY <1>1, <1>2, <1>3, <1>4, <1>5 DEF StartupNext

LEMMA PlanAlways == StartupSpec => []PlanInv
BY PlanInitial, PlanPreserved, PTL DEF StartupSpec

-----------------------------------------------------------------------------
(* What the matching kernels take for granted of every plan.  For every    *)
(* query file and all statistics, whatever the ties are decided by, each   *)
(* order has a vertex once and next to one before it, and every indexing   *)
(* order has all vertices.                                                 *)
THEOREM PlanIsUsable == StartupSpec => []PlanUsable
<1>1. PlanInv => PlanUsable
  <2> SUFFICES ASSUME PlanInv PROVE PlanUsable
    OBVIOUS
  <2>1. CASE order = <<>> /\ rebuild = <<>>
    <3>1. IsInjective(<<>>) /\ 2..Len(<<>>) = {}
      BY DEF IsInjective
    <3> QED
      BY <2>1, <3>1 DEF PlanUsable, Complete
  <2>2. CASE Loaded /\ Measured /\ Ordered
    <3>1. IsInjective(order) /\ \A d \in 2..Len(order) : First(order, d) # {}
      BY <2>2, FirstSome DEF Loaded, Ordered
    <3>2. \A e \in Planned :
            /\ IsInjective(indexing[e]) /\ Len(indexing[e]) = N
            /\ \A d \in 2..N : Backward(indexing[e], d) # {}
      BY <2>2, IndexingUsable DEF Planned, IndexingOf
    <3> QED
      BY <3>1, <3>2 DEF PlanUsable
  <2> QED
    BY <2>1, <2>2 DEF PlanInv, NoPlan, Waiting
<1> QED
  BY <1>1, PlanAlways, PTL

(* The narrowing reaches the search: the flags of a query edge have the    *)
(* first edge of every path from the start of the search to it, and some   *)
(* path runs along the indexing order; so the start is rebuilt.            *)
THEOREM StartIsRebuilt == StartupSpec => []StartRebuilt
<1>1. PlanInv => StartRebuilt
  BY DEF PlanInv, StartRebuilt, Complete, Flagged, NoPlan, Waiting
<1> QED
  BY <1>1, PlanAlways, PTL

(* The program gives up on no query it has accepted: of the query edges    *)
(* that lead back from a vertex of an indexing order, either all or none   *)
(* are flagged, whatever order the search has.  A path that passes the     *)
(* vertex can be led through any of them (Splice).                         *)
THEOREM FlagsAlwaysAgree == StartupSpec => []FlagsAgree
<1>1. ASSUME NEW e \in Planned, AgreesWith(flags[e], e) PROVE Agreed(e)
  <2> SUFFICES ASSUME NEW d \in 2..N, NEW j \in FlaggedBackward(e, d)
               PROVE  FlaggedBackward(e, d) = Backward(indexing[e], d)
    BY DEF Agreed
  <2>1. j \in Backward(indexing[e], d) /\ {indexing[e][j], indexing[e][d]} \in flags[e]
    BY DEF FlaggedBackward
  <2>2. \A k \in Backward(indexing[e], d) : {indexing[e][k], indexing[e][d]} \in flags[e]
    BY <1>1, <2>1 DEF AgreesWith
  <2> QED
    BY <2>2 DEF FlaggedBackward
<1>2. PlanInv => FlagsAgree
  <2>1. CASE flags = <<>>
    BY <2>1 DEF FlagsAgree
  <2>2. CASE Flagged
    BY <1>1, <2>2 DEF Flagged, FlagsAgree
  <2> QED
    BY <2>1, <2>2 DEF PlanInv, NoPlan, Waiting
<1> QED
  BY <1>2, PlanAlways, PTL

(* The class of a suffix says exactly whether it is a product, and a tree  *)
(* product; for every query graph and every order of it.                   *)
THEOREM ProductIsIndependent == StartupSpec => []ProductIndependent
<1>1. PlanInv => ProductIndependent
  <2> SUFFICES ASSUME PlanInv, Complete PROVE ProductIndependent
    BY DEF ProductIndependent
  <2>1. Loaded /\ Ordered /\ Flagged
    BY DEF PlanInv, Complete, NoPlan, Waiting
  <2>2. order \in Seq(QV) /\ Len(order) = N
    BY <2>1 DEF Ordered, Flagged, Complete
  <2> QED
    BY <2>1, <2>2, ProductHolds DEF ProductIndependent
<1> QED
  BY <1>1, PlanAlways, PTL

(* With room for one entry more than there are query edges, the array that *)
(* a kernel gets of an indexing order gives it the backward neighbours.    *)
THEOREM BackwardIsDecoded ==
  StartupSpec => [](Len(qe_list) < MAX_ECOUNT => BackwardDecoded)
<1>1. PlanInv => (Len(qe_list) < MAX_ECOUNT => BackwardDecoded)
  <2> SUFFICES ASSUME PlanInv, Len(qe_list) < MAX_ECOUNT PROVE BackwardDecoded
    OBVIOUS
  <2>1. CASE Loaded
    BY <2>1, ReadIsBackward DEF BackwardDecoded, Planned
  <2>2. CASE NoPlan
    BY <2>2 DEF BackwardDecoded, Planned, QEdges, NoPlan
  <2> QED
    BY <2>1, <2>2 DEF PlanInv, Waiting
<1> QED
  BY <1>1, PlanAlways, PTL
=============================================================================
