--------------------------- MODULE InductionLemmas ---------------------------
(***************************************************************************)
(* Induction without a theorem that takes a predicate: least elements,     *)
(* recursive functions over ranks and the values of folds.  The proofs     *)
(* about recursive definitions of the models rest on these lemmas.         *)
(***************************************************************************)
EXTENDS SortedLists, FiniteSetTheorems, SequenceTheorems, WellFoundedInduction, TLAPS

LEMMA LeastNumber ==
  ASSUME NEW T, T \subseteq Nat, T # {}
  PROVE  \E x \in T : \A y \in T : x <= y
<1>1. PICK x \in T : \A y \in T : ~ (<<y, x>> \in OpToRel(<, Nat))
  BY WFMin, NatLessThanWellFounded
<1>2. \A y \in T : ~(y < x)
  BY <1>1 DEF OpToRel
<1>3. \A y \in T : x <= y
  BY <1>2
<1> QED
  BY <1>3

LEMMA Stepwise ==
  ASSUME NEW D, D \subseteq Nat, NEW S,
         \A d \in D : (\A k \in D : k < d => k \in S) => d \in S
  PROVE  D \subseteq S
<1> SUFFICES ASSUME D \ S # {} PROVE FALSE
  OBVIOUS
<1>1. PICK d \in D \ S : \A k \in D \ S : d <= k
  BY LeastNumber
<1>2. \A k \in D : k < d => k \in S
  BY <1>1
<1> QED
  BY <1>1, <1>2

(* A step whose value at d depends on values of lower rank only has a      *)
(* function that follows it.                                               *)
Causal(D, rank, X, Step) ==
  /\ Step \in [D \X [D -> X] -> X]
  /\ \A d \in D : \A g, h \in [D -> X] :
       (\A k \in D : rank[k] < rank[d] => g[k] = h[k]) => Step[<<d, g>>] = Step[<<d, h>>]

Follows(D, X, Step, f) == f \in [D -> X] /\ \A d \in D : f[d] = Step[<<d, f>>]

LEMMA RankedRecursion ==
  ASSUME NEW n \in Nat, NEW D, NEW rank \in [D -> 0..n], NEW X, X # {},
         NEW Step, Causal(D, rank, X, Step)
  PROVE  \E f : Follows(D, X, Step, f)
<1>c. /\ Step \in [D \X [D -> X] -> X]
      /\ \A d \in D : \A g, h \in [D -> X] :
           (\A k \in D : rank[k] < rank[d] => g[k] = h[k]) => Step[<<d, g>>] = Step[<<d, h>>]
  BY DEF Causal
<1> DEFINE P(j) == \E f \in [D -> X] : \A d \in D : rank[d] < j => f[d] = Step[<<d, f>>]
           T == {j \in Nat : ~P(j)}
<1>d. \A d \in D : rank[d] \in Nat /\ rank[d] <= n
  OBVIOUS
<1>1. P(0)
  <2>1. PICK x \in X : TRUE
    OBVIOUS
  <2>2. [d \in D |-> x] \in [D -> X]
    OBVIOUS
  <2>3. \A d \in D : ~(rank[d] < 0)
    BY <1>d
  <2> QED
    BY <2>2, <2>3
<1>2. ASSUME NEW j \in Nat, P(j) PROVE P(j + 1)
  <2>1. PICK f \in [D -> X] : \A d \in D : rank[d] < j => f[d] = Step[<<d, f>>]
    BY <1>2
  <2> DEFINE g == [d \in D |-> IF rank[d] = j THEN Step[<<d, f>>] ELSE f[d]]
  <2>2. g \in [D -> X]
    BY <1>c
  <2>3. \A d \in D : g[d] = IF rank[d] = j THEN Step[<<d, f>>] ELSE f[d]
    OBVIOUS
  <2> HIDE DEF g
  <2>4. ASSUME NEW d \in D, rank[d] < j + 1 PROVE g[d] = Step[<<d, g>>]
    <3>1. rank[d] < j \/ rank[d] = j
      <4>1. \A r \in Nat : r < j + 1 => r < j \/ r = j
        OBVIOUS
      <4> QED
        BY <1>d, <2>4, <4>1
    <3>2. \A k \in D : rank[k] < rank[d] => f[k] = g[k]
      <4>1. \A r, s \in Nat : (s < j \/ s = j) /\ r < s => r # j
        OBVIOUS
      <4> QED
        BY <1>d, <2>3, <3>1, <4>1
    <3>3. Step[<<d, f>>] = Step[<<d, g>>]
      BY <1>c, <2>2, <3>2
    <3>4. CASE rank[d] < j
      BY <2>1, <2>3, <3>1, <3>3, <3>4
    <3>5. CASE rank[d] = j
      BY <2>3, <3>3, <3>5
    <3> QED
      BY <3>1, <3>4, <3>5
  <2> QED
    BY <2>2, <2>4
<1> HIDE DEF P
<1>3. T = {}
  <2> SUFFICES ASSUME T # {} PROVE FALSE
    OBVIOUS
  <2>1. PICK j \in T : \A y \in T : j <= y
    BY LeastNumber
  <2>2. j \in Nat /\ ~P(j)
    OBVIOUS
  <2>3. j # 0
    BY <1>1, <2>2
  <2>4. j - 1 \in Nat /\ (j - 1) + 1 = j /\ ~(j <= j - 1)
    BY <2>2, <2>3
  <2>5. P(j - 1)
    BY <2>1, <2>4
  <2> QED
    BY <1>2, <2>2, <2>4, <2>5
<1>4. P(n + 1)
  <2>1. n + 1 \in Nat
    OBVIOUS
  <2> QED
    BY <1>3, <2>1
<1>5. \A d \in D : rank[d] < n + 1
  BY <1>d
<1> QED
  BY <1>4, <1>5 DEF P, Follows

(* The same with numbers for their own rank. *)
LEMMA Recursion ==
  ASSUME NEW n \in Nat, NEW D, D \subseteq 0..n, NEW X, X # {},
         NEW Step, Causal(D, [d \in D |-> d], X, Step)
  PROVE  \E f : Follows(D, X, Step, f)
<1>1. [d \in D |-> d] \in [D -> 0..n]
  OBVIOUS
<1> QED
  BY <1>1, RankedRecursion

-----------------------------------------------------------------------------
(* The folds take the elements in an order that CHOOSE decides; a function *)
(* with their first value and their steps has all their values.            *)
LEMMA Folded ==
  ASSUME NEW S, IsFiniteSet(S), NEW g, NEW w, g[{}] = w[{}],
         \A s \in SUBSET S :
           s # {} /\ (\A x \in s : g[s \ {x}] = w[s \ {x}]) => g[s] = w[s]
  PROVE  g[S] = w[S]
<1> DEFINE T == {Cardinality(s) : s \in {s \in SUBSET S : g[s] # w[s]}}
<1>1. T \subseteq Nat
  BY FS_Subset, FS_CardinalityType
<1> SUFFICES ASSUME T # {} PROVE FALSE
  OBVIOUS
<1>2. PICK c \in T : \A y \in T : c <= y
  BY <1>1, LeastNumber
<1>3. PICK s \in SUBSET S : g[s] # w[s] /\ Cardinality(s) = c
  OBVIOUS
<1>4. s # {}
  BY <1>3
<1>5. IsFiniteSet(s)
  BY FS_Subset
<1>6. ASSUME NEW x \in s PROVE g[s \ {x}] = w[s \ {x}]
  <2>1. Cardinality(s \ {x}) = c - 1 /\ c \in Nat
    BY <1>1, <1>3, <1>5, FS_RemoveElement
  <2>2. ~(c <= c - 1)
    BY <2>1
  <2>3. c - 1 \notin T
    BY <1>2, <2>2
  <2> QED
    BY <2>1, <2>3
<1> QED
  BY <1>3, <1>4, <1>6

LEMMA FiniteImage ==
  ASSUME NEW S, IsFiniteSet(S), NEW P
  PROVE  IsFiniteSet({P[x] : x \in S})
<1>1. [x \in S |-> P[x]] \in Surjection(S, {P[x] : x \in S})
  BY DEF Surjection
<1> QED
  BY <1>1, FS_Surjection

-----------------------------------------------------------------------------
(* Folds. *)

(* What is folded over a finite set, whichever element is picked first. *)
IsFold(g, S, base, Step, pick) ==
  \A s \in SUBSET S : g[s] = IF s = {} THEN base ELSE Step[<<g[s \ {pick[s]}], pick[s]>>]

LEMMA FoldExists ==
  ASSUME NEW S, IsFiniteSet(S), NEW X, NEW base \in X, NEW Step \in [X \X S -> X],
         NEW pick, \A s \in SUBSET S : s # {} => pick[s] \in s
  PROVE  \E g \in [SUBSET S -> X] : IsFold(g, S, base, Step, pick)
<1> DEFINE D == SUBSET S
           rank == [s \in D |-> Cardinality(s)]
           n == Cardinality(S)
           Body(g, s) == IF s = {} THEN base ELSE Step[<<g[s \ {pick[s]}], pick[s]>>]
           F == [z \in D \X [D -> X] |-> Body(z[2], z[1])]
<1>1. \A s \in D : IsFiniteSet(s)
  BY FS_Subset
<1>2. \A s \in D : s # {} =>
        s \ {pick[s]} \in D /\ pick[s] \in S /\ Cardinality(s \ {pick[s]}) = Cardinality(s) - 1
  BY <1>1, FS_RemoveElement
<1>3. n \in Nat /\ \A s \in D : Cardinality(s) \in 0..n /\ Cardinality(s) \in Nat
  BY FS_Subset, FS_CardinalityType
<1>4. \A s \in D, g \in [D -> X] : Body(g, s) \in X
  BY <1>2
<1>5. ASSUME NEW s \in D, NEW g \in [D -> X], NEW h \in [D -> X],
             \A k \in D : rank[k] < rank[s] => g[k] = h[k]
      PROVE  Body(g, s) = Body(h, s)
  <2>1. CASE s # {}
    <3>1. \A k \in D : Cardinality(k) < Cardinality(s) => g[k] = h[k]
      BY <1>5
    <3>2. Cardinality(s \ {pick[s]}) < Cardinality(s)
      <4>1. Cardinality(s \ {pick[s]}) = Cardinality(s) - 1
        BY <1>2, <2>1
      <4>2. Cardinality(s) \in Nat
        BY <1>3
      <4> QED
        BY <4>1, <4>2
    <3> QED
      BY <1>2, <2>1, <3>1, <3>2
  <2> QED
    BY <2>1
<1>6. rank \in [D -> 0..n]
  BY <1>3
<1>7. \A s \in D, g \in [D -> X] : F[<<s, g>>] = Body(g, s)
  OBVIOUS
<1>8. F \in [D \X [D -> X] -> X]
  BY <1>4
<1> HIDE DEF F, Body, rank, n, D
<1>9. Causal(D, rank, X, F)
  BY <1>5, <1>7, <1>8 DEF Causal
<1>10. PICK g : Follows(D, X, F, g)
  BY <1>3, <1>6, <1>9, RankedRecursion
<1>11. g \in [D -> X] /\ \A s \in D : g[s] = Body(g, s)
  BY <1>7, <1>10 DEF Follows
<1>12. g \in [SUBSET S -> X]
  BY <1>11 DEF D
<1>13. \A s \in SUBSET S : g[s] = IF s = {} THEN base ELSE Step[<<g[s \ {pick[s]}], pick[s]>>]
  BY <1>11 DEF D, Body
<1> QED
  BY <1>12, <1>13 DEF IsFold

(* A set of numbers has a greatest one, *)
LEMMA MaxNumber ==
  ASSUME NEW n \in Nat, NEW s \in SUBSET (1..n), s # {}
  PROVE  Max(s) \in s /\ \A k \in s : k <= Max(s)
<1> DEFINE T == {n - k : k \in s}
<1>0. \A k \in 1..n : n - k \in Nat
  OBVIOUS
<1>1. T \subseteq Nat /\ T # {}
  <2>1. \A k \in s : n - k \in Nat
    BY <1>0
  <2> QED
    BY <2>1
<1>2. PICK t \in T : \A y \in T : t <= y
  BY <1>1, LeastNumber
<1>3. PICK k \in s : t = n - k
  OBVIOUS
<1>4. \A j \in s : n - k <= n - j /\ j \in 1..n
  BY <1>2, <1>3
<1>5. \A j \in s : k >= j
  BY <1>3, <1>4
<1>6. Max(s) \in s /\ \A j \in s : Max(s) >= j
  BY <1>3, <1>5 DEF Max
<1>7. \A j \in s : j \in Int
  OBVIOUS
<1> QED
  BY <1>6, <1>7

(* which for the first n is n. *)
LEMMA MaxOfFirst ==
  ASSUME NEW n \in Nat, NEW k \in 1..n
  PROVE  Max(1..k) = k /\ (1..k) \ {k} = 1..k - 1 /\ 1..k \in SUBSET (1..n) /\ 1..k # {}
<1>1. 1..k \in SUBSET (1..n) /\ 1..k # {} /\ k \in 1..k
  OBVIOUS
<1>2. Max(1..k) \in 1..k /\ k <= Max(1..k)
  BY <1>1, MaxNumber
<1> QED
  BY <1>1, <1>2

(* A fold over the numbers 1 to n is the last of n + 1 values, of which    *)
(* each is a step from the one before it.                                  *)
FoldsFrom(g, n, base, Step) ==
  \A s \in SUBSET (1..n) : g[s] = IF s = {} THEN base ELSE Step[<<g[s \ {Max(s)}], Max(s)>>]

(* FoldLeft is the last of its values. *)
LEMMA FoldValues ==
  ASSUME NEW n \in Nat, NEW X, NEW base \in X, NEW Step \in [X \X (1..n) -> X]
  PROVE  \E g \in [SUBSET (1..n) -> X] : FoldsFrom(g, n, base, Step)
<1>1. \E g \in [SUBSET (1..n) -> X] :
         \A s \in SUBSET (1..n) :
           g[s] = IF s = {} THEN base ELSE Step[<<g[s \ {Max(s)}], Max(s)>>]
  <2> DEFINE pick == [s \in SUBSET (1..n) |-> Max(s)]
  <2>1. \A s \in SUBSET (1..n) : s # {} => pick[s] \in s
    BY MaxNumber
  <2>2. IsFiniteSet(1..n)
    BY FS_Interval
  <2>3. \A s \in SUBSET (1..n) : pick[s] = Max(s)
    OBVIOUS
  <2> HIDE DEF pick
  <2>4. \E g \in [SUBSET (1..n) -> X] : IsFold(g, 1..n, base, Step, pick)
    <3> DEFINE N == 1..n
    <3>1. IsFiniteSet(N) /\ \A s \in SUBSET N : s # {} => pick[s] \in s
      BY <2>1, <2>2
    <3>2. Step \in [X \X N -> X]
      OBVIOUS
    <3> HIDE DEF N
    <3>3. \E g \in [SUBSET N -> X] : IsFold(g, N, base, Step, pick)
      BY <3>1, <3>2, FoldExists
    <3> QED
      BY <3>3 DEF N
  <2> QED
    BY <2>3, <2>4 DEF IsFold
<1> QED
  BY <1>1 DEF FoldsFrom

-----------------------------------------------------------------------------
(* Sorted lists. *)
Sorted(s) == \A i, j \in DOMAIN s : i < j => s[i] < s[j]

(* A set of numbers has a least one. *)
LEMMA MinNumber ==
  ASSUME NEW S, S \subseteq Nat, S # {}
  PROVE  Min(S) \in S /\ \A y \in S : Min(S) <= y
<1>1. PICK x \in S : \A y \in S : x <= y
  BY LeastNumber
<1> QED
  BY <1>1 DEF Min

(* AscendingSeq lists a set of numbers, sorted and each of them once. *)
LEMMA Ascending ==
  ASSUME NEW S, S \subseteq Nat, IsFiniteSet(S)
  PROVE  /\ AscendingSeq(S) \in Seq(S)
         /\ Len(AscendingSeq(S)) = Cardinality(S)
         /\ Range(AscendingSeq(S)) = S
         /\ Sorted(AscendingSeq(S))
<1> DEFINE first(s) == CHOOSE x \in s : TRUE
           iter[s \in SUBSET S] ==
             IF s = {} THEN <<>>
             ELSE LET x == CHOOSE x \in s : TRUE
                  IN  Append(iter[s \ {x}], Min(S \ Range(iter[s \ {x}])))
           Body(g, s) == IF s = {} THEN <<>>
                         ELSE Append(g[s \ {first(s)}], Min(S \ Range(g[s \ {first(s)}])))
           X == Seq(S \cup {Min({})})
           pick == [s \in SUBSET S |-> first(s)]
           Step == [z \in X \X S |-> Append(z[1], Min(S \ Range(z[1])))]
<1>1. AscendingSeq(S) = iter[S]
  BY DEF AscendingSeq, FoldSet, MapThenFoldSet
<1>2. iter = CHOOSE g : g = [s \in SUBSET S |-> Body(g, s)]
  BY DEF iter
<1> HIDE DEF iter
<1>3. \A s \in SUBSET S : IsFiniteSet(s) /\ (s # {} => first(s) \in s)
  BY FS_Subset
<1> HIDE DEF first
<1>4. iter = [s \in SUBSET S |-> Body(iter, s)]
  <2>1. Step \in [X \X S -> X]
    <3>1. ASSUME NEW q \in X PROVE Append(q, Min(S \ Range(q))) \in X
      <4>1. Min(S \ Range(q)) \in S \cup {Min({})}
        <5>1. CASE S \ Range(q) = {}
          BY <5>1
        <5>2. CASE S \ Range(q) # {}
          <6>1. S \ Range(q) \subseteq Nat
            OBVIOUS
          <6> QED
            BY <5>2, <6>1, MinNumber
        <5> QED
          BY <5>1, <5>2
      <4> QED
        BY <4>1, AppendProperties
    <3> HIDE DEF X
    <3> QED
      BY <3>1
  <2>2. <<>> \in X
    BY EmptySeq
  <2>3. \A s \in SUBSET S : s # {} => pick[s] \in s
    BY <1>3
  <2>4. \A q \in X, x \in S : Step[<<q, x>>] = Append(q, Min(S \ Range(q)))
    OBVIOUS
  <2>5. \A s \in SUBSET S : pick[s] = first(s)
    OBVIOUS
  <2> HIDE DEF X, Step, pick
  <2>6. PICK g \in [SUBSET S -> X] : IsFold(g, S, <<>>, Step, pick)
    BY <2>1, <2>2, <2>3, FoldExists
  <2>7. g = [s \in SUBSET S |-> Body(g, s)]
    <3>1. ASSUME NEW s \in SUBSET S PROVE g[s] = Body(g, s)
      <4>1. CASE s = {}
        BY <2>6, <4>1 DEF IsFold
      <4>2. CASE s # {}
        <5>1. first(s) \in S /\ g[s \ {first(s)}] \in X
          BY <1>3, <4>2
        <5>2. g[s] = Step[<<g[s \ {first(s)}], first(s)>>]
          BY <2>5, <2>6, <4>2 DEF IsFold
        <5> QED
          BY <2>4, <4>2, <5>1, <5>2
      <4> QED
        BY <4>1, <4>2
    <3> HIDE DEF Body
    <3> QED
      BY <3>1
  <2> HIDE DEF Body
  <2> QED
    BY <1>2, <2>7
<1> DEFINE Good(s) == /\ iter[s] \in Seq(S)
                      /\ Len(iter[s]) = Cardinality(s)
                      /\ Cardinality(Range(iter[s])) = Cardinality(s)
                      /\ Sorted(iter[s])
                      /\ \A x \in Range(iter[s]), y \in S \ Range(iter[s]) : x < y
           good == [s \in SUBSET S |-> Good(s)]
           true == [s \in SUBSET S |-> TRUE]
<1>5. Good({})
  <2>1. iter[{}] = <<>>
    BY <1>4
  <2>2. Range(<<>>) = {} /\ DOMAIN <<>> = {} /\ Len(<<>>) = 0
    BY DEF Range
  <2> QED
    BY <2>1, <2>2, FS_EmptySet, EmptySeq DEF Sorted
<1>6. ASSUME NEW s \in SUBSET S, s # {}, \A x \in s : Good(s \ {x})
      PROVE  Good(s)
  <2> DEFINE q == iter[s \ {first(s)}]
             m == Min(S \ Range(q))
             r == Append(q, m)
  <2>1. Good(s \ {first(s)}) /\ first(s) \in s
    BY <1>3, <1>6
  <2>2. iter[s] = r
    BY <1>4, <1>6
  <2>3. Cardinality(s \ {first(s)}) = Cardinality(s) - 1 /\ Cardinality(s) \in Nat
    BY <1>3, <2>1, FS_RemoveElement, FS_CardinalityType
  <2>4. /\ q \in Seq(S) /\ Len(q) = Cardinality(s) - 1
        /\ Cardinality(Range(q)) = Cardinality(s) - 1
        /\ Sorted(q) /\ \A x \in Range(q), y \in S \ Range(q) : x < y
    BY <2>1, <2>3
  <2> HIDE DEF q
  <2>5. Range(q) \subseteq S
    BY <2>4, ElementOfSeq DEF Range
  <2>6. S \ Range(q) # {}
    <3> SUFFICES ASSUME S \ Range(q) = {} PROVE FALSE
      OBVIOUS
    <3>1. Range(q) = S
      BY <2>5
    <3>2. Cardinality(s) <= Cardinality(S) /\ Cardinality(S) \in Nat
      BY FS_Subset, FS_CardinalityType
    <3>3. Cardinality(S) = Cardinality(s) - 1
      BY <2>4, <3>1
    <3> QED
      BY <2>3, <3>2, <3>3
  <2>7. m \in S \ Range(q) /\ \A y \in S \ Range(q) : m <= y
    BY <2>6, MinNumber
  <2> HIDE DEF m
  <2>8. r \in Seq(S) /\ Len(r) = Len(q) + 1 /\ r[Len(q) + 1] = m /\ \A i \in 1..Len(q) : r[i] = q[i]
    BY <2>4, <2>7, AppendProperties
  <2>9. DOMAIN r = 1..Len(q) + 1 /\ DOMAIN q = 1..Len(q) /\ Len(q) \in Nat
    BY <2>4, <2>8, LenProperties
  <2> HIDE DEF r
  <2>10. Range(r) = Range(q) \cup {m}
    BY <2>8, <2>9 DEF Range
  <2>11. IsFiniteSet(Range(q))
    BY <2>5, FS_Subset
  <2>12. Cardinality(Range(r)) = Cardinality(s)
    <3>1. Cardinality(Range(q) \cup {m}) = Cardinality(Range(q)) + 1
      BY <2>7, <2>11, FS_AddElement
    <3> QED
      BY <2>3, <2>4, <2>10, <3>1
  <2>13. Len(r) = Cardinality(s)
    BY <2>3, <2>4, <2>8
  <2>14. Sorted(r)
    <3> SUFFICES ASSUME NEW i \in DOMAIN r, NEW j \in DOMAIN r, i < j
                 PROVE  r[i] < r[j]
      BY DEF Sorted
    <3>1. i \in DOMAIN q /\ r[i] = q[i]
      BY <2>8, <2>9
    <3>2. CASE j \in DOMAIN q
      BY <2>4, <2>8, <2>9, <3>1, <3>2 DEF Sorted
    <3>3. CASE j = Len(q) + 1
      <4>1. q[i] \in Range(q)
        BY <3>1 DEF Range
      <4> QED
        BY <2>4, <2>7, <2>8, <3>1, <3>3, <4>1
    <3> QED
      BY <2>9, <3>2, <3>3
  <2>15. ASSUME NEW x \in Range(r), NEW y \in S \ Range(r) PROVE x < y
    <3>1. y \in S \ Range(q) /\ y # m
      BY <2>10
    <3>2. CASE x \in Range(q)
      BY <2>4, <3>1, <3>2
    <3>3. CASE x = m
      <4>1. m <= y /\ m \in Nat /\ y \in Nat
        BY <2>7, <3>1
      <4> QED
        BY <3>1, <3>3, <4>1
    <3> QED
      BY <2>10, <3>2, <3>3
  <2> QED
    BY <2>2, <2>8, <2>12, <2>13, <2>14, <2>15
<1> HIDE DEF Good
<1>7. good[S] = true[S]
  <2>1. good[{}] = true[{}]
    BY <1>5
  <2>2. \A s \in SUBSET S :
          s # {} /\ (\A x \in s : good[s \ {x}] = true[s \ {x}]) => good[s] = true[s]
    BY <1>6
  <2> HIDE DEF good, true
  <2> QED
    BY <2>1, <2>2, Folded
<1>8. Good(S)
  BY <1>7
<1>9. iter[S] \in Seq(S) /\ Len(iter[S]) = Cardinality(S) /\ Sorted(iter[S])
      /\ Cardinality(Range(iter[S])) = Cardinality(S)
  BY <1>8 DEF Good
<1>10. Range(iter[S]) = S
  <2>1. Range(iter[S]) \subseteq S
    BY <1>9, ElementOfSeq DEF Range
  <2> QED
    BY <1>9, <2>1, FS_Subset
<1> QED
  BY <1>1, <1>9, <1>10

LEMMA CountUp ==
  ASSUME NEW n \in Nat, NEW S, 0 \in S, \A k \in 1..n : k - 1 \in S => k \in S
  PROVE  \A k \in 0..n : k \in S
<1>1. 0..n \subseteq Nat
  OBVIOUS
<1>2. ASSUME NEW d \in 0..n, \A k \in 0..n : k < d => k \in S
      PROVE  d \in S
  <2>1. CASE d = 0
    BY <2>1
  <2>2. CASE d # 0
    <3>1. d \in 1..n /\ d - 1 \in 0..n /\ d - 1 < d
      BY <2>2
    <3>2. d - 1 \in S
      BY <1>2, <3>1
    <3> QED
      BY <3>1, <3>2
  <2> QED
    BY <2>1, <2>2
<1>3. 0..n \subseteq S
  BY <1>1, <1>2, Stepwise
<1> QED
  BY <1>3
=============================================================================
