------------------------------ MODULE FoldLemmas -------------------------------
(* Induction over an initial segment of the naturals, and what SequencesExt!FoldLeft computes:
   its result over a sequence with one more element, for any operator Op. The proof modules
   take an instance for each operator they fold. *)
EXTENDS Integers, Sequences, SequencesExt, WellFoundedInduction, TLAPS

(* The operator that is folded. *)
CONSTANT Op(_, _)

(* The order of the naturals as a set of pairs. *)
Less == {p \in Nat \X Nat : p[1] < p[2]}

(* It is well founded. *)
LEMMA LessWellFounded == IsWellFoundedOn(Less, Nat)
<1>1. Less = OpToRel(<, Nat)
  BY Zenon DEF Less, OpToRel
<1> QED
  BY <1>1, NatLessThanWellFounded, Zenon

(* A set of naturals that is not empty has a least element. *)
LEMMA Least ==
  ASSUME NEW T, T \subseteq Nat, T # {}
  PROVE  \E x \in T : \A y \in T : x <= y
<1>1. PICK x \in T : \A y \in T : ~ (<<y, x>> \in Less)
  BY LessWellFounded, WFMin
<1>2. ASSUME NEW y \in T PROVE x <= y
  <2>1. x \in Nat /\ y \in Nat
    OBVIOUS
  <2>2. y < x => <<y, x>> \in Less
    BY <2>1, SMT DEF Less
  <2> QED BY <2>1, <2>2, <1>1
<1> QED
  BY <1>1, <1>2

(* Induction over the naturals up to n, for a set instead of a predicate. *)
LEMMA Induction ==
  ASSUME NEW n \in Nat, NEW T, 0 \in T, \A m \in 0..(n - 1) : m \in T => m + 1 \in T
  PROVE  \A m \in 0..n : m \in T
<1> SUFFICES ASSUME ~ (\A m \in 0..n : m \in T)
             PROVE  FALSE
  OBVIOUS
<1> DEFINE Bad == {m \in 0..n : m \notin T}
<1>1. Bad \subseteq Nat /\ Bad # {}
  OBVIOUS
<1>2. PICK x \in Bad : \A y \in Bad : x <= y
  <2> HIDE DEF Bad
  <2> QED BY <1>1, Least
<1>3. x \in 0..n /\ x \notin T
  OBVIOUS
<1>4. x # 0 /\ x - 1 \in 0..(n - 1)
  BY <1>3
<1>5. x - 1 \notin Bad
  BY <1>2, <1>3, <1>4
<1>6. x - 1 \in T
  BY <1>4, <1>5
<1>7. (x - 1) + 1 \in T
  BY <1>4, <1>6
<1> QED
  BY <1>3, <1>7

(* The recursion under a fold: what is left of the set is folded first. *)
Folds(g, base, s, n) ==
  g = [d \in SUBSET (1..n) |->
         IF d = {} THEN base ELSE Op(g[d \ {Max(d)}], s[Max(d)])]

(* The largest element of a set that reaches m + 1. *)
LEMMA MaxOf ==
  ASSUME NEW m \in Nat, NEW d \in SUBSET (1..(m + 1)), m + 1 \in d
  PROVE  Max(d) = m + 1
<1>1. \A y \in d : y <= m + 1
  OBVIOUS
<1>2. \A x \in d : (\A y \in d : y <= x) => x = m + 1
  OBVIOUS
<1> QED
  BY <1>1, <1>2 DEF Max

(* There is a function of the subsets that this recursion defines. *)
LEMMA FoldExists ==
  ASSUME NEW base, NEW s, NEW n \in Nat
  PROVE  \E g : Folds(g, base, s, n)
<1> DEFINE T == {m \in 0..n : \E g : Folds(g, base, s, m)}
<1>1. 0 \in T
  <2> DEFINE g == [d \in SUBSET (1..0) |-> base]
  <2>1. \A d \in SUBSET (1..0) : d = {}
    OBVIOUS
  <2>2. Folds(g, base, s, 0)
    BY <2>1 DEF Folds
  <2> HIDE DEF g
  <2> QED
    BY <2>2
<1>2. ASSUME NEW m \in 0..(n - 1), m \in T
      PROVE  m + 1 \in T
  <2>1. PICK g : Folds(g, base, s, m)
    BY <1>2
  <2> DEFINE h == [d \in SUBSET (1..(m + 1)) |->
                     IF m + 1 \in d THEN Op(g[d \ {m + 1}], s[m + 1]) ELSE g[d]]
  <2>2. ASSUME NEW d \in SUBSET (1..(m + 1))
        PROVE  h[d] = IF d = {} THEN base ELSE Op(h[d \ {Max(d)}], s[Max(d)])
    <3>1. CASE m + 1 \in d
      <4>1. Max(d) = m + 1
        BY <3>1, MaxOf
      <4>2. d \ {m + 1} \in SUBSET (1..(m + 1)) /\ m + 1 \notin d \ {m + 1}
        OBVIOUS
      <4>3. h[d \ {m + 1}] = g[d \ {m + 1}]
        BY <4>2
      <4> QED
        BY <3>1, <4>1, <4>3
    <3>2. CASE m + 1 \notin d
      <4>1. d \in SUBSET (1..m)
        BY <3>2
      <4>2. g[d] = IF d = {} THEN base ELSE Op(g[d \ {Max(d)}], s[Max(d)])
        BY <2>1, <4>1 DEF Folds
      <4>3. d \ {Max(d)} \in SUBSET (1..(m + 1)) /\ m + 1 \notin d \ {Max(d)}
        BY <3>2
      <4>4. h[d \ {Max(d)}] = g[d \ {Max(d)}]
        BY <4>3
      <4> QED
        BY <3>2, <4>2, <4>4
    <3> QED
      BY <3>1, <3>2
  <2>3. Folds(h, base, s, m + 1)
    <3> h = [d \in SUBSET (1..(m + 1)) |-> h[d]]
      OBVIOUS
    <3> HIDE DEF h
    <3> QED
      BY <2>2 DEF Folds
  <2> HIDE DEF h
  <2> QED
    BY <2>3
<1> HIDE DEF T
<1>3. \A m \in 0..n : m \in T
  BY <1>1, <1>2, Induction
<1> USE DEF T
<1> QED
  BY <1>3

(* It is what FoldLeft takes its value from. *)
LEMMA FoldDefined ==
  ASSUME NEW base, NEW s, NEW n \in Nat, DOMAIN s = 1..n
  PROVE  \E g : Folds(g, base, s, n) /\ FoldLeft(Op, base, s) = g[1..n]
<1> DEFINE G(f) == [d \in SUBSET (1..n) |->
                     IF d = {} THEN base ELSE Op(f[d \ {Max(d)}], s[Max(d)])]
<1>1. PICK f : f = G(f)
  <2>1. PICK f : Folds(f, base, s, n)
    BY FoldExists
  <2> QED
    BY <2>1 DEF Folds
<1> DEFINE g == CHOOSE h : h = G(h)
<1>2. g = G(g)
  <2> HIDE DEF G
  <2> QED
    BY <1>1
<1>3. FoldLeft(Op, base, s) = g[1..n]
  BY DEF FoldLeft, MapThenFoldSet
<1>4. Folds(g, base, s, n)
  <2> HIDE DEF g
  <2> QED
    BY <1>2 DEF Folds
<1> HIDE DEF g
<1> QED
  BY <1>3, <1>4

(* What such a function takes its value from on one element more. *)
LEMMA FoldOnce ==
  ASSUME NEW base, NEW s, NEW n \in Nat, NEW m \in 0..(n - 1), NEW g, Folds(g, base, s, n)
  PROVE  g[1..(m + 1)] = Op(g[1..m], s[m + 1])
<1>1. PICK d \in SUBSET (1..n) : d = 1..(m + 1)
  OBVIOUS
<1>2. m + 1 \in d /\ d \in SUBSET (1..(m + 1)) /\ m \in Nat
  BY <1>1
<1>3. Max(d) = m + 1
  BY <1>2, MaxOf
<1>4. d \ {m + 1} = 1..m
  BY <1>1
<1>5. g[d] = IF d = {} THEN base ELSE Op(g[d \ {Max(d)}], s[Max(d)])
  BY DEF Folds
<1>6. g[d] = Op(g[1..m], s[m + 1])
  BY <1>2, <1>3, <1>4, <1>5, Zenon
<1> QED
  BY <1>1, <1>6, Zenon

(* Two folds that start alike over the same elements agree. *)
LEMMA FoldsAgree ==
  ASSUME NEW base, NEW s, NEW t, NEW n \in Nat, NEW k \in Nat, n <= k,
         \A i \in 1..n : s[i] = t[i],
         NEW g, NEW h, Folds(g, base, s, n), Folds(h, base, t, k)
  PROVE  g[1..n] = h[1..n]
<1> DEFINE T == {m \in 0..n : g[1..m] = h[1..m]}
<1>1. 0 \in T
  <2>1. g[1..0] = base /\ h[1..0] = base
    BY DEF Folds
  <2> QED
    BY <2>1
<1>2. ASSUME NEW m \in 0..(n - 1), m \in T
      PROVE  m + 1 \in T
  <2>1. m \in 0..(k - 1) /\ m + 1 \in 1..n /\ m + 1 \in 0..n
    OBVIOUS
  <2>2. g[1..(m + 1)] = Op(g[1..m], s[m + 1])
    BY FoldOnce
  <2>3. h[1..(m + 1)] = Op(h[1..m], t[m + 1])
    BY <2>1, FoldOnce
  <2>4. g[1..m] = h[1..m] /\ s[m + 1] = t[m + 1]
    BY <1>2, <2>1
  <2>5. g[1..(m + 1)] = h[1..(m + 1)]
    BY <2>2, <2>3, <2>4
  <2> QED
    BY <2>1, <2>5
<1> HIDE DEF T
<1>3. \A m \in 0..n : m \in T
  BY <1>1, <1>2, Induction
<1> USE DEF T
<1> QED
  BY <1>3

(* What the fold of the library computes, element by element. *)
Fold(base, s) == FoldLeft(Op, base, s)

(* A fold of the empty sequence is its base. *)
THEOREM FoldEmpty ==
  ASSUME NEW base
  PROVE  Fold(base, <<>>) = base
<1>1. DOMAIN <<>> = 1..0
  OBVIOUS
<1>2. PICK g : Folds(g, base, <<>>, 0) /\ Fold(base, <<>>) = g[1..0]
  BY <1>1, FoldDefined DEF Fold
<1> QED
  BY <1>2 DEF Folds

(* A fold of n + 1 elements applies Op to the fold of the first n and the last one. *)
THEOREM FoldStep ==
  ASSUME NEW base, NEW s, NEW n \in Nat, DOMAIN s = 1..(n + 1), NEW t, DOMAIN t = 1..n,
         \A i \in 1..n : s[i] = t[i]
  PROVE  Fold(base, s) = Op(Fold(base, t), s[n + 1])
<1>0. n + 1 \in Nat
  OBVIOUS
<1>1. PICK g : Folds(g, base, s, n + 1) /\ Fold(base, s) = g[1..(n + 1)]
  BY <1>0, FoldDefined DEF Fold
<1>2. PICK h : Folds(h, base, t, n) /\ Fold(base, t) = h[1..n]
  BY FoldDefined DEF Fold
<1>3. h[1..n] = g[1..n]
  BY <1>1, <1>2, FoldsAgree
<1>4. g[1..(n + 1)] = Op(g[1..n], s[n + 1])
  <2>1. n \in 0..((n + 1) - 1)
    OBVIOUS
  <2> QED
    BY <1>0, <1>1, <2>1, FoldOnce
<1> QED
  BY <1>1, <1>2, <1>3, <1>4

(* A fold of a sequence with x appended applies Op to the fold of the sequence and x. *)
THEOREM FoldAppend ==
  ASSUME NEW base, NEW S, NEW s \in Seq(S), NEW x \in S
  PROVE  Fold(base, Append(s, x)) = Op(Fold(base, s), x)
<1>1. /\ DOMAIN s = 1..Len(s) /\ Len(s) \in Nat
      /\ DOMAIN Append(s, x) = 1..(Len(s) + 1)
      /\ \A i \in 1..Len(s) : Append(s, x)[i] = s[i]
      /\ Append(s, x)[Len(s) + 1] = x
  OBVIOUS
<1> QED
  BY <1>1, FoldStep

(* A fold whose results are known one after the other. *)
THEOREM FoldChain ==
  ASSUME NEW S, NEW s \in Seq(S), NEW f,
         \A m \in 0..(Len(s) - 1) : f[m + 1] = Op(f[m], s[m + 1])
  PROVE  Fold(f[0], s) = f[Len(s)]
<1> DEFINE n == Len(s)
           first(m) == SubSeq(s, 1, m)
           T == {m \in 0..n : Fold(f[0], first(m)) = f[m]}
<1>1. n \in Nat
  OBVIOUS
<1>2. \A m \in 0..n : /\ DOMAIN first(m) = 1..m
                      /\ \A i \in 1..m : first(m)[i] = s[i]
  OBVIOUS
<1>3. first(n) = s /\ first(0) = <<>>
  OBVIOUS
<1>4. 0 \in T
  <2>1. PICK e : e = first(0)
    OBVIOUS
  <2>2. Fold(f[0], e) = f[0]
    BY <1>3, <2>1, FoldEmpty
  <2>3. 0 \in 0..n
    BY <1>1
  <2> QED
    BY <2>1, <2>2, <2>3
<1>5. ASSUME NEW m \in 0..(n - 1), m \in T
      PROVE  m + 1 \in T
  <2>1. m \in Nat /\ m \in 0..n /\ m + 1 \in 0..n
    BY <1>1
  <2>2. PICK a, b : a = first(m + 1) /\ b = first(m)
    OBVIOUS
  <2>3. DOMAIN a = 1..(m + 1) /\ DOMAIN b = 1..m /\ a[m + 1] = s[m + 1]
    BY <1>2, <2>1, <2>2
  <2>4. \A i \in 1..m : a[i] = b[i]
    BY <1>2, <2>1, <2>2
  <2>5. Fold(f[0], a) = Op(Fold(f[0], b), a[m + 1])
    BY <2>1, <2>3, <2>4, FoldStep
  <2>6. Fold(f[0], b) = f[m]
    BY <1>5, <2>2
  <2>7. f[m + 1] = Op(f[m], s[m + 1])
    OBVIOUS
  <2>8. Fold(f[0], a) = f[m + 1]
    BY <2>3, <2>5, <2>6, <2>7
  <2> QED
    BY <2>1, <2>2, <2>8
<1> HIDE DEF T
<1>6. \A m \in 0..n : m \in T
  BY <1>1, <1>4, <1>5, Induction
<1>7. n \in T
  BY <1>1, <1>6
<1> QED
  BY <1>3, <1>7 DEF T

(* The results of a fold after each element, from the base to the last one. *)
Runs(f, base, s) ==
  /\ f[0] = base /\ f[Len(s)] = Fold(base, s)
  /\ \A m \in 0..(Len(s) - 1) : f[m + 1] = Op(f[m], s[m + 1])

(* A fold goes through such results. *)
THEOREM FoldRuns ==
  ASSUME NEW base, NEW S, NEW s \in Seq(S)
  PROVE  \E f : Runs(f, base, s)
<1>1. PICK n \in Nat : n = Len(s) /\ DOMAIN s = 1..n
  OBVIOUS
<1>2. PICK g : Folds(g, base, s, n) /\ Fold(base, s) = g[1..n]
  BY <1>1, FoldDefined DEF Fold
<1> DEFINE f == [m \in 0..n |-> g[1..m]]
<1>3. f[0] = base
  <2>1. 1..0 = {} /\ {} \in SUBSET (1..n) /\ 0 \in 0..n
    OBVIOUS
  <2>2. g[{}] = base
    BY <1>2, <2>1 DEF Folds
  <2> QED
    BY <2>1, <2>2
<1>4. f[n] = Fold(base, s)
  BY <1>2
<1>5. ASSUME NEW m \in 0..(n - 1) PROVE f[m + 1] = Op(f[m], s[m + 1])
  <2>1. g[1..(m + 1)] = Op(g[1..m], s[m + 1])
    BY <1>2, FoldOnce
  <2>2. m \in 0..n /\ m + 1 \in 0..n
    OBVIOUS
  <2>3. f[m] = g[1..m] /\ f[m + 1] = g[1..(m + 1)]
    BY <2>2
  <2> HIDE DEF f
  <2> QED
    BY <2>1, <2>3
<1> HIDE DEF f
<1>6. Runs(f, base, s)
  BY <1>1, <1>3, <1>4, <1>5 DEF Runs
<1> QED
  BY <1>6

(* The same from the right: the least element is folded last. *)
FoldsRight(g, base, s, first, n) ==
  g = [d \in SUBSET (first..n) |->
         IF d = {} THEN base ELSE Op(s[Min(d)], g[d \ {Min(d)}])]

(* The least element of a set that starts with m. *)
LEMMA MinOf ==
  ASSUME NEW m \in Int, NEW n \in Int, NEW d \in SUBSET (m..n), m \in d
  PROVE  Min(d) = m
<1>1. \A y \in d : m <= y
  OBVIOUS
<1>2. \A x \in d : (\A y \in d : x <= y) => x = m
  OBVIOUS
<1> QED
  BY <1>1, <1>2 DEF Min

(* There is a function of the subsets that this recursion defines. *)
LEMMA FoldRightExists ==
  ASSUME NEW base, NEW s, NEW n \in Nat
  PROVE  \E g : FoldsRight(g, base, s, 1, n)
<1> DEFINE T == {m \in 0..n : \E g : FoldsRight(g, base, s, n - m + 1, n)}
<1>1. 0 \in T
  <2> DEFINE g == [d \in SUBSET ((n - 0 + 1)..n) |-> base]
  <2>1. \A d \in SUBSET ((n - 0 + 1)..n) : d = {}
    OBVIOUS
  <2>2. FoldsRight(g, base, s, n - 0 + 1, n)
    BY <2>1 DEF FoldsRight
  <2> HIDE DEF g
  <2> QED
    BY <2>2
<1>2. ASSUME NEW m \in 0..(n - 1), m \in T
      PROVE  m + 1 \in T
  <2>1. PICK k \in Int, l \in Int : k = n - m + 1 /\ l = n - m /\ l + 1 = k /\ l = n - (m + 1) + 1
    OBVIOUS
  <2>2. PICK g : FoldsRight(g, base, s, k, n)
    BY <1>2, <2>1
  <2> DEFINE h == [d \in SUBSET (l..n) |->
                     IF l \in d THEN Op(s[l], g[d \ {l}]) ELSE g[d]]
  <2>3. ASSUME NEW d \in SUBSET (l..n)
        PROVE  h[d] = IF d = {} THEN base ELSE Op(s[Min(d)], h[d \ {Min(d)}])
    <3>1. CASE l \in d
      <4>1. Min(d) = l
        <5>1. l \in Int /\ n \in Int /\ l \in d /\ d \in SUBSET (l..n)
          BY <2>1, <3>1
        <5> HIDE DEF h
        <5> QED
          BY <5>1, MinOf, Zenon
      <4>2. d \ {l} \in SUBSET (l..n) /\ l \notin d \ {l}
        OBVIOUS
      <4>3. h[d \ {l}] = g[d \ {l}]
        BY <4>2
      <4> QED
        BY <3>1, <4>1, <4>3
    <3>2. CASE l \notin d
      <4>1. d \in SUBSET (k..n)
        BY <2>1, <3>2
      <4>2. g[d] = IF d = {} THEN base ELSE Op(s[Min(d)], g[d \ {Min(d)}])
        BY <2>2, <4>1 DEF FoldsRight
      <4>3. d \ {Min(d)} \in SUBSET (l..n) /\ l \notin d \ {Min(d)}
        BY <3>2
      <4>4. h[d \ {Min(d)}] = g[d \ {Min(d)}]
        BY <4>3
      <4> QED
        BY <3>2, <4>2, <4>4
    <3> QED
      BY <3>1, <3>2
  <2>4. FoldsRight(h, base, s, l, n)
    <3> h = [d \in SUBSET (l..n) |-> h[d]]
      OBVIOUS
    <3> HIDE DEF h
    <3> QED
      BY <2>3 DEF FoldsRight
  <2>5. m + 1 \in 0..n
    OBVIOUS
  <2> HIDE DEF h
  <2> QED
    BY <2>1, <2>4, <2>5
<1> HIDE DEF T
<1>3. \A m \in 0..n : m \in T
  BY <1>1, <1>2, Induction
<1>4. n \in T /\ n - n + 1 = 1
  BY <1>3
<1> QED
  BY <1>4 DEF T

(* What the right fold of the library computes, element by element. *)
FoldR(base, s) == FoldRight(Op, s, base)

(* The values that follow one another from the last element to the first. *)
Results(f, base, s, n) ==
  f[n + 1] = base /\ \A i \in 1..n : f[i] = Op(s[i], f[i + 1])

(* A right fold is the last of them. *)
THEOREM FoldRightChain ==
  ASSUME NEW base, NEW s, NEW n \in Nat, DOMAIN s = 1..n
  PROVE  \E f : Results(f, base, s, n) /\ FoldR(base, s) = f[1]
<1> DEFINE G(f) == [d \in SUBSET (1..n) |->
                     IF d = {} THEN base ELSE Op(s[Min(d)], f[d \ {Min(d)}])]
           g == CHOOSE h : h = G(h)
<1>1. PICK h : h = G(h)
  <2>1. PICK h : FoldsRight(h, base, s, 1, n)
    BY FoldRightExists
  <2> QED
    BY <2>1 DEF FoldsRight
<1>2. g = G(g)
  <2> HIDE DEF G
  <2> QED
    BY <1>1
<1>3. FoldR(base, s) = g[1..n]
  BY DEF FoldR, FoldRight, MapThenFoldSet
<1>4. FoldsRight(g, base, s, 1, n)
  <2> HIDE DEF g
  <2> QED
    BY <1>2 DEF FoldsRight
<1> HIDE DEF g, G
<1> DEFINE f == [i \in 1..(n + 1) |-> g[i..n]]
<1>5. f[n + 1] = base
  <2>1. (n + 1)..n = {} /\ n + 1 \in 1..(n + 1)
    OBVIOUS
  <2> QED
    BY <1>4, <2>1 DEF FoldsRight
<1>6. ASSUME NEW i \in 1..n PROVE f[i] = Op(s[i], f[i + 1])
  <2>1. PICK d \in SUBSET (1..n) : d = i..n
    OBVIOUS
  <2>2. i \in d /\ d \in SUBSET (i..n) /\ i \in Int /\ n \in Int
    BY <2>1
  <2>3. Min(d) = i
    BY <2>2, MinOf, Zenon
  <2>4. d \ {i} = (i + 1)..n
    BY <2>1
  <2>5. g[d] = IF d = {} THEN base ELSE Op(s[Min(d)], g[d \ {Min(d)}])
    BY <1>4 DEF FoldsRight
  <2>6. g[d] = Op(s[i], g[(i + 1)..n])
    BY <2>2, <2>3, <2>4, <2>5, Zenon
  <2>7. f[i] = g[d] /\ f[i + 1] = g[(i + 1)..n]
    BY <2>1
  <2> QED
    BY <2>6, <2>7, Zenon
<1>7. f[1] = g[1..n]
  OBVIOUS
<1> HIDE DEF f
<1> QED
  BY <1>3, <1>5, <1>6, <1>7 DEF Results
================================================================================
