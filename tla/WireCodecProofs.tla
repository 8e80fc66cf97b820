---------------------------- MODULE WireCodecProofs ----------------------------
(***************************************************************************)
(* What a reader of the wire makes of what the other side wrote, for every *)
(* number, text, payload and limit: an answer of the repository through    *)
(* its typed helper (AnswersRead), an event of the shim through            *)
(* Event::decode (EventsRead), and a command of the plugin through         *)
(* Command.Decode, which may refuse it but never reads another one         *)
(* (CommandsRead).  A reader is shown to take from the bytes c = p \o r    *)
(* exactly the p that was written and to leave r (Joins); a list or a      *)
(* record is a fold, so its reader is followed along the fold's steps      *)
(* (Chain, over FoldLemmas).                                               *)
(***************************************************************************)
EXTENDS WireCodec, SequenceTheorems, TLAPS

(* What Number folds over the bytes, from the last to the first. *)
NumStep(b, acc) == acc * 256 + b
NumFolds == INSTANCE FoldLemmas WITH Op <- NumStep

(* A cursor that has not been refused. *)
At(rest, got) == [ok |-> TRUE, rest |-> rest, got |-> got]

LEMMA Cut ==
  ASSUME NEW S, NEW p \in Seq(S), NEW r \in Seq(S)
  PROVE  /\ p \o r \in Seq(S) /\ Len(p \o r) = Len(p) + Len(r)
         /\ SubSeq(p \o r, 1, Len(p)) = p
         /\ SubSeq(p \o r, Len(p) + 1, Len(p \o r)) = r
<1>1. PICK q : q = p \o r
  OBVIOUS
<1>2. PICK m \in Nat, n \in Nat : m = Len(p) /\ n = Len(r)
  OBVIOUS
<1>3. /\ q \in Seq(S) /\ Len(q) = m + n
      /\ \A i \in 1..m : q[i] = p[i]
      /\ \A i \in 1..n : q[m + i] = r[i]
  BY <1>1, <1>2
<1>4. SubSeq(q, 1, m) = p
  <2>1. SubSeq(q, 1, m) \in Seq(S) /\ Len(SubSeq(q, 1, m)) = m
        /\ \A i \in 1..m : SubSeq(q, 1, m)[i] = q[i]
    BY <1>3
  <2>2. \A i \in 1..m : SubSeq(q, 1, m)[i] = p[i]
    BY <2>1, <1>3
  <2> QED
    BY <2>1, <2>2, <1>2, SeqEqual
<1>5. SubSeq(q, m + 1, m + n) = r
  <2>1. SubSeq(q, m + 1, m + n) \in Seq(S) /\ Len(SubSeq(q, m + 1, m + n)) = n
        /\ \A i \in 1..n : SubSeq(q, m + 1, m + n)[i] = q[m + i]
    BY <1>3
  <2>2. \A i \in 1..n : SubSeq(q, m + 1, m + n)[i] = r[i]
    BY <2>1, <1>3
  <2> QED
    BY <2>1, <2>2, <1>2, SeqEqual
<1> QED
  BY <1>1, <1>2, <1>3, <1>4, <1>5

LEMMA TakeAt ==
  ASSUME NEW p \in Seq(Byte), NEW r \in Seq(Byte), NEW g
  PROVE  Take(At(p \o r, g), Len(p)) = At(r, p)
<1>1. PICK q : q = p \o r
  OBVIOUS
<1>2. /\ q \in Seq(Byte) /\ Len(q) = Len(p) + Len(r)
      /\ SubSeq(q, 1, Len(p)) = p /\ SubSeq(q, Len(p) + 1, Len(q)) = r
  BY <1>1, Cut
<1>3. Len(p) \in 0..Len(q)
  BY <1>2
<1>4. Take(At(q, g), Len(p)) =
        [ok |-> TRUE, rest |-> SubSeq(q, Len(p) + 1, Len(q)), got |-> SubSeq(q, 1, Len(p))]
  BY <1>3 DEF Take, At
<1> QED
  BY <1>1, <1>2, <1>4 DEF At

(* A function of the first w numbers is a sequence. *)
LEMMA Bounded ==
  ASSUME NEW S, NEW w \in Nat, NEW b \in [1..w -> S]
  PROVE  b \in Seq(S) /\ Len(b) = w /\ DOMAIN b = 1..w
OBVIOUS

LEMMA CountBytes ==
  ASSUME NEW n \in Count
  PROVE  /\ U32(n) \in Seq(Byte) /\ Len(U32(n)) = 4
         /\ U32(n)[1] = (n % 256) /\ U32(n)[2] = ((n \div 256) % 256)
         /\ U32(n)[3] = ((n \div 65536) % 256) /\ U32(n)[4] = ((n \div 16777216) % 256)
<1>1. PICK b : b = U32(n)
  OBVIOUS
<1>2. b = [i \in 1..4 |-> IF i > 4 THEN (IF n < 0 THEN 255 ELSE 0)
                          ELSE (n \div 256^(i - 1)) % 256]
  BY <1>1 DEF U32, LittleEndian
<1>0. n \in Nat
  BY SMT DEF Count
<1>3. /\ 256^(1 - 1) = 1 /\ 256^(2 - 1) = 256 /\ 256^(3 - 1) = 65536
      /\ 256^(4 - 1) = 16777216 /\ n \in Nat /\ n \div 1 = n
  BY <1>0, SMT
<1>4. /\ b[1] = (n % 256) /\ b[2] = ((n \div 256) % 256)
      /\ b[3] = ((n \div 65536) % 256) /\ b[4] = ((n \div 16777216) % 256)
  <2>1. b[1] = ((n \div 256^(1 - 1)) % 256)
    BY <1>2
  <2>2. b[2] = ((n \div 256^(2 - 1)) % 256)
    BY <1>2
  <2>3. b[3] = ((n \div 256^(3 - 1)) % 256)
    BY <1>2
  <2>4. b[4] = ((n \div 256^(4 - 1)) % 256)
    BY <1>2
  <2> QED
    BY <1>3, <2>1, <2>2, <2>3, <2>4
<1>5. (n % 256) \in Byte /\ ((n \div 256) % 256) \in Byte /\ ((n \div 65536) % 256) \in Byte
      /\ ((n \div 16777216) % 256) \in Byte
  BY <1>3 DEF Byte
<1>6. \A i \in 1..4 : i = 1 \/ i = 2 \/ i = 3 \/ i = 4
  OBVIOUS
<1>7. \A i \in 1..4 : b[i] \in Byte
  BY <1>4, <1>5, <1>6
<1>8. b = [i \in 1..4 |-> b[i]]
  BY <1>2
<1> HIDE DEF Byte
<1>9. b \in [1..4 -> Byte]
  BY <1>7, <1>8
<1>10. b \in Seq(Byte) /\ Len(b) = 4
  <2>1. 4 \in Nat
    OBVIOUS
  <2> QED
    BY <1>9, <2>1, Bounded, Zenon
<1> QED
  BY <1>1, <1>4, <1>10

(* Concatenation as a relation, which the provers match where they would expand \o. *)
Joins(c, p, r) == c = p \o r

(* Concatenation is associative: a piece goes from what is behind to what is ahead. *)
LEMMA Shift ==
  ASSUME NEW S, NEW p \in Seq(S), NEW e \in Seq(S), NEW r \in Seq(S), NEW a, NEW b,
         Joins(a, p, e), Joins(b, e, r), NEW c, Joins(c, a, r)
  PROVE  b \in Seq(S) /\ Joins(c, p, b)
<1>0. PICK k \in Nat, l \in Nat, m \in Nat : k = Len(p) /\ l = Len(e) /\ m = Len(r)
  OBVIOUS
<1>1. /\ a \in Seq(S) /\ Len(a) = k + l
      /\ \A i \in 1..k : a[i] = p[i]
      /\ \A i \in 1..l : a[k + i] = e[i]
  BY <1>0 DEF Joins
<1>2. /\ b \in Seq(S) /\ Len(b) = l + m
      /\ \A i \in 1..l : b[i] = e[i]
      /\ \A i \in 1..m : b[l + i] = r[i]
  BY <1>0 DEF Joins
<1>3. c = a \o r
  BY DEF Joins
<1>4. PICK d : d = p \o b
  OBVIOUS
<1>5. /\ c \in Seq(S) /\ Len(c) = k + l + m
      /\ \A i \in 1..(k + l) : c[i] = a[i]
      /\ \A i \in 1..m : c[k + l + i] = r[i]
  <2>1. PICK q \in Nat : q = k + l
    OBVIOUS
  <2>2. Len(a) = q /\ a \in Seq(S)
    BY <1>1, <2>1
  <2>3. /\ c \in Seq(S) /\ Len(c) = q + m
        /\ \A i \in 1..q : c[i] = a[i]
        /\ \A i \in 1..m : c[q + i] = r[i]
    <3>1. /\ c \in Seq(S) /\ Len(c) = Len(a) + Len(r)
          /\ \A i \in 1..Len(a) : c[i] = a[i]
          /\ \A i \in 1..Len(r) : c[Len(a) + i] = r[i]
      <4>1. a \in Seq(S)
        BY <1>1
      <4> QED
        BY <1>3, <4>1
    <3> QED
      BY <1>0, <2>2, <3>1
  <2> QED
    BY <2>1, <2>3
<1>6. /\ d \in Seq(S) /\ Len(d) = k + l + m
      /\ \A i \in 1..k : d[i] = p[i]
      /\ \A i \in 1..(l + m) : d[k + i] = b[i]
  <2>1. PICK q \in Nat : q = l + m
    OBVIOUS
  <2>2. Len(b) = q /\ b \in Seq(S)
    BY <1>2, <2>1
  <2>3. /\ d \in Seq(S) /\ Len(d) = k + q
        /\ \A i \in 1..k : d[i] = p[i]
        /\ \A i \in 1..q : d[k + i] = b[i]
    <3>1. /\ d \in Seq(S) /\ Len(d) = Len(p) + Len(b)
          /\ \A i \in 1..Len(p) : d[i] = p[i]
          /\ \A i \in 1..Len(b) : d[Len(p) + i] = b[i]
      <4>1. b \in Seq(S)
        BY <1>2
      <4> QED
        BY <1>4, <4>1
    <3> QED
      BY <1>0, <2>2, <3>1
  <2> QED
    BY <2>1, <2>3
<1>7. \A i \in 1..k : c[i] = d[i]
  <2>1. ASSUME NEW i \in 1..k PROVE c[i] = a[i] /\ a[i] = p[i] /\ d[i] = p[i]
    <3>1. i \in 1..(k + l)
      OBVIOUS
    <3> QED
      BY <1>1, <1>5, <1>6, <3>1
  <2> QED
    BY <2>1
<1>8. \A i \in 1..l : c[k + i] = d[k + i]
  <2>1. ASSUME NEW i \in 1..l PROVE c[k + i] = e[i] /\ d[k + i] = e[i]
    <3>1. i \in 1..(l + m) /\ k + i \in 1..(k + l)
      OBVIOUS
    <3>2. d[k + i] = b[i] /\ b[i] = e[i]
      BY <1>2, <1>6, <3>1
    <3>3. c[k + i] = a[k + i] /\ a[k + i] = e[i]
      BY <1>1, <1>5, <3>1
    <3> QED
      BY <3>2, <3>3
  <2> QED
    BY <2>1
<1>9. \A i \in 1..m : c[k + l + i] = d[k + l + i]
  <2>1. ASSUME NEW i \in 1..m PROVE d[k + l + i] = r[i]
    <3>1. l + i \in 1..(l + m) /\ k + (l + i) = k + l + i
      OBVIOUS
    <3>2. d[k + (l + i)] = b[l + i]
      BY <1>6, <3>1
    <3> QED
      BY <1>2, <3>1, <3>2
  <2> QED
    BY <1>5, <2>1
<1>10. ASSUME NEW i \in 1..(k + l + m) PROVE c[i] = d[i]
  <2>1. CASE i <= k
    BY <1>7, <2>1
  <2>2. CASE k < i /\ i <= k + l
    <3>1. i - k \in 1..l /\ k + (i - k) = i
      BY <2>2
    <3> QED
      BY <1>8, <3>1
  <2>3. CASE k + l < i
    <3>1. i - (k + l) \in 1..m /\ k + l + (i - (k + l)) = i
      BY <2>3
    <3> QED
      BY <1>9, <3>1
  <2> QED
    BY <2>1, <2>2, <2>3
<1>11. c = d
  BY <1>5, <1>6, <1>10, SeqEqual
<1> QED
  BY <1>2, <1>4, <1>11 DEF Joins

LEMMA Joined ==
  ASSUME NEW S, NEW p \in Seq(S), NEW r \in Seq(S), NEW q, Joins(q, p, r)
  PROVE  q \in Seq(S) /\ Len(q) = Len(p) + Len(r)
BY Cut DEF Joins

LEMMA Moved ==
  ASSUME NEW S, NEW F, NEW p \in Seq(S), NEW e \in Seq(S), NEW r \in Seq(S), NEW q,
         Joins(q, p, e), Joins(F, q, r)
  PROVE  \E t \in Seq(S) : Joins(t, e, r) /\ Joins(F, p, t)
<1>1. PICK t : t = e \o r
  OBVIOUS
<1>2. Joins(t, e, r)
  BY <1>1 DEF Joins
<1>3. t \in Seq(S) /\ Joins(F, p, t)
  BY <1>2, Shift
<1> QED
  BY <1>2, <1>3

(* What is flattened, from the left. *)
Flattens(f, s, n) == f = [i \in 1..n |-> IF i = 1 THEN s[i] ELSE f[i - 1] \o s[i]]

LEMMA FlattenDefined ==
  ASSUME NEW S, NEW s \in Seq(Seq(S)), Len(s) # 0
  PROVE  \E f : Flattens(f, s, Len(s)) /\ FlattenSeq(s) = f[Len(s)]
<1> DEFINE n == Len(s)
           G(f) == [i \in 1..n |-> IF i = 1 THEN s[i] ELSE f[i - 1] \o s[i]]
           T == {m \in 0..n : \E f : Flattens(f, s, m)}
<1>1. n \in Nat
  OBVIOUS
<1>2. 0 \in T
  <2> DEFINE f == [i \in 1..0 |-> s]
  <2>1. f = [i \in 1..0 |-> IF i = 1 THEN s[i] ELSE f[i - 1] \o s[i]]
    OBVIOUS
  <2>2. Flattens(f, s, 0)
    BY <2>1 DEF Flattens
  <2> HIDE DEF f
  <2> QED
    BY <1>1, <2>2
<1>3. ASSUME NEW m \in 0..(n - 1), m \in T
      PROVE  m + 1 \in T
  <2>1. PICK f : Flattens(f, s, m)
    BY <1>3
  <2> DEFINE h == [i \in 1..(m + 1) |-> IF i = m + 1
                     THEN (IF i = 1 THEN s[i] ELSE f[i - 1] \o s[i]) ELSE f[i]]
  <2>2. ASSUME NEW i \in 1..(m + 1)
        PROVE  h[i] = IF i = 1 THEN s[i] ELSE h[i - 1] \o s[i]
    <3>1. CASE i = m + 1
      <4>1. i # 1 => h[i - 1] = f[i - 1]
        BY <3>1
      <4> QED
        BY <3>1, <4>1
    <3>2. CASE i # m + 1
      <4>1. i \in 1..m /\ (i # 1 => i - 1 \in 1..(m + 1) /\ i - 1 # m + 1)
        BY <3>2
      <4>2. h[i] = f[i] /\ (i # 1 => h[i - 1] = f[i - 1])
        BY <3>2, <4>1
      <4>3. f[i] = IF i = 1 THEN s[i] ELSE f[i - 1] \o s[i]
        BY <2>1, <4>1 DEF Flattens
      <4> HIDE DEF h
      <4> QED
        BY <4>2, <4>3
    <3> QED
      BY <3>1, <3>2
  <2>3. Flattens(h, s, m + 1)
    <3> h = [i \in 1..(m + 1) |-> h[i]]
      OBVIOUS
    <3> HIDE DEF h
    <3> QED
      BY <2>2 DEF Flattens
  <2> HIDE DEF h
  <2> QED
    BY <2>3
<1> HIDE DEF T
<1>4. n \in T
  <2>1. \A m \in 0..n : m \in T
    BY <1>1, <1>2, <1>3, NumFolds!Induction
  <2> QED
    BY <1>1, <2>1
<1>5. PICK f : f = G(f)
  BY <1>4 DEF T, Flattens
<1> DEFINE g == CHOOSE h : h = G(h)
<1>6. g = G(g)
  <2> HIDE DEF G
  <2> QED
    BY <1>5
<1>7. FlattenSeq(s) = g[n]
  BY DEF FlattenSeq
<1>8. Flattens(g, s, n)
  <2> HIDE DEF g
  <2> QED
    BY <1>6 DEF Flattens
<1> HIDE DEF g
<1> QED
  BY <1>7, <1>8

LEMMA FlattenSteps ==
  ASSUME NEW S, NEW s \in Seq(Seq(S))
  PROVE  \E pre \in [0..Len(s) -> Seq(S)] :
           /\ pre[0] = <<>> /\ pre[Len(s)] = FlattenSeq(s)
           /\ \A m \in 0..(Len(s) - 1) : pre[m + 1] = pre[m] \o s[m + 1]
<1> DEFINE n == Len(s)
<1>1. n \in Nat
  OBVIOUS
<1>2. CASE n = 0
  <2> DEFINE pre == [m \in 0..n |-> <<>>]
  <2>1. FlattenSeq(s) = s /\ s = <<>>
    BY <1>2 DEF FlattenSeq
  <2>2. pre \in [0..n -> Seq(S)] /\ pre[0] = <<>> /\ pre[n] = <<>>
    BY <1>2
  <2>3. 0..(n - 1) = {}
    BY <1>2
  <2> HIDE DEF pre
  <2> QED
    BY <2>1, <2>2, <2>3
<1>3. CASE n # 0
  <2>1. PICK f : Flattens(f, s, n) /\ FlattenSeq(s) = f[n]
    BY <1>3, FlattenDefined
  <2>2. f[1] = s[1] /\ \A m \in 1..(n - 1) : f[m + 1] = f[m] \o s[m + 1]
    <3>1. \A i \in 1..n : f[i] = IF i = 1 THEN s[i] ELSE f[i - 1] \o s[i]
      BY <2>1 DEF Flattens
    <3>2. 1 \in 1..n
      BY <1>1, <1>3
    <3>3. ASSUME NEW m \in 1..(n - 1) PROVE f[m + 1] = f[m] \o s[m + 1]
      <4>1. m + 1 \in 1..n /\ m + 1 # 1 /\ (m + 1) - 1 = m
        BY <1>1
      <4> QED
        BY <3>1, <4>1
    <3> QED
      BY <3>1, <3>2, <3>3
  <2> DEFINE pre == [m \in 0..n |-> IF m = 0 THEN <<>> ELSE f[m]]
             T == {m \in 0..n : pre[m] \in Seq(S)}
  <2>3. pre[0] = <<>> /\ pre[n] = FlattenSeq(s)
    BY <1>1, <1>3, <2>1
  <2>4. ASSUME NEW m \in 0..(n - 1)
        PROVE  /\ s[m + 1] \in Seq(S)
               /\ pre[m] \in Seq(S) => pre[m + 1] = pre[m] \o s[m + 1] /\ pre[m + 1] \in Seq(S)
    <3>1. s[m + 1] \in Seq(S) /\ m \in 0..n /\ m + 1 \in 0..n /\ m + 1 # 0
      BY <1>1
    <3>2. CASE m = 0
      <4>1. pre[m] = <<>> /\ pre[m + 1] = s[m + 1]
        BY <2>2, <3>1, <3>2
      <4> HIDE DEF pre
      <4>2. <<>> \o s[m + 1] = s[m + 1]
        BY <3>1
      <4> QED
        BY <3>1, <4>1, <4>2
    <3>3. CASE m # 0
      <4>1. pre[m] = f[m] /\ pre[m + 1] = f[m + 1]
        BY <3>1, <3>3
      <4>0. f[m + 1] = f[m] \o s[m + 1]
        <5>1. m \in 1..(n - 1)
          BY <1>1, <3>3
        <5> QED
          BY <2>2, <5>1
      <4> HIDE DEF pre
      <4> QED
        BY <3>1, <4>0, <4>1
    <3> QED
      BY <3>2, <3>3
  <2>5. \A m \in 0..n : m \in T
    <3>1. 0 \in T
      BY <1>1, <2>3
    <3>2. \A m \in 0..(n - 1) : m \in T => m + 1 \in T
      <4>1. ASSUME NEW m \in 0..(n - 1), m \in T PROVE m + 1 \in T
        <5>1. m + 1 \in 0..n
          BY <1>1
        <5> HIDE DEF pre
        <5> QED
          BY <2>4, <4>1, <5>1
      <4> QED
        BY <4>1
    <3> HIDE DEF T
    <3> QED
      BY <1>1, <3>1, <3>2, NumFolds!Induction
  <2>6. pre \in [0..n -> Seq(S)]
    <3>1. \A m \in 0..n : pre[m] \in Seq(S)
      BY <2>5
    <3>2. pre = [m \in 0..n |-> pre[m]]
      OBVIOUS
    <3> HIDE DEF pre, T
    <3> QED
      BY <3>1, <3>2
  <2>7. \A m \in 0..(n - 1) : pre[m + 1] = pre[m] \o s[m + 1]
    <3>1. ASSUME NEW m \in 0..(n - 1) PROVE pre[m] \in Seq(S)
      BY <1>1, <2>5
    <3> HIDE DEF pre, T
    <3> QED
      BY <2>4, <3>1
  <2> HIDE DEF pre, T
  <2> QED
    BY <2>3, <2>6, <2>7
<1> QED
  BY <1>2, <1>3

LEMMA Pieces ==
  ASSUME NEW S, NEW s \in Seq(Seq(S))
  PROVE  \E suf \in [0..Len(s) -> Seq(S)] :
           /\ suf[0] = FlattenSeq(s) /\ suf[Len(s)] = <<>>
           /\ \A m \in 0..(Len(s) - 1) : Joins(suf[m], s[m + 1], suf[m + 1])
<1> DEFINE n == Len(s)
<1>1. n \in Nat
  OBVIOUS
<1>2. PICK pre \in [0..n -> Seq(S)] :
        /\ pre[0] = <<>> /\ pre[n] = FlattenSeq(s)
        /\ \A m \in 0..(n - 1) : pre[m + 1] = pre[m] \o s[m + 1]
  BY FlattenSteps
<1>3. PICK F \in Seq(S) : F = pre[n]
  BY <1>1
<1> DEFINE suf == [m \in 0..n |-> SubSeq(F, Len(pre[m]) + 1, Len(F))]
           T == {j \in 0..n : \E r \in Seq(S) : Joins(F, pre[n - j], r)}
<1>4. ASSUME NEW m \in 0..n, NEW r \in Seq(S), Joins(F, pre[m], r)
      PROVE  suf[m] = r
  <2>1. PICK p \in Seq(S) : p = pre[m]
    OBVIOUS
  <2>2. F = p \o r
    BY <1>4, <2>1 DEF Joins
  <2>3. SubSeq(F, Len(p) + 1, Len(F)) = r
    BY <2>2, Cut
  <2> QED
    BY <2>1, <2>3
<1>5. ASSUME NEW m \in 0..(n - 1), NEW r \in Seq(S), Joins(F, pre[m + 1], r)
      PROVE  \E t \in Seq(S) : Joins(t, s[m + 1], r) /\ Joins(F, pre[m], t)
  <2> HIDE DEF suf, T
  <2>1. m \in 0..n /\ m + 1 \in 1..n
    BY <1>1
  <2>2. PICK p \in Seq(S) : p = pre[m]
    BY <2>1
  <2>3. PICK e \in Seq(S) : e = s[m + 1]
    BY <2>1
  <2>4. Joins(pre[m + 1], p, e)
    BY <1>2, <2>2, <2>3 DEF Joins
  <2>5. \E t \in Seq(S) : Joins(t, e, r) /\ Joins(F, p, t)
    BY <1>5, <2>4, Moved
  <2> QED
    BY <2>2, <2>3, <2>5
<1>6. \A j \in 0..n : j \in T
  <2>1. 0 \in T
    <3>1. F = F \o <<>> /\ <<>> \in Seq(S) /\ n - 0 = n /\ 0 \in 0..n
      BY <1>1
    <3> QED
      BY <1>3, <3>1 DEF Joins
  <2>2. ASSUME NEW j \in 0..(n - 1), j \in T PROVE j + 1 \in T
    <3> DEFINE m == n - (j + 1)
    <3>1. m \in 0..(n - 1) /\ m + 1 = n - j /\ j + 1 \in 0..n
      BY <1>1
    <3> HIDE DEF m
    <3>2. PICK r \in Seq(S) : Joins(F, pre[m + 1], r)
      BY <2>2, <3>1
    <3>3. \E t \in Seq(S) : Joins(F, pre[m], t)
      BY <1>5, <3>1, <3>2
    <3> QED
      BY <3>1, <3>3 DEF m
  <2> HIDE DEF T
  <2> QED
    BY <1>1, <2>1, <2>2, NumFolds!Induction
<1>7. ASSUME NEW m \in 0..n
      PROVE  suf[m] \in Seq(S) /\ Joins(F, pre[m], suf[m])
  <2>1. n - m \in 0..n /\ n - (n - m) = m
    BY <1>1
  <2>2. PICK r \in Seq(S) : Joins(F, pre[m], r)
    BY <1>6, <2>1
  <2>3. suf[m] = r
    BY <1>4, <2>2
  <2> HIDE DEF suf
  <2> QED
    BY <2>2, <2>3
<1>8. suf \in [0..n -> Seq(S)]
  <2>1. suf = [m \in 0..n |-> suf[m]]
    OBVIOUS
  <2> HIDE DEF suf
  <2> QED
    BY <1>7, <2>1
<1>9. suf[0] = F /\ suf[n] = <<>>
  <2>1. F = <<>> \o F /\ F = F \o <<>> /\ <<>> \in Seq(S) /\ 0 \in 0..n /\ n \in 0..n
    BY <1>1
  <2>2. Joins(F, pre[0], F)
    BY <1>2, <2>1 DEF Joins
  <2>3. Joins(F, pre[n], <<>>)
    BY <1>3, <2>1 DEF Joins
  <2> HIDE DEF suf
  <2> QED
    BY <1>4, <2>1, <2>2, <2>3
<1>10. ASSUME NEW m \in 0..(n - 1) PROVE Joins(suf[m], s[m + 1], suf[m + 1])
  <2>1. m \in 0..n /\ m + 1 \in 0..n
    BY <1>1
  <2> HIDE DEF suf
  <2>2. suf[m + 1] \in Seq(S) /\ Joins(F, pre[m + 1], suf[m + 1])
    BY <1>7, <2>1
  <2>3. PICK t \in Seq(S) : Joins(t, s[m + 1], suf[m + 1]) /\ Joins(F, pre[m], t)
    BY <1>5, <2>2
  <2>4. suf[m] = t
    BY <1>4, <2>1, <2>3
  <2> QED
    BY <2>3, <2>4
<1> HIDE DEF suf
<1> QED
  BY <1>2, <1>3, <1>8, <1>9, <1>10

LEMMA NumberIsFold ==
  \A b : Number(b) = NumFolds!FoldR(IF Last(b) > 127 THEN -1 ELSE 0, b)
BY DEF Number, NumFolds!FoldR, NumStep, FoldRight, NumFolds!FoldRight, MapThenFoldSet, NumFolds!MapThenFoldSet, Min, NumFolds!Min

(* The digits of a number, and a byte more. *)
LEMMA Digits ==
  ASSUME NEW n \in Nat
  PROVE  /\ n \div 256 \in Nat /\ (n % 256) \in 0..255
         /\ n = (n \div 256) * 256 + (n % 256)
OBVIOUS

LEMMA SecondByte ==
  ASSUME NEW n \in Nat
  PROVE  n \div 65536 = (n \div 256) \div 256
<1>1. PICK a \in Nat, r \in Nat : a = n \div 256 /\ r = (n % 256)
  OBVIOUS
<1>2. n = a * 256 + r /\ r < 256
  BY <1>1
<1>3. PICK b \in Nat, s \in Nat : b = a \div 256 /\ s = (a % 256)
  OBVIOUS
<1>4. a = b * 256 + s /\ s < 256
  BY <1>3
<1>5. PICK k \in Nat : k = s * 256 + r
  OBVIOUS
<1>6. k < 65536
  BY <1>2, <1>4, <1>5
<1>7. n = b * 65536 + k
  BY <1>2, <1>4, <1>5
<1>8. n \div 65536 = b
  BY <1>6, <1>7
<1> QED
  BY <1>1, <1>3, <1>8

LEMMA ThirdByte ==
  ASSUME NEW n \in Nat
  PROVE  n \div 16777216 = (n \div 65536) \div 256
<1>1. PICK a \in Nat, r \in Nat : a = n \div 65536 /\ r = (n % 65536)
  OBVIOUS
<1>2. n = a * 65536 + r /\ r < 65536
  BY <1>1
<1>3. PICK b \in Nat, s \in Nat : b = a \div 256 /\ s = (a % 256)
  OBVIOUS
<1>4. a = b * 256 + s /\ s < 256
  BY <1>3
<1>5. PICK k \in Nat : k = s * 65536 + r
  OBVIOUS
<1>6. k < 16777216
  BY <1>2, <1>4, <1>5
<1>7. n = b * 16777216 + k
  BY <1>2, <1>4, <1>5
<1>8. n \div 16777216 = b
  BY <1>6, <1>7
<1> QED
  BY <1>1, <1>3, <1>8

LEMMA ByteRange ==
  ASSUME NEW x \in Byte
  PROVE  x \in Int /\ 0 <= x /\ x < 256
BY DEF Byte

LEMMA Elements ==
  ASSUME NEW S, NEW s \in Seq(S)
  PROVE  \A i \in DOMAIN s : s[i] \in S
OBVIOUS

LEMMA FourBytes ==
  ASSUME NEW b \in Seq(Byte), Len(b) = 4
  PROVE  b[1] \in Byte /\ b[2] \in Byte /\ b[3] \in Byte /\ b[4] \in Byte
<1>1. DOMAIN b = 1..4
  OBVIOUS
<1>2. \A i \in DOMAIN b : b[i] \in Byte
  BY Elements
<1>3. 1 \in 1..4 /\ 2 \in 1..4 /\ 3 \in 1..4 /\ 4 \in 1..4
  OBVIOUS
<1> QED
  BY <1>1, <1>2, <1>3, Zenon

(* The number in four bytes, the last one with the sign. *)
Signed(d) == IF d > 127 THEN d - 256 ELSE d

LEMMA NumberOfFour ==
  ASSUME NEW b \in Seq(Byte), Len(b) = 4
  PROVE  Number(b) = ((Signed(b[4]) * 256 + b[3]) * 256 + b[2]) * 256 + b[1]
<1>1. DOMAIN b = 1..4 /\ Last(b) = b[4]
  BY DEF Last
<1>2. PICK base \in Int : base = IF b[4] > 127 THEN -1 ELSE 0
  OBVIOUS
<1>3. Number(b) = NumFolds!FoldR(base, b)
  BY <1>1, <1>2, NumberIsFold
<1>4. PICK f : /\ f[4 + 1] = base
               /\ \A i \in 1..4 : f[i] = NumStep(b[i], f[i + 1])
               /\ NumFolds!FoldR(base, b) = f[1]
  <2>1. PICK w \in Nat : w = 4
    OBVIOUS
  <2>2. DOMAIN b = 1..w
    BY <1>1, <2>1
  <2>3. PICK f : NumFolds!Results(f, base, b, w) /\ NumFolds!FoldR(base, b) = f[1]
    BY <2>2, NumFolds!FoldRightChain
  <2> QED
    BY <2>1, <2>3 DEF NumFolds!Results
<1>5. f[4] = NumStep(b[4], base) /\ f[3] = NumStep(b[3], f[4])
      /\ f[2] = NumStep(b[2], f[3]) /\ f[1] = NumStep(b[1], f[2])
  <2>1. /\ f[4] = NumStep(b[4], f[4 + 1]) /\ f[3] = NumStep(b[3], f[3 + 1])
        /\ f[2] = NumStep(b[2], f[2 + 1]) /\ f[1] = NumStep(b[1], f[1 + 1])
    BY <1>4
  <2>2. 3 + 1 = 4 /\ 2 + 1 = 3 /\ 1 + 1 = 2
    OBVIOUS
  <2> QED
    BY <1>4, <2>1, <2>2
<1>6. f[4] = Signed(b[4])
  <2>1. b[4] \in Int
    BY FourBytes, ByteRange
  <2>2. f[4] = base * 256 + b[4]
    BY <1>5 DEF NumStep
  <2>3. PICK d \in Int : d = b[4]
    BY <2>1
  <2>6. PICK e : e = f[4]
    OBVIOUS
  <2>4. e = base * 256 + d /\ base = IF d > 127 THEN -1 ELSE 0
    BY <1>2, <2>2, <2>3, <2>6
  <2>5. e = Signed(d)
    BY <2>4 DEF Signed
  <2> QED
    BY <2>3, <2>5, <2>6
<1>7. f[3] = f[4] * 256 + b[3] /\ f[2] = f[3] * 256 + b[2] /\ f[1] = f[2] * 256 + b[1]
  BY <1>5 DEF NumStep
<1> QED
  BY <1>3, <1>4, <1>6, <1>7, Zenon

(* A count, written and read. *)
LEMMA NumberOfCount ==
  ASSUME NEW n \in Count
  PROVE  Number(U32(n)) = n
<1>1. PICK b : b = U32(n)
  OBVIOUS
<1>2. /\ b \in Seq(Byte) /\ Len(b) = 4
      /\ b[1] = (n % 256) /\ b[2] = ((n \div 256) % 256)
      /\ b[3] = ((n \div 65536) % 256) /\ b[4] = ((n \div 16777216) % 256)
  BY <1>1, CountBytes
<1>3. n \in Nat /\ n < 2147483648
  BY SMT DEF Count
<1>4. PICK n1 \in Nat, n2 \in Nat, n3 \in Nat :
        n1 = n \div 256 /\ n2 = n \div 65536 /\ n3 = n \div 16777216
  BY <1>3, SMT
<1>5. n2 = n1 \div 256 /\ n3 = n2 \div 256
  <2>1. n \in Nat
    BY <1>3, SMT
  <2>2. n \div 65536 = (n \div 256) \div 256
    BY <2>1, SecondByte, SMT
  <2>3. n \div 16777216 = (n \div 65536) \div 256
    BY <2>1, ThirdByte, SMT
  <2> QED
    BY <1>4, <2>2, <2>3, SMT
<1>6. /\ n = n1 * 256 + (n % 256) /\ n1 = n2 * 256 + (n1 % 256)
      /\ n2 = n3 * 256 + (n2 % 256)
  BY <1>3, <1>4, <1>5, Digits
<1>7. n3 < 128
  BY <1>3, <1>4, SMT
<1>8. b[4] = n3 /\ Signed(b[4]) = n3
  <2>1. (n3 % 256) = n3
    BY <1>7
  <2>2. b[4] = (n3 % 256)
    BY <1>2, <1>4
  <2> QED
    BY <1>7, <2>1, <2>2 DEF Signed
<1>9. PICK x \in Nat, y \in Nat, z \in Nat : x = (n % 256) /\ y = (n1 % 256) /\ z = (n2 % 256)
  BY <1>3
<1>10. Number(b) = ((n3 * 256 + z) * 256 + y) * 256 + x
  <2>1. Number(b) = ((Signed(b[4]) * 256 + b[3]) * 256 + b[2]) * 256 + b[1]
    BY <1>2, NumberOfFour
  <2>2. b[1] = x /\ b[2] = y /\ b[3] = z
    BY <1>2, <1>4, <1>9
  <2> QED
    BY <1>8, <2>1, <2>2
<1> QED
  BY <1>1, <1>6, <1>9, <1>10

Worth(w, x, y, z) == ((Signed(z) * 256 + y) * 256 + x) * 256 + w

Shows(n, w, x, y, z) ==
  /\ (n % 256) = w /\ ((n \div 256) % 256) = x
  /\ ((n \div 65536) % 256) = y /\ ((n \div 16777216) % 256) = z

LEMMA FourDigits ==
  ASSUME NEW w \in Byte, NEW x \in Byte, NEW y \in Byte, NEW z \in Byte, NEW n \in Int,
         n = Worth(w, x, y, z), n >= 0
  PROVE  n \in Count /\ Shows(n, w, x, y, z)
<1>0. /\ w \in Int /\ 0 <= w /\ w < 256 /\ x \in Int /\ 0 <= x /\ x < 256
      /\ y \in Int /\ 0 <= y /\ y < 256 /\ z \in Int /\ 0 <= z /\ z < 256
  BY ByteRange
<1>1. z < 128
  BY <1>0 DEF Signed, Worth
<1>2. n = ((z * 256 + y) * 256 + x) * 256 + w
  BY <1>0, <1>1 DEF Signed, Worth
<1>3. PICK n2 \in Nat : n2 = z * 256 + y
  BY <1>0
<1>4. PICK n1 \in Nat : n1 = n2 * 256 + x
  BY <1>0
<1>5. n = n1 * 256 + w /\ n \in Nat
  BY <1>0, <1>2, <1>3, <1>4
<1>6. n \div 256 = n1 /\ n1 \div 256 = n2
  BY <1>0, <1>4, <1>5
<1>7. n2 \div 256 = z
  BY <1>0, <1>3
<1>8. (n % 256) = w /\ (n1 % 256) = x
  BY <1>0, <1>4, <1>5
<1>9. (n2 % 256) = y /\ (z % 256) = z
  BY <1>0, <1>3
<1>10. n \div 65536 = n2 /\ n \div 16777216 = z
  <2>1. n \div 65536 = (n \div 256) \div 256
    BY <1>5, SecondByte
  <2>2. n \div 16777216 = (n \div 65536) \div 256
    BY <1>5, ThirdByte
  <2> QED
    BY <1>6, <1>7, <2>1, <2>2
<1>11. n2 < 32768
  BY <1>0, <1>1, <1>3
<1>12. n < 2147483648
  BY <1>0, <1>4, <1>5, <1>11
<1>13. n \in Count
  BY <1>5, <1>12, SMT DEF Count
<1> QED
  BY <1>6, <1>8, <1>9, <1>10, <1>13 DEF Shows

(* Four bytes that hold a count are the bytes of that count. *)
LEMMA CountOfNumber ==
  ASSUME NEW b \in Seq(Byte), Len(b) = 4, Number(b) >= 0
  PROVE  Number(b) \in Count /\ U32(Number(b)) = b
<1>1. PICK n : n = Number(b)
  OBVIOUS
<1>2. n = ((Signed(b[4]) * 256 + b[3]) * 256 + b[2]) * 256 + b[1]
  BY <1>1, NumberOfFour
<1>3. PICK w \in Byte, x \in Byte, y \in Byte, z \in Byte :
        w = b[1] /\ x = b[2] /\ y = b[3] /\ z = b[4]
  BY FourBytes
<1>4. n = Worth(w, x, y, z)
  BY <1>2, <1>3 DEF Worth
<1>5. n \in Int /\ n >= 0
  <2>1. w \in Int /\ x \in Int /\ y \in Int /\ z \in Int
    BY ByteRange
  <2>2. Signed(z) \in Int
    BY <2>1 DEF Signed
  <2> QED
    BY <1>1, <1>4, <2>1, <2>2 DEF Worth
<1>6. n \in Count /\ Shows(n, w, x, y, z)
  BY <1>4, <1>5, FourDigits
<1>7. PICK u : u = U32(n)
  OBVIOUS
<1>8. /\ u \in Seq(Byte) /\ Len(u) = 4
      /\ u[1] = (n % 256) /\ u[2] = ((n \div 256) % 256)
      /\ u[3] = ((n \div 65536) % 256) /\ u[4] = ((n \div 16777216) % 256)
  BY <1>6, <1>7, CountBytes
<1>9. \A i \in 1..4 : i = 1 \/ i = 2 \/ i = 3 \/ i = 4
  OBVIOUS
<1>10. u[1] = b[1] /\ u[2] = b[2] /\ u[3] = b[3] /\ u[4] = b[4]
  <2>1. u[1] = w /\ u[2] = x /\ u[3] = y /\ u[4] = z
    BY <1>6, <1>8 DEF Shows
  <2> QED
    BY <1>3, <2>1
<1>11. u = b
  <2>1. \A i \in 1..4 : u[i] = b[i]
    BY <1>9, <1>10
  <2> QED
    BY <1>8, <2>1, SeqEqual
<1> QED
  BY <1>1, <1>6, <1>7, <1>11

-------------------------------------------------------------------------------
(* The cursor on a piece and what follows it. *)
LEMMA TakeJoined ==
  ASSUME NEW p \in Seq(Byte), NEW r \in Seq(Byte), NEW q, Joins(q, p, r), NEW g
  PROVE  q \in Seq(Byte) /\ Take(At(q, g), Len(p)) = At(r, p)
<1>1. q = p \o r
  BY DEF Joins
<1>2. Take(At(q, g), Len(p)) = At(r, p)
  BY <1>1, TakeAt
<1>3. q \in Seq(Byte)
  BY <1>1, Cut
<1> QED
  BY <1>2, <1>3

(* A count, and a piece as long as it says. *)
Counted(s) == U32(Len(s)) \o s

Blob == {s \in Seq(Byte) : Len(s) \in Count}

Ascii == {s \in Blob : \A i \in DOMAIN s : s[i] < 128}

LEMMA CountedSplit ==
  ASSUME NEW s \in Seq(Byte), NEW n \in Count, NEW r \in Seq(Byte), NEW q,
         NEW p, Joins(p, U32(n), s), Joins(q, p, r), NEW g
  PROVE  /\ p \in Seq(Byte)
         /\ \E t \in Seq(Byte) : Joins(t, s, r) /\ Take(At(q, g), 4) = At(t, U32(n))
<1>1. PICK u \in Seq(Byte) : u = U32(n) /\ Len(u) = 4
  BY CountBytes
<1>2. Joins(p, u, s)
  BY <1>1
<1>3. p \in Seq(Byte)
  BY <1>2, TakeJoined
<1>4. PICK t \in Seq(Byte) : Joins(t, s, r) /\ Joins(q, u, t)
  BY <1>2, Moved
<1>5. Take(At(q, g), Len(u)) = At(t, u)
  BY <1>4, TakeJoined
<1> QED
  BY <1>1, <1>3, <1>4, <1>5

LEMMA BytesRead ==
  ASSUME NEW s \in Blob, NEW r \in Seq(Byte), NEW q, Joins(q, Counted(s), r), NEW g
  PROVE  Counted(s) \in Seq(Byte) /\ Bytes(At(q, g)) = At(r, s)
<1>1. PICK n \in Count : n = Len(s)
  BY DEF Blob
<1>2. s \in Seq(Byte)
  BY DEF Blob
<1>3. PICK p : p = Counted(s)
  OBVIOUS
<1>4. Joins(p, U32(n), s) /\ Joins(q, p, r)
  BY <1>1, <1>3 DEF Counted, Joins
<1>5. /\ p \in Seq(Byte)
      /\ \E t \in Seq(Byte) : Joins(t, s, r) /\ Take(At(q, g), 4) = At(t, U32(n))
  BY <1>2, <1>4, CountedSplit
<1>6. PICK t \in Seq(Byte) : Joins(t, s, r) /\ Take(At(q, g), 4) = At(t, U32(n))
  BY <1>5
<1>7. Number(U32(n)) = n
  BY NumberOfCount
<1>8. Take(At(t, U32(n)), Len(s)) = At(r, s)
  BY <1>2, <1>6, TakeJoined
<1>9. Bytes(At(q, g)) = Take(At(t, U32(n)), Number(U32(n)))
  BY <1>6 DEF Bytes, Then, At
<1> QED
  BY <1>1, <1>3, <1>5, <1>7, <1>8, <1>9

LEMMA StrRead ==
  ASSUME NEW s \in Ascii, NEW r \in Seq(Byte), NEW q, Joins(q, Counted(s), r), NEW g
  PROVE  Counted(s) \in Seq(Byte) /\ Str(At(q, g)) = At(r, s)
<1>1. s \in Blob
  BY DEF Ascii
<1>2. Counted(s) \in Seq(Byte) /\ Bytes(At(q, g)) = At(r, s)
  BY <1>1, BytesRead
<1>3. \A i \in DOMAIN s : s[i] < 128
  BY DEF Ascii
<1>4. PICK c : c = Bytes(At(q, g))
  OBVIOUS
<1>5. c = At(r, s) /\ c.ok /\ c.got = s
  BY <1>2, <1>4 DEF At
<1>6. Str(At(q, g)) = IF \A i \in DOMAIN c.got : c.got[i] < 128 THEN c ELSE Refused
  BY <1>4, <1>5 DEF Str, Then
<1> QED
  BY <1>2, <1>3, <1>5, <1>6

-------------------------------------------------------------------------------
(* The cursors on the way through the pieces s, when out[i] is read from s[i]. *)
Passes(f, s, out, m) ==
  \E x, y, g : /\ y \in Seq(Byte) /\ Joins(x, s[m + 1], y)
               /\ f[m] = At(x, g) /\ f[m + 1] = Collect(At(x, g), At(y, out[m + 1]))

Follows(f, s, out, q, r) ==
  /\ f[0] = At(q, <<>>) /\ f[Len(s)] = At(r, out)
  /\ \A m \in 0..(Len(s) - 1) : Passes(f, s, out, m)

(* One element more is collected from where the cursor stands. *)
LEMMA Collected ==
  ASSUME NEW x, NEW g, NEW y, NEW e
  PROVE  Collect(At(x, g), At(y, e)) = At(y, Append(g, e))
BY DEF Collect, Read, At

(* The first m + 1 elements. *)
LEMMA OneMore ==
  ASSUME NEW S, NEW out \in Seq(S), NEW m \in 0..(Len(out) - 1)
  PROVE  SubSeq(out, 1, m + 1) = Append(SubSeq(out, 1, m), out[m + 1])
<1>1. PICK a, b : a = SubSeq(out, 1, m + 1) /\ b = SubSeq(out, 1, m)
  OBVIOUS
<1>2. m \in Nat /\ m + 1 \in 1..Len(out)
  OBVIOUS
<1>3. /\ a \in Seq(S) /\ Len(a) = m + 1
      /\ \A i \in 1..(m + 1) : a[i] = out[i]
  BY <1>1, <1>2
<1>4. /\ b \in Seq(S) /\ Len(b) = m
      /\ \A i \in 1..m : b[i] = out[i]
  BY <1>1, <1>2
<1>5. PICK e \in S : e = out[m + 1]
  BY <1>2
<1>6. /\ Append(b, e) \in Seq(S) /\ Len(Append(b, e)) = m + 1
      /\ \A i \in 1..m : Append(b, e)[i] = b[i]
      /\ Append(b, e)[m + 1] = e
  BY <1>4
<1>7. ASSUME NEW i \in 1..(m + 1) PROVE a[i] = Append(b, e)[i]
  <2>1. CASE i = m + 1
    BY <1>3, <1>5, <1>6, <2>1
  <2>2. CASE i # m + 1
    <3>1. i \in 1..m
      BY <1>2, <2>2
    <3> QED
      BY <1>3, <1>4, <1>6, <3>1
  <2> QED
    BY <2>1, <2>2
<1>8. a = Append(b, e)
  BY <1>3, <1>6, <1>7, SeqEqual
<1> QED
  BY <1>1, <1>5, <1>8

LEMMA Chain ==
  ASSUME NEW s \in Seq(Seq(Byte)), NEW S, NEW out \in Seq(S), Len(out) = Len(s),
         NEW r \in Seq(Byte), NEW q, Joins(q, FlattenSeq(s), r)
  PROVE  \E f : Follows(f, s, out, q, r)
<1> DEFINE n == Len(s)
<1>1. n \in Nat
  OBVIOUS
<1>2. PICK suf \in [0..n -> Seq(Byte)] :
        /\ suf[0] = FlattenSeq(s) /\ suf[n] = <<>>
        /\ \A m \in 0..(n - 1) : Joins(suf[m], s[m + 1], suf[m + 1])
  BY Pieces
<1> DEFINE f == [m \in 0..n |-> At(suf[m] \o r, SubSeq(out, 1, m))]
<1>3. f[0] = At(q, <<>>)
  <2>1. q = suf[0] \o r
    BY <1>2 DEF Joins
  <2>2. SubSeq(out, 1, 0) = <<>> /\ 0 \in 0..n
    BY <1>1
  <2> QED
    BY <2>1, <2>2
<1>4. f[n] = At(r, out)
  <2>1. SubSeq(out, 1, n) = out
    <3>1. SubSeq(out, 1, Len(out)) = out
      OBVIOUS
    <3> QED
      BY <3>1
  <2>2. suf[n] \o r = r
    <3>1. <<>> \o r = r
      OBVIOUS
    <3> QED
      BY <1>2, <3>1
  <2>3. n \in 0..n
    BY <1>1
  <2> QED
    BY <2>1, <2>2, <2>3
<1>5. ASSUME NEW m \in 0..(n - 1)
      PROVE  Passes(f, s, out, m)
  <2>1. m \in 0..n /\ m + 1 \in 0..n /\ m + 1 \in 1..n
    BY <1>1
  <2>2. PICK a \in Seq(Byte) : a = suf[m]
    BY <2>1
  <2>3. PICK b \in Seq(Byte) : b = suf[m + 1]
    BY <2>1
  <2>4. PICK e \in Seq(Byte) : e = s[m + 1]
    BY <2>1
  <2>5. PICK x : x = a \o r
    OBVIOUS
  <2>6. Joins(a, e, b) /\ Joins(x, a, r)
    BY <1>2, <2>2, <2>3, <2>4, <2>5 DEF Joins
  <2>7. PICK y \in Seq(Byte) : Joins(y, b, r) /\ Joins(x, e, y)
    BY <2>6, Moved
  <2>8. y = b \o r
    BY <2>7 DEF Joins
  <2>9. m \in 0..(Len(out) - 1)
    OBVIOUS
  <2>10. SubSeq(out, 1, m + 1) = Append(SubSeq(out, 1, m), out[m + 1])
    BY <2>9, OneMore
  <2>11. f[m] = At(x, SubSeq(out, 1, m)) /\ f[m + 1] = At(y, SubSeq(out, 1, m + 1))
    BY <2>1, <2>2, <2>3, <2>5, <2>8
  <2> HIDE DEF f
  <2>12. f[m + 1] = Collect(At(x, SubSeq(out, 1, m)), At(y, out[m + 1]))
    <3>1. PICK h, e1 : h = SubSeq(out, 1, m) /\ e1 = out[m + 1]
      OBVIOUS
    <3>2. f[m + 1] = At(y, Append(h, e1))
      BY <2>10, <2>11, <3>1
    <3>3. Collect(At(x, h), At(y, e1)) = At(y, Append(h, e1))
      BY Collected
    <3> QED
      BY <3>1, <3>2, <3>3
  <2> QED
    BY <2>4, <2>7, <2>11, <2>12 DEF Passes
<1> HIDE DEF f
<1>6. Follows(f, s, out, q, r)
  BY <1>3, <1>4, <1>5 DEF Follows
<1> QED
  BY <1>6

(* Pieces that are not empty are as many bytes as they are, or more. *)
LEMMA Enough ==
  ASSUME NEW S, NEW s \in Seq(Seq(S)), \A i \in 1..Len(s) : s[i] # <<>>
  PROVE  Len(FlattenSeq(s)) >= Len(s) /\ FlattenSeq(s) \in Seq(S)
<1> DEFINE n == Len(s)
<1>1. n \in Nat
  OBVIOUS
<1>2. PICK pre \in [0..n -> Seq(S)] :
        /\ pre[0] = <<>> /\ pre[n] = FlattenSeq(s)
        /\ \A m \in 0..(n - 1) : pre[m + 1] = pre[m] \o s[m + 1]
  BY FlattenSteps
<1> DEFINE T == {m \in 0..n : Len(pre[m]) >= m}
<1>3. 0 \in T
  <2>1. Len(pre[0]) = 0 /\ 0 \in 0..n
    BY <1>1, <1>2
  <2> QED
    BY <2>1
<1>4. ASSUME NEW m \in 0..(n - 1), m \in T PROVE m + 1 \in T
  <2>1. m \in 0..n /\ m + 1 \in 0..n /\ m + 1 \in 1..n
    BY <1>1
  <2>2. PICK a \in Seq(S) : a = pre[m]
    BY <2>1
  <2>3. PICK e \in Seq(S) : e = s[m + 1]
    BY <2>1
  <2>4. Len(e) \in Nat /\ Len(e) # 0
    BY <2>1, <2>3
  <2>5. Len(a \o e) = Len(a) + Len(e) /\ Len(a) \in Nat
    OBVIOUS
  <2>6. Len(a) >= m
    BY <1>4, <2>2
  <2>7. pre[m + 1] = a \o e
    BY <1>2, <2>2, <2>3
  <2>8. Len(pre[m + 1]) >= m + 1
    BY <2>4, <2>5, <2>6, <2>7
  <2> QED
    BY <2>1, <2>8
<1> HIDE DEF T
<1>5. n \in T
  <2>1. \A m \in 0..n : m \in T
    BY <1>1, <1>3, <1>4, NumFolds!Induction
  <2> QED
    BY <1>1, <2>1
<1>6. Len(pre[n]) >= n /\ pre[n] \in Seq(S)
  BY <1>1, <1>5 DEF T
<1> QED
  BY <1>2, <1>6

-------------------------------------------------------------------------------
(* Lists.  The indexes that ReadList counts off. *)
Upto(k) == [i \in 1..k |-> i]

LEMMA UptoSeq ==
  ASSUME NEW k \in Nat
  PROVE  Upto(k) \in Seq(Nat) /\ Len(Upto(k)) = k
BY DEF Upto

(* The count is read and taken for plausible. *)
Opened(q, g, t, k) ==
  Take(At(q, g), 4) = At(t, U32(k)) /\ Number(U32(k)) = k /\ k \in 0..Len(t)

LEMMA ListOpens ==
  ASSUME NEW s \in Seq(Seq(Byte)), \A i \in 1..Len(s) : s[i] # <<>>,
         NEW k \in Count, Len(s) = k, NEW r \in Seq(Byte), NEW q, NEW p,
         Joins(p, U32(k), FlattenSeq(s)), Joins(q, p, r), NEW g
  PROVE  /\ p \in Seq(Byte)
         /\ \E t \in Seq(Byte) : Joins(t, FlattenSeq(s), r) /\ Opened(q, g, t, k)
<1>1. PICK F \in Seq(Byte) : F = FlattenSeq(s) /\ Len(F) >= Len(s)
  BY Enough
<1>2. Joins(p, U32(k), F)
  BY <1>1
<1>3. /\ p \in Seq(Byte)
      /\ \E t \in Seq(Byte) : Joins(t, F, r) /\ Take(At(q, g), 4) = At(t, U32(k))
  BY <1>2, CountedSplit
<1>4. PICK t \in Seq(Byte) : Joins(t, F, r) /\ Take(At(q, g), 4) = At(t, U32(k))
  BY <1>3
<1>5. k \in 0..Len(t)
  <2>1. t = F \o r
    BY <1>4 DEF Joins
  <2>2. Len(t) = Len(F) + Len(r) /\ Len(F) \in Nat /\ Len(r) \in Nat
    BY <2>1, Cut
  <2>3. Len(F) >= k
    BY <1>1
  <2>4. k \in Nat
    BY SMT DEF Count
  <2> QED
    BY <2>2, <2>3, <2>4
<1>6. Number(U32(k)) = k
  BY NumberOfCount
<1> QED
  BY <1>1, <1>3, <1>4, <1>5, <1>6 DEF Opened

(* Texts in a list. *)
StrStep(d, i) == Collect(d, Str(d))
StrFolds == INSTANCE FoldLemmas WITH Op <- StrStep

LEMMA StrsUnfold ==
  ASSUME NEW c
  PROVE  ReadList(c, Str) =
           IF Take(c, 4).ok
           THEN IF Number(Take(c, 4).got) \notin 0..Len(Take(c, 4).rest) THEN Refused
                ELSE StrFolds!Fold(Read(Take(c, 4), <<>>), Upto(Number(Take(c, 4).got)))
           ELSE Refused
BY DEF ReadList, Then, Upto, StrFolds!Fold, StrStep, FoldLeft, StrFolds!FoldLeft, MapThenFoldSet,
       StrFolds!MapThenFoldSet, Max, StrFolds!Max

LEMMA StrsFold ==
  ASSUME NEW q, NEW g, NEW t, NEW k, Opened(q, g, t, k)
  PROVE  ReadList(At(q, g), Str) = StrFolds!Fold(At(t, <<>>), Upto(k))
<1>1. Read(At(t, U32(k)), <<>>) = At(t, <<>>)
  BY DEF Read, At
<1> QED
  BY <1>1, StrsUnfold DEF Opened, At

LEMMA NullApart ==
  /\ Null \notin Seq(Byte) /\ Null \notin Seq(Seq(Byte)) /\ Null \notin Seq(Field)
  /\ Null \notin Seq(Field \cup Seq(Field))
<1>1. Null \notin Seq(Byte) /\ Null \notin Seq(Field \cup Seq(Field))
  BY NullAssumption
<1>2. ASSUME NEW S, NEW T, S \subseteq T, NEW s \in Seq(S) PROVE s \in Seq(T)
  BY <1>2
<1>3. Seq(Byte) \subseteq Field /\ Field \subseteq Field \cup Seq(Field)
  BY DEF Field
<1>4. Null \notin Seq(Field)
  BY <1>1, <1>2, <1>3
<1>5. Null \notin Seq(Seq(Byte))
  BY <1>2, <1>3, <1>4
<1> QED
  BY <1>1, <1>4, <1>5

LEMMA EmptyAscii == <<>> \in Ascii /\ <<>> # Null
<1>1. <<>> \in Seq(Byte) /\ Len(<<>>) = 0 /\ DOMAIN <<>> = {}
  OBVIOUS
<1>2. 0 \in Count
  BY SMT DEF Count
<1>3. <<>> \in Ascii
  BY <1>1, <1>2 DEF Ascii, Blob
<1> QED
  BY <1>1, <1>3, NullApart

(* A null string is written as an empty one. *)
LEMMA TextCounted ==
  ASSUME NEW s \in Seq(Byte) \cup {Null}
  PROVE  Text(s) = Counted(Filled(s))
<1>1. CASE s = Null
  <2>1. Text(s) = U32(0) /\ Filled(s) = <<>>
    BY <1>1 DEF Text, Filled
  <2>2. 0 \in Count
    BY SMT DEF Count
  <2>3. PICK u \in Seq(Byte) : u = U32(0)
    BY <2>2, CountBytes
  <2>4. u \o <<>> = u
    OBVIOUS
  <2>5. Counted(<<>>) = U32(0) \o <<>>
    BY DEF Counted
  <2> QED
    BY <2>1, <2>3, <2>4, <2>5
<1>2. CASE s # Null
  BY <1>2 DEF Text, Filled, Counted
<1> QED
  BY <1>1, <1>2

(* A text takes four bytes and more. *)
LEMMA CountedFull ==
  ASSUME NEW s \in Blob
  PROVE  Counted(s) \in Seq(Byte) /\ Counted(s) # <<>>
<1>1. PICK n \in Count : n = Len(s)
  BY DEF Blob
<1>2. PICK u \in Seq(Byte) : u = U32(n) /\ Len(u) = 4
  BY CountBytes
<1>3. PICK c : c = u \o s
  OBVIOUS
<1>4. s \in Seq(Byte)
  BY DEF Blob
<1>5. c \in Seq(Byte) /\ Len(c) = Len(u) + Len(s)
  BY <1>3, <1>4, Cut
<1>6. Len(s) \in Nat
  BY <1>4
<1>7. c # <<>>
  <2>1. Len(c) # 0
    BY <1>2, <1>5, <1>6
  <2> QED
    BY <2>1
<1> QED
  BY <1>1, <1>2, <1>3, <1>5, <1>7 DEF Counted

(* What is written of the elements of a list. *)
LEMMA PiecesOf ==
  ASSUME NEW k \in Nat, NEW p, DOMAIN p = 1..k, p = [i \in 1..k |-> p[i]],
         \A i \in 1..k : p[i] \in Seq(Byte) /\ p[i] # <<>>
  PROVE  p \in Seq(Seq(Byte)) /\ Len(p) = k /\ \A i \in 1..Len(p) : p[i] # <<>>
<1>1. p \in [1..k -> Seq(Byte)]
  OBVIOUS
<1>2. p \in Seq(Seq(Byte)) /\ Len(p) = k
  BY <1>1, Bounded
<1> QED
  BY <1>2

(* A list from its pieces: the cursors from the count to the last element. *)
ListRuns(q, g, k, p, out, r) ==
  \E t, f : Opened(q, g, t, k) /\ Follows(f, p, out, t, r)

LEMMA ListChain ==
  ASSUME NEW k \in Count, NEW p, DOMAIN p = 1..k, p = [i \in 1..k |-> p[i]],
         \A i \in 1..k : p[i] \in Seq(Byte) /\ p[i] # <<>>,
         NEW S, NEW out \in Seq(S), Len(out) = k, NEW r \in Seq(Byte), NEW q, NEW w,
         Joins(w, U32(k), FlattenSeq(p)), Joins(q, w, r), NEW g
  PROVE  /\ k \in Nat /\ w \in Seq(Byte) /\ Len(p) = k
         /\ ListRuns(q, g, k, p, out, r)
<1>1. k \in Nat
  BY SMT DEF Count
<1>2. p \in Seq(Seq(Byte)) /\ Len(p) = k /\ \A i \in 1..Len(p) : p[i] # <<>>
  BY <1>1, PiecesOf
<1>3. /\ w \in Seq(Byte)
      /\ \E t \in Seq(Byte) : Joins(t, FlattenSeq(p), r) /\ Opened(q, g, t, k)
  BY <1>2, ListOpens
<1>4. PICK t \in Seq(Byte) : Joins(t, FlattenSeq(p), r) /\ Opened(q, g, t, k)
  BY <1>3
<1>5. PICK f : Follows(f, p, out, t, r)
  <2>1. Len(out) = Len(p)
    BY <1>2
  <2> QED
    BY <1>2, <1>4, <2>1, Chain
<1>6. ListRuns(q, g, k, p, out, r)
  BY <1>4, <1>5 DEF ListRuns
<1> QED
  BY <1>1, <1>2, <1>3, <1>6

LEMMA StrsRead ==
  ASSUME NEW s \in Seq(Ascii), Len(s) \in Count, NEW r \in Seq(Byte), NEW q,
         Joins(q, PutList(Text, s), r), NEW g
  PROVE  PutList(Text, s) \in Seq(Byte) /\ ReadList(At(q, g), Str) = At(r, s)
<1> DEFINE k == Len(s)
           p == [i \in 1..k |-> Text(s[i])]
<1>1. DOMAIN s = 1..k
  OBVIOUS
<1>2. ASSUME NEW i \in 1..k
      PROVE  s[i] \in Ascii /\ p[i] = Counted(s[i]) /\ p[i] \in Seq(Byte) /\ p[i] # <<>>
  <2>1. s[i] \in Ascii
    BY <1>1
  <2>2. s[i] \in Blob /\ s[i] \in Seq(Byte)
    BY <2>1 DEF Ascii, Blob
  <2>3. Text(s[i]) = Counted(s[i])
    BY <2>2, TextCounted, NullApart DEF Filled
  <2> QED
    BY <2>1, <2>2, <2>3, CountedFull
<1>3. DOMAIN p = 1..k /\ p = [i \in 1..k |-> p[i]]
  OBVIOUS
<1>4. PICK w : w = PutList(Text, s)
  OBVIOUS
<1>5. Joins(w, U32(k), FlattenSeq(p)) /\ Joins(q, w, r)
  BY <1>1, <1>4 DEF PutList, Joins
<1> HIDE DEF p
<1>6. k \in Count /\ s \in Seq(Ascii) /\ Len(s) = k
  OBVIOUS
<1> HIDE DEF k
<1>7. k \in Nat /\ w \in Seq(Byte) /\ Len(p) = k /\ ListRuns(q, g, k, p, s, r)
  BY <1>2, <1>3, <1>5, <1>6, ListChain
<1>8. PICK t, f : Opened(q, g, t, k) /\ Follows(f, p, s, t, r)
  BY <1>7 DEF ListRuns
<1>9. ASSUME NEW m \in 0..(k - 1) PROVE f[m + 1] = StrStep(f[m], Upto(k)[m + 1])
  <2>1. m + 1 \in 1..k
    BY <1>7
  <2>2. Passes(f, p, s, m)
    BY <1>7, <1>8 DEF Follows
  <2>3. PICK x, y, h : /\ y \in Seq(Byte) /\ Joins(x, p[m + 1], y)
                       /\ f[m] = At(x, h) /\ f[m + 1] = Collect(At(x, h), At(y, s[m + 1]))
    BY <2>2 DEF Passes
  <2>4. Str(At(x, h)) = At(y, s[m + 1])
    BY <1>2, <2>1, <2>3, StrRead
  <2> QED
    BY <2>3, <2>4 DEF StrStep
<1>10. StrFolds!Fold(f[0], Upto(k)) = f[k]
  BY <1>7, <1>9, UptoSeq, StrFolds!FoldChain
<1>11. f[0] = At(t, <<>>) /\ f[k] = At(r, s)
  BY <1>7, <1>8 DEF Follows
<1> QED
  BY <1>4, <1>7, <1>8, <1>10, <1>11, StrsFold

-------------------------------------------------------------------------------
(* Fields of a fixed width. *)
Word(w) == {v \in Seq(Byte) : Len(v) = w}

LEMMA WordRead ==
  ASSUME NEW w \in Nat, NEW v \in Word(w), NEW r \in Seq(Byte), NEW q, Joins(q, v, r), NEW g
  PROVE  v \in Seq(Byte) /\ Take(At(q, g), w) = At(r, v)
<1>1. v \in Seq(Byte) /\ Len(v) = w
  BY DEF Word
<1>2. Take(At(q, g), Len(v)) = At(r, v)
  BY <1>1, TakeJoined
<1> QED
  BY <1>1, <1>2

LEMMA WordFull ==
  ASSUME NEW w \in Nat, w # 0, NEW v \in Word(w)
  PROVE  v # <<>>
<1>1. v \in Seq(Byte) /\ Len(v) # 0
  BY DEF Word
<1> QED
  BY <1>1

(* Numbers in a list. *)
WordStep(d, i) == Collect(d, ReadWord(d))
WordFolds == INSTANCE FoldLemmas WITH Op <- WordStep

LEMMA WordsUnfold ==
  ASSUME NEW c
  PROVE  ReadList(c, ReadWord) =
           IF Take(c, 4).ok
           THEN IF Number(Take(c, 4).got) \notin 0..Len(Take(c, 4).rest) THEN Refused
                ELSE WordFolds!Fold(Read(Take(c, 4), <<>>), Upto(Number(Take(c, 4).got)))
           ELSE Refused
BY DEF ReadList, Then, Upto, WordFolds!Fold, WordStep, FoldLeft, WordFolds!FoldLeft, MapThenFoldSet,
       WordFolds!MapThenFoldSet, Max, WordFolds!Max, ReadWord

LEMMA WordsFold ==
  ASSUME NEW q, NEW g, NEW t, NEW k, Opened(q, g, t, k)
  PROVE  ReadList(At(q, g), ReadWord) = WordFolds!Fold(At(t, <<>>), Upto(k))
<1>1. Read(At(t, U32(k)), <<>>) = At(t, <<>>)
  BY DEF Read, At
<1> QED
  BY <1>1, WordsUnfold DEF Opened, At

LEMMA WordsRead ==
  ASSUME NEW s \in Seq(Word(4)), Len(s) \in Count, NEW r \in Seq(Byte), NEW q,
         Joins(q, PutList(PutWord, s), r), NEW g
  PROVE  /\ PutList(PutWord, s) \in Seq(Byte)
         /\ ReadList(At(q, g), ReadWord) = At(r, s)
<1> DEFINE k == Len(s)
           p == [i \in 1..k |-> PutWord(s[i])]
<1>1. DOMAIN s = 1..k
  OBVIOUS
<1>0. PICK four \in Nat : four = 4
  OBVIOUS
<1>2. ASSUME NEW i \in 1..k
      PROVE  p[i] = s[i] /\ p[i] \in Word(4) /\ p[i] \in Seq(Byte) /\ p[i] # <<>>
  <2>1. s[i] \in Word(four)
    BY <1>0, <1>1
  <2>2. s[i] # <<>>
    BY <2>1, <1>0, WordFull
  <2>3. s[i] \in Seq(Byte)
    BY <2>1 DEF Word
  <2> QED
    BY <1>0, <2>1, <2>2, <2>3 DEF PutWord
<1>3. DOMAIN p = 1..k /\ p = [i \in 1..k |-> p[i]]
  OBVIOUS
<1>4. PICK w : w = PutList(PutWord, s)
  OBVIOUS
<1>5. Joins(w, U32(k), FlattenSeq(p)) /\ Joins(q, w, r)
  BY <1>1, <1>4 DEF PutList, Joins
<1> HIDE DEF p
<1>6. k \in Count /\ s \in Seq(Word(4)) /\ Len(s) = k
  OBVIOUS
<1> HIDE DEF k
<1>7. k \in Nat /\ w \in Seq(Byte) /\ Len(p) = k /\ ListRuns(q, g, k, p, s, r)
  BY <1>2, <1>3, <1>5, <1>6, ListChain
<1>8. PICK t, f : Opened(q, g, t, k) /\ Follows(f, p, s, t, r)
  BY <1>7 DEF ListRuns
<1>9. ASSUME NEW m \in 0..(k - 1) PROVE f[m + 1] = WordStep(f[m], Upto(k)[m + 1])
  <2>1. m + 1 \in 1..k
    BY <1>7
  <2>2. Passes(f, p, s, m)
    BY <1>7, <1>8 DEF Follows
  <2>3. PICK x, y, h : /\ y \in Seq(Byte) /\ Joins(x, p[m + 1], y)
                       /\ f[m] = At(x, h) /\ f[m + 1] = Collect(At(x, h), At(y, s[m + 1]))
    BY <2>2 DEF Passes
  <2>4. Take(At(x, h), four) = At(y, s[m + 1])
    BY <1>0, <1>2, <2>1, <2>3, WordRead
  <2> QED
    BY <1>0, <2>3, <2>4 DEF WordStep, ReadWord
<1>10. WordFolds!Fold(f[0], Upto(k)) = f[k]
  BY <1>7, <1>9, UptoSeq, WordFolds!FoldChain
<1>11. f[0] = At(t, <<>>) /\ f[k] = At(r, s)
  BY <1>7, <1>8 DEF Follows
<1>12. ReadList(At(q, g), ReadWord) = WordFolds!Fold(At(t, <<>>), Upto(k))
  BY <1>8, WordsFold
<1> QED
  BY <1>4, <1>7, <1>10, <1>11, <1>12

-------------------------------------------------------------------------------
(* One field: what may be written as a field of type t, and what is read back. *)
Widths == {"u8", "u16", "u32", "i32", "f32", "i64", "u64"}

Types == Widths \cup {"str", "bytes", "strs", "u32s", "option", "flag", "bool"}

Bits == {<<0>>, <<1>>}

Writable(t) ==
  CASE t = "str"            -> Ascii \cup {Null}
    [] t = "bytes"          -> Blob \cup {Null}
    [] t = "strs"           -> {s \in Seq(Ascii) : Len(s) \in Count}
    [] t = "u32s"           -> {s \in Seq(Word(4)) : Len(s) \in Count}
    [] t = "option"         -> Word(4) \cup {Null}
    [] t \in {"flag", "bool"} -> Bits
    [] OTHER                -> Word(Width(t))

Readable(t, v) == IF t \in {"str", "bytes"} THEN Filled(v) ELSE v

LEMMA Standing ==
  ASSUME NEW y, NEW g, NEW v
  PROVE  At(y, g).ok /\ At(y, g).rest = y /\ At(y, g).got = g /\ Read(At(y, g), v) = At(y, v)
BY DEF At, Read

LEMMA BitRead ==
  ASSUME NEW b \in Bits, NEW r \in Seq(Byte), NEW q, Joins(q, b, r), NEW g
  PROVE  b \in Word(1) /\ b # <<>> /\ Take(At(q, g), 1) = At(r, b)
<1>0. PICK one \in Nat : one = 1
  OBVIOUS
<1>1. b \in Seq(Byte) /\ Len(b) = one
  <2>1. <<0>> \in Seq(Byte) /\ Len(<<0>>) = one
    BY <1>0 DEF Byte
  <2>2. <<1>> \in Seq(Byte) /\ Len(<<1>>) = one
    BY <1>0 DEF Byte
  <2> QED
    BY <2>1, <2>2 DEF Bits
<1>2. b \in Word(one)
  BY <1>1 DEF Word
<1>3. b # <<>>
  BY <1>0, <1>2, WordFull
<1> QED
  BY <1>0, <1>2, <1>3, WordRead

LEMMA OptionRead ==
  ASSUME NEW v \in Word(4) \cup {Null}, NEW r \in Seq(Byte), NEW q,
         Joins(q, PutOption(v), r), NEW g
  PROVE  /\ PutOption(v) \in Seq(Byte) /\ PutOption(v) # <<>>
         /\ ReadOption(At(q, g)) = At(r, v)
<1>0. PICK four \in Nat : four = 4
  OBVIOUS
<1>1. ASSUME NEW c, NEW y, NEW b \in Bits, Take(c, 1) = At(y, b)
      PROVE  ReadOption(c) = IF b = <<1>> THEN Take(At(y, b), 4) ELSE At(y, Null)
  <2>1. ReadFlag(c) = IF Take(c, 1).ok
                      THEN IF Take(c, 1).got \in Bits THEN Take(c, 1) ELSE Refused
                      ELSE Refused
    BY DEF ReadFlag, Then, Bits
  <2>2. ReadFlag(c) = At(y, b)
    BY <1>1, <2>1, Standing
  <2>3. ReadOption(c) = IF ReadFlag(c).ok
                        THEN IF ReadFlag(c).got = <<1>> THEN Take(ReadFlag(c), 4)
                             ELSE Read(ReadFlag(c), Null)
                        ELSE Refused
    BY DEF ReadOption, Then
  <2>4. /\ ReadFlag(c).ok /\ ReadFlag(c).got = b
        /\ Read(ReadFlag(c), Null) = At(y, Null)
    BY <2>2, Standing
  <2> QED
    BY <2>2, <2>3, <2>4
<1>2. <<0>> \in Bits /\ <<1>> \in Bits /\ <<0>> # <<1>>
  BY DEF Bits
<1>3. CASE v = Null
  <2>1. PICK b \in Bits : b = <<0>>
    BY <1>2
  <2>2. PutOption(v) = b
    BY <1>3, <2>1 DEF PutOption
  <2>3. b \in Word(1) /\ b # <<>> /\ Take(At(q, g), 1) = At(r, b)
    BY <2>2, BitRead
  <2>4. ReadOption(At(q, g)) = At(r, Null)
    BY <1>1, <1>2, <2>1, <2>3
  <2> QED
    BY <1>3, <2>2, <2>3, <2>4 DEF Word
<1>4. CASE v # Null
  <2>1. PICK b \in Bits : b = <<1>>
    BY <1>2
  <2>2. PICK p : p = PutOption(v)
    OBVIOUS
  <2>3. Joins(p, b, v) /\ Joins(q, p, r)
    BY <1>4, <2>1, <2>2 DEF PutOption, Joins
  <2>4. v \in Word(four) /\ v \in Seq(Byte)
    BY <1>0, <1>4 DEF Word
  <2>5. b \in Word(1) /\ b # <<>> /\ b \in Seq(Byte)
    <3>1. Joins(b \o <<>>, b, <<>>) /\ <<>> \in Seq(Byte)
      BY DEF Joins
    <3> QED
      BY <3>1, BitRead DEF Word
  <2>6. PICK t \in Seq(Byte) : Joins(t, v, r) /\ Joins(q, b, t)
    BY <2>3, <2>4, <2>5, Moved
  <2>7. Take(At(q, g), 1) = At(t, b)
    BY <2>6, BitRead
  <2>8. Take(At(t, b), four) = At(r, v)
    BY <1>0, <2>4, <2>6, WordRead
  <2>9. ReadOption(At(q, g)) = At(r, v)
    BY <1>0, <1>1, <2>1, <2>7, <2>8
  <2>10. p \in Seq(Byte) /\ p # <<>>
    <3>1. p = b \o v
      BY <2>3 DEF Joins
    <3>2. p \in Seq(Byte) /\ Len(p) = Len(b) + Len(v) /\ Len(b) # 0
      BY <2>4, <2>5, <3>1, Cut
    <3>3. Len(v) \in Nat /\ Len(b) \in Nat
      BY <2>4, <2>5
    <3>4. Len(p) # 0
      BY <3>2, <3>3
    <3> QED
      BY <3>2, <3>4
  <2> QED
    BY <2>2, <2>9, <2>10
<1> QED
  BY <1>3, <1>4

LEMMA FieldRead ==
  ASSUME NEW t \in Types, NEW v \in Writable(t), NEW r \in Seq(Byte), NEW q,
         Joins(q, PutField(t, v), r), NEW g
  PROVE  /\ PutField(t, v) \in Seq(Byte)
         /\ ReadField(At(q, g), t) = At(r, Readable(t, v))
<1>1. CASE t = "str"
  <2>1. v \in Ascii \cup {Null} /\ PutField(t, v) = Text(v) /\ Readable(t, v) = Filled(v)
    BY <1>1 DEF Writable, PutField, Readable
  <2>2. Filled(v) \in Ascii
    BY <2>1, EmptyAscii DEF Filled
  <2>3. v \in Seq(Byte) \cup {Null}
    BY <2>1 DEF Ascii, Blob
  <2>4. PutField(t, v) = Counted(Filled(v))
    BY <2>1, <2>3, TextCounted
  <2>5. Counted(Filled(v)) \in Seq(Byte) /\ Str(At(q, g)) = At(r, Filled(v))
    BY <2>2, <2>4, StrRead
  <2>6. ReadField(At(q, g), t) = Str(At(q, g))
    BY <1>1 DEF ReadField
  <2> QED
    BY <2>1, <2>4, <2>5, <2>6
<1>2. CASE t = "bytes"
  <2>1. v \in Blob \cup {Null} /\ PutField(t, v) = Text(v) /\ Readable(t, v) = Filled(v)
    BY <1>2 DEF Writable, PutField, Readable
  <2>2. Filled(v) \in Blob
    BY <2>1, EmptyAscii DEF Filled, Ascii
  <2>3. v \in Seq(Byte) \cup {Null}
    BY <2>1 DEF Blob
  <2>4. PutField(t, v) = Counted(Filled(v))
    BY <2>1, <2>3, TextCounted
  <2>5. Counted(Filled(v)) \in Seq(Byte) /\ Bytes(At(q, g)) = At(r, Filled(v))
    BY <2>2, <2>4, BytesRead
  <2>6. ReadField(At(q, g), t) = Bytes(At(q, g))
    BY <1>2 DEF ReadField
  <2> QED
    BY <2>1, <2>4, <2>5, <2>6
<1>3. CASE t = "strs"
  <2>1. v \in Seq(Ascii) /\ Len(v) \in Count /\ PutField(t, v) = PutList(Text, v)
        /\ Readable(t, v) = v
    BY <1>3 DEF Writable, PutField, Readable
  <2>2. PutList(Text, v) \in Seq(Byte) /\ ReadList(At(q, g), Str) = At(r, v)
    BY <2>1, StrsRead
  <2>3. ReadField(At(q, g), t) = ReadList(At(q, g), Str)
    BY <1>3 DEF ReadField
  <2> QED
    BY <2>1, <2>2, <2>3
<1>4. CASE t = "u32s"
  <2>1. v \in Seq(Word(4)) /\ Len(v) \in Count /\ PutField(t, v) = PutList(PutWord, v)
        /\ Readable(t, v) = v
    BY <1>4 DEF Writable, PutField, Readable
  <2>2. PutList(PutWord, v) \in Seq(Byte) /\ ReadList(At(q, g), ReadWord) = At(r, v)
    BY <2>1, WordsRead
  <2>3. ReadField(At(q, g), t) = ReadList(At(q, g), ReadWord)
    BY <1>4 DEF ReadField
  <2> QED
    BY <2>1, <2>2, <2>3
<1>5. CASE t = "option"
  <2>1. v \in Word(4) \cup {Null} /\ PutField(t, v) = PutOption(v) /\ Readable(t, v) = v
    BY <1>5 DEF Writable, PutField, Readable
  <2>2. PutOption(v) \in Seq(Byte) /\ ReadOption(At(q, g)) = At(r, v)
    BY <2>1, OptionRead
  <2>3. ReadField(At(q, g), t) = ReadOption(At(q, g))
    BY <1>5 DEF ReadField
  <2> QED
    BY <2>1, <2>2, <2>3
<1>6. CASE t \in {"flag", "bool"}
  <2>1. v \in Bits /\ PutField(t, v) = v /\ Readable(t, v) = v
    BY <1>6 DEF Writable, PutField, Readable
  <2>2. v \in Word(1) /\ Take(At(q, g), 1) = At(r, v)
    BY <2>1, BitRead
  <2>3. PICK c : c = At(q, g)
    OBVIOUS
  <2>4. ReadFlag(c) = At(r, v)
    <3>1. ReadFlag(c) = IF Take(c, 1).ok
                        THEN IF Take(c, 1).got \in Bits THEN Take(c, 1) ELSE Refused
                        ELSE Refused
      BY DEF ReadFlag, Then, Bits
    <3> QED
      BY <2>1, <2>2, <2>3, <3>1, Standing
  <2>5. ReadBool(c) = At(r, v)
    <3>1. ReadBool(c) = IF Take(c, 1).ok
                        THEN Read(Take(c, 1), IF Take(c, 1).got = <<0>> THEN <<0>> ELSE <<1>>)
                        ELSE Refused
      BY DEF ReadBool, Then
    <3>2. v = IF v = <<0>> THEN <<0>> ELSE <<1>>
      BY <2>1 DEF Bits
    <3> QED
      BY <2>2, <2>3, <3>1, <3>2, Standing
  <2>6. ReadField(At(q, g), t) = At(r, v)
    BY <1>6, <2>3, <2>4, <2>5 DEF ReadField
  <2> QED
    BY <2>1, <2>2, <2>6 DEF Word
<1>7. CASE t \in Widths
  <2>1. PICK w \in Nat : w = Width(t)
    BY <1>7 DEF Widths, Width
  <2>2. v \in Word(w) /\ PutField(t, v) = v /\ Readable(t, v) = v
    BY <1>7, <2>1 DEF Widths, Writable, PutField, Readable
  <2>3. v \in Seq(Byte) /\ Take(At(q, g), w) = At(r, v)
    BY <2>2, WordRead
  <2>4. ReadField(At(q, g), t) = Take(At(q, g), w)
    BY <1>7, <2>1 DEF Widths, ReadField
  <2> QED
    BY <2>2, <2>3, <2>4
<1> QED
  BY <1>1, <1>2, <1>3, <1>4, <1>5, <1>6, <1>7 DEF Types

-------------------------------------------------------------------------------
(* Records: the fields of a layout, in order. *)
FieldStep(d, t) == Collect(d, ReadField(d, t))
FieldFolds == INSTANCE FoldLemmas WITH Op <- FieldStep

LEMMA FieldsFold ==
  ASSUME NEW c, NEW layout
  PROVE  ReadFields(c, layout) = FieldFolds!Fold(Read(c, <<>>), layout)
BY DEF ReadFields, FieldFolds!Fold, FieldStep, FoldLeft, FieldFolds!FoldLeft, MapThenFoldSet,
       FieldFolds!MapThenFoldSet, Max, FieldFolds!Max

(* What is read back of a record. *)
Readables(layout, v) == [i \in DOMAIN layout |-> Readable(layout[i], v[i])]

(* The writer's layout may name a type otherwise, as long as it writes the same bytes. *)
Written(layout, writer, v) ==
  /\ DOMAIN writer = DOMAIN layout
  /\ \A i \in DOMAIN layout :
       v[i] \in Writable(layout[i]) /\ PutField(writer[i], v[i]) = PutField(layout[i], v[i])

LEMMA FieldsRead ==
  ASSUME NEW layout \in Seq(Types), NEW writer, NEW v, Written(layout, writer, v),
         NEW r \in Seq(Byte), NEW q, Joins(q, PutFields(writer, v), r), NEW g
  PROVE  /\ PutFields(writer, v) \in Seq(Byte)
         /\ ReadFields(At(q, g), layout) = At(r, Readables(layout, v))
<1> DEFINE n == Len(layout)
           p == [i \in DOMAIN writer |-> PutField(writer[i], v[i])]
           out == Readables(layout, v)
<1>1. n \in Nat /\ DOMAIN layout = 1..n /\ DOMAIN writer = 1..n
  BY DEF Written
<1>2. ASSUME NEW i \in 1..n
      PROVE  /\ layout[i] \in Types /\ v[i] \in Writable(layout[i])
             /\ p[i] = PutField(layout[i], v[i]) /\ p[i] \in Seq(Byte)
             /\ out[i] = Readable(layout[i], v[i])
  <2>1. layout[i] \in Types /\ v[i] \in Writable(layout[i])
        /\ p[i] = PutField(layout[i], v[i])
    BY <1>1 DEF Written
  <2>2. PICK b : b = PutField(layout[i], v[i])
    OBVIOUS
  <2>3. Joins(b \o <<>>, b, <<>>) /\ <<>> \in Seq(Byte)
    BY DEF Joins
  <2>4. b \in Seq(Byte)
    BY <2>1, <2>2, <2>3, FieldRead
  <2> QED
    BY <1>1, <2>1, <2>2, <2>4 DEF Readables
<1>3. p \in Seq(Seq(Byte)) /\ Len(p) = n
  <2>1. p = [i \in 1..n |-> p[i]]
    BY <1>1
  <2> HIDE DEF p
  <2>2. p \in [1..n -> Seq(Byte)]
    BY <1>2, <2>1
  <2> HIDE DEF n
  <2> QED
    BY <1>1, <2>2, Bounded
<1>4. PICK S : out \in Seq(S) /\ Len(out) = n
  <2> DEFINE T == {out[i] : i \in 1..n}
  <2>1. out = [i \in 1..n |-> out[i]]
    BY <1>1 DEF Readables
  <2> HIDE DEF out
  <2>2. out \in [1..n -> T]
    BY <2>1
  <2> HIDE DEF n, T
  <2>3. out \in Seq(T) /\ Len(out) = n
    BY <1>1, <2>2, Bounded
  <2> QED
    BY <2>3
<1>5. PICK w : w = PutFields(writer, v)
  OBVIOUS
<1>6. w = FlattenSeq(p)
  BY <1>5 DEF PutFields
<1> HIDE DEF p, out
<1>7. PICK f : Follows(f, p, out, q, r)
  <2>1. Joins(q, FlattenSeq(p), r)
    BY <1>5, <1>6
  <2>2. Len(out) = Len(p)
    BY <1>3, <1>4
  <2> HIDE DEF n
  <2> QED
    BY <1>3, <1>4, <2>1, <2>2, Chain
<1>8. ASSUME NEW m \in 0..(n - 1) PROVE f[m + 1] = FieldStep(f[m], layout[m + 1])
  <2>1. m + 1 \in 1..n
    BY <1>1
  <2>2. Passes(f, p, out, m)
    BY <1>3, <1>7 DEF Follows
  <2> HIDE DEF n
  <2>3. PICK x, y, h : /\ y \in Seq(Byte) /\ Joins(x, p[m + 1], y)
                       /\ f[m] = At(x, h) /\ f[m + 1] = Collect(At(x, h), At(y, out[m + 1]))
    BY <2>2 DEF Passes
  <2>4. PICK t \in Types : t = layout[m + 1]
    BY <1>2, <2>1
  <2>9. PICK e \in Writable(t) : e = v[m + 1]
    BY <1>2, <2>1, <2>4
  <2>5. p[m + 1] = PutField(t, e) /\ out[m + 1] = Readable(t, e)
    BY <1>2, <2>1, <2>4, <2>9
  <2>6. ReadField(At(x, h), t) = At(y, Readable(t, e))
    BY <2>3, <2>4, <2>5, FieldRead
  <2> QED
    BY <2>3, <2>4, <2>5, <2>6 DEF FieldStep
<1>9. FieldFolds!Fold(f[0], layout) = f[n]
  BY <1>8, FieldFolds!FoldChain
<1>10. f[0] = At(q, <<>>) /\ f[n] = At(r, out)
  BY <1>3, <1>7 DEF Follows
<1>11. FlattenSeq(p) \in Seq(Byte)
  BY <1>3, Pieces
<1>12. ReadFields(At(q, g), layout) = FieldFolds!Fold(At(q, <<>>), layout)
  BY FieldsFold, Standing
<1> QED
  BY <1>5, <1>6, <1>9, <1>10, <1>11, <1>12 DEF out

-------------------------------------------------------------------------------
(* Numbers of any width. *)
LEMMA LittleWord ==
  ASSUME NEW n \in Int, NEW w \in Nat
  PROVE  LittleEndian(n, w) \in Word(w)
<1>1. PICK b : b = LittleEndian(n, w)
  OBVIOUS
<1>2. b = [i \in 1..w |-> IF i > 4 THEN (IF n < 0 THEN 255 ELSE 0)
                          ELSE (n \div 256^(i - 1)) % 256]
  BY <1>1 DEF LittleEndian
<1>3. ASSUME NEW i \in 1..w PROVE b[i] \in Byte
  <2>1. CASE i > 4
    BY <1>2, <2>1 DEF Byte
  <2>2. CASE ~(i > 4)
    <3>1. i = 1 \/ i = 2 \/ i = 3 \/ i = 4
      BY <2>2
    <3>2. 256^(1 - 1) = 1 /\ 256^(2 - 1) = 256 /\ 256^(3 - 1) = 65536 /\ 256^(4 - 1) = 16777216
      BY SMT
    <3>3. PICK m \in Int : b[i] = (m % 256)
      <4>1. b[i] = ((n \div 256^(i - 1)) % 256)
        BY <1>2, <2>2
      <4>2. n \div 1 \in Int /\ n \div 256 \in Int /\ n \div 65536 \in Int
            /\ n \div 16777216 \in Int
        BY SMT
      <4>3. n \div 256^(i - 1) \in Int
        <5>1. CASE i = 1
          BY <3>2, <4>2, <5>1
        <5>2. CASE i = 2
          BY <3>2, <4>2, <5>2
        <5>3. CASE i = 3
          BY <3>2, <4>2, <5>3
        <5>4. CASE i = 4
          BY <3>2, <4>2, <5>4
        <5> QED
          BY <3>1, <5>1, <5>2, <5>3, <5>4
      <4> QED
        BY <4>1, <4>3
    <3> QED
      BY <3>3 DEF Byte
  <2> QED
    BY <2>1, <2>2
<1>4. b \in [1..w -> Byte]
  <2>1. b = [i \in 1..w |-> b[i]]
    BY <1>2
  <2> HIDE DEF Byte
  <2> QED
    BY <1>3, <2>1
<1>5. b \in Seq(Byte) /\ Len(b) = w
  BY <1>4, Bounded
<1> QED
  BY <1>1, <1>5 DEF Word

-------------------------------------------------------------------------------
(* The records of the model, and records that may be null. *)
Printed == Widths \cup {"str", "bool"}

LEMMA RecordRead ==
  ASSUME NEW layout \in Seq(Printed), Len(layout) < 64
  PROVE  /\ layout \in Seq(Types)
         /\ Written(layout, layout, Record(layout))
         /\ Readables(layout, Record(layout)) = Record(layout)
<1> DEFINE v == Record(layout)
           n == Len(layout)
<1>1. n \in Nat /\ n < 64 /\ DOMAIN layout = 1..n
  OBVIOUS
<1>2. layout \in Seq(Types)
  BY DEF Printed, Types
<1>3. ASSUME NEW i \in 1..n
      PROVE  v[i] \in Writable(layout[i]) /\ Readable(layout[i], v[i]) = v[i]
  <2>1. v[i] = CASE layout[i] = "str"  -> <<64 + i>>
                 [] layout[i] = "bool" -> <<1>>
                 [] OTHER              -> LittleEndian(i, Width(layout[i]))
    BY <1>1 DEF Record
  <2> HIDE DEF v
  <2>2. PICK t \in Printed : t = layout[i]
    BY <1>1
  <2>3. CASE t = "str"
    <3>1. v[i] = <<64 + i>>
      BY <2>1, <2>2, <2>3
    <3>2. i \in 1..63
      BY <1>1
    <3>3. <<64 + i>> \in Seq(Byte) /\ Len(<<64 + i>>) = 1 /\ DOMAIN <<64 + i>> = {1}
          /\ <<64 + i>>[1] < 128
      BY <3>2 DEF Byte
    <3>4. 1 \in Count
      BY SMT DEF Count
    <3>5. v[i] \in Ascii
      BY <3>1, <3>3, <3>4 DEF Ascii, Blob
    <3>6. v[i] # Null
      BY <3>5, NullApart DEF Ascii, Blob
    <3> QED
      BY <2>2, <2>3, <3>5, <3>6 DEF Writable, Readable, Filled
  <2>4. CASE t = "bool"
    <3>1. v[i] = <<1>>
      BY <2>1, <2>2, <2>4
    <3>2. v[i] \in Bits
      BY <3>1 DEF Bits
    <3> QED
      BY <2>2, <2>4, <3>2 DEF Writable, Readable
  <2>5. CASE t \in Widths
    <3>1. PICK w \in Nat : w = Width(t)
      BY <2>5 DEF Widths, Width
    <3>2. v[i] = LittleEndian(i, w)
      BY <2>1, <2>2, <2>5, <3>1 DEF Widths
    <3>3. i \in Int
      OBVIOUS
    <3>4. v[i] \in Word(w)
      BY <3>2, <3>3, LittleWord
    <3> QED
      BY <2>2, <2>5, <3>1, <3>4 DEF Writable, Readable, Widths
  <2> QED
    BY <2>2, <2>3, <2>4, <2>5 DEF Printed
<1>4. Written(layout, layout, v)
  BY <1>1, <1>3 DEF Written
<1>5. v = [i \in 1..n |-> v[i]]
  BY <1>1 DEF Record
<1>6. Readables(layout, v) = [i \in 1..n |-> v[i]]
  <2> HIDE DEF v, n
  <2> QED
    BY <1>1, <1>3 DEF Readables
<1> QED
  BY <1>2, <1>4, <1>5, <1>6

(* A byte that says whether there is a record, and the record. *)
Nullable(c, layout) ==
  IF ~Take(c, 1).ok THEN Refused
  ELSE IF Take(c, 1).got = <<0>> THEN Read(Take(c, 1), Null)
  ELSE ReadFields(Take(c, 1), layout)

PutNullable(writer, v) == IF v = Null THEN <<0>> ELSE <<1>> \o PutFields(writer, v)

(* The byte before a piece. *)
LEMMA Tagged ==
  ASSUME NEW b \in Word(1), NEW e \in Seq(Byte), NEW p, Joins(p, b, e),
         NEW r \in Seq(Byte), NEW q, Joins(q, p, r), NEW g
  PROVE  /\ p \in Seq(Byte) /\ p # <<>>
         /\ \E t \in Seq(Byte) : Joins(t, e, r) /\ Take(At(q, g), 1) = At(t, b)
<1>0. PICK one \in Nat : one = 1
  OBVIOUS
<1>1. b \in Seq(Byte) /\ Len(b) = one
  BY <1>0 DEF Word
<1>2. PICK t \in Seq(Byte) : Joins(t, e, r) /\ Joins(q, b, t)
  BY <1>1, Moved
<1>3. Take(At(q, g), one) = At(t, b)
  BY <1>0, <1>2, WordRead
<1>4. p \in Seq(Byte) /\ p # <<>>
  <2>2. p \in Seq(Byte) /\ Len(p) = Len(b) + Len(e)
    BY <1>1, Joined
  <2>3. Len(p) # 0
    BY <1>0, <1>1, <2>2
  <2> QED
    BY <2>2, <2>3
<1> QED
  BY <1>0, <1>2, <1>3, <1>4

LEMMA TagBits == <<0>> \in Word(1) /\ <<1>> \in Word(1) /\ <<0>> # <<1>>
<1>1. ASSUME NEW b \in Bits PROVE b \in Word(1)
  <2>1. Joins(b \o <<>>, b, <<>>) /\ <<>> \in Seq(Byte)
    BY DEF Joins
  <2> QED
    BY <2>1, BitRead
<1> QED
  BY <1>1 DEF Bits

LEMMA NullableRead ==
  ASSUME NEW layout \in Seq(Types), NEW writer, NEW v,
         v = Null \/ Written(layout, writer, v),
         NEW r \in Seq(Byte), NEW q, Joins(q, PutNullable(writer, v), r), NEW g
  PROVE  /\ PutNullable(writer, v) \in Seq(Byte) /\ PutNullable(writer, v) # <<>>
         /\ Nullable(At(q, g), layout) =
              At(r, IF v = Null THEN Null ELSE Readables(layout, v))
<1>1. CASE v = Null
  <2>1. PICK b \in Bits : b = <<0>>
    BY DEF Bits
  <2>2. PutNullable(writer, v) = b
    BY <1>1, <2>1 DEF PutNullable
  <2>3. b \in Word(1) /\ b # <<>> /\ Take(At(q, g), 1) = At(r, b)
    BY <2>2, BitRead
  <2>4. Nullable(At(q, g), layout) = At(r, Null)
    BY <2>1, <2>3, Standing DEF Nullable
  <2> QED
    BY <1>1, <2>2, <2>3, <2>4 DEF Word
<1>2. CASE v # Null
  <2>1. PICK b \in Word(1) : b = <<1>> /\ b # <<0>>
    BY TagBits
  <2>2. PICK e : e = PutFields(writer, v)
    OBVIOUS
  <2>3. PICK p : p = PutNullable(writer, v)
    OBVIOUS
  <2>4. Joins(p, b, e) /\ Joins(q, p, r)
    BY <1>2, <2>1, <2>2, <2>3 DEF PutNullable, Joins
  <2>5. e \in Seq(Byte)
    <3>1. Joins(e \o <<>>, e, <<>>) /\ <<>> \in Seq(Byte)
      BY DEF Joins
    <3> QED
      BY <1>2, <2>2, <3>1, FieldsRead
  <2>6. /\ p \in Seq(Byte) /\ p # <<>>
        /\ \E t \in Seq(Byte) : Joins(t, e, r) /\ Take(At(q, g), 1) = At(t, b)
    BY <2>4, <2>5, Tagged
  <2>7. PICK t \in Seq(Byte) : Joins(t, e, r) /\ Take(At(q, g), 1) = At(t, b)
    BY <2>6
  <2>8. ReadFields(At(t, b), layout) = At(r, Readables(layout, v))
    BY <1>2, <2>2, <2>7, FieldsRead
  <2>9. Nullable(At(q, g), layout) = At(r, Readables(layout, v))
    <3>1. At(t, b).ok /\ At(t, b).got # <<0>>
      BY <2>1, Standing
    <3> QED
      BY <2>7, <2>8, <3>1 DEF Nullable
  <2> QED
    BY <1>2, <2>3, <2>6, <2>9
<1> QED
  BY <1>1, <1>2

-------------------------------------------------------------------------------
(* Players and buffs. *)
PlayerLayout == [i \in 1..17 |-> IF i = 17 THEN "u64" ELSE "u32"]

BuffLayout == <<"u16", "u16", "i64", "f32", "u32", "str", "u32", "str">>

LEMMA PlayerIsRecord ==
  /\ PlayerLayout \in Seq(Printed) /\ Len(PlayerLayout) < 64 /\ ShimPlayer = PlayerLayout
  /\ \A c : Player(c) = Nullable(c, PlayerLayout)
  /\ \A v : PutPlayer(v) = PutNullable(PlayerLayout, v)
<1>1. ShimPlayer = PlayerLayout
  BY DEF ShimPlayer, PlayerLayout
<1>2. ASSUME NEW c PROVE Player(c) = Nullable(c, PlayerLayout)
  BY DEF Player, ReadNullable, Then, Nullable, PlayerLayout
<1>3. ASSUME NEW v PROVE PutPlayer(v) = PutNullable(PlayerLayout, v)
  BY <1>1 DEF PutPlayer, PutNullable
<1>4. PlayerLayout \in Seq(Printed) /\ Len(PlayerLayout) < 64
  <2>1. PlayerLayout \in [1..17 -> Printed]
    BY DEF PlayerLayout, Printed, Widths
  <2>2. PICK n \in Nat : n = 17
    OBVIOUS
  <2>3. PlayerLayout \in Seq(Printed) /\ Len(PlayerLayout) = n
    BY <2>1, <2>2, Bounded
  <2> QED
    BY <2>2, <2>3
<1> QED
  BY <1>1, <1>2, <1>3, <1>4

LEMMA BuffIsRecord ==
  /\ BuffLayout \in Seq(Printed) /\ Len(BuffLayout) < 64 /\ ShimBuff = BuffLayout
  /\ \A c : Buff(c) = Nullable(c, BuffLayout)
  /\ \A v : PutBuff(v) = PutNullable(BuffLayout, v)
<1>1. ShimBuff = BuffLayout
  BY DEF ShimBuff, BuffLayout
<1>2. ASSUME NEW c PROVE Buff(c) = Nullable(c, BuffLayout)
  BY DEF Buff, ReadNullable, Then, Nullable, BuffLayout
<1>3. ASSUME NEW v PROVE PutBuff(v) = PutNullable(BuffLayout, v)
  BY <1>1 DEF PutBuff, PutNullable
<1>4. BuffLayout \in Seq(Printed) /\ Len(BuffLayout) < 64
  BY DEF BuffLayout, Printed, Widths
<1> QED
  BY <1>1, <1>2, <1>3, <1>4

(* A record of the model, or null, in and out. *)
LEMMA NullableRecord ==
  ASSUME NEW layout \in Seq(Printed), Len(layout) < 64,
         NEW v \in {Null, Record(layout)}, NEW r \in Seq(Byte), NEW q,
         Joins(q, PutNullable(layout, v), r), NEW g
  PROVE  /\ PutNullable(layout, v) \in Seq(Byte) /\ PutNullable(layout, v) # <<>>
         /\ Nullable(At(q, g), layout) = At(r, v)
<1>1. /\ layout \in Seq(Types) /\ Written(layout, layout, Record(layout))
      /\ Readables(layout, Record(layout)) = Record(layout)
  BY RecordRead
<1>2. v = Null \/ Written(layout, layout, v)
  BY <1>1
<1>3. v = IF v = Null THEN Null ELSE Readables(layout, v)
  BY <1>1
<1> QED
  BY <1>1, <1>2, <1>3, NullableRead

LEMMA PlayerRead ==
  ASSUME NEW v \in {Null, PlayerValue}, NEW r \in Seq(Byte), NEW q,
         Joins(q, PutPlayer(v), r), NEW g
  PROVE  PutPlayer(v) \in Seq(Byte) /\ Player(At(q, g)) = At(r, v)
<1>1. v \in {Null, Record(PlayerLayout)}
  BY PlayerIsRecord DEF PlayerValue
<1> QED
  BY <1>1, PlayerIsRecord, NullableRecord

LEMMA BuffRead ==
  ASSUME NEW v \in {Null, NetworkBuff}, NEW r \in Seq(Byte), NEW q,
         Joins(q, PutBuff(v), r), NEW g
  PROVE  /\ PutBuff(v) \in Seq(Byte) /\ PutBuff(v) # <<>>
         /\ Buff(At(q, g)) = At(r, v)
<1>1. v \in {Null, Record(BuffLayout)}
  BY BuffIsRecord DEF NetworkBuff
<1> QED
  BY <1>1, BuffIsRecord, NullableRecord

(* Buffs in a list. *)
BuffStep(d, i) == Collect(d, Buff(d))
BuffFolds == INSTANCE FoldLemmas WITH Op <- BuffStep

LEMMA BuffsUnfold ==
  ASSUME NEW c
  PROVE  ReadList(c, Buff) =
           IF Take(c, 4).ok
           THEN IF Number(Take(c, 4).got) \notin 0..Len(Take(c, 4).rest) THEN Refused
                ELSE BuffFolds!Fold(Read(Take(c, 4), <<>>), Upto(Number(Take(c, 4).got)))
           ELSE Refused
BY DEF ReadList, Then, Upto, BuffFolds!Fold, BuffStep, FoldLeft, BuffFolds!FoldLeft, MapThenFoldSet,
       BuffFolds!MapThenFoldSet, Max, BuffFolds!Max

LEMMA BuffsFold ==
  ASSUME NEW q, NEW g, NEW t, NEW k, Opened(q, g, t, k)
  PROVE  ReadList(At(q, g), Buff) = BuffFolds!Fold(At(t, <<>>), Upto(k))
<1>1. Read(At(t, U32(k)), <<>>) = At(t, <<>>)
  BY DEF Read, At
<1> QED
  BY <1>1, BuffsUnfold DEF Opened, At

LEMMA BuffsRead ==
  ASSUME NEW s \in Seq({Null, NetworkBuff}), Len(s) \in Count, NEW r \in Seq(Byte), NEW q,
         Joins(q, PutList(PutBuff, s), r), NEW g
  PROVE  /\ PutList(PutBuff, s) \in Seq(Byte)
         /\ ReadList(At(q, g), Buff) = At(r, s)
<1> DEFINE k == Len(s)
           p == [i \in 1..k |-> PutBuff(s[i])]
<1>1. DOMAIN s = 1..k
  OBVIOUS
<1>2. ASSUME NEW i \in 1..k
      PROVE  s[i] \in {Null, NetworkBuff} /\ p[i] = PutBuff(s[i]) /\ p[i] \in Seq(Byte) /\ p[i] # <<>>
  <2>1. s[i] \in {Null, NetworkBuff}
    BY <1>1
  <2>2. PICK b : b = PutBuff(s[i])
    OBVIOUS
  <2>3. Joins(b \o <<>>, b, <<>>) /\ <<>> \in Seq(Byte)
    BY DEF Joins
  <2>4. b \in Seq(Byte) /\ b # <<>>
    BY <2>1, <2>2, <2>3, BuffRead
  <2> QED
    BY <2>1, <2>2, <2>4
<1>3. DOMAIN p = 1..k /\ p = [i \in 1..k |-> p[i]]
  OBVIOUS
<1>4. PICK w : w = PutList(PutBuff, s)
  OBVIOUS
<1>5. Joins(w, U32(k), FlattenSeq(p)) /\ Joins(q, w, r)
  BY <1>1, <1>4 DEF PutList, Joins
<1> HIDE DEF p
<1>6. k \in Count /\ s \in Seq({Null, NetworkBuff}) /\ Len(s) = k
  OBVIOUS
<1> HIDE DEF k
<1>7. k \in Nat /\ w \in Seq(Byte) /\ Len(p) = k /\ ListRuns(q, g, k, p, s, r)
  BY <1>2, <1>3, <1>5, <1>6, ListChain
<1>8. PICK t, f : Opened(q, g, t, k) /\ Follows(f, p, s, t, r)
  BY <1>7 DEF ListRuns
<1>9. ASSUME NEW m \in 0..(k - 1) PROVE f[m + 1] = BuffStep(f[m], Upto(k)[m + 1])
  <2>1. m + 1 \in 1..k
    BY <1>7
  <2>2. Passes(f, p, s, m)
    BY <1>7, <1>8 DEF Follows
  <2>3. PICK x, y, h : /\ y \in Seq(Byte) /\ Joins(x, p[m + 1], y)
                       /\ f[m] = At(x, h) /\ f[m + 1] = Collect(At(x, h), At(y, s[m + 1]))
    BY <2>2 DEF Passes
  <2>4. Buff(At(x, h)) = At(y, s[m + 1])
    BY <1>2, <2>1, <2>3, BuffRead
  <2> QED
    BY <2>3, <2>4 DEF BuffStep
<1>10. BuffFolds!Fold(f[0], Upto(k)) = f[k]
  BY <1>7, <1>9, UptoSeq, BuffFolds!FoldChain
<1>11. f[0] = At(t, <<>>) /\ f[k] = At(r, s)
  BY <1>7, <1>8 DEF Follows
<1>12. ReadList(At(q, g), Buff) = BuffFolds!Fold(At(t, <<>>), Upto(k))
  BY <1>8, BuffsFold
<1> QED
  BY <1>4, <1>7, <1>10, <1>11, <1>12

-------------------------------------------------------------------------------
(* Combatants: the layouts of the two sides are the same. *)
LEMMA CombatantIsRecord ==
  /\ CombatantLayout \in Seq(Printed) /\ Len(CombatantLayout) = 33
  /\ ShimCombatant = CombatantLayout
BY DEF CombatantLayout, ShimCombatant, Printed, Widths

(* A combatant of the model is a record and its buffs. *)
LEMMA CombatantParts ==
  ASSUME NEW v \in CombatantValues
  PROVE  \E rec, buffs, S :
           /\ rec = Record(CombatantLayout) /\ buffs \in Seq({Null, NetworkBuff})
           /\ Len(buffs) \in Count
           /\ rec \in Seq(S) /\ v = Append(rec, buffs)
           /\ SubSeq(v, 1, 33) = rec /\ v[34] = buffs
<1>1. PICK rec : rec = Record(CombatantLayout)
  OBVIOUS
<1>2. PICK buffs \in {<<>>, <<Null, NetworkBuff>>} : v = Append(rec, buffs)
  BY <1>1 DEF CombatantValues
<1>3. buffs \in Seq({Null, NetworkBuff}) /\ Len(buffs) \in Count
  <2>1. <<>> \in Seq({Null, NetworkBuff}) /\ Len(<<>>) = 0
    OBVIOUS
  <2>2. <<Null, NetworkBuff>> \in Seq({Null, NetworkBuff}) /\ Len(<<Null, NetworkBuff>>) = 2
    OBVIOUS
  <2>3. 0 \in Count /\ 2 \in Count
    BY SMT DEF Count
  <2> QED
    BY <1>2, <2>1, <2>2, <2>3
<1>4. PICK n \in Nat : n = 33
  OBVIOUS
<1>5. DOMAIN CombatantLayout = 1..n
  BY <1>4, CombatantIsRecord
<1>6. PICK S : rec \in Seq(S) /\ Len(rec) = n
  <2> DEFINE T == {rec[i] : i \in 1..n}
  <2>1. rec = [i \in 1..n |-> rec[i]]
    BY <1>1, <1>5 DEF Record
  <2>2. rec \in [1..n -> T]
    BY <2>1
  <2> HIDE DEF T
  <2>3. rec \in Seq(T) /\ Len(rec) = n
    BY <2>2, Bounded
  <2> QED
    BY <2>3
<1> DEFINE U == S \cup {buffs}
<1>7. rec \in Seq(U) /\ buffs \in U
  BY <1>6
<1> HIDE DEF U
<1>8. /\ v \in Seq(U) /\ Len(v) = n + 1
      /\ \A i \in 1..n : v[i] = rec[i]
      /\ v[n + 1] = buffs
  BY <1>2, <1>6, <1>7
<1>9. SubSeq(v, 1, n) = rec
  <2>1. PICK a : a = SubSeq(v, 1, n)
    OBVIOUS
  <2>2. a \in Seq(U) /\ Len(a) = n /\ \A i \in 1..n : a[i] = v[i]
    BY <1>8, <2>1
  <2>3. a = rec
    BY <1>6, <1>7, <1>8, <2>2, SeqEqual
  <2> QED
    BY <2>1, <2>3
<1>10. n + 1 = 34
  BY <1>4
<1>11. SubSeq(v, 1, 33) = rec /\ v[34] = buffs
  BY <1>4, <1>8, <1>9, <1>10
<1> QED
  BY <1>1, <1>2, <1>3, <1>6, <1>11

LEMMA CombatantUnfolds ==
  \A c : Combatant(c) =
    IF ~Take(c, 1).ok THEN Refused
    ELSE IF Take(c, 1).got = <<0>> THEN Read(Take(c, 1), Null)
    ELSE IF ~ReadFields(Take(c, 1), CombatantLayout).ok THEN Refused
    ELSE Collect(ReadFields(Take(c, 1), CombatantLayout),
                 Buffs(ReadFields(Take(c, 1), CombatantLayout)))
BY DEF Combatant, ReadNullable, Then

LEMMA CombatantRead ==
  ASSUME NEW v \in CombatantValues \cup {Null}, NEW r \in Seq(Byte), NEW q,
         Joins(q, PutCombatant(v), r), NEW g
  PROVE  /\ PutCombatant(v) \in Seq(Byte) /\ PutCombatant(v) # <<>>
         /\ Combatant(At(q, g)) = At(r, v)
<1>1. CASE v = Null
  <2>1. PICK b \in Bits : b = <<0>>
    BY DEF Bits
  <2>2. PutCombatant(v) = b
    BY <1>1, <2>1 DEF PutCombatant
  <2>3. b \in Word(1) /\ b # <<>> /\ Take(At(q, g), 1) = At(r, b)
    BY <2>2, BitRead
  <2>4. At(r, b).ok /\ At(r, b).got = <<0>> /\ Read(At(r, b), Null) = At(r, Null)
    BY <2>1, Standing
  <2>5. Combatant(At(q, g)) = At(r, Null)
    BY <2>3, <2>4, CombatantUnfolds
  <2> QED
    BY <1>1, <2>2, <2>3, <2>5 DEF Word
<1>2. CASE v # Null
  <2>1. PICK b \in Word(1) : b = <<1>> /\ b # <<0>>
    BY TagBits
  <2>2. PICK rec, buffs, S :
          /\ rec = Record(CombatantLayout) /\ buffs \in Seq({Null, NetworkBuff})
          /\ Len(buffs) \in Count
          /\ rec \in Seq(S) /\ v = Append(rec, buffs)
          /\ SubSeq(v, 1, 33) = rec /\ v[34] = buffs
    BY <1>2, CombatantParts
  <2>3. PICK e : e = PutFields(CombatantLayout, rec)
    OBVIOUS
  <2>4. PICK d : d = PutList(PutBuff, buffs)
    OBVIOUS
  <2>5. PICK h : h = b \o e
    OBVIOUS
  <2>6. PICK p : p = PutCombatant(v)
    OBVIOUS
  <2>7. Joins(h, b, e) /\ Joins(p, h, d) /\ Joins(q, p, r)
    <3>1. p = (<<1>> \o PutFields(ShimCombatant, SubSeq(v, 1, 33))) \o PutList(PutBuff, v[34])
      BY <1>2, <2>6 DEF PutCombatant
    <3>2. PutFields(ShimCombatant, SubSeq(v, 1, 33)) = e
      BY <2>2, <2>3, CombatantIsRecord
    <3>3. p = h \o d
      BY <2>1, <2>2, <2>4, <2>5, <3>1, <3>2
    <3> QED
      BY <2>5, <2>6, <3>3 DEF Joins
  <2>8. /\ CombatantLayout \in Seq(Types) /\ Written(CombatantLayout, CombatantLayout, rec)
        /\ Readables(CombatantLayout, rec) = rec
    <3>1. CombatantLayout \in Seq(Printed) /\ Len(CombatantLayout) < 64
      BY CombatantIsRecord
    <3> QED
      BY <2>2, <3>1, RecordRead
  <2>9. e \in Seq(Byte)
    <3>1. Joins(e \o <<>>, e, <<>>) /\ <<>> \in Seq(Byte)
      BY DEF Joins
    <3> QED
      BY <2>3, <2>8, <3>1, FieldsRead
  <2>10. d \in Seq(Byte)
    <3>1. Joins(d \o <<>>, d, <<>>) /\ <<>> \in Seq(Byte)
      BY DEF Joins
    <3> QED
      BY <2>2, <2>4, <3>1, BuffsRead
  <2>11. b \in Seq(Byte) /\ h \in Seq(Byte)
    BY <2>7, <2>9, Joined DEF Word
  <2>12. PICK s \in Seq(Byte) : Joins(s, d, r) /\ Joins(q, h, s)
    BY <2>7, <2>10, <2>11, Moved
  <2>13. PICK t \in Seq(Byte) : Joins(t, e, s) /\ Take(At(q, g), 1) = At(t, b)
    BY <2>7, <2>9, <2>12, Tagged
  <2>14. ReadFields(At(t, b), CombatantLayout) = At(s, rec)
    BY <2>3, <2>8, <2>13, FieldsRead
  <2>15. Buffs(At(s, rec)) = At(r, buffs)
    <3>2. Joins(s, PutList(PutBuff, buffs), r)
      BY <2>4, <2>12
    <3>3. buffs \in Seq({Null, NetworkBuff}) /\ Len(buffs) \in Count
      BY <2>2
    <3>1. ReadList(At(s, rec), Buff) = At(r, buffs)
      BY <3>2, <3>3, BuffsRead
    <3> QED
      BY <3>1 DEF Buffs
  <2>16. Collect(At(s, rec), At(r, buffs)) = At(r, v)
    BY <2>2, Collected
  <2>17. At(t, b).ok /\ At(t, b).got # <<0>> /\ At(s, rec).ok
    BY <2>1 DEF At
  <2>18. Combatant(At(q, g)) = At(r, v)
    BY <2>13, <2>14, <2>15, <2>16, <2>17, CombatantUnfolds
  <2>19. p \in Seq(Byte) /\ p # <<>>
    <3>1. p \in Seq(Byte) /\ Len(p) = Len(h) + Len(d)
      BY <2>7, <2>10, <2>11, Joined
    <3>2. h # <<>>
      BY <2>7, <2>9, <2>12, Tagged
    <3>3. Len(h) \in Nat /\ Len(d) \in Nat /\ Len(h) # 0
      BY <2>10, <2>11, <3>2
    <3>4. Len(p) # 0
      BY <3>1, <3>3
    <3> QED
      BY <3>1, <3>4
  <2> QED
    BY <2>6, <2>18, <2>19
<1> QED
  BY <1>1, <1>2

(* Combatants in a list. *)
CombatantStep(d, i) == Collect(d, Combatant(d))
CombatantFolds == INSTANCE FoldLemmas WITH Op <- CombatantStep

LEMMA CombatantsFold ==
  ASSUME NEW q, NEW g, NEW t, NEW k, Opened(q, g, t, k)
  PROVE  ReadList(At(q, g), Combatant) = CombatantFolds!Fold(At(t, <<>>), Upto(k))
<1>1. ASSUME NEW c
      PROVE  ReadList(c, Combatant) =
               IF Take(c, 4).ok
               THEN IF Number(Take(c, 4).got) \notin 0..Len(Take(c, 4).rest) THEN Refused
                    ELSE CombatantFolds!Fold(Read(Take(c, 4), <<>>), Upto(Number(Take(c, 4).got)))
               ELSE Refused
  BY DEF ReadList, Then, Upto, CombatantFolds!Fold, CombatantStep, FoldLeft, CombatantFolds!FoldLeft, MapThenFoldSet,
         CombatantFolds!MapThenFoldSet, Max, CombatantFolds!Max
<1>2. Read(At(t, U32(k)), <<>>) = At(t, <<>>)
  BY DEF Read, At
<1> QED
  BY <1>1, <1>2 DEF Opened, At

LEMMA CombatantsRead ==
  ASSUME NEW s \in Seq(CombatantValues \cup {Null}), Len(s) \in Count, NEW r \in Seq(Byte), NEW q,
         Joins(q, PutList(PutCombatant, s), r), NEW g
  PROVE  /\ PutList(PutCombatant, s) \in Seq(Byte)
         /\ ReadList(At(q, g), Combatant) = At(r, s)
<1> DEFINE k == Len(s)
           p == [i \in 1..k |-> PutCombatant(s[i])]
<1>1. DOMAIN s = 1..k
  OBVIOUS
<1>2. ASSUME NEW i \in 1..k
      PROVE  s[i] \in CombatantValues \cup {Null} /\ p[i] = PutCombatant(s[i]) /\ p[i] \in Seq(Byte) /\ p[i] # <<>>
  <2>1. s[i] \in CombatantValues \cup {Null}
    BY <1>1
  <2>2. PICK b : b = PutCombatant(s[i])
    OBVIOUS
  <2>3. Joins(b \o <<>>, b, <<>>) /\ <<>> \in Seq(Byte)
    BY DEF Joins
  <2>4. b \in Seq(Byte) /\ b # <<>>
    BY <2>1, <2>2, <2>3, CombatantRead
  <2> QED
    BY <2>1, <2>2, <2>4
<1>3. DOMAIN p = 1..k /\ p = [i \in 1..k |-> p[i]]
  OBVIOUS
<1>4. PICK w : w = PutList(PutCombatant, s)
  OBVIOUS
<1>5. Joins(w, U32(k), FlattenSeq(p)) /\ Joins(q, w, r)
  BY <1>1, <1>4 DEF PutList, Joins
<1> HIDE DEF p
<1>6. k \in Count /\ s \in Seq(CombatantValues \cup {Null}) /\ Len(s) = k
  OBVIOUS
<1> HIDE DEF k
<1>7. k \in Nat /\ w \in Seq(Byte) /\ Len(p) = k /\ ListRuns(q, g, k, p, s, r)
  BY <1>2, <1>3, <1>5, <1>6, ListChain
<1>8. PICK t, f : Opened(q, g, t, k) /\ Follows(f, p, s, t, r)
  BY <1>7 DEF ListRuns
<1>9. ASSUME NEW m \in 0..(k - 1) PROVE f[m + 1] = CombatantStep(f[m], Upto(k)[m + 1])
  <2>1. m + 1 \in 1..k
    BY <1>7
  <2>2. Passes(f, p, s, m)
    BY <1>7, <1>8 DEF Follows
  <2>3. PICK x, y, h : /\ y \in Seq(Byte) /\ Joins(x, p[m + 1], y)
                       /\ f[m] = At(x, h) /\ f[m + 1] = Collect(At(x, h), At(y, s[m + 1]))
    BY <2>2 DEF Passes
  <2>4. Combatant(At(x, h)) = At(y, s[m + 1])
    BY <1>2, <2>1, <2>3, CombatantRead
  <2> QED
    BY <2>3, <2>4 DEF CombatantStep
<1>10. CombatantFolds!Fold(f[0], Upto(k)) = f[k]
  BY <1>7, <1>9, UptoSeq, CombatantFolds!FoldChain
<1>11. f[0] = At(t, <<>>) /\ f[k] = At(r, s)
  BY <1>7, <1>8 DEF Follows
<1>12. ReadList(At(q, g), Combatant) = CombatantFolds!Fold(At(t, <<>>), Upto(k))
  BY <1>8, CombatantsFold
<1> QED
  BY <1>4, <1>7, <1>10, <1>11, <1>12

-------------------------------------------------------------------------------
(* Flattening one sequence after another. *)
LEMMA FlattenJoins ==
  ASSUME NEW S, NEW a \in Seq(Seq(S)), NEW b \in Seq(Seq(S)), NEW c, Joins(c, a, b)
  PROVE  /\ FlattenSeq(a) \in Seq(S) /\ FlattenSeq(b) \in Seq(S)
         /\ Joins(FlattenSeq(c), FlattenSeq(a), FlattenSeq(b))
<1>1. PICK k \in Nat, l \in Nat : k = Len(a) /\ l = Len(b)
  OBVIOUS
<1>2. /\ c \in Seq(Seq(S)) /\ Len(c) = k + l
      /\ \A i \in 1..k : c[i] = a[i]
      /\ \A i \in 1..l : c[k + i] = b[i]
  BY <1>1 DEF Joins
<1>3. PICK x \in [0..k -> Seq(S)] :
        /\ x[0] = <<>> /\ x[k] = FlattenSeq(a)
        /\ \A m \in 0..(k - 1) : x[m + 1] = x[m] \o a[m + 1]
  BY <1>1, FlattenSteps
<1>4. PICK y \in [0..l -> Seq(S)] :
        /\ y[0] = <<>> /\ y[l] = FlattenSeq(b)
        /\ \A m \in 0..(l - 1) : y[m + 1] = y[m] \o b[m + 1]
  BY <1>1, FlattenSteps
<1>0. PICK n \in Nat : n = k + l
  OBVIOUS
<1>5. PICK z \in [0..n -> Seq(S)] :
        /\ z[0] = <<>> /\ z[n] = FlattenSeq(c)
        /\ \A m \in 0..(n - 1) : z[m + 1] = z[m] \o c[m + 1]
  <2>1. c \in Seq(Seq(S)) /\ Len(c) = n
    BY <1>0, <1>2
  <2> QED
    BY <2>1, FlattenSteps
<1> DEFINE T == {m \in 0..k : z[m] = x[m]}
           U == {m \in 0..l : Joins(z[k + m], x[k], y[m])}
<1>6. \A m \in 0..k : m \in T
  <2>1. 0 \in T
    BY <1>3, <1>5
  <2>2. ASSUME NEW m \in 0..(k - 1), m \in T PROVE m + 1 \in T
    <3>1. m + 1 \in 1..k /\ m \in 0..(n - 1)
      BY <1>0
    <3>2. z[m + 1] = z[m] \o c[m + 1] /\ x[m + 1] = x[m] \o a[m + 1]
      BY <1>3, <1>5, <3>1
    <3>3. z[m] = x[m] /\ c[m + 1] = a[m + 1]
      BY <1>2, <2>2, <3>1
    <3>4. z[m + 1] = x[m + 1]
      BY <3>2, <3>3
    <3> QED
      BY <3>1, <3>4
  <2> HIDE DEF T
  <2> QED
    BY <2>1, <2>2, NumFolds!Induction
<1>7. \A m \in 0..l : m \in U
  <2>1. 0 \in U
    <3>1. k \in 0..k /\ k + 0 = k /\ 0 \in 0..l
      OBVIOUS
    <3>2. z[k] = x[k] /\ x[k] \in Seq(S)
      BY <1>6, <3>1
    <3>3. x[k] \o <<>> = x[k]
      BY <3>2
    <3>4. Joins(z[k + 0], x[k], y[0])
      BY <1>4, <3>1, <3>2, <3>3 DEF Joins
    <3> QED
      BY <3>1, <3>4
  <2>2. ASSUME NEW m \in 0..(l - 1), m \in U PROVE m + 1 \in U
    <3>1. /\ m \in 0..l /\ m + 1 \in 0..l /\ m + 1 \in 1..l
          /\ k + m \in 0..(n - 1) /\ k + (m + 1) = (k + m) + 1
          /\ k + m \in 0..n /\ k \in 0..k
      BY <1>0
    <3>2. PICK p \in Seq(S) : p = x[k]
      BY <3>1
    <3>3. PICK d \in Seq(S) : d = y[m]
      BY <3>1
    <3>4. PICK e \in Seq(S) : e = b[m + 1]
      BY <1>1, <3>1
    <3>5. PICK h : h = z[k + m]
      OBVIOUS
    <3>6. Joins(h, p, d)
      BY <2>2, <3>2, <3>3, <3>5
    <3>7. Joins(z[k + (m + 1)], h, e)
      BY <1>2, <1>5, <3>1, <3>4, <3>5 DEF Joins
    <3>8. Joins(y[m + 1], d, e)
      BY <1>4, <3>3, <3>4 DEF Joins
    <3>9. Joins(z[k + (m + 1)], p, y[m + 1])
      BY <3>6, <3>7, <3>8, Shift
    <3> QED
      BY <3>1, <3>2, <3>9
  <2> HIDE DEF U
  <2> QED
    BY <2>1, <2>2, NumFolds!Induction
<1>8. Joins(z[n], x[k], y[l])
  <2>1. l \in 0..l /\ k + l = n
    BY <1>0
  <2> QED
    BY <1>7, <2>1
<1>9. x[k] \in Seq(S) /\ y[l] \in Seq(S)
  OBVIOUS
<1> QED
  BY <1>3, <1>4, <1>5, <1>8, <1>9

LEMMA FlattenNone == FlattenSeq(<<>>) = <<>>
<1>1. <<>> \in Seq(Seq(Byte)) /\ Len(<<>>) = 0
  OBVIOUS
<1>2. PICK s \in Seq(Seq(Byte)) : s = <<>> /\ Len(s) = 0
  BY <1>1
<1>3. PICK x \in [0..Len(s) -> Seq(Byte)] : x[0] = <<>> /\ x[Len(s)] = FlattenSeq(s)
  BY FlattenSteps
<1> QED
  BY <1>2, <1>3

LEMMA FlattenOne ==
  ASSUME NEW S, NEW a \in Seq(S)
  PROVE  FlattenSeq(<<a>>) = a
<1>1. PICK s : s = <<a>>
  OBVIOUS
<1>2. s \in Seq(Seq(S)) /\ Len(s) = 1 /\ s[1] = a
  BY <1>1
<1>3. PICK x \in [0..Len(s) -> Seq(S)] :
        /\ x[0] = <<>> /\ x[Len(s)] = FlattenSeq(s)
        /\ \A m \in 0..(Len(s) - 1) : x[m + 1] = x[m] \o s[m + 1]
  BY <1>2, FlattenSteps
<1>4. x[0 + 1] = x[0] \o s[0 + 1]
  <2>1. 0 \in 0..(Len(s) - 1)
    BY <1>2
  <2> QED
    BY <1>3, <2>1
<1>5. <<>> \o a = a
  OBVIOUS
<1> QED
  BY <1>1, <1>2, <1>3, <1>4, <1>5

LEMMA FlattenTwo ==
  ASSUME NEW S, NEW a \in Seq(S), NEW b \in Seq(S)
  PROVE  FlattenSeq(<<a, b>>) = a \o b
<1>0. PICK s : s = <<a, b>>
  OBVIOUS
<1>1. s \in Seq(Seq(S)) /\ Len(s) = 2 /\ s[1] = a /\ s[2] = b
  BY <1>0
<1>2. PICK x \in [0..Len(s) -> Seq(S)] :
        /\ x[0] = <<>> /\ x[Len(s)] = FlattenSeq(s)
        /\ \A m \in 0..(Len(s) - 1) : x[m + 1] = x[m] \o s[m + 1]
  BY <1>1, FlattenSteps
<1>3. x[0 + 1] = x[0] \o s[0 + 1] /\ x[1 + 1] = x[1] \o s[1 + 1]
  <2>1. 0 \in 0..(Len(s) - 1) /\ 1 \in 0..(Len(s) - 1)
    BY <1>1
  <2> QED
    BY <1>2, <2>1
<1>4. <<>> \o a = a
  OBVIOUS
<1>5. x[1] = a
  BY <1>1, <1>2, <1>3, <1>4
<1>6. x[2] = a \o b
  BY <1>1, <1>3, <1>5
<1> QED
  BY <1>0, <1>1, <1>2, <1>6

(* Entries of a dictionary: a number and a text. *)
EntryValues == Word(4) \X (Ascii \cup {Null})

Entries(s) == [i \in DOMAIN s |-> <<s[i][1], Filled(s[i][2])>>]

LEMMA EntryRead ==
  ASSUME NEW v \in EntryValues, NEW r \in Seq(Byte), NEW q, Joins(q, PutEntry(v), r), NEW g
  PROVE  /\ PutEntry(v) \in Seq(Byte) /\ PutEntry(v) # <<>>
         /\ Entry(At(q, g)) = At(r, <<v[1], Filled(v[2])>>)
<1> DEFINE layout == <<"u32", "str">>
<1>1. PICK a, b : v = <<a, b>> /\ a \in Word(4) /\ b \in Ascii \cup {Null}
  BY DEF EntryValues
<1>2. layout \in Seq(Types) /\ DOMAIN layout = {1, 2} /\ layout[1] = "u32" /\ layout[2] = "str"
  BY DEF Types, Widths
<1>3. a \in Writable("u32") /\ b \in Writable("str")
  BY <1>1 DEF Writable, Width
<1>4. Written(layout, layout, v)
  BY <1>1, <1>2, <1>3 DEF Written
<1>5. Readables(layout, v) = <<a, Filled(b)>>
  <2>1. Readable("u32", a) = a /\ Readable("str", b) = Filled(b)
    BY DEF Readable
  <2>2. Readables(layout, v) = [i \in {1, 2} |-> Readable(layout[i], v[i])]
    BY <1>2 DEF Readables
  <2>3. Readable(layout[1], v[1]) = a /\ Readable(layout[2], v[2]) = Filled(b)
    BY <1>1, <1>2, <2>1
  <2> HIDE DEF layout
  <2> QED
    BY <2>2, <2>3
<1>6. PICK e : e = Text(b)
  OBVIOUS
<1>7. e \in Seq(Byte) /\ a \in Seq(Byte) /\ a # <<>>
  <2>1. Joins(e \o <<>>, e, <<>>) /\ <<>> \in Seq(Byte)
    BY DEF Joins
  <2>2. PutField("str", b) = e /\ "str" \in Types
    BY <1>6 DEF PutField, Types
  <2>3. e \in Seq(Byte)
    BY <1>3, <2>1, <2>2, FieldRead
  <2>4. PICK four \in Nat : four = 4
    OBVIOUS
  <2>5. a \in Word(four) /\ four # 0
    BY <1>1, <2>4
  <2> QED
    BY <2>3, <2>5, WordFull DEF Word
<1>8. PutFields(layout, v) = a \o e
  <2>1. PutFields(layout, v) = FlattenSeq([i \in DOMAIN layout |-> PutField(layout[i], v[i])])
    BY DEF PutFields
  <2>2. PutField("u32", a) = a /\ PutField("str", b) = e
    BY <1>6 DEF PutField
  <2>3. [i \in DOMAIN layout |-> PutField(layout[i], v[i])] = <<a, e>>
    <3>1. PutField(layout[1], v[1]) = a /\ PutField(layout[2], v[2]) = e
      BY <1>1, <1>2, <2>2
    <3> HIDE DEF layout
    <3> QED
      BY <1>2, <3>1
  <2> QED
    BY <1>7, <2>1, <2>3, FlattenTwo
<1>9. PutEntry(v) = PutFields(layout, v)
  BY <1>1, <1>6, <1>8 DEF PutEntry
<1> HIDE DEF layout
<1>10. /\ PutFields(layout, v) \in Seq(Byte)
       /\ ReadFields(At(q, g), layout) = At(r, Readables(layout, v))
  BY <1>2, <1>4, <1>9, FieldsRead
<1>11. Entry(At(q, g)) = ReadFields(At(q, g), layout)
  BY DEF Entry, layout
<1>12. PutEntry(v) # <<>>
  <2>1. PICK p : p = a \o e
    OBVIOUS
  <2>2. Joins(p, a, e)
    BY <2>1 DEF Joins
  <2>3. Len(p) = Len(a) + Len(e)
    BY <1>7, <2>2, Joined
  <2>4. Len(a) \in Nat /\ Len(e) \in Nat /\ Len(a) # 0
    BY <1>7
  <2>5. Len(p) # 0
    BY <2>3, <2>4
  <2>6. p # <<>>
    BY <2>5
  <2> QED
    BY <1>8, <1>9, <2>1, <2>6
<1> QED
  BY <1>1, <1>5, <1>9, <1>10, <1>11, <1>12

(* The entries of a dictionary. *)
EntryStep(d, i) == Collect(d, Entry(d))
EntryFolds == INSTANCE FoldLemmas WITH Op <- EntryStep

LEMMA EntriesFold ==
  ASSUME NEW q, NEW g, NEW t, NEW k, Opened(q, g, t, k)
  PROVE  ReadList(At(q, g), Entry) = EntryFolds!Fold(At(t, <<>>), Upto(k))
<1>1. ASSUME NEW c
      PROVE  ReadList(c, Entry) =
               IF Take(c, 4).ok
               THEN IF Number(Take(c, 4).got) \notin 0..Len(Take(c, 4).rest) THEN Refused
                    ELSE EntryFolds!Fold(Read(Take(c, 4), <<>>), Upto(Number(Take(c, 4).got)))
               ELSE Refused
  BY DEF ReadList, Then, Upto, EntryFolds!Fold, EntryStep, FoldLeft, EntryFolds!FoldLeft, MapThenFoldSet,
         EntryFolds!MapThenFoldSet, Max, EntryFolds!Max
<1>2. Read(At(t, U32(k)), <<>>) = At(t, <<>>)
  BY DEF Read, At
<1> QED
  BY <1>1, <1>2 DEF Opened, At

LEMMA EntriesRead ==
  ASSUME NEW s \in Seq(EntryValues), Len(s) \in Count, NEW r \in Seq(Byte), NEW q,
         Joins(q, PutList(PutEntry, s), r), NEW g
  PROVE  /\ PutList(PutEntry, s) \in Seq(Byte)
         /\ ReadList(At(q, g), Entry) = At(r, Entries(s))
<1> DEFINE k == Len(s)
           p == [i \in 1..k |-> PutEntry(s[i])]
           out == Entries(s)
<1>1. DOMAIN s = 1..k
  OBVIOUS
<1>2. ASSUME NEW i \in 1..k
      PROVE  s[i] \in EntryValues /\ p[i] = PutEntry(s[i]) /\ p[i] \in Seq(Byte) /\ p[i] # <<>>
             /\ out[i] = <<s[i][1], Filled(s[i][2])>>
  <2>1. s[i] \in EntryValues
    BY <1>1
  <2>2. PICK b : b = PutEntry(s[i])
    OBVIOUS
  <2>3. Joins(b \o <<>>, b, <<>>) /\ <<>> \in Seq(Byte)
    BY DEF Joins
  <2>4. b \in Seq(Byte) /\ b # <<>>
    BY <2>1, <2>2, <2>3, EntryRead
  <2> QED
    BY <1>1, <2>1, <2>2, <2>4 DEF Entries
<1>3. DOMAIN p = 1..k /\ p = [i \in 1..k |-> p[i]]
  OBVIOUS
<1>4. PICK w : w = PutList(PutEntry, s)
  OBVIOUS
<1>5. Joins(w, U32(k), FlattenSeq(p)) /\ Joins(q, w, r)
  BY <1>1, <1>4 DEF PutList, Joins
<1>13. out \in Seq(Seq(Field)) /\ Len(out) = k
  <2>1. out = [i \in 1..k |-> out[i]]
    BY <1>1 DEF Entries
  <2>2. ASSUME NEW i \in 1..k PROVE out[i] \in Seq(Field)
    <3>1. PICK a, b : s[i] = <<a, b>> /\ a \in Word(4) /\ b \in Ascii \cup {Null}
      BY <1>2 DEF EntryValues
    <3>2. a \in Field /\ Filled(b) \in Field
      BY <3>1, EmptyAscii DEF Word, Ascii, Blob, Field, Filled
    <3>3. out[i] = <<a, Filled(b)>>
      BY <1>2, <3>1
    <3> QED
      BY <3>2, <3>3
  <2> HIDE DEF out
  <2>3. out \in [1..k -> Seq(Field)]
    BY <2>1, <2>2
  <2>4. k \in Nat
    OBVIOUS
  <2> HIDE DEF k
  <2> QED
    BY <2>3, <2>4, Bounded
<1> HIDE DEF p
<1>6. k \in Count /\ s \in Seq(EntryValues) /\ Len(s) = k
  OBVIOUS
<1> HIDE DEF k, out
<1>7. k \in Nat /\ w \in Seq(Byte) /\ Len(p) = k /\ ListRuns(q, g, k, p, out, r)
  BY <1>2, <1>3, <1>5, <1>6, <1>13, ListChain
<1>8. PICK t, f : Opened(q, g, t, k) /\ Follows(f, p, out, t, r)
  BY <1>7 DEF ListRuns
<1>9. ASSUME NEW m \in 0..(k - 1) PROVE f[m + 1] = EntryStep(f[m], Upto(k)[m + 1])
  <2>1. m + 1 \in 1..k
    BY <1>7
  <2>2. Passes(f, p, out, m)
    BY <1>7, <1>8 DEF Follows
  <2>3. PICK x, y, h : /\ y \in Seq(Byte) /\ Joins(x, p[m + 1], y)
                       /\ f[m] = At(x, h) /\ f[m + 1] = Collect(At(x, h), At(y, out[m + 1]))
    BY <2>2 DEF Passes
  <2>4. Entry(At(x, h)) = At(y, out[m + 1])
    <3>1. PICK v \in EntryValues : v = s[m + 1]
      BY <1>2, <2>1
    <3>2. p[m + 1] = PutEntry(v) /\ out[m + 1] = <<v[1], Filled(v[2])>>
      BY <1>2, <2>1, <3>1
    <3> QED
      BY <2>3, <3>2, EntryRead
  <2> QED
    BY <2>3, <2>4 DEF EntryStep
<1>10. EntryFolds!Fold(f[0], Upto(k)) = f[k]
  BY <1>7, <1>9, UptoSeq, EntryFolds!FoldChain
<1>11. f[0] = At(t, <<>>) /\ f[k] = At(r, out)
  BY <1>7, <1>8 DEF Follows
<1>12. ReadList(At(q, g), Entry) = EntryFolds!Fold(At(t, <<>>), Upto(k))
  BY <1>8, EntriesFold
<1> QED
  BY <1>4, <1>7, <1>10, <1>11, <1>12 DEF out

-------------------------------------------------------------------------------
(* The values of the model can be written. *)
LEMMA Values ==
  /\ Texts \subseteq Ascii /\ Blobs \subseteq Blob
  /\ U32s \subseteq Word(4) /\ I64s \subseteq Word(8)
  /\ Flags = Bits /\ Options \subseteq Word(4) \cup {Null}
<1>1. ASSUME NEW s \in Texts PROVE s \in Ascii
  <2>1. s \in Seq(0..127) /\ Len(s) \in Count
    BY ValueAssumption
  <2>2. s \in Seq(Byte)
    BY <2>1 DEF Byte
  <2>3. ASSUME NEW i \in DOMAIN s PROVE s[i] < 128
    <3>1. ASSUME NEW S, s \in Seq(S) PROVE s[i] \in S
      BY <3>1
    <3>2. PICK S : S = 0..127
      OBVIOUS
    <3>3. s[i] \in S
      BY <2>1, <3>1, <3>2
    <3> QED
      BY <3>2, <3>3
  <2> QED
    BY <2>1, <2>2, <2>3 DEF Ascii, Blob
<1>2. Blobs \subseteq Blob
  BY ValueAssumption DEF Blob
<1>3. ASSUME NEW w \in Nat, NEW n \in Numbers PROVE LittleEndian(n, w) \in Word(w)
  <2>1. n \in Int
    BY ValueAssumption
  <2> QED
    BY <2>1, LittleWord
<1>4. U32s \subseteq Word(4)
  <2>1. PICK w \in Nat : w = 4
    OBVIOUS
  <2>2. \A n \in Numbers : LittleEndian(n, w) \in Word(w)
    BY <1>3
  <2> QED
    BY <2>1, <2>2 DEF U32s, U32
<1>5. I64s \subseteq Word(8)
  <2>1. PICK w \in Nat : w = 8
    OBVIOUS
  <2>2. \A n \in Numbers : LittleEndian(n, w) \in Word(w)
    BY <1>3
  <2> QED
    BY <2>1, <2>2 DEF I64s, I64
<1>6. Flags = Bits
  BY DEF Flags, Bits
<1>7. Options \subseteq Word(4) \cup {Null}
  BY <1>4 DEF Options
<1> QED
  BY <1>1, <1>2, <1>4, <1>5, <1>6, <1>7

LEMMA ShortLists ==
  ASSUME NEW S, NEW s \in Lists(S)
  PROVE  s \in Seq(S) /\ Len(s) \in Count
<1>1. PICK n \in 0..2 : s \in [1..n -> S]
  BY DEF Lists
<1>2. n \in Nat
  OBVIOUS
<1>3. s \in Seq(S) /\ Len(s) = n
  BY <1>1, <1>2, Bounded
<1>4. n \in Count
  BY SMT DEF Count
<1> QED
  BY <1>3, <1>4

(* The bytes of one field and nothing else. *)
LEMMA Alone ==
  ASSUME NEW p
  PROVE  Joins(p \o <<>>, p, <<>>) /\ <<>> \in Seq(Byte) /\ Cursor(p) = At(p, <<>>)
         /\ (p \in Seq(Byte) => Joins(p, p, <<>>))
BY DEF Joins, Cursor, At

LEMMA FieldWhole ==
  ASSUME NEW t \in Types, NEW v \in Writable(t)
  PROVE  /\ PutField(t, v) \in Seq(Byte)
         /\ ReadField(Cursor(PutField(t, v)), t) = At(<<>>, Readable(t, v))
<1>1. PICK p : p = PutField(t, v)
  OBVIOUS
<1>2. Joins(p \o <<>>, p, <<>>) /\ <<>> \in Seq(Byte)
  BY Alone
<1>3. p \in Seq(Byte)
  BY <1>1, <1>2, FieldRead
<1>4. Joins(p, p, <<>>) /\ Cursor(p) = At(p, <<>>)
  BY <1>3, Alone
<1>5. ReadField(At(p, <<>>), t) = At(<<>>, Readable(t, v))
  BY <1>1, <1>2, <1>4, FieldRead
<1> QED
  BY <1>1, <1>3, <1>4, <1>5

LEMMA Arrived ==
  ASSUME NEW y, NEW v
  PROVE  Result(At(y, v)) = [ok |-> TRUE, value |-> v]
BY DEF Result, At

-------------------------------------------------------------------------------
(* Repository queries: the typed helper returns what QueryCore wrote. *)
LEMMA ScalarAnswer ==
  ASSUME NEW q, NEW t \in Types, NEW v \in Writable(t),
         WriteAnswer(q, v) = PutField(t, v),
         \A c : Helper(q, c) = Result(ReadField(Cursor(c), t)),
         Answered(q, v) = [ok |-> TRUE, value |-> Readable(t, v)]
  PROVE  WriteAnswer(q, v) \in Seq(Byte) /\ Helper(q, WriteAnswer(q, v)) = Answered(q, v)
BY FieldWhole, Arrived

LEMMA ListAnswer ==
  ASSUME NEW v \in Lists(Texts) \cup {Null}
  PROVE  WriteAnswer(11, v) \in Seq(Byte) /\ Helper(11, WriteAnswer(11, v)) = Answered(11, v)
<1>1. PICK s : s = Filled(v)
  OBVIOUS
<1>2. s \in Writable("strs") /\ "strs" \in Types
  <2>1. s \in Lists(Texts)
    <3>1. <<>> \in [1..0 -> Texts]
      OBVIOUS
    <3>2. <<>> \in Lists(Texts)
      BY <3>1 DEF Lists
    <3> QED
      BY <1>1, <3>2 DEF Filled
  <2>2. s \in Seq(Texts) /\ Len(s) \in Count
    BY <2>1, ShortLists
  <2>3. s \in Seq(Ascii)
    BY <2>2, Values
  <2> QED
    BY <2>2, <2>3 DEF Writable, Types
<1>3. WriteAnswer(11, v) = PutField("strs", s)
  BY <1>1 DEF WriteAnswer, PutField, Filled
<1>4. \A c : Helper(11, c) = Result(ReadField(Cursor(c), "strs"))
  BY DEF Helper, ReadField
<1>5. Answered(11, v) = [ok |-> TRUE, value |-> s]
  BY <1>1 DEF Answered
<1>6. Readable("strs", s) = s
  BY DEF Readable
<1> QED
  <2>1. PICK p : p = PutField("strs", s)
    OBVIOUS
  <2>2. p \in Seq(Byte) /\ ReadField(Cursor(p), "strs") = At(<<>>, s)
    BY <1>2, <1>6, <2>1, FieldWhole
  <2>3. Helper(11, p) = Answered(11, v)
    BY <1>4, <1>5, <2>2, Arrived
  <2> QED
    BY <1>3, <2>1, <2>2, <2>3

LEMMA CombatantsAnswer ==
  ASSUME NEW v \in Answers(6)
  PROVE  WriteAnswer(6, v) \in Seq(Byte) /\ Helper(6, WriteAnswer(6, v)) = Answered(6, v)
<1>1. v \in Seq(CombatantValues \cup {Null}) /\ Len(v) \in Count
  <2>1. v = <<>> \/ (\E c \in CombatantValues : v = <<c>>)
        \/ (\E c \in CombatantValues : v = <<c, Null>>)
    BY DEF Answers
  <2>2. v \in Seq(CombatantValues \cup {Null}) /\ Len(v) \in {0, 1, 2}
    <3> DEFINE S == CombatantValues \cup {Null}
    <3>1. CombatantValues \subseteq S /\ Null \in S
      OBVIOUS
    <3> HIDE DEF S
    <3>2. ASSUME NEW c \in S PROVE <<c>> \in Seq(S) /\ Len(<<c>>) = 1
      OBVIOUS
    <3>3. ASSUME NEW c \in S, NEW d \in S PROVE <<c, d>> \in Seq(S) /\ Len(<<c, d>>) = 2
      OBVIOUS
    <3>4. <<>> \in Seq(S) /\ Len(<<>>) = 0
      OBVIOUS
    <3>5. v \in Seq(S) /\ Len(v) \in {0, 1, 2}
      BY <2>1, <3>1, <3>2, <3>3, <3>4
    <3> QED
      BY <3>5 DEF S
  <2>3. 0 \in Count /\ 1 \in Count /\ 2 \in Count
    BY SMT DEF Count
  <2> QED
    BY <2>2, <2>3
<1>2. PICK p : p = PutList(PutCombatant, v)
  OBVIOUS
<1>3. p \in Seq(Byte)
  <2>1. Joins(p \o <<>>, p, <<>>) /\ <<>> \in Seq(Byte)
    BY Alone
  <2> QED
    BY <1>1, <1>2, <2>1, CombatantsRead
<1>4. ReadList(At(p, <<>>), Combatant) = At(<<>>, v)
  <2>1. Joins(p, p, <<>>) /\ <<>> \in Seq(Byte)
    BY <1>3, Alone
  <2> QED
    BY <1>1, <1>2, <2>1, CombatantsRead
<1>5. PICK c : c = At(p, <<>>) /\ c = Cursor(p)
  BY Alone
<1>6. Combatants(c) = IF ReadList(c, Combatant).ok
                      THEN IF Contains(ReadList(c, Combatant).got, Null) THEN Refused
                           ELSE ReadList(c, Combatant)
                      ELSE Refused
  BY DEF Combatants, Then
<1>7. At(<<>>, v).ok /\ At(<<>>, v).got = v
  BY Standing
<1>8. Combatants(c) = IF Contains(v, Null) THEN Refused ELSE At(<<>>, v)
  BY <1>4, <1>5, <1>6, <1>7
<1>9. Result(Refused) = [ok |-> FALSE]
  BY DEF Result, Refused
<1>10. Helper(6, p) = Result(Combatants(Cursor(p)))
  BY DEF Helper
<1>11. Answered(6, v) = IF Contains(v, Null) THEN [ok |-> FALSE] ELSE [ok |-> TRUE, value |-> v]
  BY DEF Answered
<1>12. WriteAnswer(6, v) = p
  BY <1>2 DEF WriteAnswer
<1>13. Helper(6, p) = Answered(6, v)
  <2>1. CASE Contains(v, Null)
    BY <1>5, <1>8, <1>9, <1>10, <1>11, <2>1
  <2>2. CASE ~Contains(v, Null)
    BY <1>5, <1>8, <1>10, <1>11, <2>2, Arrived
  <2> QED
    BY <2>1, <2>2
<1> QED
  BY <1>3, <1>12, <1>13

LEMMA PlayerAnswer ==
  ASSUME NEW v \in Answers(7)
  PROVE  WriteAnswer(7, v) \in Seq(Byte) /\ Helper(7, WriteAnswer(7, v)) = Answered(7, v)
<1>1. v \in {Null, PlayerValue}
  BY DEF Answers
<1>2. PICK p : p = PutPlayer(v)
  OBVIOUS
<1>3. p \in Seq(Byte)
  <2>1. Joins(p \o <<>>, p, <<>>) /\ <<>> \in Seq(Byte)
    BY Alone
  <2> QED
    BY <1>1, <1>2, <2>1, PlayerRead
<1>4. Player(At(p, <<>>)) = At(<<>>, v)
  <2>1. Joins(p, p, <<>>) /\ <<>> \in Seq(Byte)
    BY <1>3, Alone
  <2> QED
    BY <1>1, <1>2, <2>1, PlayerRead
<1>5. Helper(7, p) = Result(Player(Cursor(p)))
  BY DEF Helper
<1>6. Answered(7, v) = [ok |-> TRUE, value |-> v]
  BY DEF Answered
<1>7. WriteAnswer(7, v) = p
  BY <1>2 DEF WriteAnswer
<1>8. Helper(7, p) = Answered(7, v)
  BY <1>3, <1>4, <1>5, <1>6, Alone, Arrived
<1> QED
  BY <1>3, <1>7, <1>8

LEMMA EntriesAnswer ==
  ASSUME NEW v \in Answers(8)
  PROVE  WriteAnswer(8, v) \in Seq(Byte) /\ Helper(8, WriteAnswer(8, v)) = Answered(8, v)
<1>1. v \in Seq(EntryValues) /\ Len(v) \in Count
  <2>1. v = <<>> \/ (\E n \in U32s, s \in Texts \cup {Null} : v = << <<n, s>> >>)
    BY DEF Answers
  <2>2. \A n \in U32s, s \in Texts \cup {Null} : <<n, s>> \in EntryValues
    BY Values DEF EntryValues
  <2>3. v = <<>> \/ (\E e \in EntryValues : v = <<e>>)
    BY <2>1, <2>2
  <2>4. ASSUME NEW e \in EntryValues PROVE <<e>> \in Seq(EntryValues) /\ Len(<<e>>) = 1
    OBVIOUS
  <2>5. <<>> \in Seq(EntryValues) /\ Len(<<>>) = 0
    OBVIOUS
  <2>6. 0 \in Count /\ 1 \in Count
    BY SMT DEF Count
  <2> QED
    BY <2>3, <2>4, <2>5, <2>6
<1>2. PICK p : p = PutList(PutEntry, v)
  OBVIOUS
<1>3. p \in Seq(Byte)
  <2>1. Joins(p \o <<>>, p, <<>>) /\ <<>> \in Seq(Byte)
    BY Alone
  <2> QED
    BY <1>1, <1>2, <2>1, EntriesRead
<1>4. ReadList(At(p, <<>>), Entry) = At(<<>>, Entries(v))
  <2>1. Joins(p, p, <<>>) /\ <<>> \in Seq(Byte)
    BY <1>3, Alone
  <2> QED
    BY <1>1, <1>2, <2>1, EntriesRead
<1>5. PICK c : c = At(p, <<>>) /\ c = Cursor(p)
  BY Alone
<1>6. ResourceDictionary(c) = IF ReadList(c, Entry).ok
                              THEN Read(ReadList(c, Entry), ToSet(ReadList(c, Entry).got))
                              ELSE Refused
  BY DEF ResourceDictionary, Then
<1>7. /\ At(<<>>, Entries(v)).ok /\ At(<<>>, Entries(v)).got = Entries(v)
      /\ Read(At(<<>>, Entries(v)), ToSet(Entries(v))) = At(<<>>, ToSet(Entries(v)))
  BY Standing
<1>8. ResourceDictionary(c) = At(<<>>, ToSet(Entries(v)))
  BY <1>4, <1>5, <1>6, <1>7
<1>9. ToSet(Entries(v)) = {<<p_1[1], Filled(p_1[2])>> : p_1 \in ToSet(v)}
  BY DEF ToSet, Entries
<1>10. Helper(8, p) = Result(ResourceDictionary(Cursor(p)))
  BY DEF Helper
<1>11. Answered(8, v) = [ok |-> TRUE, value |-> {<<p_1[1], Filled(p_1[2])>> : p_1 \in ToSet(v)}]
  BY DEF Answered
<1>12. WriteAnswer(8, v) = p
  BY <1>2 DEF WriteAnswer
<1>13. Helper(8, p) = Answered(8, v)
  BY <1>5, <1>8, <1>9, <1>10, <1>11, Arrived
<1> QED
  BY <1>3, <1>12, <1>13

(* For every query and whatever the SDK answers, null references included:  *)
(* the typed helper of Repository (api.rs:912-1037) makes of the bytes that *)
(* QueryCore wrote the value itself, and Malformed of a combatant list that *)
(* holds a null.                                                            *)
THEOREM AnswersRead ==
  ASSUME NEW q \in 1..12, NEW v \in Answers(q)
  PROVE  WriteAnswer(q, v) \in Seq(Byte) /\ Helper(q, WriteAnswer(q, v)) = Answered(q, v)
<1>1. CASE q \in {1, 2, 3, 9}
  <2>0. q = 1 \/ q = 2 \/ q = 3 \/ q = 9
    BY <1>1
  <2>1. v \in U32s
    BY <2>0 DEF Answers
  <2>2. v \in Writable("u32") /\ "u32" \in Types
    BY <2>1, Values DEF Writable, Width, Types, Widths
  <2>3. PutField("u32", v) = v /\ Readable("u32", v) = v
    BY DEF PutField, Readable
  <2>4. \A c : ReadField(c, "u32") = Take(c, 4)
    BY DEF ReadField, Width
  <2>5. WriteAnswer(q, v) = v
    <3>1. q = 1 => WriteAnswer(q, v) = v
      BY DEF WriteAnswer
    <3>2. q = 2 => WriteAnswer(q, v) = v
      BY DEF WriteAnswer
    <3>3. q = 3 => WriteAnswer(q, v) = v
      BY DEF WriteAnswer
    <3>4. q = 9 => WriteAnswer(q, v) = v
      BY DEF WriteAnswer
    <3> QED
      BY <2>0, <3>1, <3>2, <3>3, <3>4
  <2>6. Answered(q, v) = [ok |-> TRUE, value |-> v]
    <3>1. q = 1 => Answered(q, v) = [ok |-> TRUE, value |-> v]
      BY DEF Answered
    <3>2. q = 2 => Answered(q, v) = [ok |-> TRUE, value |-> v]
      BY DEF Answered
    <3>3. q = 3 => Answered(q, v) = [ok |-> TRUE, value |-> v]
      BY DEF Answered
    <3>4. q = 9 => Answered(q, v) = [ok |-> TRUE, value |-> v]
      BY DEF Answered
    <3> QED
      BY <2>0, <3>1, <3>2, <3>3, <3>4
  <2>7. ASSUME NEW c PROVE Helper(q, c) = Result(Take(Cursor(c), 4))
    <3>1. q = 1 => Helper(q, c) = Result(Take(Cursor(c), 4))
      BY DEF Helper
    <3>2. q = 2 => Helper(q, c) = Result(Take(Cursor(c), 4))
      BY DEF Helper
    <3>3. q = 3 => Helper(q, c) = Result(Take(Cursor(c), 4))
      BY DEF Helper
    <3>4. q = 9 => Helper(q, c) = Result(Take(Cursor(c), 4))
      BY DEF Helper
    <3> QED
      BY <2>0, <3>1, <3>2, <3>3, <3>4
  <2>8. \A c : Helper(q, c) = Result(ReadField(Cursor(c), "u32"))
    BY <2>4, <2>7
  <2>9. /\ WriteAnswer(q, v) = PutField("u32", v)
        /\ Answered(q, v) = [ok |-> TRUE, value |-> Readable("u32", v)]
    BY <2>3, <2>5, <2>6
  <2> QED
    BY <2>2, <2>8, <2>9, ScalarAnswer
<1>2. CASE q = 4
  <2>1. v \in Texts \cup {Null}
    BY <1>2 DEF Answers
  <2>2. v \in Writable("str") /\ "str" \in Types
    BY <2>1, Values DEF Writable, Types
  <2>3. /\ WriteAnswer(q, v) = PutField("str", v)
        /\ Answered(q, v) = [ok |-> TRUE, value |-> Readable("str", v)]
    BY <1>2 DEF WriteAnswer, PutField, Answered, Readable
  <2>4. \A c : Helper(q, c) = Result(ReadField(Cursor(c), "str"))
    BY <1>2 DEF Helper, ReadField
  <2> QED
    BY <2>2, <2>3, <2>4, ScalarAnswer
<1>3. CASE q = 5
  <2>1. v \in Flags
    BY <1>3 DEF Answers
  <2>2. v \in Writable("bool") /\ "bool" \in Types
    BY <2>1, Values DEF Writable, Types
  <2>3. /\ WriteAnswer(q, v) = PutField("bool", v)
        /\ Answered(q, v) = [ok |-> TRUE, value |-> Readable("bool", v)]
    BY <1>3 DEF WriteAnswer, PutField, Answered, Readable
  <2>4. \A c : Helper(q, c) = Result(ReadField(Cursor(c), "bool"))
    BY <1>3 DEF Helper
  <2> QED
    BY <2>2, <2>3, <2>4, ScalarAnswer
<1>4. CASE q = 10
  <2>1. v \in I64s
    BY <1>4 DEF Answers
  <2>2. v \in Writable("i64") /\ "i64" \in Types
    BY <2>1, Values DEF Writable, Width, Types, Widths
  <2>3. /\ WriteAnswer(q, v) = PutField("i64", v)
        /\ Answered(q, v) = [ok |-> TRUE, value |-> Readable("i64", v)]
    BY <1>4 DEF WriteAnswer, PutField, Answered, Readable
  <2>4. \A c : Helper(q, c) = Result(ReadField(Cursor(c), "i64"))
    BY <1>4 DEF Helper, ReadField, Width
  <2> QED
    BY <2>2, <2>3, <2>4, ScalarAnswer
<1>5. CASE q = 12
  <2>1. PICK n \in Numbers : v = <<n % 256>>
    BY <1>5 DEF Answers
  <2>2. v \in Word(1)
    <3>1. n \in Int
      BY ValueAssumption
    <3>2. PICK b \in Byte : b = (n % 256)
      BY <3>1 DEF Byte
    <3>3. <<b>> \in Seq(Byte) /\ Len(<<b>>) = 1
      OBVIOUS
    <3>4. v = <<b>>
      BY <2>1, <3>2
    <3> QED
      BY <3>3, <3>4 DEF Word
  <2>3. v \in Writable("u8") /\ "u8" \in Types
    BY <2>2 DEF Writable, Width, Types, Widths
  <2>4. /\ WriteAnswer(q, v) = PutField("u8", v)
        /\ Answered(q, v) = [ok |-> TRUE, value |-> Readable("u8", v)]
    BY <1>5 DEF WriteAnswer, PutField, Answered, Readable
  <2>5. \A c : Helper(q, c) = Result(ReadField(Cursor(c), "u8"))
    BY <1>5 DEF Helper, ReadField, Width
  <2> QED
    BY <2>3, <2>4, <2>5, ScalarAnswer
<1>6. CASE q = 6
  BY <1>6, CombatantsAnswer
<1>7. CASE q = 7
  BY <1>7, PlayerAnswer
<1>8. CASE q = 8
  BY <1>8, EntriesAnswer
<1>9. CASE q = 11
  <2>1. v \in Lists(Texts) \cup {Null}
    BY <1>9 DEF Answers
  <2> QED
    BY <1>9, <2>1, ListAnswer
<1> QED
  BY <1>1, <1>2, <1>3, <1>4, <1>5, <1>6, <1>7, <1>8, <1>9

-------------------------------------------------------------------------------
(* Events.                                                                  *)
(* The types of the plain events' fields. *)
Plain == {"i64", "i32", "u32", "str", "bytes", "u32s"}

LEMMA PlainField ==
  ASSUME NEW t \in Plain, NEW v \in Writable(t)
  PROVE  t \in Types /\ v \in Field /\ Readable(t, v) = Filled(v)
<1>1. CASE t = "str"
  <2>1. v \in Ascii \cup {Null}
    BY <1>1 DEF Writable
  <2> QED
    BY <1>1, <2>1 DEF Ascii, Blob, Field, Types, Readable
<1>2. CASE t = "bytes"
  <2>1. v \in Blob \cup {Null}
    BY <1>2 DEF Writable
  <2> QED
    BY <1>2, <2>1 DEF Blob, Field, Types, Readable
<1>3. CASE t = "u32s"
  <2>1. v \in Seq(Word(4))
    BY <1>3 DEF Writable
  <2>2. Word(4) \subseteq Seq(Byte)
    BY DEF Word
  <2>3. ASSUME NEW S, NEW T, S \subseteq T, NEW s \in Seq(S) PROVE s \in Seq(T)
    BY <2>3
  <2>4. v \in Seq(Seq(Byte))
    BY <2>1, <2>2, <2>3
  <2>5. v # Null
    BY <2>4, NullApart
  <2> QED
    BY <1>3, <2>4, <2>5 DEF Field, Types, Readable, Filled
<1>4. CASE t \in {"i64", "i32", "u32"}
  <2>1. t = "i64" \/ t = "i32" \/ t = "u32"
    BY <1>4
  <2>2. \E w : v \in Word(w)
    BY <2>1 DEF Writable
  <2>3. v \in Seq(Byte)
    BY <2>2 DEF Word
  <2>4. v # Null
    BY <2>3, NullApart
  <2> QED
    BY <2>1, <2>3, <2>4 DEF Field, Types, Widths, Readable, Filled
<1> QED
  BY <1>1, <1>2, <1>3, <1>4 DEF Plain

(* A record alone: all its bytes are read. *)
LEMMA RecordWhole ==
  ASSUME NEW layout \in Seq(Types), NEW writer, NEW v, Written(layout, writer, v)
  PROVE  /\ PutFields(writer, v) \in Seq(Byte)
         /\ ReadFields(Cursor(PutFields(writer, v)), layout) = At(<<>>, Readables(layout, v))
<1>1. PICK p : p = PutFields(writer, v)
  OBVIOUS
<1>2. Joins(p \o <<>>, p, <<>>) /\ <<>> \in Seq(Byte)
  BY Alone
<1>3. p \in Seq(Byte)
  BY <1>1, <1>2, FieldsRead
<1>4. Joins(p, p, <<>>) /\ Cursor(p) = At(p, <<>>)
  BY <1>3, Alone
<1>5. ReadFields(At(p, <<>>), layout) = At(<<>>, Readables(layout, v))
  <2>0. <<>> \in Seq(Byte)
    BY Alone
  <2>1. PICK r \in Seq(Byte) : r = <<>>
    BY <2>0
  <2>2. Joins(p, PutFields(writer, v), r)
    BY <1>1, <1>4, <2>1
  <2>3. \A g : ReadFields(At(p, g), layout) = At(r, Readables(layout, v))
    BY <2>2, FieldsRead
  <2> QED
    BY <2>1, <2>3
<1> QED
  BY <1>1, <1>3, <1>4, <1>5

(* Where the reader of an event of this kind stands when it is done.        *)
EventRead(kind, c) ==
  CASE kind \in {0, 1} -> NetworkEvent(c)
    [] kind \in {2, 3} -> Combatant(c)
    [] kind = 4        -> c
    [] kind = 5        -> ReadFields(c, <<"u32", "str">>)
    [] kind = 6        -> Player(c)
    [] kind = 7        -> ReadFields(c, <<"i32", "u32s">>)
    [] kind = 8        -> ReadFields(c, <<"u32", "u32", "str">>)
    [] kind = 9        -> ReadFields(c, <<"u32", "i32", "str">>)
    [] kind = 10       -> ReadFields(c, <<"u32">>)
    [] kind = 11       -> UiEventOpenEnded(c)

LEMMA Verdict ==
  ASSUME NEW kind \in EventKind \ {11}, NEW p
  PROVE  Decode(kind, p) = IF kind \in {2, 3, 6} THEN Result(NotNull(EventRead(kind, Cursor(p))))
                           ELSE Result(EventRead(kind, Cursor(p)))
<1>1. kind = 0 \/ kind = 1 \/ kind = 2 \/ kind = 3 \/ kind = 4 \/ kind = 5 \/ kind = 6 \/ kind = 7
      \/ kind = 8 \/ kind = 9 \/ kind = 10
  BY DEF EventKind
<1> QED
  BY <1>1 DEF Decode, EventRead, EventKind

(* An event reads as it was given, and nothing is left of its bytes. *)
Arrives(e) ==
  /\ WriteEvent(e) \in Seq(Byte) /\ Decode(e.kind, WriteEvent(e)) = Delivered(e)
  /\ \E g : EventRead(e.kind, Cursor(WriteEvent(e))) = At(<<>>, g)

(* An event's fields, in the order of the shim and in that of the plugin. *)
Shaped(layout, writer, v) ==
  /\ layout \in Seq(Plain) /\ DOMAIN writer = DOMAIN layout /\ DOMAIN v = DOMAIN layout
  /\ v = [i \in DOMAIN v |-> v[i]]
  /\ \A i \in DOMAIN layout :
       v[i] \in Writable(layout[i]) /\ PutField(writer[i], v[i]) = PutField(layout[i], v[i])

LEMMA PlainEvent ==
  ASSUME NEW e, NEW layout, NEW writer, Shaped(layout, writer, e.value),
         e.kind \in EventKind \ {2, 3, 6, 11},
         WriteEvent(e) = PutFields(writer, e.value),
         \A c : EventRead(e.kind, c) = ReadFields(c, layout)
  PROVE  Arrives(e)
<1>1. PICK v : v = e.value
  OBVIOUS
<1>2. /\ layout \in Seq(Plain) /\ DOMAIN writer = DOMAIN layout /\ DOMAIN v = DOMAIN layout
      /\ v = [i \in DOMAIN v |-> v[i]]
  BY <1>1 DEF Shaped
<1>3. ASSUME NEW i \in DOMAIN layout
      PROVE  /\ layout[i] \in Plain /\ v[i] \in Writable(layout[i])
             /\ PutField(writer[i], v[i]) = PutField(layout[i], v[i])
             /\ v[i] \in Field /\ Readable(layout[i], v[i]) = Filled(v[i])
  <2>1. layout[i] \in Plain
    BY <1>2
  <2>2. v[i] \in Writable(layout[i]) /\ PutField(writer[i], v[i]) = PutField(layout[i], v[i])
    BY <1>1 DEF Shaped
  <2> QED
    BY <2>1, <2>2, PlainField
<1>4. layout \in Seq(Types) /\ Written(layout, writer, v)
  <2>1. Plain \subseteq Types
    BY DEF Plain, Types, Widths
  <2>2. ASSUME NEW S, NEW T, S \subseteq T, NEW s \in Seq(S) PROVE s \in Seq(T)
    BY <2>2
  <2>3. layout \in Seq(Types)
    BY <1>2, <2>1, <2>2
  <2> QED
    BY <1>2, <1>3, <2>3 DEF Written
<1>5. v # Null
  <2>1. PICK n \in Nat : DOMAIN layout = 1..n
    BY <1>2
  <2>2. v \in [1..n -> Field]
    BY <1>2, <1>3, <2>1
  <2>3. v \in Seq(Field)
    BY <2>2, Bounded
  <2> QED
    BY <2>3, NullApart
<1>6. Readables(layout, v) = [i \in DOMAIN v |-> Filled(v[i])]
  BY <1>2, <1>3 DEF Readables
<1>7. Delivered(e) = [ok |-> TRUE, value |-> [i \in DOMAIN v |-> Filled(v[i])]]
  BY <1>1, <1>5 DEF Delivered
<1>8. PICK p : p = PutFields(writer, v) /\ p = WriteEvent(e)
  BY <1>1
<1>9. p \in Seq(Byte) /\ ReadFields(Cursor(p), layout) = At(<<>>, Readables(layout, v))
  BY <1>4, <1>8, RecordWhole
<1>10. Decode(e.kind, p) = [ok |-> TRUE, value |-> Readables(layout, v)]
  <2>1. Decode(e.kind, p) = Result(EventRead(e.kind, Cursor(p)))
    BY Verdict
  <2> QED
    BY <1>9, <2>1, Arrived
<1>11. \E g : EventRead(e.kind, Cursor(p)) = At(<<>>, g)
  BY <1>9
<1> QED
  BY <1>6, <1>7, <1>8, <1>9, <1>10, <1>11 DEF Arrives

(* The events of the shim that are no records of their own. *)
LEMMA EventParts ==
  ASSUME NEW e \in Events
  PROVE  /\ e.kind \in EventKind
         /\ e.kind \in {0, 1} => \E n \in I64s, s \in Texts \cup {Null}, b \in Blobs \cup {Null} :
                                   e.value = <<n, s, b>>
         /\ e.kind \in {2, 3} => e.value \in CombatantValues \cup {Null}
         /\ e.kind = 4 => e.value = <<>>
         /\ e.kind = 5 => \E n \in U32s, s \in Texts \cup {Null} : e.value = <<n, s>>
         /\ e.kind = 6 => e.value \in {PlayerValue, Null}
         /\ e.kind = 7 => \E n \in U32s, l \in Lists(U32s) : e.value = <<n, l>>
         /\ e.kind \in {8, 9} => \E n \in U32s, m \in U32s, s \in Texts \cup {Null} :
                                   e.value = <<n, m, s>>
         /\ e.kind = 10 => \E n \in U32s : e.value = <<n>>
         /\ e.kind = 11 => e.value \in UiEvents
<1> DEFINE Strings == Texts \cup {Null}
           V(kind) ==
             CASE kind \in {0, 1} -> I64s \X Strings \X (Blobs \cup {Null})
               [] kind \in {2, 3} -> CombatantValues \cup {Null}
               [] kind = 4        -> {<<>>}
               [] kind = 5        -> U32s \X Strings
               [] kind = 6        -> {PlayerValue, Null}
               [] kind = 7        -> U32s \X Lists(U32s)
               [] kind \in {8, 9} -> U32s \X U32s \X Strings
               [] kind = 10       -> {<<n>> : n \in U32s}
               [] kind = 11       -> UiEvents
<1>1. Events = UNION {[kind : {k}, value : V(k)] : k \in EventKind}
  BY DEF Events
<1>2. /\ V(0) = I64s \X Strings \X (Blobs \cup {Null})
      /\ V(1) = I64s \X Strings \X (Blobs \cup {Null})
      /\ V(2) = CombatantValues \cup {Null} /\ V(3) = CombatantValues \cup {Null}
      /\ V(4) = {<<>>} /\ V(5) = U32s \X Strings /\ V(6) = {PlayerValue, Null}
      /\ V(7) = U32s \X Lists(U32s)
      /\ V(8) = U32s \X U32s \X Strings /\ V(9) = U32s \X U32s \X Strings
      /\ V(10) = {<<n>> : n \in U32s} /\ V(11) = UiEvents
  OBVIOUS
<1> HIDE DEF V
<1>3. PICK k \in EventKind : e \in [kind : {k}, value : V(k)]
  BY <1>1
<1>4. e.kind \in EventKind /\ e.value \in V(e.kind)
  BY <1>3
<1>5. ASSUME e.kind \in {0, 1} PROVE e.value \in I64s \X Strings \X (Blobs \cup {Null})
  <2>1. e.kind = 0 \/ e.kind = 1
    BY <1>5
  <2> QED
    BY <1>2, <1>4, <2>1
<1>6. ASSUME e.kind \in {2, 3} PROVE e.value \in CombatantValues \cup {Null}
  <2>1. e.kind = 2 \/ e.kind = 3
    BY <1>6
  <2> QED
    BY <1>2, <1>4, <2>1
<1>7. ASSUME e.kind \in {8, 9} PROVE e.value \in U32s \X U32s \X Strings
  <2>1. e.kind = 8 \/ e.kind = 9
    BY <1>7
  <2> QED
    BY <1>2, <1>4, <2>1
<1>8. e.kind = 5 => e.value \in U32s \X Strings
  BY <1>2, <1>4
<1>9. e.kind = 7 => e.value \in U32s \X Lists(U32s)
  BY <1>2, <1>4
<1>10. e.kind = 10 => e.value \in {<<n>> : n \in U32s}
  BY <1>2, <1>4
<1>11. /\ e.kind = 4 => e.value = <<>>
       /\ e.kind = 6 => e.value \in {PlayerValue, Null}
       /\ e.kind = 11 => e.value \in UiEvents
  BY <1>2, <1>4
<1>12. ASSUME NEW A, NEW B, NEW C, NEW x \in A \X B \X C
       PROVE  \E a \in A, b \in B, c \in C : x = <<a, b, c>>
  BY <1>12
<1>13. ASSUME NEW A, NEW B, NEW x \in A \X B
       PROVE  \E a \in A, b \in B : x = <<a, b>>
  BY <1>13
<1>14. e.kind = 10 => \E n \in U32s : e.value = <<n>>
  BY <1>10
<1> QED
  BY <1>4, <1>5, <1>6, <1>7, <1>8, <1>9, <1>11, <1>12, <1>13, <1>14

(* Network bytes. *)
LEMMA NetworkIntact ==
  ASSUME NEW e \in Events, e.kind \in {0, 1}
  PROVE  Arrives(e)
<1> DEFINE layout == <<"i64", "str", "bytes">>
<1>0. (e.kind = 0 \/ e.kind = 1) /\ e.kind \in EventKind \ {2, 3, 6, 11}
  BY DEF EventKind
<1>1. PICK n \in I64s, s \in Texts \cup {Null}, b \in Blobs \cup {Null} : e.value = <<n, s, b>>
  BY EventParts
<1>2. n \in Writable("i64") /\ s \in Writable("str") /\ b \in Writable("bytes")
  BY Values DEF Writable, Width
<1>3. layout \in Seq(Plain) /\ DOMAIN layout = 1..3
  BY DEF Plain
<1>4. ASSUME NEW i \in 1..3
      PROVE  /\ e.value[i] \in Writable(layout[i])
             /\ PutField(layout[i], e.value[i]) = PutField(layout[i], e.value[i])
  <2>1. i = 1 \/ i = 2 \/ i = 3
    OBVIOUS
  <2> QED
    BY <1>1, <1>2, <2>1
<1>5. DOMAIN e.value = 1..3 /\ e.value = [i \in DOMAIN e.value |-> e.value[i]]
  BY <1>1
<1>6. Shaped(layout, layout, e.value)
  BY <1>3, <1>4, <1>5 DEF Shaped
<1>7. WriteEvent(e) = PutFields(layout, e.value)
  <2>1. ShimEvent(e.kind) = layout
    BY <1>0 DEF ShimEvent
  <2> QED
    BY <1>0, <2>1 DEF WriteEvent
<1>8. \A c : EventRead(e.kind, c) = ReadFields(c, layout)
  <2>1. \A c : EventRead(e.kind, c) = NetworkEvent(c)
    BY <1>0 DEF EventRead
  <2> QED
    BY <2>1 DEF NetworkEvent
<1> HIDE DEF layout
<1> QED
  BY <1>0, <1>6, <1>7, <1>8, PlainEvent

(* The zone. *)
LEMMA ZoneIntact ==
  ASSUME NEW e \in Events, e.kind = 5
  PROVE  Arrives(e)
<1> DEFINE layout == <<"u32", "str">>
<1>0. (e.kind = 5) /\ e.kind \in EventKind \ {2, 3, 6, 11}
  BY DEF EventKind
<1>1. PICK n \in U32s, s \in Texts \cup {Null} : e.value = <<n, s>>
  BY EventParts
<1>2. n \in Writable("u32") /\ s \in Writable("str")
  BY Values DEF Writable, Width
<1>3. layout \in Seq(Plain) /\ DOMAIN layout = 1..2
  BY DEF Plain
<1>4. ASSUME NEW i \in 1..2
      PROVE  /\ e.value[i] \in Writable(layout[i])
             /\ PutField(layout[i], e.value[i]) = PutField(layout[i], e.value[i])
  <2>1. i = 1 \/ i = 2
    OBVIOUS
  <2> QED
    BY <1>1, <1>2, <2>1
<1>5. DOMAIN e.value = 1..2 /\ e.value = [i \in DOMAIN e.value |-> e.value[i]]
  BY <1>1
<1>6. Shaped(layout, layout, e.value)
  BY <1>3, <1>4, <1>5 DEF Shaped
<1>7. WriteEvent(e) = PutFields(layout, e.value)
  <2>1. ShimEvent(e.kind) = layout
    BY <1>0 DEF ShimEvent
  <2> QED
    BY <1>0, <2>1 DEF WriteEvent
<1>8. \A c : EventRead(e.kind, c) = ReadFields(c, layout)
  BY <1>0 DEF EventRead
<1> HIDE DEF layout
<1> QED
  BY <1>0, <1>6, <1>7, <1>8, PlainEvent

(* The party list. *)
LEMMA PartyIntact ==
  ASSUME NEW e \in Events, e.kind = 7
  PROVE  Arrives(e)
<1> DEFINE layout == <<"i32", "u32s">>
<1>0. (e.kind = 7) /\ e.kind \in EventKind \ {2, 3, 6, 11}
  BY DEF EventKind
<1>1. PICK n \in U32s, l \in Lists(U32s) : e.value = <<n, l>>
  BY EventParts
<1>2. n \in Writable("i32") /\ l \in Writable("u32s")
  <2>1. n \in Writable("u32")
    BY Values DEF Writable, Width
  <2>2. n \in Writable("i32")
    BY Values DEF Writable, Width
  <2>3. l \in Seq(U32s) /\ Len(l) \in Count
    BY ShortLists
  <2>4. ASSUME NEW S, NEW Z, S \subseteq Z, NEW x \in Seq(S) PROVE x \in Seq(Z)
    BY <2>4
  <2>5. l \in Seq(Word(4))
    BY <2>3, <2>4, Values
  <2> QED
    BY <2>2, <2>3, <2>5 DEF Writable
<1>3. layout \in Seq(Plain) /\ DOMAIN layout = 1..2
  BY DEF Plain
<1>4. ASSUME NEW i \in 1..2
      PROVE  /\ e.value[i] \in Writable(layout[i])
             /\ PutField(layout[i], e.value[i]) = PutField(layout[i], e.value[i])
  <2>1. i = 1 \/ i = 2
    OBVIOUS
  <2> QED
    BY <1>1, <1>2, <2>1
<1>5. DOMAIN e.value = 1..2 /\ e.value = [i \in DOMAIN e.value |-> e.value[i]]
  BY <1>1
<1>6. Shaped(layout, layout, e.value)
  BY <1>3, <1>4, <1>5 DEF Shaped
<1>7. WriteEvent(e) = PutFields(layout, e.value)
  <2>1. ShimEvent(e.kind) = layout
    BY <1>0 DEF ShimEvent
  <2> QED
    BY <1>0, <2>1 DEF WriteEvent
<1>8. \A c : EventRead(e.kind, c) = ReadFields(c, layout)
  BY <1>0 DEF EventRead
<1> HIDE DEF layout
<1> QED
  BY <1>0, <1>6, <1>7, <1>8, PlainEvent

(* A log line. *)
LEMMA LogLineIntact ==
  ASSUME NEW e \in Events, e.kind = 8
  PROVE  Arrives(e)
<1> DEFINE layout == <<"u32", "u32", "str">>
<1>0. (e.kind = 8) /\ e.kind \in EventKind \ {2, 3, 6, 11}
  BY DEF EventKind
<1>1. PICK n \in U32s, m \in U32s, s \in Texts \cup {Null} : e.value = <<n, m, s>>
  BY EventParts
<1>2. n \in Writable("u32") /\ m \in Writable("u32") /\ s \in Writable("str")
  BY Values DEF Writable, Width
<1>3. layout \in Seq(Plain) /\ DOMAIN layout = 1..3
  BY DEF Plain
<1>4. ASSUME NEW i \in 1..3
      PROVE  /\ e.value[i] \in Writable(layout[i])
             /\ PutField(layout[i], e.value[i]) = PutField(layout[i], e.value[i])
  <2>1. i = 1 \/ i = 2 \/ i = 3
    OBVIOUS
  <2> QED
    BY <1>1, <1>2, <2>1
<1>5. DOMAIN e.value = 1..3 /\ e.value = [i \in DOMAIN e.value |-> e.value[i]]
  BY <1>1
<1>6. Shaped(layout, layout, e.value)
  BY <1>3, <1>4, <1>5 DEF Shaped
<1>7. WriteEvent(e) = PutFields(layout, e.value)
  <2>1. ShimEvent(e.kind) = layout
    BY <1>0 DEF ShimEvent
  <2> QED
    BY <1>0, <2>1 DEF WriteEvent
<1>8. \A c : EventRead(e.kind, c) = ReadFields(c, layout)
  BY <1>0 DEF EventRead
<1> HIDE DEF layout
<1> QED
  BY <1>0, <1>6, <1>7, <1>8, PlainEvent

(* A parsed log line: its sequence is written as u32 and read as i32. *)
LEMMA ParsedLogLineIntact ==
  ASSUME NEW e \in Events, e.kind = 9
  PROVE  Arrives(e)
<1> DEFINE layout == <<"u32", "i32", "str">>
           writer == <<"u32", "u32", "str">>
<1>0. (e.kind = 9) /\ e.kind \in EventKind \ {2, 3, 6, 11}
  BY DEF EventKind
<1>1. PICK n \in U32s, m \in U32s, s \in Texts \cup {Null} : e.value = <<n, m, s>>
  BY EventParts
<1>2. n \in Writable("u32") /\ m \in Writable("i32") /\ s \in Writable("str")
  BY Values DEF Writable, Width
<1>3. layout \in Seq(Plain) /\ DOMAIN layout = 1..3 /\ DOMAIN writer = 1..3
  BY DEF Plain
<1>4. ASSUME NEW i \in 1..3
      PROVE  /\ e.value[i] \in Writable(layout[i])
             /\ PutField(writer[i], e.value[i]) = PutField(layout[i], e.value[i])
  <2>1. i = 1 \/ i = 2 \/ i = 3
    OBVIOUS
  <2>2. \A x : PutField("u32", x) = x /\ PutField("i32", x) = x
    BY DEF PutField
  <2>3. e.value[i] \in Writable(layout[i])
    BY <1>1, <1>2, <2>1
  <2>4. PutField(writer[i], e.value[i]) = PutField(layout[i], e.value[i])
    BY <2>1, <2>2
  <2> QED
    BY <2>3, <2>4
<1>5. DOMAIN e.value = 1..3 /\ e.value = [i \in DOMAIN e.value |-> e.value[i]]
  BY <1>1
<1>6. Shaped(layout, writer, e.value)
  BY <1>3, <1>4, <1>5 DEF Shaped
<1>7. WriteEvent(e) = PutFields(writer, e.value)
  <2>1. ShimEvent(e.kind) = writer
    BY <1>0 DEF ShimEvent
  <2> QED
    BY <1>0, <2>1 DEF WriteEvent
<1>8. \A c : EventRead(e.kind, c) = ReadFields(c, layout)
  BY <1>0 DEF EventRead
<1> HIDE DEF layout, writer
<1> QED
  BY <1>0, <1>6, <1>7, <1>8, PlainEvent

(* The process. *)
LEMMA ProcessIntact ==
  ASSUME NEW e \in Events, e.kind = 10
  PROVE  Arrives(e)
<1> DEFINE layout == <<"u32">>
<1>0. (e.kind = 10) /\ e.kind \in EventKind \ {2, 3, 6, 11}
  BY DEF EventKind
<1>1. PICK n \in U32s : e.value = <<n>>
  BY EventParts
<1>2. n \in Writable("u32")
  BY Values DEF Writable, Width
<1>3. layout \in Seq(Plain) /\ DOMAIN layout = 1..1
  BY DEF Plain
<1>4. ASSUME NEW i \in 1..1
      PROVE  /\ e.value[i] \in Writable(layout[i])
             /\ PutField(layout[i], e.value[i]) = PutField(layout[i], e.value[i])
  <2>1. i = 1
    OBVIOUS
  <2> QED
    BY <1>1, <1>2, <2>1
<1>5. DOMAIN e.value = 1..1 /\ e.value = [i \in DOMAIN e.value |-> e.value[i]]
  BY <1>1
<1>6. Shaped(layout, layout, e.value)
  BY <1>3, <1>4, <1>5 DEF Shaped
<1>7. WriteEvent(e) = PutFields(layout, e.value)
  <2>1. ShimEvent(e.kind) = layout
    BY <1>0 DEF ShimEvent
  <2> QED
    BY <1>0, <2>1 DEF WriteEvent
<1>8. \A c : EventRead(e.kind, c) = ReadFields(c, layout)
  BY <1>0 DEF EventRead
<1> HIDE DEF layout
<1> QED
  BY <1>0, <1>6, <1>7, <1>8, PlainEvent

(* Login and logout carry nothing. *)
LEMMA PrimaryPlayerIntact ==
  ASSUME NEW e \in Events, e.kind = 4
  PROVE  Arrives(e)
<1>1. e.value = <<>>
  BY EventParts
<1>2. PICK p : p = WriteEvent(e)
  OBVIOUS
<1>3. p = PutFields(<<>>, <<>>)
  BY <1>1, <1>2 DEF WriteEvent, ShimEvent
<1>4. p \in Seq(Byte)
  <2>0. <<>> \in Seq(Types)
    OBVIOUS
  <2>1. PICK layout \in Seq(Types) : layout = <<>>
    BY <2>0
  <2>2. Written(layout, layout, layout)
    BY <2>1 DEF Written
  <2>3. PutFields(layout, layout) \in Seq(Byte)
    BY <2>2, RecordWhole
  <2> QED
    BY <1>3, <2>1, <2>3
<1>5. Decode(e.kind, p) = [ok |-> TRUE, value |-> <<>>]
  <2>1. Decode(e.kind, p) = Result(Cursor(p))
    BY DEF Decode, EventKind
  <2> QED
    BY <2>1 DEF Result, Cursor
<1>6. Delivered(e) = [ok |-> TRUE, value |-> <<>>]
  <2>1. e.value # Null
    <3>1. <<>> \in Seq(Byte)
      OBVIOUS
    <3> QED
      BY <1>1, <3>1, NullApart
  <2>2. [i \in DOMAIN <<>> |-> Filled(<<>>[i])] = <<>>
    OBVIOUS
  <2> QED
    BY <1>1, <2>1, <2>2 DEF Delivered
<1>7. EventRead(e.kind, Cursor(p)) = At(<<>>, <<>>)
  <2>1. p = <<>>
    <3>1. p = FlattenSeq([i \in DOMAIN <<>> |-> PutField(<<>>[i], <<>>[i])])
      BY <1>3 DEF PutFields
    <3>2. [i \in DOMAIN <<>> |-> PutField(<<>>[i], <<>>[i])] = <<>>
      OBVIOUS
    <3> QED
      BY <3>1, <3>2, FlattenNone
  <2> QED
    BY <2>1 DEF EventRead, Cursor, At
<1> QED
  BY <1>2, <1>4, <1>5, <1>6, <1>7 DEF Arrives

(* A combatant, or the error that stands for a null one. *)
LEMMA CombatantIntact ==
  ASSUME NEW e \in Events, e.kind \in {2, 3}
  PROVE  Arrives(e)
<1>0. e.kind = 2 \/ e.kind = 3
  OBVIOUS
<1>1. PICK v \in CombatantValues \cup {Null} : v = e.value
  BY EventParts
<1>2. PICK p : p = PutCombatant(v)
  OBVIOUS
<1>3. p \in Seq(Byte) /\ Combatant(Cursor(p)) = At(<<>>, v)
  <2>1. Joins(p \o <<>>, p, <<>>) /\ <<>> \in Seq(Byte) /\ Cursor(p) = At(p, <<>>)
    BY Alone
  <2>2. p \in Seq(Byte)
    BY <1>2, <2>1, CombatantRead
  <2>3. Joins(p, p, <<>>)
    BY <2>2, Alone
  <2>4. Combatant(At(p, <<>>)) = At(<<>>, v)
    BY <1>2, <2>1, <2>3, CombatantRead, ZenonT(60)
  <2> QED
    BY <2>1, <2>2, <2>4
<1>4. WriteEvent(e) = p
  BY <1>0, <1>1, <1>2 DEF WriteEvent
<1>9. EventRead(e.kind, Cursor(p)) = At(<<>>, v)
  BY <1>0, <1>3 DEF EventRead
<1>5. Decode(e.kind, p) = Result(NotNull(Combatant(Cursor(p))))
  BY <1>0 DEF Decode, EventKind
<1>6. Delivered(e) = IF v = Null THEN [ok |-> FALSE] ELSE [ok |-> TRUE, value |-> v]
  BY <1>0, <1>1 DEF Delivered
<1>7. NotNull(At(<<>>, v)) = IF v = Null THEN Refused ELSE At(<<>>, v)
  BY Standing DEF NotNull
<1>8. Result(Refused) = [ok |-> FALSE]
  BY DEF Result, Refused
<1> QED
  BY <1>3, <1>4, <1>5, <1>6, <1>7, <1>8, <1>9, Arrived DEF Arrives

(* The player's stats, or the error that stands for null. *)
LEMMA PlayerIntact ==
  ASSUME NEW e \in Events, e.kind = 6
  PROVE  Arrives(e)
<1>1. PICK v \in {Null, PlayerValue} : v = e.value
  BY EventParts
<1>2. PICK p : p = PutPlayer(v)
  OBVIOUS
<1>3. p \in Seq(Byte) /\ Player(Cursor(p)) = At(<<>>, v)
  <2>1. Joins(p \o <<>>, p, <<>>) /\ <<>> \in Seq(Byte) /\ Cursor(p) = At(p, <<>>)
    BY Alone
  <2>2. p \in Seq(Byte)
    BY <1>2, <2>1, PlayerRead
  <2>3. Joins(p, p, <<>>)
    BY <2>2, Alone
  <2>4. Player(At(p, <<>>)) = At(<<>>, v)
    BY <1>2, <2>1, <2>3, PlayerRead
  <2> QED
    BY <2>1, <2>2, <2>4
<1>4. WriteEvent(e) = p
  BY <1>1, <1>2 DEF WriteEvent
<1>9. EventRead(e.kind, Cursor(p)) = At(<<>>, v)
  BY <1>3 DEF EventRead
<1>5. Decode(e.kind, p) = Result(NotNull(Player(Cursor(p))))
  BY DEF Decode, EventKind
<1>6. Delivered(e) = IF v = Null THEN [ok |-> FALSE] ELSE [ok |-> TRUE, value |-> v]
  BY <1>1 DEF Delivered
<1>7. NotNull(At(<<>>, v)) = IF v = Null THEN Refused ELSE At(<<>>, v)
  BY Standing DEF NotNull
<1>8. Result(Refused) = [ok |-> FALSE]
  BY DEF Result, Refused
<1> QED
  BY <1>3, <1>4, <1>5, <1>6, <1>7, <1>8, <1>9, Arrived DEF Arrives

(* Values that are read as they were written. *)
Exact(t) == {x \in Writable(t) \cap Field : Readable(t, x) = x}

Fits(layout, f) ==
  /\ layout \in Seq(Types) /\ f \in Seq(Field) /\ Len(f) = Len(layout)
  /\ \A i \in 1..Len(layout) : f[i] \in Exact(layout[i])

LEMMA BitsAreWords ==
  ASSUME NEW b \in Bits
  PROVE  b \in Word(1)
BY TagBits DEF Bits

LEMMA ExactValues ==
  /\ U32s \subseteq Exact("u32") /\ I64s \subseteq Exact("i64")
  /\ Flags \subseteq Exact("flag") /\ Texts \subseteq Exact("str")
  /\ Options \subseteq Exact("option") /\ Lists(Texts) \subseteq Exact("strs")
  /\ \A k \in 0..255 : <<k>> \in Exact("u8")
<1>0. Word(4) \subseteq Field /\ Word(8) \subseteq Field /\ Word(1) \subseteq Field
      /\ Null \in Field /\ Seq(Seq(Byte)) \subseteq Field /\ Seq(Byte) \subseteq Field
  BY DEF Word, Field
<1>1. ASSUME NEW x \in U32s PROVE x \in Exact("u32")
  BY <1>0, Values DEF Exact, Writable, Readable, Width
<1>2. ASSUME NEW x \in I64s PROVE x \in Exact("i64")
  BY <1>0, Values DEF Exact, Writable, Readable, Width
<1>3. ASSUME NEW x \in Flags PROVE x \in Exact("flag")
  <2>1. x \in Bits /\ x \in Word(1)
    BY Values, BitsAreWords
  <2>2. Writable("flag") = Bits /\ Readable("flag", x) = x
    BY DEF Writable, Readable
  <2> QED
    BY <1>0, <2>1, <2>2 DEF Exact
<1>4. ASSUME NEW x \in Texts PROVE x \in Exact("str")
  <2>1. x \in Ascii /\ x \in Seq(Byte)
    BY Values DEF Ascii, Blob
  <2>2. x # Null
    BY <2>1, NullApart
  <2>3. Writable("str") = Ascii \cup {Null} /\ Readable("str", x) = x
    BY <2>2 DEF Writable, Readable, Filled
  <2> QED
    BY <1>0, <2>1, <2>3 DEF Exact
<1>5. ASSUME NEW x \in Options PROVE x \in Exact("option")
  <2>1. x \in Word(4) \cup {Null}
    BY Values
  <2>2. Writable("option") = Word(4) \cup {Null} /\ Readable("option", x) = x
    BY DEF Writable, Readable
  <2> QED
    BY <1>0, <2>1, <2>2 DEF Exact
<1>6. ASSUME NEW x \in Lists(Texts) PROVE x \in Exact("strs")
  <2>1. x \in Seq(Texts) /\ Len(x) \in Count
    BY ShortLists
  <2>2. ASSUME NEW S, NEW Z, S \subseteq Z, NEW y \in Seq(S) PROVE y \in Seq(Z)
    BY <2>2
  <2>3. x \in Seq(Ascii)
    BY <2>1, <2>2, Values
  <2>4. Ascii \subseteq Seq(Byte)
    BY DEF Ascii, Blob
  <2>5. x \in Seq(Seq(Byte))
    BY <2>2, <2>3, <2>4
  <2>6. Writable("strs") = {y \in Seq(Ascii) : Len(y) \in Count} /\ Readable("strs", x) = x
    BY DEF Writable, Readable
  <2> QED
    BY <1>0, <2>1, <2>3, <2>5, <2>6 DEF Exact
<1>7. ASSUME NEW k \in 0..255 PROVE <<k>> \in Exact("u8")
  <2>1. k \in Byte
    BY DEF Byte
  <2>2. <<k>> \in Seq(Byte) /\ Len(<<k>>) = 1
    BY <2>1
  <2>3. <<k>> \in Word(1)
    BY <2>2 DEF Word
  <2>4. Writable("u8") = Word(1) /\ Readable("u8", <<k>>) = <<k>>
    BY DEF Writable, Readable, Width
  <2> QED
    BY <1>0, <2>3, <2>4 DEF Exact
<1> QED
  BY <1>1, <1>2, <1>3, <1>4, <1>5, <1>6, <1>7

LEMMA FitsRead ==
  ASSUME NEW layout, NEW f, Fits(layout, f)
  PROVE  layout \in Seq(Types) /\ Written(layout, layout, f) /\ Readables(layout, f) = f
<1>1. /\ layout \in Seq(Types) /\ f \in Seq(Field) /\ Len(f) = Len(layout)
      /\ \A i \in 1..Len(layout) : f[i] \in Exact(layout[i])
  BY DEF Fits
<1>2. PICK n \in Nat : n = Len(layout)
  BY <1>1
<1>3. DOMAIN layout = 1..n /\ DOMAIN f = 1..n /\ f = [i \in 1..n |-> f[i]]
  BY <1>1, <1>2
<1>4. \A i \in 1..n : f[i] \in Writable(layout[i]) /\ Readable(layout[i], f[i]) = f[i]
  BY <1>1, <1>2 DEF Exact
<1>5. Written(layout, layout, f)
  BY <1>3, <1>4 DEF Written
<1>6. Readables(layout, f) = f
  BY <1>3, <1>4 DEF Readables
<1> QED
  BY <1>1, <1>5, <1>6

LEMMA FitsSome ==
  /\ Fits(<<>>, <<>>)
  /\ \A t \in Types : \A x \in Exact(t) : Fits(<<t>>, <<x>>)
  /\ \A t \in Types, u \in Types : \A x \in Exact(t), y \in Exact(u) : Fits(<<t, u>>, <<x, y>>)
  /\ \A t \in Types, u \in Types, w \in Types :
       \A x \in Exact(t), y \in Exact(u), z \in Exact(w) : Fits(<<t, u, w>>, <<x, y, z>>)
<1>0. \A t : Exact(t) \subseteq Field
  BY DEF Exact
<1>1. Fits(<<>>, <<>>)
  BY DEF Fits
<1>2. ASSUME NEW t \in Types, NEW x \in Exact(t) PROVE Fits(<<t>>, <<x>>)
  BY <1>0 DEF Fits
<1>3. ASSUME NEW t \in Types, NEW u \in Types, NEW x \in Exact(t), NEW y \in Exact(u)
      PROVE  Fits(<<t, u>>, <<x, y>>)
  BY <1>0 DEF Fits
<1>4. ASSUME NEW t \in Types, NEW u \in Types, NEW w \in Types,
             NEW x \in Exact(t), NEW y \in Exact(u), NEW z \in Exact(w)
      PROVE  Fits(<<t, u, w>>, <<x, y, z>>)
  BY <1>0 DEF Fits
<1> QED
  BY <1>1, <1>2, <1>3, <1>4

LEMMA JoinedParts ==
  ASSUME NEW S, NEW p \in Seq(S), NEW r \in Seq(S), NEW c, Joins(c, p, r)
  PROVE  /\ c \in Seq(S) /\ Len(c) = Len(p) + Len(r)
         /\ \A i \in 1..Len(p) : c[i] = p[i]
         /\ \A i \in 1..Len(r) : c[Len(p) + i] = r[i]
<1>1. PICK q : q = p \o r
  OBVIOUS
<1>2. PICK m \in Nat, n \in Nat : m = Len(p) /\ n = Len(r)
  OBVIOUS
<1>3. /\ q \in Seq(S) /\ Len(q) = m + n
      /\ \A i \in 1..m : q[i] = p[i]
      /\ \A i \in 1..n : q[m + i] = r[i]
  BY <1>1, <1>2
<1>4. c = q
  BY <1>1 DEF Joins
<1> QED
  BY <1>2, <1>3, <1>4

(* Two records in a row are one. *)
LEMMA FitsJoins ==
  ASSUME NEW a, NEW f, Fits(a, f), NEW b, NEW g, Fits(b, g), NEW c, Joins(c, a, b),
         NEW h, Joins(h, f, g)
  PROVE  Fits(c, h)
<1>1. /\ a \in Seq(Types) /\ f \in Seq(Field) /\ Len(f) = Len(a)
      /\ \A i \in 1..Len(a) : f[i] \in Exact(a[i])
      /\ b \in Seq(Types) /\ g \in Seq(Field) /\ Len(g) = Len(b)
      /\ \A i \in 1..Len(b) : g[i] \in Exact(b[i])
  BY DEF Fits
<1>2. PICK k \in Nat, l \in Nat : k = Len(a) /\ l = Len(b)
  BY <1>1
<1>3. /\ c \in Seq(Types) /\ Len(c) = k + l
      /\ \A i \in 1..k : c[i] = a[i]
      /\ \A i \in 1..l : c[k + i] = b[i]
  <2>1. a \in Seq(Types) /\ b \in Seq(Types) /\ Len(a) = k /\ Len(b) = l
    BY <1>1, <1>2
  <2>2. /\ c \in Seq(Types) /\ Len(c) = Len(a) + Len(b)
        /\ \A i \in 1..Len(a) : c[i] = a[i]
        /\ \A i \in 1..Len(b) : c[Len(a) + i] = b[i]
    BY <1>1, JoinedParts
  <2> QED
    BY <2>1, <2>2
<1>4. /\ h \in Seq(Field) /\ Len(h) = k + l
      /\ \A i \in 1..k : h[i] = f[i]
      /\ \A i \in 1..l : h[k + i] = g[i]
  <2>1. f \in Seq(Field) /\ g \in Seq(Field) /\ Joins(h, f, g)
    BY <1>1
  <2>2. /\ h \in Seq(Field) /\ Len(h) = Len(f) + Len(g)
        /\ \A i \in 1..Len(f) : h[i] = f[i]
        /\ \A i \in 1..Len(g) : h[Len(f) + i] = g[i]
    BY ONLY <2>1, JoinedParts
  <2>3. Len(f) = k /\ Len(g) = l
    BY <1>1, <1>2
  <2> QED
    BY <2>2, <2>3
<1>5. ASSUME NEW i \in 1..(k + l) PROVE h[i] \in Exact(c[i])
  <2>1. CASE i <= k
    <3>1. i \in 1..k
      BY <2>1
    <3> QED
      BY <1>1, <1>2, <1>3, <1>4, <3>1
  <2>2. CASE i > k
    <3>1. PICK j \in 1..l : i = k + j
      <4>1. i - k \in 1..l /\ i = k + (i - k)
        BY <2>2
      <4> QED
        BY <4>1
    <3>2. h[i] = g[j] /\ c[i] = b[j] /\ g[j] \in Exact(b[j])
      BY <1>1, <1>2, <1>3, <1>4, <3>1
    <3> QED
      BY <3>2
  <2> QED
    BY <2>1, <2>2
<1> QED
  BY <1>3, <1>4, <1>5 DEF Fits

(* Events of the tab: a tag and the fields that both sides know under it. *)
Framed(v, k, layout) ==
  v[1] = <<k>> /\ Fits(layout, Tail(v)) /\ v = <<<<k>>>> \o Tail(v) /\ v # Null

LEMMA Tails ==
  ASSUME NEW S, NEW tag \in S, NEW x \in S, NEW y \in S, NEW z \in S
  PROVE  /\ <<tag, x>> \in Seq(S) /\ Tail(<<tag, x>>) = <<x>> /\ <<tag, x>>[1] = tag
         /\ <<tag, x, y>> \in Seq(S) /\ Tail(<<tag, x, y>>) = <<x, y>> /\ <<tag, x, y>>[1] = tag
         /\ <<tag, x, y, z>> \in Seq(S) /\ Tail(<<tag, x, y, z>>) = <<x, y, z>>
         /\ <<tag, x, y, z>>[1] = tag
OBVIOUS

LEMMA Heads ==
  ASSUME NEW S, NEW tag \in S, NEW x \in S, NEW y \in S, NEW z \in S
  PROVE  /\ <<tag, x>> = <<tag>> \o <<x>> /\ <<tag, x, y>> = <<tag>> \o <<x, y>>
         /\ <<tag, x, y, z>> = <<tag>> \o <<x, y, z>>
<1>1. <<tag, x>> = <<tag>> \o <<x>>
  <2>1. PICK q : q = <<tag>> \o <<x>>
    OBVIOUS
  <2>2. q \in Seq(S) /\ Len(q) = 2 /\ q[1] = tag /\ q[2] = x
    BY <2>1
  <2>3. PICK v : v = <<tag, x>>
    OBVIOUS
  <2>4. v \in Seq(S) /\ Len(v) = 2 /\ v[1] = tag /\ v[2] = x
    BY <2>3
  <2>5. \A i \in 1..Len(v) : v[i] = q[i]
    BY <2>2, <2>4
  <2>6. v = q
    BY <2>2, <2>4, <2>5, SeqEqual
  <2> QED
    BY <2>1, <2>3, <2>6
<1>2. <<tag, x, y>> = <<tag>> \o <<x, y>>
  <2>1. PICK q : q = <<tag>> \o <<x, y>>
    OBVIOUS
  <2>2. q \in Seq(S) /\ Len(q) = 3 /\ q[1] = tag /\ q[2] = x /\ q[3] = y
    BY <2>1
  <2> QED
    BY <2>1, <2>2
<1>3. <<tag, x, y, z>> = <<tag>> \o <<x, y, z>>
  <2>1. PICK q : q = <<tag>> \o <<x, y, z>>
    OBVIOUS
  <2>2. q \in Seq(S) /\ Len(q) = 4 /\ q[1] = tag /\ q[2] = x /\ q[3] = y /\ q[4] = z
    BY <2>1
  <2> QED
    BY <2>1, <2>2
<1> QED
  BY <1>1, <1>2, <1>3

LEMMA FrameNone ==
  ASSUME NEW k \in 0..255
  PROVE  Framed(<<<<k>>>>, k, <<>>)
<1>1. PICK tag \in Field : tag = <<k>>
  BY ExactValues DEF Exact
<1>2. <<tag>> \in Seq(Field) /\ Tail(<<tag>>) = <<>> /\ <<tag>> \o <<>> = <<tag>>
  OBVIOUS
<1> QED
  BY <1>1, <1>2, FitsSome, NullApart DEF Framed

LEMMA FrameOne ==
  ASSUME NEW k \in 0..255, NEW t \in Types, NEW x \in Exact(t)
  PROVE  Framed(<<<<k>>, x>>, k, <<t>>)
<1>1. PICK tag \in Field : tag = <<k>>
  BY ExactValues DEF Exact
<1>2. x \in Field
  BY DEF Exact
<1>3. PICK v : v = <<tag, x>>
  OBVIOUS
<1>4. v \in Seq(Field) /\ Tail(v) = <<x>> /\ v[1] = tag /\ v = <<tag>> \o Tail(v)
  BY <1>2, <1>3, Tails, Heads
<1>5. Fits(<<t>>, <<x>>)
  BY FitsSome
<1> QED
  BY <1>1, <1>3, <1>4, <1>5, NullApart DEF Framed

LEMMA FrameTwo ==
  ASSUME NEW k \in 0..255, NEW t \in Types, NEW u \in Types, NEW x \in Exact(t), NEW y \in Exact(u)
  PROVE  Framed(<<<<k>>, x, y>>, k, <<t, u>>)
<1>1. PICK tag \in Field : tag = <<k>>
  BY ExactValues DEF Exact
<1>2. x \in Field /\ y \in Field
  BY DEF Exact
<1>3. PICK v : v = <<tag, x, y>>
  OBVIOUS
<1>4. v \in Seq(Field) /\ Tail(v) = <<x, y>> /\ v[1] = tag /\ v = <<tag>> \o Tail(v)
  BY <1>2, <1>3, Tails, Heads
<1>5. Fits(<<t, u>>, <<x, y>>)
  BY FitsSome
<1> QED
  BY <1>1, <1>3, <1>4, <1>5, NullApart DEF Framed

LEMMA FrameThree ==
  ASSUME NEW k \in 0..255, NEW t \in Types, NEW u \in Types, NEW w \in Types,
         NEW x \in Exact(t), NEW y \in Exact(u), NEW z \in Exact(w)
  PROVE  Framed(<<<<k>>, x, y, z>>, k, <<t, u, w>>)
<1>1. PICK tag \in Field : tag = <<k>>
  BY ExactValues DEF Exact
<1>2. x \in Field /\ y \in Field /\ z \in Field
  BY DEF Exact
<1>3. PICK v : v = <<tag, x, y, z>>
  OBVIOUS
<1>4. v \in Seq(Field) /\ Tail(v) = <<x, y, z>> /\ v[1] = tag /\ v = <<tag>> \o Tail(v)
  BY <1>2, <1>3, Tails, Heads
<1>5. Fits(<<t, u, w>>, <<x, y, z>>)
  BY FitsSome
<1> QED
  BY <1>1, <1>3, <1>4, <1>5, NullApart DEF Framed

LEMMA UiEventFrames ==
  ASSUME NEW v \in UiEvents
  PROVE  \E k \in 0..5 : BridgeEvent(k) = UiEventLayout(k) /\ Framed(v, k, UiEventLayout(k))
<1>0. /\ "u32" \in Types /\ "flag" \in Types /\ "str" \in Types /\ "option" \in Types
      /\ "i64" \in Types
      /\ 0 \in 0..255 /\ 1 \in 0..255 /\ 2 \in 0..255 /\ 3 \in 0..255 /\ 4 \in 0..255
      /\ 5 \in 0..255
  BY DEF Types, Widths
<1>1. /\ UiEventLayout(0) = <<"u32">> /\ UiEventLayout(1) = <<"u32", "flag">>
      /\ UiEventLayout(2) = <<"u32", "str">> /\ UiEventLayout(3) = <<"u32", "option">>
      /\ UiEventLayout(4) = <<"u32", "i64">> /\ UiEventLayout(5) = <<"option", "str">>
  BY DEF UiEventLayout
<1>2. \A k \in 0..5 : BridgeEvent(k) = UiEventLayout(k)
  BY DEF BridgeEvent, UiEventLayout
<1>3. CASE v \in {<<<<0>>, id>> : id \in U32s}
  <2>1. PICK id \in Exact("u32") : v = <<<<0>>, id>>
    BY <1>3, ExactValues
  <2>2. Framed(<<<<0>>, id>>, 0, <<"u32">>)
    BY <1>0, FrameOne
  <2> QED
    BY <1>1, <1>2, <2>1, <2>2
<1>4. CASE v \in {<<<<1>>, id, b>> : id \in U32s, b \in Flags}
  <2>1. PICK id \in Exact("u32"), b \in Exact("flag") : v = <<<<1>>, id, b>>
    BY <1>4, ExactValues, SMT
  <2>2. Framed(<<<<1>>, id, b>>, 1, <<"u32", "flag">>)
    BY <1>0, FrameTwo, Zenon
  <2> QED
    BY <1>1, <1>2, <2>1, <2>2
<1>5. CASE v \in {<<<<2>>, id, s>> : id \in U32s, s \in Texts}
  <2>1. PICK id \in Exact("u32"), b \in Exact("str") : v = <<<<2>>, id, b>>
    BY <1>5, ExactValues, SMT
  <2>2. Framed(<<<<2>>, id, b>>, 2, <<"u32", "str">>)
    BY <1>0, FrameTwo, Zenon
  <2> QED
    BY <1>1, <1>2, <2>1, <2>2
<1>6. CASE v \in {<<<<3>>, id, o>> : id \in U32s, o \in Options}
  <2>1. PICK id \in Exact("u32"), b \in Exact("option") : v = <<<<3>>, id, b>>
    BY <1>6, ExactValues, SMT
  <2>2. Framed(<<<<3>>, id, b>>, 3, <<"u32", "option">>)
    BY <1>0, FrameTwo, Zenon
  <2> QED
    BY <1>1, <1>2, <2>1, <2>2
<1>7. CASE v \in {<<<<4>>, id, n>> : id \in U32s, n \in I64s}
  <2>1. PICK id \in Exact("u32"), b \in Exact("i64") : v = <<<<4>>, id, b>>
    BY <1>7, ExactValues, SMT
  <2>2. Framed(<<<<4>>, id, b>>, 4, <<"u32", "i64">>)
    BY <1>0, FrameTwo, Zenon
  <2> QED
    BY <1>1, <1>2, <2>1, <2>2
<1>8. CASE v \in {<<<<5>>, o, s>> : o \in Options, s \in Texts}
  <2>1. PICK id \in Exact("option"), b \in Exact("str") : v = <<<<5>>, id, b>>
    BY <1>8, ExactValues, SMT
  <2>2. Framed(<<<<5>>, id, b>>, 5, <<"option", "str">>)
    BY <1>0, FrameTwo, Zenon
  <2> QED
    BY <1>1, <1>2, <2>1, <2>2
<1> QED
  BY <1>3, <1>4, <1>5, <1>6, <1>7, <1>8 DEF UiEvents

(* The tag, and the cursor behind it. *)
LEMMA TagRead ==
  ASSUME NEW k \in 0..255, NEW e \in Seq(Byte), NEW p, p = <<k>> \o e
  PROVE  p \in Seq(Byte) /\ Take(Cursor(p), 1) = At(e, <<k>>)
<1>1. PICK tag \in Word(1) : tag = <<k>>
  BY ExactValues DEF Exact, Writable, Width
<1>2. Joins(p, tag, e) /\ <<>> \in Seq(Byte)
  BY <1>1 DEF Joins
<1>3. p \in Seq(Byte)
  BY <1>2, Joined DEF Word
<1>4. Joins(p, p, <<>>)
  BY <1>3, Alone
<1>5. PICK r \in Seq(Byte) : r = <<>>
  BY <1>2
<1>6. \A g : \E t \in Seq(Byte) : Joins(t, e, r) /\ Take(At(p, g), 1) = At(t, tag)
  <2>1. Joins(p, p, r)
    BY <1>4, <1>5
  <2> QED
    BY <1>2, <2>1, Tagged
<1>7. PICK t \in Seq(Byte) : Joins(t, e, r) /\ Take(At(p, <<>>), 1) = At(t, tag)
  BY <1>6
<1>8. t = e
  BY <1>5, <1>7 DEF Joins
<1> QED
  BY <1>1, <1>3, <1>7, <1>8 DEF Cursor, At

LEMMA UiEventIntact ==
  ASSUME NEW e \in Events, e.kind = 11
  PROVE  Arrives(e)
<1>1. PICK v \in UiEvents : v = e.value
  BY EventParts
<1>2. PICK k \in 0..5 : BridgeEvent(k) = UiEventLayout(k) /\ Framed(v, k, UiEventLayout(k))
  BY UiEventFrames
<1>3. PICK layout, f : layout = UiEventLayout(k) /\ f = Tail(v)
  OBVIOUS
<1>4. v[1] = <<k>> /\ Fits(layout, f) /\ v = <<<<k>>>> \o f /\ v # Null
  BY <1>2, <1>3 DEF Framed
<1>5. layout \in Seq(Types) /\ Written(layout, layout, f) /\ Readables(layout, f) = f
  BY <1>4, FitsRead
<1>6. PICK w \in Seq(Byte) : w = PutFields(layout, f)
  BY <1>5, RecordWhole
<1>7. ReadFields(At(w, <<k>>), layout) = At(<<>>, f)
  <2>1. Joins(w, w, <<>>) /\ <<>> \in Seq(Byte)
    BY Alone
  <2>2. PICK r \in Seq(Byte) : r = <<>>
    BY <2>1
  <2>3. Joins(w, PutFields(layout, f), r)
    BY <1>6, <2>1, <2>2
  <2>4. \A g : ReadFields(At(w, g), layout) = At(r, Readables(layout, f))
    BY <1>5, <2>3, FieldsRead
  <2> QED
    BY <1>5, <2>2, <2>4
<1>8. PICK p : p = <<k>> \o w
  OBVIOUS
<1>9. WriteEvent(e) = p
  <2>1. WriteEvent(e) = e.value[1] \o PutFields(BridgeEvent(e.value[1][1]), Tail(e.value))
    <3>1. e.kind \notin {2, 3} /\ e.kind # 6 /\ e.kind = 11
      OBVIOUS
    <3> QED
      BY <3>1, Zenon DEF WriteEvent
  <2>2. WriteEvent(e) = v[1] \o PutFields(BridgeEvent(v[1][1]), f)
    BY <1>1, <1>3, <2>1
  <2>3. v[1][1] = k
    BY <1>4
  <2> QED
    BY <1>2, <1>3, <1>4, <1>6, <1>8, <2>2, <2>3
<1>10. p \in Seq(Byte) /\ Take(Cursor(p), 1) = At(w, <<k>>)
  <2>1. k \in 0..255
    OBVIOUS
  <2> QED
    BY <1>8, <2>1, TagRead, Zenon
<1>11. UiEvent(Cursor(p)) = At(<<>>, v)
  <2>1. PICK c : c = At(w, <<k>>)
    OBVIOUS
  <2>2. c.ok /\ c.got = <<k>> /\ c.got[1] = k
    BY <2>1, Standing
  <2>3. c.got \in {<<x>> : x \in 0..5}
    BY <2>2
  <2>4. PICK d : d = At(<<>>, f)
    OBVIOUS
  <2>5. d.ok /\ d.rest = <<>> /\ d.got = f /\ Read(d, v) = At(<<>>, v)
    BY <2>4, Standing
  <2>6. ReadFields(c, UiEventLayout(c.got[1])) = d
    BY <1>3, <1>7, <2>1, <2>2, <2>4
  <2>7. UiEvent(Cursor(p)) =
          IF c.ok
          THEN IF c.got \notin {<<x>> : x \in 0..5} THEN Refused
               ELSE IF ReadFields(c, UiEventLayout(c.got[1])).ok
               THEN IF ReadFields(c, UiEventLayout(c.got[1])).rest # <<>> THEN Refused
                    ELSE Read(ReadFields(c, UiEventLayout(c.got[1])),
                              <<c.got>> \o ReadFields(c, UiEventLayout(c.got[1])).got)
               ELSE Refused
          ELSE Refused
    BY <1>10, <2>1 DEF UiEvent, Then
  <2>8. UiEvent(Cursor(p)) = Read(d, <<c.got>> \o d.got)
    BY <2>2, <2>3, <2>5, <2>6, <2>7
  <2>9. <<c.got>> \o d.got = v
    BY <1>4, <2>2, <2>5
  <2> QED
    BY <2>5, <2>8, <2>9
<1>14. EventRead(e.kind, Cursor(p)) = At(<<>>, v)
  <2>1. PICK c : c = At(w, <<k>>)
    OBVIOUS
  <2>2. c.ok /\ c.got = <<k>> /\ c.got[1] = k
    BY <2>1, Standing
  <2>3. c.got \in {<<x>> : x \in 0..5}
    BY <2>2
  <2>4. PICK d : d = At(<<>>, f)
    OBVIOUS
  <2>5. d.ok /\ d.got = f /\ Read(d, v) = At(<<>>, v)
    BY <2>4, Standing
  <2>6. ReadFields(c, UiEventLayout(c.got[1])) = d
    BY <1>3, <1>7, <2>1, <2>2, <2>4
  <2>7. UiEventOpenEnded(Cursor(p)) =
          IF c.ok
          THEN IF c.got \notin {<<x>> : x \in 0..5} THEN Refused
               ELSE IF ReadFields(c, UiEventLayout(c.got[1])).ok
               THEN Read(ReadFields(c, UiEventLayout(c.got[1])),
                         <<c.got>> \o ReadFields(c, UiEventLayout(c.got[1])).got)
               ELSE Refused
          ELSE Refused
    BY <1>10, <2>1 DEF UiEventOpenEnded, Then
  <2>8. UiEventOpenEnded(Cursor(p)) = Read(d, <<c.got>> \o d.got)
    BY <2>2, <2>3, <2>5, <2>6, <2>7
  <2>9. <<c.got>> \o d.got = v
    BY <1>4, <2>2, <2>5
  <2>10. \A c0 : EventRead(e.kind, c0) = UiEventOpenEnded(c0)
    BY DEF EventRead
  <2> QED
    BY <2>5, <2>8, <2>9, <2>10
<1>12. Decode(e.kind, p) = Result(UiEvent(Cursor(p)))
  BY DEF Decode, EventKind
<1>13. Delivered(e) = [ok |-> TRUE, value |-> v]
  BY <1>1, <1>4 DEF Delivered
<1> QED
  BY <1>9, <1>10, <1>11, <1>12, <1>13, <1>14, Arrived DEF Arrives

LEMMA AllArrive ==
  ASSUME NEW e \in Events
  PROVE  Arrives(e)
<1>1. e.kind \in 0..11
  BY EventParts DEF EventKind
<1>2. \/ e.kind \in {0, 1} \/ e.kind \in {2, 3} \/ e.kind = 4 \/ e.kind = 5 \/ e.kind = 6
      \/ e.kind = 7 \/ e.kind = 8 \/ e.kind = 9 \/ e.kind = 10 \/ e.kind = 11
  BY <1>1
<1> QED
  BY <1>2, NetworkIntact, CombatantIntact, PrimaryPlayerIntact, ZoneIntact, PlayerIntact,
     PartyIntact, LogLineIntact, ParsedLogLineIntact, ProcessIntact, UiEventIntact

(* For every event: what Send, or Emit for the tab, wrote, Event::decode     *)
(* (api.rs:333) reads field by field as it was given; a null string arrives *)
(* empty, and a null record is refused.                                     *)
THEOREM EventsRead ==
  ASSUME NEW e \in Events
  PROVE  WriteEvent(e) \in Seq(Byte) /\ Decode(e.kind, WriteEvent(e)) = Delivered(e)
BY AllArrive DEF Arrives

-------------------------------------------------------------------------------
(* Commands.                                                                *)
(* The reader of the shim refuses a list that is too long, or reads what the plugin's reads. *)
BridgeStep(d, t) == Collect(d, IF t = "strs" THEN BridgeStrings(d) ELSE ReadField(d, t))
BridgeFolds == INSTANCE FoldLemmas WITH Op <- BridgeStep

LEMMA BridgeFold ==
  ASSUME NEW c, NEW layout
  PROVE  BridgeFields(c, layout) = BridgeFolds!Fold(Read(c, <<>>), layout)
BY DEF BridgeFields, BridgeFolds!Fold, BridgeStep, FoldLeft, BridgeFolds!FoldLeft, MapThenFoldSet,
       BridgeFolds!MapThenFoldSet, Max, BridgeFolds!Max

LEMMA RefusedReads ==
  /\ \A n : Take(Refused, n) = Refused
  /\ \A v : Read(Refused, v) = Refused
  /\ Bytes(Refused) = Refused /\ Str(Refused) = Refused /\ ReadWord(Refused) = Refused
  /\ ReadList(Refused, Str) = Refused /\ ReadList(Refused, ReadWord) = Refused
  /\ ReadFlag(Refused) = Refused /\ ReadBool(Refused) = Refused /\ ReadOption(Refused) = Refused
  /\ \A layout : Nullable(Refused, layout) = Refused
  /\ \A t \in Types : ReadField(Refused, t) = Refused
<1>1. Refused.ok = FALSE
  BY DEF Refused
<1>2. \A n : Take(Refused, n) = Refused
  BY <1>1 DEF Take
<1>3. \A v : Read(Refused, v) = Refused
  BY <1>1 DEF Read
<1>4. Bytes(Refused) = Refused /\ ReadWord(Refused) = Refused
  BY <1>1, <1>2 DEF Bytes, Then, ReadWord
<1>5. Str(Refused) = Refused
  BY <1>1, <1>4 DEF Str, Then
<1>6. ReadList(Refused, ReadWord) = Refused /\ ReadList(Refused, Str) = Refused
  BY <1>1, <1>2, WordsUnfold, StrsUnfold
<1>7. ReadFlag(Refused) = Refused /\ ReadBool(Refused) = Refused
  BY <1>1, <1>2 DEF ReadFlag, ReadBool, Then
<1>8. ReadOption(Refused) = Refused
  BY <1>1, <1>7 DEF ReadOption, Then
<1>9. \A layout : Nullable(Refused, layout) = Refused
  BY <1>1, <1>2 DEF Nullable
<1>10. ASSUME NEW t \in Types PROVE ReadField(Refused, t) = Refused
  <2>1. CASE t = "str"
    BY <1>5, <2>1 DEF ReadField
  <2>2. CASE t = "bytes"
    BY <1>4, <2>2 DEF ReadField
  <2>3. CASE t = "u32s"
    BY <1>6, <2>3 DEF ReadField
  <2>4. CASE t = "option"
    BY <1>8, <2>4 DEF ReadField
  <2>5. CASE t = "flag"
    BY <1>7, <2>5 DEF ReadField
  <2>6. CASE t = "bool"
    BY <1>7, <2>6 DEF ReadField
  <2>7. CASE t = "strs"
    BY <1>6, <2>7 DEF ReadField
  <2>8. CASE t \notin {"str", "bytes", "strs", "u32s", "option", "flag", "bool"}
    <3>1. ReadField(Refused, t) = Take(Refused, Width(t))
      BY <2>8 DEF ReadField
    <3> QED
      BY <1>2, <3>1
  <2> QED
    BY <2>1, <2>2, <2>3, <2>4, <2>5, <2>6, <2>7, <2>8
<1> QED
  BY <1>2, <1>3, <1>4, <1>5, <1>6, <1>7, <1>8, <1>9, <1>10

LEMMA RefusedStays ==
  ASSUME NEW t \in Types
  PROVE  BridgeStep(Refused, t) = Refused
<1>1. Refused.ok = FALSE
  BY DEF Refused
<1>2. BridgeStrings(Refused) = Refused
  BY <1>1, RefusedReads DEF BridgeStrings, Then
<1>3. Collect(Refused, Refused) = Refused
  BY RefusedReads DEF Collect
<1> QED
  BY <1>2, <1>3, RefusedReads DEF BridgeStep

LEMMA StepOrRefused ==
  ASSUME NEW x, NEW h, NEW t
  PROVE  BridgeStep(At(x, h), t) \in {FieldStep(At(x, h), t), Refused}
<1>1. PICK c : c = At(x, h)
  OBVIOUS
<1>2. CASE t # "strs"
  BY <1>1, <1>2 DEF BridgeStep, FieldStep
<1>3. CASE t = "strs"
  <2>1. ReadField(c, t) = ReadList(c, Str)
    BY <1>3 DEF ReadField
  <2>2. BridgeStrings(c) = IF Take(c, 4).ok
                           THEN IF Number(Take(c, 4).got) > MaxItems THEN Refused ELSE ReadList(c, Str)
                           ELSE Refused
    BY DEF BridgeStrings, Then
  <2>3. BridgeStrings(c) = ReadField(c, t) \/ BridgeStrings(c) = Refused
    BY <2>1, <2>2
  <2>4. Collect(c, Refused) = Refused
    BY DEF Collect, Read, Refused
  <2>5. BridgeStep(c, t) = Collect(c, BridgeStrings(c))
    BY <1>3 DEF BridgeStep
  <2> QED
    BY <1>1, <2>3, <2>4, <2>5 DEF FieldStep
<1> QED
  BY <1>2, <1>3

(* The cursors of a record that fits its layout. *)
LEMMA FieldsRun ==
  ASSUME NEW layout, NEW f, Fits(layout, f),
         NEW r \in Seq(Byte), NEW q, Joins(q, PutFields(layout, f), r)
  PROVE  \E h : /\ h[0] = At(q, <<>>) /\ h[Len(layout)] = At(r, f)
                /\ \A m \in 0..(Len(layout) - 1) :
                     (\E x, g : h[m] = At(x, g)) /\ h[m + 1] = FieldStep(h[m], layout[m + 1])
<1> DEFINE n == Len(layout)
           p == [i \in DOMAIN layout |-> PutField(layout[i], f[i])]
<1>1. /\ layout \in Seq(Types) /\ f \in Seq(Field) /\ Len(f) = n
      /\ \A i \in 1..n : f[i] \in Exact(layout[i])
  BY DEF Fits
<1>2. n \in Nat /\ DOMAIN layout = 1..n
  BY <1>1
<1>3. ASSUME NEW i \in 1..n
      PROVE  /\ layout[i] \in Types /\ f[i] \in Writable(layout[i])
             /\ Readable(layout[i], f[i]) = f[i]
             /\ p[i] = PutField(layout[i], f[i]) /\ p[i] \in Seq(Byte)
  <2>1. layout[i] \in Types /\ f[i] \in Writable(layout[i]) /\ Readable(layout[i], f[i]) = f[i]
    BY <1>1, <1>2 DEF Exact
  <2> QED
    BY <1>2, <2>1, FieldWhole
<1>4. p \in Seq(Seq(Byte)) /\ Len(p) = n
  <2>1. p = [i \in 1..n |-> p[i]]
    BY <1>2
  <2> HIDE DEF p
  <2>2. p \in [1..n -> Seq(Byte)]
    BY <1>3, <2>1
  <2> HIDE DEF n
  <2> QED
    BY <1>2, <2>2, Bounded
<1>5. PutFields(layout, f) = FlattenSeq(p)
  BY DEF PutFields
<1> HIDE DEF p
<1>6. PICK h : Follows(h, p, f, q, r)
  <2>1. Joins(q, FlattenSeq(p), r)
    BY <1>5
  <2>2. Len(f) = Len(p)
    BY <1>1, <1>4
  <2>3. f \in Seq(Field)
    BY <1>1
  <2> HIDE DEF n
  <2> QED
    BY <1>4, <2>1, <2>2, <2>3, Chain
<1>7. ASSUME NEW m \in 0..(n - 1)
      PROVE  (\E x, g : h[m] = At(x, g)) /\ h[m + 1] = FieldStep(h[m], layout[m + 1])
  <2>1. m + 1 \in 1..n
    BY <1>2
  <2>2. Passes(h, p, f, m)
    BY <1>4, <1>6 DEF Follows
  <2> HIDE DEF n
  <2>3. PICK x, y, g : /\ y \in Seq(Byte) /\ Joins(x, p[m + 1], y)
                       /\ h[m] = At(x, g) /\ h[m + 1] = Collect(At(x, g), At(y, f[m + 1]))
    BY <2>2 DEF Passes
  <2>4. PICK t \in Types : t = layout[m + 1]
    BY <1>3, <2>1
  <2>5. PICK e \in Writable(t) : e = f[m + 1]
    BY <1>3, <2>1, <2>4
  <2>6. p[m + 1] = PutField(t, e) /\ Readable(t, e) = e
    BY <1>3, <2>1, <2>4, <2>5
  <2>7. ReadField(At(x, g), t) = At(y, Readable(t, e))
    BY <2>3, <2>6, FieldRead
  <2>8. h[m + 1] = FieldStep(h[m], layout[m + 1])
    BY <2>3, <2>4, <2>5, <2>6, <2>7 DEF FieldStep
  <2> QED
    BY <2>3, <2>8
<1>8. h[0] = At(q, <<>>) /\ h[n] = At(r, f)
  BY <1>4, <1>6 DEF Follows
<1> QED
  BY <1>7, <1>8

LEMMA BridgeRead ==
  ASSUME NEW layout, NEW f, Fits(layout, f),
         NEW r \in Seq(Byte), NEW q, Joins(q, PutFields(layout, f), r), NEW g
  PROVE  BridgeFields(At(q, g), layout) \in {At(r, f), Refused}
<1> DEFINE n == Len(layout)
<1>1. layout \in Seq(Types)
  BY DEF Fits
<1>2. n \in Nat
  BY <1>1
<1>3. PICK h : /\ h[0] = At(q, <<>>) /\ h[Len(layout)] = At(r, f)
               /\ \A m \in 0..(Len(layout) - 1) :
                    (\E x, k : h[m] = At(x, k)) /\ h[m + 1] = FieldStep(h[m], layout[m + 1])
  BY FieldsRun
<1>4. BridgeFields(At(q, g), layout) = BridgeFolds!Fold(At(q, <<>>), layout)
  BY BridgeFold, Standing
<1>5. PICK d : BridgeFolds!Runs(d, At(q, <<>>), layout)
  BY <1>1, BridgeFolds!FoldRuns
<1>6. /\ d[0] = At(q, <<>>) /\ d[n] = BridgeFolds!Fold(At(q, <<>>), layout)
      /\ \A m \in 0..(n - 1) : d[m + 1] = BridgeStep(d[m], layout[m + 1])
  BY <1>5 DEF BridgeFolds!Runs
<1> DEFINE T == {m \in 0..n : d[m] \in {h[m], Refused}}
<1>7. 0 \in T
  BY <1>2, <1>3, <1>6
<1>8. ASSUME NEW m \in 0..(n - 1), m \in T PROVE m + 1 \in T
  <2>1. m + 1 \in 1..n /\ m + 1 \in 0..n
    BY <1>2
  <2>2. PICK t \in Types : t = layout[m + 1]
    BY <1>1, <2>1
  <2>3. d[m + 1] = BridgeStep(d[m], t)
    BY <1>6, <2>2
  <2>4. PICK x, k : h[m] = At(x, k)
    BY <1>3
  <2>5. h[m + 1] = FieldStep(At(x, k), t)
    BY <1>3, <2>2, <2>4
  <2>6. d[m] = At(x, k) \/ d[m] = Refused
    BY <1>8, <2>4
  <2>7. d[m + 1] \in {h[m + 1], Refused}
    BY <2>3, <2>5, <2>6, StepOrRefused, RefusedStays
  <2> QED
    BY <2>1, <2>7
<1> HIDE DEF T
<1>9. \A m \in 0..n : m \in T
  <2> HIDE DEF n
  <2> QED
    BY <1>2, <1>7, <1>8, NumFolds!Induction
<1>10. d[n] \in {h[n], Refused}
  BY <1>2, <1>9 DEF T
<1> QED
  BY <1>3, <1>4, <1>6, <1>10

(* The bytes of two records in a row. *)
LEMMA PutFieldsJoins ==
  ASSUME NEW a, NEW f, Fits(a, f), NEW b, NEW g, Fits(b, g), NEW c, Joins(c, a, b),
         NEW h, Joins(h, f, g)
  PROVE  /\ PutFields(a, f) \in Seq(Byte) /\ PutFields(b, g) \in Seq(Byte)
         /\ Joins(PutFields(c, h), PutFields(a, f), PutFields(b, g))
<1> DEFINE P(l, v) == [i \in DOMAIN l |-> PutField(l[i], v[i])]
<1>1. ASSUME NEW l, NEW v, Fits(l, v)
      PROVE  P(l, v) \in Seq(Seq(Byte)) /\ Len(P(l, v)) = Len(l)
  <2>1. l \in Seq(Types) /\ \A i \in 1..Len(l) : v[i] \in Exact(l[i])
    BY <1>1 DEF Fits
  <2>2. PICK n \in Nat : n = Len(l) /\ DOMAIN l = 1..n
    BY <2>1
  <2>3. ASSUME NEW i \in 1..n PROVE PutField(l[i], v[i]) \in Seq(Byte)
    <3>1. l[i] \in Types /\ v[i] \in Writable(l[i])
      BY <2>1, <2>2 DEF Exact
    <3> QED
      BY <3>1, FieldWhole
  <2>4. P(l, v) \in [1..n -> Seq(Byte)]
    BY <2>2, <2>3
  <2> HIDE DEF P
  <2> QED
    BY <2>2, <2>4, Bounded
<1>2. PICK k \in Nat, l \in Nat :
        /\ k = Len(a) /\ l = Len(b) /\ DOMAIN a = 1..k /\ DOMAIN b = 1..l
        /\ Len(f) = k /\ Len(g) = l
  BY DEF Fits
<1>3. /\ c \in Seq(Types) /\ Len(c) = k + l /\ DOMAIN c = 1..(k + l)
      /\ \A i \in 1..k : c[i] = a[i]
      /\ \A i \in 1..l : c[k + i] = b[i]
  <2>1. a \in Seq(Types) /\ b \in Seq(Types)
    BY DEF Fits
  <2>2. /\ c \in Seq(Types) /\ Len(c) = Len(a) + Len(b)
        /\ \A i \in 1..Len(a) : c[i] = a[i]
        /\ \A i \in 1..Len(b) : c[Len(a) + i] = b[i]
    BY <2>1, JoinedParts
  <2> QED
    BY <1>2, <2>2
<1>4. /\ \A i \in 1..k : h[i] = f[i]
      /\ \A i \in 1..l : h[k + i] = g[i]
  <2>1. f \in Seq(Field) /\ g \in Seq(Field)
    BY DEF Fits
  <2>2. /\ \A i \in 1..Len(f) : h[i] = f[i]
        /\ \A i \in 1..Len(g) : h[Len(f) + i] = g[i]
    BY <2>1, JoinedParts
  <2> QED
    BY <1>2, <2>2
<1>5. Fits(c, h)
  BY FitsJoins
<1>6. PICK x \in Seq(Seq(Byte)), y \in Seq(Seq(Byte)), z \in Seq(Seq(Byte)) :
        /\ x = P(a, f) /\ y = P(b, g) /\ z = P(c, h)
        /\ Len(x) = k /\ Len(y) = l /\ Len(z) = k + l
  <2> HIDE DEF P
  <2> QED
    BY <1>1, <1>2, <1>3, <1>5
<1>7. /\ \A i \in 1..k : z[i] = x[i]
      /\ \A i \in 1..l : z[k + i] = y[i]
  <2>1. ASSUME NEW i \in 1..k PROVE z[i] = x[i]
    <3>1. i \in 1..(k + l)
      OBVIOUS
    <3> QED
      BY <1>2, <1>3, <1>4, <1>6, <3>1
  <2>2. ASSUME NEW i \in 1..l PROVE z[k + i] = y[i]
    <3>1. k + i \in 1..(k + l)
      OBVIOUS
    <3> QED
      BY <1>2, <1>3, <1>4, <1>6, <3>1
  <2> QED
    BY <2>1, <2>2
<1> HIDE DEF P
<1>8. Joins(z, x, y)
  <2>1. PICK u : u = x \o y
    OBVIOUS
  <2>2. Joins(u, x, y)
    BY <2>1 DEF Joins
  <2>3. /\ u \in Seq(Seq(Byte)) /\ Len(u) = k + l
        /\ \A i \in 1..k : u[i] = x[i]
        /\ \A i \in 1..l : u[k + i] = y[i]
    <3>1. /\ u \in Seq(Seq(Byte)) /\ Len(u) = Len(x) + Len(y)
          /\ \A i \in 1..Len(x) : u[i] = x[i]
          /\ \A i \in 1..Len(y) : u[Len(x) + i] = y[i]
      BY <2>2, JoinedParts
    <3> QED
      BY <1>6, <3>1
  <2>4. ASSUME NEW i \in 1..(k + l) PROVE z[i] = u[i]
    <3>1. CASE i <= k
      <4>1. i \in 1..k
        BY <3>1
      <4> QED
        BY <1>7, <2>3, <4>1
    <3>2. CASE i > k
      <4>1. i - k \in 1..l /\ k + (i - k) = i
        BY <3>2
      <4>2. PICK j \in 1..l : k + j = i
        BY <4>1
      <4>3. z[k + j] = y[j] /\ u[k + j] = y[j]
        BY <1>7, <2>3
      <4> QED
        BY <4>2, <4>3
    <3> QED
      BY <3>1, <3>2
  <2>5. Len(z) = Len(u)
    BY <1>6, <2>3
  <2>6. \A i \in 1..Len(z) : z[i] = u[i]
    BY <1>6, <2>4
  <2>7. z = u
    BY <2>3, <2>5, <2>6, SeqEqual
  <2> QED
    BY <2>2, <2>7
<1>9. /\ FlattenSeq(x) \in Seq(Byte) /\ FlattenSeq(y) \in Seq(Byte)
      /\ Joins(FlattenSeq(z), FlattenSeq(x), FlattenSeq(y))
  BY <1>8, FlattenJoins
<1>10. /\ PutFields(a, f) = FlattenSeq(x) /\ PutFields(b, g) = FlattenSeq(y)
       /\ PutFields(c, h) = FlattenSeq(z)
  BY <1>6 DEF PutFields, P
<1> QED
  BY <1>9, <1>10

(* Behind its tag k the command's fields f are read, or the reader refuses. *)
Parsed(p, w, k, f, v) ==
  /\ Take(Cursor(p), 1) = At(w, <<k>>)
  /\ (IF k = 0 THEN BridgeAdd(At(w, <<k>>)) ELSE BridgeFields(At(w, <<k>>), BridgeCommand(k)))
       \in {At(<<>>, f), Refused}
  /\ v = <<<<k>>>> \o f

(* Command.Decode behind the tag. *)
LEMMA Decoded ==
  ASSUME NEW p, NEW w, NEW k \in 0..10, NEW f, NEW v, Parsed(p, w, k, f, v), CommandDecode(p).ok
  PROVE  CommandDecode(p) = [ok |-> TRUE, value |-> v] /\ CommandValid(v)
<1>1. PICK c : c = At(w, <<k>>)
  OBVIOUS
<1>2. c.ok /\ c.got = <<k>> /\ c.got[1] = k
  BY <1>1, Standing
<1>3. c.got \in {<<i>> : i \in 0..10} /\ (c.got = <<0>> <=> k = 0)
  BY <1>2
<1>4. PICK b : b = IF c.got = <<0>> THEN BridgeAdd(c) ELSE BridgeFields(c, BridgeCommand(c.got[1]))
  OBVIOUS
<1>0. /\ Take(Cursor(p), 1) = At(w, <<k>>)
      /\ (IF k = 0 THEN BridgeAdd(At(w, <<k>>)) ELSE BridgeFields(At(w, <<k>>), BridgeCommand(k)))
           \in {At(<<>>, f), Refused}
      /\ v = <<<<k>>>> \o f
  BY DEF Parsed
<1>5. b = At(<<>>, f) \/ b = Refused
  BY <1>0, <1>1, <1>2, <1>3, <1>4
<1>6. CommandDecode(p) =
        Result(IF c.ok
               THEN IF c.got \notin {<<i>> : i \in 0..10} THEN Refused
                    ELSE IF b.ok
                    THEN IF b.rest # <<>> \/ ~CommandValid(<<c.got>> \o b.got) THEN Refused
                         ELSE Read(b, <<c.got>> \o b.got)
                    ELSE Refused
               ELSE Refused)
  BY <1>0, <1>1, <1>4, SMT DEF CommandDecode, Then
<1>7. ~Result(Refused).ok /\ ~Refused.ok
  BY DEF Result, Refused
<1>8. b = At(<<>>, f)
  BY <1>2, <1>3, <1>5, <1>6, <1>7
<1>9. b.ok /\ b.rest = <<>> /\ b.got = f /\ Read(b, v) = At(<<>>, v)
  BY <1>8, Standing
<1>10. <<c.got>> \o b.got = v
  BY <1>0, <1>2, <1>9
<1>11. CommandDecode(p) = Result(IF ~CommandValid(v) THEN Refused ELSE At(<<>>, v))
  BY <1>2, <1>3, <1>6, <1>9, <1>10
<1>12. CommandValid(v)
  BY <1>7, <1>11
<1> QED
  BY <1>11, <1>12, Arrived

LEMMA FitsFour ==
  ASSUME NEW t \in Types, NEW a \in Exact(t), NEW b \in Exact(t), NEW c \in Exact(t), NEW d \in Exact(t)
  PROVE  Fits(<<t, t, t, t>>, <<a, b, c, d>>)
<1>1. Exact(t) \subseteq Field
  BY DEF Exact
<1> QED
  BY <1>1 DEF Fits

(* The parts of a control, under its kind. *)
LEMMA ControlParts ==
  ASSUME NEW v \in ControlValues
  PROVE  \E k \in 0..8, id \in U32s, f \in Seq(Field) :
           /\ v = Behind(<<<<k>>, id>>, f)
           /\ ControlLayout(k) = BridgeControl(k) /\ Fits(BridgeControl(k), f)
<1>1. PICK k \in 0..8 : v \in Controls(k)
  BY DEF ControlValues
<1>2. /\ ControlFields(0) = {<<>>} /\ ControlFields(1) = {<<>>}
      /\ ControlFields(2) = {<<s>> : s \in Texts} /\ ControlFields(3) = {<<s>> : s \in Texts}
      /\ ControlFields(5) = {<<s>> : s \in Texts}
      /\ ControlFields(4) = Texts \X Flags /\ ControlFields(6) = Lists(Texts) \X Options
      /\ ControlFields(7) = I64s \X I64s \X I64s \X I64s
      /\ ControlFields(8) = {<<n>> : n \in U32s}
  BY DEF ControlFields
<1>3. PICK id \in U32s, f \in ControlFields(k) : v = Behind(<<<<k>>, id>>, f)
  BY <1>1 DEF Controls
<1>4. /\ BridgeControl(0) = <<>> /\ BridgeControl(1) = <<>>
      /\ BridgeControl(2) = <<"str">> /\ BridgeControl(3) = <<"str">>
      /\ BridgeControl(4) = <<"str", "flag">> /\ BridgeControl(5) = <<"str">>
      /\ BridgeControl(6) = <<"strs", "option">>
      /\ BridgeControl(7) = <<"i64", "i64", "i64", "i64">> /\ BridgeControl(8) = <<"u32">>
  BY DEF BridgeControl
<1>5. /\ ControlLayout(0) = <<>> /\ ControlLayout(1) = <<>>
      /\ ControlLayout(2) = <<"str">> /\ ControlLayout(3) = <<"str">>
      /\ ControlLayout(4) = <<"str", "flag">> /\ ControlLayout(5) = <<"str">>
      /\ ControlLayout(6) = <<"strs", "option">>
      /\ ControlLayout(7) = <<"i64", "i64", "i64", "i64">> /\ ControlLayout(8) = <<"u32">>
  BY DEF ControlLayout
<1>6. k = 0 \/ k = 1 \/ k = 2 \/ k = 3 \/ k = 4 \/ k = 5 \/ k = 6 \/ k = 7 \/ k = 8
  OBVIOUS
<1>7. ControlLayout(k) = BridgeControl(k)
  BY <1>4, <1>5, <1>6
<1>0. /\ "u32" \in Types /\ "flag" \in Types /\ "str" \in Types /\ "option" \in Types
      /\ "i64" \in Types /\ "strs" \in Types
  BY DEF Types, Widths
<1>8. Fits(BridgeControl(k), f)
  <2>1. CASE k = 0 \/ k = 1
    <3>1. f = <<>> /\ BridgeControl(k) = <<>>
      BY <1>2, <1>3, <1>4, <2>1
    <3> QED
      BY <3>1, FitsSome
  <2>2. CASE k = 2 \/ k = 3 \/ k = 5
    <3>0. f \in {<<s>> : s \in Texts}
      <4>1. CASE k = 2
        BY <1>2, <1>3, <4>1
      <4>2. CASE k = 3
        BY <1>2, <1>3, <4>2
      <4>3. CASE k = 5
        BY <1>2, <1>3, <4>3
      <4> QED
        BY <2>2, <4>1, <4>2, <4>3
    <3>4. PICK s \in Texts : f = <<s>>
      BY <3>0
    <3>1. s \in Exact("str")
      BY <3>4, ExactValues
    <3>2. BridgeControl(k) = <<"str">>
      BY <1>4, <2>2
    <3>3. Fits(<<"str">>, <<s>>)
      BY <1>0, <3>1, FitsSome
    <3> QED
      BY <3>2, <3>3, <3>4
  <2>3. CASE k = 4
    <3>1. f \in Texts \X Flags
      BY <1>2, <1>3, <2>3
    <3>2. PICK s \in Exact("str"), b \in Exact("flag") : f = <<s, b>>
      BY <3>1, ExactValues, SMT
    <3>3. Fits(<<"str", "flag">>, <<s, b>>)
      BY <1>0, FitsSome
    <3> QED
      BY <1>4, <2>3, <3>2, <3>3
  <2>4. CASE k = 6
    <3>1. f \in Lists(Texts) \X Options
      BY <1>2, <1>3, <2>4
    <3>2. PICK s \in Exact("strs"), b \in Exact("option") : f = <<s, b>>
      BY <3>1, ExactValues, SMT
    <3>3. Fits(<<"strs", "option">>, <<s, b>>)
      BY <1>0, FitsSome
    <3> QED
      BY <1>4, <2>4, <3>2, <3>3
  <2>5. CASE k = 7
    <3>1. f \in I64s \X I64s \X I64s \X I64s
      BY <1>2, <1>3, <2>5
    <3>2. PICK a \in Exact("i64"), b \in Exact("i64"), c \in Exact("i64"), d \in Exact("i64") :
            f = <<a, b, c, d>>
      BY <3>1, ExactValues, SMT
    <3>3. Fits(<<"i64", "i64", "i64", "i64">>, <<a, b, c, d>>)
      BY <1>0, FitsFour
    <3> QED
      BY <1>4, <2>5, <3>2, <3>3
  <2>6. CASE k = 8
    <3>0. f \in {<<n>> : n \in U32s}
      BY <1>2, <1>3, <2>6
    <3>1. PICK n \in Exact("u32") : f = <<n>>
      BY <3>0, ExactValues
    <3>2. Fits(<<"u32">>, <<n>>)
      BY <1>0, FitsSome
    <3> QED
      BY <1>4, <2>6, <3>1, <3>2
  <2> QED
    BY <1>6, <2>1, <2>2, <2>3, <2>4, <2>5, <2>6
<1>9. f \in Seq(Field)
  BY <1>8 DEF Fits
<1> QED
  BY <1>3, <1>7, <1>8, <1>9

(* The commands that add no control, under their tags. *)
LEMMA CommandFrames ==
  ASSUME NEW v \in UiCommands
  PROVE  \/ \E parent \in Options, control \in ControlValues : v = Behind(<<<<0>>, parent>>, control)
         \/ \E k \in 1..10 : CommandLayout(v) = BridgeCommand(k) /\ Framed(v, k, BridgeCommand(k))
<1>0. /\ "u32" \in Types /\ "flag" \in Types /\ "str" \in Types /\ "option" \in Types
      /\ "i64" \in Types /\ "strs" \in Types
      /\ 1 \in 0..255 /\ 2 \in 0..255 /\ 3 \in 0..255 /\ 4 \in 0..255 /\ 5 \in 0..255
      /\ 6 \in 0..255 /\ 7 \in 0..255 /\ 8 \in 0..255 /\ 9 \in 0..255 /\ 10 \in 0..255
  BY DEF Types, Widths
<1>1. /\ BridgeCommand(1) = <<"u32">> /\ BridgeCommand(2) = <<>>
      /\ BridgeCommand(3) = <<"u32", "str">> /\ BridgeCommand(4) = <<"u32", "flag">>
      /\ BridgeCommand(5) = <<"u32", "flag">> /\ BridgeCommand(6) = <<"u32", "strs", "option">>
      /\ BridgeCommand(7) = <<"u32", "option">> /\ BridgeCommand(8) = <<"u32", "i64">>
      /\ BridgeCommand(9) = <<"u32", "str">> /\ BridgeCommand(10) = <<"u32">>
  BY DEF BridgeCommand
<1>2. ASSUME NEW k \in 1..10, v[1] = <<k>> PROVE CommandLayout(v) = BridgeCommand(k)
  <2>1. v[1] # <<0>> /\ v[1][1] = k
    BY <1>2
  <2> DEFINE L == << <<"u32">>, <<>>, <<"u32", "str">>, <<"u32", "flag">>, <<"u32", "flag">>,
                     <<"u32", "strs", "option">>, <<"u32", "option">>, <<"u32", "i64">>,
                     <<"u32", "str">>, <<"u32">> >>
  <2>2. CommandLayout(v) = L[k]
    BY <2>1 DEF CommandLayout
  <2>3. /\ L[1] = BridgeCommand(1)
        /\ L[2] = BridgeCommand(2)
        /\ L[3] = BridgeCommand(3)
        /\ L[4] = BridgeCommand(4)
        /\ L[5] = BridgeCommand(5)
        /\ L[6] = BridgeCommand(6)
        /\ L[7] = BridgeCommand(7)
        /\ L[8] = BridgeCommand(8)
        /\ L[9] = BridgeCommand(9)
        /\ L[10] = BridgeCommand(10)
    BY <1>1
  <2> HIDE DEF L
  <2>4. k = 1 \/ k = 2 \/ k = 3 \/ k = 4 \/ k = 5 \/ k = 6 \/ k = 7 \/ k = 8 \/ k = 9 \/ k = 10
    OBVIOUS
  <2> QED
    BY <2>2, <2>3, <2>4
<1>3. ASSUME NEW k \in 1..10, Framed(v, k, BridgeCommand(k))
      PROVE  \E i \in 1..10 : CommandLayout(v) = BridgeCommand(i) /\ Framed(v, i, BridgeCommand(i))
  <2>1. v[1] = <<k>>
    BY <1>3 DEF Framed
  <2> QED
    BY <1>2, <1>3, <2>1
<1>4. ASSUME v \in {<<<< 2 >>>>} PROVE Framed(v, 2, BridgeCommand(2))
  BY <1>0, <1>1, <1>4, FrameNone
<1>5. ASSUME NEW x \in U32s, v = <<<< 1 >>, x>> PROVE Framed(v, 1, BridgeCommand(1))
  <2>1. x \in Exact("u32")
    BY ExactValues
  <2>2. Framed(<<<<1>>, x>>, 1, <<"u32">>)
    BY <1>0, <2>1, FrameOne
  <2> QED
    BY <1>1, <1>5, <2>2
<1>6. ASSUME NEW x \in U32s, v = <<<< 10 >>, x>> PROVE Framed(v, 10, BridgeCommand(10))
  <2>1. x \in Exact("u32")
    BY ExactValues
  <2>2. Framed(<<<<10>>, x>>, 10, <<"u32">>)
    BY <1>0, <2>1, FrameOne
  <2> QED
    BY <1>1, <1>6, <2>2
<1>7. ASSUME NEW x \in U32s, NEW y \in Texts, v = <<<< 3 >>, x, y>> PROVE Framed(v, 3, BridgeCommand(3))
  <2>1. x \in Exact("u32") /\ y \in Exact("str")
    BY ExactValues
  <2>2. Framed(<<<<3>>, x, y>>, 3, <<"u32", "str">>)
    BY <1>0, <2>1, FrameTwo, Zenon
  <2> QED
    BY <1>1, <1>7, <2>2
<1>8. ASSUME NEW x \in U32s, NEW y \in Texts, v = <<<< 9 >>, x, y>> PROVE Framed(v, 9, BridgeCommand(9))
  <2>1. x \in Exact("u32") /\ y \in Exact("str")
    BY ExactValues
  <2>2. Framed(<<<<9>>, x, y>>, 9, <<"u32", "str">>)
    BY <1>0, <2>1, FrameTwo, Zenon
  <2> QED
    BY <1>1, <1>8, <2>2
<1>9. ASSUME NEW x \in U32s, NEW y \in Flags, v = <<<< 4 >>, x, y>> PROVE Framed(v, 4, BridgeCommand(4))
  <2>1. x \in Exact("u32") /\ y \in Exact("flag")
    BY ExactValues
  <2>2. Framed(<<<<4>>, x, y>>, 4, <<"u32", "flag">>)
    BY <1>0, <2>1, FrameTwo, Zenon
  <2> QED
    BY <1>1, <1>9, <2>2
<1>10. ASSUME NEW x \in U32s, NEW y \in Flags, v = <<<< 5 >>, x, y>> PROVE Framed(v, 5, BridgeCommand(5))
  <2>1. x \in Exact("u32") /\ y \in Exact("flag")
    BY ExactValues
  <2>2. Framed(<<<<5>>, x, y>>, 5, <<"u32", "flag">>)
    BY <1>0, <2>1, FrameTwo, Zenon
  <2> QED
    BY <1>1, <1>10, <2>2
<1>11. ASSUME NEW x \in U32s, NEW y \in Lists(Texts), NEW z \in Options, v = <<<< 6 >>, x, y, z>> PROVE Framed(v, 6, BridgeCommand(6))
  <2>1. x \in Exact("u32") /\ y \in Exact("strs") /\ z \in Exact("option")
    BY ExactValues
  <2>2. Framed(<<<<6>>, x, y, z>>, 6, <<"u32", "strs", "option">>)
    BY <1>0, <2>1, FrameThree, Zenon
  <2> QED
    BY <1>1, <1>11, <2>2
<1>12. ASSUME NEW x \in U32s, NEW y \in Options, v = <<<< 7 >>, x, y>> PROVE Framed(v, 7, BridgeCommand(7))
  <2>1. x \in Exact("u32") /\ y \in Exact("option")
    BY ExactValues
  <2>2. Framed(<<<<7>>, x, y>>, 7, <<"u32", "option">>)
    BY <1>0, <2>1, FrameTwo, Zenon
  <2> QED
    BY <1>1, <1>12, <2>2
<1>13. ASSUME NEW x \in U32s, NEW y \in I64s, v = <<<< 8 >>, x, y>> PROVE Framed(v, 8, BridgeCommand(8))
  <2>1. x \in Exact("u32") /\ y \in Exact("i64")
    BY ExactValues
  <2>2. Framed(<<<<8>>, x, y>>, 8, <<"u32", "i64">>)
    BY <1>0, <2>1, FrameTwo, Zenon
  <2> QED
    BY <1>1, <1>13, <2>2
<1>14. CASE v \in {Behind(<<<<0>>, parent>>, control) : parent \in Options, control \in ControlValues}
  <2>1. \E parent \in Options, control \in ControlValues : v = Behind(<<<<0>>, parent>>, control)
    BY <1>14
  <2> QED
    BY <2>1
<1>15. CASE v \in {<<<<k>>, id>> : k \in {1, 10}, id \in U32s}
  <2>1. PICK k \in {1, 10}, id \in U32s : v = <<<<k>>, id>>
    BY <1>15
  <2>2. CASE k = 1
    BY <1>3, <1>5, <2>1, <2>2
  <2>3. CASE k = 10
    BY <1>3, <1>6, <2>1, <2>3
  <2> QED
    BY <2>2, <2>3
<1>16. CASE v \in {<<<<k>>, id, s>> : k \in {3, 9}, id \in U32s, s \in Texts}
  <2>1. PICK k \in {3, 9}, id \in U32s, s \in Texts : v = <<<<k>>, id, s>>
    BY <1>16
  <2>2. CASE k = 3
    BY <1>3, <1>7, <2>1, <2>2
  <2>3. CASE k = 9
    BY <1>3, <1>8, <2>1, <2>3
  <2> QED
    BY <2>2, <2>3
<1>17. CASE v \in {<<<<k>>, id, b>> : k \in {4, 5}, id \in U32s, b \in Flags}
  <2>1. PICK k \in {4, 5}, id \in U32s, b \in Flags : v = <<<<k>>, id, b>>
    BY <1>17
  <2>2. CASE k = 4
    BY <1>3, <1>9, <2>1, <2>2
  <2>3. CASE k = 5
    BY <1>3, <1>10, <2>1, <2>3
  <2> QED
    BY <2>2, <2>3
<1>18. CASE v \in {<<<<6>>, id, items, o>> : id \in U32s, items \in Lists(Texts), o \in Options}
  <2>1. PICK id \in U32s, items \in Lists(Texts), o \in Options : v = <<<<6>>, id, items, o>>
    BY <1>18
  <2>2. Framed(v, 6, BridgeCommand(6))
    BY <1>11, <2>1
  <2>3. 6 \in 1..10
    OBVIOUS
  <2> QED
    BY <1>3, <2>2, <2>3
<1>19. CASE v \in {<<<<7>>, id, o>> : id \in U32s, o \in Options}
  <2>1. PICK id \in U32s, o \in Options : v = <<<<7>>, id, o>>
    BY <1>19
  <2>2. Framed(v, 7, BridgeCommand(7))
    BY <1>12, <2>1
  <2>3. 7 \in 1..10
    OBVIOUS
  <2> QED
    BY <1>3, <2>2, <2>3
<1>20. CASE v \in {<<<<8>>, id, n>> : id \in U32s, n \in I64s}
  <2>1. PICK id \in U32s, n \in I64s : v = <<<<8>>, id, n>>
    BY <1>20
  <2>2. Framed(v, 8, BridgeCommand(8))
    BY <1>13, <2>1
  <2>3. 8 \in 1..10
    OBVIOUS
  <2> QED
    BY <1>3, <2>2, <2>3
<1>21. CASE v \in {<<<<2>>>>}
  BY <1>3, <1>4, <1>21
<1> DEFINE A == {Behind(<<<<0>>, parent>>, control) : parent \in Options, control \in ControlValues}
           B == {<<<<k>>, id>> : k \in {1, 10}, id \in U32s}
           C == {<<<<k>>, id, s>> : k \in {3, 9}, id \in U32s, s \in Texts}
           D == {<<<<k>>, id, b>> : k \in {4, 5}, id \in U32s, b \in Flags}
           E == {<<<<6>>, id, items, o>> : id \in U32s, items \in Lists(Texts), o \in Options}
           F == {<<<<7>>, id, o>> : id \in U32s, o \in Options}
           G == {<<<<8>>, id, n>> : id \in U32s, n \in I64s}
<1>22. UiCommands = A \cup {<<<<2>>>>} \cup B \cup C \cup D \cup E \cup F \cup G
  BY DEF UiCommands
<1> DEFINE P == \/ \E parent \in Options, control \in ControlValues : v = Behind(<<<<0>>, parent>>, control)
                \/ \E k \in 1..10 : CommandLayout(v) = BridgeCommand(k) /\ Framed(v, k, BridgeCommand(k))
<1>44. v \in A => P
  BY <1>14
<1>45. v \in B => P
  BY <1>15
<1>46. v \in C => P
  BY <1>16
<1>47. v \in D => P
  BY <1>17
<1>48. v \in E => P
  BY <1>18, SMT
<1>49. v \in F => P
  BY <1>19
<1>50. v \in G => P
  BY <1>20
<1>51. v \in {<<<<2>>>>} => P
  BY <1>21
<1> HIDE DEF A, B, C, D, E, F, G, P
<1>25. P
  BY <1>22, <1>44, <1>45, <1>46, <1>47, <1>48, <1>49, <1>50, <1>51
<1> QED
  BY <1>25 DEF P

(* A command that adds no control. *)
LEMMA PlainCommand ==
  ASSUME NEW v, NEW k \in 1..10, CommandLayout(v) = BridgeCommand(k), Framed(v, k, BridgeCommand(k)),
         NEW p, p = v[1] \o PutFields(CommandLayout(v), Tail(v)), CommandDecode(p).ok
  PROVE  CommandDecode(p) = [ok |-> TRUE, value |-> v] /\ CommandValid(v)
<1>1. PICK layout, f : layout = BridgeCommand(k) /\ f = Tail(v)
  OBVIOUS
<1>2. v[1] = <<k>> /\ Fits(layout, f) /\ v = <<<<k>>>> \o f
  BY <1>1 DEF Framed
<1>3. PICK w \in Seq(Byte) : w = PutFields(layout, f)
  <2>1. layout \in Seq(Types) /\ Written(layout, layout, f)
    BY <1>2, FitsRead
  <2> QED
    BY <2>1, RecordWhole
<1>4. p = <<k>> \o w
  BY <1>1, <1>2, <1>3
<1>5. Take(Cursor(p), 1) = At(w, <<k>>)
  <2>1. k \in 0..255
    OBVIOUS
  <2> QED
    BY <1>4, <2>1, TagRead, Zenon
<1>6. PICK r \in Seq(Byte) : r = <<>>
  BY Alone
<1>7. Joins(w, PutFields(layout, f), r)
  <2>1. Joins(w, w, <<>>)
    BY Alone
  <2> QED
    BY <1>3, <1>6, <2>1
<1>8. \A g : BridgeFields(At(w, g), layout) \in {At(r, f), Refused}
  BY <1>2, <1>7, BridgeRead
<1>9. (IF k = 0 THEN BridgeAdd(At(w, <<k>>)) ELSE BridgeFields(At(w, <<k>>), BridgeCommand(k)))
        \in {At(<<>>, f), Refused}
  BY <1>1, <1>6, <1>8
<1>10. Parsed(p, w, k, f, v)
  BY <1>2, <1>5, <1>9 DEF Parsed
<1>11. k \in 0..10
  OBVIOUS
<1> QED
  BY <1>10, <1>11, Decoded

(* A control's tag and id belong to the control and to the command's head.  *)
Grouped(v, h, a, b, c, d, f) ==
  v = Behind(<<a, b>>, Behind(<<c, d>>, f)) /\ Joins(h, <<b, c, d>>, f)

Regrouped(v, h, a, c) == v = <<a>> \o h /\ Tail(v) = h /\ v[1] = a /\ v[3] = c

LEMMA Regroup ==
  ASSUME NEW a \in Field, NEW b \in Field, NEW c \in Field, NEW d \in Field, NEW f \in Seq(Field),
         NEW v, NEW h, Grouped(v, h, a, b, c, d, f)
  PROVE  Regrouped(v, h, a, c)
<1>1. PICK n \in Nat : n = Len(f)
  OBVIOUS
<1>2. PICK u : u = <<c, d>> \o f
  OBVIOUS
<1>3. u \in Seq(Field) /\ Len(u) = 2 + n /\ u[1] = c /\ u[2] = d /\ \A i \in 1..n : u[2 + i] = f[i]
  BY <1>1, <1>2
<1>4. PICK q \in Seq(Field) : q = <<a, b>> /\ Len(q) = 2 /\ q[1] = a /\ q[2] = b
  <2>1. <<a, b>> \in Seq(Field) /\ Len(<<a, b>>) = 2 /\ <<a, b>>[1] = a /\ <<a, b>>[2] = b
    OBVIOUS
  <2> QED
    BY <2>1, Zenon
<1>13. Joins(v, q, u)
  BY <1>2, <1>4 DEF Grouped, Behind, Joins
<1>5. /\ v \in Seq(Field) /\ Len(v) = 4 + n /\ v[1] = a /\ v[2] = b
      /\ \A i \in 1..(2 + n) : v[2 + i] = u[i]
  <2>1. u \in Seq(Field)
    BY <1>3
  <2>2. /\ v \in Seq(Field) /\ Len(v) = Len(q) + Len(u)
        /\ \A i \in 1..Len(q) : v[i] = q[i]
        /\ \A i \in 1..Len(u) : v[Len(q) + i] = u[i]
    BY <1>13, <2>1, JoinedParts
  <2> QED
    BY <1>3, <1>4, <2>2
<1>6. /\ h \in Seq(Field) /\ Len(h) = 3 + n /\ h[1] = b /\ h[2] = c /\ h[3] = d
      /\ \A i \in 1..n : h[3 + i] = f[i]
  <2>1. h = <<b, c, d>> \o f
    BY DEF Grouped, Joins
  <2> QED
    BY <1>1, <2>1
<1>7. PICK w : w = <<a>> \o h
  OBVIOUS
<1>8. w \in Seq(Field) /\ Len(w) = 4 + n /\ w[1] = a /\ \A i \in 1..(3 + n) : w[1 + i] = h[i]
  BY <1>6, <1>7
<1>9. v[3] = c /\ v[4] = d
  <2>1. 1 \in 1..(2 + n) /\ 2 \in 1..(2 + n)
    OBVIOUS
  <2>2. v[2 + 1] = u[1] /\ v[2 + 2] = u[2]
    BY <1>5, <2>1
  <2> QED
    BY <1>3, <2>2
<1>10. ASSUME NEW i \in 1..(4 + n) PROVE v[i] = w[i]
  <2>1. CASE i = 1
    BY <1>5, <1>8, <2>1
  <2>2. CASE i \in 2..4
    <3>1. w[1 + 1] = b /\ w[1 + 2] = c /\ w[1 + 3] = d
      <4>1. 1 \in 1..(3 + n) /\ 2 \in 1..(3 + n) /\ 3 \in 1..(3 + n)
        OBVIOUS
      <4> QED
        BY <1>6, <1>8, <4>1
    <3> QED
      BY <1>5, <1>9, <2>2, <3>1
  <2>3. CASE i > 4
    <3>1. PICK j \in 1..n : i = 4 + j
      <4>1. i - 4 \in 1..n /\ i = 4 + (i - 4)
        BY <2>3
      <4> QED
        BY <4>1
    <3>2. 2 + j \in 1..(2 + n) /\ 3 + j \in 1..(3 + n) /\ i = 2 + (2 + j) /\ i = 1 + (3 + j)
      BY <3>1
    <3>3. v[2 + (2 + j)] = u[2 + j] /\ w[1 + (3 + j)] = h[3 + j]
      BY <1>5, <1>8, <3>2
    <3>4. u[2 + j] = f[j] /\ h[3 + j] = f[j]
      BY <1>3, <1>6, <3>1
    <3> QED
      BY <3>2, <3>3, <3>4
  <2> QED
    BY <2>1, <2>2, <2>3
<1>11. v = w
  <2>1. Len(v) = Len(w) /\ \A i \in 1..Len(v) : v[i] = w[i]
    BY <1>5, <1>8, <1>10
  <2> QED
    BY <1>5, <1>8, <2>1, SeqEqual
<1>12. Tail(w) = h
  <2>1. PICK t : t = Tail(w)
    OBVIOUS
  <2>2. w # <<>>
    BY <1>8
  <2>3. t \in Seq(Field) /\ Len(t) = 3 + n /\ \A i \in 1..(3 + n) : t[i] = w[1 + i]
    BY <1>8, <2>1, <2>2
  <2>4. Len(t) = Len(h) /\ \A i \in 1..Len(t) : t[i] = h[i]
    BY <1>6, <1>8, <2>3
  <2>5. t = h
    BY <1>6, <2>3, <2>4, SeqEqual
  <2> QED
    BY <2>1, <2>5
<1> QED
  BY <1>5, <1>7, <1>9, <1>11, <1>12 DEF Regrouped

(* The command that adds a control: the control's fields follow the tag's. *)
LEMMA AddCommand ==
  ASSUME NEW parent \in Options, NEW control \in ControlValues,
         NEW v \in {Behind(<<<< 0 >>, parent>>, control)},
         NEW p, p = v[1] \o PutFields(CommandLayout(v), Tail(v)), CommandDecode(p).ok
  PROVE  CommandDecode(p) = [ok |-> TRUE, value |-> v] /\ CommandValid(v)
<1>1. PICK k \in 0..8, id \in U32s, f \in Seq(Field) :
        /\ control = Behind(<<<<k>>, id>>, f)
        /\ ControlLayout(k) = BridgeControl(k) /\ Fits(BridgeControl(k), f)
  BY ControlParts
<1>2. PICK b : b = BridgeControl(k) /\ b = ControlLayout(k) /\ Fits(b, f)
  BY <1>1
<1>3. parent \in Exact("option") /\ <<k>> \in Exact("u8") /\ id \in Exact("u32") /\ <<0>> \in Exact("u8")
  <2>1. k \in 0..255 /\ 0 \in 0..255
    OBVIOUS
  <2> QED
    BY <2>1, ExactValues
<1>4. PICK H, hf : H = <<"option", "u8", "u32">> /\ hf = <<parent, <<k>>, id>>
  OBVIOUS
<1>5. Fits(H, hf)
  <2>1. "option" \in Types /\ "u8" \in Types /\ "u32" \in Types
    BY DEF Types, Widths
  <2>2. Fits(<<"option", "u8", "u32">>, <<parent, <<k>>, id>>)
    BY <1>3, <2>1, FitsSome
  <2> QED
    BY <1>4, <2>2
<1>6. hf \in Seq(Field) /\ H \in Seq(Types)
  BY <1>5 DEF Fits
<1>7. PICK h, L : Joins(h, hf, f) /\ Joins(L, H, b)
  BY DEF Joins
<1>8. v = <<<<0>>>> \o h /\ Tail(v) = h /\ v[1] = <<0>> /\ v[3] = <<k>>
  <2>1. <<0>> \in Field /\ parent \in Field /\ <<k>> \in Field /\ id \in Field
    BY <1>3 DEF Exact
  <2>2. PICK a \in Field, x \in Field, d \in Field, y \in Field :
          a = <<0>> /\ x = parent /\ d = <<k>> /\ y = id
    BY <2>1
  <2>3. v = Behind(<<a, x>>, Behind(<<d, y>>, f))
    BY <1>1, <2>2
  <2>4. Joins(h, <<x, d, y>>, f)
    BY <1>4, <1>7, <2>2
  <2>6. Grouped(v, h, a, x, d, y, f)
    BY <2>3, <2>4 DEF Grouped
  <2>5. v = <<a>> \o h /\ Tail(v) = h /\ v[1] = a /\ v[3] = d
    <3>1. Regrouped(v, h, a, d)
      BY <2>6, Regroup
    <3> QED
      BY <3>1 DEF Regrouped
  <2> QED
    BY <2>2, <2>5
<1>9. CommandLayout(v) = L
  <2>1. PICK e : e = v[3]
    OBVIOUS
  <2>2. e = <<k>> /\ v[1] = <<0>>
    BY <1>8, <2>1
  <2>3. e[1] = k
    BY <2>2
  <2>4. CommandLayout(v) = <<"option", "u8", "u32">> \o ControlLayout(k)
    BY <2>1, <2>2, <2>3 DEF CommandLayout
  <2> QED
    BY <1>2, <1>4, <1>7, <2>4 DEF Joins
<1>10. PICK w, x, y : w = PutFields(L, h) /\ x = PutFields(H, hf) /\ y = PutFields(b, f)
  OBVIOUS
<1>11. x \in Seq(Byte) /\ y \in Seq(Byte) /\ Joins(w, x, y)
  BY <1>2, <1>5, <1>7, <1>10, PutFieldsJoins
<1>12. w \in Seq(Byte)
  BY <1>11, Joined
<1>13. p = <<0>> \o w
  BY <1>8, <1>9, <1>10, Zenon
<1>14. Take(Cursor(p), 1) = At(w, <<0>>)
  <2>1. 0 \in 0..255
    OBVIOUS
  <2> QED
    BY <1>12, <1>13, <2>1, TagRead, Zenon
<1>15. \A g : ReadFields(At(w, g), H) = At(y, hf)
  <2>1. Written(H, H, hf) /\ Readables(H, hf) = hf
    BY <1>5, FitsRead
  <2>2. Joins(w, PutFields(H, hf), y)
    BY <1>10, <1>11
  <2>3. \A g : ReadFields(At(w, g), H) = At(y, Readables(H, hf))
    BY <1>6, <1>11, <2>1, <2>2, FieldsRead
  <2> QED
    BY <2>1, <2>3
<1>16. PICK r \in Seq(Byte) : r = <<>>
  BY Alone
<1>17. \A g : BridgeFields(At(y, g), b) \in {At(r, f), Refused}
  <2>1. Joins(y, y, <<>>)
    BY <1>11, Alone
  <2>2. Joins(y, PutFields(b, f), r)
    BY <1>10, <1>16, <2>1
  <2> QED
    BY <1>2, <2>2, BridgeRead
<1>18. BridgeAdd(At(w, <<0>>)) \in {At(<<>>, h), Refused}
  <2>1. PICK head : head = At(y, hf)
    OBVIOUS
  <2>2. head.ok /\ head.got = hf
    BY <2>1, Standing
  <2>3. head.got[2][1] = k
    BY <1>4, <2>2
  <2>4. PICK d : d = BridgeFields(head, b)
    OBVIOUS
  <2>5. d = At(<<>>, f) \/ d = Refused
    BY <1>16, <1>17, <2>1, <2>4
  <2>6. ReadFields(At(w, <<0>>), <<"option", "u8", "u32">>) = head
    BY <1>4, <1>15, <2>1
  <2>7. BridgeAdd(At(w, <<0>>)) =
          IF head.ok
          THEN IF head.got[2][1] \notin 0..8 THEN Refused
               ELSE IF BridgeFields(head, BridgeControl(head.got[2][1])).ok
               THEN Read(BridgeFields(head, BridgeControl(head.got[2][1])),
                         head.got \o BridgeFields(head, BridgeControl(head.got[2][1])).got)
               ELSE Refused
          ELSE Refused
    BY <2>6 DEF BridgeAdd, Then
  <2>8. BridgeFields(head, BridgeControl(head.got[2][1])) = d
    BY <1>2, <2>3, <2>4
  <2>9. BridgeAdd(At(w, <<0>>)) = IF d.ok THEN Read(d, hf \o d.got) ELSE Refused
    BY <2>2, <2>3, <2>7, <2>8
  <2>10. CASE d = At(<<>>, f)
    <3>1. d.ok /\ d.got = f /\ \A z : Read(d, z) = At(<<>>, z)
      BY <2>10, Standing
    <3>2. hf \o d.got = h
      BY <1>7, <3>1 DEF Joins
    <3> QED
      BY <2>9, <3>1, <3>2
  <2>11. CASE d = Refused
    BY <2>9, <2>11 DEF Refused
  <2> QED
    BY <2>5, <2>10, <2>11
<1>19. PICK k0 \in 0..10 : k0 = 0
  OBVIOUS
<1>20. (IF k0 = 0 THEN BridgeAdd(At(w, <<k0>>)) ELSE BridgeFields(At(w, <<k0>>), BridgeCommand(k0)))
         \in {At(<<>>, h), Refused}
  BY <1>18, <1>19
<1>21. Take(Cursor(p), 1) = At(w, <<k0>>) /\ v = <<<<k0>>>> \o h
  BY <1>8, <1>14, <1>19
<1>22. Parsed(p, w, k0, h, v)
  BY <1>20, <1>21 DEF Parsed
<1> QED
  BY <1>22, Decoded

(* A command that UiCommand::encode lets pass and Command.Decode accepts is   *)
(* the command that was sent, and one the tab can apply.                    *)
THEOREM CommandsRead ==
  ASSUME NEW c \in UiCommands, Encode(c).ok, CommandDecode(Encode(c).value).ok
  PROVE  CommandDecode(Encode(c).value) = [ok |-> TRUE, value |-> c] /\ CommandValid(c)
<1>1. PICK p : p = c[1] \o PutFields(CommandLayout(c), Tail(c))
  OBVIOUS
<1>2. Encode(c).value = p
  BY <1>1 DEF Encode, Within
<1>3. CASE \E parent \in Options, control \in ControlValues : c = Behind(<<<<0>>, parent>>, control)
  <2>1. PICK parent \in Options, control \in ControlValues : c = Behind(<<<<0>>, parent>>, control)
    BY <1>3
  <2> QED
    BY <1>1, <1>2, <2>1, AddCommand
<1>4. CASE \E k \in 1..10 : CommandLayout(c) = BridgeCommand(k) /\ Framed(c, k, BridgeCommand(k))
  <2>1. PICK k \in 1..10 : CommandLayout(c) = BridgeCommand(k) /\ Framed(c, k, BridgeCommand(k))
    BY <1>4
  <2> QED
    BY <1>1, <1>2, <2>1, PlainCommand
<1> QED
  BY <1>3, <1>4, CommandFrames

===============================================================================
