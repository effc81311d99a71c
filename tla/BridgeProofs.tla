------------------------------ MODULE BridgeProofs -----------------------------
(***************************************************************************)
(* Answers, input reports and transfers of the clients of one deck, for    *)
(* any number of connections and frames and any room in the channels.      *)
(***************************************************************************)
EXTENDS DeckBridge, SequenceTheorems, TLAPS

Item == [is : Kinds \cup {"answer", "input"}, nr : Nat]

LEMMA ItemsOfSeq ==
  ASSUME NEW s
  PROVE  (s \in Seq(Frame) => s \in Seq(Item)) /\ (s \in Seq(Message) => s \in Seq(Item))
<1>1. Frame \subseteq Item /\ Message \subseteq Item
  BY DEF Frame, Message, Item
<1> QED
  BY <1>1, SeqMonotonic

(***************************************************************************)
(* A queue that passes one element on, or takes one more, seen as a part   *)
(* of a longer line.                                                       *)
(***************************************************************************)
LEMMA SeqTyped ==
  ASSUME NEW S, NEW t \in Seq(S), NEW v \in Seq(S), NEW x \in S
  PROVE  /\ t \o v \in Seq(S) /\ <<x>> \in Seq(S) /\ <<>> \in Seq(S)
         /\ Append(t, x) \in Seq(S) /\ (t # <<>> => Tail(t) \in Seq(S) /\ Head(t) \in S)
BY ConcatProperties, AppendProperties, HeadTailProperties

LEMMA AppendBefore ==
  ASSUME NEW S, NEW t \in Seq(S), NEW v \in Seq(S), NEW x \in S
  PROVE  /\ Append(t, x) \o v = t \o (<<x>> \o v)
         /\ t \o Append(v, x) = Append(t \o v, x)
<1>1. <<x>> \in Seq(S) /\ t \o v \in Seq(S)
  BY SeqTyped
<1>2. Append(t, x) = t \o <<x>> /\ Append(v, x) = v \o <<x>> /\ Append(t \o v, x) = (t \o v) \o <<x>>
  BY <1>1, AppendIsConcat
<1> QED
  BY <1>1, <1>2, ConcatAssociative

LEMMA HeadAndTail ==
  ASSUME NEW S, NEW s \in Seq(S), s # <<>>
  PROVE  s = <<Head(s)>> \o Tail(s)
<1>1. /\ Head(s) \in S /\ Tail(s) \in Seq(S) /\ Len(Tail(s)) = Len(s) - 1
      /\ \A i \in 1 .. Len(Tail(s)) : Tail(s)[i] = s[i + 1]
      /\ Len(s) \in Nat \ {0} /\ Head(s) = s[1]
  BY HeadTailProperties, EmptySeq
<1> DEFINE h == <<Head(s)>>
           v == Tail(s)
           b == h \o v
<1>2. h \in Seq(S) /\ Len(h) = 1 /\ h[1] = s[1]
  BY <1>1
<1>3. /\ b \in Seq(S) /\ Len(b) = Len(h) + Len(v)
      /\ \A i \in 1 .. Len(h) + Len(v) : b[i] = IF i <= Len(h) THEN h[i] ELSE v[i - Len(h)]
  BY <1>1, <1>2, ConcatProperties
<1> HIDE DEF h, v, b
<1>4. Len(b) = Len(s)
  BY <1>1, <1>2, <1>3 DEF v
<1>5. ASSUME NEW i \in 1 .. Len(s) PROVE s[i] = b[i]
  <2>1. CASE i = 1
    BY <2>1, <1>1, <1>2, <1>3 DEF v
  <2>2. CASE i # 1
    <3>1. i - 1 \in 1 .. Len(v) /\ v[i - 1] = s[(i - 1) + 1]
      BY <2>2, <1>1 DEF v
    <3>2. b[i] = v[i - 1]
      BY <2>2, <1>1, <1>2, <1>3 DEF v
    <3> QED
      BY <3>1, <3>2
  <2> QED
    BY <2>1, <2>2
<1>6. s = b
  BY <1>3, <1>4, <1>5, SeqEqual
<1> QED
  BY <1>6 DEF b, h, v

LEMMA TailOfConcat ==
  ASSUME NEW S, NEW t \in Seq(S), NEW v \in Seq(S), t # <<>>
  PROVE  t \o v # <<>> /\ Head(t \o v) = Head(t) /\ Tail(t \o v) = Tail(t) \o v
<1> DEFINE a == t \o v
           b == Tail(t) \o v
<1>1. /\ a \in Seq(S) /\ Len(a) = Len(t) + Len(v)
      /\ \A i \in 1 .. Len(t) + Len(v) : a[i] = IF i <= Len(t) THEN t[i] ELSE v[i - Len(t)]
  BY ConcatProperties
<1>2. /\ Tail(t) \in Seq(S) /\ Len(Tail(t)) = Len(t) - 1
      /\ \A i \in 1 .. Len(Tail(t)) : Tail(t)[i] = t[i + 1]
      /\ Len(t) \in Nat \ {0} /\ Len(v) \in Nat
  BY HeadTailProperties, EmptySeq
<1>3. /\ b \in Seq(S) /\ Len(b) = Len(Tail(t)) + Len(v)
      /\ \A i \in 1 .. Len(Tail(t)) + Len(v) :
            b[i] = IF i <= Len(Tail(t)) THEN Tail(t)[i] ELSE v[i - Len(Tail(t))]
  BY <1>2, ConcatProperties
<1> HIDE DEF a, b
<1>4. a # <<>> /\ Head(a) = Head(t)
  BY <1>1, <1>2
<1>5. /\ Tail(a) \in Seq(S) /\ Len(Tail(a)) = Len(a) - 1
      /\ \A i \in 1 .. Len(Tail(a)) : Tail(a)[i] = a[i + 1]
  BY <1>1, <1>4, HeadTailProperties
<1>6. Len(Tail(a)) = Len(b)
  BY <1>1, <1>2, <1>3, <1>5
<1>7. ASSUME NEW i \in 1 .. Len(b) PROVE Tail(a)[i] = b[i]
  <2>1. Tail(a)[i] = a[i + 1] /\ i + 1 \in 1 .. Len(t) + Len(v)
    BY <1>1, <1>2, <1>5, <1>6
  <2>2. CASE i <= Len(t) - 1
    <3>1. a[i + 1] = t[i + 1]
      BY <2>1, <2>2, <1>1, <1>2
    <3>2. b[i] = t[i + 1]
      BY <2>2, <1>2, <1>3
    <3> QED
      BY <2>1, <3>1, <3>2
  <2>3. CASE i > Len(t) - 1
    <3>1. a[i + 1] = v[(i + 1) - Len(t)]
      BY <2>1, <2>3, <1>1, <1>2
    <3>2. b[i] = v[i - (Len(t) - 1)]
      BY <2>3, <1>2, <1>3
    <3>3. (i + 1) - Len(t) = i - (Len(t) - 1)
      BY <1>2
    <3> QED
      BY <2>1, <3>1, <3>2, <3>3
  <2> QED
    BY <2>2, <2>3, <1>1, <1>2, <1>3
<1>8. Tail(a) = b
  BY <1>3, <1>5, <1>6, <1>7, SeqEqual
<1> QED
  BY <1>4, <1>8 DEF a, b

--------------------------------------------------------------------------------
\* InOrder, with its set of numbers taken apart.
LEMMA InOrderIs ==
  ASSUME NEW a \in Seq(Item), NEW K, NEW N \in SUBSET Nat
  PROVE  InOrder(a, K, N) <=>
           /\ \A i \in 1 .. Len(a) : a[i].is \in K => a[i].nr \in N
           /\ \A n \in N : \E i \in 1 .. Len(a) : a[i].is \in K /\ a[i].nr = n
           /\ \A i, j \in 1 .. Len(a) :
                 a[i].is \in K /\ a[j].is \in K /\ i < j => a[i].nr < a[j].nr
<1> DEFINE at == {i \in DOMAIN a : a[i].is \in K}
<1>1. DOMAIN a = 1 .. Len(a)
  OBVIOUS
<1>2. at = {i \in 1 .. Len(a) : a[i].is \in K}
  BY <1>1
<1> HIDE DEF at
<1>3. ({a[i].nr : i \in at} = N) <=>
        /\ \A i \in at : a[i].nr \in N
        /\ \A n \in N : \E i \in at : a[i].nr = n
  OBVIOUS
<1>4. InOrder(a, K, N) <=>
        /\ {a[i].nr : i \in at} = N
        /\ \A i, j \in at : i < j => a[i].nr < a[j].nr
  BY DEF InOrder, at
<1> QED
  BY <1>2, <1>3, <1>4

LEMMA InOrderEmpty ==
  ASSUME NEW K
  PROVE  InOrder(<<>>, K, {})
BY DEF InOrder

\* The next number joins at the end.
LEMMA AppendInOrder ==
  ASSUME NEW a \in Seq(Item), NEW K, NEW N \in SUBSET Nat, InOrder(a, K, N), NEW x \in Item,
         \A n \in N : n < x.nr
  PROVE  /\ x.is \in K => InOrder(Append(a, x), K, N \cup {x.nr})
         /\ x.is \notin K => InOrder(Append(a, x), K, N)
<1> DEFINE b == Append(a, x)
<1>1. /\ b \in Seq(Item) /\ Len(b) = Len(a) + 1 /\ Len(a) \in Nat
      /\ \A i \in 1 .. Len(a) : b[i] = a[i]
      /\ b[Len(a) + 1] = x
  BY AppendProperties
<1> HIDE DEF b
<1>2. /\ \A i \in 1 .. Len(a) : a[i].is \in K => a[i].nr \in N
      /\ \A n \in N : \E i \in 1 .. Len(a) : a[i].is \in K /\ a[i].nr = n
      /\ \A i, j \in 1 .. Len(a) :
            a[i].is \in K /\ a[j].is \in K /\ i < j => a[i].nr < a[j].nr
  BY InOrderIs
<1>3. /\ \A i \in 1 .. Len(b) : i \in 1 .. Len(a) \/ (i = Len(a) + 1 /\ b[i] = x)
      /\ \A i \in 1 .. Len(a) : i \in 1 .. Len(b) /\ b[i] = a[i] /\ i < Len(a) + 1
      /\ Len(a) + 1 \in 1 .. Len(b) /\ x.nr \in Nat
  BY <1>1 DEF Item
<1>4. \A i, j \in 1 .. Len(b) : b[i].is \in K /\ b[j].is \in K /\ i < j => b[i].nr < b[j].nr
  <2> SUFFICES ASSUME NEW i \in 1 .. Len(b), NEW j \in 1 .. Len(b), b[i].is \in K, b[j].is \in K, i < j
               PROVE  b[i].nr < b[j].nr
    OBVIOUS
  <2>1. i \in 1 .. Len(a) /\ b[i] = a[i]
    BY <1>1
  <2>2. CASE j \in 1 .. Len(a)
    BY <2>1, <2>2, <1>2, <1>3
  <2>3. CASE j = Len(a) + 1
    BY <2>1, <2>3, <1>1, <1>2
  <2> QED
    BY <2>2, <2>3, <1>3
<1>5. ASSUME x.is \in K PROVE InOrder(b, K, N \cup {x.nr})
  <2>1. \A i \in 1 .. Len(b) : b[i].is \in K => b[i].nr \in N \cup {x.nr}
    BY <1>2, <1>3
  <2>2. \A n \in N \cup {x.nr} : \E i \in 1 .. Len(b) : b[i].is \in K /\ b[i].nr = n
    BY <1>1, <1>2, <1>3, <1>5
  <2>3. N \cup {x.nr} \in SUBSET Nat
    BY <1>3
  <2> QED
    BY <2>1, <2>2, <2>3, <1>1, <1>4, InOrderIs
<1>6. ASSUME x.is \notin K PROVE InOrder(b, K, N)
  <2>1. \A i \in 1 .. Len(b) : b[i].is \in K => b[i].nr \in N
    BY <1>2, <1>3, <1>6
  <2>2. \A n \in N : \E i \in 1 .. Len(b) : b[i].is \in K /\ b[i].nr = n
    BY <1>2, <1>3
  <2> QED
    BY <2>1, <2>2, <1>1, <1>4, InOrderIs
<1> QED
  BY <1>5, <1>6 DEF b

\* The first of the line leaves, with its number.
LEMMA TailInOrder ==
  ASSUME NEW a \in Seq(Item), a # <<>>, NEW K, NEW N \in SUBSET Nat, InOrder(a, K, N)
  PROVE  /\ Head(a).is \in K => InOrder(Tail(a), K, N \ {Head(a).nr})
         /\ Head(a).is \notin K => InOrder(Tail(a), K, N)
<1> DEFINE b == Tail(a)
           h == Head(a)
<1>1. /\ b \in Seq(Item) /\ Len(b) = Len(a) - 1 /\ Len(a) \in Nat \ {0}
      /\ \A i \in 1 .. Len(b) : b[i] = a[i + 1]
      /\ h = a[1] /\ \A i \in 1 .. Len(a) : a[i] \in Item
  BY HeadTailProperties, EmptySeq
<1> HIDE DEF b, h
<1>2. /\ \A i \in 1 .. Len(a) : a[i].is \in K => a[i].nr \in N
      /\ \A n \in N : \E i \in 1 .. Len(a) : a[i].is \in K /\ a[i].nr = n
      /\ \A i, j \in 1 .. Len(a) :
            a[i].is \in K /\ a[j].is \in K /\ i < j => a[i].nr < a[j].nr
  BY InOrderIs
<1>3. /\ \A i \in 1 .. Len(b) : i + 1 \in 1 .. Len(a) /\ b[i] = a[i + 1] /\ 1 < i + 1
      /\ \A i \in 1 .. Len(a) : i = 1 \/ (i - 1 \in 1 .. Len(b) /\ b[i - 1] = a[i])
      /\ \A i, j \in 1 .. Len(b) : i < j => i + 1 < j + 1
      /\ 1 \in 1 .. Len(a)
  BY <1>1
<1>4. \A i, j \in 1 .. Len(b) : b[i].is \in K /\ b[j].is \in K /\ i < j => b[i].nr < b[j].nr
  BY <1>2, <1>3
<1>5. ASSUME h.is \in K PROVE InOrder(b, K, N \ {h.nr})
  <2> DEFINE M == N \ {h.nr}
  <2>1. ASSUME NEW i \in 1 .. Len(b), b[i].is \in K PROVE b[i].nr \in N \ {h.nr}
    <3>1. b[i].nr \in N /\ h.nr < b[i].nr
      BY <2>1, <1>1, <1>2, <1>3, <1>5
    <3>2. h.nr \in Nat /\ b[i].nr \in Nat
      BY <3>1, <1>1, <1>3 DEF Item
    <3> QED
      BY <3>1, <3>2
  <2>2. \A n \in M : \E i \in 1 .. Len(b) : b[i].is \in K /\ b[i].nr = n
    BY <1>1, <1>2, <1>3
  <2>3. M \in SUBSET Nat /\ \A i \in 1 .. Len(b) : b[i].is \in K => b[i].nr \in M
    BY <2>1
  <2> HIDE DEF M
  <2>4. InOrder(b, K, M)
    BY <2>2, <2>3, <1>1, <1>4, InOrderIs
  <2> QED
    BY <2>4 DEF M
<1>6. ASSUME h.is \notin K PROVE InOrder(b, K, N)
  <2>1. \A i \in 1 .. Len(b) : b[i].is \in K => b[i].nr \in N
    BY <1>2, <1>3
  <2>2. \A n \in N : \E i \in 1 .. Len(b) : b[i].is \in K /\ b[i].nr = n
    BY <1>1, <1>2, <1>3, <1>6
  <2> QED
    BY <2>1, <2>2, <1>1, <1>4, InOrderIs
<1> QED
  BY <1>5, <1>6 DEF b, h

\* What is not counted may come and go in the middle of the line, and what is
\* counted may be replaced by another item with its number.
LEMMA MidInOrder ==
  ASSUME NEW t \in Seq(Item), NEW v \in Seq(Item), NEW x \in Item, NEW K, NEW N \in SUBSET Nat
  PROVE  /\ x.is \notin K => (InOrder(t \o (<<x>> \o v), K, N) <=> InOrder(t \o v, K, N))
         /\ \A y \in Item : x.is \in K /\ y.is \in K /\ x.nr = y.nr /\ InOrder(t \o (<<x>> \o v), K, N)
                            => InOrder(t \o (<<y>> \o v), K, N)
<1> DEFINE a == t \o v
           m == Len(t) + 1
           b(y) == t \o (<<y>> \o v)
<1>1. /\ a \in Seq(Item) /\ Len(a) = Len(t) + Len(v) /\ Len(t) \in Nat /\ Len(v) \in Nat
      /\ \A i \in 1 .. Len(t) + Len(v) : a[i] = IF i <= Len(t) THEN t[i] ELSE v[i - Len(t)]
  BY ConcatProperties, LenProperties
<1>2. ASSUME NEW y \in Item
      PROVE  /\ b(y) \in Seq(Item) /\ Len(b(y)) = Len(a) + 1
             /\ \A i \in 1 .. Len(t) : b(y)[i] = t[i]
             /\ b(y)[m] = y
             /\ \A i \in m + 1 .. Len(a) + 1 : b(y)[i] = v[i - m]
  <2> DEFINE w == <<y>>
             u == w \o v
             z == t \o u
  <2>1. w \in Seq(Item) /\ Len(w) = 1 /\ w[1] = y
    OBVIOUS
  <2> HIDE DEF w
  <2>10. /\ u \in Seq(Item) /\ Len(u) = Len(w) + Len(v)
         /\ \A i \in 1 .. Len(w) + Len(v) : u[i] = IF i <= Len(w) THEN w[i] ELSE v[i - Len(w)]
    BY <2>1, ConcatProperties
  <2> HIDE DEF u
  <2>2. /\ u \in Seq(Item) /\ Len(u) = 1 + Len(v)
        /\ u[1] = y /\ \A i \in 2 .. 1 + Len(v) : u[i] = v[i - 1]
    BY <2>1, <2>10, <1>1
  <2>3. /\ z \in Seq(Item) /\ Len(z) = Len(t) + Len(u)
        /\ \A i \in 1 .. Len(t) + Len(u) : z[i] = IF i <= Len(t) THEN t[i] ELSE u[i - Len(t)]
    BY <2>2, ConcatProperties
  <2>4. b(y) = z
    BY DEF u, w
  <2> HIDE DEF z, b, a
  <2>5. Len(z) = Len(a) + 1 /\ \A i \in 1 .. Len(t) : z[i] = t[i]
    BY <2>2, <2>3, <1>1
  <2>6. z[m] = y
    <3>1. m \in 1 .. Len(t) + Len(u) /\ ~ (m <= Len(t)) /\ m - Len(t) = 1
      BY <2>2, <1>1
    <3>2. z[m] = u[m - Len(t)]
      BY <3>1, <2>3
    <3> QED
      BY <3>1, <3>2, <2>2
  <2>7. ASSUME NEW i \in m + 1 .. Len(a) + 1 PROVE z[i] = v[i - m]
    <3>4. i \in 1 .. Len(t) + Len(u) /\ ~ (i <= Len(t)) /\ i - Len(t) \in 2 .. 1 + Len(v)
      BY <2>2, <2>5, <1>1
    <3>1. z[i] = u[i - Len(t)] /\ i - Len(t) \in 2 .. 1 + Len(v)
      BY <3>4, <2>3
    <3>2. u[i - Len(t)] = v[(i - Len(t)) - 1]
      BY <3>1, <2>2, <1>1
    <3>3. (i - Len(t)) - 1 = i - m
      BY <1>1
    <3> QED
      BY <3>1, <3>2, <3>3
  <2> QED
    BY <2>3, <2>4, <2>5, <2>6, <2>7
<1> HIDE DEF a, b
<1>3. ASSUME x.is \notin K PROVE InOrder(b(x), K, N) <=> InOrder(a, K, N)
  <2> DEFINE c == b(x)
  <2>1. /\ c \in Seq(Item) /\ Len(c) = Len(a) + 1
        /\ \A i \in 1 .. Len(t) : c[i] = t[i]
        /\ c[m] = x
        /\ \A i \in m + 1 .. Len(a) + 1 : c[i] = v[i - m]
    BY <1>2
  <2> HIDE DEF c
  \* Where the elements of a are in c, and back.
  <2> DEFINE up(i) == IF i <= Len(t) THEN i ELSE i + 1
             dn(i) == IF i <= Len(t) THEN i ELSE i - 1
  <2>2. ASSUME NEW i \in 1 .. Len(a) PROVE up(i) \in 1 .. Len(c) /\ c[up(i)] = a[i]
    <3>1. CASE i <= Len(t)
      BY <3>1, <2>1, <1>1
    <3>2. CASE ~ (i <= Len(t))
      <4>1. i + 1 \in m + 1 .. Len(a) + 1 /\ (i + 1) - m = i - Len(t)
        BY <3>2, <1>1
      <4>2. c[i + 1] = v[(i + 1) - m] /\ a[i] = v[i - Len(t)]
        BY <4>1, <3>2, <2>1, <1>1
      <4> QED
        BY <4>1, <4>2, <3>2, <2>1, <1>1
    <3> QED
      BY <3>1, <3>2
  <2>3. ASSUME NEW i \in 1 .. Len(c), c[i].is \in K PROVE dn(i) \in 1 .. Len(a) /\ a[dn(i)] = c[i]
    <3>1. CASE i <= Len(t)
      <4>1. i \in 1 .. Len(t) /\ i \in 1 .. Len(a) /\ dn(i) = i
        BY <3>1, <2>1, <1>1
      <4> QED
        BY <4>1, <2>1, <1>1
    <3>2. CASE ~ (i <= Len(t))
      <4>1. i # m
        <5> SUFFICES ASSUME i = m PROVE FALSE
          OBVIOUS
        <5>1. c[i] = x
          BY <2>1
        <5> QED
          BY <5>1, <1>3, <2>3
      <4>2. i \in m + 1 .. Len(a) + 1 /\ i - 1 \in 1 .. Len(a) /\ ~ (i - 1 <= Len(t)) /\ (i - 1) - Len(t) = i - m
        <5>1. i \in Nat /\ i <= Len(a) + 1 /\ Len(t) < i /\ i # m /\ m = Len(t) + 1 /\ Len(a) \in Nat
          BY <4>1, <3>2, <2>1, <1>1
        <5> QED
          BY <5>1, <1>1
      <4>3. c[i] = v[i - m] /\ a[i - 1] = v[(i - 1) - Len(t)]
        BY <4>2, <2>1, <1>1
      <4> QED
        BY <4>2, <4>3, <3>2
    <3> QED
      BY <3>1, <3>2
  <2>4. \A i, j \in 1 .. Len(a) : i < j <=> up(i) < up(j)
    BY <1>1
  <2>5. \A i, j \in 1 .. Len(c) : c[i].is \in K /\ c[j].is \in K => (i < j <=> dn(i) < dn(j))
    <3> SUFFICES ASSUME NEW i \in 1 .. Len(c), NEW j \in 1 .. Len(c), c[i].is \in K, c[j].is \in K
                 PROVE  i < j <=> dn(i) < dn(j)
      OBVIOUS
    <3>1. i # m /\ j # m
      BY <1>3, <2>1
    <3> QED
      BY <3>1, <2>1, <1>1
  <2> HIDE DEF up, dn
  <2>6. InOrder(c, K, N) => InOrder(a, K, N)
    <3> SUFFICES ASSUME InOrder(c, K, N) PROVE InOrder(a, K, N)
      OBVIOUS
    <3>1. /\ \A i \in 1 .. Len(c) : c[i].is \in K => c[i].nr \in N
          /\ \A n \in N : \E i \in 1 .. Len(c) : c[i].is \in K /\ c[i].nr = n
          /\ \A i, j \in 1 .. Len(c) :
                c[i].is \in K /\ c[j].is \in K /\ i < j => c[i].nr < c[j].nr
      BY <2>1, InOrderIs
    <3>2. \A i \in 1 .. Len(a) : a[i].is \in K => a[i].nr \in N
      BY <3>1, <2>2
    <3>3. \A n \in N : \E i \in 1 .. Len(a) : a[i].is \in K /\ a[i].nr = n
      BY <3>1, <2>3
    <3>4. \A i, j \in 1 .. Len(a) : a[i].is \in K /\ a[j].is \in K /\ i < j => a[i].nr < a[j].nr
      BY <3>1, <2>2, <2>4
    <3> QED
      BY <3>2, <3>3, <3>4, <1>1, InOrderIs
  <2>7. InOrder(a, K, N) => InOrder(c, K, N)
    <3> SUFFICES ASSUME InOrder(a, K, N) PROVE InOrder(c, K, N)
      OBVIOUS
    <3>1. /\ \A i \in 1 .. Len(a) : a[i].is \in K => a[i].nr \in N
          /\ \A n \in N : \E i \in 1 .. Len(a) : a[i].is \in K /\ a[i].nr = n
          /\ \A i, j \in 1 .. Len(a) :
                a[i].is \in K /\ a[j].is \in K /\ i < j => a[i].nr < a[j].nr
      BY <1>1, InOrderIs
    <3>2. \A i \in 1 .. Len(c) : c[i].is \in K => c[i].nr \in N
      BY <3>1, <2>3
    <3>3. \A n \in N : \E i \in 1 .. Len(c) : c[i].is \in K /\ c[i].nr = n
      BY <3>1, <2>2
    <3>4. \A i, j \in 1 .. Len(c) : c[i].is \in K /\ c[j].is \in K /\ i < j => c[i].nr < c[j].nr
      BY <3>1, <2>3, <2>5
    <3> QED
      BY <3>2, <3>3, <3>4, <2>1, InOrderIs
  <2> QED
    BY <2>6, <2>7 DEF c
<1>4. ASSUME NEW y \in Item, x.is \in K, y.is \in K, x.nr = y.nr, InOrder(b(x), K, N)
      PROVE  InOrder(b(y), K, N)
  <2> DEFINE c == b(x)
             d == b(y)
  <2>1. /\ c \in Seq(Item) /\ Len(c) = Len(a) + 1
        /\ \A i \in 1 .. Len(t) : c[i] = t[i]
        /\ c[m] = x
        /\ \A i \in m + 1 .. Len(a) + 1 : c[i] = v[i - m]
    BY <1>2
  <2>2. /\ d \in Seq(Item) /\ Len(d) = Len(a) + 1
        /\ \A i \in 1 .. Len(t) : d[i] = t[i]
        /\ d[m] = y
        /\ \A i \in m + 1 .. Len(a) + 1 : d[i] = v[i - m]
    BY <1>2
  <2>3. InOrder(c, K, N)
    BY <1>4
  <2> HIDE DEF c, d
  <2>4. ASSUME NEW i \in 1 .. Len(c)
        PROVE  (c[i].is \in K <=> d[i].is \in K) /\ c[i].nr = d[i].nr
    <3>4. i \in Nat /\ 1 <= i /\ i <= Len(a) + 1 /\ m \in Nat /\ m = Len(t) + 1 /\ Len(a) \in Nat
      BY <2>1, <1>1
    <3>1. i \in 1 .. Len(t) \/ i = m \/ i \in m + 1 .. Len(a) + 1
      BY <3>4, <1>1
    <3>2. i = m \/ c[i] = d[i]
      BY <3>1, <2>1, <2>2
    <3>3. c[m].is \in K /\ d[m].is \in K /\ c[m].nr = d[m].nr
      BY <2>1, <2>2, <1>4
    <3> QED
      BY <3>2, <3>3
  <2>5. /\ \A i \in 1 .. Len(c) : c[i].is \in K => c[i].nr \in N
        /\ \A n \in N : \E i \in 1 .. Len(c) : c[i].is \in K /\ c[i].nr = n
        /\ \A i, j \in 1 .. Len(c) :
              c[i].is \in K /\ c[j].is \in K /\ i < j => c[i].nr < c[j].nr
    BY <2>1, <2>3, InOrderIs
  <2>6. Len(d) = Len(c)
    BY <2>1, <2>2
  <2>7. /\ \A i \in 1 .. Len(d) : d[i].is \in K => d[i].nr \in N
        /\ \A n \in N : \E i \in 1 .. Len(d) : d[i].is \in K /\ d[i].nr = n
    BY <2>4, <2>5, <2>6
  <2>8. \A i, j \in 1 .. Len(d) : d[i].is \in K /\ d[j].is \in K /\ i < j => d[i].nr < d[j].nr
    BY <2>4, <2>5, <2>6
  <2>9. InOrder(d, K, N)
    BY <2>2, <2>7, <2>8, InOrderIs
  <2> QED
    BY <2>9 DEF d
<1> QED
  BY <1>3, <1>4 DEF a, b

--------------------------------------------------------------------------------
(***************************************************************************)
(* A line of three queues: first, second and third, out of which the       *)
(* client receives.  The lemmas say what the steps of the tasks do to it.  *)
(***************************************************************************)
Ordered(t, j, b, K, N) == InOrder(t \o j \o b, K, N)

LEMMA ThreeQueues ==
  ASSUME NEW t \in Seq(Item), NEW j \in Seq(Item), NEW b \in Seq(Item)
  PROVE  /\ t \o j \o b = t \o (j \o b) /\ t \o j \o b \in Seq(Item) /\ j \o b \in Seq(Item)
         /\ <<>> \in Seq(Item) /\ t \o <<>> = t /\ <<>> \o b = b
BY ConcatAssociative, ConcatProperties, ConcatEmptySeq

LEMMA NothingOrdered ==
  ASSUME NEW K
  PROVE  Ordered(<<>>, <<>>, <<>>, K, {})
<1>1. <<>> \o <<>> \o <<>> = <<>>
  BY ConcatEmptySeq
<1> QED
  BY <1>1, InOrderEmpty DEF Ordered

\* One more item at the end of the third queue.
LEMMA LastJoins ==
  ASSUME NEW t \in Seq(Item), NEW j \in Seq(Item), NEW b \in Seq(Item), NEW x \in Item,
         NEW K, NEW N \in SUBSET Nat, Ordered(t, j, b, K, N), \A n \in N : n < x.nr
  PROVE  /\ x.is \in K => Ordered(t, j, Append(b, x), K, N \cup {x.nr})
         /\ x.is \notin K => Ordered(t, j, Append(b, x), K, N)
<1> DEFINE u == t \o j
           a == u \o b
<1>1. u \in Seq(Item) /\ a \in Seq(Item)
  BY ThreeQueues, ConcatProperties
<1>2. u \o Append(b, x) = Append(a, x)
  BY <1>1, AppendBefore
<1>3. InOrder(a, K, N)
  BY DEF Ordered
<1> HIDE DEF a
<1>4. /\ x.is \in K => InOrder(Append(a, x), K, N \cup {x.nr})
      /\ x.is \notin K => InOrder(Append(a, x), K, N)
  BY <1>1, <1>3, AppendInOrder
<1> QED
  BY <1>2, <1>4 DEF Ordered

\* The client receives the first item.
LEMMA FirstLeaves ==
  ASSUME NEW t \in Seq(Item), NEW j \in Seq(Item), NEW b \in Seq(Item), t # <<>>,
         NEW K, NEW N \in SUBSET Nat, Ordered(t, j, b, K, N)
  PROVE  /\ Head(t).is \in K => Ordered(Tail(t), j, b, K, N \ {Head(t).nr})
         /\ Head(t).is \notin K => Ordered(Tail(t), j, b, K, N)
<1> DEFINE v == j \o b
           a == t \o v
<1>1. v \in Seq(Item) /\ Tail(t) \in Seq(Item)
  BY ThreeQueues, HeadTailProperties
<1>2. t \o j \o b = a /\ a \in Seq(Item) /\ Tail(t) \o j \o b = Tail(t) \o v
  <2>1. t \o j \o b = a /\ a \in Seq(Item)
    BY ThreeQueues
  <2>2. Tail(t) \o j \o b = Tail(t) \o v
    BY <1>1, ThreeQueues
  <2> QED
    BY <2>1, <2>2
<1>3. a # <<>> /\ Head(a) = Head(t) /\ Tail(a) = Tail(t) \o v
  BY <1>1, TailOfConcat
<1>4. InOrder(a, K, N)
  BY <1>2 DEF Ordered
<1> HIDE DEF a, v
<1>5. /\ Head(a).is \in K => InOrder(Tail(a), K, N \ {Head(a).nr})
      /\ Head(a).is \notin K => InOrder(Tail(a), K, N)
  BY <1>2, <1>3, <1>4, TailInOrder
<1> QED
  BY <1>2, <1>3, <1>5 DEF Ordered

\* An item that is not counted joins the first queue.
LEMMA StrangerJoins ==
  ASSUME NEW t \in Seq(Item), NEW j \in Seq(Item), NEW b \in Seq(Item), NEW x \in Item,
         NEW K, NEW N \in SUBSET Nat, Ordered(t, j, b, K, N), x.is \notin K
  PROVE  Ordered(Append(t, x), j, b, K, N)
<1> DEFINE v == j \o b
<1>1. v \in Seq(Item) /\ Append(t, x) \in Seq(Item) /\ t \o j \o b = t \o v
  BY ThreeQueues, AppendProperties
<1>2. Append(t, x) \o j \o b = Append(t, x) \o v
  BY <1>1, ConcatAssociative
<1> HIDE DEF v
<1>3. Append(t, x) \o v = t \o (<<x>> \o v)
  BY <1>1, AppendBefore
<1>4. InOrder(t \o v, K, N)
  BY <1>1 DEF Ordered
<1>5. InOrder(t \o (<<x>> \o v), K, N)
  BY <1>1, <1>4, MidInOrder
<1> QED
  BY <1>2, <1>3, <1>5 DEF Ordered

\* An item moves from the second queue to the first.
LEMMA MovesUp ==
  ASSUME NEW t \in Seq(Item), NEW j \in Seq(Item), NEW b \in Seq(Item), j # <<>>, NEW K, NEW N
  PROVE  Ordered(Append(t, Head(j)), Tail(j), b, K, N) <=> Ordered(t, j, b, K, N)
<1> DEFINE h == Head(j)
           v == Tail(j)
<1>1. h \in Item /\ v \in Seq(Item) /\ j = <<h>> \o v /\ <<h>> \in Seq(Item)
  BY HeadTailProperties, HeadAndTail
<1> HIDE DEF h, v
<1>2. Append(t, h) \o v = t \o (<<h>> \o v)
  BY <1>1, AppendBefore
<1> QED
  BY <1>1, <1>2 DEF Ordered, h, v

\* Item x is alone in the second queue: it came from the third, it goes to the
\* third's end, another takes its place in the first queue, or it is dropped.
LEMMA OneInTheMiddle ==
  ASSUME NEW t \in Seq(Item), NEW b \in Seq(Item), NEW x \in Item, NEW K, NEW N \in SUBSET Nat
  PROVE  /\ b # <<>> /\ Head(b) = x => (Ordered(t, <<x>>, Tail(b), K, N) <=> Ordered(t, <<>>, b, K, N))
         /\ x.is \notin K => (Ordered(t, <<x>>, b, K, N) <=> Ordered(t, <<>>, b, K, N))
         /\ \A y \in Item : x.is \in K /\ y.is \in K /\ x.nr = y.nr /\ Ordered(t, <<x>>, b, K, N)
                            => Ordered(Append(t, y), <<>>, b, K, N)
<1>1. <<x>> \in Seq(Item) /\ <<>> \in Seq(Item)
  OBVIOUS
<1>2. ASSUME NEW w \in Seq(Item)
      PROVE  t \o <<x>> \o w = t \o (<<x>> \o w) /\ t \o <<>> \o w = t \o w
  BY <1>1, ThreeQueues
<1>3. ASSUME b # <<>>, Head(b) = x
      PROVE  Ordered(t, <<x>>, Tail(b), K, N) <=> Ordered(t, <<>>, b, K, N)
  <2>1. Tail(b) \in Seq(Item) /\ b = <<x>> \o Tail(b)
    BY <1>3, HeadTailProperties, HeadAndTail
  <2> QED
    BY <2>1, <1>2 DEF Ordered
<1>4. ASSUME x.is \notin K PROVE Ordered(t, <<x>>, b, K, N) <=> Ordered(t, <<>>, b, K, N)
  <2>1. InOrder(t \o (<<x>> \o b), K, N) <=> InOrder(t \o b, K, N)
    BY <1>4, MidInOrder
  <2>2. t \o <<x>> \o b = t \o (<<x>> \o b) /\ t \o <<>> \o b = t \o b
    BY <1>2
  <2> QED
    BY <2>1, <2>2 DEF Ordered
<1>5. ASSUME NEW y \in Item, x.is \in K, y.is \in K, x.nr = y.nr, Ordered(t, <<x>>, b, K, N)
      PROVE  Ordered(Append(t, y), <<>>, b, K, N)
  <2>1. InOrder(t \o (<<x>> \o b), K, N)
    BY <1>2, <1>5 DEF Ordered
  <2>2. InOrder(t \o (<<y>> \o b), K, N)
    BY <2>1, <1>5, MidInOrder
  <2>3. Append(t, y) \in Seq(Item) /\ Append(t, y) \o b = t \o (<<y>> \o b)
    BY AppendBefore, AppendProperties
  <2>4. Append(t, y) \o <<>> \o b = Append(t, y) \o b
    BY <2>3, ThreeQueues
  <2> QED
    BY <2>2, <2>3, <2>4 DEF Ordered
<1> QED
  BY <1>3, <1>4, <1>5

\* The item of a third queue that has only one goes to the end of the second.
LEMMA EndMovesUp ==
  ASSUME NEW t \in Seq(Item), NEW q \in Seq(Item), NEW x \in Item, NEW K, NEW N
  PROVE  Ordered(t, Append(q, x), <<>>, K, N) <=> Ordered(t, q, <<x>>, K, N)
<1>1. t \o q \in Seq(Item) /\ Append(q, x) \in Seq(Item)
  BY ConcatProperties, AppendProperties
<1>2. t \o Append(q, x) = Append(t \o q, x) /\ Append(t \o q, x) \in Seq(Item)
  BY <1>1, AppendBefore, AppendProperties
<1>3. Append(t \o q, x) = (t \o q) \o <<x>>
  BY <1>1, AppendIsConcat
<1>4. (t \o Append(q, x)) \o <<>> = t \o Append(q, x)
  BY <1>2, ConcatEmptySeq
<1> QED
  BY <1>2, <1>3, <1>4 DEF Ordered

--------------------------------------------------------------------------------
(***************************************************************************)
(* The inductive invariant: besides the properties themselves, which task  *)
(* of which connection can be where.                                       *)
(***************************************************************************)

\* The loop of an open connection has a frame exactly when it handles one, and
\* it answers only what has an answer.
JobInLoop ==
  \A c \in Conns :
    /\ loop[c] = "select" => job[c] = <<>>
    /\ loop[c] # "select" => conn[c] = "open" /\ Len(job[c]) = 1
    /\ loop[c] = "answer" => job[c][1].is \in Answered(c)

\* The endpoint belongs to the one reader that has opened it.
ReaderHolds ==
  \A c \in Conns : endpoint = c <=> reader[c] \in {"polling", "sending", "aborted"}

\* Nothing is under way on a connection that is not open.
BlankUnlessOpen ==
  \A c \in Conns :
    /\ conn[c] = "new" => reader[c] = "none"
    /\ conn[c] = "closed" => reader[c] \in {"aborted", "ended"}
    /\ conn[c] # "open" => /\ tx[c] = <<>> /\ input[c] = <<>> /\ inbox[c] = <<>>
                           /\ owed[c] = {} /\ emitted[c] = {}

TasksInv == TypeOK /\ JobInLoop /\ ReaderHolds /\ BlankUnlessOpen /\ OneTransferAtATime

BridgeInv == TasksInv /\ AnswersAddUp /\ InputAddsUp

LEMMA PushTyped ==
  ASSUME NEW S, NEW q \in [Conns -> Seq(S)], NEW c \in Conns, NEW x \in S
  PROVE  /\ Push(q, c, x) \in [Conns -> Seq(S)]
         /\ Push(q, c, x)[c] = Append(q[c], x) /\ Len(Push(q, c, x)[c]) = Len(q[c]) + 1
         /\ \A e \in Conns \ {c} : Push(q, c, x)[e] = q[e]
BY AppendProperties DEF Push

LEMMA PopTyped ==
  ASSUME NEW S, NEW q \in [Conns -> Seq(S)], NEW c \in Conns, q[c] # <<>>
  PROVE  /\ Pop(q, c) \in [Conns -> Seq(S)] /\ Head(q[c]) \in S
         /\ Pop(q, c)[c] = Tail(q[c]) /\ Len(Pop(q, c)[c]) = Len(q[c]) - 1
         /\ \A e \in Conns \ {c} : Pop(q, c)[e] = q[e]
BY HeadTailProperties DEF Pop

LEMMA WithinCapacity ==
  ASSUME NEW S, NEW q \in [Conns -> Seq(S)], NEW c \in Conns,
         NEW cap \in Nat, \A e \in Conns : Len(q[e]) <= cap
  PROVE  /\ \A x \in S : Len(q[c]) < cap =>
              Push(q, c, x) \in [Conns -> Seq(S)] /\ \A e \in Conns : Len(Push(q, c, x)[e]) <= cap
         /\ q[c] # <<>> =>
              Pop(q, c) \in [Conns -> Seq(S)] /\ \A e \in Conns : Len(Pop(q, c)[e]) <= cap
<1>0. Len(q[c]) \in Nat
  OBVIOUS
<1>1. ASSUME NEW x \in S, Len(q[c]) < cap
      PROVE  Push(q, c, x) \in [Conns -> Seq(S)] /\ \A e \in Conns : Len(Push(q, c, x)[e]) <= cap
  <2> DEFINE p == Push(q, c, x)
  <2>1. /\ p \in [Conns -> Seq(S)] /\ Len(p[c]) = Len(q[c]) + 1
        /\ \A e \in Conns \ {c} : p[e] = q[e]
    BY PushTyped
  <2> HIDE DEF p
  <2>2. ASSUME NEW e \in Conns PROVE Len(p[e]) <= cap
    <3>1. CASE e = c
      BY <3>1, <2>1, <1>0, <1>1
    <3>2. CASE e # c
      <4>1. p[e] = q[e]
        BY <3>2, <2>1
      <4> QED
        BY <4>1
    <3> QED
      BY <3>1, <3>2
  <2> QED
    BY <2>1, <2>2 DEF p
<1>2. ASSUME q[c] # <<>>
      PROVE  Pop(q, c) \in [Conns -> Seq(S)] /\ \A e \in Conns : Len(Pop(q, c)[e]) <= cap
  <2> DEFINE p == Pop(q, c)
  <2>1. /\ p \in [Conns -> Seq(S)] /\ Len(p[c]) = Len(q[c]) - 1
        /\ \A e \in Conns \ {c} : p[e] = q[e]
    BY <1>2, PopTyped
  <2> HIDE DEF p
  <2>2. ASSUME NEW e \in Conns PROVE Len(p[e]) <= cap
    <3>1. CASE e = c
      <4>1. Len(p[e]) = Len(q[c]) - 1 /\ Len(q[c]) <= cap
        BY <3>1, <2>1
      <4> QED
        BY <4>1, <1>0
    <3>2. CASE e # c
      <4>1. p[e] = q[e]
        BY <3>2, <2>1
      <4> QED
        BY <4>1
    <3> QED
      BY <3>1, <3>2
  <2> QED
    BY <2>1, <2>2 DEF p
<1> QED
  BY <1>1, <1>2

LEMMA OneFrame ==
  ASSUME NEW s \in Seq(Frame), Len(s) = 1
  PROVE  s[1] \in Frame /\ s = <<s[1]>>
<1>1. s[1] \in Frame
  OBVIOUS
<1> QED
  BY <1>1, SeqEqual

\* The type invariant, by the kind of its variables.
TasksTyped ==
  /\ deck \in {"plugged", "gone"}
  /\ endpoint \in Conns \cup {None}
  /\ conn \in [Conns -> {"new", "open", "closed"}]
  /\ loop \in [Conns -> {"select", "lock", "transfer", "answer"}]
  /\ reader \in [Conns -> {"none", "spawned", "polling", "sending", "aborted", "ended"}]

LockTyped == lock \in Seq(Conns)

FramesTyped ==
  /\ job \in [Conns -> Seq(Frame)] /\ inbox \in [Conns -> Seq(Frame)]
  /\ \A c \in Conns : Len(job[c]) <= 1

InputTyped ==
  input \in [Conns -> Seq([is : {"input"}, nr : Nat])] /\ \A c \in Conns : Len(input[c]) <= InCap

TxTyped == tx \in [Conns -> Seq(Message)] /\ \A c \in Conns : Len(tx[c]) <= TxCap

SentTyped ==
  /\ sent \in [Conns -> Nat] /\ owed \in [Conns -> SUBSET Nat]
  /\ \A c \in Conns : sent[c] <= MaxFrames[c] /\ owed[c] \subseteq 1 .. sent[c]

ReportsTyped ==
  /\ reports \in 0 .. MaxReports /\ emitted \in [Conns -> SUBSET Nat]
  /\ \A c \in Conns : emitted[c] \subseteq 1 .. reports

LEMMA TypeInParts ==
  TypeOK <=> /\ TasksTyped /\ LockTyped /\ FramesTyped /\ InputTyped /\ TxTyped
             /\ SentTyped /\ ReportsTyped
BY DEF TypeOK, TasksTyped, LockTyped, FramesTyped, InputTyped, TxTyped, SentTyped, ReportsTyped

LEMMA PartsUnchanged ==
  /\ FramesTyped /\ UNCHANGED <<job, inbox>> => FramesTyped'
  /\ InputTyped /\ UNCHANGED input => InputTyped'
  /\ TxTyped /\ UNCHANGED tx => TxTyped'
  /\ SentTyped /\ UNCHANGED <<sent, owed>> => SentTyped'
  /\ ReportsTyped /\ UNCHANGED <<reports, emitted>> => ReportsTyped'
BY DEF FramesTyped, InputTyped, TxTyped, SentTyped, ReportsTyped

LEMMA TasksTypedStep ==
  ASSUME TasksTyped, [Next]_vars PROVE TasksTyped'
<1> USE DEF TasksTyped
<1>1. CASE Unplug
  BY <1>1 DEF Unplug, loopVars, inputVars
<1>2. ASSUME NEW c \in Conns, LoopStep(c) PROVE TasksTyped'
  BY <1>2 DEF LoopStep, HandleFrame, Lock, TransferEnds, SendAnswer, inputVars
<1>3. ASSUME NEW c \in Conns, ReaderStep(c) PROVE TasksTyped'
  BY <1>3 DEF ReaderStep, OpenEndpoint, ReaderSends, ReaderDisconnected, DropReader, loopVars
<1>4. ASSUME NEW c \in Conns, ForwardInput(c) \/ Deliver(c) PROVE TasksTyped'
  BY <1>4 DEF ForwardInput, Deliver, loopVars
<1>5. ASSUME NEW c \in Conns, ClientStep(c) PROVE TasksTyped'
  BY <1>5 DEF ClientStep, Accept, Close, Press, SendFrame, loopVars, inputVars
<1>6. CASE UNCHANGED vars
  BY <1>6 DEF vars, loopVars, inputVars
<1> QED
  BY <1>1, <1>2, <1>3, <1>4, <1>5, <1>6 DEF Next

(***************************************************************************)
(* The queue of write_lock, in which every connection is at most once.     *)
(***************************************************************************)
InLine(s, e) == \E i \in DOMAIN s : s[i] = e
Once(s) == \A i, j \in DOMAIN s : s[i] = s[j] => i = j

LEMMA LineGrows ==
  ASSUME NEW s \in Seq(Conns), NEW c \in Conns, Once(s), ~ InLine(s, c)
  PROVE  /\ Append(s, c) \in Seq(Conns) /\ Append(s, c) # <<>> /\ Once(Append(s, c))
         /\ s # <<>> => Head(Append(s, c)) = Head(s)
         /\ \A e \in Conns : InLine(Append(s, c), e) <=> InLine(s, e) \/ e = c
<1> DEFINE t == Append(s, c)
<1>1. /\ t \in Seq(Conns) /\ t # <<>> /\ Len(t) = Len(s) + 1 /\ Len(s) \in Nat
      /\ DOMAIN s = 1 .. Len(s) /\ DOMAIN t = 1 .. Len(s) + 1
      /\ \A i \in 1 .. Len(s) : t[i] = s[i]
      /\ t[Len(s) + 1] = c
  BY AppendProperties
<1>2. s # <<>> => Len(s) >= 1 /\ Head(s) = s[1] /\ Head(t) = t[1]
  BY <1>1, EmptySeq, HeadTailProperties
<1> HIDE DEF t
<1>3. s # <<>> => Head(t) = Head(s)
  BY <1>1, <1>2
<1>4. Once(t)
  BY <1>1 DEF Once, InLine
<1>5. ASSUME NEW e \in Conns PROVE InLine(t, e) <=> InLine(s, e) \/ e = c
  BY <1>1 DEF InLine
<1> QED
  BY <1>1, <1>3, <1>4, <1>5 DEF t

LEMMA LineMoves ==
  ASSUME NEW s \in Seq(Conns), Once(s), s # <<>>
  PROVE  /\ Tail(s) \in Seq(Conns) /\ Once(Tail(s))
         /\ \A e \in Conns : InLine(Tail(s), e) <=> InLine(s, e) /\ e # Head(s)
<1> DEFINE t == Tail(s)
<1>1. /\ t \in Seq(Conns) /\ Len(t) = Len(s) - 1 /\ Len(s) \in Nat \ {0}
      /\ DOMAIN s = 1 .. Len(s) /\ DOMAIN t = 1 .. Len(s) - 1
      /\ \A i \in 1 .. Len(t) : t[i] = s[i + 1]
      /\ Head(s) = s[1]
  BY HeadTailProperties, EmptySeq
<1> HIDE DEF t
<1>2. \A i \in DOMAIN t : i + 1 \in DOMAIN s /\ t[i] = s[i + 1]
  BY <1>1
<1>3. ASSUME NEW i \in DOMAIN t, NEW j \in DOMAIN t, t[i] = t[j] PROVE i = j
  <2>1. i + 1 = j + 1
    BY <1>2, <1>3 DEF Once
  <2> QED
    BY <2>1, <1>1
<1>4. ASSUME NEW e \in Conns, InLine(t, e) PROVE InLine(s, e) /\ e # Head(s)
  <2>1. PICK i \in DOMAIN t : t[i] = e
    BY <1>4 DEF InLine
  <2>2. i + 1 \in DOMAIN s /\ s[i + 1] = e /\ i + 1 # 1 /\ 1 \in DOMAIN s
    BY <2>1, <1>1, <1>2
  <2> QED
    BY <2>2, <1>1 DEF InLine, Once
<1>5. ASSUME NEW e \in Conns, InLine(s, e), e # Head(s) PROVE InLine(t, e)
  <2>1. PICK i \in DOMAIN s : s[i] = e
    BY <1>5 DEF InLine
  <2>2. i - 1 \in DOMAIN t /\ i - 1 + 1 = i
    BY <2>1, <1>1, <1>5
  <2> QED
    BY <2>1, <2>2, <1>2 DEF InLine
<1> QED
  BY <1>1, <1>3, <1>4, <1>5 DEF t, Once

LEMMA OneTransferIs ==
  OneTransferAtATime <=>
    /\ \A c \in Conns : loop[c] = "transfer" => lock # <<>> /\ Head(lock) = c
    /\ \A c \in Conns : loop[c] \in {"lock", "transfer"} <=> InLine(lock, c)
    /\ Once(lock)
BY DEF OneTransferAtATime, InLine, Once

LEMMA TransfersStep ==
  ASSUME TasksTyped, LockTyped, OneTransferAtATime, [Next]_vars
  PROVE  LockTyped' /\ OneTransferAtATime'
<1>a. /\ \A c \in Conns : loop[c] = "transfer" => lock # <<>> /\ Head(lock) = c
      /\ \A c \in Conns : loop[c] \in {"lock", "transfer"} <=> InLine(lock, c)
      /\ Once(lock) /\ lock \in Seq(Conns)
      /\ loop \in [Conns -> {"select", "lock", "transfer", "answer"}]
  BY OneTransferIs DEF LockTyped, TasksTyped
<1>b. ASSUME /\ \A c \in Conns : loop'[c] = "transfer" => lock' # <<>> /\ Head(lock') = c
             /\ \A c \in Conns : loop'[c] \in {"lock", "transfer"} <=> InLine(lock', c)
             /\ Once(lock') /\ lock' \in Seq(Conns)
      PROVE  LockTyped' /\ OneTransferAtATime'
  BY <1>b DEF LockTyped, OneTransferAtATime, InLine, Once
<1>c. CASE UNCHANGED <<lock, loop>>
  BY <1>a, <1>b, <1>c
<1>1. CASE Unplug
  BY <1>1, <1>c DEF Unplug, loopVars
<1>2. ASSUME NEW c \in Conns, LoopStep(c) PROVE LockTyped' /\ OneTransferAtATime'
  <2>1. CASE HandleFrame(c)
    <3>1. loop[c] = "select" /\ \A e \in Conns \ {c} : loop'[e] = loop[e]
      BY <2>1, <1>a DEF HandleFrame
    <3>2. ~ InLine(lock, c)
      BY <3>1, <1>a
    <3>3. \/ loop'[c] = "lock" /\ lock' = Append(lock, c)
          \/ loop'[c] \in {"select", "answer"} /\ lock' = lock
      BY <2>1, <1>a DEF HandleFrame
    <3>4. CASE loop'[c] = "lock" /\ lock' = Append(lock, c)
      <4>1. /\ lock' \in Seq(Conns) /\ lock' # <<>> /\ Once(lock')
            /\ lock # <<>> => Head(lock') = Head(lock)
            /\ \A e \in Conns : InLine(lock', e) <=> InLine(lock, e) \/ e = c
        BY <3>2, <3>4, <1>a, LineGrows
      <4> QED
        BY <4>1, <3>1, <3>4, <1>a, <1>b
    <3>5. CASE loop'[c] \in {"select", "answer"} /\ lock' = lock
      BY <3>1, <3>2, <3>5, <1>a, <1>b
    <3> QED
      BY <3>3, <3>4, <3>5
  <2>2. CASE Lock(c)
    <3>1. /\ loop[c] = "lock" /\ loop'[c] = "transfer" /\ lock' = lock /\ Head(lock) = c
          /\ \A e \in Conns \ {c} : loop'[e] = loop[e]
      BY <2>2, <1>a DEF Lock
    <3>2. lock # <<>>
      BY <3>1, <1>a DEF InLine
    <3> QED
      BY <3>1, <3>2, <1>a, <1>b
  <2>3. CASE TransferEnds(c)
    <3>1. /\ loop[c] = "transfer" /\ loop'[c] \in {"select", "answer"} /\ lock' = Tail(lock)
          /\ \A e \in Conns \ {c} : loop'[e] = loop[e]
      BY <2>3, <1>a DEF TransferEnds
    <3>2. lock # <<>> /\ Head(lock) = c
      BY <3>1, <1>a
    <3>3. /\ lock' \in Seq(Conns) /\ Once(lock')
          /\ \A e \in Conns : InLine(lock', e) <=> InLine(lock, e) /\ e # c
      BY <3>1, <3>2, <1>a, LineMoves
    <3> QED
      BY <3>1, <3>2, <3>3, <1>a, <1>b
  <2>4. CASE SendAnswer(c)
    <3>1. /\ loop[c] = "answer" /\ loop'[c] = "select" /\ lock' = lock
          /\ \A e \in Conns \ {c} : loop'[e] = loop[e]
      BY <2>4, <1>a DEF SendAnswer
    <3> QED
      BY <3>1, <1>a, <1>b
  <2> QED
    BY <1>2, <2>1, <2>2, <2>3, <2>4 DEF LoopStep
<1>3. ASSUME NEW c \in Conns, ReaderStep(c) PROVE LockTyped' /\ OneTransferAtATime'
  BY <1>3, <1>c DEF ReaderStep, OpenEndpoint, ReaderSends, ReaderDisconnected, DropReader, loopVars
<1>4. ASSUME NEW c \in Conns, ForwardInput(c) \/ Deliver(c) PROVE LockTyped' /\ OneTransferAtATime'
  BY <1>4, <1>c DEF ForwardInput, Deliver, loopVars
<1>5. ASSUME NEW c \in Conns, ClientStep(c) PROVE LockTyped' /\ OneTransferAtATime'
  BY <1>5, <1>c DEF ClientStep, Accept, Close, Press, SendFrame, loopVars
<1>6. CASE UNCHANGED vars
  BY <1>6, <1>c DEF vars, loopVars
<1> QED
  BY <1>1, <1>2, <1>3, <1>4, <1>5, <1>6 DEF Next

LEMMA BridgeTypeStep == TypeOK /\ JobInLoop /\ OneTransferAtATime /\ [Next]_vars => TypeOK'
<1> SUFFICES ASSUME TypeOK, JobInLoop, OneTransferAtATime, [Next]_vars PROVE TypeOK'
  OBVIOUS
<1>a. TasksTyped /\ LockTyped /\ FramesTyped /\ InputTyped /\ TxTyped /\ SentTyped /\ ReportsTyped
  BY TypeInParts
<1>b. TasksTyped' /\ LockTyped'
  BY <1>a, TasksTypedStep, TransfersStep
<1>c. TypeOK' <=> /\ TasksTyped' /\ LockTyped' /\ FramesTyped' /\ InputTyped' /\ TxTyped'
                /\ SentTyped' /\ ReportsTyped'
  BY TypeInParts, PTL
<1> USE BridgeAssumption
<1>1. CASE Unplug
  BY <1>1, <1>a, <1>b, <1>c, PartsUnchanged DEF Unplug, loopVars, inputVars
<1>2. ASSUME NEW c \in Conns, LoopStep(c) PROVE TypeOK'
  <2>1. CASE HandleFrame(c)
    <3>1. Pop(inbox, c) \in [Conns -> Seq(Frame)] /\ Head(inbox[c]) \in Frame
      BY <2>1, <1>a, PopTyped DEF HandleFrame, FramesTyped
    <3>2. /\ job' \in [Conns -> Seq(Frame)]
          /\ \A e \in Conns : Len(job'[e]) <= 1
      BY <2>1, <3>1, <1>a DEF HandleFrame, FramesTyped
    <3>3. FramesTyped'
      BY <2>1, <3>1, <3>2 DEF FramesTyped, HandleFrame
    <3> QED
      BY <2>1, <3>3, <1>a, <1>b, <1>c, PartsUnchanged DEF HandleFrame, inputVars
  <2>2. CASE Lock(c)
    BY <2>2, <1>a, <1>b, <1>c, PartsUnchanged DEF Lock, inputVars
  <2>3. CASE TransferEnds(c)
    <3>1. FramesTyped'
      BY <2>3, <1>a DEF TransferEnds, FramesTyped
    <3> QED
      BY <2>3, <3>1, <1>a, <1>b, <1>c, PartsUnchanged DEF TransferEnds, inputVars
  <2>4. CASE SendAnswer(c)
    <3>1. job[c][1] \in Frame
      BY <2>4, <1>a, OneFrame DEF SendAnswer, JobInLoop, FramesTyped
    <3>2. Answer(job[c][1].nr) \in Message
      BY <3>1 DEF Answer, Frame, Message
    <3>3. TxTyped'
      BY <2>4, <3>2, <1>a, WithinCapacity DEF SendAnswer, TxTyped
    <3>4. FramesTyped'
      BY <2>4, <1>a DEF SendAnswer, FramesTyped
    <3> QED
      BY <2>4, <3>3, <3>4, <1>a, <1>b, <1>c, PartsUnchanged DEF SendAnswer, inputVars
  <2> QED
    BY <1>2, <2>1, <2>2, <2>3, <2>4 DEF LoopStep
<1>3. ASSUME NEW c \in Conns, ReaderStep(c) PROVE TypeOK'
  <2>1. CASE OpenEndpoint(c)
    BY <2>1, <1>a, <1>b, <1>c, PartsUnchanged DEF OpenEndpoint, loopVars
  <2>2. CASE ReaderSends(c)
    <3>1. Input(reports) \in [is : {"input"}, nr : Nat]
      BY <1>a DEF Input, ReportsTyped
    <3>2. InputTyped'
      BY <2>2, <3>1, <1>a, WithinCapacity DEF ReaderSends, InputTyped
    <3> QED
      BY <2>2, <3>2, <1>a, <1>b, <1>c, PartsUnchanged DEF ReaderSends, loopVars
  <2>3. CASE ReaderDisconnected(c)
    BY <2>3, <1>a, <1>b, <1>c, PartsUnchanged DEF ReaderDisconnected, loopVars
  <2>4. CASE DropReader(c)
    BY <2>4, <1>a, <1>b, <1>c, PartsUnchanged DEF DropReader, loopVars
  <2> QED
    BY <1>3, <2>1, <2>2, <2>3, <2>4 DEF ReaderStep
<1>4. ASSUME NEW c \in Conns, ForwardInput(c) PROVE TypeOK'
  <2> DEFINE I == [is : {"input"}, nr : Nat]
  <2>1. InputTyped'
    BY <1>4, <1>a, WithinCapacity DEF ForwardInput, InputTyped
  <2>4. Head(input[c]) \in I
    BY <1>4, <1>a, PopTyped DEF ForwardInput, InputTyped
  <2>2. Head(input[c]) \in Message
    BY <2>4 DEF Message
  <2>3. TxTyped'
    BY <1>4, <2>2, <1>a, WithinCapacity DEF ForwardInput, TxTyped
  <2> QED
    BY <1>4, <2>1, <2>3, <1>a, <1>b, <1>c, PartsUnchanged DEF ForwardInput, loopVars
<1>5. ASSUME NEW c \in Conns, Deliver(c) PROVE TypeOK'
  <2>1. TxTyped'
    BY <1>5, <1>a, WithinCapacity DEF Deliver, TxTyped
  <2>2. SentTyped'
    BY <1>5, <1>a DEF Deliver, SentTyped
  <2>3. ReportsTyped'
    BY <1>5, <1>a DEF Deliver, ReportsTyped
  <2> QED
    BY <1>5, <2>1, <2>2, <2>3, <1>a, <1>b, <1>c, PartsUnchanged DEF Deliver
<1>6. ASSUME NEW c \in Conns, ClientStep(c) PROVE TypeOK'
  <2>1. CASE Accept(c)
    BY <2>1, <1>a, <1>b, <1>c, PartsUnchanged DEF Accept
  <2>2. CASE Close(c)
    <3>1. FramesTyped' /\ InputTyped' /\ TxTyped'
      BY <2>2, <1>a DEF Close, Forgotten, FramesTyped, InputTyped, TxTyped
    <3>2. SentTyped'
      BY <2>2, <1>a DEF Close, Forgotten, SentTyped
    <3>3. ReportsTyped'
      BY <2>2, <1>a DEF Close, Forgotten, ReportsTyped
    <3> QED
      BY <3>1, <3>2, <3>3, <1>b, <1>c
  <2>3. CASE Press(c)
    <3>1. reports' \in 0 .. MaxReports /\ reports' = reports + 1 /\ reports \in Nat
      BY <2>3, <1>a DEF Press, ReportsTyped
    <3>2. emitted' \in [Conns -> SUBSET Nat]
      BY <2>3, <3>1, <1>a DEF Press, ReportsTyped
    <3>3. \A e \in Conns : emitted'[e] \subseteq emitted[e] \cup {reports'}
      BY <2>3, <3>1, <1>a DEF Press, ReportsTyped
    <3>4. \A e \in Conns : emitted'[e] \subseteq 1 .. reports'
      BY <3>1, <3>3, <1>a DEF ReportsTyped
    <3>5. ReportsTyped'
      BY <3>1, <3>2, <3>4 DEF ReportsTyped
    <3> QED
      BY <2>3, <3>5, <1>a, <1>b, <1>c, PartsUnchanged DEF Press, loopVars
  <2>4. ASSUME NEW k \in Kinds, SendFrame(c, k) PROVE TypeOK'
    <3> DEFINE n == NextNr(c)
               f == [is |-> k, nr |-> n]
    <3>0. n \in Nat \ {0} /\ owed[c] \subseteq 1 .. n
      BY <1>a DEF NextNr, SentTyped
    <3>1. f \in Frame
      BY <3>0 DEF Frame
    <3> HIDE DEF n
    <3>2. FramesTyped'
      BY <2>4, <3>1, <1>a, PushTyped DEF SendFrame, FramesTyped, n
    <3>3. /\ sent' \in [Conns -> Nat] /\ sent'[c] = n /\ n <= MaxFrames[c]
          /\ \A e \in Conns \ {c} : sent'[e] = sent[e]
      BY <2>4, <3>0, <1>a DEF SendFrame, SentTyped, n
    <3>4. /\ owed' \in [Conns -> SUBSET Nat] /\ owed'[c] \subseteq owed[c] \cup {n}
          /\ \A e \in Conns \ {c} : owed'[e] = owed[e]
      BY <2>4, <3>0, <1>a DEF SendFrame, SentTyped, n
    <3>5. SentTyped'
      BY <3>0, <3>3, <3>4, <1>a DEF SentTyped
    <3> QED
      BY <2>4, <3>2, <3>5, <1>a, <1>b, <1>c, PartsUnchanged DEF SendFrame, inputVars
  <2> QED
    BY <1>6, <2>1, <2>2, <2>3, <2>4 DEF ClientStep
<1>7. CASE UNCHANGED vars
  BY <1>7, <1>a, <1>b, <1>c, PartsUnchanged DEF vars, loopVars, inputVars
<1> QED
  BY <1>1, <1>2, <1>3, <1>4, <1>5, <1>6, <1>7 DEF Next

LEMMA ReadersStep ==
  ASSUME TasksTyped, ReaderHolds, BlankUnlessOpen, [Next]_vars PROVE ReaderHolds'
<1> USE BridgeAssumption DEF TasksTyped, ReaderHolds
<1>1. CASE Unplug
  BY <1>1 DEF Unplug, inputVars
<1>2. ASSUME NEW c \in Conns, LoopStep(c) PROVE ReaderHolds'
  BY <1>2 DEF LoopStep, HandleFrame, Lock, TransferEnds, SendAnswer, inputVars
<1>3. ASSUME NEW c \in Conns, ReaderStep(c) PROVE ReaderHolds'
  BY <1>3 DEF ReaderStep, OpenEndpoint, ReaderSends, ReaderDisconnected, DropReader
<1>4. ASSUME NEW c \in Conns, ForwardInput(c) \/ Deliver(c) PROVE ReaderHolds'
  BY <1>4 DEF ForwardInput, Deliver
<1>5. ASSUME NEW c \in Conns, Accept(c) PROVE ReaderHolds'
  BY <1>5 DEF Accept, BlankUnlessOpen
<1>6. ASSUME NEW c \in Conns, Close(c) \/ Press(c) \/ \E k \in Kinds : SendFrame(c, k) PROVE ReaderHolds'
  BY <1>6 DEF Close, Press, SendFrame, inputVars
<1>7. CASE UNCHANGED vars
  BY <1>7 DEF vars, inputVars
<1> QED
  BY <1>1, <1>2, <1>3, <1>4, <1>5, <1>6, <1>7 DEF Next, ClientStep

LEMMA LoopsStep ==
  ASSUME TypeOK, JobInLoop, [Next]_vars PROVE JobInLoop'
<1>a. TasksTyped /\ FramesTyped
  BY TypeInParts
<1> USE DEF TasksTyped, FramesTyped, JobInLoop
<1>1. CASE Unplug
  BY <1>a, <1>1 DEF Unplug, loopVars
<1>2. ASSUME NEW c \in Conns, LoopStep(c) PROVE JobInLoop'
  <2>1. CASE HandleFrame(c)
    BY <1>a, <2>1 DEF HandleFrame, IsAnswered
  <2>2. CASE Lock(c)
    BY <1>a, <2>2 DEF Lock
  <2>3. CASE TransferEnds(c)
    BY <1>a, <2>3 DEF TransferEnds, IsAnswered
  <2>4. CASE SendAnswer(c)
    BY <1>a, <2>4 DEF SendAnswer
  <2> QED
    BY <1>2, <2>1, <2>2, <2>3, <2>4 DEF LoopStep
<1>3. ASSUME NEW c \in Conns, ReaderStep(c) PROVE JobInLoop'
  BY <1>a, <1>3 DEF ReaderStep, OpenEndpoint, ReaderSends, ReaderDisconnected, DropReader, loopVars
<1>4. ASSUME NEW c \in Conns, ForwardInput(c) \/ Deliver(c) PROVE JobInLoop'
  BY <1>a, <1>4 DEF ForwardInput, Deliver, loopVars
<1>5. ASSUME NEW c \in Conns, ClientStep(c) PROVE JobInLoop'
  BY <1>a, <1>5 DEF ClientStep, Accept, Close, Press, SendFrame, loopVars
<1>6. CASE UNCHANGED vars
  BY <1>a, <1>6 DEF vars, loopVars
<1> QED
  BY <1>1, <1>2, <1>3, <1>4, <1>5, <1>6 DEF Next

LEMMA BlankStep ==
  ASSUME TypeOK, JobInLoop, BlankUnlessOpen, OneTransferAtATime, [Next]_vars PROVE BlankUnlessOpen'
<1>a. TypeOK'
  BY BridgeTypeStep
<1>b. TasksTyped /\ FramesTyped /\ InputTyped /\ TxTyped /\ SentTyped /\ ReportsTyped
  BY TypeInParts
<1>c. TasksTyped' /\ FramesTyped' /\ InputTyped' /\ TxTyped' /\ SentTyped' /\ ReportsTyped'
  BY <1>a, TypeInParts, PTL
<1> DEFINE Blank(e) ==
     /\ conn[e] = "new" => reader[e] = "none"
     /\ conn[e] = "closed" => reader[e] \in {"aborted", "ended"}
     /\ conn[e] # "open" => /\ tx[e] = <<>> /\ input[e] = <<>> /\ inbox[e] = <<>>
                            /\ owed[e] = {} /\ emitted[e] = {}
<1>d. \A e \in Conns : Blank(e)
  BY DEF BlankUnlessOpen
<1> SUFFICES ASSUME NEW e \in Conns PROVE Blank(e)'
  BY DEF BlankUnlessOpen
<1>1. CASE Unplug
  BY <1>1, <1>d DEF Unplug, loopVars, inputVars
<1>2. ASSUME NEW c \in Conns, LoopStep(c) PROVE Blank(e)'
  <2>1. conn[c] = "open" /\ UNCHANGED <<conn, reader, input, owed, emitted>>
    BY <1>2 DEF LoopStep, HandleFrame, Lock, TransferEnds, SendAnswer, JobInLoop, inputVars
  <2>2. e # c => UNCHANGED <<tx[e], inbox[e]>>
    BY <1>2, <1>b DEF LoopStep, HandleFrame, Lock, TransferEnds, SendAnswer, Push, Pop,
                      inputVars, FramesTyped, TxTyped
  <2> QED
    BY <2>1, <2>2, <1>d
<1>3. ASSUME NEW c \in Conns, ReaderStep(c) PROVE Blank(e)'
  <2>1. UNCHANGED <<conn, tx, inbox, owed, emitted>>
    BY <1>3 DEF ReaderStep, OpenEndpoint, ReaderSends, ReaderDisconnected, DropReader, loopVars
  <2>2. e # c => UNCHANGED <<input[e], reader[e]>>
    BY <1>3, <1>b DEF ReaderStep, OpenEndpoint, ReaderSends, ReaderDisconnected, DropReader, Push,
                      InputTyped, TasksTyped
  <2>3. conn[c] = "open" \/ (UNCHANGED input /\ reader[c] = "aborted" /\ reader'[c] = "ended" /\ conn[c] = "closed")
    BY <1>3, <1>b, <1>d DEF ReaderStep, OpenEndpoint, ReaderSends, ReaderDisconnected, DropReader, TasksTyped
  <2> QED
    BY <2>1, <2>2, <2>3, <1>d
<1>4. ASSUME NEW c \in Conns, ForwardInput(c) \/ Deliver(c) PROVE Blank(e)'
  <2>1. conn[c] = "open" /\ UNCHANGED <<conn, reader, inbox>>
    BY <1>4, <1>b, <1>d DEF ForwardInput, Deliver, TasksTyped, loopVars
  <2>2. e # c => UNCHANGED <<tx[e], input[e], owed[e], emitted[e]>>
    BY <1>4, <1>b DEF ForwardInput, Deliver, Push, Pop, TxTyped, InputTyped, SentTyped, ReportsTyped, loopVars
  <2> QED
    BY <2>1, <2>2, <1>d
<1>5. ASSUME NEW c \in Conns, ClientStep(c) PROVE Blank(e)'
  <2>1. CASE Accept(c)
    BY <2>1, <1>b, <1>d DEF Accept, TasksTyped
  <2>2. CASE Close(c)
    BY <2>2, <1>b, <1>d DEF Close, Forgotten, TasksTyped, FramesTyped, TxTyped, InputTyped, SentTyped, ReportsTyped
  <2>3. CASE Press(c)
    BY <2>3, <1>b, <1>d DEF Press, loopVars, TasksTyped, ReportsTyped
  <2>4. ASSUME NEW k \in Kinds, SendFrame(c, k) PROVE Blank(e)'
    <3>1. conn[c] = "open" /\ UNCHANGED <<conn, reader, tx, input, emitted>>
      BY <2>4 DEF SendFrame, inputVars
    <3>2. e # c => UNCHANGED <<inbox[e], owed[e]>>
      BY <2>4, <1>b DEF SendFrame, Push, FramesTyped, SentTyped
    <3> QED
      BY <3>1, <3>2, <1>d
  <2> QED
    BY <1>5, <2>1, <2>2, <2>3, <2>4 DEF ClientStep
<1>6. CASE UNCHANGED vars
  BY <1>6, <1>d DEF vars, loopVars, inputVars
<1> QED
  BY <1>1, <1>2, <1>3, <1>4, <1>5, <1>6 DEF Next

LEMMA TasksStep == TasksInv /\ [Next]_vars => TasksInv'
BY BridgeTypeStep, TransfersStep, ReadersStep, LoopsStep, BlankStep, TypeInParts DEF TasksInv

--------------------------------------------------------------------------------
(***************************************************************************)
(* The line of the answers: tx, the frame in the loop, the inbox.          *)
(***************************************************************************)
Counted(c) == {"answer"} \cup Answered(c)

LEMMA AnswersAre ==
  AnswersAddUp <=> \A c \in Conns : Ordered(tx[c], job[c], inbox[c], Counted(c), owed[c])
BY DEF AnswersAddUp, Ordered, Counted

LEMMA CountedIs ==
  ASSUME NEW c \in Conns
  PROVE  "answer" \in Counted(c) /\ "input" \notin Counted(c)
BY DEF Counted, Answered

LEMMA AnswersStep ==
  ASSUME TasksInv, AnswersAddUp, [Next]_vars PROVE AnswersAddUp'
<1>a. /\ tx \in [Conns -> Seq(Message)] /\ inbox \in [Conns -> Seq(Frame)] /\ job \in [Conns -> Seq(Frame)]
      /\ input \in [Conns -> Seq([is : {"input"}, nr : Nat])]
      /\ sent \in [Conns -> Nat] /\ owed \in [Conns -> SUBSET Nat]
      /\ \A e \in Conns : owed[e] \subseteq 1 .. sent[e]
  BY DEF TasksInv, TypeOK
<1>b. \A e \in Conns : tx[e] \in Seq(Item) /\ inbox[e] \in Seq(Item) /\ job[e] \in Seq(Item)
  BY <1>a, ItemsOfSeq
<1>c. \A e \in Conns : Ordered(tx[e], job[e], inbox[e], Counted(e), owed[e])
  BY AnswersAre
<1>d. JobInLoop
  BY DEF TasksInv
<1>f. AnswersAddUp' <=> \A e \in Conns : Ordered(tx'[e], job'[e], inbox'[e], Counted(e), owed'[e])
  BY DEF AnswersAddUp, Ordered, Counted
<1> SUFFICES ASSUME NEW e \in Conns
             PROVE  Ordered(tx'[e], job'[e], inbox'[e], Counted(e), owed'[e])
  BY <1>f
<1> DEFINE Goal == Ordered(tx'[e], job'[e], inbox'[e], Counted(e), owed'[e])
<1>e. ASSUME UNCHANGED <<tx[e], job[e], inbox[e], owed[e]>> PROVE Goal
  BY <1>c, <1>e
<1> SUFFICES Goal
  OBVIOUS
<1> HIDE DEF Goal
<1>1. CASE Unplug
  BY <1>1, <1>e DEF Unplug, loopVars
<1>2. ASSUME NEW c \in Conns, LoopStep(c) PROVE Goal
  <2>0. CASE e # c
    BY <2>0, <1>2, <1>a, <1>e DEF LoopStep, HandleFrame, Lock, TransferEnds, SendAnswer, Push, Pop
  <2>1. CASE e = c /\ HandleFrame(c)
    <3> DEFINE f == Head(inbox[c])
    <3>1. job[c] = <<>> /\ inbox[c] # <<>> /\ inbox'[c] = Tail(inbox[c]) /\ UNCHANGED <<tx, owed>>
      BY <2>1, <1>a, <1>d DEF HandleFrame, Pop, JobInLoop
    <3>2. f \in Frame /\ f \in Item /\ Tail(inbox[c]) \in Seq(Item)
      BY <3>1, <1>a, <1>b, HeadTailProperties
    <3>3. Ordered(tx[c], <<f>>, Tail(inbox[c]), Counted(c), owed[c])
      BY <3>1, <3>2, <1>a, <1>b, <1>c, OneInTheMiddle
    <3>4. (job'[c] = <<f>>) \/ (job'[c] = <<>> /\ ~ IsAnswered(c, f))
      BY <2>1, <1>a DEF HandleFrame
    <3>5. CASE job'[c] = <<f>>
      BY <3>1, <3>3, <3>5, <2>1 DEF Goal
    <3>6. CASE job'[c] = <<>> /\ ~ IsAnswered(c, f)
      <4>1. f.is \notin Counted(c)
        BY <3>2, <3>6 DEF IsAnswered, Counted, Frame, Kinds
      <4>2. Ordered(tx[c], <<>>, Tail(inbox[c]), Counted(c), owed[c])
        BY <3>2, <3>3, <4>1, <1>a, <1>b, OneInTheMiddle
      <4> QED
        BY <3>1, <3>6, <4>2, <2>1 DEF Goal
    <3> QED
      BY <3>4, <3>5, <3>6
  <2>2. CASE Lock(c)
    BY <2>2, <1>e DEF Lock
  <2>3. CASE e = c /\ (TransferEnds(c) \/ SendAnswer(c))
    <3> DEFINE f == job[c][1]
    <3>1. f \in Frame /\ job[c] = <<f>>
      BY <2>3, <1>a, <1>d, OneFrame DEF TransferEnds, SendAnswer, JobInLoop
    <3>2. f \in Item
      BY <3>1 DEF Frame, Item
    <3> HIDE DEF f
    <3>3. Ordered(tx[c], <<f>>, inbox[c], Counted(c), owed[c])
      BY <3>1, <1>c
    <3>4. CASE TransferEnds(c)
      <4>1. (UNCHANGED job[c]) \/ (job'[c] = <<>> /\ ~ IsAnswered(c, f))
        BY <3>4, <1>a DEF TransferEnds, f
      <4>2. UNCHANGED <<tx, inbox, owed>>
        BY <3>4 DEF TransferEnds
      <4>3. CASE UNCHANGED job[c]
        BY <4>2, <4>3, <2>3, <1>e
      <4>4. CASE job'[c] = <<>> /\ ~ IsAnswered(c, f)
        <5>1. f.is \notin Counted(c)
          BY <3>1, <4>4 DEF IsAnswered, Counted, Frame, Kinds
        <5>2. Ordered(tx[c], <<>>, inbox[c], Counted(c), owed[c])
          BY <3>2, <3>3, <5>1, <1>a, <1>b, OneInTheMiddle
        <5> QED
          BY <4>2, <4>4, <5>2, <2>3 DEF Goal
      <4> QED
        BY <4>1, <4>3, <4>4
    <3>5. CASE SendAnswer(c)
      <4> DEFINE y == Answer(f.nr)
      <4>1. y \in Item /\ y.is = "answer" /\ y.nr = f.nr
        BY <3>2 DEF Answer, Item
      <4>2. f.is \in Counted(c) /\ y.is \in Counted(c)
        BY <4>1, <3>5, <1>d, CountedIs DEF SendAnswer, JobInLoop, Counted, f
      <4>3. tx'[c] = Append(tx[c], y) /\ job'[c] = <<>> /\ UNCHANGED <<inbox, owed>>
        BY <3>5, <1>a DEF SendAnswer, Push, f
      <4> HIDE DEF y
      <4>4. Ordered(Append(tx[c], y), <<>>, inbox[c], Counted(c), owed[c])
        BY <4>1, <4>2, <3>2, <3>3, <1>a, <1>b, OneInTheMiddle
      <4> QED
        BY <4>3, <4>4, <2>3 DEF Goal
    <3> QED
      BY <2>3, <3>4, <3>5
  <2> QED
    BY <1>2, <2>0, <2>1, <2>2, <2>3 DEF LoopStep
<1>3. ASSUME NEW c \in Conns, ReaderStep(c) PROVE Goal
  BY <1>3, <1>e DEF ReaderStep, OpenEndpoint, ReaderSends, ReaderDisconnected, DropReader, loopVars
<1>4. ASSUME NEW c \in Conns, ForwardInput(c) PROVE Goal
  <2>0. CASE e # c
    BY <2>0, <1>4, <1>a, <1>e DEF ForwardInput, Push, loopVars
  <2>1. CASE e = c
    <3> DEFINE x == Head(input[c])
    <3>1. x \in [is : {"input"}, nr : Nat] /\ tx'[c] = Append(tx[c], x) /\ UNCHANGED <<job, inbox, owed>>
      BY <1>4, <1>a, HeadTailProperties DEF ForwardInput, Push, loopVars
    <3>2. x \in Item /\ x.is \notin Counted(c)
      BY <3>1, CountedIs DEF Item
    <3> HIDE DEF x
    <3>3. Ordered(Append(tx[c], x), job[c], inbox[c], Counted(c), owed[c])
      BY <3>2, <1>a, <1>b, <1>c, StrangerJoins
    <3> QED
      BY <3>1, <3>3, <2>1 DEF Goal
  <2> QED
    BY <2>0, <2>1
<1>5. ASSUME NEW c \in Conns, Deliver(c) PROVE Goal
  <2>0. CASE e # c
    BY <2>0, <1>5, <1>a, <1>e DEF Deliver, Pop
  <2>1. CASE e = c
    <3> DEFINE x == Head(tx[c])
    <3>1. tx[c] # <<>> /\ tx'[c] = Tail(tx[c]) /\ UNCHANGED <<job, inbox>> /\ x \in Message
      BY <1>5, <1>a, HeadTailProperties DEF Deliver, Pop
    <3>2. /\ x.is \in Counted(c) => Ordered(Tail(tx[c]), job[c], inbox[c], Counted(c), owed[c] \ {x.nr})
          /\ x.is \notin Counted(c) => Ordered(Tail(tx[c]), job[c], inbox[c], Counted(c), owed[c])
      BY <3>1, <1>a, <1>b, <1>c, FirstLeaves
    <3>3. CASE x.is = "answer"
      <4>1. owed'[c] = owed[c] \ {x.nr}
        BY <3>3, <1>5, <1>a DEF Deliver
      <4> QED
        BY <4>1, <3>1, <3>2, <3>3, <2>1, CountedIs DEF Goal
    <3>4. CASE x.is = "input"
      <4>1. owed'[c] = owed[c]
        BY <3>4, <1>5, <1>a DEF Deliver
      <4> QED
        BY <4>1, <3>1, <3>2, <3>4, <2>1, CountedIs DEF Goal
    <3> QED
      BY <3>1, <3>3, <3>4 DEF Message
  <2> QED
    BY <2>0, <2>1
<1>6. ASSUME NEW c \in Conns, ClientStep(c) PROVE Goal
  <2>1. CASE Accept(c) \/ Press(c)
    BY <2>1, <1>e DEF Accept, Press, loopVars
  <2>2. CASE Close(c)
    <3>1. CASE e # c
      BY <3>1, <2>2, <1>a, <1>e DEF Close, Forgotten
    <3>2. CASE e = c
      <4>1. tx'[c] = <<>> /\ inbox'[c] = <<>> /\ job'[c] = <<>> /\ owed'[c] = {}
        BY <2>2, <1>a, <1>d DEF Close, Forgotten, JobInLoop
      <4> QED
        BY <4>1, <3>2, NothingOrdered DEF Goal
    <3> QED
      BY <3>1, <3>2
  <2>3. ASSUME NEW k \in Kinds, SendFrame(c, k) PROVE Goal
    <3>1. CASE e # c
      BY <3>1, <2>3, <1>a, <1>e DEF SendFrame, Push
    <3>2. CASE e = c
      <4> DEFINE f == [is |-> k, nr |-> NextNr(c)]
      <4>0. NextNr(c) \in Nat /\ \A n \in owed[c] : n < NextNr(c)
        BY <1>a DEF NextNr
      <4>1. f \in Item /\ f.nr = NextNr(c) /\ f.is = k
        BY <4>0 DEF Item
      <4>2. /\ inbox'[c] = Append(inbox[c], f) /\ UNCHANGED <<tx, job>>
            /\ owed'[c] = IF IsAnswered(c, f) THEN owed[c] \cup {f.nr} ELSE owed[c]
        BY <2>3, <1>a DEF SendFrame, Push
      <4>3. \A n \in owed[c] : n < f.nr
        BY <4>0, <4>1
      <4>4. IsAnswered(c, f) <=> f.is \in Counted(c)
        BY <4>1 DEF IsAnswered, Counted, Kinds
      <4> HIDE DEF f
      <4>5. /\ f.is \in Counted(c) => Ordered(tx[c], job[c], Append(inbox[c], f), Counted(c), owed[c] \cup {f.nr})
            /\ f.is \notin Counted(c) => Ordered(tx[c], job[c], Append(inbox[c], f), Counted(c), owed[c])
        BY <4>1, <4>3, <1>a, <1>b, <1>c, LastJoins
      <4>6. CASE f.is \in Counted(c)
        BY <4>2, <4>4, <4>5, <4>6, <3>2 DEF Goal
      <4>7. CASE f.is \notin Counted(c)
        BY <4>2, <4>4, <4>5, <4>7, <3>2 DEF Goal
      <4> QED
        BY <4>6, <4>7
    <3> QED
      BY <3>1, <3>2
  <2> QED
    BY <1>6, <2>1, <2>2, <2>3 DEF ClientStep
<1>7. CASE UNCHANGED vars
  BY <1>7, <1>e DEF vars, loopVars
<1> QED
  BY <1>1, <1>2, <1>3, <1>4, <1>5, <1>6, <1>7 DEF Next

--------------------------------------------------------------------------------
(***************************************************************************)
(* The line of the reports: tx, the input channel, what the reader holds.  *)
(***************************************************************************)
Held(r, n) == IF r = "sending" THEN <<Input(n)>> ELSE <<>>

LEMMA InputAre ==
  InputAddsUp <=>
    \A c \in Conns : conn[c] = "open" =>
      Ordered(tx[c], input[c], Held(reader[c], reports), {"input"}, emitted[c])
BY DEF InputAddsUp, Ordered, Held

LEMMA InputStep ==
  ASSUME TasksInv, InputAddsUp, [Next]_vars PROVE InputAddsUp'
<1> DEFINE I == [is : {"input"}, nr : Nat]
<1>a. /\ tx \in [Conns -> Seq(Message)] /\ job \in [Conns -> Seq(Frame)] /\ input \in [Conns -> Seq(I)]
      /\ reports \in Nat /\ emitted \in [Conns -> SUBSET Nat]
      /\ conn \in [Conns -> {"new", "open", "closed"}]
      /\ reader \in [Conns -> {"none", "spawned", "polling", "sending", "aborted", "ended"}]
      /\ \A e \in Conns : emitted[e] \subseteq 1 .. reports
  BY BridgeAssumption DEF TasksInv, TypeOK
<1>b. ASSUME NEW e \in Conns PROVE tx[e] \in Seq(Item) /\ input[e] \in Seq(Item)
  <2>1. tx[e] \in Seq(Item)
    BY <1>a, ItemsOfSeq
  <2>2. I \subseteq Item
    BY DEF Item
  <2>3. input[e] \in Seq(I)
    BY <1>a
  <2> QED
    BY <2>1, <2>2, <2>3, SeqMonotonic
<1>c. \A e \in Conns : conn[e] = "open" =>
         Ordered(tx[e], input[e], Held(reader[e], reports), {"input"}, emitted[e])
  BY InputAre
<1>d. \A n \in Nat : Input(n) \in Item /\ Input(n).is = "input" /\ Input(n).nr = n
  BY DEF Input, Item
<1>g. \A r : Held(r, reports) \in Seq(Item)
  BY <1>a, <1>d DEF Held
<1>h. JobInLoop /\ ReaderHolds /\ BlankUnlessOpen
  BY DEF TasksInv
<1>f. InputAddsUp' <=>
        \A e \in Conns : conn'[e] = "open" =>
          Ordered(tx'[e], input'[e], Held(reader'[e], reports'), {"input"}, emitted'[e])
  BY DEF InputAddsUp, Ordered, Held
<1> SUFFICES ASSUME NEW e \in Conns, conn'[e] = "open"
             PROVE  Ordered(tx'[e], input'[e], Held(reader'[e], reports'), {"input"}, emitted'[e])
  BY <1>f
<1> DEFINE Goal == Ordered(tx'[e], input'[e], Held(reader'[e], reports'), {"input"}, emitted'[e])
<1>e. ASSUME UNCHANGED <<tx[e], conn[e], input[e], emitted[e]>>,
             Held(reader'[e], reports') = Held(reader[e], reports)
      PROVE  Goal
  BY <1>c, <1>e
<1> SUFFICES Goal
  OBVIOUS
<1> HIDE DEF Goal, I
<1>1. CASE Unplug
  BY <1>1, <1>e DEF Unplug, loopVars, inputVars
<1>2. ASSUME NEW c \in Conns, LoopStep(c) PROVE Goal
  <2>0. CASE e # c
    BY <2>0, <1>2, <1>a, <1>e DEF LoopStep, HandleFrame, Lock, TransferEnds, SendAnswer, Push, inputVars
  <2>1. CASE HandleFrame(c) \/ Lock(c) \/ TransferEnds(c)
    BY <2>1, <1>e DEF HandleFrame, Lock, TransferEnds, inputVars
  <2>2. CASE e = c /\ SendAnswer(c)
    <3> DEFINE y == Answer(job[c][1].nr)
    <3>1. job[c][1] \in Frame
      BY <2>2, <1>a, <1>h, OneFrame DEF SendAnswer, JobInLoop
    <3>2. y \in Item /\ y.is \notin {"input"}
      BY <3>1 DEF Answer, Frame, Item
    <3>3. /\ tx'[c] = Append(tx[c], y) /\ UNCHANGED <<conn, input, reader, reports, emitted>>
      BY <2>2, <1>a DEF SendAnswer, Push, inputVars
    <3> HIDE DEF y
    <3> DEFINE h == Held(reader[c], reports)
    <3>5. h \in Seq(Item) /\ Ordered(tx[c], input[c], h, {"input"}, emitted[c])
      BY <2>2, <3>3, <1>c, <1>g
    <3> HIDE DEF h
    <3>4. Ordered(Append(tx[c], y), input[c], h, {"input"}, emitted[c])
      BY <3>2, <3>5, <1>a, <1>b, StrangerJoins
    <3> QED
      BY <3>3, <3>4, <2>2 DEF Goal, h
  <2> QED
    BY <1>2, <2>0, <2>1, <2>2 DEF LoopStep
<1>3. ASSUME NEW c \in Conns, ReaderStep(c) PROVE Goal
  <2>0. CASE e # c
    BY <2>0, <1>3, <1>a, <1>e DEF ReaderStep, OpenEndpoint, ReaderSends, ReaderDisconnected, DropReader, Push, loopVars
  <2>1. CASE e = c /\ ReaderSends(c)
    <3>1. /\ UNCHANGED <<tx, conn, emitted>>
          /\ input'[c] = Append(input[c], Input(reports))
          /\ Held(reader[c], reports) = <<Input(reports)>> /\ Held(reader'[c], reports') = <<>>
      BY <2>1, <1>a DEF ReaderSends, Push, Held, loopVars
    <3>2. Ordered(tx[c], input[c], <<Input(reports)>>, {"input"}, emitted[c])
      BY <2>1, <3>1, <1>c
    <3>3. Ordered(tx[c], Append(input[c], Input(reports)), <<>>, {"input"}, emitted[c])
      BY <3>2, <1>a, <1>b, <1>d, EndMovesUp
    <3> QED
      BY <3>1, <3>3, <2>1 DEF Goal
  <2>2. CASE e = c /\ (OpenEndpoint(c) \/ ReaderDisconnected(c) \/ DropReader(c))
    <3>1. reader[c] # "sending" /\ reader'[c] # "sending" /\ UNCHANGED <<tx, conn, input, emitted, reports>>
      BY <2>2, <1>a DEF OpenEndpoint, ReaderDisconnected, DropReader, loopVars
    <3> QED
      BY <2>2, <3>1, <1>e DEF Held
  <2> QED
    BY <1>3, <2>0, <2>1, <2>2 DEF ReaderStep
<1>4. ASSUME NEW c \in Conns, ForwardInput(c) PROVE Goal
  <2>0. CASE e # c
    BY <2>0, <1>4, <1>a, <1>e DEF ForwardInput, Push, Pop, loopVars
  <2>1. CASE e = c
    <3> DEFINE h == Held(reader[c], reports)
    <3>1. /\ input[c] # <<>> /\ tx'[c] = Append(tx[c], Head(input[c])) /\ input'[c] = Tail(input[c])
          /\ UNCHANGED <<conn, reader, reports, emitted>>
      BY <1>4, <1>a DEF ForwardInput, Push, Pop, loopVars
    <3>2. h \in Seq(Item) /\ Ordered(tx[c], input[c], h, {"input"}, emitted[c])
      BY <2>1, <3>1, <1>c, <1>g
    <3> HIDE DEF h
    <3>3. Ordered(Append(tx[c], Head(input[c])), Tail(input[c]), h, {"input"}, emitted[c])
      BY <3>1, <3>2, <1>b, MovesUp
    <3> QED
      BY <3>1, <3>3, <2>1 DEF Goal, h
  <2> QED
    BY <2>0, <2>1
<1>5. ASSUME NEW c \in Conns, Deliver(c) PROVE Goal
  <2>0. CASE e # c
    BY <2>0, <1>5, <1>a, <1>e DEF Deliver, Pop
  <2>1. CASE e = c
    <3> DEFINE x == Head(tx[c])
               h == Held(reader[c], reports)
    <3>1. /\ tx[c] # <<>> /\ tx'[c] = Tail(tx[c]) /\ UNCHANGED <<conn, reader, reports, input>>
          /\ x \in Message
      BY <1>5, <1>a, HeadTailProperties DEF Deliver, Pop
    <3>5. h \in Seq(Item) /\ Ordered(tx[c], input[c], h, {"input"}, emitted[c])
      BY <2>1, <3>1, <1>c, <1>g
    <3> HIDE DEF h
    <3>2. /\ x.is \in {"input"} => Ordered(Tail(tx[c]), input[c], h, {"input"}, emitted[c] \ {x.nr})
          /\ x.is \notin {"input"} => Ordered(Tail(tx[c]), input[c], h, {"input"}, emitted[c])
      BY <3>1, <3>5, <1>a, <1>b, FirstLeaves
    <3>3. CASE x.is = "answer"
      <4>1. emitted'[c] = emitted[c]
        BY <3>3, <1>5, <1>a DEF Deliver
      <4> QED
        BY <4>1, <3>1, <3>2, <3>3, <2>1 DEF Goal, h
    <3>4. CASE x.is = "input"
      <4>1. emitted'[c] = emitted[c] \ {x.nr}
        BY <3>4, <1>5, <1>a DEF Deliver
      <4> QED
        BY <4>1, <3>1, <3>2, <3>4, <2>1 DEF Goal, h
    <3> QED
      BY <3>1, <3>3, <3>4 DEF Message
  <2> QED
    BY <2>0, <2>1
<1>6. ASSUME NEW c \in Conns, ClientStep(c) PROVE Goal
  <2>1. CASE Accept(c)
    <3>1. CASE e # c
      BY <3>1, <2>1, <1>a, <1>e DEF Accept
    <3>2. CASE e = c
      <4>1. /\ tx'[c] = <<>> /\ input'[c] = <<>> /\ emitted'[c] = {}
            /\ Held(reader'[c], reports') = <<>>
        BY <2>1, <1>a, <1>h DEF Accept, BlankUnlessOpen, Held
      <4> QED
        BY <4>1, <3>2, NothingOrdered DEF Goal
    <3> QED
      BY <3>1, <3>2
  <2>2. CASE Close(c)
    <3>1. e # c
      BY <2>2, <1>a DEF Close
    <3> QED
      BY <3>1, <2>2, <1>a, <1>e DEF Close, Forgotten
  <2>3. CASE Press(c)
    <3>1. CASE e # c
      <4>1. reader[e] # "sending" /\ reader'[e] # "sending"
        BY <3>1, <2>3, <1>a, <1>h DEF Press, ReaderHolds
      <4> QED
        BY <4>1, <3>1, <2>3, <1>a, <1>e DEF Press, Held, loopVars
    <3>2. CASE e = c
      <4> DEFINE x == Input(reports + 1)
      <4>1. /\ UNCHANGED <<tx, input, conn>> /\ emitted'[c] = emitted[c] \cup {reports + 1}
            /\ Held(reader[c], reports) = <<>> /\ Held(reader'[c], reports') = <<x>>
        BY <2>3, <1>a DEF Press, Held, loopVars
      <4>2. x \in Item /\ x.is \in {"input"} /\ x.nr = reports + 1
        BY <1>a, <1>d
      <4>3. \A n \in emitted[c] : n < x.nr
        BY <4>2, <1>a
      <4>4. Ordered(tx[c], input[c], <<>>, {"input"}, emitted[c])
        BY <4>1, <3>2, <1>c
      <4> HIDE DEF x
      <4>5. Ordered(tx[c], input[c], Append(<<>>, x), {"input"}, emitted[c] \cup {x.nr})
        <5>1. <<>> \in Seq(Item)
          OBVIOUS
        <5> QED
          BY <5>1, <4>2, <4>3, <4>4, <1>a, <1>b, LastJoins
      <4>6. Append(<<>>, x) = <<x>>
        OBVIOUS
      <4> QED
        BY <4>1, <4>2, <4>5, <4>6, <3>2 DEF Goal
    <3> QED
      BY <3>1, <3>2
  <2>4. ASSUME NEW k \in Kinds, SendFrame(c, k) PROVE Goal
    BY <2>4, <1>e DEF SendFrame, inputVars
  <2> QED
    BY <1>6, <2>1, <2>2, <2>3, <2>4 DEF ClientStep
<1>7. CASE UNCHANGED vars
  BY <1>7, <1>e DEF vars, loopVars, inputVars
<1> QED
  BY <1>1, <1>2, <1>3, <1>4, <1>5, <1>6, <1>7 DEF Next

--------------------------------------------------------------------------------
LEMMA BridgeInit == Init => BridgeInv
<1> SUFFICES ASSUME Init PROVE BridgeInv
  OBVIOUS
<1>1. TasksTyped /\ LockTyped /\ FramesTyped /\ InputTyped /\ TxTyped
  BY BridgeAssumption DEF Init, TasksTyped, LockTyped, FramesTyped, InputTyped, TxTyped
<1>2. SentTyped /\ ReportsTyped
  BY BridgeAssumption DEF Init, SentTyped, ReportsTyped
<1>3. JobInLoop /\ ReaderHolds /\ BlankUnlessOpen /\ OneTransferAtATime
  BY BridgeAssumption DEF Init, JobInLoop, ReaderHolds, BlankUnlessOpen, OneTransferAtATime
<1>4. AnswersAddUp
  BY NothingOrdered, AnswersAre DEF Init
<1>5. InputAddsUp
  BY InputAre DEF Init
<1> QED
  BY <1>1, <1>2, <1>3, <1>4, <1>5, TypeInParts DEF BridgeInv, TasksInv

\* Loops, readers and the lock agree on who uses the deck, and nothing on its way
\* to a client is lost (bridge.rs:86-219, usb/device.rs:154-302).
THEOREM BridgeInvariant == Spec => []BridgeInv
<1>1. BridgeInv /\ [Next]_vars => BridgeInv'
  BY TasksStep, AnswersStep, InputStep DEF BridgeInv
<1> QED
  BY BridgeInit, <1>1, PTL DEF Spec

\* Every variable keeps its type, the channels their capacities, and nothing is
\* owed that was not sent (bridge.rs:97, 117, connection.rs:71, 97).
THEOREM BridgeTypeCorrect == Spec => []TypeOK
<1>1. BridgeInv => TypeOK
  BY DEF BridgeInv, TasksInv
<1> QED
  BY <1>1, BridgeInvariant, PTL

\* Whatever the deck does, and however many clients share it: every frame that
\* has an answer is answered once, in the order of the frames (bridge.rs:221-461,
\* connection.rs:260-520).
THEOREM AnswersArriveInOrder == Spec => []AnswersAddUp
<1>1. BridgeInv => AnswersAddUp
  BY DEF BridgeInv
<1> QED
  BY <1>1, BridgeInvariant, PTL

\* For every capacity of the channels, no report that a reader took is lost or
\* overtaken on its way to the client (device.rs:278-292, bridge.rs:121-137).
THEOREM ReportsArriveInOrder == Spec => []InputAddsUp
<1>1. BridgeInv => InputAddsUp
  BY DEF BridgeInv
<1> QED
  BY <1>1, BridgeInvariant, PTL

\* However many connections a deck has, one transfer at a time, and nobody but
\* those with a frame for the deck holds up its lock (device.rs:159, 186, 214).
THEOREM TransfersExclude == Spec => []OneTransferAtATime
<1>1. BridgeInv => OneTransferAtATime
  BY DEF BridgeInv, TasksInv
<1> QED
  BY <1>1, BridgeInvariant, PTL
================================================================================
