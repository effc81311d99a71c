------------------------------- MODULE CoraProofs ------------------------------
(***************************************************************************)
(* What the decoder makes of a byte stream, for any magic, any buffer and  *)
(* any cut of the stream into reads.                                       *)
(*                                                                         *)
(* The invariant speaks of the bytes that are in the buffer or on the way  *)
(* to it: which byte may follow which, and which frames are still whole.   *)
(***************************************************************************)
EXTENDS CoraStream, SequenceTheorems, WellFoundedInduction, TLAPS

\* The bytes that were sent and not consumed yet.
Stream == buf \o wire

IsField(b) == b.is = "field"
Known(b) == b.is = "field" /\ b.op = "known"
Foreign(b) == b.is = "noise" \/ (b.is = "field" /\ b.op = "unknown")
Opens(b) == b = Noise \/ b = Magic(1)

\* The rest of a magic and a header field follow each byte of a magic.
MagicsRunOn(s) ==
  \A i \in 1 .. Len(s) : \A k \in 1 .. MagicLen :
    s[i] = Magic(k) =>
      /\ i + HeaderLen - k <= Len(s)
      /\ \A j \in k .. MagicLen : s[i + j - k] = Magic(j)
      /\ IsField(s[i + HeaderLen - k])

\* A field is followed by its payload, and that by a new item.
PayloadsFollow(s) ==
  \A i \in 1 .. Len(s) :
    IsField(s[i]) =>
      /\ i + s[i].len <= Len(s)
      /\ \A j \in i + 1 .. i + s[i].len : s[j] = Data(s[i].of)
      /\ i + s[i].len < Len(s) => Opens(s[i + s[i].len + 1])

\* The frames in s come in the order of their numbers, from above low up to high.
NumbersGrow(s, low, high) ==
  \A i \in 1 .. Len(s) :
    Known(s[i]) =>
      /\ s[i].of \in low + 1 .. high
      /\ \A j \in 1 .. Len(s) : Known(s[j]) /\ i < j => s[i].of < s[j].of

\* The frames in s have all their magic, and none of those in low + 1 .. high is missing.
FramesWhole(s, low, high) ==
  /\ \A i \in 1 .. Len(s) :
       Known(s[i]) => HeaderLen <= i /\ \A j \in 1 .. MagicLen : s[i + j - HeaderLen] = Magic(j)
  /\ \A f \in low + 1 .. high : \E i \in 1 .. Len(s) : Known(s[i]) /\ s[i].of = f

\* s begins with an item, and its first n bytes are from frames.
Clean(s, n) ==
  /\ s # <<>> => s[1] = Magic(1)
  /\ \A i \in 1 .. n : ~ Foreign(s[i])

LastOf(h) == IF h = <<>> THEN 0 ELSE h[Len(h)]

\* Frames are handled in order, none twice and none mangled.
OrderInv ==
  /\ items + sent <= MaxItems
  /\ handled \in Seq(1 .. sent)
  /\ Len(handled) <= LastOf(handled)
  /\ MagicsRunOn(Stream)
  /\ PayloadsFollow(Stream)
  /\ NumbersGrow(Stream, LastOf(handled), sent)

\* The loop waits, or gave up, only when it can decode nothing.
IdleInv ==
  /\ phase # "decode" => Decode(buf) = "more"
  /\ phase = "closed" => Len(buf) = size

MidMagic == wire # <<>> /\ \E k \in 2 .. MagicLen : wire[1] = Magic(k)

\* As long as no magic is cut in two once there was noise, no frame is lost.
WholeInv ==
  /\ LastOf(handled) = Len(handled)
  /\ FramesWhole(Stream, LastOf(handled), sent)
  /\ noisy = FALSE => Clean(Stream, Len(Stream))
  /\ MidMagic => Clean(Stream, Len(buf))

CoraInv == TypeOK /\ OrderInv /\ IdleInv /\ (SplitMagic \/ WholeInv)

--------------------------------------------------------------------------------
(***************************************************************************)
(* Bytes.                                                                  *)
(***************************************************************************)
LEMMA ByteKinds ==
  ASSUME NEW b \in Bytes
  PROVE  \/ \E k \in 1 .. MagicLen : b = Magic(k)
         \/ IsField(b) /\ b.op \in {"known", "unknown"}
         \/ \E f \in 0 .. MaxItems : b = Data(f)
         \/ b = Noise
  BY DEF Bytes, Field, IsField

LEMMA FieldTyped ==
  ASSUME NEW b \in Bytes, IsField(b)
  PROVE  b.of \in 0 .. MaxItems /\ b.len \in 0 .. MaxPayload /\ b.len \in Nat
  BY CoraAssumption DEF Bytes, Field, IsField, Magic, Data, Noise

LEMMA MagicFacts ==
  ASSUME NEW k \in Nat
  PROVE  /\ ~ IsField(Magic(k)) /\ ~ Known(Magic(k)) /\ ~ Foreign(Magic(k)) /\ Magic(k) # Noise
         /\ \A j \in Nat : Magic(j) = Magic(k) => j = k
         /\ Magic(k).is = "magic" /\ Magic(k).nth = k
  BY DEF Magic, IsField, Known, Foreign, Noise

LEMMA OtherFacts ==
  /\ Foreign(Noise) /\ ~ IsField(Noise) /\ ~ Known(Noise)
  /\ \A f : ~ IsField(Data(f)) /\ ~ Known(Data(f)) /\ ~ Foreign(Data(f))
  /\ \A f, k : Data(f) # Magic(k)
  BY DEF Data, Noise, Magic, IsField, Known, Foreign

LEMMA KnownIsField ==
  ASSUME NEW b
  PROVE  Known(b) => IsField(b) /\ ~ Foreign(b)
  BY DEF Known, IsField, Foreign

--------------------------------------------------------------------------------
(***************************************************************************)
(* Bytes leave at the front of the stream.                                 *)
(***************************************************************************)
\* t is s without its first q bytes.
Drops(t, s, q) ==
  /\ Len(t) = Len(s) - q
  /\ \A i \in 1 .. Len(t) : t[i] = s[i + q]

LEMMA DropKeeps ==
  ASSUME NEW s \in Seq(Bytes), NEW t \in Seq(Bytes), NEW q \in Nat, Drops(t, s, q),
         MagicsRunOn(s), PayloadsFollow(s)
  PROVE  MagicsRunOn(t) /\ PayloadsFollow(t)
<1> DEFINE m == Len(t)
           n == Len(s)
<1>1. /\ m \in Nat /\ n \in Nat /\ m = n - q
      /\ \A i \in 1 .. m : i + q \in 1 .. n /\ t[i] = s[i + q]
  BY DEF Drops
<1>2. MagicLen \in Nat /\ HeaderLen = MagicLen + 1
  BY CoraAssumption
<1>3. MagicsRunOn(t)
  <2> SUFFICES ASSUME NEW i \in 1 .. m, NEW k \in 1 .. MagicLen, t[i] = Magic(k)
               PROVE  /\ i + HeaderLen - k <= m
                      /\ \A j \in k .. MagicLen : t[i + j - k] = Magic(j)
                      /\ IsField(t[i + HeaderLen - k])
    BY DEF MagicsRunOn
  <2> DEFINE p == i + q
  <2>1. p \in 1 .. n /\ s[p] = Magic(k)
    BY <1>1
  <2>2. /\ p + HeaderLen - k <= n
        /\ \A j \in k .. MagicLen : s[p + j - k] = Magic(j)
        /\ IsField(s[p + HeaderLen - k])
    BY <2>1 DEF MagicsRunOn
  <2>3. i + HeaderLen - k <= m
    BY <2>2, <1>1, <1>2
  <2>4. ASSUME NEW j \in k .. HeaderLen
        PROVE  t[i + j - k] = s[p + j - k]
    <3>1. i + j - k \in 1 .. m /\ i + j - k + q = p + j - k
      BY <2>3, <1>1, <1>2
    <3> QED
      BY <3>1, <1>1
  <2>5. ASSUME NEW j \in k .. MagicLen
        PROVE  t[i + j - k] = Magic(j)
    <3>1. j \in k .. HeaderLen
      BY <1>2
    <3>2. t[i + j - k] = s[p + j - k]
      BY <3>1, <2>4
    <3>3. s[p + j - k] = Magic(j)
      BY <2>2
    <3> QED
      BY <3>2, <3>3
  <2>6. IsField(t[i + HeaderLen - k])
    <3>1. t[i + HeaderLen - k] = s[p + HeaderLen - k]
      BY <2>4, <1>2
    <3> QED
      BY <3>1, <2>2
  <2> QED
    BY <2>3, <2>5, <2>6
<1>4. PayloadsFollow(t)
  <2> SUFFICES ASSUME NEW i \in 1 .. m, IsField(t[i])
               PROVE  /\ i + t[i].len <= m
                      /\ \A j \in i + 1 .. i + t[i].len : t[j] = Data(t[i].of)
                      /\ i + t[i].len < m => Opens(t[i + t[i].len + 1])
    BY DEF PayloadsFollow
  <2> DEFINE p == i + q
             len == t[i].len
             of == t[i].of
  <2>1. p \in 1 .. n /\ s[p] = t[i] /\ len \in Nat
    BY <1>1, FieldTyped, ElementOfSeq
  <2>2. /\ p + len <= n
        /\ \A j \in p + 1 .. p + len : s[j] = Data(of)
        /\ p + len < n => Opens(s[p + len + 1])
    BY <2>1 DEF PayloadsFollow
  <2> HIDE DEF len, of
  <2>3. i + len <= m
    BY <2>1, <2>2, <1>1
  <2>4. ASSUME NEW j \in i + 1 .. i + len
        PROVE  t[j] = Data(of)
    <3>1. j \in 1 .. m /\ j + q \in p + 1 .. p + len
      BY <2>1, <2>3, <1>1
    <3> QED
      BY <3>1, <2>2, <1>1
  <2>5. ASSUME i + len < m
        PROVE  Opens(t[i + len + 1])
    <3>1. i + len + 1 \in 1 .. m /\ i + len + 1 + q = p + len + 1 /\ p + len < n
      BY <2>1, <2>5, <1>1
    <3>2. t[i + len + 1] = s[p + len + 1]
      BY <3>1, <1>1
    <3> QED
      BY <3>1, <3>2, <2>2
  <2> QED
    BY <2>3, <2>4, <2>5 DEF len, of
<1> QED
  BY <1>3, <1>4

LEMMA DropNumbers ==
  ASSUME NEW s \in Seq(Bytes), NEW t \in Seq(Bytes), NEW q \in Nat, Drops(t, s, q),
         NEW low \in Nat, NEW high \in Nat, NEW low2 \in Nat,
         NumbersGrow(s, low, high),
         \A i \in 1 .. Len(s) : Known(s[i]) /\ i > q => s[i].of > low2
  PROVE  NumbersGrow(t, low2, high)
<1> SUFFICES ASSUME NEW i \in 1 .. Len(t), Known(t[i])
             PROVE  /\ t[i].of \in low2 + 1 .. high
                    /\ \A j \in 1 .. Len(t) : Known(t[j]) /\ i < j => t[i].of < t[j].of
  BY DEF NumbersGrow
<1>1. \A j \in 1 .. Len(t) : j + q \in 1 .. Len(s) /\ j + q > q /\ t[j] = s[j + q]
  BY DEF Drops
<1>2. s[i + q].of \in low + 1 .. high /\ s[i + q].of > low2
  BY <1>1 DEF NumbersGrow
<1>3. t[i].of \in low2 + 1 .. high
  BY <1>1, <1>2
<1>4. ASSUME NEW j \in 1 .. Len(t), Known(t[j]), i < j
      PROVE  t[i].of < t[j].of
  <2>1. i + q < j + q /\ Known(s[i + q]) /\ Known(s[j + q])
    BY <1>1, <1>4
  <2>2. s[i + q].of < s[j + q].of
    BY <2>1, <1>1 DEF NumbersGrow
  <2> QED
    BY <2>2, <1>1
<1> QED
  BY <1>3, <1>4

LEMMA DropWhole ==
  ASSUME NEW s \in Seq(Bytes), NEW t \in Seq(Bytes), NEW q \in Nat, Drops(t, s, q),
         NEW low \in Nat, NEW high \in Nat, NEW low2 \in Nat, low <= low2,
         FramesWhole(s, low, high),
         \A i \in 1 .. Len(s) : Known(s[i]) => s[i].of \in Nat,
         \A i \in 1 .. Len(s) : Known(s[i]) /\ i > q => s[i].of > low2,
         \A i \in 1 .. Len(s) : Known(s[i]) /\ s[i].of > low2 => q + HeaderLen <= i
  PROVE  FramesWhole(t, low2, high)
<1>1. \A j \in 1 .. Len(t) : j + q \in 1 .. Len(s) /\ j + q > q /\ t[j] = s[j + q]
  BY DEF Drops
<1>2. MagicLen \in Nat /\ HeaderLen = MagicLen + 1
  BY CoraAssumption
<1>3. ASSUME NEW i \in 1 .. Len(t), Known(t[i])
      PROVE  HeaderLen <= i /\ \A j \in 1 .. MagicLen : t[i + j - HeaderLen] = Magic(j)
  <2>1. i + q \in 1 .. Len(s) /\ Known(s[i + q]) /\ s[i + q].of > low2
    BY <1>1, <1>3
  <2>2. q + HeaderLen <= i + q
    BY <2>1
  <2>3. HeaderLen <= i
    BY <2>2, <1>2
  <2>4. ASSUME NEW j \in 1 .. MagicLen
        PROVE  t[i + j - HeaderLen] = Magic(j)
    <3>1. i + j - HeaderLen \in 1 .. Len(t) /\ i + j - HeaderLen + q = i + q + j - HeaderLen
      BY <2>3, <1>2
    <3>2. s[i + q + j - HeaderLen] = Magic(j)
      BY <2>1 DEF FramesWhole
    <3> QED
      BY <3>1, <3>2, <1>1
  <2> QED
    BY <2>3, <2>4
<1>4. ASSUME NEW f \in low2 + 1 .. high
      PROVE  \E i \in 1 .. Len(t) : Known(t[i]) /\ t[i].of = f
  <2>1. PICK i \in 1 .. Len(s) : Known(s[i]) /\ s[i].of = f
    BY DEF FramesWhole
  <2>2. q + HeaderLen <= i
    BY <2>1
  <2>3. i - q \in 1 .. Len(t) /\ i - q + q = i
    BY <2>2, <1>2 DEF Drops
  <2>4. t[i - q] = s[i]
    BY <2>3, <1>1
  <2> QED
    BY <2>1, <2>3, <2>4
<1> QED
  BY <1>3, <1>4 DEF FramesWhole

--------------------------------------------------------------------------------
(***************************************************************************)
(* Bytes are added at the end of the stream.                               *)
(***************************************************************************)
\* t is u behind s.
Adds(t, s, u) ==
  /\ Len(t) = Len(s) + Len(u)
  /\ \A i \in 1 .. Len(s) : t[i] = s[i]
  /\ \A i \in 1 .. Len(u) : t[Len(s) + i] = u[i]

LEMMA Cat ==
  ASSUME NEW s \in Seq(Bytes), NEW u \in Seq(Bytes)
  PROVE  s \o u \in Seq(Bytes) /\ Adds(s \o u, s, u)
<1> DEFINE t == s \o u
<1>1. /\ t \in Seq(Bytes) /\ Len(t) = Len(s) + Len(u)
      /\ \A i \in 1 .. Len(s) + Len(u) : t[i] = IF i <= Len(s) THEN s[i] ELSE u[i - Len(s)]
  BY ConcatProperties
<1> HIDE DEF t
<1>2. \A i \in 1 .. Len(s) : t[i] = s[i]
  BY <1>1
<1>3. ASSUME NEW i \in 1 .. Len(u)
      PROVE  t[Len(s) + i] = u[i]
  <2>1. Len(s) + i \in 1 .. Len(s) + Len(u) /\ ~ Len(s) + i <= Len(s) /\ Len(s) + i - Len(s) = i
    OBVIOUS
  <2> QED
    BY <2>1, <1>1
<1> QED
  BY <1>1, <1>2, <1>3 DEF Adds, t

LEMMA CatAssociative ==
  ASSUME NEW s \in Seq(Bytes), NEW t \in Seq(Bytes), NEW u \in Seq(Bytes)
  PROVE  (s \o t) \o u = s \o (t \o u)
  BY ConcatAssociative

LEMMA AddedByte ==
  ASSUME NEW s \in Seq(Bytes), NEW u \in Seq(Bytes), NEW t \in Seq(Bytes), Adds(t, s, u),
         NEW i \in 1 .. Len(t)
  PROVE  \/ i \in 1 .. Len(s) /\ t[i] = s[i]
         \/ i - Len(s) \in 1 .. Len(u) /\ t[i] = u[i - Len(s)]
<1>1. CASE i <= Len(s)
  BY <1>1 DEF Adds
<1>2. CASE i > Len(s)
  <2>1. i - Len(s) \in 1 .. Len(u) /\ Len(s) + (i - Len(s)) = i
    BY <1>2 DEF Adds
  <2> QED
    BY <2>1 DEF Adds
<1> QED
  BY <1>1, <1>2

LEMMA StepWithin ==
  ASSUME NEW i \in Nat, NEW j \in Nat, NEW k \in Nat, NEW h \in Nat, NEW n \in Nat,
         1 <= i, k <= j, j <= h, i + h - k <= n
  PROVE  i + j - k \in 1 .. n
  OBVIOUS

LEMMA AddKeeps ==
  ASSUME NEW s \in Seq(Bytes), NEW u \in Seq(Bytes), NEW t \in Seq(Bytes), Adds(t, s, u),
         MagicsRunOn(s), PayloadsFollow(s), MagicsRunOn(u), PayloadsFollow(u), Opens(u[1])
  PROVE  MagicsRunOn(t) /\ PayloadsFollow(t)
<1> DEFINE n == Len(s)
           m == Len(u)
<1>1. /\ n \in Nat /\ m \in Nat /\ Len(t) = n + m
      /\ \A i \in 1 .. n : t[i] = s[i]
      /\ \A i \in 1 .. m : t[n + i] = u[i]
  BY DEF Adds
<1>2. MagicLen \in Nat /\ HeaderLen = MagicLen + 1
  BY CoraAssumption
<1>3. ASSUME NEW i \in 1 .. Len(t)
      PROVE  \/ i \in 1 .. n /\ t[i] = s[i]
             \/ i - n \in 1 .. m /\ t[i] = u[i - n]
  BY AddedByte
<1> HIDE DEF n, m
<1>4. MagicsRunOn(t)
  <2> SUFFICES ASSUME NEW i \in 1 .. Len(t), NEW k \in 1 .. MagicLen, t[i] = Magic(k)
               PROVE  /\ i + HeaderLen - k <= Len(t)
                      /\ \A j \in k .. MagicLen : t[i + j - k] = Magic(j)
                      /\ IsField(t[i + HeaderLen - k])
    BY DEF MagicsRunOn
  <2>1. CASE i \in 1 .. n /\ t[i] = s[i]
    <3>1. /\ i + HeaderLen - k <= n
          /\ \A j \in k .. MagicLen : s[i + j - k] = Magic(j)
          /\ IsField(s[i + HeaderLen - k])
      BY <2>1 DEF MagicsRunOn, n
    <3>2. ASSUME NEW j \in k .. HeaderLen
          PROVE  t[i + j - k] = s[i + j - k]
      <4>1. i + HeaderLen - k <= n /\ n \in Nat /\ i \in Nat
        BY <3>1, <2>1, <1>1
      <4>2. i + j - k \in 1 .. n
        <5>1. k \in Nat /\ j \in Nat /\ HeaderLen \in Nat /\ 1 <= i /\ k <= j /\ j <= HeaderLen
          BY <2>1, <1>2
        <5> QED
          BY <4>1, <5>1, StepWithin
      <4> QED
        BY <4>2, <1>1
    <3>3. ASSUME NEW j \in k .. MagicLen
          PROVE  t[i + j - k] = Magic(j)
      <4>1. j \in k .. HeaderLen
        BY <1>2
      <4>2. t[i + j - k] = s[i + j - k]
        BY <4>1, <3>2
      <4> QED
        BY <4>2, <3>1
    <3>4. t[i + HeaderLen - k] = s[i + HeaderLen - k]
      <4>1. HeaderLen \in k .. HeaderLen
        BY <1>2
      <4> QED
        BY <4>1, <3>2
    <3>5. i + HeaderLen - k <= Len(t)
      BY <3>1, <2>1, <1>1, <1>2
    <3> QED
      BY <3>1, <3>3, <3>4, <3>5
  <2>2. CASE i - n \in 1 .. m /\ t[i] = u[i - n]
    <3> DEFINE p == i - n
    <3>0. p \in 1 .. m /\ u[p] = Magic(k) /\ i = n + p
      BY <2>2, <1>1
    <3> HIDE DEF p
    <3>1. /\ p + HeaderLen - k <= m
          /\ \A j \in k .. MagicLen : u[p + j - k] = Magic(j)
          /\ IsField(u[p + HeaderLen - k])
      BY <3>0 DEF MagicsRunOn, m
    <3>2. ASSUME NEW j \in k .. HeaderLen
          PROVE  t[i + j - k] = u[p + j - k]
      <4>1. p + j - k \in 1 .. m /\ n + (p + j - k) = i + j - k
        BY <3>0, <3>1, <1>1, <1>2
      <4> QED
        BY <4>1, <1>1
    <3>3. ASSUME NEW j \in k .. MagicLen
          PROVE  t[i + j - k] = Magic(j)
      <4>1. j \in k .. HeaderLen
        BY <1>2
      <4>2. t[i + j - k] = u[p + j - k]
        BY <4>1, <3>2
      <4> QED
        BY <4>2, <3>1
    <3>4. t[i + HeaderLen - k] = u[p + HeaderLen - k]
      <4>1. HeaderLen \in k .. HeaderLen
        BY <1>2
      <4> QED
        BY <4>1, <3>2
    <3>5. i + HeaderLen - k <= Len(t)
      BY <3>0, <3>1, <1>1, <1>2
    <3> QED
      BY <3>1, <3>3, <3>4, <3>5
  <2> QED
    BY <2>1, <2>2, <1>3
<1>5. PayloadsFollow(t)
  <2> SUFFICES ASSUME NEW i \in 1 .. Len(t), IsField(t[i])
               PROVE  /\ i + t[i].len <= Len(t)
                      /\ \A j \in i + 1 .. i + t[i].len : t[j] = Data(t[i].of)
                      /\ i + t[i].len < Len(t) => Opens(t[i + t[i].len + 1])
    BY DEF PayloadsFollow
  <2> DEFINE len == t[i].len
             of == t[i].of
  <2>0. len \in Nat
    BY FieldTyped, ElementOfSeq
  <2>1. CASE i \in 1 .. n /\ t[i] = s[i]
    <3>1. /\ i + len <= n
          /\ \A j \in i + 1 .. i + len : s[j] = Data(of)
          /\ i + len < n => Opens(s[i + len + 1])
      BY <2>1 DEF PayloadsFollow, n
    <3> HIDE DEF len, of
    <3>2. ASSUME NEW j \in i + 1 .. i + len
          PROVE  t[j] = Data(of)
      <4>1. j \in 1 .. n
        BY <2>0, <2>1, <3>1, <1>1
      <4> QED
        BY <4>1, <3>1, <1>1
    <3>3. CASE i + len < n
      <4>1. i + len + 1 \in 1 .. n
        BY <3>3, <2>0, <2>1, <1>1
      <4>2. Opens(t[i + len + 1])
        BY <4>1, <3>1, <3>3, <1>1
      <4>3. i + len <= Len(t)
        BY <3>3, <2>0, <1>1
      <4> QED
        BY <4>2, <4>3, <3>2 DEF len, of
    <3>4. CASE i + len = n
      <4>1. i + len < Len(t) => 1 \in 1 .. m /\ i + len + 1 = n + 1
        BY <3>4, <2>0, <1>1
      <4>2. i + len < Len(t) => Opens(t[i + len + 1])
        BY <4>1, <1>1
      <4>3. i + len <= Len(t)
        BY <3>4, <2>0, <1>1
      <4> QED
        BY <4>2, <4>3, <3>2 DEF len, of
    <3>5. i + len < n \/ i + len = n
      BY <3>1, <2>0, <2>1, <1>1
    <3> QED
      BY ONLY <3>3, <3>4, <3>5
  <2>2. CASE i - n \in 1 .. m /\ t[i] = u[i - n]
    <3> DEFINE p == i - n
    <3>0. p \in 1 .. m /\ u[p] = t[i] /\ i = n + p
      BY <2>2, <1>1
    <3> HIDE DEF p
    <3>1. /\ p + len <= m
          /\ \A j \in p + 1 .. p + len : u[j] = Data(of)
          /\ p + len < m => Opens(u[p + len + 1])
      BY <3>0 DEF PayloadsFollow, m
    <3> HIDE DEF len, of
    <3>2. ASSUME NEW j \in i + 1 .. i + len
          PROVE  t[j] = Data(of)
      <4>1. j - n \in p + 1 .. p + len /\ j - n \in 1 .. m /\ n + (j - n) = j
        BY <2>0, <3>0, <3>1, <1>1
      <4> QED
        BY <4>1, <3>1, <1>1
    <3>3. ASSUME i + len < Len(t)
          PROVE  Opens(t[i + len + 1])
      <4>1. p + len + 1 \in 1 .. m /\ n + (p + len + 1) = i + len + 1 /\ p + len < m
        BY <3>3, <2>0, <3>0, <1>1
      <4>2. t[i + len + 1] = u[p + len + 1]
        BY <4>1, <1>1
      <4> QED
        BY <4>1, <4>2, <3>1
    <3>4. i + len <= Len(t)
      BY <3>0, <3>1, <2>0, <1>1
    <3> QED
      BY <3>2, <3>3, <3>4 DEF len, of
  <2> QED
    BY <2>1, <2>2, <1>3
<1> QED
  BY <1>4, <1>5

\* u holds the frames low + 1 .. high and no other, at most one, and that whole.
Holds(u, low, high) ==
  /\ \A i \in 1 .. Len(u) :
       Known(u[i]) => /\ i = HeaderLen /\ low < high /\ u[i].of = high
                      /\ \A j \in 1 .. MagicLen : u[j] = Magic(j)
  /\ \A f \in low + 1 .. high : \E i \in 1 .. Len(u) : Known(u[i]) /\ u[i].of = f

LEMMA AddNumbers ==
  ASSUME NEW s \in Seq(Bytes), NEW u \in Seq(Bytes), NEW t \in Seq(Bytes), Adds(t, s, u),
         NEW low \in Nat, NEW high \in Nat, NEW high2 \in Nat, low <= high, high <= high2,
         NumbersGrow(s, low, high), Holds(u, high, high2)
  PROVE  NumbersGrow(t, low, high2)
<1> SUFFICES ASSUME NEW i \in 1 .. Len(t), Known(t[i])
             PROVE  /\ t[i].of \in low + 1 .. high2
                    /\ \A j \in 1 .. Len(t) : Known(t[j]) /\ i < j => t[i].of < t[j].of
  BY DEF NumbersGrow
<1>1. ASSUME NEW j \in 1 .. Len(t), Known(t[j])
      PROVE  \/ j \in 1 .. Len(s) /\ t[j] = s[j] /\ t[j].of \in low + 1 .. high
             \/ j = Len(s) + HeaderLen /\ t[j].of = high2 /\ high < high2
  <2>1. CASE j \in 1 .. Len(s) /\ t[j] = s[j]
    BY <2>1, <1>1 DEF NumbersGrow
  <2>2. CASE j - Len(s) \in 1 .. Len(u) /\ t[j] = u[j - Len(s)]
    <3>1. j - Len(s) = HeaderLen /\ high < high2 /\ t[j].of = high2
      BY <2>2, <1>1 DEF Holds
    <3> QED
      BY <3>1
  <2> QED
    BY <2>1, <2>2, AddedByte
<1>2. t[i].of \in low + 1 .. high2
  BY <1>1
<1>3. ASSUME NEW j \in 1 .. Len(t), Known(t[j]), i < j
      PROVE  t[i].of < t[j].of
  <2>1. CASE j \in 1 .. Len(s)
    <3>1. i \in 1 .. Len(s) /\ t[i] = s[i] /\ t[j] = s[j]
      BY <2>1, <1>3 DEF Adds
    <3> QED
      BY <3>1, <2>1, <1>3 DEF NumbersGrow
  <2>2. CASE j \notin 1 .. Len(s)
    <3>1. j = Len(s) + HeaderLen /\ t[j].of = high2 /\ high < high2
      BY <2>2, <1>1, <1>3
    <3>2. t[i].of \in low + 1 .. high
      BY <3>1, <1>1, <1>3
    <3> QED
      BY <3>1, <3>2
  <2> QED
    BY <2>1, <2>2
<1> QED
  BY <1>2, <1>3

LEMMA AddWhole ==
  ASSUME NEW s \in Seq(Bytes), NEW u \in Seq(Bytes), NEW t \in Seq(Bytes), Adds(t, s, u),
         NEW low \in Nat, NEW high \in Nat, NEW high2 \in Nat, low <= high, high <= high2,
         FramesWhole(s, low, high), Holds(u, high, high2)
  PROVE  FramesWhole(t, low, high2)
<1>0. MagicLen \in Nat /\ HeaderLen = MagicLen + 1
  BY CoraAssumption
<1>1. ASSUME NEW i \in 1 .. Len(t), Known(t[i])
      PROVE  HeaderLen <= i /\ \A j \in 1 .. MagicLen : t[i + j - HeaderLen] = Magic(j)
  <2>1. CASE i \in 1 .. Len(s) /\ t[i] = s[i]
    <3>1. HeaderLen <= i /\ \A j \in 1 .. MagicLen : s[i + j - HeaderLen] = Magic(j)
      BY <2>1, <1>1 DEF FramesWhole
    <3>2. ASSUME NEW j \in 1 .. MagicLen
          PROVE  t[i + j - HeaderLen] = Magic(j)
      <4>1. HeaderLen <= i
        BY <3>1
      <4>2. i + j - HeaderLen \in 1 .. Len(s)
        BY <4>1, <2>1, <1>0
      <4> QED
        BY <4>2, <3>1 DEF Adds
    <3> QED
      BY <3>1, <3>2
  <2>2. CASE i - Len(s) \in 1 .. Len(u) /\ t[i] = u[i - Len(s)]
    <3>1. i - Len(s) = HeaderLen /\ \A j \in 1 .. MagicLen : u[j] = Magic(j)
      BY <2>2, <1>1 DEF Holds
    <3>2. ASSUME NEW j \in 1 .. MagicLen
          PROVE  t[i + j - HeaderLen] = Magic(j)
      <4>1. i - Len(s) = HeaderLen
        BY <3>1
      <4>2. j \in 1 .. Len(u) /\ i + j - HeaderLen = Len(s) + j
        BY <4>1, <2>2, <1>0
      <4> QED
        BY <4>2, <3>1 DEF Adds
    <3>3. HeaderLen <= i
      BY <3>1, <1>0
    <3> QED
      BY <3>2, <3>3
  <2> QED
    BY <2>1, <2>2, AddedByte
<1>2. ASSUME NEW f \in low + 1 .. high2
      PROVE  \E i \in 1 .. Len(t) : Known(t[i]) /\ t[i].of = f
  <2>1. CASE f \in low + 1 .. high
    <3>1. PICK i \in 1 .. Len(s) : Known(s[i]) /\ s[i].of = f
      BY <2>1 DEF FramesWhole
    <3> QED
      BY <3>1 DEF Adds
  <2>2. CASE f \in high + 1 .. high2
    <3>1. PICK i \in 1 .. Len(u) : Known(u[i]) /\ u[i].of = f
      BY <2>2 DEF Holds
    <3>2. Len(s) + i \in 1 .. Len(t) /\ t[Len(s) + i] = u[i]
      BY DEF Adds
    <3> QED
      BY <3>1, <3>2
  <2> QED
    BY <2>1, <2>2
<1> QED
  BY <1>1, <1>2 DEF FramesWhole

--------------------------------------------------------------------------------
(***************************************************************************)
(* What a client sends.                                                    *)
(***************************************************************************)
LEMMA MagicTyped ==
  /\ MagicBytes \in Seq(Bytes) /\ Len(MagicBytes) = MagicLen
  /\ \A k \in 1 .. MagicLen : MagicBytes[k] = Magic(k)
<1>1. \A k \in 1 .. MagicLen : Magic(k) \in Bytes
  BY DEF Bytes
<1> QED
  BY <1>1, CoraAssumption DEF MagicBytes

LEMMA PayloadTyped ==
  ASSUME NEW f \in 0 .. MaxItems, NEW len \in Nat
  PROVE  /\ Payload(f, len) \in Seq(Bytes) /\ Len(Payload(f, len)) = len
         /\ \A k \in 1 .. len : Payload(f, len)[k] = Data(f)
<1>1. Data(f) \in Bytes
  BY DEF Bytes
<1> QED
  BY <1>1 DEF Payload

LEMMA Encoded ==
  ASSUME NEW f \in 0 .. MaxItems, NEW op \in {"known", "unknown"}, NEW len \in 0 .. MaxPayload
  PROVE  LET u == Encode(f, op, len)
         IN  /\ u \in Seq(Bytes) /\ Len(u) = HeaderLen + len
             /\ \A j \in 1 .. MagicLen : u[j] = Magic(j)
             /\ u[HeaderLen] = Field(f, op, len)
             /\ \A j \in HeaderLen + 1 .. Len(u) : u[j] = Data(f)
<1> DEFINE a == MagicBytes
           b == <<Field(f, op, len)>>
           c == Payload(f, len)
           u == Encode(f, op, len)
<1>0. MagicLen \in Nat /\ HeaderLen = MagicLen + 1 /\ len \in Nat
  BY CoraAssumption
<1>1. a \in Seq(Bytes) /\ Len(a) = MagicLen /\ \A k \in 1 .. MagicLen : a[k] = Magic(k)
  BY MagicTyped
<1>2. b \in Seq(Bytes) /\ Len(b) = 1 /\ b[1] = Field(f, op, len)
  BY DEF Bytes
<1>3. c \in Seq(Bytes) /\ Len(c) = len /\ \A k \in 1 .. len : c[k] = Data(f)
  BY PayloadTyped, <1>0
<1>4. u = a \o b \o c
  BY DEF Encode
<1> HIDE DEF a, b, c, u
<1> DEFINE h == a \o b
<1>5. /\ h \in Seq(Bytes) /\ Len(h) = HeaderLen
      /\ \A j \in 1 .. MagicLen : h[j] = Magic(j)
      /\ h[HeaderLen] = Field(f, op, len)
  <2>1. h \in Seq(Bytes) /\ Adds(h, a, b)
    BY <1>1, <1>2, Cat
  <2> HIDE DEF h
  <2>2. 1 \in 1 .. Len(b) /\ Len(a) + 1 = HeaderLen
    BY <1>0, <1>1, <1>2
  <2> QED
    BY <1>1, <1>2, <2>1, <2>2 DEF Adds
<1>6. u = h \o c
  BY <1>4
<1> HIDE DEF h
<1>7. u \in Seq(Bytes) /\ Adds(u, h, c)
  BY <1>3, <1>5, <1>6, Cat
<1>8. Len(u) = HeaderLen + len /\ \A j \in 1 .. HeaderLen : u[j] = h[j]
  BY <1>3, <1>5, <1>7 DEF Adds
<1>9. ASSUME NEW j \in HeaderLen + 1 .. Len(u)
      PROVE  u[j] = Data(f)
  <2>1. j - HeaderLen \in 1 .. len /\ HeaderLen + (j - HeaderLen) = j
    BY <1>0, <1>8
  <2>2. u[HeaderLen + (j - HeaderLen)] = c[j - HeaderLen]
    BY <2>1, <1>3, <1>5, <1>7 DEF Adds
  <2> QED
    BY <2>1, <2>2, <1>3
<1>10. u[HeaderLen] = Field(f, op, len) /\ \A j \in 1 .. MagicLen : u[j] = Magic(j)
  BY <1>0, <1>5, <1>8
<1> QED
  BY <1>7, <1>8, <1>9, <1>10 DEF u

\* A frame, known or not, or a run of noise.
Item(u, low, high) ==
  /\ u \in Seq(Bytes) /\ Len(u) > 0
  /\ MagicsRunOn(u) /\ PayloadsFollow(u) /\ Opens(u[1]) /\ Holds(u, low, high)

LEMMA FrameIsItem ==
  ASSUME NEW f \in 0 .. MaxItems, NEW op \in {"known", "unknown"}, NEW len \in 0 .. MaxPayload,
         NEW low \in Nat, op = "known" => f = low + 1
  PROVE  Item(Encode(f, op, len), low, IF op = "known" THEN f ELSE low)
<1> DEFINE u == Encode(f, op, len)
           high == IF op = "known" THEN f ELSE low
<1>0. /\ MagicLen \in Nat /\ MagicLen > 0 /\ HeaderLen = MagicLen + 1 /\ len \in Nat
      /\ f \in Nat /\ high \in Nat
  BY CoraAssumption
<1>1. /\ u \in Seq(Bytes) /\ Len(u) = HeaderLen + len
      /\ \A j \in 1 .. MagicLen : u[j] = Magic(j)
      /\ u[HeaderLen] = Field(f, op, len)
      /\ \A j \in HeaderLen + 1 .. Len(u) : u[j] = Data(f)
  BY Encoded
<1> HIDE DEF u
<1>2. /\ IsField(Field(f, op, len)) /\ Field(f, op, len).len = len /\ Field(f, op, len).of = f
      /\ Known(Field(f, op, len)) <=> op = "known"
      /\ \A k : Field(f, op, len) # Magic(k)
  BY DEF Field, IsField, Known, Magic
<1>3. ASSUME NEW i \in 1 .. Len(u)
      PROVE  i \in 1 .. MagicLen \/ i = HeaderLen \/ i \in HeaderLen + 1 .. Len(u)
  BY <1>0, <1>1
<1>4. ASSUME NEW i \in 1 .. Len(u), IsField(u[i])
      PROVE  i = HeaderLen
  BY <1>0, <1>1, <1>3, <1>4, MagicFacts, OtherFacts
<1>5. ASSUME NEW i \in 1 .. Len(u), NEW k \in 1 .. MagicLen, u[i] = Magic(k)
      PROVE  i = k
  <2>1. i \in 1 .. MagicLen
    BY <1>1, <1>2, <1>3, <1>5, OtherFacts
  <2>2. u[i] = Magic(i)
    BY <2>1, <1>1
  <2>3. i \in Nat /\ k \in Nat /\ Magic(i) = Magic(k)
    BY <2>1, <2>2, <1>5, <1>0
  <2> QED
    BY <2>3, MagicFacts
<1>6. MagicsRunOn(u)
  <2> SUFFICES ASSUME NEW i \in 1 .. Len(u), NEW k \in 1 .. MagicLen, u[i] = Magic(k)
               PROVE  /\ i + HeaderLen - k <= Len(u)
                      /\ \A j \in k .. MagicLen : u[i + j - k] = Magic(j)
                      /\ IsField(u[i + HeaderLen - k])
    BY DEF MagicsRunOn
  <2>1. i = k
    BY <1>5
  <2>2. i + HeaderLen - k = HeaderLen /\ HeaderLen <= Len(u)
    BY <2>1, <1>0, <1>1
  <2>3. ASSUME NEW j \in k .. MagicLen
        PROVE  u[i + j - k] = Magic(j)
    <3>1. i + j - k = j /\ j \in 1 .. MagicLen
      BY <2>1, <1>0
    <3> QED
      BY <3>1, <1>1
  <2> QED
    BY <2>2, <2>3, <1>1, <1>2
<1>7. PayloadsFollow(u)
  <2> SUFFICES ASSUME NEW i \in 1 .. Len(u), IsField(u[i])
               PROVE  /\ i + u[i].len <= Len(u)
                      /\ \A j \in i + 1 .. i + u[i].len : u[j] = Data(u[i].of)
                      /\ i + u[i].len < Len(u) => Opens(u[i + u[i].len + 1])
    BY DEF PayloadsFollow
  <2>1. i = HeaderLen /\ u[i].len = len /\ u[i].of = f
    BY <1>1, <1>2, <1>4
  <2> QED
    BY <2>1, <1>0, <1>1
<1>8. Opens(u[1])
  BY <1>0, <1>1 DEF Opens
<1>9. Holds(u, low, high)
  <2>1. ASSUME NEW i \in 1 .. Len(u), Known(u[i])
        PROVE  /\ i = HeaderLen /\ low < high /\ u[i].of = high
               /\ \A j \in 1 .. MagicLen : u[j] = Magic(j)
    <3>1. i = HeaderLen
      BY <2>1, <1>4, KnownIsField
    <3>2. op = "known" /\ u[i].of = f
      BY <3>1, <2>1, <1>1, <1>2
    <3> QED
      BY <3>1, <3>2, <1>0, <1>1
  <2>2. ASSUME NEW g \in low + 1 .. high
        PROVE  \E i \in 1 .. Len(u) : Known(u[i]) /\ u[i].of = g
    <3>1. op = "known" /\ g = f
      BY <2>2, <1>0
    <3>2. HeaderLen \in 1 .. Len(u)
      BY <1>0, <1>1
    <3> QED
      BY <3>1, <3>2, <1>1, <1>2
  <2> HIDE DEF high
  <2> QED
    BY <2>1, <2>2 DEF Holds
<1> QED
  BY <1>0, <1>1, <1>6, <1>7, <1>8, <1>9 DEF Item, u

LEMMA NoiseIsItem ==
  ASSUME NEW bytes \in NoiseRuns, NEW low \in Nat
  PROVE  Item(bytes, low, low)
<1>1. CASE bytes \in {[k \in 1 .. n |-> Noise] : n \in 1 .. MaxNoise}
  <2>1. PICK n \in 1 .. MaxNoise : bytes = [k \in 1 .. n |-> Noise]
    BY <1>1
  <2>2. n \in Nat /\ n > 0 /\ Noise \in Bytes
    BY CoraAssumption DEF Bytes
  <2>3. bytes \in Seq(Bytes) /\ Len(bytes) = n /\ \A i \in 1 .. Len(bytes) : bytes[i] = Noise
    BY <2>1, <2>2
  <2>4. \A k \in 1 .. MagicLen : Noise # Magic(k)
    BY MagicFacts, CoraAssumption
  <2>5. MagicsRunOn(bytes) /\ PayloadsFollow(bytes)
    BY <2>3, <2>4, OtherFacts DEF MagicsRunOn, PayloadsFollow
  <2>6. Holds(bytes, low, low) /\ Opens(bytes[1])
    BY <2>2, <2>3, OtherFacts DEF Holds, Opens
  <2> QED
    BY <2>2, <2>3, <2>5, <2>6 DEF Item
<1>2. CASE bytes \in {Encode(0, "unknown", len) : len \in 0 .. MaxPayload}
  <2>1. PICK len \in 0 .. MaxPayload : bytes = Encode(0, "unknown", len)
    BY <1>2
  <2>2. 0 \in 0 .. MaxItems
    BY CoraAssumption
  <2> QED
    BY <2>1, <2>2, FrameIsItem
<1> QED
  BY <1>1, <1>2 DEF NoiseRuns

--------------------------------------------------------------------------------
(***************************************************************************)
(* The decoder.                                                            *)
(***************************************************************************)
\* A non-empty set of positions has a first one, and Min is it.
LEMMA MinOfNats ==
  ASSUME NEW S \in SUBSET Nat, S # {}
  PROVE  Min(S) \in S /\ \A j \in S : Min(S) <= j
<1>1. PICK i \in S : \A j \in S : ~ (<<j, i>> \in OpToRel(<, Nat))
  BY WFMin, NatLessThanWellFounded
<1>2. \A j \in S : i <= j
  <2> TAKE j \in S
  <2>1. <<j, i>> \notin OpToRel(<, Nat)
    BY <1>1
  <2>2. ~ (j < i)
    BY <2>1 DEF OpToRel
  <2> QED
    BY <2>2
<1> QED
  BY <1>2 DEF Min

LEMMA MagicAtMeans ==
  ASSUME NEW b \in Seq(Bytes), NEW p \in Nat, 1 <= p, p + MagicLen - 1 <= Len(b)
  PROVE  MagicAt(b, p) <=> \A j \in 1 .. MagicLen : b[p + j - 1] = Magic(j)
<1> DEFINE q == p + MagicLen - 1
           c == SubSeq(b, p, q)
<1>0. MagicLen \in Nat /\ p \in Int /\ q \in Int
  BY CoraAssumption
<1>1. \A i \in p .. q : b[i] \in Bytes
  BY <1>0, ElementOfSeq
<1>2. /\ c \in Seq(Bytes) /\ Len(c) = IF p <= q THEN q - p + 1 ELSE 0
      /\ \A i \in 1 .. q - p + 1 : c[i] = b[p + i - 1]
  BY <1>0, <1>1, SubSeqProperties
<1>3. Len(c) = MagicLen /\ q - p + 1 = MagicLen
  BY <1>0, <1>2
<1> HIDE DEF q, c
<1>4. \A i \in 1 .. MagicLen : c[i] = b[p + i - 1]
  BY <1>2, <1>3
<1>5. MagicAt(b, p) <=> c = MagicBytes
  BY DEF MagicAt, c, q
<1>6. ASSUME c = MagicBytes
      PROVE  \A j \in 1 .. MagicLen : b[p + j - 1] = Magic(j)
  BY <1>4, <1>6, MagicTyped
<1>7. ASSUME \A j \in 1 .. MagicLen : b[p + j - 1] = Magic(j)
      PROVE  c = MagicBytes
  <2>1. \A i \in 1 .. Len(c) : c[i] = MagicBytes[i]
    BY <1>3, <1>4, <1>7, MagicTyped
  <2>2. c \in Seq(Bytes) /\ MagicBytes \in Seq(Bytes) /\ Len(c) = Len(MagicBytes)
    BY <1>2, <1>3, MagicTyped
  <2> QED
    BY <2>1, <2>2, SeqEqual, Zenon
<1> QED
  BY <1>5, <1>6, <1>7

\* find_magic returns the first magic, and None only when there is none.
LEMMA FindMagicFirst ==
  ASSUME NEW b \in Seq(Bytes)
  PROVE  /\ FindMagic(b) \in 0 .. Len(b) /\ FindMagic(b) \in Nat
         /\ FindMagic(b) # 0 =>
              /\ FindMagic(b) + MagicLen - 1 <= Len(b)
              /\ \A j \in 1 .. MagicLen : b[FindMagic(b) + j - 1] = Magic(j)
         /\ \A p \in 1 .. Len(b) :
              p + MagicLen - 1 <= Len(b) /\ (\A j \in 1 .. MagicLen : b[p + j - 1] = Magic(j))
                => FindMagic(b) # 0 /\ FindMagic(b) <= p
<1>0. MagicLen \in Nat /\ MagicLen > 0 /\ Len(b) \in Nat
  BY CoraAssumption
<1>1. \A p \in Positions(b) : p \in Nat /\ 1 <= p /\ p <= Len(b) /\ p + MagicLen - 1 <= Len(b) /\ MagicAt(b, p)
  BY <1>0 DEF Positions
<1>2. ASSUME NEW p \in 1 .. Len(b), p + MagicLen - 1 <= Len(b),
             \A j \in 1 .. MagicLen : b[p + j - 1] = Magic(j)
      PROVE  p \in Positions(b)
  <2>1. MagicAt(b, p)
    BY <1>2, MagicAtMeans
  <2> QED
    BY <2>1, <1>0, <1>2 DEF Positions
<1>3. CASE Positions(b) = {}
  BY <1>0, <1>2, <1>3 DEF FindMagic
<1>4. CASE Positions(b) # {}
  <2> DEFINE m == FindMagic(b)
  <2>1. m = Min(Positions(b))
    BY <1>4 DEF FindMagic
  <2>2. m \in Positions(b) /\ \A j \in Positions(b) : m <= j
    BY <2>1, <1>1, <1>4, MinOfNats
  <2> HIDE DEF m
  <2>3. m \in Nat /\ 1 <= m /\ m <= Len(b) /\ m + MagicLen - 1 <= Len(b) /\ MagicAt(b, m)
    BY <2>2, <1>1
  <2>4. \A j \in 1 .. MagicLen : b[m + j - 1] = Magic(j)
    BY <2>3, MagicAtMeans
  <2>5. m # 0 /\ m \in 0 .. Len(b)
    BY <2>3, <1>0
  <2> QED
    BY <2>2, <2>3, <2>4, <2>5, <1>2 DEF m
<1> QED
  BY <1>3, <1>4

\* What Decode says of a buffer with a field behind its magic.
LEMMA DecodeMeans ==
  ASSUME NEW b \in Seq(Bytes)
  PROVE  /\ Decode(b) \in {"more", "error", "frame"}
         /\ Decode(b) = "more" /\ Len(b) >= HeaderLen =>
              IsField(b[HeaderLen]) /\ Len(b) < HeaderLen + b[HeaderLen].len
         /\ Decode(b) = "frame" =>
              /\ Len(b) >= HeaderLen /\ Known(b[HeaderLen])
              /\ HeaderLen + b[HeaderLen].len <= Len(b)
         /\ Decode(b) = "error" =>
              /\ Len(b) >= HeaderLen
              /\ \/ ~ \A j \in 1 .. MagicLen : b[j] = Magic(j)
                 \/ ~ IsField(b[HeaderLen])
                 \/ Foreign(b[HeaderLen])
         /\ Len(b) < HeaderLen => Decode(b) = "more"
<1> DEFINE n == Len(b)
           h == b[HeaderLen]
<1>0. n \in Nat /\ MagicLen \in Nat /\ MagicLen > 0 /\ HeaderLen \in Nat /\ HeaderLen = MagicLen + 1
  BY CoraAssumption
<1>1. ASSUME n >= HeaderLen
      PROVE  h \in Bytes
  BY <1>0, <1>1, ElementOfSeq
<1>2. ASSUME n >= HeaderLen, h.is = "field"
      PROVE  h.len \in Nat /\ h.op \in {"known", "unknown"}
  <2>1. h \in Bytes /\ IsField(h)
    BY <1>1, <1>2 DEF IsField
  <2> HIDE DEF h
  <2> QED
    BY <2>1, FieldTyped, ByteKinds, MagicFacts, OtherFacts, CoraAssumption
<1>3. ASSUME n >= HeaderLen
      PROVE  MagicAt(b, 1) <=> \A j \in 1 .. MagicLen : b[j] = Magic(j)
  <2>1. 1 + MagicLen - 1 <= Len(b)
    BY <1>0, <1>3
  <2>2. MagicAt(b, 1) <=> \A j \in 1 .. MagicLen : b[1 + j - 1] = Magic(j)
    BY <2>1, MagicAtMeans
  <2>3. \A j \in 1 .. MagicLen : 1 + j - 1 = j
    BY <1>0
  <2> QED
    BY <2>2, <2>3
<1>4. CASE n < HeaderLen
  <2>1. ~ n >= HeaderLen
    BY <1>0, <1>4
  <2> QED
    BY <2>1, <1>4 DEF Decode
<1>5. CASE n >= HeaderLen
  <2>1. ~ n < HeaderLen
    BY <1>0, <1>5
  <2>2. Decode(b) = IF ~ MagicAt(b, 1) \/ h.is # "field" THEN "error"
                    ELSE IF h.op = "unknown" THEN "error"
                    ELSE IF n < HeaderLen + h.len THEN "more"
                    ELSE "frame"
    BY <2>1 DEF Decode
  <2> HIDE DEF n, h
  <2>3. CASE ~ MagicAt(b, 1)
    BY <2>1, <2>2, <2>3, <1>3, <1>5 DEF n, h
  <2>4. CASE MagicAt(b, 1) /\ h.is # "field"
    BY <2>1, <2>2, <2>4, <1>5 DEF n, h, IsField
  <2>5. CASE MagicAt(b, 1) /\ h.is = "field" /\ h.op = "unknown"
    BY <2>1, <2>2, <2>5, <1>5 DEF n, h, Foreign
  <2>6. CASE MagicAt(b, 1) /\ h.is = "field" /\ h.op # "unknown"
    <3>1. h.len \in Nat /\ h.op = "known" /\ IsField(h) /\ Known(h)
      BY <2>6, <1>2, <1>5 DEF IsField, Known
    <3>2. CASE n < HeaderLen + h.len
      BY <2>1, <2>2, <2>6, <3>1, <3>2, <1>5 DEF n, h
    <3>3. CASE ~ n < HeaderLen + h.len
      <4>1. HeaderLen + h.len <= n
        BY <3>1, <3>3, <1>0
      <4> QED
        BY <4>1, <2>1, <2>2, <2>6, <3>1, <3>3, <1>5 DEF n, h
    <3> QED
      BY <3>2, <3>3
  <2> QED
    BY <2>3, <2>4, <2>5, <2>6
<1> QED
  BY <1>0, <1>4, <1>5

--------------------------------------------------------------------------------
(***************************************************************************)
(* The buffer in front of the wire.                                        *)
(***************************************************************************)
LEMMA FromDrops ==
  ASSUME NEW b \in Seq(Bytes), NEW q \in Nat, q <= Len(b)
  PROVE  From(b, q + 1) \in Seq(Bytes) /\ Drops(From(b, q + 1), b, q)
<1> DEFINE n == Len(b)
           m == q + 1
           c == SubSeq(b, m, n)
<1>1. n \in Nat /\ m \in Int /\ n \in Int
  OBVIOUS
<1>2. \A i \in m .. n : b[i] \in Bytes
  BY <1>1, ElementOfSeq
<1>3. /\ c \in Seq(Bytes) /\ Len(c) = IF m <= n THEN n - m + 1 ELSE 0
      /\ \A i \in 1 .. n - m + 1 : c[i] = b[m + i - 1]
  BY <1>1, <1>2, SubSeqProperties
<1>4. Len(c) = n - q /\ n - m + 1 = n - q
  BY <1>1, <1>3
<1> HIDE DEF c
<1>5. ASSUME NEW i \in 1 .. Len(c)
      PROVE  c[i] = b[i + q]
  <2>1. c[i] = b[m + i - 1] /\ m + i - 1 = i + q
    BY <1>1, <1>3, <1>4
  <2> QED
    BY <2>1
<1>6. From(b, q + 1) = c
  BY DEF From, c
<1> QED
  BY <1>3, <1>4, <1>5, <1>6 DEF Drops

LEMMA FrontDrops ==
  ASSUME NEW b \in Seq(Bytes), NEW w \in Seq(Bytes), NEW q \in Nat, q <= Len(b)
  PROVE  Drops(From(b, q + 1) \o w, b \o w, q)
<1> DEFINE c == From(b, q + 1)
           s == b \o w
           t == c \o w
<1>1. c \in Seq(Bytes) /\ Drops(c, b, q)
  BY FromDrops
<1> HIDE DEF c
<1>2. Adds(s, b, w) /\ Adds(t, c, w) /\ s \in Seq(Bytes) /\ t \in Seq(Bytes)
  BY <1>1, Cat
<1> HIDE DEF s, t
<1>3. Len(t) = Len(s) - q
  BY <1>1, <1>2 DEF Adds, Drops
<1>4. ASSUME NEW i \in 1 .. Len(t)
      PROVE  t[i] = s[i + q]
  <2>1. CASE i \in 1 .. Len(c) /\ t[i] = c[i]
    <3>1. c[i] = b[i + q] /\ i + q \in 1 .. Len(b)
      BY <2>1, <1>1 DEF Drops
    <3> QED
      BY <3>1, <2>1, <1>2 DEF Adds
  <2>2. CASE i - Len(c) \in 1 .. Len(w) /\ t[i] = w[i - Len(c)]
    <3>1. Len(b) + (i - Len(c)) = i + q
      BY <1>1 DEF Drops
    <3>2. s[Len(b) + (i - Len(c))] = w[i - Len(c)]
      BY <2>2, <1>2 DEF Adds
    <3> QED
      BY <3>1, <3>2, <2>2
  <2> QED
    BY <2>1, <2>2, <1>1, <1>2, AddedByte
<1> QED
  BY <1>3, <1>4 DEF Drops, s, t, c

\* A read moves bytes from the wire to the buffer and leaves the stream as it is.
LEMMA CutStream ==
  ASSUME NEW b \in Seq(Bytes), NEW w \in Seq(Bytes), NEW n \in 1 .. Len(w)
  PROVE  /\ b \o SubSeq(w, 1, n) \in Seq(Bytes) /\ From(w, n + 1) \in Seq(Bytes)
         /\ Len(b \o SubSeq(w, 1, n)) = Len(b) + n
         /\ (b \o SubSeq(w, 1, n)) \o From(w, n + 1) = b \o w
         /\ Len(From(w, n + 1)) = Len(w) - n
         /\ n < Len(w) => From(w, n + 1)[1] = w[n + 1]
<1> DEFINE c == SubSeq(w, 1, n)
           d == From(w, n + 1)
<1>1. n \in Nat /\ n <= Len(w) /\ n >= 1
  OBVIOUS
<1>2. c \in Seq(Bytes) /\ Len(c) = n /\ \A i \in 1 .. n : c[i] = w[i]
  OBVIOUS
<1>3. d \in Seq(Bytes) /\ Drops(d, w, n)
  BY <1>1, FromDrops
<1> HIDE DEF c, d
<1> DEFINE x == b \o c
           y == x \o d
           z == b \o w
<1>4. x \in Seq(Bytes) /\ Adds(x, b, c) /\ z \in Seq(Bytes) /\ Adds(z, b, w)
  BY <1>2, Cat
<1> HIDE DEF x, z
<1>5. y \in Seq(Bytes) /\ Adds(y, x, d)
  BY <1>3, <1>4, Cat
<1> HIDE DEF y
<1>6. Len(x) = Len(b) + n /\ Len(d) = Len(w) - n
  BY <1>2, <1>3, <1>4 DEF Adds, Drops
<1>7. Len(y) = Len(z)
  <2>1. Len(y) = Len(x) + Len(d) /\ Len(z) = Len(b) + Len(w)
    BY <1>4, <1>5 DEF Adds
  <2>2. Len(b) \in Nat /\ Len(w) \in Nat
    OBVIOUS
  <2> QED
    BY <2>1, <2>2, <1>1, <1>6
<1>8. ASSUME NEW i \in 1 .. Len(y)
      PROVE  y[i] = z[i]
  <2>1. CASE i \in 1 .. Len(x) /\ y[i] = x[i]
    <3>1. CASE i \in 1 .. Len(b) /\ x[i] = b[i]
      BY <3>1, <2>1, <1>4 DEF Adds
    <3>2. CASE i - Len(b) \in 1 .. Len(c) /\ x[i] = c[i - Len(b)]
      <4>1. i - Len(b) \in 1 .. Len(w) /\ c[i - Len(b)] = w[i - Len(b)] /\ Len(b) + (i - Len(b)) = i
        BY <3>2, <1>1, <1>2
      <4>2. z[Len(b) + (i - Len(b))] = w[i - Len(b)]
        BY <4>1, <1>4 DEF Adds
      <4> QED
        BY <4>1, <4>2, <3>2, <2>1
    <3> QED
      BY <3>1, <3>2, <2>1, <1>2, <1>4, AddedByte
  <2>2. CASE i - Len(x) \in 1 .. Len(d) /\ y[i] = d[i - Len(x)]
    <3> DEFINE k == i - Len(x)
    <3>1. d[k] = w[k + n]
      BY <2>2, <1>3 DEF Drops
    <3>2. k + n \in 1 .. Len(w) /\ Len(b) + (k + n) = i
      BY <2>2, <1>1, <1>6
    <3> HIDE DEF k
    <3>3. z[Len(b) + (k + n)] = w[k + n]
      BY <3>2, <1>4 DEF Adds
    <3> QED
      BY <3>1, <3>2, <3>3, <2>2 DEF k
  <2> QED
    BY <2>1, <2>2, <1>3, <1>4, <1>5, AddedByte
<1>9. y = z
  BY <1>4, <1>5, <1>7, <1>8, SeqEqual, Zenon
<1>10. n < Len(w) => d[1] = w[n + 1]
  <2>1. n < Len(w) => 1 \in 1 .. Len(d) /\ 1 + n = n + 1
    BY <1>1, <1>6
  <2> QED
    BY <2>1, <1>3 DEF Drops
<1> QED
  BY <1>3, <1>4, <1>6, <1>9, <1>10 DEF c, d, x, y, z

\* A frame that decodes is the one its field names, whole and not mangled.
LEMMA FrontFrame ==
  ASSUME NEW b \in Seq(Bytes), NEW w \in Seq(Bytes), PayloadsFollow(b \o w), Decode(b) = "frame"
  PROVE  /\ HeaderLen <= Len(b) /\ Known(b[HeaderLen])
         /\ FrameLen(b) \in Nat /\ HeaderLen <= FrameLen(b) /\ FrameLen(b) <= Len(b)
         /\ FrameAtFront(b) = b[HeaderLen].of
<1> DEFINE h == b[HeaderLen]
           len == h.len
           of == h.of
           m == HeaderLen + 1
           n == HeaderLen + len
           c == SubSeq(b, m, n)
           s == b \o w
<1>0. HeaderLen \in Nat /\ HeaderLen >= 1
  BY CoraAssumption
<1>1. HeaderLen <= Len(b) /\ Known(h) /\ HeaderLen + h.len <= Len(b) /\ h \in Bytes
  BY <1>0, DecodeMeans, ElementOfSeq
<1>2. len \in Nat /\ of \in 0 .. MaxItems
  BY <1>1, FieldTyped, KnownIsField
<1>3. s \in Seq(Bytes) /\ Adds(s, b, w)
  BY Cat
<1>4. PayloadsFollow(s)
  OBVIOUS
<1> HIDE DEF s
<1>5. HeaderLen \in 1 .. Len(s) /\ s[HeaderLen] = h
  BY <1>0, <1>1, <1>3 DEF Adds
<1>6. \A j \in HeaderLen + 1 .. HeaderLen + len : s[j] = Data(of)
  BY <1>1, <1>4, <1>5, KnownIsField DEF PayloadsFollow
<1> HIDE DEF h, len, of
<1>7. n <= Len(b) /\ m \in Int /\ n \in Int
  BY <1>0, <1>1, <1>2 DEF len
<1>8. ASSUME NEW j \in m .. n
      PROVE  b[j] = Data(of) /\ b[j] \in Bytes
  <2>1. j \in 1 .. Len(b)
    BY <1>0, <1>7
  <2> QED
    BY <2>1, <1>3, <1>6, ElementOfSeq DEF Adds
<1>9. /\ c \in Seq(Bytes) /\ Len(c) = IF m <= n THEN n - m + 1 ELSE 0
      /\ \A i \in 1 .. n - m + 1 : c[i] = b[m + i - 1]
  BY <1>7, <1>8, SubSeqProperties
<1>10. Len(c) = len /\ n - m + 1 = len
  BY <1>0, <1>2, <1>9
<1> HIDE DEF c
<1>11. ASSUME NEW i \in 1 .. len
       PROVE  c[i] = Data(of)
  <2>1. m + i - 1 \in m .. n
    BY <1>0, <1>2
  <2> QED
    BY <2>1, <1>8, <1>9, <1>10
<1>12. c = Payload(of, len)
  <2> DEFINE p == Payload(of, len)
  <2>1. p \in Seq(Bytes) /\ Len(p) = len /\ \A i \in 1 .. len : p[i] = Data(of)
    BY <1>2, PayloadTyped
  <2> HIDE DEF p
  <2>2. \A i \in 1 .. Len(c) : c[i] = p[i]
    BY <2>1, <1>10, <1>11
  <2>3. c \in Seq(Bytes) /\ Len(c) = Len(p)
    BY <2>1, <1>9, <1>10
  <2> QED
    BY <2>1, <2>2, <2>3, SeqEqual, Zenon DEF p
<1>13. FrameLen(b) = n
  BY DEF FrameLen, h, len
<1>14. FrameAtFront(b) = of
  BY <1>12, <1>13 DEF FrameAtFront, c, h, len, of
<1>15. n \in Nat /\ HeaderLen <= n
  BY <1>0, <1>2
<1> QED
  BY <1>1, <1>7, <1>13, <1>14, <1>15 DEF h, of

\* Frames alone never make the decoder fail.
LEMMA CleanDecodes ==
  ASSUME NEW b \in Seq(Bytes), NEW w \in Seq(Bytes), MagicsRunOn(b \o w), Clean(b \o w, Len(b))
  PROVE  Decode(b) # "error"
<1> SUFFICES ASSUME Decode(b) = "error"
             PROVE  FALSE
  OBVIOUS
<1> DEFINE s == b \o w
<1>0. MagicLen \in Nat /\ MagicLen >= 1 /\ HeaderLen = MagicLen + 1
  BY CoraAssumption
<1>1. s \in Seq(Bytes) /\ Adds(s, b, w)
  BY Cat
<1>2. MagicsRunOn(s) /\ Clean(s, Len(b))
  OBVIOUS
<1> HIDE DEF s
<1>3. Len(b) >= HeaderLen
  BY DecodeMeans
<1>4. /\ s # <<>> /\ 1 \in 1 .. Len(s) /\ 1 \in 1 .. MagicLen
      /\ \A j \in 1 .. HeaderLen : s[j] = b[j] /\ j \in 1 .. Len(b)
  BY <1>0, <1>1, <1>3 DEF Adds
<1>5. s[1] = Magic(1)
  BY <1>2, <1>4 DEF Clean
<1>6. /\ \A j \in 1 .. MagicLen : s[1 + j - 1] = Magic(j)
      /\ IsField(s[1 + HeaderLen - 1])
  BY <1>2, <1>4, <1>5 DEF MagicsRunOn
<1>7. ASSUME NEW j \in 1 .. MagicLen
      PROVE  b[j] = Magic(j)
  <2>1. 1 + j - 1 = j /\ j \in 1 .. HeaderLen
    BY <1>0
  <2> QED
    BY <2>1, <1>4, <1>6
<1>8. 1 + HeaderLen - 1 = HeaderLen /\ HeaderLen \in 1 .. HeaderLen
  BY <1>0
<1>9. IsField(b[HeaderLen]) /\ ~ Foreign(b[HeaderLen])
  BY <1>2, <1>4, <1>6, <1>8 DEF Clean
<1> QED
  BY <1>7, <1>9, DecodeMeans

--------------------------------------------------------------------------------
(***************************************************************************)
(* Every step keeps the stream in order.                                   *)
(***************************************************************************)
LEMMA CoraInit == Init => CoraInv
<1> SUFFICES ASSUME Init
             PROVE  CoraInv
  OBVIOUS
<1> USE DEF Init
<1>0. MagicLen \in Nat /\ MagicLen >= 1 /\ HeaderLen = MagicLen + 1 /\ MaxItems \in Nat
  BY CoraAssumption
<1>1. TypeOK
  <2>1. size \in Nat /\ Len(<<>>) = 0 /\ <<>> \in Seq(Bytes) /\ <<>> \in Seq(0 .. sent)
    BY CoraAssumption
  <2>2. items \in 0 .. MaxItems /\ sent \in 0 .. MaxItems
    BY <1>0
  <2>3. noisy \in BOOLEAN
    OBVIOUS
  <2> QED
    BY <2>1, <2>2, <2>3, <1>0 DEF TypeOK
<1>2. Stream = <<>> /\ Len(Stream) = 0
  BY DEF Stream
<1>3. LastOf(handled) = 0
  BY DEF LastOf
<1>4. OrderInv
  BY <1>0, <1>2, <1>3 DEF OrderInv, MagicsRunOn, PayloadsFollow, NumbersGrow
<1>5. Decode(buf) = "more"
  BY <1>0 DEF Decode
<1>6. IdleInv
  BY <1>5 DEF IdleInv
<1>7. WholeInv
  BY <1>2, <1>3 DEF WholeInv, FramesWhole, Clean, MidMagic
<1> QED
  BY <1>1, <1>4, <1>6, <1>7 DEF CoraInv

\* What the invariant says of the bytes and numbers of a state.
LEMMA StreamTyped ==
  CoraInv => /\ buf \in Seq(Bytes) /\ wire \in Seq(Bytes) /\ Stream \in Seq(Bytes)
             /\ Adds(Stream, buf, wire)
             /\ sent \in Nat /\ sent <= MaxItems /\ items \in Nat
             /\ LastOf(handled) \in Nat /\ LastOf(handled) <= sent
             /\ handled \in Seq(1 .. sent) /\ Len(handled) \in Nat
<1> SUFFICES ASSUME CoraInv
             PROVE  /\ buf \in Seq(Bytes) /\ wire \in Seq(Bytes) /\ Stream \in Seq(Bytes)
                    /\ Adds(Stream, buf, wire)
                    /\ sent \in Nat /\ sent <= MaxItems /\ items \in Nat
                    /\ LastOf(handled) \in Nat /\ LastOf(handled) <= sent
                    /\ handled \in Seq(1 .. sent) /\ Len(handled) \in Nat
  OBVIOUS
<1>1. buf \in Seq(Bytes) /\ wire \in Seq(Bytes) /\ sent \in Nat /\ sent <= MaxItems /\ items \in Nat
  BY CoraAssumption DEF CoraInv, TypeOK
<1>2. Stream \in Seq(Bytes) /\ Adds(Stream, buf, wire)
  BY <1>1, Cat DEF Stream
<1>3. handled \in Seq(1 .. sent) /\ Len(handled) \in Nat
  BY DEF CoraInv, OrderInv
<1>4. LastOf(handled) \in Nat /\ LastOf(handled) <= sent
  <2>1. CASE handled = <<>>
    BY <2>1, <1>1 DEF LastOf
  <2>2. CASE handled # <<>>
    <3>1. Len(handled) \in 1 .. Len(handled)
      BY <2>2, <1>3
    <3>2. handled[Len(handled)] \in 1 .. sent
      BY <3>1, <1>3, ElementOfSeq
    <3> QED
      BY <3>2, <2>2, <1>1 DEF LastOf
  <2> QED
    BY <2>1, <2>2
<1> QED
  BY <1>1, <1>2, <1>3, <1>4

\* A client that sends an item, with high the number of its last frame then.
LEMMA SendKeeps ==
  ASSUME CoraInv, NEW u, NEW high \in Nat, sent <= high, high <= MaxItems, Item(u, sent, high),
         NEW left \in Nat, left + high <= MaxItems, items' = left, sent' = high,
         wire' = wire \o u, noisy' \in {noisy, TRUE},
         noisy' = TRUE \/ \A i \in 1 .. Len(u) : ~ Foreign(u[i]),
         UNCHANGED <<size, buf, phase, handled>>
  PROVE  CoraInv'
<1> DEFINE s == Stream
           t == buf \o (wire \o u)
           low == LastOf(handled)
<1>0. /\ buf \in Seq(Bytes) /\ wire \in Seq(Bytes) /\ s \in Seq(Bytes) /\ Adds(s, buf, wire)
      /\ sent \in Nat /\ low \in Nat /\ low <= sent /\ handled \in Seq(1 .. sent)
  BY StreamTyped
<1>1. u \in Seq(Bytes) /\ Len(u) > 0 /\ Opens(u[1]) /\ MagicsRunOn(u) /\ PayloadsFollow(u) /\ Holds(u, sent, high)
  BY DEF Item
<1>2. wire \o u \in Seq(Bytes) /\ t = s \o u /\ t \in Seq(Bytes) /\ Adds(t, s, u)
  <2>1. t = s \o u
    <3>1. (buf \o wire) \o u = buf \o (wire \o u)
      BY <1>0, <1>1, CatAssociative
    <3> QED
      BY <3>1 DEF Stream
  <2> QED
    BY <2>1, <1>0, <1>1, Cat
<1>3. t = Stream'
  BY DEF Stream
<1> HIDE DEF t
<1>4. MagicsRunOn(s) /\ PayloadsFollow(s) /\ NumbersGrow(s, low, sent)
  BY DEF CoraInv, OrderInv
<1> HIDE DEF s, low
<1>5. MagicsRunOn(t) /\ PayloadsFollow(t)
  BY <1>0, <1>1, <1>2, <1>4, AddKeeps
<1>6. NumbersGrow(t, low, high)
  BY <1>0, <1>1, <1>2, <1>4, AddNumbers
<1>7. TypeOK'
  <2>1. items' \in 0 .. MaxItems /\ sent' \in 0 .. MaxItems
    <3>1. MaxItems \in Nat /\ high \in 0 .. MaxItems
      BY CoraAssumption
    <3>2. left \in 0 .. MaxItems
      BY <3>1
    <3> QED
      BY <3>1, <3>2
  <2>2. handled' \in Seq(0 .. sent')
    <3>1. 1 .. sent \subseteq 0 .. sent'
      BY <1>0
    <3> QED
      BY <3>1, <1>0
  <2>3. /\ wire' \in Seq(Bytes) /\ buf' \in Seq(Bytes) /\ size' \in BufSizes /\ Len(buf') <= size'
        /\ phase' \in {"read", "decode", "closed"} /\ Len(handled') <= MaxItems
        /\ noisy' \in BOOLEAN
    BY <1>0, <1>2 DEF CoraInv, TypeOK
  <2> QED
    BY <2>1, <2>2, <2>3 DEF TypeOK
<1>8. OrderInv'
  <2>1. handled' \in Seq(1 .. sent')
    <3>1. 1 .. sent \subseteq 1 .. sent'
      BY <1>0
    <3> QED
      BY <3>1, <1>0
  <2>2. Len(handled') <= LastOf(handled') /\ LastOf(handled') = low
    BY DEF CoraInv, OrderInv, low
  <2>3. MagicsRunOn(Stream') /\ PayloadsFollow(Stream') /\ NumbersGrow(Stream', LastOf(handled'), sent')
    BY <2>2, <1>3, <1>5, <1>6
  <2> QED
    BY <2>1, <2>2, <2>3 DEF OrderInv
<1>9. IdleInv'
  BY DEF CoraInv, IdleInv
<1>10. ASSUME WholeInv
       PROVE  WholeInv'
  <2>1. LastOf(handled') = Len(handled')
    BY <1>10 DEF WholeInv
  <2>2. FramesWhole(s, low, sent)
    BY <1>10 DEF WholeInv, s, low
  <2>3. FramesWhole(t, low, high)
    BY <2>2, <1>0, <1>1, <1>2, AddWhole
  <2>4. FramesWhole(Stream', LastOf(handled'), sent')
    BY <2>3, <1>3 DEF low
  <2>5. noisy' = FALSE => Clean(t, Len(t))
    <3> SUFFICES ASSUME noisy' = FALSE
                 PROVE  Clean(t, Len(t))
      OBVIOUS
    <3>1. Clean(s, Len(s)) /\ \A i \in 1 .. Len(u) : ~ Foreign(u[i])
      BY <1>10 DEF WholeInv, s
    <3>2. ASSUME NEW i \in 1 .. Len(t)
          PROVE  ~ Foreign(t[i])
      BY <3>1, <1>0, <1>1, <1>2, AddedByte DEF Clean
    <3>3. t[1] = Magic(1)
      <4>1. CASE s = <<>>
        <5>1. Len(s) = 0 /\ 1 \in 1 .. Len(u) /\ Len(s) + 1 = 1
          BY <4>1, <1>1
        <5>2. t[Len(s) + 1] = u[1]
          BY <5>1, <1>2 DEF Adds
        <5>3. u[1] # Noise
          BY <5>1, <3>1, OtherFacts
        <5> QED
          BY <5>1, <5>2, <5>3, <1>1 DEF Opens
      <4>2. CASE s # <<>>
        <5>1. 1 \in 1 .. Len(s)
          BY <4>2, <1>0
        <5> QED
          BY <5>1, <4>2, <3>1, <1>2 DEF Adds, Clean
      <4> QED
        BY <4>1, <4>2
    <3> QED
      BY <3>2, <3>3 DEF Clean
  <2>6. MidMagic' => Clean(t, Len(buf'))
    <3> SUFFICES ASSUME MidMagic'
                 PROVE  Clean(t, Len(buf))
      OBVIOUS
    <3>1. PICK k \in 2 .. MagicLen : wire'[1] = Magic(k)
      BY DEF MidMagic
    <3>2. wire # <<>>
      <4> SUFFICES ASSUME wire = <<>>
                   PROVE  FALSE
        OBVIOUS
      <4>1. wire' = u
        BY <1>0, <1>1
      <4>2. Magic(k) = Magic(1) \/ Magic(k) = Noise
        BY <4>1, <3>1, <1>1 DEF Opens
      <4>3. k \in Nat /\ k # 1
        BY CoraAssumption
      <4> QED
        BY <4>2, <4>3, MagicFacts
    <3>3. wire'[1] = wire[1]
      <4>1. 1 \in 1 .. Len(wire)
        BY <3>2, <1>0
      <4>2. Adds(wire \o u, wire, u)
        BY <1>0, <1>1, Cat
      <4> QED
        BY <4>1, <4>2 DEF Adds
    <3>4. Clean(s, Len(buf))
      BY <3>1, <3>2, <3>3, <1>10 DEF WholeInv, MidMagic, s
    <3>5. ASSUME NEW i \in 1 .. Len(buf)
          PROVE  t[i] = s[i]
      BY <1>0, <1>2 DEF Adds
    <3>6. s # <<>> /\ 1 \in 1 .. Len(s) /\ t[1] = s[1]
      <4>1. Len(s) = Len(buf) + Len(wire) /\ Len(wire) > 0
        BY <3>2, <1>0 DEF Adds
      <4>2. 1 \in 1 .. Len(s)
        BY <4>1, <1>0
      <4> QED
        BY <4>2, <1>2 DEF Adds
    <3> QED
      BY <3>4, <3>5, <3>6 DEF Clean
  <2>7. /\ noisy' = FALSE => Clean(Stream', Len(Stream'))
        /\ MidMagic' => Clean(Stream', Len(buf'))
    BY <2>5, <2>6, <1>3
  <2> QED
    BY <2>1, <2>4, <2>7 DEF WholeInv
<1> QED
  BY <1>7, <1>8, <1>9, <1>10 DEF CoraInv

LEMMA SendFrameStep ==
  ASSUME CoraInv, NEW len \in 0 .. MaxPayload, SendFrame(len)
  PROVE  CoraInv'
<1> DEFINE high == sent + 1
           left == items - 1
           u == Encode(high, "known", len)
<1>1. /\ items \in Nat /\ sent \in Nat /\ items + sent <= MaxItems /\ items > 0
      /\ items' = left /\ sent' = high /\ UNCHANGED <<noisy, size, buf, phase, handled>>
      /\ wire' = wire \o Encode(sent', "known", len)
  BY StreamTyped DEF SendFrame, CoraInv, OrderInv
<1>2. /\ left \in Nat /\ high \in Nat /\ left + high <= MaxItems /\ sent <= high /\ high <= MaxItems
      /\ high \in 0 .. MaxItems
  BY <1>1, CoraAssumption
<1>3. wire' = wire \o u
  BY <1>1
<1>4. Item(u, sent, high)
  BY <1>1, <1>2, FrameIsItem
<1>5. \A i \in 1 .. Len(u) : ~ Foreign(u[i])
  <2>1. /\ Len(u) = HeaderLen + len /\ u[HeaderLen] = Field(high, "known", len)
        /\ \A j \in 1 .. MagicLen : u[j] = Magic(j)
        /\ \A j \in HeaderLen + 1 .. Len(u) : u[j] = Data(high)
    BY <1>2, Encoded
  <2>2. HeaderLen = MagicLen + 1 /\ MagicLen \in Nat /\ len \in Nat
    BY CoraAssumption
  <2>3. ~ Foreign(Field(high, "known", len))
    BY DEF Foreign, Field
  <2> HIDE DEF u, high
  <2> TAKE i \in 1 .. Len(u)
  <2>4. i \in 1 .. MagicLen \/ i = HeaderLen \/ i \in HeaderLen + 1 .. Len(u)
    BY <2>1, <2>2
  <2> QED
    BY <2>1, <2>2, <2>3, <2>4, MagicFacts, OtherFacts
<1> HIDE DEF high, left, u
<1>6. noisy' \in {noisy, TRUE}
  BY <1>1
<1> QED
  BY <1>1, <1>2, <1>3, <1>4, <1>5, <1>6, SendKeeps

LEMMA SendNoiseStep ==
  ASSUME CoraInv, NEW bytes \in NoiseRuns, SendNoise(bytes)
  PROVE  CoraInv'
<1> DEFINE left == items - 1
<1>1. /\ items \in Nat /\ sent \in Nat /\ items + sent <= MaxItems /\ items > 0
      /\ items' = left /\ sent' = sent /\ UNCHANGED <<size, buf, phase, handled>>
      /\ wire' = wire \o bytes
  BY StreamTyped DEF SendNoise, CoraInv, OrderInv
<1>2. left \in Nat /\ left + sent <= MaxItems /\ sent <= sent /\ sent <= MaxItems
  BY <1>1, CoraAssumption
<1>3. Item(bytes, sent, sent)
  BY <1>1, NoiseIsItem
<1>4. noisy' = TRUE
  BY DEF SendNoise
<1>5. noisy' \in {noisy, TRUE}
  BY <1>4
<1> HIDE DEF left
<1> QED
  BY <1>1, <1>2, <1>3, <1>4, <1>5, SendKeeps

LEMMA ReadChunkStep ==
  ASSUME CoraInv, NEW n \in 1 .. Len(wire), ReadChunk(n)
  PROVE  CoraInv'
<1>0. buf \in Seq(Bytes) /\ wire \in Seq(Bytes) /\ size \in Nat /\ MagicLen \in Nat
  BY CoraAssumption DEF CoraInv, TypeOK
<1>1. /\ buf' = buf \o SubSeq(wire, 1, n) /\ wire' = From(wire, n + 1) /\ phase' = "decode"
      /\ n <= size - Len(buf)
      /\ UNCHANGED <<items, noisy, sent, size, handled>>
  BY DEF ReadChunk
<1>2. /\ buf' \in Seq(Bytes) /\ wire' \in Seq(Bytes) /\ Len(buf') = Len(buf) + n
      /\ buf' \o wire' = buf \o wire
      /\ Len(wire') = Len(wire) - n
      /\ n < Len(wire) => wire'[1] = wire[n + 1]
  BY <1>0, <1>1, CutStream
<1>3. Stream' = Stream
  BY <1>2 DEF Stream
<1>4. Len(buf') <= size
  BY <1>0, <1>1, <1>2
<1>5. TypeOK'
  BY <1>1, <1>2, <1>4 DEF CoraInv, TypeOK
<1>6. OrderInv'
  BY <1>1, <1>3 DEF CoraInv, OrderInv
<1>7. IdleInv'
  BY <1>1 DEF IdleInv
<1>8. ASSUME ~ SplitMagic, WholeInv
      PROVE  WholeInv'
  <2>1. /\ LastOf(handled') = Len(handled')
        /\ FramesWhole(Stream', LastOf(handled'), sent')
        /\ noisy' = FALSE => Clean(Stream', Len(Stream'))
    BY <1>1, <1>3, <1>8 DEF WholeInv
  <2>2. ASSUME MidMagic'
        PROVE  Clean(Stream', Len(buf'))
    <3>1. wire' # <<>>
      BY <2>2 DEF MidMagic
    <3>2. PICK k \in 2 .. MagicLen : wire'[1] = Magic(k)
      BY <2>2 DEF MidMagic
    <3>3. n < Len(wire)
      BY <3>1, <1>0, <1>2
    <3>4. k \in Nat /\ k > 1 /\ wire[n + 1] = Magic(k)
      BY <3>2, <3>3, <1>0, <1>2
    <3>5. InsideMagic(n)
      BY <3>3, <3>4, MagicFacts DEF InsideMagic
    <3>6. noisy = FALSE
      BY <3>5, <1>8 DEF ReadChunk, CoraInv, TypeOK
    <3>7. Clean(Stream, Len(Stream))
      BY <3>6, <1>8 DEF WholeInv
    <3>8. Len(buf') <= Len(Stream)
      <4>1. Len(Stream) = Len(buf') + Len(wire')
        BY <1>2, <1>3, Cat DEF Stream, Adds
      <4> QED
        BY <4>1, <1>2
    <3>9. 1 .. Len(buf') \subseteq 1 .. Len(Stream)
      BY <3>8, <1>2, StreamTyped
    <3> QED
      BY <3>7, <3>9, <1>3 DEF Clean
  <2> QED
    BY <2>1, <2>2 DEF WholeInv
<1> QED
  BY <1>5, <1>6, <1>7, <1>8 DEF CoraInv

\* The loop gives up the first q bytes of the buffer; low is the last frame handled then.
LEMMA Consumes ==
  ASSUME CoraInv, NEW q \in Nat, q <= Len(buf), buf' = From(buf, q + 1),
         NEW low \in Nat, LastOf(handled) <= low,
         UNCHANGED <<wire, sent, size>>,
         \A i \in 1 .. Len(Stream) : Known(Stream[i]) /\ i > q => Stream[i].of > low
  PROVE  /\ buf' \in Seq(Bytes) /\ Len(buf') <= size /\ Len(buf') = Len(buf) - q
         /\ Stream' \in Seq(Bytes) /\ Drops(Stream', Stream, q)
         /\ MagicsRunOn(Stream') /\ PayloadsFollow(Stream') /\ NumbersGrow(Stream', low, sent)
         /\ WholeInv /\ (\A i \in 1 .. Len(Stream) :
                           Known(Stream[i]) /\ Stream[i].of > low => q + HeaderLen <= i)
              => FramesWhole(Stream', low, sent)
<1> DEFINE s == Stream
           t == Stream'
           from == LastOf(handled)
<1>0. /\ buf \in Seq(Bytes) /\ wire \in Seq(Bytes) /\ s \in Seq(Bytes) /\ sent \in Nat /\ from \in Nat
      /\ size \in Nat /\ Len(buf) <= size
  BY StreamTyped, CoraAssumption DEF CoraInv, TypeOK
<1>1. buf' \in Seq(Bytes) /\ Drops(buf', buf, q)
  BY <1>0, FromDrops
<1>2. Len(buf') = Len(buf) - q /\ Len(buf') <= size
  BY <1>0, <1>1 DEF Drops
<1>3. t = From(buf, q + 1) \o wire
  BY DEF Stream
<1>4. t \in Seq(Bytes) /\ Drops(t, s, q)
  BY <1>0, <1>1, <1>3, Cat, FrontDrops DEF Stream
<1>5. MagicsRunOn(s) /\ PayloadsFollow(s) /\ NumbersGrow(s, from, sent)
  BY DEF CoraInv, OrderInv
<1>6. \A i \in 1 .. Len(s) : Known(s[i]) /\ i > q => s[i].of > low
  OBVIOUS
<1>7. \A i \in 1 .. Len(s) : Known(s[i]) => s[i].of \in Nat
  BY <1>0, <1>5 DEF NumbersGrow
<1>8. WholeInv => FramesWhole(s, from, sent)
  BY DEF WholeInv
<1> HIDE DEF s, t, from
<1>9. MagicsRunOn(t) /\ PayloadsFollow(t)
  BY <1>0, <1>4, <1>5, DropKeeps
<1>10. NumbersGrow(t, low, sent)
  BY <1>0, <1>4, <1>5, <1>6, DropNumbers
<1>11. ASSUME FramesWhole(s, from, sent),
              \A i \in 1 .. Len(s) : Known(s[i]) /\ s[i].of > low => q + HeaderLen <= i
       PROVE  FramesWhole(t, low, sent)
  <2>1. from <= low
    BY DEF from
  <2> QED
    BY <2>1, <1>0, <1>4, <1>6, <1>7, <1>11, DropWhole
<1> QED
  BY <1>1, <1>2, <1>4, <1>8, <1>9, <1>10, <1>11 DEF s, t

\* As long as no magic is cut, an error says that there was noise, and the buffer
\* does not end in a magic.
LEMMA ErrorIsNoise ==
  ASSUME CoraInv, WholeInv, Decode(buf) = "error"
  PROVE  noisy # FALSE /\ ~ MidMagic
<1>0. /\ buf \in Seq(Bytes) /\ wire \in Seq(Bytes) /\ Stream \in Seq(Bytes) /\ Adds(Stream, buf, wire)
      /\ MagicsRunOn(buf \o wire)
  BY StreamTyped DEF CoraInv, OrderInv, Stream
<1>1. ~ Clean(Stream, Len(buf))
  BY <1>0, CleanDecodes DEF Stream
<1>2. ~ Clean(Stream, Len(Stream))
  <2>1. 1 .. Len(buf) \subseteq 1 .. Len(Stream)
    BY <1>0 DEF Adds
  <2> QED
    BY <2>1, <1>1 DEF Clean
<1> QED
  BY <1>1, <1>2 DEF WholeInv

\* Where the magic of a frame that is still whole begins.
LEMMA FrameStart ==
  ASSUME CoraInv, WholeInv, NEW i \in 1 .. Len(Stream), Known(Stream[i])
  PROVE  LET p == i - MagicLen
         IN  /\ p \in Nat /\ 1 <= p /\ p + MagicLen - 1 <= Len(Stream)
             /\ \A j \in 1 .. MagicLen : Stream[p + j - 1] = Magic(j)
<1> DEFINE p == i - MagicLen
<1>0. MagicLen \in Nat /\ MagicLen >= 1 /\ HeaderLen = MagicLen + 1 /\ Len(Stream) \in Nat
  BY CoraAssumption, StreamTyped
<1>1. HeaderLen <= i /\ \A j \in 1 .. MagicLen : Stream[i + j - HeaderLen] = Magic(j)
  BY DEF WholeInv, FramesWhole
<1>2. p \in Nat /\ 1 <= p /\ p + MagicLen - 1 <= Len(Stream)
  BY <1>0, <1>1
<1>3. ASSUME NEW j \in 1 .. MagicLen
      PROVE  Stream[p + j - 1] = Magic(j)
  <2>1. p + j - 1 = i + j - HeaderLen
    BY <1>0
  <2> QED
    BY <2>1, <1>1
<1> QED
  BY <1>2, <1>3

LEMMA SkipStep ==
  ASSUME CoraInv, SkipToMagic
  PROVE  CoraInv'
<1> DEFINE m == FindMagic(buf)
           q == IF m = 1 THEN 1 ELSE m - 1
           low == LastOf(handled)
<1>0. /\ buf \in Seq(Bytes) /\ wire \in Seq(Bytes) /\ Stream \in Seq(Bytes) /\ Adds(Stream, buf, wire)
      /\ low \in Nat /\ sent \in Nat /\ MagicLen \in Nat /\ MagicLen >= 1 /\ HeaderLen = MagicLen + 1
  BY StreamTyped, CoraAssumption
<1>1. /\ phase = "decode" /\ Decode(buf) = "error" /\ m # 0
      /\ UNCHANGED <<items, wire, noisy, sent, size, phase, handled>>
      /\ buf' = From(buf, IF m = 1 THEN 2 ELSE m)
  BY DEF SkipToMagic
<1>2. /\ m \in Nat /\ m \in 0 .. Len(buf) /\ m + MagicLen - 1 <= Len(buf)
      /\ \A p \in 1 .. Len(buf) :
           p + MagicLen - 1 <= Len(buf) /\ (\A j \in 1 .. MagicLen : buf[p + j - 1] = Magic(j))
             => m <= p
  BY <1>0, <1>1, FindMagicFirst
<1> HIDE DEF m
<1>3. q \in Nat /\ q <= Len(buf) /\ q + 1 = IF m = 1 THEN 2 ELSE m
  BY <1>0, <1>1, <1>2
<1>4. buf' = From(buf, q + 1)
  BY <1>1, <1>3
<1>5. \A i \in 1 .. Len(Stream) : Known(Stream[i]) => Stream[i].of > low
  BY <1>0 DEF CoraInv, OrderInv, NumbersGrow
<1>6. ASSUME WholeInv, NEW i \in 1 .. Len(Stream), Known(Stream[i])
      PROVE  q + HeaderLen <= i
  <2> DEFINE p == i - MagicLen
  <2>1. /\ p \in Nat /\ 1 <= p /\ p + MagicLen - 1 <= Len(Stream)
        /\ \A j \in 1 .. MagicLen : Stream[p + j - 1] = Magic(j)
    BY <1>6, FrameStart
  <2>2. i = p + MagicLen
    BY <1>0
  <2> HIDE DEF p
  <2> SUFFICES ASSUME p <= q
               PROVE  FALSE
    BY <2>1, <2>2, <1>0, <1>3
  <2>3. p <= m /\ p + MagicLen - 1 <= Len(buf) /\ p \in 1 .. Len(buf)
    BY <2>1, <1>0, <1>1, <1>2
  <2>4. ASSUME NEW j \in 1 .. MagicLen
        PROVE  buf[p + j - 1] = Magic(j)
    <3>1. p + j - 1 \in 1 .. Len(buf)
      BY <2>1, <2>3, <1>0
    <3> QED
      BY <3>1, <2>1, <1>0 DEF Adds
  <2>5. m <= p
    BY <2>3, <2>4, <1>2
  <2>6. p = 1 /\ i = HeaderLen
    BY <2>1, <2>2, <2>5, <1>0, <1>1, <1>2
  <2>7. Len(buf) >= HeaderLen
    BY <1>0, <1>1, DecodeMeans
  <2>8. buf[HeaderLen] = Stream[HeaderLen]
    BY <2>7, <1>0 DEF Adds
  <2>9. \A j \in 1 .. MagicLen : buf[j] = Magic(j)
    <3> TAKE j \in 1 .. MagicLen
    <3>1. 1 + j - 1 = j
      BY <1>0
    <3> QED
      BY <3>1, <2>4, <2>6
  <2>10. IsField(buf[HeaderLen]) /\ ~ Foreign(buf[HeaderLen])
    BY <2>6, <2>8, <1>6, KnownIsField
  <2> QED
    BY <2>9, <2>10, <1>0, <1>1, DecodeMeans
<1> HIDE DEF q
<1>7. /\ buf' \in Seq(Bytes) /\ Len(buf') <= size
      /\ MagicsRunOn(Stream') /\ PayloadsFollow(Stream') /\ NumbersGrow(Stream', low, sent)
      /\ WholeInv => FramesWhole(Stream', low, sent)
  <2>1. LastOf(handled) <= low
    BY <1>0
  <2> HIDE DEF low
  <2> QED
    BY <2>1, <1>0, <1>1, <1>3, <1>4, <1>5, <1>6, Consumes
<1>8. TypeOK'
  BY <1>1, <1>7 DEF CoraInv, TypeOK
<1>9. OrderInv'
  BY <1>1, <1>7 DEF CoraInv, OrderInv
<1>10. IdleInv'
  BY <1>1 DEF IdleInv
<1>11. ASSUME WholeInv
       PROVE  WholeInv'
  <2>1. noisy' # FALSE /\ ~ MidMagic'
    BY <1>1, <1>11, ErrorIsNoise DEF MidMagic
  <2>2. LastOf(handled') = Len(handled') /\ FramesWhole(Stream', LastOf(handled'), sent')
    BY <1>1, <1>7, <1>11 DEF WholeInv
  <2> QED
    BY <2>1, <2>2 DEF WholeInv
<1> QED
  BY <1>8, <1>9, <1>10, <1>11 DEF CoraInv

LEMMA DiscardStep ==
  ASSUME CoraInv, Discard
  PROVE  CoraInv'
<1> DEFINE q == Len(buf)
           low == LastOf(handled)
<1>0. /\ buf \in Seq(Bytes) /\ wire \in Seq(Bytes) /\ Stream \in Seq(Bytes) /\ Adds(Stream, buf, wire)
      /\ low \in Nat /\ sent \in Nat /\ MagicLen \in Nat /\ MagicLen >= 1 /\ HeaderLen = MagicLen + 1
  BY StreamTyped, CoraAssumption
<1>1. /\ phase = "decode" /\ Decode(buf) = "error" /\ FindMagic(buf) = 0
      /\ UNCHANGED <<items, wire, noisy, sent, size, handled>>
      /\ buf' = <<>> /\ phase' = "read"
  BY DEF Discard
<1>2. \A p \in 1 .. Len(buf) :
        ~ (p + MagicLen - 1 <= Len(buf) /\ (\A j \in 1 .. MagicLen : buf[p + j - 1] = Magic(j)))
  BY <1>0, <1>1, FindMagicFirst
<1>3. q \in Nat /\ q <= Len(buf)
  BY <1>0
<1>4. buf' = From(buf, q + 1)
  <2>1. q \in Int /\ q + 1 \in Int /\ q < q + 1
    BY <1>3
  <2> HIDE DEF q
  <2>2. SubSeq(buf, q + 1, q) = <<>>
    BY <2>1, SubSeqEmpty
  <2> QED
    BY <2>2, <1>1 DEF From, q
<1>5. \A i \in 1 .. Len(Stream) : Known(Stream[i]) => Stream[i].of > low
  BY <1>0 DEF CoraInv, OrderInv, NumbersGrow
<1>6. ASSUME WholeInv, NEW i \in 1 .. Len(Stream), Known(Stream[i])
      PROVE  q + HeaderLen <= i
  <2> DEFINE p == i - MagicLen
  <2>1. /\ p \in Nat /\ 1 <= p /\ p + MagicLen - 1 <= Len(Stream)
        /\ \A j \in 1 .. MagicLen : Stream[p + j - 1] = Magic(j)
    BY <1>6, FrameStart
  <2>2. i = p + MagicLen
    BY <1>0
  <2> HIDE DEF p
  <2> SUFFICES ASSUME p <= q
               PROVE  FALSE
    BY <2>1, <2>2, <1>0, <1>3
  <2>3. p \in 1 .. Len(buf)
    BY <2>1, <1>3
  <2>4. CASE p + MagicLen - 1 <= Len(buf)
    <3>1. ASSUME NEW j \in 1 .. MagicLen
          PROVE  buf[p + j - 1] = Magic(j)
      <4>1. p + j - 1 \in 1 .. Len(buf)
        BY <2>1, <2>4, <1>0
      <4> QED
        BY <4>1, <2>1, <1>0 DEF Adds
    <3> QED
      BY <3>1, <2>3, <2>4, <1>2
  <2>5. CASE p + MagicLen - 1 > Len(buf)
    <3> DEFINE k == q + 2 - p
    <3>1. k \in 2 .. MagicLen /\ k \in 1 .. MagicLen /\ p + k - 1 = q + 1
      BY <2>1, <2>5, <1>0, <1>3
    <3> HIDE DEF k
    <3>2. Stream[q + 1] = Magic(k)
      BY <3>1, <2>1
    <3>3. Len(Stream) = q + Len(wire) /\ q + 1 <= Len(Stream)
      BY <2>1, <2>5, <1>0, <1>3 DEF Adds
    <3>4. 1 \in 1 .. Len(wire) /\ wire # <<>>
      BY <3>3, <1>0, <1>3
    <3>5. wire[1] = Magic(k)
      BY <3>2, <3>4, <1>0 DEF Adds
    <3>6. MidMagic
      BY <3>1, <3>4, <3>5 DEF MidMagic
    <3> QED
      BY <3>6, <1>1, <1>6, ErrorIsNoise
  <2> QED
    BY <2>1, <2>4, <2>5, <1>0
<1> HIDE DEF q
<1>7. /\ buf' \in Seq(Bytes) /\ Len(buf') <= size
      /\ MagicsRunOn(Stream') /\ PayloadsFollow(Stream') /\ NumbersGrow(Stream', low, sent)
      /\ WholeInv => FramesWhole(Stream', low, sent)
  <2>1. LastOf(handled) <= low
    BY <1>0
  <2> HIDE DEF low
  <2> QED
    BY <2>1, <1>0, <1>1, <1>3, <1>4, <1>5, <1>6, Consumes
<1>8. TypeOK'
  BY <1>1, <1>7 DEF CoraInv, TypeOK
<1>9. OrderInv'
  BY <1>1, <1>7 DEF CoraInv, OrderInv
<1>10. IdleInv'
  <2>1. Len(buf') < HeaderLen
    BY <1>0, <1>1
  <2> QED
    BY <2>1, <1>1, <1>7, DecodeMeans DEF IdleInv
<1>11. ASSUME WholeInv
       PROVE  WholeInv'
  <2>1. noisy' # FALSE /\ ~ MidMagic'
    BY <1>1, <1>11, ErrorIsNoise DEF MidMagic
  <2>2. LastOf(handled') = Len(handled') /\ FramesWhole(Stream', LastOf(handled'), sent')
    BY <1>1, <1>7, <1>11 DEF WholeInv
  <2> QED
    BY <2>1, <2>2 DEF WholeInv
<1> QED
  BY <1>8, <1>9, <1>10, <1>11 DEF CoraInv

\* The frame that is handled is the next one, when none was lost.
LEMMA NextFrame ==
  ASSUME CoraInv, WholeInv, Decode(buf) = "frame"
  PROVE  FrameAtFront(buf) = Len(handled) + 1 /\ Len(handled) < sent
<1> DEFINE low == LastOf(handled)
           f == FrameAtFront(buf)
<1>0. /\ buf \in Seq(Bytes) /\ wire \in Seq(Bytes) /\ Stream \in Seq(Bytes) /\ Adds(Stream, buf, wire)
      /\ low \in Nat /\ sent \in Nat /\ HeaderLen \in Nat /\ HeaderLen >= 1
  BY StreamTyped, CoraAssumption
<1>1. PayloadsFollow(buf \o wire) /\ NumbersGrow(Stream, low, sent) /\ FramesWhole(Stream, low, sent) /\ low = Len(handled)
  BY DEF CoraInv, OrderInv, WholeInv, Stream
<1>2. HeaderLen <= Len(buf) /\ Known(buf[HeaderLen]) /\ f = buf[HeaderLen].of
  BY <1>0, <1>1, FrontFrame
<1>3. HeaderLen \in 1 .. Len(Stream) /\ Stream[HeaderLen] = buf[HeaderLen]
  BY <1>0, <1>2 DEF Adds
<1> HIDE DEF low, f
<1>4. f \in low + 1 .. sent
  BY <1>1, <1>2, <1>3 DEF NumbersGrow
<1>5. low + 1 \in low + 1 .. sent
  BY <1>0, <1>4
<1>6. PICK i \in 1 .. Len(Stream) : Known(Stream[i]) /\ Stream[i].of = low + 1
  BY <1>1, <1>5 DEF FramesWhole
<1>7. HeaderLen <= i
  BY <1>1, <1>6 DEF FramesWhole
<1>8. HeaderLen < i => f < low + 1
  BY <1>1, <1>2, <1>3, <1>6 DEF NumbersGrow
<1>9. i = HeaderLen
  BY <1>0, <1>4, <1>7, <1>8
<1>10. f = low + 1
  BY <1>2, <1>3, <1>6, <1>9
<1> QED
  BY <1>0, <1>1, <1>4, <1>10 DEF f

LEMMA HandleStep ==
  ASSUME CoraInv, HandleFrame
  PROVE  CoraInv'
<1> DEFINE q == FrameLen(buf)
           f == FrameAtFront(buf)
           low == LastOf(handled)
<1>0. /\ buf \in Seq(Bytes) /\ wire \in Seq(Bytes) /\ Stream \in Seq(Bytes) /\ Adds(Stream, buf, wire)
      /\ low \in Nat /\ sent \in Nat /\ sent <= MaxItems /\ MaxItems \in Nat
      /\ MagicLen \in Nat /\ MagicLen >= 1 /\ HeaderLen = MagicLen + 1
      /\ handled \in Seq(1 .. sent) /\ Len(handled) \in Nat
  BY StreamTyped, CoraAssumption
<1>1. /\ phase = "decode" /\ Decode(buf) = "frame"
      /\ handled' = Append(handled, f)
      /\ buf' = From(buf, q + 1)
      /\ UNCHANGED <<items, wire, noisy, sent, size, phase>>
  BY DEF HandleFrame
<1>2. /\ PayloadsFollow(Stream) /\ NumbersGrow(Stream, low, sent) /\ Len(handled) <= low
      /\ PayloadsFollow(buf \o wire)
  BY DEF CoraInv, OrderInv, Stream
<1>3. /\ HeaderLen <= Len(buf) /\ Known(buf[HeaderLen])
      /\ q \in Nat /\ HeaderLen <= q /\ q <= Len(buf)
      /\ f = buf[HeaderLen].of
  BY <1>0, <1>1, <1>2, FrontFrame
<1>4. q = HeaderLen + buf[HeaderLen].len
  BY DEF FrameLen
<1>5. HeaderLen \in 1 .. Len(Stream) /\ Stream[HeaderLen] = buf[HeaderLen]
  BY <1>0, <1>3 DEF Adds
<1> HIDE DEF q, f, low
<1>6. f \in low + 1 .. sent
  BY <1>2, <1>3, <1>5 DEF NumbersGrow
<1>7. ASSUME NEW i \in 1 .. Len(Stream), Known(Stream[i]), i > q
      PROVE  Stream[i].of > f
  <2>1. HeaderLen < i
    BY <1>0, <1>3, <1>7
  <2>2. Stream[HeaderLen].of < Stream[i].of
    BY <2>1, <1>2, <1>3, <1>5, <1>7 DEF NumbersGrow
  <2>3. Stream[i].of \in Nat
    BY <1>0, <1>2, <1>7 DEF NumbersGrow
  <2> QED
    BY <2>2, <2>3, <1>0, <1>3, <1>5, <1>6
<1>8. /\ \A j \in HeaderLen + 1 .. q : Stream[j] = Data(f)
      /\ q < Len(Stream) => Opens(Stream[q + 1])
  BY <1>2, <1>3, <1>4, <1>5, KnownIsField DEF PayloadsFollow
<1>9. /\ handled' \in Seq(1 .. sent) /\ Len(handled') = Len(handled) + 1
      /\ LastOf(handled') = f
  <2>1. f \in 1 .. sent
    BY <1>0, <1>6
  <2>2. handled' \in Seq(1 .. sent) /\ Len(handled') = Len(handled) + 1 /\ handled'[Len(handled) + 1] = f
    BY <2>1, <1>0, <1>1
  <2>3. handled' # <<>>
    BY <2>2, <1>0
  <2> QED
    BY <2>2, <2>3 DEF LastOf
<1>10. ASSUME WholeInv, NEW i \in 1 .. Len(Stream), Known(Stream[i]), Stream[i].of > f
       PROVE  q + HeaderLen <= i
  <2> DEFINE p == i - MagicLen
  <2>1. /\ p \in Nat /\ 1 <= p /\ p + MagicLen - 1 <= Len(Stream)
        /\ \A j \in 1 .. MagicLen : Stream[p + j - 1] = Magic(j)
    BY <1>10, FrameStart
  <2>2. i = p + MagicLen /\ 1 \in 1 .. MagicLen /\ p + 1 - 1 = p
    BY <1>0
  <2>3. Stream[p] = Magic(1)
    BY <2>1, <2>2
  <2> HIDE DEF p
  <2> SUFFICES ASSUME p <= q
               PROVE  FALSE
    BY <2>1, <2>2, <1>0, <1>3
  <2>4. CASE p \in 1 .. MagicLen
    <3>1. \A j \in 1 .. MagicLen : Stream[HeaderLen + j - HeaderLen] = Magic(j)
      BY <1>3, <1>5, <1>10 DEF WholeInv, FramesWhole
    <3>2. HeaderLen + p - HeaderLen = p
      BY <2>1, <1>0
    <3>3. Magic(1) = Magic(p)
      BY <3>1, <3>2, <2>3, <2>4
    <3>4. p = 1
      BY <3>3, <2>1, MagicFacts
    <3>5. i = HeaderLen
      BY <3>4, <2>2, <1>0
    <3>6. Stream[i].of = f /\ f \in Nat
      BY <3>5, <1>0, <1>3, <1>5, <1>6
    <3> QED
      BY <3>6, <1>10
  <2>5. CASE p = HeaderLen
    <3>1. IsField(Magic(1))
      BY <2>3, <2>5, <1>3, <1>5, KnownIsField
    <3> QED
      BY <3>1, MagicFacts
  <2>6. CASE p \in HeaderLen + 1 .. q
    BY <2>3, <2>6, <1>8, OtherFacts
  <2> QED
    BY <2>1, <2>4, <2>5, <2>6, <1>0, <1>3
<1>11. /\ buf' \in Seq(Bytes) /\ Len(buf') <= size /\ Len(buf') = Len(buf) - q
       /\ Stream' \in Seq(Bytes) /\ Drops(Stream', Stream, q)
       /\ MagicsRunOn(Stream') /\ PayloadsFollow(Stream') /\ NumbersGrow(Stream', f, sent)
       /\ WholeInv => FramesWhole(Stream', f, sent)
  <2>1. f \in Nat /\ LastOf(handled) <= f
    BY <1>0, <1>6 DEF low
  <2> QED
    BY <2>1, <1>1, <1>3, <1>7, <1>10, Consumes
<1>12. TypeOK'
  <2>1. Len(handled') <= MaxItems
    BY <1>0, <1>2, <1>6, <1>9
  <2>2. handled' \in Seq(0 .. sent')
    <3> DEFINE A == 1 .. sent
               B == 0 .. sent'
    <3>1. A \subseteq B /\ handled' \in Seq(A)
      BY <1>0, <1>1, <1>9
    <3> HIDE DEF A, B
    <3>2. handled' \in Seq(B)
      BY <3>1
    <3> QED
      BY <3>2 DEF B
  <2> QED
    BY <2>1, <2>2, <1>1, <1>11 DEF CoraInv, TypeOK
<1>13. OrderInv'
  <2>1. Len(handled') <= LastOf(handled')
    BY <1>0, <1>2, <1>6, <1>9
  <2> QED
    BY <2>1, <1>1, <1>9, <1>11 DEF CoraInv, OrderInv
<1>14. IdleInv'
  BY <1>1 DEF IdleInv
<1>15. ASSUME WholeInv
       PROVE  WholeInv'
  <2>1. f = Len(handled) + 1
    BY <1>1, <1>15, NextFrame DEF f
  <2>2. ASSUME NEW n \in Nat, q + n <= Len(Stream), Clean(Stream, q + n), n = 0 => ~ Opens(Stream[q + 1]) \/ n = Len(Stream) - q
        PROVE  Clean(Stream', n)
    <3>1. ASSUME NEW i \in 1 .. n
          PROVE  ~ Foreign(Stream'[i])
      <4>1. i + q \in 1 .. q + n /\ i \in 1 .. Len(Stream')
        BY <2>2, <1>3, <1>11 DEF Drops
      <4> QED
        BY <4>1, <2>2, <1>11 DEF Drops, Clean
    <3>2. ASSUME Stream' # <<>>
          PROVE  Stream'[1] = Magic(1)
      <4>1. q < Len(Stream) /\ 1 \in 1 .. Len(Stream')
        BY <3>2, <1>0, <1>3, <1>11 DEF Drops
      <4>2. Stream'[1] = Stream[q + 1] /\ Opens(Stream[q + 1])
        BY <4>1, <1>3, <1>8, <1>11 DEF Drops
      <4>3. 1 \in 1 .. n
        BY <4>1, <4>2, <2>2, <1>0, <1>3
      <4>4. Stream'[1] # Noise
        BY <4>3, <3>1, OtherFacts
      <4> QED
        BY <4>2, <4>4 DEF Opens
    <3> QED
      BY <3>1, <3>2 DEF Clean
  <2>3. ASSUME noisy' = FALSE
        PROVE  Clean(Stream', Len(Stream'))
    <3> DEFINE n == Len(Stream) - q
    <3>1. n \in Nat /\ q + n = Len(Stream) /\ Len(Stream') = n
      BY <1>0, <1>3, <1>11 DEF Adds, Drops
    <3>2. Clean(Stream, q + n)
      BY <3>1, <2>3, <1>1, <1>15 DEF WholeInv
    <3> QED
      BY <3>1, <3>2, <2>2
  <2>4. ASSUME MidMagic'
        PROVE  Clean(Stream', Len(buf'))
    <3> DEFINE n == Len(buf) - q
    <3>1. n \in Nat /\ q + n = Len(buf) /\ Len(buf') = n /\ Len(buf) <= Len(Stream)
      BY <1>0, <1>3, <1>11 DEF Adds
    <3>2. MidMagic
      BY <2>4, <1>1 DEF MidMagic
    <3>3. Clean(Stream, q + n)
      BY <3>1, <3>2, <1>15 DEF WholeInv
    <3>4. ASSUME n = 0
          PROVE  ~ Opens(Stream[q + 1])
      <4>1. PICK k \in 2 .. MagicLen : wire[1] = Magic(k)
        BY <3>2 DEF MidMagic
      <4>2. q = Len(buf) /\ 1 \in 1 .. Len(wire)
        <5>1. q = Len(buf)
          <6> HIDE DEF n
          <6> QED
            BY <3>1, <3>4, <1>3
        <5>2. wire # <<>>
          BY <3>2 DEF MidMagic
        <5>3. 1 \in 1 .. Len(wire)
          BY <5>2, <1>0
        <5> QED
          BY <5>1, <5>3
      <4>3. Stream[q + 1] = Magic(k)
        BY <4>1, <4>2, <1>0 DEF Adds
      <4>4. k \in Nat /\ k # 1
        BY <1>0
      <4> QED
        BY <4>3, <4>4, MagicFacts DEF Opens
    <3> HIDE DEF n
    <3>5. q + n <= Len(Stream)
      BY <3>1
    <3> QED
      BY <3>1, <3>3, <3>4, <3>5, <2>2
  <2> QED
    BY <2>1, <2>3, <2>4, <1>1, <1>9, <1>11, <1>15 DEF WholeInv
<1> QED
  BY <1>12, <1>13, <1>14, <1>15 DEF CoraInv

LEMMA CoraStep == CoraInv /\ [Next]_vars => CoraInv'
<1> SUFFICES ASSUME CoraInv, [Next]_vars
             PROVE  CoraInv'
  OBVIOUS
<1>1. CASE NeedMore
  <2>1. /\ Decode(buf) = "more" /\ phase' = "read"
        /\ UNCHANGED <<items, wire, noisy, sent, size, buf, handled>>
    BY <1>1 DEF NeedMore
  <2>2. TypeOK' /\ OrderInv' /\ (WholeInv => WholeInv')
    BY <2>1 DEF CoraInv, TypeOK, OrderInv, WholeInv, Stream, MidMagic
  <2>3. IdleInv'
    BY <2>1 DEF IdleInv
  <2> QED
    BY <2>2, <2>3 DEF CoraInv
<1>2. CASE HangUp
  <2>1. /\ phase = "read" /\ Len(buf) = size /\ phase' = "closed"
        /\ UNCHANGED <<items, wire, noisy, sent, size, buf, handled>>
    BY <1>2 DEF HangUp
  <2>2. TypeOK' /\ OrderInv' /\ (WholeInv => WholeInv')
    BY <2>1 DEF CoraInv, TypeOK, OrderInv, WholeInv, Stream, MidMagic
  <2>3. IdleInv'
    BY <2>1 DEF CoraInv, IdleInv
  <2> QED
    BY <2>2, <2>3 DEF CoraInv
<1>3. CASE UNCHANGED vars
  BY <1>3 DEF vars, CoraInv, TypeOK, OrderInv, IdleInv, WholeInv, Stream, MidMagic
<1>4. ASSUME NEW len \in 0 .. MaxPayload, SendFrame(len)
      PROVE  CoraInv'
  BY <1>4, SendFrameStep
<1>5. ASSUME NEW bytes \in NoiseRuns, SendNoise(bytes)
      PROVE  CoraInv'
  BY <1>5, SendNoiseStep
<1>6. ASSUME NEW n \in 1 .. Len(wire), ReadChunk(n)
      PROVE  CoraInv'
  BY <1>6, ReadChunkStep
<1>7. CASE HandleFrame
  BY <1>7, HandleStep
<1>8. CASE SkipToMagic
  BY <1>8, SkipStep
<1>9. CASE Discard
  BY <1>9, DiscardStep
<1> QED
  BY <1>1, <1>2, <1>3, <1>4, <1>5, <1>6, <1>7, <1>8, <1>9 DEF Next

\* The invariant of the byte stream holds however it is cut into reads
\* (connection.rs:195-230).
THEOREM CoraInvariant == Spec => []CoraInv
  BY CoraInit, CoraStep, PTL DEF Spec

--------------------------------------------------------------------------------
(***************************************************************************)
(* What follows.                                                           *)
(***************************************************************************)
\* The read loop keeps its types and its buffer within its size, and handles no
\* more frames than were sent, also when reads cut a magic in two
\* (connection.rs:195-230, bridge.rs:41-87 of the embedded crate).
THEOREM CoraTypeCorrect == Spec => []TypeOK
<1>1. CoraInv => TypeOK
  BY DEF CoraInv
<1> QED
  BY <1>1, CoraInvariant, PTL

\* A board hangs up on a client because of a full buffer only when the frame at
\* its front is longer than the buffer (bridge.rs:41-54 of the embedded crate).
THEOREM HangsUpOnLongFrames == Spec => []HangsUpOnlyOnLongFrames
<1>1. CoraInv => HangsUpOnlyOnLongFrames
  <2> SUFFICES ASSUME CoraInv, phase = "closed"
               PROVE  Decode(buf) = "more" /\ FrameLen(buf) > size
    BY DEF HangsUpOnlyOnLongFrames
  <2>1. buf \in Seq(Bytes) /\ size \in Nat /\ size >= HeaderLen /\ Len(buf) = size /\ Decode(buf) = "more"
    BY CoraAssumption DEF CoraInv, TypeOK, IdleInv
  <2>2. IsField(buf[HeaderLen]) /\ Len(buf) < HeaderLen + buf[HeaderLen].len
    BY <2>1, DecodeMeans
  <2>3. buf[HeaderLen].len \in Nat /\ HeaderLen \in Nat
    <3>1. HeaderLen \in 1 .. Len(buf)
      BY <2>1, CoraAssumption
    <3> QED
      BY <3>1, <2>1, <2>2, FieldTyped, ElementOfSeq
  <2> DEFINE len == buf[HeaderLen].len
  <2>4. FrameLen(buf) = HeaderLen + len
    BY DEF FrameLen
  <2> HIDE DEF len
  <2> QED
    BY <2>1, <2>2, <2>3, <2>4 DEF len
<1> QED
  BY <1>1, CoraInvariant, PTL

\* Once everything a client sent is read, every frame was handled: noise costs no
\* frame that follows it, as long as no read ends inside a magic after noise
\* (cora.rs:132-162, connection.rs:206-230).
THEOREM NoFrameLost ==
  ASSUME SplitMagic = FALSE
  PROVE  Spec => []NoFrameIsLost
<1>1. CoraInv => NoFrameIsLost
  <2> SUFFICES ASSUME CoraInv, Drained
               PROVE  Len(handled) = sent
    BY DEF NoFrameIsLost
  <2>0. WholeInv
    BY DEF CoraInv
  <2>1. /\ buf \in Seq(Bytes) /\ wire = <<>> /\ Stream \in Seq(Bytes) /\ Adds(Stream, buf, wire)
        /\ sent \in Nat /\ Len(handled) \in Nat /\ LastOf(handled) = Len(handled) /\ LastOf(handled) <= sent
    BY <2>0, StreamTyped DEF Drained, WholeInv
  <2>2. Decode(buf) = "more"
    BY DEF CoraInv, IdleInv, Drained
  <2>3. Len(Stream) = Len(buf) /\ \A i \in 1 .. Len(buf) : Stream[i] = buf[i]
    BY <2>1 DEF Adds
  <2> SUFFICES ASSUME Len(handled) < sent
               PROVE  FALSE
    BY <2>1
  <2>4. Len(handled) + 1 \in LastOf(handled) + 1 .. sent
    BY <2>1
  <2>5. PICK i \in 1 .. Len(Stream) : Known(Stream[i]) /\ HeaderLen <= i
    BY <2>0, <2>4 DEF WholeInv, FramesWhole
  <2>6. HeaderLen \in 1 .. Len(buf) /\ Len(buf) >= HeaderLen
    BY <2>1, <2>3, <2>5, CoraAssumption
  <2>7. IsField(buf[HeaderLen]) /\ Len(buf) < HeaderLen + buf[HeaderLen].len
    BY <2>1, <2>2, <2>6, DecodeMeans
  <2>8. HeaderLen + Stream[HeaderLen].len <= Len(Stream)
    <3>1. IsField(Stream[HeaderLen]) /\ HeaderLen \in 1 .. Len(Stream)
      BY <2>3, <2>6, <2>7
    <3> QED
      BY <3>1 DEF CoraInv, OrderInv, PayloadsFollow
  <2>9. buf[HeaderLen].len \in Nat
    BY <2>1, <2>6, <2>7, FieldTyped, ElementOfSeq
  <2> DEFINE len == buf[HeaderLen].len
             n == Len(buf)
  <2>10. HeaderLen + len <= n /\ n < HeaderLen + len /\ len \in Nat /\ n \in Nat /\ HeaderLen \in Nat
    BY <2>1, <2>3, <2>6, <2>7, <2>8, <2>9
  <2> HIDE DEF len, n
  <2> QED
    BY <2>10
<1> QED
  BY <1>1, CoraInvariant, PTL

\* The steps of a connection are steps of the channel it implements, or change
\* nothing a client or the frame handler sees: the safety part of FramesArrive
\* (connection.rs:195-230, bridge.rs:41-87 of the embedded crate).
THEOREM ConnectionIsAChannel ==
  ASSUME SplitMagic = FALSE
  PROVE  Spec => Channel!Init /\ [][Channel!Next]_(Channel!vars)
<1>1. Init => Channel!Init
  BY DEF Init, Channel!Init
<1>2. CoraInv /\ [Next]_vars => [Channel!Next]_(Channel!vars)
  <2> SUFFICES ASSUME CoraInv, [Next]_vars
               PROVE  \/ Channel!Next
                      \/ UNCHANGED <<sent, handled, phase # "closed">>
    BY DEF Channel!vars
  <2>0. WholeInv
    BY DEF CoraInv
  <2>1. ASSUME NEW len \in 0 .. MaxPayload, SendFrame(len)
        PROVE  Channel!Next
    BY <2>1 DEF SendFrame, Channel!Next, Channel!Send
  <2>2. CASE HandleFrame
    <3>1. FrameAtFront(buf) = Len(handled) + 1 /\ Len(handled) < sent
      BY <2>0, <2>2, NextFrame DEF HandleFrame
    <3> QED
      BY <3>1, <2>2 DEF HandleFrame, Channel!Next, Channel!Receive
  <2>3. CASE HangUp
    BY <2>3 DEF HangUp, Channel!Next, Channel!Break
  <2>4. ASSUME NEW bytes \in NoiseRuns, SendNoise(bytes)
        PROVE  UNCHANGED <<sent, handled, phase # "closed">>
    BY <2>4 DEF SendNoise
  <2>5. ASSUME NEW n \in 1 .. Len(wire), ReadChunk(n)
        PROVE  UNCHANGED <<sent, handled, phase # "closed">>
    BY <2>5 DEF ReadChunk
  <2>6. CASE NeedMore \/ SkipToMagic \/ Discard
    BY <2>6 DEF NeedMore, SkipToMagic, Discard
  <2>7. CASE UNCHANGED vars
    BY <2>7 DEF vars
  <2> QED
    BY <2>1, <2>2, <2>3, <2>4, <2>5, <2>6, <2>7 DEF Next
<1> QED
  BY <1>1, <1>2, CoraInvariant, PTL DEF Spec
================================================================================
