---------------------------- MODULE HotplugProofs ------------------------------
(***************************************************************************)
(* What a client of the primary port is told of the slots, for any number  *)
(* of slots and decks and any capacity of the two channels.                *)
(***************************************************************************)
EXTENDS Hotplug, DockProofs, SequenceTheorems

(***************************************************************************)
(* The inductive invariant.                                                *)
(***************************************************************************)

\* A message of one of these kinds about slot i is in the queue.
Has(q, kinds, i) == \E k \in DOMAIN q : q[k].kind \in kinds /\ q[k].slot = i

\* Before it subscribes, the connection has sent its first probe at most; the
\* listener lives in an open connection.
Beginning ==
  /\ conn = "accepted" =>
       /\ ~ polled /\ pushes = {} /\ rx = <<>> /\ held = <<>> /\ tx = <<>> /\ pending = <<Other>>
       /\ view = Nothing
  /\ alive => conn = "open"

\* Every push of the first poll says what the poll found.
PushesAreSnapshots ==
  /\ \A m \in pushes : polled /\ m.dev # None /\ m.dev = snapshot[m.slot]
  /\ \A k \in DOMAIN tx : tx[k].kind = "snapshot" =>
       polled /\ tx[k].dev # None /\ tx[k].dev = snapshot[tx[k].slot]

\* The last answer under way about a slot is the one to the last query.
LastAnswerCounts ==
  /\ \A k \in DOMAIN pending : pending[k].kind = "answer" => pending[k].dev \in answered[pending[k].slot]
  /\ \A k \in DOMAIN tx : tx[k].kind = "answer" =>
       \/ tx[k].dev \in answered[tx[k].slot]
       \/ Has(pending, {"answer"}, tx[k].slot)
       \/ \E j \in DOMAIN tx : k < j /\ tx[j].kind = "answer" /\ tx[j].slot = tx[k].slot

\* Why the client believes what it does of a slot, unless it is about to hear
\* more of it.
ViewExplained ==
  conn = "open" /\ Listening => \A i \in Slots :
    \/ view[i] = live[i]
    \/ polled /\ snapshot[i] # None /\ view[i] = snapshot[i]
    \/ view[i] \in answered[i]
    \/ ~ polled /\ view[i] = None
    \/ Has(pending, {"answer"}, i) \/ Has(rx, {"live"}, i) \/ Has(held, {"live"}, i)
    \/ Has(tx, {"live", "snapshot", "answer"}, i)
    \/ \E m \in pushes : m.slot = i

HotplugInv ==
  /\ TypeOK /\ StickyIsWhereItSits
  /\ Beginning /\ PushesAreSnapshots /\ LastAnswerCounts
  /\ LiveStreamIsComplete /\ ViewExplained

--------------------------------------------------------------------------------
(***************************************************************************)
(* What the steps of the tasks do to a queue of messages.                  *)
(***************************************************************************)
LEMMA Kinds ==
  /\ \A m \in About({"live"}) : m \in Msg /\ m.kind = "live"
  /\ \A m \in About({"snapshot"}) : m \in Msg /\ m.kind = "snapshot"
  /\ \A m \in About({"answer"}) : m \in Msg /\ m.kind = "answer"
  /\ Other \in Msg /\ Other.kind = "other"
  /\ \A m \in Msg : m.kind # "other" =>
       m.kind \in {"live", "snapshot", "answer"} /\ m.slot \in Slots /\ m.dev \in Devices \cup {None}
BY DEF About, Msg, Other

LEMMA Joined ==
  ASSUME NEW S, NEW q \in Seq(S), NEW m \in S
  PROVE  /\ Append(q, m) \in Seq(S) /\ q \o <<m>> = Append(q, m) /\ q \o <<>> = q
         /\ Len(Append(q, m)) = Len(q) + 1 /\ Len(q) \in Nat
         /\ \A k \in DOMAIN Append(q, m) : k \in DOMAIN q \/ k = Len(q) + 1
         /\ \A k \in DOMAIN q : k \in DOMAIN Append(q, m) /\ k < Len(q) + 1 /\ Append(q, m)[k] = q[k]
         /\ Len(q) + 1 \in DOMAIN Append(q, m) /\ Append(q, m)[Len(q) + 1] = m
<1>1. q \o <<m>> = Append(q, m) /\ q \o <<>> = q
  BY AppendIsConcat, ConcatEmptySeq
<1> QED
  BY <1>1, AppendProperties

LEMMA Left ==
  ASSUME NEW S, NEW q \in Seq(S), q # <<>>
  PROVE  /\ Tail(q) \in Seq(S) /\ Head(q) \in S /\ Head(q) = q[1] /\ 1 \in DOMAIN q
         /\ Len(Tail(q)) = Len(q) - 1 /\ Len(q) \in Nat \ {0}
         /\ \A k \in DOMAIN Tail(q) : k \in Nat /\ k + 1 \in DOMAIN q /\ Tail(q)[k] = q[k + 1]
         /\ \A k \in DOMAIN q : k \in Nat /\ (k = 1 \/ (k - 1 \in DOMAIN Tail(q) /\ Tail(q)[k - 1] = q[k]))
<1>1. /\ Tail(q) \in Seq(S) /\ Head(q) \in S /\ Head(q) = q[1]
      /\ Len(Tail(q)) = Len(q) - 1 /\ Len(q) \in Nat \ {0}
      /\ \A k \in 1 .. Len(Tail(q)) : Tail(q)[k] = q[k + 1]
      /\ DOMAIN q = 1 .. Len(q) /\ DOMAIN Tail(q) = 1 .. Len(Tail(q))
  BY HeadTailProperties, EmptySeq
<1> DEFINE t == Tail(q)
<1> HIDE DEF t
<1>2. ASSUME NEW k \in DOMAIN q PROVE k \in Nat /\ (k = 1 \/ (k - 1 \in DOMAIN t /\ t[k - 1] = q[k]))
  BY <1>1 DEF t
<1>3. ASSUME NEW k \in DOMAIN t PROVE k \in Nat /\ k + 1 \in DOMAIN q /\ t[k] = q[k + 1]
  BY <1>1 DEF t
<1>4. 1 \in DOMAIN q
  BY <1>1
<1> QED
  BY <1>1, <1>2, <1>3, <1>4 DEF t

LEMMA One ==
  ASSUME NEW S, NEW q \in Seq(S), Len(q) <= 1, q # <<>>
  PROVE  q = <<Head(q)>> /\ Head(q) \in S /\ Tail(q) = <<>>
<1>0. Len(q) \in Nat \ {0} /\ Head(q) = q[1] /\ Head(q) \in S
  BY Left
<1>4. Len(q) = 1
  <2> DEFINE n == Len(q)
  <2>1. n \in Nat /\ n # 0 /\ n <= 1
    BY <1>0
  <2> HIDE DEF n
  <2>2. n = 1
    BY <2>1
  <2> QED
    BY <2>2 DEF n
<1>1. Len(q) = 1 /\ Head(q) = q[1] /\ Head(q) \in S
  BY <1>0, <1>4
<1>2. q = <<Head(q)>>
  BY <1>1, SeqEqual
<1>3. Tail(q) \in Seq(S) /\ Len(Tail(q)) = 0
  BY <1>1, HeadTailProperties
<1> QED
  BY <1>1, <1>2, <1>3, EmptySeq

--------------------------------------------------------------------------------
LEMMA HasJoin ==
  ASSUME NEW q \in Seq(Msg), NEW m \in Msg, NEW K, NEW i
  PROVE  Has(Append(q, m), K, i) <=> Has(q, K, i) \/ (m.kind \in K /\ m.slot = i)
<1> DEFINE b == Append(q, m)
           n == Len(q) + 1
<1>1. /\ \A k \in DOMAIN b : k \in DOMAIN q \/ k = n
      /\ \A k \in DOMAIN q : k \in DOMAIN b /\ b[k] = q[k]
      /\ n \in DOMAIN b /\ b[n] = m
  BY Joined
<1> HIDE DEF b, n
<1>2. Has(b, K, i) <=> Has(q, K, i) \/ (m.kind \in K /\ m.slot = i)
  BY <1>1 DEF Has
<1> QED
  BY <1>2 DEF b

LEMMA HasLeave ==
  ASSUME NEW q \in Seq(Msg), q # <<>>, NEW K, NEW i
  PROVE  Has(q, K, i) <=> Has(Tail(q), K, i) \/ (Head(q).kind \in K /\ Head(q).slot = i)
<1> DEFINE t == Tail(q)
<1>1. /\ Head(q) = q[1] /\ 1 \in DOMAIN q
      /\ \A k \in DOMAIN t : k + 1 \in DOMAIN q /\ t[k] = q[k + 1]
      /\ \A k \in DOMAIN q : k = 1 \/ (k - 1 \in DOMAIN t /\ t[k - 1] = q[k])
  BY Left
<1> HIDE DEF t
<1>2. Has(q, K, i) <=> Has(t, K, i) \/ (Head(q).kind \in K /\ Head(q).slot = i)
  BY <1>1 DEF Has
<1> QED
  BY <1>2 DEF t

LEMMA HasOne ==
  ASSUME NEW m, NEW K, NEW i
  PROVE  Has(<<m>>, K, i) <=> m.kind \in K /\ m.slot = i
<1> DEFINE q == <<m>>
<1>1. DOMAIN q = {1} /\ q[1] = m
  OBVIOUS
<1> HIDE DEF q
<1>2. Has(q, K, i) <=> m.kind \in K /\ m.slot = i
  BY <1>1 DEF Has
<1> QED
  BY <1>2 DEF q

\* The listener's pushes, in a queue that takes one more message ...
LEMMA NewsJoin ==
  ASSUME NEW q \in Seq(Msg), NEW m \in Msg, NEW i, NEW x
  PROVE  /\ m.kind = "live" /\ m.slot = i => LastNews(Append(q, m), i, m.dev)
         /\ ~ (m.kind = "live" /\ m.slot = i) =>
              /\ News(q, i) = {} => News(Append(q, m), i) = {}
              /\ LastNews(q, i, x) => LastNews(Append(q, m), i, x)
<1> DEFINE b == Append(q, m)
           n == Len(q) + 1
<1>1. /\ \A k \in DOMAIN b : k \in DOMAIN q \/ k = n
      /\ \A k \in DOMAIN q : k \in DOMAIN b /\ k < n /\ b[k] = q[k]
      /\ n \in DOMAIN b /\ b[n] = m /\ n \in Nat /\ DOMAIN q \subseteq Nat
  BY Joined
<1> HIDE DEF b, n
<1>2. ASSUME m.kind = "live", m.slot = i PROVE LastNews(b, i, m.dev)
  <2>1. \A j \in DOMAIN b : j <= n
    BY <1>1
  <2> QED
    BY <1>1, <1>2, <2>1 DEF LastNews, News
<1>3. ASSUME ~ (m.kind = "live" /\ m.slot = i)
      PROVE  /\ News(q, i) = {} => News(b, i) = {}
             /\ LastNews(q, i, x) => LastNews(b, i, x)
  <2>1. News(b, i) = News(q, i)
    BY <1>1, <1>3 DEF News
  <2>2. \A k \in News(q, i) : b[k] = q[k]
    BY <1>1 DEF News
  <2> QED
    BY <2>1, <2>2 DEF LastNews
<1> QED
  BY <1>2, <1>3 DEF b

\* ... and in one that loses its first.
LEMMA NewsLeave ==
  ASSUME NEW q \in Seq(Msg), q # <<>>, NEW i, NEW x
  PROVE  LET h == Head(q)
         IN  /\ News(q, i) = {} => News(Tail(q), i) = {} /\ ~ (h.kind = "live" /\ h.slot = i)
             /\ LastNews(q, i, x) => \/ LastNews(Tail(q), i, x)
                                     \/ News(Tail(q), i) = {} /\ h.kind = "live" /\ h.slot = i /\ h.dev = x
<1> DEFINE t == Tail(q)
           h == Head(q)
<1>1. /\ h = q[1] /\ 1 \in DOMAIN q
      /\ \A k \in DOMAIN t : k \in Nat /\ k + 1 \in DOMAIN q /\ t[k] = q[k + 1]
      /\ \A k \in DOMAIN q : k \in Nat /\ (k = 1 \/ (k - 1 \in DOMAIN t /\ t[k - 1] = q[k]))
  BY Left
<1> HIDE DEF t, h
<1>2. ASSUME News(q, i) = {} PROVE News(t, i) = {} /\ ~ (h.kind = "live" /\ h.slot = i)
  BY <1>1, <1>2 DEF News
<1>3. ASSUME LastNews(q, i, x)
      PROVE  \/ LastNews(t, i, x)
             \/ News(t, i) = {} /\ h.kind = "live" /\ h.slot = i /\ h.dev = x
  <2>1. PICK k \in News(q, i) : q[k].dev = x /\ \A j \in News(q, i) : j <= k
    BY <1>3 DEF LastNews
  <2>2. \A j \in News(t, i) : j \in Nat /\ j + 1 \in News(q, i) /\ j + 1 <= k /\ k \in Nat
    BY <2>1, <1>1 DEF News
  <2>3. CASE k = 1
    <3>1. News(t, i) = {}
      <4>1. ASSUME NEW j \in News(t, i) PROVE FALSE
        <5>1. j \in DOMAIN t /\ j \in Nat /\ j + 1 <= 1
          BY <2>2, <2>3 DEF News
        <5>2. j + 1 \in DOMAIN q /\ t[j] = q[j + 1]
          BY <5>1, <1>1
        <5>3. DOMAIN q = 1 .. Len(q)
          OBVIOUS
        <5> QED
          BY <5>1, <5>2, <5>3
      <4> QED
        BY <4>1
    <3> QED
      BY <3>1, <2>1, <2>3, <1>1 DEF News
  <2>4. CASE k # 1
    <3>1. k - 1 \in DOMAIN t /\ t[k - 1] = q[k]
      BY <2>1, <2>4, <1>1 DEF News
    <3>2. k - 1 \in News(t, i) /\ t[k - 1].dev = x
      BY <3>1, <2>1 DEF News
    <3>3. \A j \in News(t, i) : j <= k - 1
      BY <2>2
    <3> QED
      BY <3>2, <3>3 DEF LastNews
  <2> QED
    BY <2>3, <2>4
<1> QED
  BY <1>2, <1>3 DEF t, h

LEMMA NewsOne ==
  ASSUME NEW m \in Msg, NEW i, NEW x
  PROVE  /\ News(<<>>, i) = {} /\ ~ LastNews(<<>>, i, x)
         /\ m.kind = "live" /\ m.slot = i => News(<<m>>, i) # {} /\ (LastNews(<<m>>, i, x) <=> m.dev = x)
         /\ ~ (m.kind = "live" /\ m.slot = i) => News(<<m>>, i) = {}
<1>1. News(<<>>, i) = {} /\ ~ LastNews(<<>>, i, x)
  BY DEF News, LastNews
<1> DEFINE q == <<m>>
<1>2. DOMAIN q = {1} /\ q[1] = m
  OBVIOUS
<1> HIDE DEF q
<1>3. News(q, i) = IF m.kind = "live" /\ m.slot = i THEN {1} ELSE {}
  BY <1>2 DEF News
<1>4. m.kind = "live" /\ m.slot = i => News(q, i) # {} /\ (LastNews(q, i, x) <=> m.dev = x)
  BY <1>2, <1>3 DEF LastNews
<1>5. ~ (m.kind = "live" /\ m.slot = i) => News(q, i) = {}
  BY <1>3
<1> QED
  BY <1>1, <1>4, <1>5 DEF q

--------------------------------------------------------------------------------
(***************************************************************************)
(* The type invariant, by the kind of its variables.                       *)
(***************************************************************************)
FlagsTyped ==
  /\ conn \in {"accepted", "open", "closed"}
  /\ lagged \in BOOLEAN /\ alive \in BOOLEAN /\ polled \in BOOLEAN

RxTyped == rx \in Seq(About({"live"})) /\ Len(rx) <= HotplugCap
HeldTyped == held \in Seq(About({"live"})) /\ Len(held) <= 1
PendingTyped == pending \in Seq(About({"answer"}) \cup {Other}) /\ Len(pending) <= 1
TxTyped == tx \in Seq(Msg) /\ Len(tx) <= TxCap
PushesTyped == pushes \subseteq About({"snapshot"})

ClientTyped ==
  /\ view \in [Slots -> Devices \cup {None}] /\ live \in [Slots -> Devices \cup {None}]
  /\ snapshot \in [Slots -> Devices \cup {None}]
  /\ answered \in [Slots -> SUBSET (Devices \cup {None})] /\ told \in [Slots -> BOOLEAN]

LEMMA TypeInParts ==
  TypeOK <=> /\ DockTypeOK /\ FlagsTyped /\ RxTyped /\ HeldTyped /\ PendingTyped
             /\ TxTyped /\ PushesTyped /\ ClientTyped
BY DEF TypeOK, FlagsTyped, RxTyped, HeldTyped, PendingTyped, TxTyped, PushesTyped, ClientTyped

LEMMA PartsUnchanged ==
  /\ FlagsTyped /\ UNCHANGED <<conn, lagged, alive, polled>> => FlagsTyped'
  /\ RxTyped /\ UNCHANGED rx => RxTyped'
  /\ HeldTyped /\ UNCHANGED held => HeldTyped'
  /\ PendingTyped /\ UNCHANGED pending => PendingTyped'
  /\ TxTyped /\ UNCHANGED tx => TxTyped'
  /\ PushesTyped /\ UNCHANGED pushes => PushesTyped'
  /\ ClientTyped /\ UNCHANGED <<view, live, snapshot, answered, told>> => ClientTyped'
BY DEF FlagsTyped, RxTyped, HeldTyped, PendingTyped, TxTyped, PushesTyped, ClientTyped

\* One more message in tx, when there is room.
LEMMA TxTakes ==
  ASSUME TxTyped, Len(tx) < TxCap, NEW m \in Msg
  PROVE  Append(tx, m) \in Seq(Msg) /\ Len(Append(tx, m)) <= TxCap
<1> DEFINE b == Append(tx, m)
           n == Len(tx)
<1>1. b \in Seq(Msg) /\ Len(b) = n + 1 /\ n \in Nat /\ n < TxCap /\ TxCap \in Nat
  BY Joined, HotplugAssumption DEF TxTyped
<1> HIDE DEF n, b
<1>2. Len(b) <= TxCap
  BY <1>1
<1> QED
  BY <1>1, <1>2 DEF b

\* The slot that a dock operation changes, and what it then holds.
LEMMA DockChanges ==
  ASSUME DockTypeOK
  PROVE  /\ \A d \in Devices : Attach(d) =>
              LET i == TargetSlot(SerialOf[d])
              IN  i \in Slots /\ slots' = [slots EXCEPT ![i] = d]
         /\ \A s \in Serials : SlotsOf(s) # {} /\ Detach(s) =>
              LET i == Min(SlotsOf(s))
              IN  i \in Slots /\ slots' = [slots EXCEPT ![i] = None]
<1>1. ASSUME NEW d \in Devices, Attach(d)
      PROVE  TargetSlot(SerialOf[d]) \in Slots /\ slots' = [slots EXCEPT ![TargetSlot(SerialOf[d])] = d]
  BY <1>1, TargetInTable, DockAssumption DEF Attach, AttachDevice
<1>2. ASSUME NEW s \in Serials, SlotsOf(s) # {}, Detach(s)
      PROVE  Min(SlotsOf(s)) \in Slots /\ slots' = [slots EXCEPT ![Min(SlotsOf(s))] = None]
  <2>1. SlotsOf(s) \subseteq Slots /\ SlotsOf(s) \in SUBSET Nat
    BY DEF SlotsOf, Slots
  <2>2. Min(SlotsOf(s)) \in SlotsOf(s)
    BY <2>1, <1>2, MinOfNats
  <2> QED
    BY <2>1, <2>2, <1>2 DEF Detach, DetachDeviceBySerial
<1> QED
  BY <1>1, <1>2

\* Every step of the dock is a change of one slot that is published.
DockStepAt(i, x) ==
  /\ slots' = [slots EXCEPT ![i] = x] /\ Publish(i, x)
  /\ told' = [told EXCEPT ![i] = FALSE]
  /\ UNCHANGED <<connVars, view, live, snapshot, answered>>

LEMMA DockStepIs ==
  ASSUME DockTypeOK, DockStep
  PROVE  \E i \in Slots, x \in Devices \cup {None} : DockStepAt(i, x)
<1>1. ASSUME NEW d \in Devices, AttachAndPublish(d)
      PROVE  \E i \in Slots, x \in Devices \cup {None} : DockStepAt(i, x)
  <2> DEFINE i == TargetSlot(SerialOf[d])
  <2>1. i \in Slots /\ slots' = [slots EXCEPT ![i] = d]
    BY <1>1, DockChanges DEF AttachAndPublish
  <2>2. DockStepAt(i, d)
    BY <1>1, <2>1 DEF AttachAndPublish, DockStepAt
  <2> QED
    BY <2>1, <2>2
<1>2. ASSUME NEW s \in Serials, DetachAndPublish(s)
      PROVE  \E i \in Slots, x \in Devices \cup {None} : DockStepAt(i, x)
  <2> DEFINE i == Min(SlotsOf(s))
  <2>1. i \in Slots /\ slots' = [slots EXCEPT ![i] = None]
    BY <1>2, DockChanges DEF DetachAndPublish
  <2>2. DockStepAt(i, None)
    BY <1>2, <2>1 DEF DetachAndPublish, DockStepAt
  <2> QED
    BY <2>1, <2>2
<1> QED
  BY <1>1, <1>2 DEF DockStep

LEMMA DockPart == Next => DockNext \/ UNCHANGED dockVars
<1> SUFFICES ASSUME Next PROVE DockNext \/ UNCHANGED dockVars
  OBVIOUS
<1>1. CASE DockStep
  BY <1>1 DEF DockStep, AttachAndPublish, DetachAndPublish, DockNext
<1>2. CASE ~ DockStep
  BY <1>2 DEF Next, ClientFrame, QueryChild, Poll, SendOther, Subscribe, Receive, PushLive, Flush,
              Deliver, Close, PushSnapshot
<1> QED
  BY <1>1, <1>2

LEMMA DockPartStep == DockInv /\ [Next]_vars => DockInv'
<1>1. [Next]_vars => [DockNext]_dockVars
  BY DockPart DEF vars
<1> QED
  BY <1>1, DockInvStep

\* What a step does to the broadcast channel.
LEMMA PublishTyped ==
  ASSUME RxTyped, lagged \in BOOLEAN, alive \in BOOLEAN,
         NEW i \in Slots, NEW x \in Devices \cup {None}, Publish(i, x)
  PROVE  RxTyped' /\ lagged' \in BOOLEAN
<1>1. CASE ~ alive
  BY <1>1, PartsUnchanged DEF Publish, chanVars
<1>2. CASE alive
  <2>1. lagged' \in BOOLEAN
    BY <1>2 DEF Publish
  <2> DEFINE r == IF Len(rx) < HotplugCap THEN rx ELSE Tail(rx)
             m == Info("live", i, x)
  <2>2. m \in About({"live"})
    BY DEF Info, About
  <2>3. rx \in Seq(About({"live"})) /\ Len(rx) \in Nat /\ Len(rx) <= HotplugCap /\ HotplugCap \in Nat \ {0}
    BY HotplugAssumption DEF RxTyped
  <2>4. r \in Seq(About({"live"})) /\ Len(r) \in Nat /\ Len(r) < HotplugCap
    <3>1. CASE Len(rx) < HotplugCap
      BY <3>1, <2>3
    <3>2. CASE ~ (Len(rx) < HotplugCap)
      <4>1. Len(rx) = HotplugCap /\ rx # <<>>
        BY <3>2, <2>3, EmptySeq
      <4>2. Tail(rx) \in Seq(About({"live"})) /\ Len(Tail(rx)) = Len(rx) - 1
        BY <4>1, <2>3, Left
      <4> QED
        BY <4>1, <4>2, <3>2, <2>3
    <3> QED
      BY <3>1, <3>2
  <2>5. rx' = Append(r, m)
    BY <1>2 DEF Publish
  <2> HIDE DEF r, m
  <2> DEFINE b == Append(r, m)
  <2>6. b \in Seq(About({"live"})) /\ Len(b) = Len(r) + 1
    BY <2>2, <2>4, Joined
  <2> HIDE DEF b
  <2>7. Len(b) <= HotplugCap
    BY <2>3, <2>4, <2>6
  <2> QED
    BY <2>1, <2>5, <2>6, <2>7 DEF RxTyped, b
<1> QED
  BY <1>1, <1>2

LEMMA PushLiveIs ==
  ASSUME HeldTyped, TxTyped, PushLive
  PROVE  \E m \in About({"live"}) : held = <<m>> /\ tx' = Append(tx, m)
<1> DEFINE m == Head(held)
<1>1. held = <<m>> /\ m \in About({"live"})
  BY One DEF PushLive, HeldTyped
<1>2. m \in Msg /\ tx \in Seq(Msg)
  BY <1>1, Kinds DEF TxTyped
<1> HIDE DEF m
<1>3. tx \o <<m>> = Append(tx, m)
  BY <1>2, Joined
<1> QED
  BY <1>1, <1>3 DEF PushLive

LEMMA FlushIs ==
  ASSUME PendingTyped, TxTyped, Flush
  PROVE  \E m \in About({"answer"}) \cup {Other} : pending = <<m>> /\ tx' = Append(tx, m)
<1> DEFINE m == Head(pending)
<1>1. pending = <<m>> /\ m \in About({"answer"}) \cup {Other}
  BY One DEF Flush, PendingTyped
<1>2. m \in Msg /\ tx \in Seq(Msg)
  BY <1>1, Kinds DEF TxTyped
<1> HIDE DEF m
<1>3. tx \o <<m>> = Append(tx, m)
  BY <1>2, Joined
<1> QED
  BY <1>1, <1>3 DEF Flush

LEMMA TypeStep ==
  ASSUME TypeOK, StickyIsWhereItSits, Beginning, [Next]_vars
  PROVE  TypeOK'
<1>a. /\ DockTypeOK /\ FlagsTyped /\ RxTyped /\ HeldTyped /\ PendingTyped
      /\ TxTyped /\ PushesTyped /\ ClientTyped
  BY TypeInParts
<1>b. TypeOK' <=> /\ DockTypeOK' /\ FlagsTyped' /\ RxTyped' /\ HeldTyped' /\ PendingTyped'
                  /\ TxTyped' /\ PushesTyped' /\ ClientTyped'
  BY TypeInParts, PTL
<1>c. DockTypeOK'
  BY <1>a, DockPartStep DEF DockInv
<1>1. CASE DockStep
  <2>1. PICK i \in Slots, x \in Devices \cup {None} : DockStepAt(i, x)
    BY <1>1, <1>a, DockStepIs
  <2>2. RxTyped' /\ lagged' \in BOOLEAN
    BY <2>1, <1>a, PublishTyped DEF DockStepAt, FlagsTyped
  <2>3. FlagsTyped'
    BY <2>1, <2>2, <1>a DEF DockStepAt, FlagsTyped, connVars
  <2>4. ClientTyped'
    BY <2>1, <1>a DEF DockStepAt, ClientTyped
  <2> QED
    BY <2>1, <2>2, <2>3, <2>4, <1>a, <1>b, <1>c, PartsUnchanged DEF DockStepAt, connVars
<1>2. CASE ClientFrame
  <2>1. ASSUME NEW i \in Slots, QueryChild(i) PROVE TypeOK'
    <3>1. Info("answer", i, slots[i]) \in About({"answer"})
      BY <1>a DEF Info, About, DockTypeOK
    <3>2. PendingTyped'
      BY <2>1, <3>1 DEF QueryChild, PendingTyped
    <3>3. ClientTyped'
      BY <2>1, <1>a DEF QueryChild, ClientTyped, DockTypeOK
    <3> QED
      BY <2>1, <3>2, <3>3, <1>a, <1>b, <1>c, PartsUnchanged DEF QueryChild, chanVars
  <2>2. CASE Poll
    <3>1. PendingTyped' /\ FlagsTyped'
      BY <2>2, <1>a DEF Poll, PendingTyped, FlagsTyped, chanVars
    <3>2. \A i \in Slots : slots[i] # None => Info("snapshot", i, slots[i]) \in About({"snapshot"})
      BY <1>a DEF Info, About, DockTypeOK
    <3>3. PushesTyped'
      BY <2>2, <3>2, <1>a DEF Poll, PushesTyped, Occupied
    <3>4. ClientTyped'
      BY <2>2, <1>a DEF Poll, ClientTyped, DockTypeOK
    <3> QED
      BY <2>2, <3>1, <3>3, <3>4, <1>a, <1>b, <1>c, PartsUnchanged DEF Poll, chanVars
  <2>3. CASE SendOther
    <3>1. PendingTyped'
      BY <2>3 DEF SendOther, PendingTyped
    <3> QED
      BY <2>3, <3>1, <1>a, <1>b, <1>c, PartsUnchanged DEF SendOther, chanVars, clientVars
  <2> QED
    BY <1>2, <2>1, <2>2, <2>3 DEF ClientFrame
<1>3. CASE Subscribe
  <2>1. TxTyped'
    <3>1. tx' = <<Other>>
      <4>1. tx = <<>> /\ pending = <<Other>> /\ tx' = tx \o pending
        BY <1>3 DEF Subscribe, Beginning
      <4> QED
        BY <4>1
    <3>2. Other \in Msg /\ TxCap \in Nat \ {0}
      BY Kinds, HotplugAssumption
    <3> QED
      BY <3>1, <3>2 DEF TxTyped
  <2>2. PendingTyped' /\ FlagsTyped'
    BY <1>3, <1>a DEF Subscribe, PendingTyped, FlagsTyped, chanVars
  <2>3. ClientTyped'
    BY <1>3, <1>a DEF Subscribe, ClientTyped, DockTypeOK
  <2> QED
    BY <1>3, <2>1, <2>2, <2>3, <1>a, <1>b, <1>c, PartsUnchanged DEF Subscribe, chanVars
<1>4. CASE Receive
  <2>1. FlagsTyped'
    BY <1>4, <1>a DEF Receive, FlagsTyped
  <2>2. /\ Tail(rx) \in Seq(About({"live"})) /\ Head(rx) \in About({"live"})
        /\ Len(Tail(rx)) = Len(rx) - 1 /\ Len(rx) \in Nat
    BY <1>4, <1>a, Left DEF Receive, RxTyped
  <2>3. Len(Tail(rx)) <= HotplugCap
    BY <2>2, <1>a, HotplugAssumption DEF RxTyped
  <2>4. RxTyped'
    <3>1. CASE lagged
      BY <3>1, <1>4, HotplugAssumption DEF Receive, RxTyped
    <3>2. CASE ~ lagged
      BY <3>2, <1>4, <2>2, <2>3 DEF Receive, RxTyped
    <3> QED
      BY <3>1, <3>2
  <2>5. HeldTyped'
    <3>1. CASE lagged
      BY <3>1, <1>4 DEF Receive, HeldTyped
    <3>2. CASE ~ lagged
      <4>1. held' = <<Head(rx)>>
        BY <3>2, <1>4 DEF Receive
      <4> QED
        BY <4>1, <2>2 DEF HeldTyped
    <3> QED
      BY <3>1, <3>2
  <2> QED
    BY <1>4, <2>1, <2>4, <2>5, <1>a, <1>b, <1>c, PartsUnchanged DEF Receive, clientVars
<1>5. CASE PushLive
  <2>1. PICK m \in About({"live"}) : tx' = Append(tx, m)
    BY <1>5, <1>a, PushLiveIs
  <2>2. TxTyped'
    BY <1>5, <2>1, <1>a, Kinds, TxTakes DEF PushLive, Room, TxTyped
  <2>3. HeldTyped'
    BY <1>5 DEF PushLive, HeldTyped
  <2> QED
    BY <1>5, <2>2, <2>3, <1>a, <1>b, <1>c, PartsUnchanged DEF PushLive, chanVars, clientVars
<1>6. CASE Flush
  <2>1. PICK m \in About({"answer"}) \cup {Other} : tx' = Append(tx, m)
    BY <1>6, <1>a, FlushIs
  <2>2. TxTyped'
    BY <1>6, <2>1, <1>a, Kinds, TxTakes DEF Flush, Room, TxTyped
  <2>3. PendingTyped'
    BY <1>6 DEF Flush, PendingTyped
  <2> QED
    BY <1>6, <2>2, <2>3, <1>a, <1>b, <1>c, PartsUnchanged DEF Flush, chanVars, clientVars
<1>7. CASE Deliver
  <2> DEFINE m == Head(tx)
  <2>1. /\ Tail(tx) \in Seq(Msg) /\ m \in Msg
        /\ Len(Tail(tx)) = Len(tx) - 1 /\ Len(tx) \in Nat
    BY <1>7, <1>a, Left DEF Deliver, TxTyped
  <2>2. Len(Tail(tx)) <= TxCap
    BY <2>1, <1>a, HotplugAssumption DEF TxTyped
  <2>3. TxTyped'
    BY <1>7, <2>1, <2>2 DEF Deliver, TxTyped
  <2>4. m.kind = "other" \/ (m.slot \in Slots /\ m.dev \in Devices \cup {None})
    BY <2>1, Kinds
  <2>5. ClientTyped'
    BY <1>7, <2>4, <1>a DEF Deliver, ClientTyped
  <2> QED
    BY <1>7, <2>3, <2>5, <1>a, <1>b, <1>c, PartsUnchanged DEF Deliver, chanVars
<1>8. CASE Close
  <2>4. FlagsTyped'
    BY <1>8, <1>a DEF Close, FlagsTyped
  <2>1. HeldTyped' /\ PushesTyped'
    BY <1>8 DEF Close, HeldTyped, PushesTyped
  <2>2. RxTyped' /\ TxTyped'
    BY <1>8, HotplugAssumption DEF Close, RxTyped, TxTyped
  <2>3. ClientTyped'
    BY <1>8 DEF Close, ClientTyped, Nothing
  <2> QED
    BY <1>8, <2>1, <2>2, <2>3, <2>4, <1>a, <1>b, <1>c, PartsUnchanged DEF Close
<1>9. ASSUME NEW m \in pushes, PushSnapshot(m) PROVE TypeOK'
  <2>1. m \in Msg
    BY <1>a, Kinds DEF PushesTyped
  <2>2. TxTyped'
    BY <1>9, <2>1, <1>a, TxTakes DEF PushSnapshot, Room, TxTyped
  <2>3. PushesTyped'
    BY <1>9, <1>a DEF PushSnapshot, PushesTyped
  <2> QED
    BY <1>9, <2>2, <2>3, <1>a, <1>b, <1>c, PartsUnchanged DEF PushSnapshot, chanVars, clientVars
<1>10. CASE UNCHANGED vars
  BY <1>10, <1>a, <1>b, <1>c, PartsUnchanged DEF vars, connVars, chanVars, clientVars
<1> QED
  BY <1>1, <1>2, <1>3, <1>4, <1>5, <1>6, <1>7, <1>8, <1>9, <1>10 DEF Next

LEMMA BeginningStep ==
  ASSUME TypeOK, Beginning, [Next]_vars PROVE Beginning'
<1>1. CASE DockStep
  <2>1. PICK i \in Slots, x \in Devices \cup {None} : DockStepAt(i, x)
    BY <1>1, DockStepIs DEF TypeOK
  <2> QED
    BY <2>1 DEF DockStepAt, Publish, Beginning, connVars, chanVars
<1>2. CASE ClientFrame
  BY <1>2 DEF ClientFrame, QueryChild, Poll, SendOther, Beginning
<1>3. CASE Subscribe \/ Receive \/ PushLive \/ Flush \/ Deliver \/ Close
  BY <1>3 DEF Subscribe, Receive, PushLive, Flush, Deliver, Close, Beginning, TypeOK, chanVars, clientVars
<1>4. ASSUME NEW m \in pushes, PushSnapshot(m) PROVE Beginning'
  BY <1>4 DEF PushSnapshot, Beginning
<1>5. CASE UNCHANGED vars
  BY <1>5 DEF vars, connVars, chanVars, clientVars, Beginning
<1> QED
  BY <1>1, <1>2, <1>3, <1>4, <1>5 DEF Next

--------------------------------------------------------------------------------
\* The news of slot i still under way, with the state's variables as parameters.
Knows(r, h, t, v, i, x) ==
  \/ LastNews(r, i, x)
  \/ News(r, i) = {} /\ LastNews(h, i, x)
  \/ News(r, i) = {} /\ News(h, i) = {} /\ LastNews(t, i, x)
  \/ News(r, i) = {} /\ News(h, i) = {} /\ News(t, i) = {} /\ v = x

LEMMA LiveStreamIs ==
  LiveStreamIsComplete <=> (Listening => \A i \in Slots : Knows(rx, held, tx, live[i], i, slots[i]))
BY DEF LiveStreamIsComplete, WillKnow, Knows

\* A message of another kind in tx changes nothing.
LEMMA TxTakesOther ==
  ASSUME NEW r, NEW h, NEW t \in Seq(Msg), NEW v, NEW i, NEW x, NEW m \in Msg, m.kind # "live",
         Knows(r, h, t, v, i, x)
  PROVE  Knows(r, h, Append(t, m), v, i, x)
BY NewsJoin DEF Knows

LEMMA LiveStreamStep ==
  ASSUME TypeOK, Beginning, LiveStreamIsComplete, [Next]_vars
  PROVE  LiveStreamIsComplete'
<1>a. /\ DockTypeOK /\ FlagsTyped /\ RxTyped /\ HeldTyped /\ PendingTyped
      /\ TxTyped /\ PushesTyped /\ ClientTyped
  BY TypeInParts
<1>b. /\ tx \in Seq(Msg) /\ rx \in Seq(Msg) /\ rx \in Seq(About({"live"}))
  <2>1. About({"live"}) \subseteq Msg
    BY Kinds
  <2>2. rx \in Seq(About({"live"})) /\ tx \in Seq(Msg)
    BY <1>a DEF RxTyped, TxTyped
  <2> QED
    BY <2>1, <2>2, SeqMonotonic
<1>c. LiveStreamIsComplete' <=>
        (Listening' => \A i \in Slots : Knows(rx', held', tx', live'[i], i, slots'[i]))
  BY DEF LiveStreamIsComplete, WillKnow, Knows
<1> SUFFICES ASSUME Listening', NEW i \in Slots PROVE Knows(rx', held', tx', live'[i], i, slots'[i])
  BY <1>c
<1>d. Listening => Knows(rx, held, tx, live[i], i, slots[i])
  BY LiveStreamIs
<1> DEFINE Goal == Knows(rx', held', tx', live'[i], i, slots'[i])
<1> SUFFICES Goal
  OBVIOUS
<1>e. ASSUME Listening, UNCHANGED <<rx, held, tx, live, slots>> PROVE Goal
  BY <1>d, <1>e
<1> HIDE DEF Goal
<1>1. CASE DockStep
  <2>1. PICK j \in Slots, x \in Devices \cup {None} : DockStepAt(j, x)
    BY <1>1, <1>a, DockStepIs
  <2>2. alive /\ ~ lagged /\ Len(rx) # HotplugCap
    BY <2>1 DEF DockStepAt, Publish, connVars, Listening
  <2> DEFINE m == Info("live", j, x)
  <2>3. rx' = Append(rx, m)
    <3>1. Len(rx) < HotplugCap
      <4> DEFINE n == Len(rx)
      <4>1. n \in Nat /\ n <= HotplugCap /\ n # HotplugCap /\ HotplugCap \in Nat
        BY <2>2, <1>a, HotplugAssumption DEF RxTyped
      <4> HIDE DEF n
      <4>2. n < HotplugCap
        BY <4>1
      <4> QED
        BY <4>2 DEF n
    <3> QED
      BY <2>1, <2>2, <3>1 DEF DockStepAt, Publish
  <2>4. m \in About({"live"}) /\ m.kind = "live" /\ m.slot = j /\ m.dev = x
    BY DEF Info, About
  <2>5. m \in Msg
    BY <2>4, Kinds
  <2>6. UNCHANGED <<held, tx, live>> /\ slots' = [slots EXCEPT ![j] = x] /\ Listening
    BY <2>1, <2>2 DEF DockStepAt, connVars, Listening
  <2> HIDE DEF m
  <2>7. CASE i = j
    <3>1. LastNews(Append(rx, m), i, m.dev)
      BY <2>4, <2>5, <2>7, <1>b, NewsJoin
    <3>2. slots'[i] = m.dev
      BY <2>4, <2>6, <2>7, <1>a DEF DockTypeOK
    <3> QED
      BY <3>1, <3>2, <2>3 DEF Goal, Knows
  <2>8. CASE i # j
    <3>1. slots'[i] = slots[i]
      BY <2>6, <2>8, <1>a DEF DockTypeOK
    <3>2. \A y : /\ News(rx, i) = {} => News(Append(rx, m), i) = {}
                 /\ LastNews(rx, i, y) => LastNews(Append(rx, m), i, y)
      BY <2>4, <2>5, <2>8, <1>b, NewsJoin
    <3>3. Knows(rx, held, tx, live[i], i, slots[i])
      BY <2>6, <1>d
    <3>4. Knows(Append(rx, m), held, tx, live[i], i, slots[i])
      BY <3>2, <3>3 DEF Knows
    <3> QED
      BY <3>1, <3>4, <2>3, <2>6 DEF Goal
  <2> QED
    BY <2>7, <2>8
<1>2. CASE ClientFrame
  <2>1. UNCHANGED <<dockVars, chanVars, alive, held, tx, live>>
    BY <1>2 DEF ClientFrame, QueryChild, Poll, SendOther, clientVars
  <2> QED
    BY <2>1, <1>e DEF dockVars, chanVars, Listening
<1>3. CASE Subscribe
  <2>1. /\ rx' = <<>> /\ held' = <<>> /\ live' = slots' /\ tx = <<>> /\ pending = <<Other>>
        /\ tx' = tx \o pending
    BY <1>3 DEF Subscribe, Beginning, dockVars, chanVars
  <2>2. tx' = <<Other>>
    BY <2>1
  <2>3. News(<<>>, i) = {} /\ News(<<Other>>, i) = {}
    BY Kinds, NewsOne
  <2> QED
    BY <2>1, <2>2, <2>3 DEF Goal, Knows
<1>4. CASE Receive
  <2> DEFINE h == Head(rx)
             x == slots[i]
  <2>1. /\ Listening /\ held = <<>> /\ rx # <<>> /\ held' = <<h>> /\ rx' = Tail(rx)
        /\ UNCHANGED <<tx, live, slots>>
    BY <1>4, <1>a DEF Receive, Listening, FlagsTyped, dockVars, clientVars
  <2>2. h \in Msg
    BY <2>1, <1>b, Left
  <2>3. Knows(rx, <<>>, tx, live[i], i, x)
    BY <2>1, <1>d
  <2>4. /\ News(rx, i) = {} => News(Tail(rx), i) = {} /\ ~ (h.kind = "live" /\ h.slot = i)
        /\ LastNews(rx, i, x) => \/ LastNews(Tail(rx), i, x)
                                 \/ News(Tail(rx), i) = {} /\ h.kind = "live" /\ h.slot = i /\ h.dev = x
    BY <2>1, <1>b, NewsLeave
  <2> HIDE DEF h, x
  <2>5. /\ News(<<>>, i) = {} /\ ~ LastNews(<<>>, i, x)
        /\ h.kind = "live" /\ h.slot = i => News(<<h>>, i) # {} /\ (LastNews(<<h>>, i, x) <=> h.dev = x)
        /\ ~ (h.kind = "live" /\ h.slot = i) => News(<<h>>, i) = {}
    BY <2>2, NewsOne
  <2>6. Knows(Tail(rx), <<h>>, tx, live[i], i, x)
    BY <2>3, <2>4, <2>5 DEF Knows
  <2> QED
    BY <2>1, <2>6 DEF Goal, x
<1>5. CASE PushLive
  <2> DEFINE x == slots[i]
  <2>1. PICK m \in About({"live"}) : held = <<m>> /\ tx' = Append(tx, m)
    BY <1>5, <1>a, PushLiveIs
  <2>2. Listening /\ held' = <<>> /\ UNCHANGED <<rx, live, slots>> /\ m \in Msg
    BY <1>5, Kinds DEF PushLive, Listening, dockVars, chanVars, clientVars
  <2>3. Knows(rx, <<m>>, tx, live[i], i, x)
    BY <2>1, <2>2, <1>d
  <2>4. /\ m.kind = "live" /\ m.slot = i => LastNews(Append(tx, m), i, m.dev)
        /\ ~ (m.kind = "live" /\ m.slot = i) =>
              /\ News(tx, i) = {} => News(Append(tx, m), i) = {}
              /\ LastNews(tx, i, x) => LastNews(Append(tx, m), i, x)
    BY <2>2, <1>b, NewsJoin
  <2> HIDE DEF x
  <2>5. /\ News(<<>>, i) = {} /\ ~ LastNews(<<>>, i, x)
        /\ m.kind = "live" /\ m.slot = i => News(<<m>>, i) # {} /\ (LastNews(<<m>>, i, x) <=> m.dev = x)
        /\ ~ (m.kind = "live" /\ m.slot = i) => News(<<m>>, i) = {}
    BY <2>2, NewsOne
  <2>7. ~ (m.kind = "live" /\ m.slot = i) => ~ LastNews(<<m>>, i, x)
    BY <2>5 DEF LastNews
  <2>6. Knows(rx, <<>>, Append(tx, m), live[i], i, x)
    BY <2>3, <2>4, <2>5, <2>7 DEF Knows
  <2> QED
    BY <2>1, <2>2, <2>6 DEF Goal, x
<1>6. CASE Flush
  <2>1. PICK m \in About({"answer"}) \cup {Other} : pending = <<m>> /\ tx' = Append(tx, m)
    BY <1>6, <1>a, FlushIs
  <2>2. Listening /\ UNCHANGED <<rx, held, live, slots>> /\ m \in Msg /\ m.kind # "live"
    BY <1>6, Kinds DEF Flush, Listening, dockVars, chanVars, clientVars
  <2> QED
    BY <2>1, <2>2, <1>b, <1>d, TxTakesOther DEF Goal
<1>7. CASE Deliver
  <2> DEFINE h == Head(tx)
             x == slots[i]
  <2>1. Listening /\ tx # <<>> /\ tx' = Tail(tx) /\ UNCHANGED <<rx, held, slots>>
    BY <1>7 DEF Deliver, Listening, dockVars, chanVars
  <2>2. h \in Msg
    BY <2>1, <1>b, Left
  <2>3. Knows(rx, held, tx, live[i], i, x)
    BY <2>1, <1>d
  <2>4. /\ News(tx, i) = {} => News(Tail(tx), i) = {} /\ ~ (h.kind = "live" /\ h.slot = i)
        /\ LastNews(tx, i, x) => \/ LastNews(Tail(tx), i, x)
                                 \/ News(Tail(tx), i) = {} /\ h.kind = "live" /\ h.slot = i /\ h.dev = x
    BY <2>1, <1>b, NewsLeave
  <2>5. /\ h.kind = "live" /\ h.slot = i => live'[i] = h.dev
        /\ ~ (h.kind = "live" /\ h.slot = i) => live'[i] = live[i]
    <3>1. live \in [Slots -> Devices \cup {None}] /\ (h.kind # "other" => h.slot \in Slots)
      BY <2>2, <1>a, Kinds DEF ClientTyped
    <3> QED
      BY <3>1, <1>7 DEF Deliver
  <2> HIDE DEF h, x
  <2>6. Knows(rx, held, Tail(tx), live'[i], i, x)
    BY <2>3, <2>4, <2>5 DEF Knows
  <2> QED
    BY <2>1, <2>6 DEF Goal, x
<1>8. CASE Close
  BY <1>8 DEF Close, Listening
<1>9. ASSUME NEW m \in pushes, PushSnapshot(m) PROVE Goal
  <2>1. m \in Msg /\ m.kind # "live"
    BY <1>a, Kinds DEF PushesTyped
  <2>2. Listening /\ UNCHANGED <<rx, held, live, slots>> /\ tx' = Append(tx, m)
    BY <1>9 DEF PushSnapshot, Listening, dockVars, chanVars, clientVars
  <2> QED
    BY <2>1, <2>2, <1>b, <1>d, TxTakesOther DEF Goal
<1>10. CASE UNCHANGED vars
  BY <1>10, <1>e DEF vars, dockVars, connVars, chanVars, clientVars, Listening
<1> QED
  BY <1>1, <1>2, <1>3, <1>4, <1>5, <1>6, <1>7, <1>8, <1>9, <1>10 DEF Next

--------------------------------------------------------------------------------
LEMMA SnapshotsStep ==
  ASSUME TypeOK, Beginning, PushesAreSnapshots, [Next]_vars
  PROVE  PushesAreSnapshots'
<1>a. /\ DockTypeOK /\ FlagsTyped /\ RxTyped /\ HeldTyped /\ PendingTyped
      /\ TxTyped /\ PushesTyped /\ ClientTyped
  BY TypeInParts
<1>b. tx \in Seq(Msg)
  BY <1>a DEF TxTyped
\* The two queues keep to the snapshot.
<1> DEFINE Says(m, p, f) == p /\ m.dev # None /\ m.dev = f[m.slot]
           Good(t, p, f) == \A k \in DOMAIN t : t[k].kind = "snapshot" => Says(t[k], p, f)
<1>c. (\A m \in pushes : Says(m, polled, snapshot)) /\ Good(tx, polled, snapshot)
  BY DEF PushesAreSnapshots
<1>d. PushesAreSnapshots' <=> (\A m \in pushes' : Says(m, polled', snapshot')) /\ Good(tx', polled', snapshot')
  BY DEF PushesAreSnapshots
<1>e. ASSUME UNCHANGED <<pushes, tx, polled, snapshot>> PROVE PushesAreSnapshots'
  BY <1>c, <1>d, <1>e
<1>f. ASSUME NEW m \in Msg, m.kind = "snapshot" => Says(m, polled, snapshot)
      PROVE  Good(Append(tx, m), polled, snapshot)
  <2> DEFINE b == Append(tx, m)
             n == Len(tx) + 1
  <2>1. /\ \A k \in DOMAIN b : k \in DOMAIN tx \/ k = n
        /\ \A k \in DOMAIN tx : b[k] = tx[k]
        /\ b[n] = m
    BY <1>b, Joined
  <2> HIDE DEF b, n
  <2>2. Good(b, polled, snapshot)
    BY <2>1, <1>c, <1>f
  <2> QED
    BY <2>2 DEF b
<1> HIDE DEF Good
<1>1. CASE DockStep
  <2>1. PICK i \in Slots, x \in Devices \cup {None} : DockStepAt(i, x)
    BY <1>1, <1>a, DockStepIs
  <2> QED
    BY <2>1, <1>e DEF DockStepAt, connVars
<1>2. ASSUME NEW i \in Slots, QueryChild(i) PROVE PushesAreSnapshots'
  BY <1>2, <1>e DEF QueryChild
<1>3. CASE Poll
  <2>1. CASE polled
    BY <1>3, <2>1, <1>e, <1>a DEF Poll, FlagsTyped
  <2>2. CASE ~ polled
    <3>1. /\ polled' /\ snapshot' = slots /\ UNCHANGED tx
          /\ pushes' = {Info("snapshot", i, slots[i]) : i \in {j \in Slots : Occupied(j)}}
      BY <1>3, <2>2 DEF Poll
    <3>2. \A m \in pushes' : Says(m, polled', snapshot')
      BY <3>1 DEF Info, Occupied
    <3>3. Good(tx', polled', snapshot')
      BY <3>1, <2>2, <1>c DEF Good
    <3> QED
      BY <3>2, <3>3, <1>d
  <2> QED
    BY <2>1, <2>2
<1>4. CASE SendOther \/ Receive
  BY <1>4, <1>e DEF SendOther, Receive, clientVars
<1>5. CASE Subscribe
  <2>1. tx = <<>> /\ pending = <<Other>> /\ tx' = tx \o pending /\ UNCHANGED <<polled, snapshot, pushes>>
    BY <1>5 DEF Subscribe, Beginning
  <2>2. tx' = <<Other>>
    BY <2>1
  <2>3. Good(<<Other>>, polled, snapshot)
    BY Kinds DEF Good
  <2> QED
    BY <2>1, <2>2, <2>3, <1>c, <1>d
<1>6. CASE PushLive
  <2>1. PICK m \in About({"live"}) : held = <<m>> /\ tx' = Append(tx, m)
    BY <1>6, <1>a, PushLiveIs
  <2>2. m \in Msg /\ m.kind # "snapshot" /\ UNCHANGED <<polled, snapshot, pushes>>
    BY <1>6, Kinds DEF PushLive, clientVars
  <2> QED
    BY <2>1, <2>2, <1>c, <1>d, <1>f
<1>7. CASE Flush
  <2>1. PICK m \in About({"answer"}) \cup {Other} : pending = <<m>> /\ tx' = Append(tx, m)
    BY <1>7, <1>a, FlushIs
  <2>2. m \in Msg /\ m.kind # "snapshot" /\ UNCHANGED <<polled, snapshot, pushes>>
    BY <1>7, Kinds DEF Flush, clientVars
  <2> QED
    BY <2>1, <2>2, <1>c, <1>d, <1>f
<1>8. CASE Deliver
  <2>1. tx # <<>> /\ tx' = Tail(tx) /\ UNCHANGED <<polled, snapshot, pushes>>
    BY <1>8 DEF Deliver
  <2>2. \A k \in DOMAIN Tail(tx) : k + 1 \in DOMAIN tx /\ Tail(tx)[k] = tx[k + 1]
    BY <2>1, <1>b, Left
  <2>3. Good(Tail(tx), polled, snapshot)
    BY <2>2, <1>c DEF Good
  <2> QED
    BY <2>1, <2>3, <1>c, <1>d
<1>9. CASE Close
  <2>1. tx' = <<>> /\ pushes' = {}
    BY <1>9 DEF Close
  <2> QED
    BY <2>1, <1>d DEF Good
<1>10. ASSUME NEW m \in pushes, PushSnapshot(m) PROVE PushesAreSnapshots'
  <2>1. m \in Msg /\ Says(m, polled, snapshot)
    BY <1>a, <1>c, Kinds DEF PushesTyped
  <2>2. pushes' = pushes \ {m} /\ tx' = Append(tx, m) /\ UNCHANGED <<polled, snapshot>>
    BY <1>10 DEF PushSnapshot, clientVars
  <2> QED
    BY <2>1, <2>2, <1>c, <1>d, <1>f
<1>11. CASE UNCHANGED vars
  BY <1>11, <1>e DEF vars, connVars, clientVars
<1> QED
  BY <1>1, <1>2, <1>3, <1>4, <1>5, <1>6, <1>7, <1>8, <1>9, <1>10, <1>11 DEF Next, ClientFrame

--------------------------------------------------------------------------------
\* A later answer about the same slot is in the queue.
Later(t, k) == \E j \in DOMAIN t : k < j /\ t[j].kind = "answer" /\ t[j].slot = t[k].slot

AnswersOK(t, p, a) ==
  /\ \A k \in DOMAIN p : p[k].kind = "answer" => p[k].dev \in a[p[k].slot]
  /\ \A k \in DOMAIN t : t[k].kind = "answer" =>
       t[k].dev \in a[t[k].slot] \/ Has(p, {"answer"}, t[k].slot) \/ Later(t, k)

LEMMA AnswersJoin ==
  ASSUME NEW t \in Seq(Msg), NEW p, NEW a, NEW m \in Msg, AnswersOK(t, p, a)
  PROVE  /\ m.kind # "answer" => AnswersOK(Append(t, m), p, a)
         /\ p = <<m>> => AnswersOK(Append(t, m), <<>>, a)
<1> DEFINE b == Append(t, m)
           n == Len(t) + 1
<1>1. /\ \A k \in DOMAIN b : k \in DOMAIN t \/ k = n
      /\ \A k \in DOMAIN t : k \in DOMAIN b /\ k < n /\ b[k] = t[k]
      /\ n \in DOMAIN b /\ b[n] = m
  BY Joined
<1> HIDE DEF b, n
<1>2. \A k \in DOMAIN t : Later(t, k) => Later(b, k)
  BY <1>1 DEF Later
<1>3. ASSUME m.kind # "answer" PROVE AnswersOK(b, p, a)
  BY <1>1, <1>2, <1>3 DEF AnswersOK
<1>4. ASSUME p = <<m>> PROVE AnswersOK(b, <<>>, a)
  <2>1. \A i : Has(p, {"answer"}, i) <=> m.kind = "answer" /\ m.slot = i
    BY <1>4, HasOne
  <2>2. m.kind = "answer" => m.dev \in a[m.slot]
    <3>1. 1 \in DOMAIN p /\ p[1] = m
      BY <1>4
    <3> QED
      BY <3>1 DEF AnswersOK
  <2>3. \A k \in DOMAIN t : m.kind = "answer" /\ m.slot = t[k].slot => Later(b, k)
    BY <1>1 DEF Later
  <2>4. \A k \in DOMAIN b : b[k].kind = "answer" => b[k].dev \in a[b[k].slot] \/ Later(b, k)
    BY <1>1, <1>2, <2>1, <2>2, <2>3 DEF AnswersOK
  <2> QED
    BY <2>4 DEF AnswersOK
<1> QED
  BY <1>3, <1>4 DEF b

LEMMA AnswersLeave ==
  ASSUME NEW t \in Seq(Msg), t # <<>>, NEW p, NEW a, AnswersOK(t, p, a)
  PROVE  /\ AnswersOK(Tail(t), p, a)
         /\ Head(t).kind = "answer" =>
              \/ Head(t).dev \in a[Head(t).slot] \/ Has(p, {"answer"}, Head(t).slot)
              \/ Has(Tail(t), {"answer"}, Head(t).slot)
<1> DEFINE b == Tail(t)
           h == Head(t)
<1>1. /\ h = t[1] /\ 1 \in DOMAIN t
      /\ \A k \in DOMAIN b : k \in Nat /\ k + 1 \in DOMAIN t /\ b[k] = t[k + 1]
      /\ \A k \in DOMAIN t : k \in Nat /\ (k = 1 \/ (k - 1 \in DOMAIN b /\ b[k - 1] = t[k]))
      /\ DOMAIN t \subseteq Nat \ {0}
  BY Left
<1> HIDE DEF b, h
<1>2. ASSUME NEW k \in DOMAIN b, Later(t, k + 1) PROVE Later(b, k)
  <2>1. PICK j \in DOMAIN t : k + 1 < j /\ t[j].kind = "answer" /\ t[j].slot = t[k + 1].slot
    BY <1>2 DEF Later
  <2>2. k \in Nat /\ j \in Nat /\ j # 1
    BY <2>1, <1>1
  <2>3. j - 1 \in DOMAIN b /\ b[j - 1] = t[j] /\ k < j - 1 /\ b[k] = t[k + 1]
    BY <2>1, <2>2, <1>1
  <2> QED
    BY <2>1, <2>3 DEF Later
<1>3. AnswersOK(b, p, a)
  BY <1>1, <1>2 DEF AnswersOK
<1>4. ASSUME h.kind = "answer"
      PROVE  h.dev \in a[h.slot] \/ Has(p, {"answer"}, h.slot) \/ Has(b, {"answer"}, h.slot)
  <2>1. Later(t, 1) => Has(b, {"answer"}, h.slot)
    <3> SUFFICES ASSUME Later(t, 1) PROVE Has(b, {"answer"}, h.slot)
      OBVIOUS
    <3>1. PICK j \in DOMAIN t : 1 < j /\ t[j].kind = "answer" /\ t[j].slot = h.slot
      BY <1>1 DEF Later
    <3>2. j # 1
      BY <3>1, <1>1
    <3> QED
      BY <3>1, <3>2, <1>1 DEF Has
  <2> QED
    BY <2>1, <1>1, <1>4 DEF AnswersOK
<1> QED
  BY <1>3, <1>4 DEF b, h

LEMMA LastAnswerStep ==
  ASSUME TypeOK, Beginning, LastAnswerCounts, [Next]_vars
  PROVE  LastAnswerCounts'
<1>a. /\ DockTypeOK /\ FlagsTyped /\ RxTyped /\ HeldTyped /\ PendingTyped
      /\ TxTyped /\ PushesTyped /\ ClientTyped
  BY TypeInParts
<1>b. tx \in Seq(Msg)
  BY <1>a DEF TxTyped
<1>c. AnswersOK(tx, pending, answered)
  BY DEF LastAnswerCounts, AnswersOK, Later
<1>d. LastAnswerCounts' <=> AnswersOK(tx', pending', answered')
  BY DEF LastAnswerCounts, AnswersOK, Later
<1>e. ASSUME UNCHANGED <<tx, pending, answered>> PROVE LastAnswerCounts'
  BY <1>c, <1>d, <1>e
\* The loop takes up a message that is no answer.
<1>f. ASSUME pending = <<>>, pending' = <<Other>>, UNCHANGED <<tx, answered>> PROVE LastAnswerCounts'
  <2>1. \A i : ~ Has(<<>>, {"answer"}, i)
    BY DEF Has
  <2>2. AnswersOK(tx, <<Other>>, answered)
    BY <2>1, <1>c, <1>f, Kinds DEF AnswersOK
  <2> QED
    BY <2>2, <1>d, <1>f
<1>1. CASE DockStep
  <2>1. PICK i \in Slots, x \in Devices \cup {None} : DockStepAt(i, x)
    BY <1>1, <1>a, DockStepIs
  <2> QED
    BY <2>1, <1>e DEF DockStepAt, connVars
<1>2. ASSUME NEW i \in Slots, QueryChild(i) PROVE LastAnswerCounts'
  <2> DEFINE m == Info("answer", i, slots[i])
  <2>1. pending = <<>> /\ pending' = <<m>> /\ answered' = [answered EXCEPT ![i] = {slots[i]}] /\ UNCHANGED tx
    BY <1>2 DEF QueryChild
  <2>2. m.kind = "answer" /\ m.slot = i /\ m.dev = slots[i]
    BY DEF Info
  <2>3. answered'[i] = {m.dev} /\ \A j \in Slots \ {i} : answered'[j] = answered[j]
    BY <2>1, <2>2, <1>a DEF ClientTyped
  <2> HIDE DEF m
  <2>4. Has(<<m>>, {"answer"}, i)
    BY <2>2 DEF Has
  <2>5. \A k \in DOMAIN tx : tx[k].kind = "answer" => tx[k].slot \in Slots
    BY <1>b, Kinds
  <2>6. ASSUME NEW k \in DOMAIN tx, tx[k].kind = "answer"
        PROVE  tx[k].dev \in answered'[tx[k].slot] \/ Has(<<m>>, {"answer"}, tx[k].slot) \/ Later(tx, k)
    <3>1. CASE tx[k].slot = i
      BY <3>1, <2>4
    <3>2. CASE tx[k].slot # i
      <4>1. tx[k].dev \in answered[tx[k].slot] \/ Later(tx, k)
        BY <2>1, <2>6, <1>c DEF AnswersOK, Has
      <4> QED
        BY <4>1, <3>2, <2>3, <2>5, <2>6
    <3> QED
      BY <3>1, <3>2
  <2>7. \A k \in DOMAIN <<m>> : <<m>>[k].kind = "answer" => <<m>>[k].dev \in answered'[<<m>>[k].slot]
    BY <2>2, <2>3
  <2>8. AnswersOK(tx, <<m>>, answered')
    BY <2>6, <2>7 DEF AnswersOK
  <2> QED
    BY <2>1, <2>8, <1>d
<1>3. CASE Poll \/ SendOther
  BY <1>3, <1>f DEF Poll, SendOther, clientVars
<1>4. CASE Receive
  BY <1>4, <1>e DEF Receive, clientVars
<1>5. CASE Subscribe
  <2>1. tx = <<>> /\ pending = <<Other>> /\ tx' = tx \o pending /\ pending' = <<>>
    BY <1>5 DEF Subscribe, Beginning
  <2>2. tx' = <<Other>>
    BY <2>1
  <2>3. AnswersOK(<<Other>>, <<>>, answered')
    BY Kinds DEF AnswersOK
  <2> QED
    BY <2>1, <2>2, <2>3, <1>d
<1>6. CASE PushLive
  <2>1. PICK m \in About({"live"}) : held = <<m>> /\ tx' = Append(tx, m)
    BY <1>6, <1>a, PushLiveIs
  <2>2. m \in Msg /\ m.kind # "answer" /\ UNCHANGED <<pending, answered>>
    BY <1>6, Kinds DEF PushLive, clientVars
  <2> QED
    BY <2>1, <2>2, <1>b, <1>c, <1>d, AnswersJoin
<1>7. CASE Flush
  <2>1. PICK m \in About({"answer"}) \cup {Other} : pending = <<m>> /\ tx' = Append(tx, m)
    BY <1>7, <1>a, FlushIs
  <2>2. m \in Msg /\ pending' = <<>> /\ UNCHANGED answered
    BY <1>7, Kinds DEF Flush, clientVars
  <2> QED
    BY <2>1, <2>2, <1>b, <1>c, <1>d, AnswersJoin
<1>8. CASE Deliver
  <2>1. tx # <<>> /\ tx' = Tail(tx) /\ UNCHANGED <<pending, answered>>
    BY <1>8 DEF Deliver
  <2> QED
    BY <2>1, <1>b, <1>c, <1>d, AnswersLeave
<1>9. CASE Close
  <2>1. tx' = <<>> /\ pending' = <<>>
    BY <1>9 DEF Close
  <2> QED
    BY <2>1, <1>d DEF AnswersOK
<1>10. ASSUME NEW m \in pushes, PushSnapshot(m) PROVE LastAnswerCounts'
  <2>1. m \in Msg /\ m.kind # "answer"
    BY <1>a, Kinds DEF PushesTyped
  <2>2. tx' = Append(tx, m) /\ UNCHANGED <<pending, answered>>
    BY <1>10 DEF PushSnapshot, clientVars
  <2> QED
    BY <2>1, <2>2, <1>b, <1>c, <1>d, AnswersJoin
<1>11. CASE UNCHANGED vars
  BY <1>11, <1>e DEF vars, connVars, clientVars
<1> QED
  BY <1>1, <1>2, <1>3, <1>4, <1>5, <1>6, <1>7, <1>8, <1>9, <1>10, <1>11 DEF Next, ClientFrame

--------------------------------------------------------------------------------
\* The reasons of ViewExplained that the client has, and those under way.
Known(i) ==
  \/ view[i] = live[i]
  \/ polled /\ snapshot[i] # None /\ view[i] = snapshot[i]
  \/ view[i] \in answered[i]
  \/ ~ polled /\ view[i] = None

Coming(p, r, h, t, i) ==
  \/ Has(p, {"answer"}, i) \/ Has(r, {"live"}, i) \/ Has(h, {"live"}, i)
  \/ Has(t, {"live", "snapshot", "answer"}, i)

Pushed(s, i) == \E m \in s : m.slot = i

LEMMA ViewStep ==
  ASSUME HotplugInv, [Next]_vars PROVE ViewExplained'
<1>a. /\ DockTypeOK /\ FlagsTyped /\ RxTyped /\ HeldTyped /\ PendingTyped
      /\ TxTyped /\ PushesTyped /\ ClientTyped
      /\ Beginning /\ PushesAreSnapshots /\ LastAnswerCounts /\ LiveStreamIsComplete
  BY TypeInParts DEF HotplugInv
<1>b. tx \in Seq(Msg) /\ rx \in Seq(Msg)
  <2>1. About({"live"}) \subseteq Msg
    BY Kinds
  <2> QED
    BY <2>1, <1>a, SeqMonotonic DEF RxTyped, TxTyped
<1> SUFFICES ASSUME conn' = "open", Listening', NEW i \in Slots
             PROVE  Known(i)' \/ Coming(pending', rx', held', tx', i) \/ Pushed(pushes', i)
  BY DEF ViewExplained, Known, Coming, Pushed
<1>c. conn = "open" /\ Listening =>
        Known(i) \/ Coming(pending, rx, held, tx, i) \/ Pushed(pushes, i)
  BY DEF HotplugInv, ViewExplained, Known, Coming, Pushed
<1> DEFINE Goal == Known(i)' \/ Coming(pending', rx', held', tx', i) \/ Pushed(pushes', i)
<1> SUFFICES Goal
  OBVIOUS
<1>d. ASSUME UNCHANGED <<view, live, snapshot, answered, polled>>, Known(i) PROVE Known(i)'
  BY <1>d DEF Known
<1>e. Listening' => alive' /\ ~ lagged'
  BY DEF Listening
<1>f. ~ Has(<<>>, {"answer"}, i) /\ ~ Has(<<>>, {"live"}, i)
  BY DEF Has
<1> HIDE DEF Goal
<1>1. CASE DockStep
  <2>1. PICK j \in Slots, x \in Devices \cup {None} : DockStepAt(j, x)
    BY <1>1, <1>a, DockStepIs
  <2>2. UNCHANGED <<view, live, snapshot, answered, polled, pending, held, tx, pushes, conn, alive>>
    BY <2>1 DEF DockStepAt, connVars
  <2>3. alive /\ ~ lagged /\ Len(rx) # HotplugCap
    BY <2>1, <1>e DEF DockStepAt, Publish, connVars
  <2>4. rx' = Append(rx, Info("live", j, x))
    <3>1. Len(rx) < HotplugCap
      <4> DEFINE n == Len(rx)
      <4>1. n \in Nat /\ n <= HotplugCap /\ n # HotplugCap /\ HotplugCap \in Nat
        BY <2>3, <1>a, HotplugAssumption DEF RxTyped
      <4> HIDE DEF n
      <4>2. n < HotplugCap
        BY <4>1
      <4> QED
        BY <4>2 DEF n
    <3> QED
      BY <2>1, <2>3, <3>1 DEF DockStepAt, Publish
  <2>5. Info("live", j, x) \in Msg
    BY Kinds DEF Info, About
  <2>6. Has(rx, {"live"}, i) => Has(rx', {"live"}, i)
    BY <2>4, <2>5, <1>b, HasJoin
  <2> QED
    BY <2>2, <2>3, <2>6, <1>c, <1>d DEF Goal, Coming, Listening
<1>2. ASSUME NEW j \in Slots, QueryChild(j) PROVE Goal
  <2> DEFINE m == Info("answer", j, slots[j])
  <2>1. /\ pending = <<>> /\ pending' = <<m>> /\ answered' = [answered EXCEPT ![j] = {slots[j]}]
        /\ UNCHANGED <<view, live, snapshot, polled, rx, held, tx, pushes, conn, alive, lagged>>
    BY <1>2 DEF QueryChild, chanVars
  <2>2. m.kind = "answer" /\ m.slot = j
    BY DEF Info
  <2> HIDE DEF m
  <2>3. CASE i = j
    <3>1. Has(<<m>>, {"answer"}, i)
      BY <2>2, <2>3 DEF Has
    <3> QED
      BY <3>1, <2>1 DEF Goal, Coming
  <2>4. CASE i # j
    <3>1. answered'[i] = answered[i]
      BY <2>1, <2>4, <1>a DEF ClientTyped
    <3>2. Known(i) => Known(i)'
      BY <3>1, <2>1 DEF Known
    <3> QED
      BY <3>2, <2>1, <1>c, <1>f DEF Goal, Coming, Listening
  <2> QED
    BY <2>3, <2>4
<1>3. CASE Poll
  <2>1. /\ pending = <<>> /\ polled' /\ UNCHANGED <<view, live, answered, rx, held, tx, conn, alive, lagged>>
    BY <1>3 DEF Poll, chanVars
  <2>2. Listening
    BY <2>1 DEF Listening
  <2>3. CASE polled
    <3>1. UNCHANGED <<polled, snapshot, pushes>>
      BY <2>1, <2>3, <1>3, <1>a DEF Poll, FlagsTyped
    <3> QED
      BY <3>1, <2>1, <2>2, <1>c, <1>d, <1>f DEF Goal, Coming
  <2>4. CASE ~ polled
    <3>1. pushes' = {Info("snapshot", j, slots[j]) : j \in {k \in Slots : Occupied(k)}}
      BY <2>4, <1>3 DEF Poll
    <3>2. pushes = {}
      BY <2>4, <1>a DEF PushesAreSnapshots
    <3>3. CASE Occupied(i)
      <4>1. Info("snapshot", i, slots[i]) \in pushes' /\ Info("snapshot", i, slots[i]).slot = i
        BY <3>1, <3>3 DEF Info
      <4> QED
        BY <4>1 DEF Goal, Pushed
    <3>4. CASE ~ Occupied(i)
      \* The client has to know of the empty slot, or to be about to hear of it.
      <4>1. WillKnow(i, None)
        BY <3>4, <2>2, <1>a DEF LiveStreamIsComplete, Occupied
      <4>2. live[i] = None \/ Has(rx, {"live"}, i) \/ Has(held, {"live"}, i)
            \/ Has(tx, {"live", "snapshot", "answer"}, i)
        BY <4>1 DEF WillKnow, LastNews, News, Has
      <4>3. CASE live[i] = None
        <5>1. Known(i) => view[i] = live[i] \/ view[i] \in answered[i]
          BY <4>3, <2>4 DEF Known
        <5>2. Known(i) => Known(i)'
          BY <5>1, <2>1 DEF Known
        <5> QED
          BY <5>2, <3>2, <2>1, <2>2, <1>c, <1>f, <1>3 DEF Goal, Coming, Pushed, Poll
      <4> QED
        BY <4>2, <4>3, <2>1 DEF Goal, Coming
    <3> QED
      BY <3>3, <3>4
  <2> QED
    BY <2>3, <2>4
<1>4. CASE SendOther
  <2>1. /\ pending = <<>>
        /\ UNCHANGED <<view, live, snapshot, answered, polled, rx, held, tx, pushes, conn, alive, lagged>>
    BY <1>4 DEF SendOther, clientVars, chanVars
  <2> QED
    BY <2>1, <1>c, <1>d, <1>f DEF Goal, Coming, Listening
<1>5. CASE Subscribe
  <2>1. ~ polled /\ view = Nothing /\ UNCHANGED <<polled, view>>
    BY <1>5, <1>a DEF Subscribe, Beginning
  <2>2. Known(i)'
    BY <2>1 DEF Known, Nothing
  <2> QED
    BY <2>2 DEF Goal
<1>6. CASE Receive
  <2> DEFINE h == Head(rx)
  <2>1. /\ rx # <<>> /\ held = <<>> /\ held' = <<h>> /\ rx' = Tail(rx) /\ Listening
        /\ UNCHANGED <<view, live, snapshot, answered, polled, pending, tx, pushes, conn>>
    BY <1>6, <1>a, <1>e DEF Receive, Listening, FlagsTyped, clientVars
  <2>2. h \in Msg
    BY <2>1, <1>b, Left
  <2>3. Has(rx, {"live"}, i) <=> Has(Tail(rx), {"live"}, i) \/ (h.kind \in {"live"} /\ h.slot = i)
    BY <2>1, <1>b, HasLeave
  <2> HIDE DEF h
  <2>4. Has(<<h>>, {"live"}, i) <=> h.kind \in {"live"} /\ h.slot = i
    BY HasOne
  <2> QED
    BY <2>1, <2>3, <2>4, <1>c, <1>d, <1>f DEF Goal, Coming
<1>7. CASE PushLive
  <2>1. PICK m \in About({"live"}) : held = <<m>> /\ tx' = Append(tx, m)
    BY <1>7, <1>a, PushLiveIs
  <2>2. /\ m \in Msg
        /\ UNCHANGED <<view, live, snapshot, answered, polled, pending, rx, pushes, conn, alive, lagged>>
    BY <1>7, Kinds DEF PushLive, clientVars, chanVars
  <2>3. Has(<<m>>, {"live"}, i) <=> m.kind \in {"live"} /\ m.slot = i
    BY HasOne
  <2>4. Has(Append(tx, m), {"live", "snapshot", "answer"}, i) <=>
          Has(tx, {"live", "snapshot", "answer"}, i) \/ (m.kind \in {"live", "snapshot", "answer"} /\ m.slot = i)
    BY <2>2, <1>b, HasJoin
  <2> QED
    BY <2>1, <2>2, <2>3, <2>4, <1>c, <1>d DEF Goal, Coming, Listening
<1>8. CASE Flush
  <2>1. PICK m \in About({"answer"}) \cup {Other} : pending = <<m>> /\ tx' = Append(tx, m)
    BY <1>8, <1>a, FlushIs
  <2>2. /\ m \in Msg
        /\ UNCHANGED <<view, live, snapshot, answered, polled, held, rx, pushes, conn, alive, lagged>>
    BY <1>8, Kinds DEF Flush, clientVars, chanVars
  <2>3. Has(<<m>>, {"answer"}, i) <=> m.kind \in {"answer"} /\ m.slot = i
    BY HasOne
  <2>4. Has(Append(tx, m), {"live", "snapshot", "answer"}, i) <=>
          Has(tx, {"live", "snapshot", "answer"}, i) \/ (m.kind \in {"live", "snapshot", "answer"} /\ m.slot = i)
    BY <2>2, <1>b, HasJoin
  <2> QED
    BY <2>1, <2>2, <2>3, <2>4, <1>c, <1>d DEF Goal, Coming, Listening
<1>9. CASE Deliver
  <2> DEFINE h == Head(tx)
             K == {"live", "snapshot", "answer"}
  <2>1. /\ tx # <<>> /\ tx' = Tail(tx)
        /\ UNCHANGED <<snapshot, answered, polled, pending, held, rx, pushes, conn, alive, lagged>>
    BY <1>9 DEF Deliver, chanVars
  <2>2. h \in Msg
    BY <2>1, <1>b, Left
  <2>3. Has(tx, K, i) <=> Has(Tail(tx), K, i) \/ (h.kind \in K /\ h.slot = i)
    BY <2>1, <1>b, HasLeave
  <2>4. CASE h.kind \in K /\ h.slot = i
    <3>1. view'[i] = h.dev /\ (h.kind = "live" => live'[i] = h.dev)
      BY <2>4, <1>9, <1>a DEF Deliver, ClientTyped
    <3>2. CASE h.kind = "live"
      BY <3>1, <3>2 DEF Goal, Known
    <3>3. CASE h.kind = "snapshot"
      <4>1. polled /\ h.dev # None /\ h.dev = snapshot[i]
        <5>1. 1 \in DOMAIN tx /\ h = tx[1]
          BY <2>1, <1>b, Left
        <5> QED
          BY <5>1, <3>3, <2>4, <1>a DEF PushesAreSnapshots
      <4> QED
        BY <4>1, <3>1, <2>1 DEF Goal, Known
    <3>4. CASE h.kind = "answer"
      <4>1. AnswersOK(tx, pending, answered)
        BY <1>a DEF LastAnswerCounts, AnswersOK, Later
      <4>2. h.dev \in answered[i] \/ Has(pending, {"answer"}, i) \/ Has(Tail(tx), {"answer"}, i)
        BY <4>1, <3>4, <2>1, <2>4, <1>b, AnswersLeave
      <4>3. Has(Tail(tx), {"answer"}, i) => Has(Tail(tx), K, i)
        BY DEF Has
      <4> QED
        BY <4>2, <4>3, <3>1, <2>1 DEF Goal, Known, Coming
    <3> QED
      BY <2>4, <3>2, <3>3, <3>4
  <2>5. CASE ~ (h.kind \in K /\ h.slot = i)
    <3>1. h.kind = "other" \/ (h.kind \in K /\ h.slot \in Slots)
      <4>1. h.kind # "other" => h.kind \in {"live", "snapshot", "answer"} /\ h.slot \in Slots
        BY <2>2, Kinds
      <4> HIDE DEF h
      <4> QED
        BY <4>1
    <3>2. view'[i] = view[i] /\ live'[i] = live[i]
      BY <3>1, <2>5, <1>9, <1>a DEF Deliver, ClientTyped
    <3>3. Known(i) => Known(i)'
      BY <3>2, <2>1 DEF Known
    <3> QED
      BY <3>3, <2>1, <2>3, <2>5, <1>c DEF Goal, Coming, Listening
  <2> QED
    BY <2>4, <2>5
<1>10. CASE Close
  BY <1>10 DEF Close
<1>11. ASSUME NEW m \in pushes, PushSnapshot(m) PROVE Goal
  <2>1. m \in Msg /\ m.kind = "snapshot"
    BY <1>a, Kinds DEF PushesTyped
  <2>2. /\ tx' = Append(tx, m) /\ pushes' = pushes \ {m}
        /\ UNCHANGED <<view, live, snapshot, answered, polled, pending, held, rx, conn, alive, lagged>>
    BY <1>11 DEF PushSnapshot, clientVars, chanVars
  <2>3. Has(Append(tx, m), {"live", "snapshot", "answer"}, i) <=>
          Has(tx, {"live", "snapshot", "answer"}, i) \/ (m.kind \in {"live", "snapshot", "answer"} /\ m.slot = i)
    BY <2>1, <1>b, HasJoin
  <2>4. Pushed(pushes, i) => Pushed(pushes', i) \/ m.slot = i
    BY <2>2 DEF Pushed
  <2> QED
    BY <2>1, <2>2, <2>3, <2>4, <1>c, <1>d DEF Goal, Coming, Listening
<1>12. CASE UNCHANGED vars
  BY <1>12, <1>c, <1>d DEF vars, connVars, clientVars, chanVars, Goal, Listening
<1> QED
  BY <1>1, <1>2, <1>3, <1>4, <1>5, <1>6, <1>7, <1>8, <1>9, <1>10, <1>11, <1>12 DEF Next, ClientFrame

--------------------------------------------------------------------------------
LEMMA HotplugInit == Init => HotplugInv
<1> SUFFICES ASSUME Init PROVE HotplugInv
  OBVIOUS
<1>1. DockTypeOK /\ StickyIsWhereItSits
  BY DockInvInit DEF Init, DockInv
<1>9. FlagsTyped
  BY DEF Init, FlagsTyped
<1>2. HeldTyped /\ PendingTyped /\ PushesTyped
  BY DEF Init, HeldTyped, PendingTyped, PushesTyped
<1>3. RxTyped /\ TxTyped
  BY HotplugAssumption DEF Init, RxTyped, TxTyped
<1>4. ClientTyped
  BY DEF Init, ClientTyped, Nothing
<1>5. Beginning
  BY DEF Init, Beginning
<1>6. PushesAreSnapshots
  BY DEF Init, PushesAreSnapshots
<1>7. LastAnswerCounts
  BY Kinds DEF Init, LastAnswerCounts
<1>8. LiveStreamIsComplete /\ ViewExplained
  BY DEF Init, LiveStreamIsComplete, ViewExplained, Listening
<1> QED
  BY <1>1, <1>2, <1>3, <1>4, <1>5, <1>6, <1>7, <1>8, <1>9, TypeInParts DEF HotplugInv

\* What the client believes of a slot is explained by what is on its way to it, by
\* the last answer or by a push of the first poll (connection.rs:131-150, 409-475).
THEOREM HotplugInvariant == Spec => []HotplugInv
<1>1. HotplugInv /\ [Next]_vars => HotplugInv'
  <2> SUFFICES ASSUME HotplugInv, [Next]_vars PROVE HotplugInv'
    OBVIOUS
  <2>1. StickyIsWhereItSits'
    BY DockPartStep DEF HotplugInv, TypeOK, DockInv
  <2>2. TypeOK' /\ Beginning' /\ PushesAreSnapshots' /\ LastAnswerCounts' /\ LiveStreamIsComplete'
    BY TypeStep, BeginningStep, SnapshotsStep, LastAnswerStep, LiveStreamStep DEF HotplugInv
  <2> QED
    BY <2>1, <2>2, ViewStep DEF HotplugInv
<1> QED
  BY HotplugInit, <1>1, PTL DEF Spec

\* Every variable keeps its type, and both channels keep to their capacity
\* (dock.rs:83-95, connection.rs:71).
THEOREM HotplugTypeCorrect == Spec => []TypeOK
<1>1. HotplugInv => TypeOK
  BY DEF HotplugInv
<1> QED
  BY <1>1, HotplugInvariant, PTL

\* For every capacity of the broadcast channel: a listener that has not fallen
\* behind loses and reorders nothing (dock.rs:189, 211, connection.rs:131-150).
THEOREM LiveStreamComplete == Spec => []LiveStreamIsComplete
<1>1. HotplugInv => LiveStreamIsComplete
  BY DEF HotplugInv
<1> QED
  BY <1>1, HotplugInvariant, PTL

\* When all is quiet, nothing but the pushes of the first poll and the answer to
\* the last query can have misled the client (connection.rs:410-426, 451-473).
THEOREM OnlySnapshotsMislead == Spec => []OnlyOldSnapshotsMislead
<1>1. HotplugInv => OnlyOldSnapshotsMislead
  <2> SUFFICES ASSUME HotplugInv, Quiet, Listening, polled, NEW i \in Slots, view[i] # slots[i]
               PROVE  (view[i] = snapshot[i] /\ snapshot[i] # None) \/ view[i] \in answered[i]
    BY DEF OnlyOldSnapshotsMislead
  <2>1. WillKnow(i, slots[i])
    BY DEF HotplugInv, LiveStreamIsComplete
  <2>2. live[i] = slots[i]
    BY <2>1 DEF WillKnow, LastNews, News, Quiet
  <2>3. \A K : ~ Has(<<>>, K, i)
    BY DEF Has
  <2> QED
    BY <2>2, <2>3 DEF HotplugInv, ViewExplained, Quiet
<1> QED
  BY <1>1, HotplugInvariant, PTL
================================================================================
