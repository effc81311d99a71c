---------------------------- MODULE EmbeddedProofs -----------------------------
(***************************************************************************)
(* What a client of the embedded deck bridge hears, for any deck, any      *)
(* number of events and any room in the socket.                            *)
(***************************************************************************)
EXTENDS EmbeddedDeck, SequenceTheorems, TLAPS

LEMMA MinOfTwo ==
  ASSUME NEW a \in Nat, NEW b \in Nat
  PROVE  Min({a, b}) = IF a <= b THEN a ELSE b
<1>1. \E x \in {a, b} : \A y \in {a, b} : x <= y
  OBVIOUS
<1>2. Min({a, b}) \in {a, b} /\ \A y \in {a, b} : Min({a, b}) <= y
  BY <1>1 DEF Min
<1> QED
  BY <1>2

KeyEvent(e) == e.is \in {"KeyDown", "KeyUp"}

LEMMA EventTyped ==
  ASSUME NEW e \in Events
  PROVE  /\ KeyEvent(e) => e.key \in Keys /\ e.key \in Nat
         /\ ~ KeyEvent(e) => e.is \in Others
<1>1. CASE e \in [is : {"KeyDown", "KeyUp"}, key : Keys]
  BY <1>1, EmbeddedAssumption DEF KeyEvent
<1>2. CASE e \in [is : Others, key : {0}]
  <2>1. e.is \in Others
    BY <1>2
  <2>2. e.is \notin {"KeyDown", "KeyUp"}
    BY <2>1, EmbeddedAssumption
  <2> QED
    BY <2>1, <2>2 DEF KeyEvent
<1> QED
  BY <1>1, <1>2 DEF Events

\* What a report says of its event.
LEMMA EncodeTyped ==
  ASSUME NEW e \in Events, NEW n \in 1 .. MaxEvents
  PROVE  LET r == EncodeSurfaceEvent(e, n)
         IN  /\ r \in Reports /\ r # None /\ r.number = n
             /\ (r.is = "keys") = KeyEvent(e)
             /\ e.is = "KeyDown" => r.pressed = {IF e.key <= ReportKeys - 1 THEN e.key ELSE ReportKeys - 1}
             /\ e.is = "KeyUp" => r.pressed = {}
<1> DEFINE r == EncodeSurfaceEvent(e, n)
<1>1. CASE KeyEvent(e)
  <2>1. e.key \in Keys /\ e.key \in Nat /\ ReportKeys - 1 \in Nat /\ 0 .. e.key \subseteq Keys
    BY <1>1, EventTyped, EmbeddedAssumption
  <2> DEFINE m == Min({e.key, ReportKeys - 1})
  <2>2. m = IF e.key <= ReportKeys - 1 THEN e.key ELSE ReportKeys - 1
    BY <2>1, MinOfTwo
  <2>3. m \in Keys
    BY <2>1, <2>2
  <2>4. r = [is |-> "keys", number |-> n, pressed |-> IF e.is = "KeyDown" THEN {m} ELSE {}]
    BY <1>1 DEF EncodeSurfaceEvent, KeyEvent
  <2> HIDE DEF m, r
  <2>5. r \in [is : {"keys"}, number : 1 .. MaxEvents, pressed : SUBSET Keys]
    BY <2>3, <2>4
  <2>6. r \in Reports /\ r.number = n /\ r.is = "keys"
    BY <2>4, <2>5 DEF Reports
  <2>7. (e.is = "KeyDown" => r.pressed = {m}) /\ (e.is = "KeyUp" => r.pressed = {})
    BY <2>4
  <2> QED
    BY <1>1, <2>2, <2>6, <2>7, EmbeddedAssumption DEF r
<1>2. CASE ~ KeyEvent(e) /\ e.is = "TouchTap"
  <2>1. r = [is |-> "touch", number |-> n]
    BY <1>2 DEF EncodeSurfaceEvent, KeyEvent
  <2> HIDE DEF r
  <2>2. r \in Reports /\ r.number = n /\ r.is = "touch"
    BY <2>1 DEF Reports
  <2> QED
    BY <1>2, <2>2, EmbeddedAssumption DEF r, KeyEvent
<1>3. CASE ~ KeyEvent(e) /\ e.is # "TouchTap"
  <2>1. r = [is |-> "dial", number |-> n, value |-> IF e.is = "DialRelease" THEN 0 ELSE 1]
    BY <1>3 DEF EncodeSurfaceEvent, KeyEvent
  <2> HIDE DEF r
  <2>2. r \in Reports /\ r.number = n /\ r.is = "dial"
    BY <2>1 DEF Reports
  <2> QED
    BY <1>3, <2>2, EmbeddedAssumption DEF r, KeyEvent
<1> QED
  BY <1>1, <1>2, <1>3

LEMMA AfterTyped ==
  ASSUME NEW e \in Events, NEW keys \in SUBSET Keys
  PROVE  After(e, keys) \in SUBSET Keys
BY EventTyped DEF After, KeyEvent

--------------------------------------------------------------------------------
(***************************************************************************)
(* What the steps of the bridge do to the items on their way.              *)
(***************************************************************************)
Items == Reports \cup {None}

\* InOrder, with its set of numbers taken apart.
LEMMA InOrderIs ==
  ASSUME NEW a \in Seq(Items), NEW lo \in Nat, NEW hi \in Nat
  PROVE  InOrder(a, lo, hi) <=>
           /\ \A i \in 1 .. Len(a) : a[i] # None => a[i].number \in lo + 1 .. hi
           /\ \A n \in lo + 1 .. hi : \E i \in 1 .. Len(a) : a[i] # None /\ a[i].number = n
           /\ \A i, j \in 1 .. Len(a) :
                 a[i] # None /\ a[j] # None /\ i < j => a[i].number < a[j].number
<1> DEFINE told == {i \in DOMAIN a : a[i] # None}
<1>1. DOMAIN a = 1 .. Len(a)
  OBVIOUS
<1>2. told = {i \in 1 .. Len(a) : a[i] # None}
  BY <1>1
<1> HIDE DEF told
<1>3. ({a[i].number : i \in told} = lo + 1 .. hi) <=>
        /\ \A i \in told : a[i].number \in lo + 1 .. hi
        /\ \A n \in lo + 1 .. hi : \E i \in told : a[i].number = n
  OBVIOUS
<1>4. InOrder(a, lo, hi) <=>
        /\ {a[i].number : i \in told} = lo + 1 .. hi
        /\ \A i, j \in told : i < j => a[i].number < a[j].number
  BY DEF InOrder, told
<1> QED
  BY <1>2, <1>3, <1>4

\* An answer, or the place of no report, changes nothing.
LEMMA AppendNone ==
  ASSUME NEW a \in Seq(Items), NEW lo \in Nat, NEW hi \in Nat, InOrder(a, lo, hi)
  PROVE  InOrder(Append(a, None), lo, hi)
<1> DEFINE b == Append(a, None)
<1>1. /\ b \in Seq(Items) /\ Len(b) = Len(a) + 1 /\ Len(a) \in Nat
      /\ \A i \in 1 .. Len(a) : b[i] = a[i]
      /\ b[Len(a) + 1] = None
  BY AppendProperties DEF Items
<1> HIDE DEF b
<1>2. \A i \in 1 .. Len(b) : b[i] # None => i \in 1 .. Len(a) /\ b[i] = a[i]
  BY <1>1
<1>3. 1 .. Len(a) \subseteq 1 .. Len(b)
  BY <1>1
<1>4. /\ \A i \in 1 .. Len(a) : a[i] # None => a[i].number \in lo + 1 .. hi
      /\ \A n \in lo + 1 .. hi : \E i \in 1 .. Len(a) : a[i] # None /\ a[i].number = n
      /\ \A i, j \in 1 .. Len(a) :
            a[i] # None /\ a[j] # None /\ i < j => a[i].number < a[j].number
  BY InOrderIs
<1>5. /\ \A i \in 1 .. Len(b) : b[i] # None => b[i].number \in lo + 1 .. hi
      /\ \A n \in lo + 1 .. hi : \E i \in 1 .. Len(b) : b[i] # None /\ b[i].number = n
      /\ \A i, j \in 1 .. Len(b) :
            b[i] # None /\ b[j] # None /\ i < j => b[i].number < b[j].number
  BY <1>1, <1>2, <1>3, <1>4
<1>6. InOrder(b, lo, hi)
  BY <1>1, <1>5, InOrderIs
<1> QED
  BY <1>6 DEF b

\* The report of the next event takes the place of none.
LEMMA AppendReport ==
  ASSUME NEW a \in Seq(Items), NEW lo \in Nat, NEW hi \in Nat, InOrder(Append(a, None), lo, hi),
         NEW r \in Reports, r.number = hi + 1, lo <= hi
  PROVE  InOrder(Append(a, r), lo, hi + 1)
<1> DEFINE b == Append(a, None)
           c == Append(a, r)
<1>1. /\ b \in Seq(Items) /\ Len(b) = Len(a) + 1 /\ Len(a) \in Nat
      /\ \A i \in 1 .. Len(a) : b[i] = a[i]
      /\ b[Len(a) + 1] = None
  BY AppendProperties DEF Items
<1>2. /\ c \in Seq(Items) /\ Len(c) = Len(a) + 1
      /\ \A i \in 1 .. Len(a) : c[i] = a[i]
      /\ c[Len(a) + 1] = r
  BY AppendProperties DEF Items
<1> HIDE DEF b, c
<1>3. /\ \A i \in 1 .. Len(b) : b[i] # None => b[i].number \in lo + 1 .. hi
      /\ \A n \in lo + 1 .. hi : \E i \in 1 .. Len(b) : b[i] # None /\ b[i].number = n
      /\ \A i, j \in 1 .. Len(b) :
            b[i] # None /\ b[j] # None /\ i < j => b[i].number < b[j].number
  BY <1>1, InOrderIs DEF b
<1>4. r # None /\ hi + 1 \in Nat
  BY EmbeddedAssumption
<1>5. ASSUME NEW i \in 1 .. Len(c), c[i] # None
      PROVE  c[i].number \in lo + 1 .. hi + 1
  <2>1. CASE i \in 1 .. Len(a)
    <3>1. i \in 1 .. Len(b) /\ b[i] = c[i]
      BY <2>1, <1>1, <1>2
    <3>2. c[i].number \in lo + 1 .. hi
      BY <3>1, <1>3, <1>5
    <3> QED
      BY <3>2
  <2>2. CASE i = Len(a) + 1
    <3>1. c[i].number = hi + 1
      BY <2>2, <1>2
    <3> QED
      BY <3>1
  <2> QED
    BY <2>1, <2>2, <1>1, <1>2
<1>6. ASSUME NEW n \in lo + 1 .. hi + 1
      PROVE  \E i \in 1 .. Len(c) : c[i] # None /\ c[i].number = n
  <2>1. CASE n = hi + 1
    BY <2>1, <1>1, <1>2, <1>4
  <2>2. CASE n \in lo + 1 .. hi
    <3>1. PICK i \in 1 .. Len(b) : b[i] # None /\ b[i].number = n
      BY <2>2, <1>3
    <3>2. i \in 1 .. Len(a)
      BY <3>1, <1>1
    <3> QED
      BY <3>1, <3>2, <1>1, <1>2
  <2> QED
    BY <2>1, <2>2
<1>7. ASSUME NEW i \in 1 .. Len(c), NEW j \in 1 .. Len(c), c[i] # None, c[j] # None, i < j
      PROVE  c[i].number < c[j].number
  <2>1. i \in 1 .. Len(a) /\ c[i] = b[i] /\ i \in 1 .. Len(b)
    BY <1>7, <1>1, <1>2
  <2>2. CASE j = Len(a) + 1
    <3>1. b[i].number \in lo + 1 .. hi
      BY <2>1, <1>3, <1>7
    <3>2. c[j].number = hi + 1
      BY <2>2, <1>2
    <3> QED
      BY <3>1, <3>2, <2>1
  <2>3. CASE j \in 1 .. Len(a)
    BY <1>7, <2>1, <2>3, <1>1, <1>2, <1>3
  <2> QED
    BY <2>2, <2>3, <1>1, <1>2
<1>8. InOrder(c, lo, hi + 1)
  BY <1>2, <1>4, <1>5, <1>6, <1>7, InOrderIs
<1> QED
  BY <1>8 DEF c

\* The first report is the next one the client has not heard.
LEMMA TailInOrder ==
  ASSUME NEW a \in Seq(Items), a # <<>>, NEW lo \in Nat, NEW hi \in Nat, InOrder(a, lo, hi)
  PROVE  /\ a[1] = None => InOrder(Tail(a), lo, hi)
         /\ a[1] # None => a[1].number = lo + 1 /\ lo + 1 <= hi /\ InOrder(Tail(a), lo + 1, hi)
<1> DEFINE b == Tail(a)
<1>1. /\ b \in Seq(Items) /\ Len(b) = Len(a) - 1 /\ Len(a) \in Nat \ {0}
      /\ \A i \in 1 .. Len(b) : b[i] = a[i + 1]
  BY HeadTailProperties, EmptySeq
<1> HIDE DEF b
<1>2. /\ \A i \in 1 .. Len(a) : a[i] # None => a[i].number \in lo + 1 .. hi
      /\ \A n \in lo + 1 .. hi : \E i \in 1 .. Len(a) : a[i] # None /\ a[i].number = n
      /\ \A i, j \in 1 .. Len(a) :
            a[i] # None /\ a[j] # None /\ i < j => a[i].number < a[j].number
  BY InOrderIs
<1>3. \A i \in 1 .. Len(b) : i + 1 \in 1 .. Len(a) /\ b[i] = a[i + 1]
  BY <1>1
<1>4. \A i \in 2 .. Len(a) : i - 1 \in 1 .. Len(b) /\ b[i - 1] = a[i]
  BY <1>1
<1>5. \A i, j \in 1 .. Len(b) : b[i] # None /\ b[j] # None /\ i < j => b[i].number < b[j].number
  <2> TAKE i, j \in 1 .. Len(b)
  <2>1. i + 1 \in 1 .. Len(a) /\ j + 1 \in 1 .. Len(a) /\ (i < j => i + 1 < j + 1)
    BY <1>1
  <2> QED
    BY <2>1, <1>2, <1>3
<1>6. ASSUME a[1] = None PROVE InOrder(b, lo, hi)
  <2>1. ASSUME NEW n \in lo + 1 .. hi PROVE \E i \in 1 .. Len(b) : b[i] # None /\ b[i].number = n
    <3>1. PICK i \in 1 .. Len(a) : a[i] # None /\ a[i].number = n
      BY <1>2
    <3>2. i \in 2 .. Len(a)
      BY <3>1, <1>6, <1>1
    <3> QED
      BY <3>1, <3>2, <1>4
  <2>2. \A i \in 1 .. Len(b) : b[i] # None => b[i].number \in lo + 1 .. hi
    BY <1>2, <1>3
  <2> QED
    BY <2>1, <2>2, <1>1, <1>5, InOrderIs
<1>7. ASSUME a[1] # None
      PROVE  a[1].number = lo + 1 /\ lo + 1 <= hi /\ InOrder(b, lo + 1, hi)
  <2>1. 1 \in 1 .. Len(a) /\ a[1].number \in lo + 1 .. hi
    BY <1>7, <1>1, <1>2
  <2>2. PICK i \in 1 .. Len(a) : a[i] # None /\ a[i].number = lo + 1
    <3>1. lo + 1 \in lo + 1 .. hi
      BY <2>1
    <3> QED
      BY <3>1, <1>2
  <2>3. i = 1
    <3>1. ASSUME i # 1 PROVE FALSE
      <4>1. 1 < i
        BY <3>1, <1>1
      <4>2. a[1].number < a[i].number
        BY <4>1, <2>1, <2>2, <1>7, <1>2
      <4> QED
        BY <4>2, <2>1, <2>2
    <3> QED
      BY <3>1
  <2>4. a[1].number = lo + 1 /\ lo + 1 <= hi
    BY <2>1, <2>2, <2>3
  <2>5. \A k \in 1 .. Len(b) : b[k] # None => b[k].number \in lo + 2 .. hi
    <3> SUFFICES ASSUME NEW k \in 1 .. Len(b), b[k] # None PROVE b[k].number \in lo + 2 .. hi
      OBVIOUS
    <3>1. k + 1 \in 1 .. Len(a) /\ b[k] = a[k + 1] /\ 1 < k + 1
      BY <1>1, <1>3
    <3>2. a[k + 1].number \in lo + 1 .. hi /\ a[1].number < a[k + 1].number
      BY <3>1, <2>1, <1>2, <1>7
    <3> QED
      BY <3>1, <3>2, <2>4
  <2>6. ASSUME NEW n \in lo + 2 .. hi PROVE \E k \in 1 .. Len(b) : b[k] # None /\ b[k].number = n
    <3>1. n \in lo + 1 .. hi /\ n # lo + 1
      OBVIOUS
    <3>2. PICK k \in 1 .. Len(a) : a[k] # None /\ a[k].number = n
      BY <3>1, <1>2
    <3>3. k \in 2 .. Len(a)
      BY <3>1, <3>2, <2>4, <1>1
    <3> QED
      BY <3>2, <3>3, <1>4
  <2>7. lo + 1 \in Nat /\ lo + 2 = (lo + 1) + 1
    OBVIOUS
  <2>8. InOrder(b, lo + 1, hi)
    BY <2>5, <2>6, <2>7, <1>1, <1>5, InOrderIs
  <2> QED
    BY <2>4, <2>8
<1> QED
  BY <1>6, <1>7 DEF b

--------------------------------------------------------------------------------
LEMMA TypeInit == Init => TypeOK
<1> SUFFICES ASSUME Init PROVE TypeOK
  OBVIOUS
<1>1. clean \in BOOLEAN /\ chord \in BOOLEAN
  BY DEF Init
<1>2. /\ down = {} /\ holding = {} /\ seen = {} /\ queue = <<>> /\ polled = 0
      /\ conn = "none" /\ unread = 0 /\ out = <<>> /\ phase = "read" /\ part = 0
      /\ due = 0 /\ held = None /\ heard = 0
  BY DEF Init
<1> QED
  BY <1>1, <1>2, EmbeddedAssumption DEF TypeOK

\* The inductive invariant of the stream of reports.
StreamInv == TypeOK /\ NoEventIsLostOnTheWay

LEMMA StreamInit == Init => StreamInv
BY TypeInit DEF Init, StreamInv, NoEventIsLostOnTheWay

\* What write_all does to an item, or to none.
LEMMA WriteKeepsOrder ==
  ASSUME TypeOK, NEW item \in Items, Write(item)
  PROVE  /\ conn' \in {"none", "open"} /\ conn # "none"
         /\ out' \in Seq(Items) /\ Len(out') <= OutRoom
         /\ conn' = "open" => conn = "open" /\ out' = Append(out, item)
BY EmbeddedAssumption, AppendProperties DEF Write, TypeOK, Items

LEMMA StreamStep == StreamInv /\ [Next]_vars => StreamInv'
<1> SUFFICES ASSUME StreamInv, [Next]_vars PROVE StreamInv'
  OBVIOUS
<1>0. TypeOK /\ NoEventIsLostOnTheWay
  BY DEF StreamInv
<1> USE <1>0, EmbeddedAssumption DEF deckVars, loopVars, clientVars, pollVars, StreamInv
<1> DEFINE Steady == UNCHANGED <<conn, out, held, heard, polled>>
<1>1. ASSUME Steady PROVE NoEventIsLostOnTheWay'
  BY <1>1 DEF NoEventIsLostOnTheWay
<1>2. ASSUME conn' # "open" PROVE NoEventIsLostOnTheWay'
  BY <1>2 DEF NoEventIsLostOnTheWay
<1>3. ASSUME NEW e \in Events, Emit(e) PROVE Steady /\ queue' \in Seq(Events) /\ polled + Len(queue') <= MaxEvents
  BY <1>3, AppendProperties DEF Emit, TypeOK
<1>4. ASSUME NEW k \in Keys, Press(k) PROVE StreamInv'
  <2>1. Event("KeyDown", k) \in Events
    BY DEF Event, Events
  <2>2. Emit(Event("KeyDown", k)) /\ down' \subseteq Keys
    BY <1>4 DEF Press, TypeOK
  <2>3. chord' \in BOOLEAN
    BY <1>4 DEF Press
  <2>4. Steady /\ queue' \in Seq(Events) /\ polled + Len(queue') <= MaxEvents
    BY <2>1, <2>2, <1>3
  <2> QED
    BY <2>2, <2>3, <2>4, <1>1 DEF TypeOK, Emit
<1>5. ASSUME NEW k \in Keys, Release(k) PROVE StreamInv'
  <2>1. Event("KeyUp", k) \in Events
    BY DEF Event, Events
  <2>2. Emit(Event("KeyUp", k)) /\ down' \subseteq Keys
    BY <1>5 DEF Release, TypeOK
  <2>3. chord' \in BOOLEAN
    BY <1>5 DEF Release
  <2>4. Steady /\ queue' \in Seq(Events) /\ polled + Len(queue') <= MaxEvents
    BY <2>1, <2>2, <1>3
  <2> QED
    BY <2>2, <2>3, <2>4, <1>1 DEF TypeOK, Emit
<1>6. ASSUME NEW is \in Others, Turn(is) PROVE StreamInv'
  <2>1. Event(is, 0) \in Events
    BY DEF Event, Events
  <2>2. Emit(Event(is, 0)) /\ UNCHANGED deckVars
    BY <1>6 DEF Turn
  <2>4. Steady /\ queue' \in Seq(Events) /\ polled + Len(queue') <= MaxEvents
    BY <2>1, <2>2, <1>3
  <2> QED
    BY <2>2, <2>4, <1>1 DEF TypeOK, Emit
<1>7. CASE Connect
  <2>1. clean' \in BOOLEAN
    BY <1>7 DEF Connect
  <2>2. TypeOK'
    BY <1>7, <2>1 DEF Connect, TypeOK
  <2>3. Append(<<>>, None) = <<None>>
    OBVIOUS
  <2>4. InOrder(<<None>>, polled, polled)
    <3> DEFINE a == <<None>>
    <3>1. a \in Seq(Items) /\ Len(a) = 1 /\ a[1] = None /\ polled \in Nat
      BY DEF Items, TypeOK
    <3> HIDE DEF a
    <3>2. /\ \A i \in 1 .. Len(a) : a[i] = None
          /\ polled + 1 .. polled = {}
      BY <3>1
    <3>3. InOrder(a, polled, polled)
      BY <3>1, <3>2, InOrderIs
    <3> QED
      BY <3>3 DEF a
  <2> QED
    BY <1>7, <2>2, <2>3, <2>4 DEF Connect, NoEventIsLostOnTheWay
<1>8. CASE SendFrame
  <2>1. TypeOK'
    BY <1>8 DEF TypeOK, SendFrame
  <2> QED
    BY <1>8, <2>1, <1>1 DEF SendFrame
<1>15. ASSUME NEW n \in 1 .. unread, Read(n) PROVE StreamInv'
  <2>1. unread' \in 0 .. MaxUnread /\ part' \in 0 .. 1 /\ due' \in 0 .. MaxUnread
    <3>1. part \in 0 .. 1 /\ unread \in 0 .. MaxUnread /\ n \in 1 .. MaxUnread
      BY DEF TypeOK
    <3>2. (part + n) % 2 \in 0 .. 1 /\ (part + n) \div 2 \in 0 .. MaxUnread
      BY <3>1
    <3> QED
      BY <1>15, <3>1, <3>2 DEF Read
  <2>2. TypeOK'
    BY <1>15, <2>1 DEF TypeOK, Read
  <2> QED
    BY <1>15, <2>2, <1>1 DEF Read
<1>9. CASE CloseClient \/ ReadEnd
  <2>1. out' \in Seq(Reports \cup {None}) /\ Len(out') <= OutRoom
    <3>1. <<>> \in Seq(Reports \cup {None}) /\ Len(<<>>) = 0 /\ 0 <= OutRoom
      OBVIOUS
    <3>2. out' = <<>> \/ out' = out
      BY <1>9 DEF CloseClient, ReadEnd
    <3> QED
      BY <3>1, <3>2 DEF TypeOK
  <2>2. /\ conn' \in {"none", "closed"} /\ conn # "none"
        /\ UNCHANGED <<deckVars, loopVars, clientVars, pollVars, unread, clean>>
    BY <1>9 DEF CloseClient, ReadEnd
  <2>3. TypeOK'
    BY <2>1, <2>2 DEF TypeOK
  <2> QED
    BY <2>2, <2>3, <1>2
<1>10. CASE Receive
  <2>1. /\ conn = "open" /\ out # <<>> /\ out' = Tail(out) /\ conn' = conn /\ held' = held /\ polled' = polled
        /\ out \in Seq(Items) /\ held \in Items /\ polled \in Nat /\ heard \in Nat /\ heard <= polled
    BY <1>10 DEF Receive, TypeOK, Items
  <2> DEFINE a == Append(out, held)
  <2>2. a \in Seq(Items) /\ a # <<>> /\ a[1] = Head(out) /\ Tail(a) = Append(Tail(out), held)
    <3>1. a \in Seq(Items) /\ a # <<>>
      BY <2>1, AppendProperties
    <3>2. Len(out) \in Nat \ {0}
      BY <2>1, EmptySeq
    <3> QED
      BY <3>1, <3>2, <2>1
  <2>3. InOrder(a, heard, polled)
    BY <2>1 DEF NoEventIsLostOnTheWay
  <2> HIDE DEF a
  <2>4. /\ a[1] = None => InOrder(Tail(a), heard, polled)
        /\ a[1] # None => a[1].number = heard + 1 /\ heard + 1 <= polled /\ InOrder(Tail(a), heard + 1, polled)
    BY <2>1, <2>2, <2>3, TailInOrder
  <2>5. /\ Head(out) = None => heard' = heard /\ seen' = seen
        /\ Head(out) # None => heard' = Head(out).number
    BY <1>10 DEF Receive
  <2>6. InOrder(Append(out', held'), heard', polled') /\ heard' \in 0 .. polled
    <3>0. Append(out', held') = Tail(a) /\ polled' = polled
      BY <2>1, <2>2
    <3>1. CASE Head(out) = None
      <4>1. heard' = heard /\ InOrder(Tail(a), heard, polled)
        BY <3>1, <2>2, <2>4, <2>5
      <4>2. heard' \in 0 .. polled
        BY <4>1, <2>1
      <4> QED
        BY <3>0, <4>1, <4>2
    <3>2. CASE Head(out) # None
      <4>1. heard' = heard + 1 /\ heard + 1 <= polled /\ InOrder(Tail(a), heard + 1, polled)
        BY <3>2, <2>2, <2>4, <2>5
      <4>2. heard' \in 0 .. polled
        BY <4>1, <2>1
      <4> QED
        BY <3>0, <4>1, <4>2
    <3> QED
      BY <3>1, <3>2
  <2>7. Head(out) \in Items /\ Tail(out) \in Seq(Items) /\ Len(Tail(out)) = Len(out) - 1
    BY <2>1, HeadTailProperties
  <2>8. seen' \subseteq Keys
    <3>1. Head(out) # None /\ Head(out).is = "keys" => Head(out).pressed \subseteq Keys
      BY <2>7 DEF Items, Reports
    <3> QED
      BY <1>10, <3>1 DEF Receive, TypeOK
  <2>9. Len(out') <= OutRoom
    BY <2>1, <2>7 DEF TypeOK
  <2>10. UNCHANGED <<deckVars, loopVars, pollVars, conn, unread, clean>>
    BY <1>10 DEF Receive
  <2> QED
    BY <2>1, <2>6, <2>7, <2>8, <2>9, <2>10 DEF TypeOK, NoEventIsLostOnTheWay, Items
<1>11. CASE Answer
  <2>1. Write(None) /\ None \in Items /\ due' = due - 1 /\ due > 0 /\ held = None
        /\ UNCHANGED <<deckVars, phase, part, held, clientVars, pollVars, unread, clean>>
    BY <1>11 DEF Answer, Items, TypeOK
  <2>2. /\ conn' \in {"none", "open"} /\ conn # "none"
        /\ out' \in Seq(Items) /\ Len(out') <= OutRoom
        /\ conn' = "open" => conn = "open" /\ out' = Append(out, None)
    BY <2>1, WriteKeepsOrder
  <2>3. TypeOK'
    BY <2>1, <2>2 DEF TypeOK, Items
  <2>4. ASSUME conn' = "open" PROVE InOrder(Append(out', held'), heard', polled')
    <3>1. InOrder(Append(out, None), heard, polled) /\ Append(out, None) \in Seq(Items)
      BY <2>1, <2>2, <2>4, AppendProperties DEF NoEventIsLostOnTheWay, TypeOK, Items
    <3>2. InOrder(Append(Append(out, None), None), heard, polled)
      <4> DEFINE a == Append(out, None)
      <4>1. a \in Seq(Items) /\ InOrder(a, heard, polled) /\ heard \in Nat /\ polled \in Nat
        BY <3>1 DEF TypeOK
      <4> HIDE DEF a
      <4>2. InOrder(Append(a, None), heard, polled)
        BY <4>1, AppendNone
      <4> QED
        BY <4>2 DEF a
    <3> QED
      BY <3>2, <2>1, <2>2, <2>4
  <2> QED
    BY <2>3, <2>4 DEF NoEventIsLostOnTheWay
<1>12. CASE PollEvent
  <2>1. CASE queue = <<>>
    <3>1. TypeOK'
      BY <1>12, <2>1 DEF TypeOK, PollEvent
    <3> QED
      BY <1>12, <2>1, <3>1, <1>1 DEF PollEvent
  <2>2. CASE queue # <<>>
    <3> DEFINE e == Head(queue)
               r == EncodeSurfaceEvent(e, polled + 1)
    <3>1. e \in Events /\ Tail(queue) \in Seq(Events) /\ Len(Tail(queue)) = Len(queue) - 1
          /\ Len(queue) \in Nat \ {0} /\ polled \in Nat /\ heard \in 0 .. polled
          /\ polled + Len(queue) <= MaxEvents
      BY <2>2, HeadTailProperties, EmptySeq DEF TypeOK
    <3>2. polled + 1 \in 1 .. MaxEvents
      BY <3>1
    <3>3. /\ held' = r /\ queue' = Tail(queue) /\ polled' = polled + 1 /\ holding' = After(e, holding)
          /\ phase' = "push" /\ conn # "none" /\ phase = "answer"
          /\ UNCHANGED <<deckVars, part, due, clientVars, conn, unread, out, clean>>
      BY <1>12, <2>2 DEF PollEvent
    <3>4. After(e, holding) \subseteq Keys
      BY <3>1, AfterTyped DEF TypeOK
    <3>5. r \in Reports /\ r # None /\ r.number = polled + 1
      BY <3>1, <3>2, EncodeTyped
    <3> HIDE DEF r, e
    <3>6. TypeOK'
      BY <3>1, <3>3, <3>4, <3>5 DEF TypeOK
    <3>7. ASSUME conn = "open" PROVE InOrder(Append(out, r), heard, polled + 1)
      <4>1. held = None /\ out \in Seq(Items)
        BY <3>3 DEF TypeOK, Items
      <4> QED
        BY <4>1, <3>1, <3>5, <3>7, AppendReport DEF NoEventIsLostOnTheWay
    <3> QED
      BY <3>3, <3>6, <3>7 DEF NoEventIsLostOnTheWay
  <2> QED
    BY <2>1, <2>2
<1>13. CASE Push
  <2>1. Write(held) /\ held \in Items /\ held' = None /\ phase' = "read"
        /\ UNCHANGED <<deckVars, part, due, clientVars, pollVars, unread, clean>>
    BY <1>13 DEF Push, Items, TypeOK
  <2>2. /\ conn' \in {"none", "open"} /\ conn # "none"
        /\ out' \in Seq(Items) /\ Len(out') <= OutRoom
        /\ conn' = "open" => conn = "open" /\ out' = Append(out, held)
    BY <2>1, WriteKeepsOrder
  <2>3. TypeOK'
    BY <2>1, <2>2 DEF TypeOK, Items
  <2>4. ASSUME conn' = "open" PROVE InOrder(Append(out', held'), heard', polled')
    <3>1. InOrder(Append(out, held), heard, polled) /\ Append(out, held) \in Seq(Items)
      BY <2>1, <2>2, <2>4, AppendProperties DEF NoEventIsLostOnTheWay, TypeOK, Items
    <3>2. InOrder(Append(Append(out, held), None), heard, polled)
      <4> DEFINE a == Append(out, held)
      <4>1. a \in Seq(Items) /\ InOrder(a, heard, polled) /\ heard \in Nat /\ polled \in Nat
        BY <3>1 DEF TypeOK
      <4> HIDE DEF a
      <4>2. InOrder(Append(a, None), heard, polled)
        BY <4>1, AppendNone
      <4> QED
        BY <4>2 DEF a
    <3> QED
      BY <3>2, <2>1, <2>2, <2>4
  <2> QED
    BY <2>3, <2>4 DEF NoEventIsLostOnTheWay
<1>14. CASE UNCHANGED vars
  <2>1. TypeOK'
    BY <1>14 DEF TypeOK, vars
  <2> QED
    BY <1>14, <2>1, <1>1 DEF vars
<1> QED
  BY <1>4, <1>5, <1>6, <1>7, <1>8, <1>9, <1>10, <1>11, <1>12, <1>13, <1>14, <1>15 DEF Next, Loop

\* The socket never holds more than it has room for, and a report is held exactly
\* while the loop waits to write it (bridge.rs:41-100 of the embedded crate).
THEOREM EmbeddedTypeCorrect == Spec => []TypeOK
<1>1. StreamInv => TypeOK
  BY DEF StreamInv
<1> QED
  BY <1>1, StreamInit, StreamStep, PTL DEF Spec

\* Every event that is polled reaches the client of that connection once and in its
\* turn, however full the socket is (bridge.rs:89-99 of the embedded crate).
THEOREM EventsArriveInOrder == Spec => []NoEventIsLostOnTheWay
<1>1. StreamInv => NoEventIsLostOnTheWay
  BY DEF StreamInv
<1> QED
  BY <1>1, StreamInit, StreamStep, PTL DEF Spec
--------------------------------------------------------------------------------
(***************************************************************************)
(* Which keys are down: the last event about a key decides, in the queue   *)
(* and then among the reports on their way.                                *)
(***************************************************************************)
Nothing(s, T) == \A i \in 1 .. Len(s) : s[i] \notin T

\* The last element of s that is in T, if there is one, is in W.
LastIs(s, T, W) ==
  \A i \in 1 .. Len(s) :
     s[i] \in T /\ (\A j \in 1 .. Len(s) : s[j] \in T => j <= i) => s[i] \in W

LEMMA NothingLast ==
  ASSUME NEW s, NEW T, NEW W, Nothing(s, T)
  PROVE  LastIs(s, T, W)
BY DEF Nothing, LastIs

LEMMA AppendOther ==
  ASSUME NEW S, NEW s \in Seq(S), NEW x \in S, NEW T, NEW W, x \notin T
  PROVE  /\ Nothing(Append(s, x), T) <=> Nothing(s, T)
         /\ LastIs(Append(s, x), T, W) <=> LastIs(s, T, W)
<1> DEFINE b == Append(s, x)
<1>1. /\ Len(b) = Len(s) + 1 /\ Len(s) \in Nat
      /\ \A i \in 1 .. Len(s) : b[i] = s[i]
      /\ b[Len(s) + 1] = x
  BY AppendProperties
<1> HIDE DEF b
<1>2. \A i \in 1 .. Len(b) : b[i] \in T => i \in 1 .. Len(s) /\ b[i] = s[i]
  BY <1>1
<1>3. \A i \in 1 .. Len(s) : i \in 1 .. Len(b) /\ b[i] = s[i]
  BY <1>1
<1>4. Nothing(b, T) <=> Nothing(s, T)
  BY <1>2, <1>3 DEF Nothing
<1>5. LastIs(b, T, W) => LastIs(s, T, W)
  <2> SUFFICES ASSUME LastIs(b, T, W), NEW i \in 1 .. Len(s), s[i] \in T,
                      \A j \in 1 .. Len(s) : s[j] \in T => j <= i
               PROVE  s[i] \in W
    BY DEF LastIs
  <2>1. \A j \in 1 .. Len(b) : b[j] \in T => j <= i
    BY <1>2
  <2> QED
    BY <2>1, <1>3 DEF LastIs
<1>6. LastIs(s, T, W) => LastIs(b, T, W)
  <2> SUFFICES ASSUME LastIs(s, T, W), NEW i \in 1 .. Len(b), b[i] \in T,
                      \A j \in 1 .. Len(b) : b[j] \in T => j <= i
               PROVE  b[i] \in W
    BY DEF LastIs
  <2>1. \A j \in 1 .. Len(s) : s[j] \in T => j <= i
    BY <1>3
  <2> QED
    BY <2>1, <1>2 DEF LastIs
<1> QED
  BY <1>4, <1>5, <1>6 DEF b

LEMMA AppendLast ==
  ASSUME NEW S, NEW s \in Seq(S), NEW x \in S, NEW T, NEW W, x \in T, x \in W
  PROVE  ~ Nothing(Append(s, x), T) /\ LastIs(Append(s, x), T, W)
<1> DEFINE b == Append(s, x)
<1>1. Len(b) = Len(s) + 1 /\ Len(s) \in Nat /\ b[Len(s) + 1] = x
  BY AppendProperties
<1> HIDE DEF b
<1>2. Len(b) \in 1 .. Len(b) /\ b[Len(b)] = x
  BY <1>1
<1>3. ~ Nothing(b, T)
  BY <1>2 DEF Nothing
<1>4. \A i \in 1 .. Len(b) : Len(b) <= i => i = Len(b)
  BY <1>1
<1>5. LastIs(b, T, W)
  BY <1>2, <1>4 DEF LastIs
<1> QED
  BY <1>3, <1>5 DEF b

LEMMA TailLast ==
  ASSUME NEW S, NEW s \in Seq(S), s # <<>>, NEW T, NEW W
  PROVE  /\ LastIs(s, T, W) => LastIs(Tail(s), T, W)
         /\ Nothing(Tail(s), T) /\ s[1] \notin T => Nothing(s, T)
         /\ Nothing(Tail(s), T) /\ s[1] \in T /\ LastIs(s, T, W) => s[1] \in W
<1> DEFINE b == Tail(s)
<1>1. /\ Len(b) = Len(s) - 1 /\ Len(s) \in Nat \ {0}
      /\ \A i \in 1 .. Len(b) : b[i] = s[i + 1]
  BY HeadTailProperties, EmptySeq
<1> HIDE DEF b
<1>2. \A i \in 1 .. Len(b) : i + 1 \in 1 .. Len(s) /\ b[i] = s[i + 1]
  BY <1>1
<1>3. \A i \in 1 .. Len(s) : i = 1 \/ (i - 1 \in 1 .. Len(b) /\ b[i - 1] = s[i])
  BY <1>1
<1>4. LastIs(s, T, W) => LastIs(b, T, W)
  <2> SUFFICES ASSUME LastIs(s, T, W), NEW i \in 1 .. Len(b), b[i] \in T,
                      \A j \in 1 .. Len(b) : b[j] \in T => j <= i
               PROVE  b[i] \in W
    BY DEF LastIs
  <2>1. ASSUME NEW j \in 1 .. Len(s), s[j] \in T PROVE j <= i + 1
    <3>1. CASE j = 1
      BY <3>1
    <3>2. CASE j - 1 \in 1 .. Len(b) /\ b[j - 1] = s[j]
      <4>1. j - 1 <= i
        BY <3>2, <2>1
      <4> QED
        BY <4>1
    <3> QED
      BY <3>1, <3>2, <1>3
  <2>2. i + 1 \in 1 .. Len(s) /\ s[i + 1] = b[i]
    BY <1>2
  <2> QED
    BY <2>1, <2>2 DEF LastIs
<1>5. Nothing(b, T) /\ s[1] \notin T => Nothing(s, T)
  BY <1>3 DEF Nothing
<1>6. ASSUME Nothing(b, T), s[1] \in T, LastIs(s, T, W) PROVE s[1] \in W
  <2>1. \A j \in 1 .. Len(s) : s[j] \in T => j <= 1
    BY <1>3, <1>6, <1>1 DEF Nothing
  <2>2. 1 \in 1 .. Len(s)
    BY <1>1
  <2> QED
    BY <2>1, <2>2, <1>6 DEF LastIs
<1> QED
  BY <1>4, <1>5, <1>6 DEF b

--------------------------------------------------------------------------------
KeyEvents == {e \in Events : KeyEvent(e)}
About(k) == {e \in KeyEvents : e.key = k}
Downs == {e \in KeyEvents : e.is = "KeyDown"}
Ups == {e \in KeyEvents : e.is = "KeyUp"}

\* The events after which the keys in d are down, if no two were down together.
Tells(d) == {e \in KeyEvents : d = IF e.is = "KeyDown" THEN {e.key} ELSE {}}

KeyReports == {r \in Reports : r.is = "keys"}
Shows(d) == {r \in KeyReports : r.pressed = d}

OneKey == ~ chord => \A k, l \in down : k = l

\* The polled events and the queue together say which keys are down.
QueueIsExact ==
  \A k \in Keys :
     /\ Nothing(queue, About(k)) => (k \in down <=> k \in holding)
     /\ k \in down => LastIs(queue, About(k), Downs)
     /\ k \notin down => LastIs(queue, About(k), Ups)

\* Without a chord, the last event about any key says it all.
QueueTells == ~ chord => LastIs(queue, KeyEvents, Tells(down))

\* Once the queue holds no more of them, so does the last report on its way, and
\* when there is none the client knows.
ClientWillKnow ==
  conn = "open" /\ clean /\ ~ chord /\ (\A k \in down : k < ReportKeys)
    /\ Nothing(queue, KeyEvents)
  => /\ LastIs(Append(out, held), KeyReports, Shows(down))
     /\ Nothing(Append(out, held), KeyReports) => seen = down

\* The inductive invariant of the keys.
KeysInv == StreamInv /\ OneKey /\ QueueIsExact /\ QueueTells /\ ClientWillKnow

LEMMA KeysInit == Init => KeysInv
<1> SUFFICES ASSUME Init PROVE KeysInv
  OBVIOUS
<1>1. /\ down = {} /\ holding = {} /\ queue = <<>> /\ conn = "none" /\ Len(queue) = 0
  BY DEF Init
<1>2. \A T, W : Nothing(queue, T) /\ LastIs(queue, T, W)
  BY <1>1 DEF Nothing, LastIs
<1> QED
  BY <1>1, <1>2, StreamInit DEF KeysInv, OneKey, QueueIsExact, QueueTells, ClientWillKnow

\* An event about key k joins the queue.
LEMMA EmitKey ==
  ASSUME KeysInv, NEW k \in Keys, NEW e \in KeyEvents, e.key = k, Emit(e),
         \/ e.is = "KeyDown" /\ down' = down \cup {k}
         \/ e.is = "KeyUp" /\ down' = down \ {k}
  PROVE  QueueIsExact' /\ ClientWillKnow' /\ (e \in Tells(down') => QueueTells')
<1>1. /\ queue \in Seq(Events) /\ queue' = Append(queue, e) /\ holding' = holding /\ e \in Events
  BY DEF KeysInv, StreamInv, TypeOK, Emit, KeyEvents
<1>2. ASSUME NEW l \in Keys
      PROVE  /\ Nothing(queue', About(l)) => (l \in down' <=> l \in holding')
             /\ l \in down' => LastIs(queue', About(l), Downs)
             /\ l \notin down' => LastIs(queue', About(l), Ups)
  <2>1. CASE l = k
    <3>1. e \in About(l)
      BY <2>1 DEF About
    <3>2. (l \in down' => e \in Downs) /\ (l \notin down' => e \in Ups)
      BY <2>1 DEF Downs, Ups
    <3>3. ~ Nothing(queue', About(l))
      BY <1>1, <3>1, AppendLast
    <3>4. l \in down' => LastIs(queue', About(l), Downs)
      BY <1>1, <3>1, <3>2, AppendLast
    <3>5. l \notin down' => LastIs(queue', About(l), Ups)
      BY <1>1, <3>1, <3>2, AppendLast
    <3> QED
      BY <3>3, <3>4, <3>5
  <2>2. CASE l # k
    <3>1. e \notin About(l) /\ (l \in down' <=> l \in down)
      BY <2>2 DEF About
    <3>2. Nothing(queue', About(l)) <=> Nothing(queue, About(l))
      BY <1>1, <3>1, AppendOther
    <3>3. LastIs(queue', About(l), Downs) <=> LastIs(queue, About(l), Downs)
      BY <1>1, <3>1, AppendOther
    <3>4. LastIs(queue', About(l), Ups) <=> LastIs(queue, About(l), Ups)
      BY <1>1, <3>1, AppendOther
    <3> QED
      BY <1>1, <3>1, <3>2, <3>3, <3>4 DEF KeysInv, QueueIsExact
  <2> QED
    BY <2>1, <2>2
<1>3. ~ Nothing(queue', KeyEvents)
  BY <1>1, AppendLast
<1>4. e \in Tells(down') => LastIs(queue', KeyEvents, Tells(down'))
  BY <1>1, AppendLast
<1>5. QueueIsExact'
  BY <1>2 DEF QueueIsExact
<1>6. ClientWillKnow'
  BY <1>3 DEF ClientWillKnow
<1> QED
  BY <1>4, <1>5, <1>6 DEF QueueTells

\* Polling an event about a key, or another one.
LEMMA PollKeeps ==
  ASSUME KeysInv, PollEvent, queue # <<>>
  PROVE  QueueIsExact' /\ QueueTells' /\ ClientWillKnow'
<1> DEFINE e == queue[1]
           r == EncodeSurfaceEvent(Head(queue), polled + 1)
<1>1. /\ queue \in Seq(Events) /\ out \in Seq(Items) /\ holding \subseteq Keys /\ polled \in Nat
      /\ polled + Len(queue) <= MaxEvents
      /\ held = None
  BY DEF KeysInv, StreamInv, TypeOK, Items, PollEvent
<1>2. Len(queue) \in Nat \ {0} /\ Head(queue) = e /\ e \in Events /\ polled + 1 \in 1 .. MaxEvents
  BY <1>1, EmptySeq, EmbeddedAssumption
<1>3. /\ queue' = Tail(queue) /\ holding' = After(e, holding) /\ held' = r
      /\ UNCHANGED <<down, chord, conn, out, seen, clean>>
  BY <1>2 DEF PollEvent, deckVars, clientVars
<1>4. /\ r \in Reports /\ r # None
      /\ (r.is = "keys") = KeyEvent(e)
      /\ e.is = "KeyDown" => r.pressed = {IF e.key <= ReportKeys - 1 THEN e.key ELSE ReportKeys - 1}
      /\ e.is = "KeyUp" => r.pressed = {}
  BY <1>2, EncodeTyped
<1> HIDE DEF e, r
<1>5. ASSUME NEW k \in Keys
      PROVE  /\ Nothing(queue', About(k)) => (k \in down' <=> k \in holding')
             /\ k \in down' => LastIs(queue', About(k), Downs)
             /\ k \notin down' => LastIs(queue', About(k), Ups)
  <2>1. /\ LastIs(queue, About(k), Downs) => LastIs(queue', About(k), Downs)
        /\ LastIs(queue, About(k), Ups) => LastIs(queue', About(k), Ups)
    BY <1>1, <1>3, TailLast
  <2>2. ASSUME Nothing(queue', About(k)) PROVE k \in down <=> k \in holding'
    <3>1. CASE e \in About(k)
      <4>1. k \in down => e \in Downs
        BY <2>2, <3>1, <1>1, <1>3, TailLast DEF KeysInv, QueueIsExact, e
      <4>2. k \notin down => e \in Ups
        BY <2>2, <3>1, <1>1, <1>3, TailLast DEF KeysInv, QueueIsExact, e
      <4>3. e.key = k
        BY <3>1 DEF About
      <4> QED
        BY <4>1, <4>2, <4>3, <1>3 DEF Downs, Ups, After
    <3>2. CASE e \notin About(k)
      <4>1. Nothing(queue, About(k))
        BY <2>2, <3>2, <1>1, <1>3, TailLast DEF e
      <4>2. k \in down <=> k \in holding
        BY <4>1 DEF KeysInv, QueueIsExact
      <4>3. e.is \in {"KeyDown", "KeyUp"} => e.key # k
        BY <3>2, <1>2 DEF About, KeyEvents, KeyEvent
      <4> QED
        BY <4>2, <4>3, <1>3 DEF After
    <3> QED
      BY <3>1, <3>2
  <2> QED
    BY <2>1, <2>2, <1>3 DEF KeysInv, QueueIsExact
<1>6. QueueTells'
  BY <1>1, <1>3, TailLast DEF KeysInv, QueueTells
<1>7. ASSUME conn = "open", clean, ~ chord, \A k \in down : k < ReportKeys, Nothing(queue', KeyEvents)
      PROVE  /\ LastIs(Append(out, r), KeyReports, Shows(down))
             /\ Nothing(Append(out, r), KeyReports) => seen = down
  <2>0. r \in Items /\ None \in Items /\ None \notin KeyReports
    BY <1>4, EmbeddedAssumption DEF Items, KeyReports
  <2>1. CASE e \in KeyEvents
    <3>1. e \in Tells(down)
      BY <1>7, <2>1, <1>1, <1>3, TailLast DEF KeysInv, QueueTells, e
    <3>2. r \in KeyReports
      BY <1>4, <2>1 DEF KeyReports, KeyEvents
    <3>3. r.pressed = down
      <4>1. CASE e.is = "KeyDown"
        <5>1. down = {e.key} /\ e.key \in Nat
          BY <4>1, <3>1, <1>2, <2>1, EventTyped DEF Tells, KeyEvents
        <5>2. e.key <= ReportKeys - 1
          BY <5>1, <1>7, EmbeddedAssumption
        <5> QED
          BY <4>1, <5>1, <5>2, <1>4
      <4>2. CASE e.is = "KeyUp"
        BY <4>2, <3>1, <1>4 DEF Tells
      <4> QED
        BY <4>1, <4>2, <2>1 DEF KeyEvents, KeyEvent
    <3>4. r \in Shows(down)
      BY <3>2, <3>3 DEF Shows
    <3> QED
      BY <3>2, <3>4, <2>0, <1>1, AppendLast
  <2>2. CASE e \notin KeyEvents
    <3>1. Nothing(queue, KeyEvents)
      BY <1>7, <2>2, <1>1, <1>3, TailLast DEF e
    <3>2. /\ LastIs(Append(out, None), KeyReports, Shows(down))
          /\ Nothing(Append(out, None), KeyReports) => seen = down
      BY <1>7, <3>1, <1>1 DEF KeysInv, ClientWillKnow
    <3>3. r \notin KeyReports
      BY <1>4, <1>2, <2>2 DEF KeyReports, KeyEvents
    <3>4. LastIs(out, KeyReports, Shows(down)) /\ (Nothing(out, KeyReports) => seen = down)
      BY <3>2, <2>0, <1>1, AppendOther
    <3> QED
      BY <3>3, <3>4, <2>0, <1>1, AppendOther
  <2> QED
    BY <2>1, <2>2
<1>8. ClientWillKnow'
  BY <1>7, <1>3 DEF ClientWillKnow
<1>9. QueueIsExact'
  BY <1>5 DEF QueueIsExact
<1> QED
  BY <1>6, <1>8, <1>9

LEMMA KeysStep == KeysInv /\ [Next]_vars => KeysInv'
<1> SUFFICES ASSUME KeysInv, [Next]_vars PROVE KeysInv'
  OBVIOUS
<1> USE DEF deckVars, loopVars, clientVars, pollVars
<1>0. /\ StreamInv' /\ StreamInv /\ TypeOK
      /\ OneKey /\ QueueIsExact /\ QueueTells /\ ClientWillKnow
  BY StreamStep DEF KeysInv, StreamInv
<1>1. ASSUME UNCHANGED deckVars PROVE OneKey'
  BY <1>0, <1>1 DEF OneKey
<1>2. ASSUME UNCHANGED <<deckVars, queue, holding>> PROVE OneKey' /\ QueueIsExact' /\ QueueTells'
  BY <1>0, <1>2 DEF OneKey, QueueIsExact, QueueTells
<1>3. ASSUME conn' # "open" PROVE ClientWillKnow'
  BY <1>3 DEF ClientWillKnow
<1>4. ASSUME UNCHANGED <<deckVars, queue, conn, clean, out, held, seen>> PROVE ClientWillKnow'
  BY <1>0, <1>4 DEF ClientWillKnow
<1>5. ASSUME NEW k \in Keys, Press(k) PROVE KeysInv'
  <2> DEFINE e == Event("KeyDown", k)
  <2>1. e \in KeyEvents /\ e.key = k /\ e.is = "KeyDown"
    BY DEF Event, Events, KeyEvents, KeyEvent
  <2>2. Emit(e) /\ down' = down \cup {k}
    BY <1>5 DEF Press
  <2> HIDE DEF e
  <2>3. ~ chord' => down' = {k}
    BY <1>5, <2>2 DEF Press
  <2>4. ~ chord' => e \in Tells(down')
    BY <2>1, <2>3 DEF Tells
  <2>5. QueueIsExact' /\ ClientWillKnow' /\ (e \in Tells(down') => QueueTells')
    BY <2>1, <2>2, EmitKey
  <2>6. QueueTells' /\ OneKey'
    BY <2>3, <2>4, <2>5 DEF QueueTells, OneKey
  <2> QED
    BY <1>0, <2>5, <2>6 DEF KeysInv
<1>6. ASSUME NEW k \in Keys, Release(k) PROVE KeysInv'
  <2> DEFINE e == Event("KeyUp", k)
  <2>1. e \in KeyEvents /\ e.key = k /\ e.is = "KeyUp"
    BY DEF Event, Events, KeyEvents, KeyEvent
  <2>2. Emit(e) /\ down' = down \ {k} /\ k \in down
    BY <1>6 DEF Release
  <2> HIDE DEF e
  <2>3. ~ chord' => down' = {}
    <3>1. CASE chord
      BY <3>1, <1>6 DEF Release
    <3>2. CASE ~ chord
      BY <3>2, <1>0, <2>2 DEF OneKey
    <3> QED
      BY <3>1, <3>2
  <2>4. ~ chord' => e \in Tells(down')
    BY <2>1, <2>3 DEF Tells
  <2>5. QueueIsExact' /\ ClientWillKnow' /\ (e \in Tells(down') => QueueTells')
    BY <2>1, <2>2, EmitKey
  <2>6. QueueTells' /\ OneKey'
    BY <2>3, <2>4, <2>5 DEF QueueTells, OneKey
  <2> QED
    BY <1>0, <2>5, <2>6 DEF KeysInv
<1>7. ASSUME NEW is \in Others, Turn(is) PROVE KeysInv'
  <2> DEFINE e == Event(is, 0)
  <2>1. e \in Events /\ e.is = is
    BY DEF Event, Events
  <2>2. Emit(e) /\ UNCHANGED deckVars
    BY <1>7 DEF Turn
  <2> HIDE DEF e
  <2>3. e \notin KeyEvents /\ \A k \in Keys : e \notin About(k)
    BY <2>1, EmbeddedAssumption DEF KeyEvents, KeyEvent, About
  <2>4. /\ queue \in Seq(Events) /\ queue' = Append(queue, e)
        /\ UNCHANGED <<holding, conn, clean, out, held, seen, down, chord>>
    BY <1>0, <2>2 DEF TypeOK, Emit
  <2>5. \A T, W : e \notin T => /\ Nothing(queue', T) <=> Nothing(queue, T)
                               /\ LastIs(queue', T, W) <=> LastIs(queue, T, W)
    BY <2>1, <2>4, AppendOther
  <2>6. QueueIsExact'
    BY <1>0, <2>3, <2>4, <2>5 DEF QueueIsExact
  <2>7. QueueTells'
    BY <1>0, <2>3, <2>4, <2>5 DEF QueueTells
  <2>8. ClientWillKnow'
    <3>1. Nothing(queue', KeyEvents) <=> Nothing(queue, KeyEvents)
      BY <2>1, <2>3, <2>4, AppendOther
    <3> QED
      BY <1>0, <2>4, <3>1 DEF ClientWillKnow
  <2> QED
    BY <1>0, <1>1, <2>2, <2>6, <2>7, <2>8 DEF KeysInv
<1>8. CASE Connect
  <2>1. /\ UNCHANGED <<deckVars, queue, holding>> /\ out' = <<>> /\ held' = None /\ seen' = {}
        /\ clean' = (holding = {})
    BY <1>8 DEF Connect
  <2>2. ASSUME clean', Nothing(queue, KeyEvents) PROVE seen' = down
    <3>1. \A k \in Keys : Nothing(queue, About(k))
      BY <2>2 DEF Nothing, About
    <3>2. down \subseteq Keys /\ holding = {}
      BY <1>0, <2>1, <2>2 DEF TypeOK
    <3> QED
      BY <1>0, <2>1, <3>1, <3>2 DEF QueueIsExact
  <2>3. Nothing(Append(out', held'), KeyReports)
    <3>1. <<>> \in Seq(Items) /\ Len(<<>>) = 0 /\ None \in Items /\ None \notin KeyReports
      BY EmbeddedAssumption DEF Items, KeyReports
    <3>2. Nothing(<<>>, KeyReports)
      BY <3>1 DEF Nothing
    <3> QED
      BY <2>1, <3>1, <3>2, AppendOther
  <2>4. LastIs(Append(out', held'), KeyReports, Shows(down'))
    BY <2>3, NothingLast
  <2>5. ClientWillKnow'
    BY <2>1, <2>2, <2>3, <2>4 DEF ClientWillKnow
  <2> QED
    BY <1>0, <1>2, <2>1, <2>5 DEF KeysInv
<1>9. CASE SendFrame \/ (\E n \in 1 .. unread : Read(n))
  BY <1>0, <1>2, <1>4, <1>9 DEF SendFrame, Read, KeysInv
<1>10. CASE CloseClient \/ ReadEnd
  BY <1>0, <1>2, <1>3, <1>10 DEF CloseClient, ReadEnd, KeysInv
<1>11. CASE Receive
  <2>1. /\ UNCHANGED <<deckVars, queue, holding, conn, clean, held>> /\ out' = Tail(out) /\ out # <<>>
        /\ out \in Seq(Items) /\ held \in Items
        /\ seen' = IF Head(out) # None /\ Head(out).is = "keys" THEN Head(out).pressed ELSE seen
    BY <1>11, <1>0 DEF Receive, TypeOK, Items
  <2> DEFINE a == Append(out, held)
  <2>2. a \in Seq(Items) /\ a # <<>> /\ a[1] = Head(out) /\ Tail(a) = Append(Tail(out), held)
    <3>1. a \in Seq(Items) /\ a # <<>>
      BY <2>1, AppendProperties
    <3>2. Len(out) \in Nat \ {0}
      BY <2>1, EmptySeq
    <3> QED
      BY <3>1, <3>2, <2>1
  <2>3. a[1] \in Items
    BY <2>1, <2>2, HeadTailProperties
  <2>4. Append(out', held') = Tail(a)
    BY <2>1, <2>2
  <2>5. ASSUME conn = "open", clean, ~ chord, \A k \in down : k < ReportKeys, Nothing(queue, KeyEvents)
        PROVE  /\ LastIs(Tail(a), KeyReports, Shows(down))
               /\ Nothing(Tail(a), KeyReports) => seen' = down
    <3>1. LastIs(a, KeyReports, Shows(down)) /\ (Nothing(a, KeyReports) => seen = down)
      BY <1>0, <2>5 DEF ClientWillKnow
    <3> HIDE DEF a
    <3>2. LastIs(Tail(a), KeyReports, Shows(down))
      BY <3>1, <2>2, TailLast
    <3>3. ASSUME Nothing(Tail(a), KeyReports) PROVE seen' = down
      <4>1. CASE a[1] \in KeyReports
        <5>1. a[1] \in Shows(down)
          BY <4>1, <3>1, <3>3, <2>2, TailLast
        <5>2. a[1] # None
          BY <4>1, EmbeddedAssumption DEF KeyReports
        <5> QED
          BY <5>1, <5>2, <2>1, <2>2 DEF Shows, KeyReports
      <4>2. CASE a[1] \notin KeyReports
        <5>1. Nothing(a, KeyReports)
          BY <4>2, <3>3, <2>2, TailLast
        <5>2. seen' = seen
          BY <4>2, <2>1, <2>2, <2>3 DEF KeyReports, Items
        <5> QED
          BY <5>1, <5>2, <3>1
      <4> QED
        BY <4>1, <4>2
    <3> QED
      BY <3>2, <3>3
  <2> HIDE DEF a
  <2>6. ClientWillKnow'
    BY <2>1, <2>4, <2>5 DEF ClientWillKnow
  <2> QED
    BY <1>0, <1>2, <2>1, <2>6 DEF KeysInv
<1>12. CASE Answer \/ Push
  <2>1. /\ UNCHANGED <<deckVars, queue, holding, clean, seen>> /\ held' = None /\ held \in Items
        /\ Write(held) /\ None \in Items /\ None \notin KeyReports
    <3>1. CASE Answer
      <4>1. held = None
        BY <3>1, <1>0 DEF Answer, TypeOK
      <4> QED
        BY <3>1, <4>1, EmbeddedAssumption DEF Answer, Items, KeyReports
    <3>2. CASE Push
      BY <3>2, <1>0, EmbeddedAssumption DEF Push, TypeOK, Items, KeyReports
    <3> QED
      BY <1>12, <3>1, <3>2
  <2>2. /\ conn' \in {"none", "open"}
        /\ conn' = "open" => conn = "open" /\ out' = Append(out, held)
    BY <1>0, <2>1, WriteKeepsOrder
  <2>3. ASSUME conn' = "open" PROVE ClientWillKnow'
    <3> DEFINE a == Append(out, held)
    <3>1. a \in Seq(Items) /\ conn = "open" /\ Append(out', held') = Append(a, None)
      BY <2>1, <2>2, <2>3, <1>0, AppendProperties DEF TypeOK, Items
    <3>2. ClientWillKnow
      BY <1>0
    <3>3. clean /\ ~ chord /\ (\A k \in down : k < ReportKeys) /\ Nothing(queue, KeyEvents)
          => /\ LastIs(a, KeyReports, Shows(down))
             /\ Nothing(a, KeyReports) => seen = down
      BY <3>1, <3>2 DEF ClientWillKnow
    <3> HIDE DEF a
    <3>4. /\ LastIs(Append(a, None), KeyReports, Shows(down)) <=> LastIs(a, KeyReports, Shows(down))
          /\ Nothing(Append(a, None), KeyReports) <=> Nothing(a, KeyReports)
      BY <3>1, <2>1, AppendOther
    <3> QED
      BY <2>1, <3>1, <3>3, <3>4 DEF ClientWillKnow
  <2> QED
    BY <1>0, <1>2, <1>3, <2>1, <2>3 DEF KeysInv
<1>13. CASE PollEvent
  <2>1. CASE queue = <<>>
    BY <1>0, <1>2, <1>4, <1>13, <2>1 DEF PollEvent, KeysInv
  <2>2. CASE queue # <<>>
    BY <1>0, <1>1, <1>13, <2>2, PollKeeps DEF PollEvent, KeysInv
  <2> QED
    BY <2>1, <2>2
<1>14. CASE UNCHANGED vars
  BY <1>0, <1>2, <1>4, <1>14 DEF vars, KeysInv
<1> QED
  BY <1>5, <1>6, <1>7, <1>8, <1>9, <1>10, <1>11, <1>12, <1>13, <1>14 DEF Next, Loop

\* A client that has heard everything knows which keys are down, for any deck whose
\* keys fit a report, as long as no two are down together (encode_surface_event,
\* bridge.rs:284-300 of the embedded crate).
THEOREM ClientsKnowTheKeys == Spec => []ClientKnowsKeys
<1>1. KeysInv => ClientKnowsKeys
  <2> SUFFICES ASSUME KeysInv, conn = "open", heard = polled + Len(queue), clean, ~ chord,
                      \A k \in down : k < ReportKeys
               PROVE  seen = down
    BY DEF ClientKnowsKeys
  <2> DEFINE a == Append(out, held)
  <2>1. /\ queue \in Seq(Events) /\ out \in Seq(Items) /\ held \in Items
        /\ polled \in Nat /\ heard \in 0 .. polled
    BY DEF KeysInv, StreamInv, TypeOK, Items
  <2>2. Len(queue) = 0 /\ heard = polled
    BY <2>1
  <2>3. Nothing(queue, KeyEvents)
    BY <2>2 DEF Nothing
  <2>4. InOrder(a, polled, polled) /\ a \in Seq(Items)
    BY <2>1, <2>2, AppendProperties DEF KeysInv, StreamInv, NoEventIsLostOnTheWay
  <2>5. Nothing(a, KeyReports) => seen = down
    BY <2>3 DEF KeysInv, ClientWillKnow
  <2> HIDE DEF a
  <2>6. \A i \in 1 .. Len(a) : a[i] # None => a[i].number \in polled + 1 .. polled
    BY <2>1, <2>4, InOrderIs
  <2>7. polled + 1 .. polled = {}
    BY <2>1
  <2>8. Nothing(a, KeyReports)
    BY <2>6, <2>7, EmbeddedAssumption DEF Nothing, KeyReports
  <2> QED
    BY <2>5, <2>8
<1> QED
  BY <1>1, KeysInit, KeysStep, PTL DEF Spec
================================================================================
