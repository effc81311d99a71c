----------------------------- MODULE RequestsProofs ----------------------------
(***************************************************************************)
(* What the frame handlers promise, for any frames, decks and answers of   *)
(* a deck, and any range of connection ids.                                *)
(***************************************************************************)
EXTENDS Requests, SequenceTheorems, TLAPS

--------------------------------------------------------------------------------
(***************************************************************************)
(* Connection ids.                                                         *)
(***************************************************************************)
NextOf(c) == IF c = 0 THEN 1 ELSE c

\* The id given out age connections ago, when c is given out next.
IdBefore(c, age) == IF c > age THEN c - age ELSE c - age + IdSpace - 1

\* The last ids are those before the counter, which leaves out 0.
IdsInv ==
  /\ counter \in 0 .. IdSpace - 1
  /\ ids \in Seq(Nat) /\ Len(ids) < IdSpace
  /\ \A k \in 1 .. Len(ids) : ids[k] = IdBefore(NextOf(counter), Len(ids) + 1 - k)

LEMMA Wraps ==
  ASSUME NEW n \in Nat, n > 2, NEW c \in 1 .. n - 1
  PROVE  /\ (c + 1) % n \in 0 .. n - 1
         /\ NextOf((c + 1) % n) = IF c = n - 1 THEN 1 ELSE c + 1
<1>1. CASE c = n - 1
  <2>1. c + 1 = n /\ n % n = 0
    BY <1>1
  <2> QED
    BY <2>1, <1>1 DEF NextOf
<1>2. CASE c # n - 1
  <2>1. (c + 1) % n = c + 1
    BY <1>2
  <2> QED
    BY <2>1, <1>2 DEF NextOf
<1> QED
  BY <1>1, <1>2

LEMMA OneOlder ==
  ASSUME NEW c \in 1 .. IdSpace - 1, NEW d, d = IF c = IdSpace - 1 THEN 1 ELSE c + 1
  PROVE  /\ IdBefore(d, 1) = c
         /\ \A a \in 1 .. IdSpace - 2 : IdBefore(d, a + 1) = IdBefore(c, a)
<1>1. IdSpace \in Nat /\ IdSpace > 2
  BY RequestsAssumption
<1>2. CASE c = IdSpace - 1
  BY <1>1, <1>2 DEF IdBefore
<1>3. CASE c # IdSpace - 1
  BY <1>1, <1>3 DEF IdBefore
<1> QED
  BY <1>2, <1>3

LEMMA IdsStep == IdsInv /\ [Next]_vars => IdsInv'
<1> SUFFICES ASSUME IdsInv, [Next]_vars
             PROVE  IdsInv'
  OBVIOUS
<1>1. ASSUME NEW p \in Ports, AcceptPrimary(p)
      PROVE  IdsInv'
  <2> DEFINE n == Len(ids)
             c == NextOf(counter)
             kept == IF n = IdSpace - 1 THEN Tail(ids) ELSE ids
             m == Len(kept)
             next == ids'
             d == NextOf(counter')
  <2>0. IdSpace \in Nat /\ IdSpace > 2 /\ n \in Nat /\ n < IdSpace /\ ids \in Seq(Nat)
    BY RequestsAssumption DEF IdsInv
  <2>1. counter \in 0 .. IdSpace - 1 /\ c \in 1 .. IdSpace - 1
    BY <2>0 DEF IdsInv, NextOf
  <2>2. next = kept \o <<c>> /\ counter' = (c + 1) % IdSpace
    BY <1>1 DEF AcceptPrimary, NextConnectionId, NextOf
  <2>3. counter' \in 0 .. IdSpace - 1 /\ d = IF c = IdSpace - 1 THEN 1 ELSE c + 1
    <3> HIDE DEF c
    <3> QED
      BY <2>0, <2>1, <2>2, Wraps
  <2>4. \A k \in 1 .. n : ids[k] = IdBefore(c, n + 1 - k)
    BY DEF IdsInv
  <2> HIDE DEF c, d, next
  <2>5. /\ kept \in Seq(Nat) /\ m \in Nat /\ m <= IdSpace - 2
        /\ \A k \in 1 .. m : kept[k] = IdBefore(c, m + 1 - k)
    <3>1. CASE n = IdSpace - 1
      <4>1. ids # <<>>
        BY <3>1, <2>0
      <4>2. kept = Tail(ids)
        BY <3>1
      <4>3. Tail(ids) \in Seq(Nat) /\ Len(Tail(ids)) = n - 1 /\ \A k \in 1 .. n - 1 : Tail(ids)[k] = ids[k + 1]
        BY <4>1, <2>0
      <4> HIDE DEF kept
      <4>4. m = n - 1 /\ m \in Nat /\ m <= IdSpace - 2
        BY <4>2, <4>3, <3>1, <2>0
      <4>5. ASSUME NEW k \in 1 .. m
            PROVE  kept[k] = IdBefore(c, m + 1 - k)
        <5>1. k + 1 \in 1 .. n /\ n + 1 - (k + 1) = m + 1 - k /\ k \in 1 .. n - 1
          BY <4>4, <2>0
        <5>2. kept[k] = ids[k + 1]
          BY <5>1, <4>2, <4>3
        <5>3. ids[k + 1] = IdBefore(c, n + 1 - (k + 1))
          BY <5>1, <2>4
        <5> QED
          BY <5>1, <5>2, <5>3
      <4> QED
        BY <4>2, <4>3, <4>4, <4>5
    <3>2. CASE n # IdSpace - 1
      <4>1. kept = ids
        BY <3>2
      <4> QED
        BY <4>1, <3>2, <2>0, <2>4
    <3> QED
      BY <3>1, <3>2
  <2> HIDE DEF kept
  <2>6. /\ next \in Seq(Nat) /\ Len(next) = m + 1
        /\ \A k \in 1 .. m : next[k] = kept[k]
        /\ next[m + 1] = c
    BY <2>1, <2>2, <2>5
  <2>7. ASSUME NEW k \in 1 .. m + 1
        PROVE  next[k] = IdBefore(d, m + 2 - k)
    <3>1. CASE k = m + 1
      <4>1. m + 2 - k = 1 /\ next[k] = c
        BY <3>1, <2>5, <2>6
      <4> QED
        BY <4>1, <2>1, <2>3, OneOlder
    <3>2. CASE k \in 1 .. m
      <4> DEFINE a == m + 1 - k
      <4>1. a \in 1 .. IdSpace - 2 /\ m + 2 - k = a + 1
        BY <3>2, <2>0, <2>5
      <4>2. next[k] = IdBefore(c, a)
        BY <3>2, <2>5, <2>6
      <4> HIDE DEF a
      <4>3. IdBefore(d, a + 1) = IdBefore(c, a)
        BY <4>1, <2>1, <2>3, OneOlder
      <4> QED
        BY <4>1, <4>2, <4>3
    <3> QED
      BY <3>1, <3>2, <2>5
  <2> DEFINE l == Len(next)
  <2>8. l = m + 1 /\ l < IdSpace
    BY <2>0, <2>5, <2>6
  <2>9. \A k \in 1 .. l : next[k] = IdBefore(d, l + 1 - k)
    <3> TAKE k \in 1 .. l
    <3>1. k \in 1 .. m + 1 /\ m + 2 - k = l + 1 - k
      BY <2>5, <2>8
    <3> QED
      BY <3>1, <2>7
  <2> QED
    BY <2>3, <2>6, <2>8, <2>9 DEF IdsInv, next, d
<1>2. CASE UNCHANGED <<counter, ids>>
  BY <1>2 DEF IdsInv
<1>3. ASSUME NEW p \in Ports, AcceptOther(p)
      PROVE  UNCHANGED <<counter, ids>>
  BY <1>3 DEF AcceptOther
<1>4. ASSUME NEW f \in Frames, NEW data \in UsbData \cup {Failed}, Handle(f, data)
      PROVE  UNCHANGED <<counter, ids>>
  BY <1>4 DEF Handle
<1>5. CASE Finish
  BY <1>5, <1>2 DEF Finish
<1>6. CASE UNCHANGED vars
  BY <1>6, <1>2 DEF vars
<1> QED
  BY <1>1, <1>2, <1>3, <1>4, <1>5, <1>6 DEF Next

LEMMA IdsInit == Init => IdsInv
  BY RequestsAssumption DEF Init, IdsInv

\* No two connections among the last IdSpace - 1 (255 for the AtomicU8) have the
\* same id, and none has id 0 (dock.rs:97-104).
THEOREM IdsDiffer == Spec => []ConnectionIdsDiffer
<1>1. IdsInv => ConnectionIdsDiffer
  <2> SUFFICES ASSUME IdsInv, NEW j \in 1 .. Len(ids), NEW k \in 1 .. Len(ids)
               PROVE  ids[j] # 0 /\ (j # k => ids[j] # ids[k])
    BY DEF ConnectionIdsDiffer, IdsInv
  <2> DEFINE n == Len(ids)
             c == NextOf(counter)
             a == n + 1 - j
             b == n + 1 - k
  <2>1. /\ IdSpace \in Nat /\ IdSpace > 2 /\ n \in Nat /\ n < IdSpace
        /\ c \in 1 .. IdSpace - 1
    <3>1. IdSpace \in Nat /\ IdSpace > 2 /\ n \in Nat /\ n < IdSpace
      BY RequestsAssumption DEF IdsInv
    <3>2. c \in 1 .. IdSpace - 1
      BY <3>1 DEF IdsInv, NextOf
    <3> QED
      BY <3>1, <3>2
  <2>2. ids[j] = IdBefore(c, a) /\ ids[k] = IdBefore(c, b)
    BY DEF IdsInv
  <2> HIDE DEF n, c
  <2>3. a \in 1 .. IdSpace - 1 /\ b \in 1 .. IdSpace - 1 /\ (j # k => a # b)
    BY <2>1 DEF n
  <2> HIDE DEF a, b
  <2> QED
    BY <2>1, <2>2, <2>3 DEF IdBefore
<1> QED
  BY <1>1, IdsInit, IdsStep, PTL DEF Spec

--------------------------------------------------------------------------------
(***************************************************************************)
(* What a connection knows of its deck.                                    *)
(***************************************************************************)
PortInv ==
  /\ port \in Ports \cup {None}
  /\ deck \in {None, Slots[OwnSlot]}
  /\ local \in Seq(Bytes) \cup {None}
  /\ port = "dock" => deck = None

LEMMA PortInit == Init => PortInv
  BY DEF Init, PortInv

LEMMA PortStep == PortInv /\ [Next]_vars => PortInv'
<1> SUFFICES ASSUME PortInv, [Next]_vars
             PROVE  PortInv'
  OBVIOUS
<1>1. ASSUME NEW p \in Ports, AcceptPrimary(p)
      PROVE  PortInv'
  BY <1>1, RequestsAssumption DEF AcceptPrimary, PortInv
<1>2. ASSUME NEW p \in Ports, AcceptOther(p)
      PROVE  PortInv'
  BY <1>2 DEF AcceptOther, PortInv
<1>3. CASE UNCHANGED <<port, deck, local>>
  BY <1>3 DEF PortInv
<1>4. ASSUME NEW f \in Frames, NEW data \in UsbData \cup {Failed}, Handle(f, data)
      PROVE  UNCHANGED <<port, deck, local>>
  BY <1>4 DEF Handle
<1>5. CASE Finish
  BY <1>5, <1>3 DEF Finish
<1>6. CASE UNCHANGED vars
  BY <1>6, <1>3 DEF vars
<1> QED
  BY <1>1, <1>2, <1>3, <1>4, <1>5, <1>6 DEF Next

\* Only Handle leaves a frame in hand: a step ends with none, is Handle, or
\* changes nothing.
LEMMA OnlyHandle ==
  ASSUME PortInv, [Next]_vars
  PROVE  \/ frame' = None
         \/ UNCHANGED vars
         \/ \E f \in Frames, data \in UsbData \cup {Failed} :
              /\ port \in Ports
              /\ Handle(f, data)
<1>1. ASSUME NEW p \in Ports, AcceptPrimary(p)
      PROVE  frame' = None
  BY <1>1 DEF AcceptPrimary
<1>2. ASSUME NEW p \in Ports, AcceptOther(p)
      PROVE  frame' = None
  BY <1>2 DEF AcceptOther
<1>3. ASSUME NEW f \in Frames, NEW data \in UsbData \cup {Failed}, Handle(f, data)
      PROVE  port \in Ports
  BY <1>3 DEF Handle, PortInv
<1>4. CASE Finish
  BY <1>4 DEF Finish
<1> QED
  BY <1>1, <1>2, <1>3, <1>4 DEF Next

--------------------------------------------------------------------------------
(***************************************************************************)
(* The shape of what the handlers do.                                      *)
(***************************************************************************)
LEMMA DidFacts ==
  ASSUME NEW r, NEW e
  PROVE  /\ Did(r, e).replies = r /\ Did(r, e).effect = e
         /\ Did(r, e).pushes = {} /\ Did(r, e).alive = TRUE
  BY DEF Did

LEMMA FrameFacts ==
  ASSUME NEW flags, NEW op, NEW id, NEW p
  PROVE  /\ Frame(flags, op, id, p).flags = flags /\ Frame(flags, op, id, p).op = op
         /\ Frame(flags, op, id, p).id = id /\ Frame(flags, op, id, p).payload = p
  BY DEF Frame

LEMMA PayloadFacts ==
  ASSUME NEW h, NEW len
  PROVE  /\ Payload(h, len).head = h /\ Payload(h, len).len = len /\ Payload(h, len).child = None
         /\ \A k : At(Payload(h, len), k) = IF k < Len(h) THEN h[k + 1] ELSE 0
  BY DEF Payload, At

\* One reply to f, with these flags and payload.
Replies(r, f, flags, p) == r.replies = <<Frame(flags, f.op, f.id, p)>>

LEMMA PrimaryAnswerFacts ==
  ASSUME NEW f, NEW data
  PROVE  LET r    == ReportId(f.payload)
             slot == RequestedSlot(f.payload)
             asks == r \notin Local /\ deck # None
             res  == PrimaryAnswer(f, data)
         IN  /\ res.alive = TRUE
             /\ res.effect = IF asks THEN "get" ELSE "none"
             /\ res.pushes = IF IsFirstPoll(f) THEN ChildPushes ELSE {}
             /\ r = 28 => Replies(res, f, {"RESULT"}, BuildPayload(ChildAt(slot), FALSE, slot))
             /\ r # 28 => Replies(res, f, {"RESULT"},
                            Payload(IF asks THEN Aligned(r, data) ELSE DockReport(r, deck, local), LongOr(f, 128)))
  BY DEF PrimaryAnswer, Did, Replies

\* What the bridge says of its own deck.
OwnChild(f, slot) ==
  [BuildPayload(Connected(slot, Slots[OwnSlot], 5344), FALSE, slot) EXCEPT !.len = LongOr(f, 128)]

LEMMA BridgeAnswerFacts ==
  ASSUME NEW f, NEW data
  PROVE  LET own  == Slots[OwnSlot]
             r    == ReportId(f.payload)
             slot == RequestedSlot(f.payload)
             res  == BridgeAnswer(f, data)
         IN  /\ res.alive = TRUE /\ res.pushes = {}
             /\ res.effect = IF r \in {28, 128} THEN "none" ELSE "get"
             /\ r = 28 => Replies(res, f, ResultFlags(f), OwnChild(f, slot))
             /\ r = 128 => Replies(res, f, ResultFlags(f),
                             Payload(DeviceInfo(own.vid, own.pid), LongOr(f, 16)))
             /\ r \notin {28, 128} =>
                  Replies(res, f, ResultFlags(f),
                    IF data = Failed THEN Payload(<<3, r>>, LongOr(f, 32))
                    ELSE Payload(data.head, LongOr(f, data.len)))
  BY DEF BridgeAnswer, Did, Replies, OwnChild

LEMMA BridgeReplies ==
  ASSUME NEW f, NEW data
  PROVE  /\ BridgeAnswer(f, data).alive = TRUE
         /\ \E p : Replies(BridgeAnswer(f, data), f, ResultFlags(f), p)
<1> DEFINE res == BridgeAnswer(f, data)
           r == ReportId(f.payload)
<1>1. res.alive = TRUE
  BY BridgeAnswerFacts
<1>2. r = 28 => \E p : Replies(res, f, ResultFlags(f), p)
  BY BridgeAnswerFacts
<1>3. r = 128 => \E p : Replies(res, f, ResultFlags(f), p)
  BY BridgeAnswerFacts
<1>4. r \notin {28, 128} => \E p : Replies(res, f, ResultFlags(f), p)
  BY BridgeAnswerFacts
<1> QED
  BY <1>1, <1>2, <1>3, <1>4

--------------------------------------------------------------------------------
(***************************************************************************)
(* Who asks is answered, once.                                             *)
(***************************************************************************)
Asks(f) == f.op = "GetReport" \/ f.id # 0 \/ "REQ_ACK" \in f.flags

OneReply(replies, f) ==
  \E g : /\ replies = <<g>> /\ g.id = f.id
         /\ g.flags \cap {"RESULT", "ACK_NAK"} # {}

\* What a handler may do with f, halt allowing it to stop the board.
AnswersOnce(r, f, halt) ==
  /\ r.replies = <<>> \/ OneReply(r.replies, f)
  /\ Asks(f) /\ f.payload.len > 0 /\ ~ IsKeepaliveAck(f.payload) => OneReply(r.replies, f)
  /\ r.alive = TRUE \/ (halt /\ f.payload.len = 0)

LEMMA RepliesOnce ==
  ASSUME NEW r, NEW f, NEW flags, NEW p, NEW halt, Replies(r, f, flags, p), r.alive = TRUE,
         "RESULT" \in flags \/ "ACK_NAK" \in flags
  PROVE  AnswersOnce(r, f, halt)
<1> DEFINE g == Frame(flags, f.op, f.id, p)
<1>1. r.replies = <<g>> /\ g.id = f.id /\ g.flags \cap {"RESULT", "ACK_NAK"} # {}
  BY FrameFacts DEF Replies
<1>2. OneReply(r.replies, f)
  BY <1>1 DEF OneReply
<1> QED
  BY <1>2 DEF AnswersOnce

LEMMA EchoOnce ==
  ASSUME NEW f, NEW halt
  PROVE  AnswersOnce(EchoProbe(f), f, halt)
<1> DEFINE g == KeepaliveAck(At(f.payload, 5), f.id)
           r == EchoProbe(f)
<1>1. r.replies = <<g>> /\ r.alive = TRUE
  BY DidFacts DEF EchoProbe
<1>2. g.id = f.id /\ g.flags = {"ACK_NAK"}
  BY FrameFacts DEF KeepaliveAck
<1> HIDE DEF g, r
<1>3. OneReply(r.replies, f)
  BY <1>1, <1>2 DEF OneReply
<1> QED
  BY <1>1, <1>3 DEF AnswersOnce, r

\* A write is acknowledged when it asks for that.
LEMMA AckOnce ==
  ASSUME NEW f, NEW default, NEW effect, NEW halt, f.op # "GetReport"
  PROVE  AnswersOnce(Did(Acknowledge(f, default), effect), f, halt)
<1> DEFINE p == Payload(<<IF f.payload.len > 0 THEN At(f.payload, 0) ELSE default>>, 1)
           g == Frame(ResultFlags(f), f.op, f.id, p)
           r == Did(Acknowledge(f, default), effect)
<1>1. r.replies = Acknowledge(f, default) /\ r.alive = TRUE
  BY DidFacts
<1>2. CASE WantsAck(f)
  <2>1. Replies(r, f, ResultFlags(f), p)
    BY <1>1, <1>2 DEF Acknowledge, Replies
  <2>2. "RESULT" \in ResultFlags(f)
    BY DEF ResultFlags
  <2> HIDE DEF p, r
  <2> QED
    BY <2>1, <2>2, <1>1, RepliesOnce DEF r
<1>3. CASE ~ WantsAck(f)
  <2>1. r.replies = <<>> /\ ~ Asks(f)
    BY <1>1, <1>3 DEF Acknowledge, WantsAck, Asks
  <2> HIDE DEF r
  <2> QED
    BY <2>1, <1>1 DEF AnswersOnce, r
<1> QED
  BY <1>2, <1>3

LEMMA SilentOnce ==
  ASSUME NEW f, NEW effect, NEW halt, ~ Asks(f) \/ ~ f.payload.len > 0 \/ IsKeepaliveAck(f.payload)
  PROVE  AnswersOnce(Did(<<>>, effect), f, halt)
  BY DidFacts DEF AnswersOnce

LEMMA OutcomeOnce ==
  ASSUME NEW f \in Frames, NEW data, port \in Ports
  PROVE  AnswersOnce(Outcome(f, data), f, port = "deck")
<1> DEFINE halt == port = "deck"
<1>0. f.payload.len \in Nat
  BY RequestsAssumption DEF Payloads
<1> HIDE DEF halt
<1>1. CASE port \in {"dock", "direct"}
  <2> SUFFICES AnswersOnce(PrimaryHandle(f, data), f, halt)
    BY <1>1 DEF Outcome, halt
  <2>1. CASE IsKeepaliveProbe(f.payload)
    BY <2>1, EchoOnce DEF PrimaryHandle
  <2>2. CASE ~ IsKeepaliveProbe(f.payload) /\ port = "direct" /\ f.op = "Write" /\ f.payload.len > 0 /\ At(f.payload, 0) \notin {1, 3}
    BY <2>2, AckOnce DEF PrimaryHandle
  <2>3. CASE ~ IsKeepaliveProbe(f.payload) /\ port = "direct" /\ f.op = "SendReport"
    BY <2>3, AckOnce DEF PrimaryHandle
  <2>4. CASE /\ ~ IsKeepaliveProbe(f.payload)
             /\ ~ (port = "direct" /\ f.op = "Write" /\ f.payload.len > 0 /\ At(f.payload, 0) \notin {1, 3})
             /\ ~ (port = "direct" /\ f.op = "SendReport")
    <3>1. CASE f.payload.len > 0
      <4>1. PrimaryHandle(f, data) = PrimaryAnswer(f, data)
        BY <2>4, <3>1 DEF PrimaryHandle
      <4>2. AnswersOnce(PrimaryAnswer(f, data), f, halt)
        BY PrimaryAnswerFacts, RepliesOnce
      <4> QED
        BY <4>1, <4>2
    <3>2. CASE ~ f.payload.len > 0
      BY <2>4, <3>2, SilentOnce DEF PrimaryHandle
    <3> QED
      BY <3>1, <3>2
  <2> QED
    BY <2>1, <2>2, <2>3, <2>4
<1>2. CASE port = "bridge"
  <2> SUFFICES AnswersOnce(BridgeHandle(f, data), f, halt)
    BY <1>2 DEF Outcome, halt
  <2>1. CASE IsKeepaliveProbe(f.payload)
    BY <2>1, EchoOnce DEF BridgeHandle
  <2>2. CASE ~ IsKeepaliveProbe(f.payload) /\ IsKeepaliveAck(f.payload)
    BY <2>2, SilentOnce DEF BridgeHandle
  <2>3. CASE ~ IsKeepaliveProbe(f.payload) /\ ~ IsKeepaliveAck(f.payload) /\ IsQuery(f)
    <3>1. CASE f.payload.len = 0
      BY <2>3, <3>1, SilentOnce DEF BridgeHandle
    <3>2. CASE f.payload.len # 0
      <4>1. BridgeHandle(f, data) = BridgeAnswer(f, data)
        BY <2>3, <3>2 DEF BridgeHandle
      <4>2. "RESULT" \in ResultFlags(f)
        BY DEF ResultFlags
      <4> DEFINE res == BridgeAnswer(f, data)
      <4>3. res.alive = TRUE /\ \E p : Replies(res, f, ResultFlags(f), p)
        BY BridgeReplies
      <4> HIDE DEF res
      <4>4. AnswersOnce(res, f, halt)
        BY <4>2, <4>3, RepliesOnce
      <4> QED
        BY <4>1, <4>4 DEF res
    <3> QED
      BY <3>1, <3>2
  <2>4. CASE ~ IsKeepaliveProbe(f.payload) /\ ~ IsKeepaliveAck(f.payload) /\ ~ IsQuery(f)
    <3>1. f.op # "GetReport"
      BY <2>4 DEF IsQuery
    <3> QED
      BY <3>1, <2>4, AckOnce DEF BridgeHandle
  <2> QED
    BY <2>1, <2>2, <2>3, <2>4
<1>3. CASE port = "hub"
  <2> DEFINE r == HubHandle(f)
  <2> SUFFICES AnswersOnce(r, f, halt)
    BY <1>3 DEF Outcome, halt
  <2>1. CASE IsKeepaliveProbe(f.payload)
    BY <2>1, EchoOnce DEF HubHandle
  <2>2. CASE ~ IsKeepaliveProbe(f.payload) /\ f.payload.len > 0
    <3>1. PICK body : r = Did(<<ResponseFrame(f.id, body)>>, "none")
      BY <2>2 DEF HubHandle
    <3> DEFINE g == ResponseFrame(f.id, body)
    <3> HIDE DEF r, g
    <3>2. r.replies = <<g>> /\ r.alive = TRUE
      BY <3>1, DidFacts DEF g
    <3>3. g.id = f.id /\ g.flags = {"RESULT"}
      BY FrameFacts DEF ResponseFrame, g
    <3>4. OneReply(r.replies, f)
      BY <3>2, <3>3 DEF OneReply
    <3> QED
      BY <3>2, <3>4 DEF AnswersOnce
  <2>3. CASE ~ IsKeepaliveProbe(f.payload) /\ ~ f.payload.len > 0
    BY <2>3, SilentOnce DEF HubHandle
  <2> QED
    BY <2>1, <2>2, <2>3
<1>4. CASE port = "deck"
  <2> DEFINE r == DeckHandle(f)
  <2> SUFFICES AnswersOnce(r, f, halt)
    BY <1>4 DEF Outcome, halt
  <2>1. CASE IsKeepaliveProbe(f.payload)
    BY <2>1, EchoOnce DEF DeckHandle
  <2>2. CASE ~ IsKeepaliveProbe(f.payload) /\ IsKeepaliveAck(f.payload)
    BY <2>2, SilentOnce DEF DeckHandle
  <2>3. CASE ~ IsKeepaliveProbe(f.payload) /\ ~ IsKeepaliveAck(f.payload) /\ IsQuery(f)
    <3>1. CASE f.payload.len = 0
      <4>1. r = [Did(<<>>, "none") EXCEPT !.alive = FALSE]
        BY <2>3, <3>1 DEF DeckHandle
      <4>2. r.replies = <<>>
        BY <4>1 DEF Did
      <4>3. halt /\ ~ f.payload.len > 0
        BY <1>4, <3>1 DEF halt
      <4> HIDE DEF r
      <4> QED
        BY <4>2, <4>3, <3>1 DEF AnswersOnce
    <3>2. CASE f.payload.len # 0
      <4>1. r = Did(<<Frame(ResultFlags(f), f.op, f.id, DeckAnswer(f))>>, "none")
        BY <2>3, <3>2 DEF DeckHandle
      <4> HIDE DEF r
      <4>2. Replies(r, f, ResultFlags(f), DeckAnswer(f)) /\ r.alive = TRUE
        BY <4>1, DidFacts DEF Replies
      <4>3. "RESULT" \in ResultFlags(f)
        BY DEF ResultFlags
      <4> QED
        BY <4>2, <4>3, RepliesOnce
    <3> QED
      BY <3>1, <3>2
  <2>4. CASE ~ IsKeepaliveProbe(f.payload) /\ ~ IsKeepaliveAck(f.payload) /\ ~ IsQuery(f)
    <3>1. f.op # "GetReport"
      BY <2>4 DEF IsQuery
    <3> QED
      BY <3>1, <2>4, AckOnce DEF DeckHandle
  <2> QED
    BY <2>1, <2>2, <2>3, <2>4
<1> QED
  BY <1>1, <1>2, <1>3, <1>4 DEF Ports, halt

\* On every port, a frame that asks for a reply gets exactly one with its id, and
\* only an empty query stops a board (connection.rs:260-520, bridge.rs:221-461, and
\* hub.rs:124-223 and bridge.rs:105-281 of the embedded crate).
THEOREM AskersAreAnswered == Spec => []WhoAsksIsAnsweredOnce
<1>1. Init => WhoAsksIsAnsweredOnce
  BY DEF Init, WhoAsksIsAnsweredOnce
<1>2. PortInv /\ WhoAsksIsAnsweredOnce /\ [Next]_vars => WhoAsksIsAnsweredOnce'
  <2> SUFFICES ASSUME PortInv, WhoAsksIsAnsweredOnce, [Next]_vars
               PROVE  WhoAsksIsAnsweredOnce'
    OBVIOUS
  <2>1. CASE frame' = None
    BY <2>1 DEF WhoAsksIsAnsweredOnce
  <2>2. CASE UNCHANGED vars
    BY <2>2 DEF vars, WhoAsksIsAnsweredOnce
  <2>3. ASSUME NEW f \in Frames, NEW data \in UsbData \cup {Failed}, port \in Ports, Handle(f, data)
        PROVE  WhoAsksIsAnsweredOnce'
    <3>1. frame' = f /\ result' = Outcome(f, data) /\ port' = port
      BY <2>3 DEF Handle
    <3> DEFINE r == Outcome(f, data)
    <3>2. AnswersOnce(r, f, port = "deck")
      BY <2>3, OutcomeOnce
    <3> HIDE DEF r
    <3>3. ASSUME OneReply(r.replies, f)
          PROVE  /\ Len(r.replies) <= 1 /\ r.replies # <<>>
                 /\ \A k \in DOMAIN r.replies :
                       /\ r.replies[k].id = f.id
                       /\ r.replies[k].flags \cap {"RESULT", "ACK_NAK"} # {}
      BY <3>3 DEF OneReply
    <3>4. /\ Len(r.replies) <= 1
          /\ \A k \in DOMAIN r.replies :
                /\ r.replies[k].id = f.id
                /\ r.replies[k].flags \cap {"RESULT", "ACK_NAK"} # {}
      BY <3>2, <3>3 DEF AnswersOnce
    <3>5. Asks(f) /\ f.payload.len > 0 /\ ~ IsKeepaliveAck(f.payload) => r.replies # <<>>
      BY <3>2, <3>3 DEF AnswersOnce
    <3>6. ~ r.alive => port = "deck" /\ f.payload.len = 0
      BY <3>2 DEF AnswersOnce
    <3> QED
      BY <3>1, <3>4, <3>5, <3>6 DEF WhoAsksIsAnsweredOnce, Asks, r
  <2> QED
    BY <2>1, <2>2, <2>3, OnlyHandle
<1> QED
  BY <1>1, <1>2, PortInit, PortStep, PTL DEF Spec

--------------------------------------------------------------------------------
(***************************************************************************)
(* Keepalives.                                                             *)
(***************************************************************************)
LEMMA ProbeIsEchoed ==
  ASSUME NEW f, NEW data, port \in Ports, IsKeepaliveProbe(f.payload)
  PROVE  Outcome(f, data) = EchoProbe(f)
<1>1. /\ PrimaryHandle(f, data) = EchoProbe(f) /\ BridgeHandle(f, data) = EchoProbe(f)
      /\ HubHandle(f) = EchoProbe(f) /\ DeckHandle(f) = EchoProbe(f)
  BY DEF PrimaryHandle, BridgeHandle, HubHandle, DeckHandle
<1> QED
  BY <1>1 DEF Outcome, Ports

LEMMA EchoIsAck ==
  ASSUME NEW f
  PROVE  /\ EchoProbe(f).effect = "none"
         /\ \E g : /\ EchoProbe(f).replies = <<g>>
                   /\ IsKeepaliveAck(g.payload) /\ At(g.payload, 2) = At(f.payload, 5)
<1> DEFINE conn == At(f.payload, 5)
           g == KeepaliveAck(conn, f.id)
           h == <<3, 26, conn>>
<1>0. EchoProbe(f) = Did(<<g>>, "none")
  BY DEF EchoProbe
<1> HIDE DEF conn
<1>1. EchoProbe(f).effect = "none" /\ EchoProbe(f).replies = <<g>>
  <2> HIDE DEF g
  <2> QED
    BY <1>0 DEF Did
<1>2. g.payload = Payload(h, 32)
  BY FrameFacts DEF KeepaliveAck
<1>3. /\ Payload(h, 32).len = 32 /\ At(Payload(h, 32), 0) = 3 /\ At(Payload(h, 32), 1) = 26
      /\ At(Payload(h, 32), 2) = conn
  BY DEF Payload, At
<1>4. IsKeepaliveAck(g.payload) /\ At(g.payload, 2) = conn
  BY <1>2, <1>3 DEF IsKeepaliveAck
<1> HIDE DEF g
<1> QED
  BY <1>1, <1>4 DEF conn

LEMMA AckIsKept ==
  ASSUME NEW f \in Frames, NEW data, port \in Ports, IsKeepaliveAck(f.payload), f.op # "SendReport"
  PROVE  Outcome(f, data).effect = "none"
<1> DEFINE r == Outcome(f, data)
<1>0. /\ At(f.payload, 0) = 3 /\ At(f.payload, 1) = 26 /\ f.payload.len >= 3 /\ f.payload.len \in Nat
      /\ ~ IsKeepaliveProbe(f.payload)
  BY RequestsAssumption DEF IsKeepaliveAck, IsKeepaliveProbe, Payloads
<1>1. CASE port \in {"dock", "direct"}
  <2>1. r = PrimaryHandle(f, data)
    BY <1>1 DEF Outcome
  <2>2. f.payload.len > 0 /\ f.payload.len >= 2
    BY <1>0
  <2>3. PrimaryHandle(f, data) = PrimaryAnswer(f, data)
    BY <2>2, <1>0 DEF PrimaryHandle
  <2>4. ReportId(f.payload) = 26
    BY <2>2, <1>0 DEF ReportId
  <2>5. PrimaryAnswer(f, data).effect = "none"
    BY <2>4, PrimaryAnswerFacts DEF Local
  <2> HIDE DEF r
  <2> QED
    BY <2>1, <2>3, <2>5 DEF r
<1>2. CASE port = "bridge"
  <2>1. r = Did(<<>>, "none")
    BY <1>0, <1>2 DEF Outcome, BridgeHandle
  <2> HIDE DEF r
  <2> QED
    BY <2>1 DEF Did, r
<1>3. CASE port = "hub"
  <2>1. \E x : r = Did(x, "none")
    BY <1>0, <1>3 DEF Outcome, HubHandle
  <2> HIDE DEF r
  <2> QED
    BY <2>1 DEF Did, r
<1>4. CASE port = "deck"
  <2>1. r = Did(<<>>, "none")
    BY <1>0, <1>4 DEF Outcome, DeckHandle
  <2> HIDE DEF r
  <2> QED
    BY <2>1 DEF Did, r
<1> HIDE DEF r
<1> QED
  BY <1>1, <1>2, <1>3, <1>4 DEF Ports, r

\* A probe is acknowledged with its id and goes no further, and neither does an ack
\* unless it comes as a SendReport (connection.rs:271-281, bridge.rs:237-251).
THEOREM KeepalivesAreLocal == Spec => []KeepalivesStayLocal
<1>1. Init => KeepalivesStayLocal
  BY DEF Init, KeepalivesStayLocal
<1>2. PortInv /\ KeepalivesStayLocal /\ [Next]_vars => KeepalivesStayLocal'
  <2> SUFFICES ASSUME PortInv, KeepalivesStayLocal, [Next]_vars
               PROVE  KeepalivesStayLocal'
    OBVIOUS
  <2>1. CASE frame' = None
    BY <2>1 DEF KeepalivesStayLocal
  <2>2. CASE UNCHANGED vars
    BY <2>2 DEF vars, KeepalivesStayLocal
  <2>3. ASSUME NEW f \in Frames, NEW data \in UsbData \cup {Failed}, port \in Ports, Handle(f, data)
        PROVE  KeepalivesStayLocal'
    <3> DEFINE r == Outcome(f, data)
    <3>1. frame' = f /\ result' = r
      BY <2>3 DEF Handle
    <3>2. ASSUME IsKeepaliveProbe(f.payload)
          PROVE  /\ r.effect = "none"
                 /\ \A k \in DOMAIN r.replies :
                       /\ IsKeepaliveAck(r.replies[k].payload)
                       /\ At(r.replies[k].payload, 2) = At(f.payload, 5)
      <4>1. r = EchoProbe(f)
        BY <2>3, <3>2, ProbeIsEchoed
      <4> HIDE DEF r
      <4>2. PICK g : /\ r.replies = <<g>>
                     /\ IsKeepaliveAck(g.payload) /\ At(g.payload, 2) = At(f.payload, 5)
        BY <4>1, EchoIsAck
      <4>3. DOMAIN r.replies = {1} /\ r.replies[1] = g
        BY <4>2
      <4> QED
        BY <4>1, <4>2, <4>3, EchoIsAck
    <3>3. IsKeepaliveAck(f.payload) /\ f.op # "SendReport" => r.effect = "none"
      BY <2>3, AckIsKept
    <3> HIDE DEF r
    <3> QED
      BY <3>1, <3>2, <3>3 DEF KeepalivesStayLocal
  <2> QED
    BY <2>1, <2>2, <2>3, OnlyHandle
<1> QED
  BY <1>1, <1>2, PortInit, PortStep, PTL DEF Spec

--------------------------------------------------------------------------------
(***************************************************************************)
(* A board and a server.                                                   *)
(***************************************************************************)
\* What the deck does not say itself is as long on both, for a short request.
LEMMA AnswersAsLong ==
  ASSUME NEW f, ~ (f.payload.len >= Long)
  PROVE  \E p : /\ Replies(BridgeAnswer(f, Failed), f, ResultFlags(f), p)
               /\ p.len = DeckAnswer(f).len
<1> DEFINE r == ReportId(f.payload)
           own == Slots[OwnSlot]
           slot == RequestedSlot(f.payload)
           res == BridgeAnswer(f, Failed)
<1>0. \A n : LongOr(f, n) = n
  BY DEF LongOr
<1>1. CASE r = 28
  <2> DEFINE p == OwnChild(f, slot)
  <2>1. Replies(res, f, ResultFlags(f), p)
    BY <1>1, BridgeAnswerFacts
  <2>2. p.len = 128
    BY <1>0 DEF OwnChild, BuildPayload
  <2>3. DeckAnswer(f) = BuildPayload(Connected(OwnSlot, own, PortOf(OwnSlot)), FALSE, OwnSlot)
    BY <1>1 DEF DeckAnswer
  <2>4. DeckAnswer(f).len = 128
    BY <2>3 DEF BuildPayload
  <2> HIDE DEF p, res
  <2> QED
    BY <2>1, <2>2, <2>4 DEF res
<1>2. CASE r = 128
  <2> DEFINE p == Payload(DeviceInfo(own.vid, own.pid), LongOr(f, 16))
  <2>1. Replies(res, f, ResultFlags(f), p)
    BY <1>2, BridgeAnswerFacts
  <2>2. p.len = 16
    BY <1>0, PayloadFacts
  <2>3. DeckAnswer(f) = Payload(DeviceInfo(own.vid, own.pid), 16)
    BY <1>2 DEF DeckAnswer
  <2>4. DeckAnswer(f).len = 16
    BY <2>3, PayloadFacts
  <2> HIDE DEF p, res
  <2> QED
    BY <2>1, <2>2, <2>4 DEF res
<1>3. CASE r \notin {28, 128}
  <2> DEFINE p == Payload(<<3, r>>, LongOr(f, 32))
             fw == UpTo(Config.firmware, 30)
             sn == UpTo(own.serial, 30)
             len == LongOr(f, 32)
  <2>1. Replies(res, f, ResultFlags(f), p)
    BY <1>3, BridgeAnswerFacts
  <2>2. p.len = 32
    BY <1>0, PayloadFacts
  <2>3. \E h : DeckAnswer(f) = Payload(h, len)
    <3>1. CASE r = 5
      BY <3>1 DEF DeckAnswer
    <3>2. CASE r = 6
      BY <3>2 DEF DeckAnswer
    <3>3. CASE r = 11
      BY <3>3 DEF DeckAnswer
    <3>4. CASE r \notin {5, 6, 11}
      BY <1>3, <3>4 DEF DeckAnswer
    <3> QED
      BY <3>1, <3>2, <3>3, <3>4
  <2>4. DeckAnswer(f).len = 32
    BY <1>0, <2>3, PayloadFacts
  <2> HIDE DEF p, res
  <2> QED
    BY <2>1, <2>2, <2>4 DEF res
<1> QED
  BY <1>1, <1>2, <1>3

\* Two replies on the port of a deck: the same header, and to a short request the
\* same length.
AsOnBridge(g, h, f) ==
  Header(g) = Header(h) /\ (f.payload.len < Long => g.payload.len = h.payload.len)

\* On the port of a deck: the same number of replies, like the server's.
LEMMA DeckLikeBridge ==
  ASSUME NEW f \in Frames, f.payload.len > 0
  PROVE  LET server == BridgeHandle(f, Failed).replies
             board  == DeckHandle(f).replies
         IN  \/ server = board
             \/ \E g, h : server = <<g>> /\ board = <<h>> /\ AsOnBridge(g, h, f)
<1> DEFINE server == BridgeHandle(f, Failed).replies
           board == DeckHandle(f).replies
<1>0. f.payload.len # 0 /\ f.payload.len \in Nat
  BY RequestsAssumption DEF Payloads
<1>1. CASE IsKeepaliveProbe(f.payload)
  BY <1>1 DEF BridgeHandle, DeckHandle
<1>2. CASE ~ IsKeepaliveProbe(f.payload) /\ IsKeepaliveAck(f.payload)
  BY <1>2 DEF BridgeHandle, DeckHandle
<1>3. CASE ~ IsKeepaliveProbe(f.payload) /\ ~ IsKeepaliveAck(f.payload) /\ IsQuery(f)
  <2>1. BridgeHandle(f, Failed) = BridgeAnswer(f, Failed)
    BY <1>0, <1>3 DEF BridgeHandle
  <2>2. DeckHandle(f) = Did(<<Frame(ResultFlags(f), f.op, f.id, DeckAnswer(f))>>, "none")
    BY <1>0, <1>3 DEF DeckHandle
  <2>3. PICK p : /\ server = <<Frame(ResultFlags(f), f.op, f.id, p)>>
                 /\ f.payload.len < Long => p.len = DeckAnswer(f).len
    <3>1. CASE f.payload.len < Long
      BY <1>0, <2>1, <3>1, AnswersAsLong DEF Replies, Long
    <3>2. CASE ~ (f.payload.len < Long)
      BY <2>1, <3>2, BridgeReplies DEF Replies
    <3> QED
      BY <3>1, <3>2
  <2> DEFINE g == Frame(ResultFlags(f), f.op, f.id, p)
             h == Frame(ResultFlags(f), f.op, f.id, DeckAnswer(f))
  <2>4. board = <<h>>
    <3> HIDE DEF h
    <3>1. DeckHandle(f) = Did(<<h>>, "none")
      BY <2>2 DEF h
    <3> QED
      BY <3>1 DEF Did
  <2>5. Header(g) = Header(h)
    BY FrameFacts DEF Header
  <2>6. g.payload = p /\ h.payload = DeckAnswer(f)
    BY FrameFacts
  <2> HIDE DEF g, h, server, board
  <2>7. server = <<g>>
    BY <2>3 DEF g
  <2>8. AsOnBridge(g, h, f)
    BY <2>3, <2>5, <2>6 DEF AsOnBridge
  <2> QED
    BY <2>4, <2>7, <2>8 DEF server, board
<1>4. CASE ~ IsKeepaliveProbe(f.payload) /\ ~ IsKeepaliveAck(f.payload) /\ ~ IsQuery(f)
  <2>1. CASE f.op = "SendReport"
    <3>1. server = Acknowledge(f, 3)
      BY <1>4, <2>1, DidFacts DEF BridgeHandle
    <3>2. board = Acknowledge(f, 3)
      BY <1>4, <2>1, DidFacts DEF DeckHandle
    <3> QED
      BY <3>1, <3>2
  <2>2. CASE f.op # "SendReport"
    <3>1. server = Acknowledge(f, 2)
      BY <1>4, <2>2, DidFacts DEF BridgeHandle
    <3>2. board = Acknowledge(f, 2)
      BY <1>4, <2>2, DidFacts DEF DeckHandle
    <3> QED
      BY <3>1, <3>2
  <2> QED
    BY <2>1, <2>2
<1> QED
  BY <1>1, <1>2, <1>3, <1>4

\* A reply of the server turned into a hub's, in full.
LEMMA OnHubFacts ==
  ASSUME NEW f, NEW p, NEW r
  PROVE  OnHub(Frame({"RESULT"}, f.op, f.id, p), r)
           = ResponseFrame(f.id, IF r = 28 THEN p ELSE [p EXCEPT !.len = Long])
<1> DEFINE g == Frame({"RESULT"}, f.op, f.id, p)
           q == IF r = 28 THEN p ELSE [p EXCEPT !.len = Long]
<1>1. g.flags = {"RESULT"} /\ g.id = f.id /\ g.payload = p
  BY FrameFacts
<1> HIDE DEF g
<1>2. OnHub(g, r) = Frame({"RESULT"}, "GetReport", f.id, q)
  BY <1>1 DEF OnHub
<1> QED
  BY <1>2 DEF ResponseFrame, g

\* On the port of the dock: the same number of replies, each the hub's form of the
\* server's.
LEMMA HubLikeDock ==
  ASSUME NEW f \in Frames, NEW data, f.payload.len > 0, port = "dock", deck = None,
         local = Config.ip
  PROVE  LET server == PrimaryHandle(f, data).replies
             board  == HubHandle(f).replies
         IN  \/ IsKeepaliveProbe(f.payload) /\ server = board
             \/ /\ ~ IsKeepaliveProbe(f.payload)
                /\ \E g : server = <<g>> /\ board = <<OnHub(g, ReportId(f.payload))>>
<1> DEFINE server == PrimaryHandle(f, data).replies
           board == HubHandle(f).replies
           r == ReportId(f.payload)
           slot == RequestedSlot(f.payload)
<1>1. CASE IsKeepaliveProbe(f.payload)
  BY <1>1 DEF PrimaryHandle, HubHandle
<1>2. CASE ~ IsKeepaliveProbe(f.payload)
  <2>1. PrimaryHandle(f, data) = PrimaryAnswer(f, data)
    BY <1>2 DEF PrimaryHandle
  <2>2. CASE r = 28
    <3> DEFINE p == BuildPayload(ChildAt(slot), FALSE, slot)
               g == Frame({"RESULT"}, f.op, f.id, p)
               h == ResponseFrame(f.id, p)
    <3>1. server = <<g>>
      <4> DEFINE res == PrimaryAnswer(f, data)
      <4>1. Replies(res, f, {"RESULT"}, p)
        BY <2>2, PrimaryAnswerFacts
      <4> HIDE DEF p, res
      <4>2. res.replies = <<Frame({"RESULT"}, f.op, f.id, p)>>
        BY <4>1 DEF Replies
      <4> QED
        BY <2>1, <4>2 DEF res
    <3>2. board = <<h>>
      <4>1. HubHandle(f) = Did(<<h>>, "none")
        BY <1>2, <2>2 DEF HubHandle
      <4> HIDE DEF h
      <4> QED
        BY <4>1 DEF Did
    <3> HIDE DEF p, r
    <3>3. h = OnHub(g, r)
      BY <2>2, OnHubFacts
    <3> HIDE DEF g, h, server, board
    <3> QED
      BY <1>2, <3>1, <3>2, <3>3 DEF server, board, r
  <2>3. CASE r # 28
    <3> DEFINE d == DockReport(r, None, Config.ip)
               p == Payload(d, LongOr(f, 128))
               q == Payload(d, Long)
               g == Frame({"RESULT"}, f.op, f.id, p)
               h == ResponseFrame(f.id, q)
    <3>1. server = <<g>>
      BY <2>1, <2>3, PrimaryAnswerFacts DEF Replies
    <3>2. board = <<h>>
      <4>1. HubHandle(f) = Did(<<h>>, "none")
        BY <1>2, <2>3 DEF HubHandle
      <4> HIDE DEF h
      <4> QED
        BY <4>1 DEF Did
    <3> HIDE DEF d
    <3>3. q = [p EXCEPT !.len = Long]
      BY DEF Payload
    <3> HIDE DEF p, q, r
    <3>4. h = OnHub(g, r)
      BY <2>3, <3>3, OnHubFacts
    <3> HIDE DEF g, h, server, board
    <3> QED
      BY <1>2, <3>1, <3>2, <3>4 DEF server, board, r
  <2> QED
    BY <2>2, <2>3
<1> QED
  BY <1>1, <1>2

LEMMA SameShape ==
  ASSUME NEW a, NEW b, NEW g, NEW h, a = <<g>>, b = <<h>>
  PROVE  Len(a) = Len(b) /\ \A k \in DOMAIN a : a[k] = g /\ b[k] = h
  OBVIOUS

\* A board answers the frames a server answers: on a deck's port with the same
\* header, and the same length for a short request and a deck that is silent; on
\* the dock's port, at the configured address, with the same report, for which
\* operation and length do not follow the request.  Empty payloads are excepted
\* (hub.rs:124-223 and bridge.rs:105-281 of the embedded crate).
THEOREM BoardsAnswerLikeServers == Spec => []BoardAnswersLikeServer
<1>1. Init => BoardAnswersLikeServer
  BY DEF Init, BoardAnswersLikeServer
<1>2. PortInv /\ BoardAnswersLikeServer /\ [Next]_vars => BoardAnswersLikeServer'
  <2> SUFFICES ASSUME PortInv, BoardAnswersLikeServer, [Next]_vars
               PROVE  BoardAnswersLikeServer'
    OBVIOUS
  <2>1. CASE frame' = None
    BY <2>1 DEF BoardAnswersLikeServer
  <2>2. CASE UNCHANGED vars
    BY <2>2 DEF vars, BoardAnswersLikeServer
  <2>3. ASSUME NEW f \in Frames, NEW data \in UsbData \cup {Failed}, port \in Ports, Handle(f, data)
        PROVE  BoardAnswersLikeServer'
    <3>1. frame' = f /\ result' = Outcome(f, data) /\ port' = port /\ local' = local
      BY <2>3 DEF Handle
    <3> DEFINE r == Outcome(f, data).replies
               id == ReportId(f.payload)
               bridge == BridgeHandle(f, Failed).replies
               hub == HubHandle(f).replies
    <3>2. ASSUME f.payload.len > 0, port = "deck"
          PROVE  /\ Len(bridge) = Len(r)
                 /\ \A k \in DOMAIN bridge : AsOnBridge(bridge[k], r[k], f)
      <4>1. r = DeckHandle(f).replies
        BY <3>2 DEF Outcome
      <4>2. bridge = r \/ \E g, h : bridge = <<g>> /\ r = <<h>> /\ AsOnBridge(g, h, f)
        BY <4>1, <3>2, DeckLikeBridge
      <4> HIDE DEF r, bridge
      <4>3. CASE bridge = r
        BY <4>3 DEF AsOnBridge
      <4>4. CASE \E g, h : bridge = <<g>> /\ r = <<h>> /\ AsOnBridge(g, h, f)
        BY <4>4, SameShape
      <4> QED
        BY <4>2, <4>3, <4>4
    <3>3. ASSUME f.payload.len > 0, port = "dock", local = Config.ip
          PROVE  /\ Len(hub) = Len(r)
                 /\ \A k \in DOMAIN hub :
                      hub[k] = IF IsKeepaliveProbe(f.payload) THEN r[k] ELSE OnHub(r[k], id)
      <4>1. r = PrimaryHandle(f, data).replies /\ deck = None
        BY <3>3 DEF Outcome, PortInv
      <4>2. \/ IsKeepaliveProbe(f.payload) /\ r = hub
            \/ ~ IsKeepaliveProbe(f.payload) /\ \E g : r = <<g>> /\ hub = <<OnHub(g, id)>>
        BY <4>1, <3>3, HubLikeDock
      <4> HIDE DEF r, hub, id
      <4> QED
        BY <4>2, SameShape
    <3> HIDE DEF r, bridge, hub, id
    <3> QED
      BY <3>1, <3>2, <3>3 DEF BoardAnswersLikeServer, AsOnBridge, r, bridge, hub, id
  <2> QED
    BY <2>1, <2>2, <2>3, OnlyHandle
<1> QED
  BY <1>1, <1>2, PortInit, PortStep, PTL DEF Spec

--------------------------------------------------------------------------------
(***************************************************************************)
(* An answer names its report.                                             *)
(***************************************************************************)
\* The bytes h begin with report r, in either form.
Names(h, r) ==
  /\ h \in Seq(Nat) /\ Len(h) >= 1
  /\ h[1] = r \/ (Len(h) >= 2 /\ h[1] = 3 /\ h[2] = r)

LEMMA NamesAfter ==
  ASSUME NEW h, NEW t \in Seq(Nat), NEW r, Names(h, r)
  PROVE  Names(h \o t, r)
<1>1. h \in Seq(Nat) /\ Len(h) \in Nat /\ Len(h) >= 1
  BY DEF Names
<1>2. h \o t \in Seq(Nat) /\ Len(h \o t) >= Len(h) /\ (h \o t)[1] = h[1]
  BY <1>1
<1>3. Len(h) >= 2 => Len(h \o t) >= 2 /\ (h \o t)[2] = h[2]
  BY <1>1
<1> QED
  BY <1>1, <1>2, <1>3 DEF Names

LEMMA NamesPayload ==
  ASSUME NEW p, NEW r, Names(p.head, r)
  PROVE  NamesReport(p, r)
<1> DEFINE h == p.head
<1>1. h \in Seq(Nat) /\ Len(h) \in Nat /\ Len(h) >= 1 /\ (h[1] = r \/ (Len(h) >= 2 /\ h[1] = 3 /\ h[2] = r))
  BY DEF Names
<1>2. At(p, 0) = IF 0 < Len(h) THEN h[1] ELSE 0
  BY DEF At
<1>3. At(p, 1) = IF 1 < Len(h) THEN h[2] ELSE 0
  BY DEF At
<1> HIDE DEF h
<1> QED
  BY <1>1, <1>2, <1>3 DEF NamesReport

LEMMA NamesSelf ==
  ASSUME NEW r \in Nat
  PROVE  Names(<<3, r>>, r)
  BY DEF Names

\* Min of two, and what UpTo keeps.
LEMMA MinOfTwo ==
  ASSUME NEW a \in Nat, NEW b \in Nat
  PROVE  /\ Min({a, b}) \in Nat
         /\ Min({a, b}) = IF a <= b THEN a ELSE b
<1>1. \E x \in {a, b} : \A y \in {a, b} : x <= y
  OBVIOUS
<1>2. Min({a, b}) \in {a, b} /\ \A y \in {a, b} : Min({a, b}) <= y
  BY <1>1 DEF Min
<1> QED
  BY <1>2

LEMMA UpToFacts ==
  ASSUME NEW text \in Texts, NEW n \in Nat
  PROVE  /\ UpTo(text, n) \in Texts /\ UpTo(text, n) \in Seq(Nat)
         /\ Len(UpTo(text, n)) = IF n <= Len(text) THEN n ELSE Len(text)
         /\ Len(UpTo(text, n)) \in Nat
<1> DEFINE m == Min({n, Len(text)})
           u == SubSeq(text, 1, m)
<1>1. text \in Seq(1 .. 255) /\ Len(text) \in Nat
  BY DEF Texts
<1>2. m \in Nat /\ m = IF n <= Len(text) THEN n ELSE Len(text)
  BY <1>1, MinOfTwo
<1>3. UpTo(text, n) = u
  BY DEF UpTo
<1> HIDE DEF m
<1>4. u \in Seq(1 .. 255) /\ Len(u) = m
  <2>1. 1 \in Int /\ m \in Int /\ m <= Len(text)
    BY <1>1, <1>2
  <2>2. \A i \in 1 .. m : text[i] \in 1 .. 255
    <3> TAKE i \in 1 .. m
    <3>1. i \in 1 .. Len(text)
      BY <1>1, <2>1
    <3> QED
      BY <1>1, <3>1, ElementOfSeq
  <2>3. u \in Seq(1 .. 255) /\ Len(u) = IF 1 <= m THEN m - 1 + 1 ELSE 0
    BY <2>1, <2>2, SubSeqProperties
  <2> QED
    BY <1>2, <2>3
<1>5. u \in Seq(Nat)
  BY <1>4
<1> HIDE DEF u
<1> QED
  BY <1>2, <1>3, <1>4, <1>5 DEF Texts

LEMMA ZerosType ==
  ASSUME NEW n \in Nat
  PROVE  Zeros(n) \in Seq(Nat)
  BY DEF Zeros

LEMMA ToLeType ==
  ASSUME NEW n \in Nat
  PROVE  ToLe(n) \in Seq(Nat)
<1>1. n % 256 \in Nat /\ n \div 256 \in Nat
  OBVIOUS
<1> QED
  BY <1>1 DEF ToLe

LEMMA DeviceInfoNames ==
  ASSUME NEW vid \in Nat, NEW pid \in Nat
  PROVE  Names(DeviceInfo(vid, pid), 128)
<1> DEFINE z == Zeros(10)
           v == ToLe(vid)
           q == ToLe(pid)
           d == <<3, 128>>
<1>1. z \in Seq(Nat) /\ v \in Seq(Nat) /\ q \in Seq(Nat)
  BY ZerosType, ToLeType
<1>2. Names(d, 128)
  BY NamesSelf
<1>3. DeviceInfo(vid, pid) = d \o z \o v \o q
  BY DEF DeviceInfo
<1> HIDE DEF z, v, q, d
<1>4. Names(d \o z, 128)
  BY <1>1, <1>2, NamesAfter
<1> DEFINE dz == d \o z
<1>5. Names(dz \o v, 128)
  <2> HIDE DEF dz
  <2> QED
    BY <1>1, <1>4, NamesAfter DEF dz
<1> DEFINE dzv == dz \o v
<1>6. Names(dzv \o q, 128)
  <2> HIDE DEF dzv
  <2> QED
    BY <1>1, <1>5, NamesAfter DEF dzv
<1> QED
  BY <1>3, <1>6

LEMMA BytesAreNat ==
  ASSUME NEW s \in Seq(Bytes)
  PROVE  s \in Seq(Nat)
<1>1. Bytes \subseteq Nat
  BY DEF Bytes
<1> QED
  BY <1>1, SeqMonotonic

\* What the dock says of itself or of the deck named dev.
LEMMA DockReportNames ==
  ASSUME NEW r \in Nat, NEW dev \in {None, Slots[OwnSlot]}, NEW ip \in Seq(Bytes) \cup {None}
  PROVE  Names(DockReport(r, dev, ip), r)
<1> DEFINE id == IF dev = None THEN Config ELSE dev
           d == DockReport(r, dev, ip)
<1>0. /\ id.vid \in Nat /\ id.pid \in Nat /\ id.serial \in Texts
      /\ Config.firmware \in Texts /\ Config.mac \in Seq(Nat)
      /\ Config.port \in Nat
  <2>1. /\ Config.vid \in Nat /\ Config.pid \in Nat /\ Config.serial \in Texts
        /\ Config.firmware \in Texts /\ Config.mac \in Seq(Bytes)
        /\ Config.port \in Nat
    BY RequestsAssumption
  <2>2. dev # None => dev.vid \in Nat /\ dev.pid \in Nat /\ dev.serial \in Texts
    BY RequestsAssumption
  <2> QED
    BY <2>1, <2>2, BytesAreNat
<1> HIDE DEF id
<1>1. CASE r = 128
  <2>1. d = DeviceInfo(id.vid, id.pid)
    BY <1>1 DEF DockReport, id
  <2> QED
    BY <2>1, <1>0, <1>1, DeviceInfoNames
<1>2. CASE r = 131
  <2> DEFINE a == <<3, 131>>
             z == Zeros(6)
             t == UpTo(Config.firmware, 8)
             az == a \o z
  <2>1. d = az \o t
    BY <1>2 DEF DockReport, FirmwareVersion
  <2>2. Names(a, 131) /\ z \in Seq(Nat) /\ t \in Seq(Nat)
    BY <1>0, NamesSelf, ZerosType, UpToFacts
  <2> HIDE DEF a, z, t
  <2>3. Names(az, 131)
    BY <2>2, NamesAfter
  <2> HIDE DEF az
  <2>4. Names(az \o t, 131)
    BY <2>2, <2>3, NamesAfter
  <2> HIDE DEF d
  <2> QED
    BY <1>2, <2>1, <2>4 DEF d
<1>3. CASE r = 132
  <2> DEFINE l == Min({32, Len(id.serial)})
             a == <<3, 132, 0, l>>
             t == UpTo(id.serial, 32)
  <2>1. d = a \o t
    BY <1>3 DEF DockReport, SerialNumber, id
  <2>2. l \in Nat
    <3>1. Len(id.serial) \in Nat
      BY <1>0 DEF Texts
    <3> QED
      BY <3>1, MinOfTwo
  <2>3. t \in Seq(Nat)
    BY <1>0, UpToFacts
  <2> HIDE DEF l
  <2>4. Names(a, 132)
    BY <2>2 DEF Names
  <2> HIDE DEF a, t
  <2>5. Names(a \o t, 132)
    BY <2>3, <2>4, NamesAfter
  <2> HIDE DEF d
  <2> QED
    BY <1>3, <2>1, <2>5 DEF d
<1>4. CASE r = 133
  <2> DEFINE a == <<3, 133, 0, 0>>
  <2>1. d = a \o Config.mac
    BY <1>4 DEF DockReport, MacAddress
  <2>2. Names(a, 133)
    BY DEF Names
  <2> HIDE DEF a
  <2>3. Names(a \o Config.mac, 133)
    BY <1>0, <2>2, NamesAfter
  <2> HIDE DEF d
  <2> QED
    BY <1>4, <2>1, <2>3 DEF d
<1>5. CASE r = 135
  <2> DEFINE a == <<3, 135, 1, 1>>
             m == <<255, 255, 255, 0>>
             q == ToLe(Config.port)
             z == Zeros(12)
             i1 == ip \o m
             i2 == i1 \o ip
             block == IF ip = None THEN z ELSE i2
             b == a \o block
  <2>1. d = b \o q
    <3>1. d = NetworkConfig(ip, Config.port)
      BY <1>5 DEF DockReport
    <3> HIDE DEF d
    <3> QED
      BY <3>1, Zenon DEF NetworkConfig
  <2>2. Names(a, 135) /\ m \in Seq(Nat) /\ z \in Seq(Nat) /\ q \in Seq(Nat)
    <3>1. z \in Seq(Nat) /\ q \in Seq(Nat)
      BY <1>0, ToLeType, ZerosType
    <3> HIDE DEF z, q
    <3> QED
      BY <3>1 DEF Names
  <2>3. ip # None => ip \in Seq(Nat)
    BY BytesAreNat
  <2> HIDE DEF a, m, q, z
  <2>4. ip # None => i1 \in Seq(Nat)
    BY <2>2, <2>3
  <2> HIDE DEF i1
  <2>5. ip # None => i2 \in Seq(Nat)
    BY <2>3, <2>4
  <2> HIDE DEF i2
  <2>6. block \in Seq(Nat)
    BY <2>2, <2>5
  <2> HIDE DEF block
  <2>7. Names(b, 135)
    BY <2>2, <2>6, NamesAfter
  <2> HIDE DEF b
  <2>8. Names(b \o q, 135)
    BY <2>2, <2>7, NamesAfter
  <2> HIDE DEF d
  <2> QED
    BY <1>5, <2>1, <2>8 DEF d
<1>6. CASE r \notin {128, 131, 132, 133, 135}
  <2>1. d = <<3, r>>
    BY <1>6 DEF DockReport
  <2> QED
    BY <2>1, NamesSelf
<1> QED
  BY <1>1, <1>2, <1>3, <1>4, <1>5, <1>6

LEMMA ReportIdType ==
  ASSUME NEW p \in Payloads
  PROVE  ReportId(p) \in Nat
<1> DEFINE h == p.head
<1>1. h \in Seq(Bytes)
  BY DEF Payloads
<1>2. h \in Seq(Nat) /\ Len(h) \in Nat
  BY <1>1, BytesAreNat
<1>3. At(p, 0) = (IF 0 < Len(h) THEN h[1] ELSE 0) /\ At(p, 1) = (IF 1 < Len(h) THEN h[2] ELSE 0)
  BY DEF At
<1> HIDE DEF h
<1>4. At(p, 0) \in Nat /\ At(p, 1) \in Nat
  BY <1>2, <1>3
<1> QED
  BY <1>4 DEF ReportId

LEMMA PayloadNames ==
  ASSUME NEW h, NEW len, NEW r, Names(h, r)
  PROVE  NamesReport(Payload(h, len), r)
<1> DEFINE p == Payload(h, len)
<1>1. Names(p.head, r)
  BY PayloadFacts
<1> HIDE DEF p
<1> QED
  BY <1>1, NamesPayload DEF p

\* Only the first bytes tell which report a payload is.
LEMMA SameHead ==
  ASSUME NEW p, NEW q, NEW r, p.head = q.head
  PROVE  NamesReport(p, r) <=> NamesReport(q, r)
  BY DEF NamesReport, At

\* What a deck returned, in either layout or neither.
LEMMA AlignedNames ==
  ASSUME NEW r \in Nat, NEW data \in UsbData \cup {Failed}, NEW len
  PROVE  NamesReport(Payload(Aligned(r, data), len), r)
<1> DEFINE a == Aligned(r, data)
           h == data.head
<1>0. data # Failed => h \in Seq(Nat) /\ Len(h) \in Nat
  <2>1. data # Failed => h \in Seq(Bytes)
    BY RequestsAssumption DEF Payloads
  <2> QED
    BY <2>1, BytesAreNat
<1>1. CASE data = Failed \/ data.len = 0
  <2>1. Names(a, r)
    BY <1>1, NamesSelf DEF Aligned
  <2> HIDE DEF a
  <2> QED
    BY <2>1, PayloadNames DEF a
<1>2. CASE /\ ~ (data = Failed \/ data.len = 0)
           /\ data.len >= 2 /\ At(data, 0) = 3 /\ At(data, 1) = r
  <2>1. a = h
    BY <1>2 DEF Aligned
  <2>2. NamesReport(data, r)
    BY <1>2 DEF NamesReport
  <2> DEFINE p == Payload(a, len)
  <2> HIDE DEF a
  <2>3. p.head = data.head
    BY <2>1, PayloadFacts
  <2> HIDE DEF p
  <2>4. NamesReport(p, r)
    BY <2>2, <2>3, SameHead
  <2> QED
    BY <2>4 DEF p, a
<1>3. CASE /\ ~ (data = Failed \/ data.len = 0)
           /\ ~ (data.len >= 2 /\ At(data, 0) = 3 /\ At(data, 1) = r)
           /\ At(data, 0) = r
  <2>1. a = <<3>> \o h
    BY <1>3 DEF Aligned
  <2>2. h \in Seq(Nat) /\ Len(h) \in Nat
    BY <1>0, <1>3
  <2>3. r = IF 0 < Len(h) THEN h[1] ELSE 0
    BY <1>3 DEF At
  <2> HIDE DEF a, h
  <2>4. Len(a) = Len(h) + 1 /\ a[1] = 3 /\ (0 < Len(h) => a[2] = h[1])
    BY <2>1, <2>2
  <2> DEFINE p == Payload(a, len)
  <2>5. At(p, 0) = (IF 0 < Len(a) THEN a[1] ELSE 0) /\ At(p, 1) = (IF 1 < Len(a) THEN a[2] ELSE 0)
    BY DEF At, Payload
  <2> HIDE DEF p
  <2>6. At(p, 0) = 3 /\ At(p, 1) = r
    BY <2>2, <2>3, <2>4, <2>5
  <2> QED
    BY <2>6 DEF p, NamesReport, a
<1>4. CASE /\ ~ (data = Failed \/ data.len = 0)
           /\ ~ (data.len >= 2 /\ At(data, 0) = 3 /\ At(data, 1) = r)
           /\ At(data, 0) # r
  <2> DEFINE t == <<3, r>>
  <2>1. a = t \o h
    BY <1>4 DEF Aligned
  <2>2. h \in Seq(Nat) /\ Names(t, r)
    BY <1>0, <1>4, NamesSelf
  <2> HIDE DEF t, h, a
  <2>3. Names(a, r)
    BY <2>1, <2>2, NamesAfter
  <2> QED
    BY <2>3, PayloadNames DEF a
<1> QED
  BY <1>1, <1>2, <1>3, <1>4

LEMMA ChildNames ==
  ASSUME NEW c, NEW slot
  PROVE  NamesReport(BuildPayload(c, FALSE, slot), 28)
<1> DEFINE p == BuildPayload(c, FALSE, slot)
           t == <<3, 28>>
           l == ToLe(124)
<1>1. p.head = t \o l
  BY DEF BuildPayload
<1>2. Names(t, 28) /\ l \in Seq(Nat)
  BY NamesSelf, ToLeType
<1> HIDE DEF t, l, p
<1>3. Names(p.head, 28)
  BY <1>1, <1>2, NamesAfter
<1> QED
  BY <1>3, NamesPayload DEF p

LEMMA OwnChildNames ==
  ASSUME NEW f, NEW slot
  PROVE  NamesReport(OwnChild(f, slot), 28)
<1> DEFINE c == Connected(slot, Slots[OwnSlot], 5344)
           n == LongOr(f, 128)
           p == BuildPayload(c, FALSE, slot)
           q == [p EXCEPT !.len = n]
<1>1. OwnChild(f, slot) = q
  BY DEF OwnChild
<1> HIDE DEF c, n
<1>2. NamesReport(p, 28)
  BY ChildNames
<1>3. q.head = p.head
  BY DEF BuildPayload
<1> HIDE DEF p, q
<1>4. NamesReport(q, 28)
  BY <1>2, <1>3, SameHead
<1> QED
  BY <1>1, <1>4

\* What a board says of its own deck.
LEMMA DeckAnswerNames ==
  ASSUME NEW f \in Frames
  PROVE  NamesReport(DeckAnswer(f), ReportId(f.payload))
<1> DEFINE r == ReportId(f.payload)
           own == Slots[OwnSlot]
           fw == UpTo(Config.firmware, 30)
           sn == UpTo(own.serial, 30)
           len == LongOr(f, 32)
<1>0. r \in Nat
  BY ReportIdType, RequestsAssumption
<1>1. own.vid \in Nat /\ own.pid \in Nat /\ own.serial \in Texts /\ Config.firmware \in Texts
  BY RequestsAssumption
<1>2. fw \in Seq(Nat) /\ Len(fw) \in Nat /\ sn \in Seq(Nat) /\ Len(sn) \in Nat
  BY <1>1, UpToFacts
<1>3. CASE r = 5
  <2> DEFINE t == <<5, Len(fw), 0, 0, 0, 0>>
             h == t \o fw
  <2>1. DeckAnswer(f) = Payload(h, len)
    BY <1>3 DEF DeckAnswer
  <2> HIDE DEF fw, len
  <2>2. Names(t, 5)
    BY <1>2 DEF Names
  <2> HIDE DEF t
  <2>3. Names(h, 5)
    BY <1>2, <2>2, NamesAfter
  <2> HIDE DEF h
  <2> QED
    BY <1>3, <2>1, <2>3, PayloadNames
<1>4. CASE r = 6
  <2> DEFINE t == <<6, Len(sn)>>
             h == t \o sn
  <2>1. DeckAnswer(f) = Payload(h, len)
    BY <1>4 DEF DeckAnswer
  <2> HIDE DEF sn, len
  <2>2. Names(t, 6)
    BY <1>2 DEF Names
  <2> HIDE DEF t
  <2>3. Names(h, 6)
    BY <1>2, <2>2, NamesAfter
  <2> HIDE DEF h
  <2> QED
    BY <1>4, <2>1, <2>3, PayloadNames
<1>5. CASE r = 11
  <2> DEFINE h == <<11, 2, 48, 1>>
  <2>1. DeckAnswer(f) = Payload(h, len)
    BY <1>5 DEF DeckAnswer
  <2>2. Names(h, 11)
    BY DEF Names
  <2> HIDE DEF h, len
  <2> QED
    BY <1>5, <2>1, <2>2, PayloadNames
<1>6. CASE r = 128
  <2> DEFINE h == DeviceInfo(own.vid, own.pid)
  <2>1. DeckAnswer(f) = Payload(h, 16)
    BY <1>6 DEF DeckAnswer
  <2>2. Names(h, 128)
    BY <1>1, DeviceInfoNames
  <2> HIDE DEF h
  <2> QED
    BY <1>6, <2>1, <2>2, PayloadNames
<1>7. CASE r = 28
  <2>1. DeckAnswer(f) = BuildPayload(Connected(OwnSlot, own, PortOf(OwnSlot)), FALSE, OwnSlot)
    BY <1>7 DEF DeckAnswer
  <2> QED
    BY <1>7, <2>1, ChildNames
<1>8. CASE r \notin {5, 6, 11, 128, 28}
  <2> DEFINE h == <<3, r>>
  <2>1. DeckAnswer(f) = Payload(h, len)
    BY <1>8 DEF DeckAnswer
  <2>2. Names(h, r)
    BY <1>0, NamesSelf
  <2> HIDE DEF h, len, r
  <2> QED
    BY <2>1, <2>2, PayloadNames DEF r
<1> QED
  BY <1>3, <1>4, <1>5, <1>6, <1>7, <1>8

\* The replies are none, or one that names report r or passes on what does not.
NamedReply(replies, r, data) ==
  \/ replies = <<>>
  \/ \E g : /\ replies = <<g>>
            /\ \/ NamesReport(g.payload, r)
               \/ port = "bridge" /\ data # Failed /\ ~ NamesReport(data, r)

LEMMA RepliesNamed ==
  ASSUME NEW res, NEW f, NEW flags, NEW p, NEW r, NEW data, Replies(res, f, flags, p),
         NamesReport(p, r) \/ (port = "bridge" /\ data # Failed /\ ~ NamesReport(data, r))
  PROVE  NamedReply(res.replies, r, data)
<1> DEFINE g == Frame(flags, f.op, f.id, p)
<1>1. res.replies = <<g>> /\ g.payload = p
  BY FrameFacts DEF Replies
<1> HIDE DEF g
<1> QED
  BY <1>1 DEF NamedReply

LEMMA PrimaryNamed ==
  ASSUME NEW f \in Frames, NEW data \in UsbData \cup {Failed}, deck \in {None, Slots[OwnSlot]},
         local \in Seq(Bytes) \cup {None}
  PROVE  NamedReply(PrimaryAnswer(f, data).replies, ReportId(f.payload), data)
<1> DEFINE r == ReportId(f.payload)
           slot == RequestedSlot(f.payload)
           asks == r \notin Local /\ deck # None
           res == PrimaryAnswer(f, data)
           len == LongOr(f, 128)
<1>0. r \in Nat
  BY ReportIdType, RequestsAssumption
<1>1. CASE r = 28
  <2> DEFINE p == BuildPayload(ChildAt(slot), FALSE, slot)
  <2>1. Replies(res, f, {"RESULT"}, p)
    BY <1>1, PrimaryAnswerFacts
  <2>2. NamesReport(p, r)
    BY <1>1, ChildNames
  <2> HIDE DEF p, res, r
  <2> QED
    BY <2>1, <2>2, RepliesNamed DEF res, r
<1>2. CASE r # 28 /\ asks
  <2> DEFINE p == Payload(Aligned(r, data), len)
  <2>1. Replies(res, f, {"RESULT"}, p)
    BY <1>2, PrimaryAnswerFacts
  <2> HIDE DEF r, len
  <2>2. NamesReport(p, r)
    BY <1>0, AlignedNames
  <2> HIDE DEF p, res
  <2> QED
    BY <2>1, <2>2, RepliesNamed DEF res, r
<1>3. CASE r # 28 /\ ~ asks
  <2> DEFINE d == DockReport(r, deck, local)
             p == Payload(d, len)
  <2>1. Replies(res, f, {"RESULT"}, p)
    BY <1>3, PrimaryAnswerFacts
  <2> HIDE DEF r, len
  <2>2. Names(d, r)
    BY <1>0, DockReportNames
  <2> HIDE DEF d
  <2>3. NamesReport(p, r)
    BY <2>2, PayloadNames
  <2> HIDE DEF p, res
  <2> QED
    BY <2>1, <2>3, RepliesNamed DEF res, r
<1> QED
  BY <1>1, <1>2, <1>3

LEMMA BridgeNamed ==
  ASSUME NEW f \in Frames, NEW data \in UsbData \cup {Failed}, port = "bridge"
  PROVE  NamedReply(BridgeAnswer(f, data).replies, ReportId(f.payload), data)
<1> DEFINE r == ReportId(f.payload)
           own == Slots[OwnSlot]
           slot == RequestedSlot(f.payload)
           res == BridgeAnswer(f, data)
           flags == ResultFlags(f)
<1>0. r \in Nat
  BY ReportIdType, RequestsAssumption
<1>1. CASE r = 28
  <2> DEFINE p == OwnChild(f, slot)
  <2>1. Replies(res, f, flags, p)
    BY <1>1, BridgeAnswerFacts
  <2>2. NamesReport(p, r)
    BY <1>1, OwnChildNames
  <2> HIDE DEF p, res, r, flags
  <2> QED
    BY <2>1, <2>2, RepliesNamed DEF res, r
<1>2. CASE r = 128
  <2> DEFINE d == DeviceInfo(own.vid, own.pid)
             len == LongOr(f, 16)
             p == Payload(d, len)
  <2>1. Replies(res, f, flags, p)
    BY <1>2, BridgeAnswerFacts
  <2>2. own.vid \in Nat /\ own.pid \in Nat
    BY RequestsAssumption
  <2>3. Names(d, 128)
    BY <2>2, DeviceInfoNames
  <2> HIDE DEF d, len
  <2>4. NamesReport(p, r)
    BY <1>2, <2>3, PayloadNames
  <2> HIDE DEF p, res, r, flags
  <2> QED
    BY <2>1, <2>4, RepliesNamed DEF res, r
<1>3. CASE r \notin {28, 128} /\ data = Failed
  <2> DEFINE d == <<3, r>>
             len == LongOr(f, 32)
             p == Payload(d, len)
  <2>1. Replies(res, f, flags, p)
    BY <1>3, BridgeAnswerFacts
  <2> HIDE DEF r
  <2>2. Names(d, r)
    BY <1>0, NamesSelf
  <2> HIDE DEF d, len
  <2>3. NamesReport(p, r)
    BY <2>2, PayloadNames
  <2> HIDE DEF p, res, flags
  <2> QED
    BY <2>1, <2>3, RepliesNamed DEF res, r
<1>4. CASE r \notin {28, 128} /\ data # Failed
  <2> DEFINE len == LongOr(f, data.len)
             p == Payload(data.head, len)
  <2>1. Replies(res, f, flags, p)
    BY <1>4, BridgeAnswerFacts
  <2> HIDE DEF r, len
  <2>2. p.head = data.head
    BY PayloadFacts
  <2> HIDE DEF p, res, flags
  <2>3. NamesReport(p, r) <=> NamesReport(data, r)
    BY <2>2, SameHead
  <2> QED
    BY <1>4, <2>1, <2>3, RepliesNamed DEF res, r
<1> QED
  BY <1>1, <1>2, <1>3, <1>4

LEMMA OutcomeNamed ==
  ASSUME NEW f \in Frames, NEW data \in UsbData \cup {Failed}, port \in Ports,
         deck \in {None, Slots[OwnSlot]}, local \in Seq(Bytes) \cup {None},
         IsQuery(f), ~ IsKeepaliveProbe(f.payload)
  PROVE  NamedReply(Outcome(f, data).replies, ReportId(f.payload), data)
<1> DEFINE r == ReportId(f.payload)
           out == Outcome(f, data)
<1>0. /\ f.payload.len \in Nat /\ f.op # "SendReport" /\ r \in Nat
      /\ f.op = "Write" => At(f.payload, 0) = 3
  BY ReportIdType, RequestsAssumption DEF IsQuery, Payloads
<1>1. ASSUME out.replies = <<>>
      PROVE  NamedReply(out.replies, r, data)
  BY <1>1 DEF NamedReply
<1>2. CASE port \in {"dock", "direct"}
  <2>1. out = PrimaryHandle(f, data)
    BY <1>2 DEF Outcome
  <2>2. CASE f.payload.len > 0
    <3>1. PrimaryHandle(f, data) = PrimaryAnswer(f, data)
      BY <1>0, <2>2 DEF PrimaryHandle
    <3> HIDE DEF out
    <3> QED
      BY <2>1, <3>1, PrimaryNamed DEF out
  <2>3. CASE ~ f.payload.len > 0
    <3>1. PrimaryHandle(f, data) = Did(<<>>, "none")
      BY <1>0, <2>3 DEF PrimaryHandle
    <3> HIDE DEF out
    <3>2. out.replies = <<>>
      BY <2>1, <3>1 DEF Did
    <3> QED
      BY <1>1, <3>2 DEF out
  <2> QED
    BY <2>2, <2>3
<1>3. CASE port = "bridge"
  <2>1. out = BridgeHandle(f, data)
    BY <1>3 DEF Outcome
  <2>2. CASE IsKeepaliveAck(f.payload) \/ f.payload.len = 0
    <3>1. BridgeHandle(f, data) = Did(<<>>, "none")
      BY <2>2 DEF BridgeHandle
    <3> HIDE DEF out
    <3>2. out.replies = <<>>
      BY <2>1, <3>1 DEF Did
    <3> QED
      BY <1>1, <3>2 DEF out
  <2>3. CASE ~ (IsKeepaliveAck(f.payload) \/ f.payload.len = 0)
    <3>1. BridgeHandle(f, data) = BridgeAnswer(f, data)
      BY <2>3 DEF BridgeHandle
    <3> HIDE DEF out
    <3> QED
      BY <1>3, <2>1, <3>1, BridgeNamed DEF out
  <2> QED
    BY <2>2, <2>3
<1>4. CASE port = "hub"
  <2>1. out = HubHandle(f)
    BY <1>4 DEF Outcome
  <2>2. CASE ~ f.payload.len > 0
    <3>1. HubHandle(f) = Did(<<>>, "none")
      BY <2>2 DEF HubHandle
    <3> HIDE DEF out
    <3>2. out.replies = <<>>
      BY <2>1, <3>1 DEF Did
    <3> QED
      BY <1>1, <3>2 DEF out
  <2>3. CASE f.payload.len > 0
    <3> DEFINE slot == RequestedSlot(f.payload)
               d == DockReport(r, None, Config.ip)
               p == IF r = 28 THEN BuildPayload(ChildAt(slot), FALSE, slot) ELSE Payload(d, Long)
               g == ResponseFrame(f.id, p)
    <3>1. HubHandle(f) = Did(<<g>>, "none")
      BY <2>3 DEF HubHandle
    <3> HIDE DEF r
    <3>2. NamesReport(p, r)
      <4>1. CASE r = 28
        BY <4>1, ChildNames
      <4>2. CASE r # 28
        <5>1. Names(d, r)
          BY <1>0, DockReportNames, RequestsAssumption
        <5> HIDE DEF d
        <5>2. NamesReport(Payload(d, Long), r)
          BY <5>1, PayloadNames
        <5> QED
          BY <4>2, <5>2
      <4> QED
        BY <4>1, <4>2
    <3> HIDE DEF p
    <3>3. g.payload = p
      BY FrameFacts DEF ResponseFrame
    <3> HIDE DEF g, out
    <3>4. out.replies = <<g>>
      BY <2>1, <3>1 DEF Did
    <3> QED
      BY <3>2, <3>3, <3>4 DEF NamedReply, out, r
  <2> QED
    BY <2>2, <2>3
<1>5. CASE port = "deck"
  <2>1. out = DeckHandle(f)
    BY <1>5 DEF Outcome
  <2>2. CASE IsKeepaliveAck(f.payload)
    <3>1. DeckHandle(f) = Did(<<>>, "none")
      BY <2>2 DEF DeckHandle
    <3> HIDE DEF out
    <3>2. out.replies = <<>>
      BY <2>1, <3>1 DEF Did
    <3> QED
      BY <1>1, <3>2 DEF out
  <2>3. CASE ~ IsKeepaliveAck(f.payload) /\ f.payload.len = 0
    <3>1. DeckHandle(f) = [Did(<<>>, "none") EXCEPT !.alive = FALSE]
      BY <2>3 DEF DeckHandle
    <3>2. DeckHandle(f).replies = <<>>
      BY <3>1 DEF Did
    <3> QED
      BY <1>1, <2>1, <3>2
  <2>4. CASE ~ IsKeepaliveAck(f.payload) /\ f.payload.len # 0
    <3> DEFINE p == DeckAnswer(f)
               flags == ResultFlags(f)
               g == Frame(flags, f.op, f.id, p)
    <3>1. DeckHandle(f) = Did(<<g>>, "none")
      BY <2>4 DEF DeckHandle
    <3>2. NamesReport(p, r)
      BY DeckAnswerNames
    <3> HIDE DEF p, flags, r
    <3>3. g.payload = p
      BY FrameFacts
    <3> HIDE DEF g, out
    <3>4. out.replies = <<g>>
      BY <2>1, <3>1 DEF Did
    <3> QED
      BY <3>2, <3>3, <3>4 DEF NamedReply, out, r
  <2> QED
    BY <2>2, <2>3, <2>4
<1> QED
  BY <1>2, <1>3, <1>4, <1>5 DEF Ports

\* Every answer names the report it answers, whatever layout the deck's own answer
\* has; only the bridge passes on one that does not (connection.rs:481-498,
\* bridge.rs:353-391).
THEOREM AnswersNameReports == Spec => []AnswerNamesTheReport
<1>1. Init => AnswerNamesTheReport
  BY DEF Init, AnswerNamesTheReport
<1>2. PortInv /\ AnswerNamesTheReport /\ [Next]_vars => AnswerNamesTheReport'
  <2> SUFFICES ASSUME PortInv, AnswerNamesTheReport, [Next]_vars
               PROVE  AnswerNamesTheReport'
    OBVIOUS
  <2>1. CASE frame' = None
    BY <2>1 DEF AnswerNamesTheReport
  <2>2. CASE UNCHANGED vars
    BY <2>2 DEF vars, AnswerNamesTheReport
  <2>3. ASSUME NEW f \in Frames, NEW data \in UsbData \cup {Failed}, port \in Ports, Handle(f, data)
        PROVE  AnswerNamesTheReport'
    <3>1. frame' = f /\ usb' = data /\ result' = Outcome(f, data) /\ port' = port
      BY <2>3 DEF Handle
    <3> DEFINE q == Outcome(f, data).replies
               r == ReportId(f.payload)
    <3>2. ASSUME IsQuery(f), ~ IsKeepaliveProbe(f.payload)
          PROVE  \A k \in DOMAIN q :
                    \/ NamesReport(q[k].payload, r)
                    \/ port = "bridge" /\ data # Failed /\ ~ NamesReport(data, r)
      <4>1. NamedReply(q, r, data)
        BY <2>3, <3>2, OutcomeNamed DEF PortInv
      <4> HIDE DEF q, r
      <4>2. ASSUME NEW g, q = <<g>>
            PROVE  \A k \in DOMAIN q : q[k] = g
        BY <4>2
      <4>3. q = <<>> => DOMAIN q = {}
        OBVIOUS
      <4> QED
        BY <4>1, <4>2, <4>3 DEF NamedReply
    <3> HIDE DEF q, r
    <3> QED
      BY <3>1, <3>2 DEF AnswerNamesTheReport, q, r
  <2> QED
    BY <2>1, <2>2, <2>3, OnlyHandle
<1> QED
  BY <1>1, <1>2, PortInit, PortStep, PTL DEF Spec

--------------------------------------------------------------------------------
(***************************************************************************)
(* A child device's report, there and back.                                *)
(***************************************************************************)
LEMMA LeRoundTrip ==
  ASSUME NEW n \in Nat
  PROVE  FromLe(ToLe(n)) = n
<1> DEFINE a == n % 256
           b == n \div 256
<1>1. a + 256 * b = n
  OBVIOUS
<1>2. ToLe(n)[1] = a /\ ToLe(n)[2] = b
  BY DEF ToLe
<1> QED
  BY <1>1, <1>2 DEF FromLe

\* A text that leaves room for a zero comes back from its field as it was.
LEMMA FieldRoundTrip ==
  ASSUME NEW text \in Texts, Len(text) < FieldLen
  PROVE  FromField(ToField(text)) = text
<1> DEFINE n == Len(text)
           f == ToField(text)
           ends == {k \in 1 .. FieldLen : f[k] = 0}
           t == SubSeq(f, 1, n)
<1>0. FieldLen \in Nat /\ n \in Nat /\ n < FieldLen /\ text \in Seq(1 .. 255)
  BY ReportsAssumption DEF Texts
<1>1. \A k \in 1 .. n : text[k] \in 1 .. 255
  BY <1>0, ElementOfSeq
<1>2. \A k \in 1 .. FieldLen : f[k] = IF k <= n THEN text[k] ELSE 0
  BY DEF ToField
<1> HIDE DEF f, n
<1>3. \A k \in 1 .. FieldLen : k <= n => f[k] \in 1 .. 255
  <2> SUFFICES ASSUME NEW k \in 1 .. FieldLen, k <= n
               PROVE  f[k] \in 1 .. 255
    OBVIOUS
  <2>1. k \in 1 .. n
    BY <1>0
  <2> QED
    BY <2>1, <1>1, <1>2
<1>4. /\ n + 1 \in ends
      /\ \A k \in ends : k \in Nat /\ n + 1 <= k
  <2>1. n + 1 \in 1 .. FieldLen /\ ~ n + 1 <= n
    BY <1>0
  <2>2. f[n + 1] = 0
    BY <2>1, <1>2
  <2>3. ASSUME NEW k \in ends
        PROVE  k \in Nat /\ n + 1 <= k
    <3>1. k \in 1 .. FieldLen /\ f[k] = 0
      OBVIOUS
    <3>2. ASSUME k <= n
          PROVE  FALSE
      <4>1. f[k] \in 1 .. 255
        BY <3>1, <3>2, <1>3
      <4> QED
        BY <3>1, <4>1
    <3> QED
      BY <3>1, <3>2, <1>0
  <2> QED
    BY <2>1, <2>2, <2>3
<1>5. FromField(f) = IF ends = {} THEN f ELSE SubSeq(f, 1, Min(ends) - 1)
  BY DEF FromField
<1> HIDE DEF ends
<1>6. Min(ends) = n + 1
  <2> DEFINE m == Min(ends)
  <2>1. m \in ends /\ \A k \in ends : m <= k
    BY <1>4 DEF Min
  <2> HIDE DEF m
  <2>2. m \in Nat /\ n + 1 <= m /\ m <= n + 1
    BY <2>1, <1>4
  <2> QED
    BY <2>2, <1>0 DEF m
<1>7. FromField(f) = t
  <2>1. ends # {} /\ Min(ends) - 1 = n
    BY <1>0, <1>4, <1>6
  <2> QED
    BY <2>1, <1>5
<1>8. /\ t \in Seq(1 .. 255) /\ Len(t) = n
      /\ \A i \in 1 .. n : t[i] = f[i]
  <2>1. 1 \in Int /\ n \in Int
    BY <1>0
  <2>2. \A i \in 1 .. n : f[i] \in 1 .. 255
    BY <1>0, <1>3
  <2>3. /\ t \in Seq(1 .. 255) /\ Len(t) = IF 1 <= n THEN n - 1 + 1 ELSE 0
        /\ \A i \in 1 .. n - 1 + 1 : t[i] = f[1 + i - 1]
    BY <2>1, <2>2, SubSeqProperties
  <2>4. n - 1 + 1 = n /\ \A i \in 1 .. n : 1 + i - 1 = i
    BY <1>0
  <2> HIDE DEF t
  <2>5. Len(t) = n
    BY <2>3, <1>0
  <2> QED
    BY <2>3, <2>4, <2>5
<1> HIDE DEF t
<1>9. \A i \in 1 .. n : t[i] = text[i]
  <2> TAKE i \in 1 .. n
  <2>1. i \in 1 .. FieldLen /\ i <= n
    BY <1>0
  <2> QED
    BY <2>1, <1>2, <1>8
<1>10. t = text
  BY <1>0, <1>8, <1>9, SeqEqual DEF n
<1> QED
  BY <1>7, <1>10 DEF f

\* What the slot holds, as a record of its fields.
LEMMA ChildFields ==
  ASSUME NEW s \in Children
  PROVE  \E vid \in Nat, pid \in Nat, name \in Texts, serial \in Texts, n \in Nat :
            /\ Len(name) < FieldLen /\ Len(serial) < FieldLen
            /\ ChildAt(s) = [slot |-> s, connected |-> TRUE, vid |-> vid, pid |-> pid,
                             name |-> name, serial |-> serial, port |-> n]
<1> DEFINE d == Slots[s]
           l == FieldLen - 1
           name == UpTo(d.name, l)
           serial == UpTo(d.serial, l)
           n == PortOf(s)
<1>1. s \in Nat /\ d.vid \in Nat /\ d.pid \in Nat /\ d.name \in Texts /\ d.serial \in Texts
  BY RequestsAssumption DEF Children
<1>2. l \in Nat /\ l < FieldLen /\ FieldLen \in Nat /\ n \in Nat
  BY <1>1, ReportsAssumption, RequestsAssumption DEF PortOf
<1>3. ChildAt(s) = [slot |-> s, connected |-> TRUE, vid |-> d.vid, pid |-> d.pid,
                    name |-> name, serial |-> serial, port |-> n]
  BY DEF ChildAt, Connected
<1> HIDE DEF l, n
<1>4. name \in Texts /\ Len(name) \in Nat /\ Len(name) = (IF l <= Len(d.name) THEN l ELSE Len(d.name))
  BY <1>1, <1>2, UpToFacts
<1>5. serial \in Texts /\ Len(serial) \in Nat /\ Len(serial) = (IF l <= Len(d.serial) THEN l ELSE Len(d.serial))
  BY <1>1, <1>2, UpToFacts
<1>6. Len(d.name) \in Nat /\ Len(d.serial) \in Nat
  BY <1>1 DEF Texts
<1> HIDE DEF name, serial
<1>7. Len(name) < FieldLen /\ Len(serial) < FieldLen
  BY <1>2, <1>4, <1>5, <1>6
<1> QED
  BY <1>1, <1>2, <1>3, <1>4, <1>5, <1>7

\* Who parses p gets what the slot it names holds; the slot asked for is want.
Survives(p, want) ==
  p.child # None =>
    LET s == p.child.slot
    IN  /\ Parse(p) = (IF s \in Children THEN ChildAt(s) ELSE None)
        /\ p.head[1] = 3 => s = want

LEMMA ChildSurvives ==
  ASSUME NEW s, NEW push \in BOOLEAN, NEW want, push \/ s = want
  PROVE  Survives(BuildPayload(ChildAt(s), push, s), want)
<1> DEFINE c == ChildAt(s)
           p == BuildPayload(c, push, s)
           a == IF push THEN <<1, 11>> ELSE <<3, 28>>
           l == ToLe(124)
<1>1. p.head = a \o l
  BY DEF BuildPayload
<1>2. p.head[1] = 3 => s = want
  <2>1. a \in Seq(Nat) /\ Len(a) = 2 /\ l \in Seq(Nat)
    BY ToLeType
  <2>2. a[1] = 3 => ~ push
    OBVIOUS
  <2> HIDE DEF a, l
  <2>3. (a \o l)[1] = a[1]
    <3>1. 1 \in 1 .. Len(a)
      BY <2>1
    <3> QED
      BY <2>1, <3>1, ConcatProperties
  <2> HIDE DEF p
  <2> QED
    BY <1>1, <2>2, <2>3
<1>3. CASE s \in Children
  <2>1. PICK vid \in Nat, pid \in Nat, name \in Texts, serial \in Texts, n \in Nat :
            /\ Len(name) < FieldLen /\ Len(serial) < FieldLen
            /\ c = [slot |-> s, connected |-> TRUE, vid |-> vid, pid |-> pid,
                    name |-> name, serial |-> serial, port |-> n]
    BY <1>3, ChildFields
  <2> HIDE DEF c
  <2> DEFINE ch == [status |-> 2, slot |-> s, vid |-> ToLe(vid), pid |-> ToLe(pid),
                    name |-> ToField(name), serial |-> ToField(serial), port |-> ToLe(n)]
  <2>2. p.child = ch
    BY <2>1 DEF BuildPayload
  <2>3. /\ FromLe(ToLe(vid)) = vid /\ FromLe(ToLe(pid)) = pid /\ FromLe(ToLe(n)) = n
        /\ FromField(ToField(name)) = name /\ FromField(ToField(serial)) = serial
    BY <2>1, LeRoundTrip, FieldRoundTrip
  <2> HIDE DEF p
  <2>4. Parse(p) = c
    BY <2>1, <2>2, <2>3 DEF Parse
  <2>5. p.child.slot = s
    BY <2>2
  <2> QED
    BY <1>2, <1>3, <2>4, <2>5 DEF Survives, p, c
<1>4. CASE s \notin Children
  <2>1. c = Disconnected(s)
    BY <1>4 DEF ChildAt
  <2>2. c.connected = FALSE
    BY <2>1 DEF Disconnected
  <2> HIDE DEF c
  <2>3. p.child.status = 0 /\ p.child.slot = s
    BY <2>2 DEF BuildPayload
  <2> HIDE DEF p
  <2>4. Parse(p) = None
    BY <2>3 DEF Parse
  <2> QED
    BY <1>2, <1>4, <2>3, <2>4 DEF Survives, p, c
<1> QED
  BY <1>3, <1>4

LEMMA PlainSurvives ==
  ASSUME NEW p, NEW want, p.child = None
  PROVE  Survives(p, want)
  BY DEF Survives

\* All that a handler sends survives.
AllSurvive(res, want) ==
  \A g \in res.pushes \cup Range(res.replies) : Survives(g.payload, want)

LEMMA NothingSent ==
  ASSUME NEW res, NEW want, res.pushes = {}, res.replies = <<>>
  PROVE  AllSurvive(res, want)
  BY DEF AllSurvive, Range

LEMMA OneSent ==
  ASSUME NEW res, NEW want, NEW g, res.replies = <<g>>, Survives(g.payload, want),
         \A h \in res.pushes : Survives(h.payload, want)
  PROVE  AllSurvive(res, want)
<1>1. Range(res.replies) = {g}
  BY DEF Range
<1> QED
  BY <1>1 DEF AllSurvive

LEMMA PushesSurvive ==
  ASSUME NEW h \in ChildPushes, NEW want
  PROVE  Survives(h.payload, want)
<1>1. PICK s \in Children : h = PushFrame(BuildPayload(ChildAt(s), TRUE, s))
  BY DEF ChildPushes
<1> DEFINE p == BuildPayload(ChildAt(s), TRUE, s)
<1>2. Survives(p, want)
  BY ChildSurvives
<1>3. h = PushFrame(p)
  BY <1>1
<1> HIDE DEF p
<1>4. h.payload = p
  BY <1>3, FrameFacts DEF PushFrame
<1> QED
  BY <1>2, <1>4

LEMMA EchoSurvives ==
  ASSUME NEW f, NEW want
  PROVE  AllSurvive(EchoProbe(f), want)
<1> DEFINE g == KeepaliveAck(At(f.payload, 5), f.id)
           h == <<3, 26, At(f.payload, 5)>>
           res == EchoProbe(f)
<1>1. res = Did(<<g>>, "none")
  BY DEF EchoProbe
<1>2. g.payload = Payload(h, 32)
  BY FrameFacts DEF KeepaliveAck
<1> HIDE DEF g, h, res
<1>3. g.payload.child = None
  BY <1>2, PayloadFacts
<1>4. res.replies = <<g>> /\ res.pushes = {}
  BY <1>1 DEF Did
<1>5. Survives(g.payload, want)
  BY <1>3, PlainSurvives
<1> QED
  BY <1>4, <1>5, OneSent DEF res

LEMMA AckSurvives ==
  ASSUME NEW f, NEW want, NEW default, NEW effect
  PROVE  AllSurvive(Did(Acknowledge(f, default), effect), want)
<1> DEFINE h == <<IF f.payload.len > 0 THEN At(f.payload, 0) ELSE default>>
           flags == ResultFlags(f)
           p == Payload(h, 1)
           g == Frame(flags, f.op, f.id, p)
           q == Acknowledge(f, default)
           res == Did(q, effect)
<1>1. q = <<>> \/ q = <<g>>
  BY DEF Acknowledge
<1> HIDE DEF h, flags
<1>2. p.child = None
  BY PayloadFacts
<1> HIDE DEF p
<1>3. g.payload = p
  BY FrameFacts
<1> HIDE DEF g, q
<1>4. res.replies = q /\ res.pushes = {}
  BY DidFacts
<1> HIDE DEF res
<1>5. Survives(g.payload, want)
  BY <1>2, <1>3, PlainSurvives
<1>6. AllSurvive(res, want)
  BY <1>1, <1>4, <1>5, OneSent, NothingSent
<1> QED
  BY <1>6 DEF res, q

\* The slot that the answer to f is about.
AskedSlot(f) == IF port = "deck" THEN OwnSlot ELSE RequestedSlot(f.payload)

\* What is answered to a request for a slot, or to one for something else.
LEMMA SlotOrPlain ==
  ASSUME NEW slot, NEW h, NEW len, NEW r
  PROVE  Survives(IF r = 28 THEN BuildPayload(ChildAt(slot), FALSE, slot) ELSE Payload(h, len), slot)
<1> DEFINE p == Payload(h, len)
           q == BuildPayload(ChildAt(slot), FALSE, slot)
<1>1. Survives(q, slot)
  BY ChildSurvives
<1>2. p.child = None
  BY DEF Payload
<1> HIDE DEF p, q
<1>3. Survives(p, slot)
  BY <1>2, PlainSurvives
<1> QED
  BY <1>1, <1>3 DEF p, q

LEMMA DeckAnswerSurvives ==
  ASSUME NEW f
  PROVE  Survives(DeckAnswer(f), OwnSlot)
<1> DEFINE r == ReportId(f.payload)
           own == Slots[OwnSlot]
           p == DeckAnswer(f)
<1>1. CASE r = 28
  <2>1. p = BuildPayload(Connected(OwnSlot, own, PortOf(OwnSlot)), FALSE, OwnSlot)
    BY <1>1 DEF DeckAnswer
  <2>2. Connected(OwnSlot, own, PortOf(OwnSlot)) = ChildAt(OwnSlot)
    BY RequestsAssumption DEF ChildAt, Children
  <2>3. p = BuildPayload(ChildAt(OwnSlot), FALSE, OwnSlot)
    BY <2>1, <2>2
  <2> QED
    BY <2>3, ChildSurvives
<1>2. CASE r # 28
  <2> DEFINE fw == UpTo(Config.firmware, 30)
             sn == UpTo(own.serial, 30)
             len == LongOr(f, 32)
             h == CASE r = 5 -> <<5, Len(fw), 0, 0, 0, 0>> \o fw
                    [] r = 6 -> <<6, Len(sn)>> \o sn
                    [] r = 11 -> <<11, 2, 48, 1>>
                    [] r = 128 -> DeviceInfo(own.vid, own.pid)
                    [] OTHER -> <<3, r>>
  <2>1. p = Payload(h, len) \/ p = Payload(h, 16)
    BY <1>2 DEF DeckAnswer
  <2> HIDE DEF p, h, len
  <2>2. p.child = None
    BY <2>1, PayloadFacts
  <2> QED
    BY <2>2, PlainSurvives DEF p
<1> QED
  BY <1>1, <1>2

LEMMA OutcomeSurvives ==
  ASSUME NEW f \in Frames, NEW data, port \in {"dock", "hub", "deck"}
  PROVE  AllSurvive(Outcome(f, data), AskedSlot(f))
<1> DEFINE out == Outcome(f, data)
           want == AskedSlot(f)
           r == ReportId(f.payload)
           slot == RequestedSlot(f.payload)
<1>0. f.payload.len \in Nat
  BY RequestsAssumption DEF Payloads
<1>1. ASSUME out = Did(<<>>, "none")
      PROVE  AllSurvive(out, want)
  <2> HIDE DEF out, want
  <2>1. out.replies = <<>> /\ out.pushes = {}
    BY <1>1 DEF Did
  <2> QED
    BY <2>1, NothingSent
<1>2. CASE IsKeepaliveProbe(f.payload)
  <2>0. port \in Ports
    BY DEF Ports
  <2>1. out = EchoProbe(f)
    BY <1>2, <2>0, ProbeIsEchoed
  <2> HIDE DEF want, out
  <2> QED
    BY <2>1, EchoSurvives DEF want, out
<1>3. CASE port = "dock" /\ ~ IsKeepaliveProbe(f.payload)
  <2>1. out = PrimaryHandle(f, data) /\ want = slot
    BY <1>3 DEF Outcome, AskedSlot
  <2>2. CASE f.payload.len > 0
    <3> DEFINE asks == r \notin Local /\ deck # None
               h == IF asks THEN Aligned(r, data) ELSE DockReport(r, deck, local)
               len == LongOr(f, 128)
               p == IF r = 28 THEN BuildPayload(ChildAt(slot), FALSE, slot) ELSE Payload(h, len)
               g == Frame({"RESULT"}, f.op, f.id, p)
    <3>1. PrimaryHandle(f, data) = PrimaryAnswer(f, data)
      BY <1>3, <2>2 DEF PrimaryHandle
    <3>2. Replies(PrimaryAnswer(f, data), f, {"RESULT"}, p)
      BY PrimaryAnswerFacts
    <3>3. PrimaryAnswer(f, data).pushes \subseteq ChildPushes
      BY PrimaryAnswerFacts
    <3>4. Survives(p, slot)
      <4> HIDE DEF h, len, slot, r
      <4> QED
        BY SlotOrPlain
    <3> HIDE DEF p
    <3>5. g.payload = p
      BY FrameFacts
    <3>6. PrimaryAnswer(f, data).replies = <<g>>
      BY <3>2 DEF Replies
    <3> HIDE DEF g, out, want, slot
    <3>7. out.replies = <<g>> /\ out.pushes \subseteq ChildPushes
      BY <2>1, <3>1, <3>3, <3>6
    <3>8. \A e \in out.pushes : Survives(e.payload, want)
      BY <3>7, PushesSurvive
    <3>9. Survives(g.payload, want)
      BY <2>1, <3>4, <3>5
    <3> QED
      BY <3>7, <3>8, <3>9, OneSent DEF out, want
  <2>3. CASE ~ f.payload.len > 0
    BY <1>1, <1>3, <2>1, <2>3 DEF PrimaryHandle
  <2> QED
    BY <2>2, <2>3
<1>4. CASE port = "hub" /\ ~ IsKeepaliveProbe(f.payload)
  <2>1. out = HubHandle(f) /\ want = slot
    BY <1>4 DEF Outcome, AskedSlot
  <2>2. CASE f.payload.len > 0
    <3> DEFINE h == DockReport(r, None, Config.ip)
               p == IF r = 28 THEN BuildPayload(ChildAt(slot), FALSE, slot) ELSE Payload(h, Long)
               g == ResponseFrame(f.id, p)
    <3>1. HubHandle(f) = Did(<<g>>, "none")
      BY <1>4, <2>2 DEF HubHandle
    <3>2. Survives(p, slot)
      <4> HIDE DEF h, slot, r
      <4> QED
        BY SlotOrPlain
    <3> HIDE DEF p
    <3>3. g.payload = p
      BY FrameFacts DEF ResponseFrame
    <3> HIDE DEF g, out, want, slot
    <3>4. out.replies = <<g>> /\ out.pushes = {}
      BY <2>1, <3>1 DEF Did
    <3>5. Survives(g.payload, want)
      BY <2>1, <3>2, <3>3
    <3> QED
      BY <3>4, <3>5, OneSent DEF out, want
  <2>3. CASE ~ f.payload.len > 0
    BY <1>1, <1>4, <2>1, <2>3 DEF HubHandle
  <2> QED
    BY <2>2, <2>3
<1>5. CASE port = "deck" /\ ~ IsKeepaliveProbe(f.payload)
  <2>1. out = DeckHandle(f) /\ want = OwnSlot
    BY <1>5 DEF Outcome, AskedSlot
  <2>2. CASE IsKeepaliveAck(f.payload)
    BY <1>1, <1>5, <2>1, <2>2 DEF DeckHandle
  <2>3. CASE ~ IsKeepaliveAck(f.payload) /\ IsQuery(f) /\ f.payload.len = 0
    <3>1. DeckHandle(f) = [Did(<<>>, "none") EXCEPT !.alive = FALSE]
      BY <1>5, <2>3 DEF DeckHandle
    <3> HIDE DEF out, want
    <3>2. out.replies = <<>> /\ out.pushes = {}
      BY <2>1, <3>1 DEF Did
    <3> QED
      BY <3>2, NothingSent DEF out, want
  <2>4. CASE ~ IsKeepaliveAck(f.payload) /\ IsQuery(f) /\ f.payload.len # 0
    <3> DEFINE p == DeckAnswer(f)
               flags == ResultFlags(f)
               g == Frame(flags, f.op, f.id, p)
    <3>1. DeckHandle(f) = Did(<<g>>, "none")
      BY <1>5, <2>4 DEF DeckHandle
    <3>2. Survives(p, OwnSlot)
      BY DeckAnswerSurvives
    <3> HIDE DEF p, flags
    <3>3. g.payload = p
      BY FrameFacts
    <3> HIDE DEF g, out, want
    <3>4. out.replies = <<g>> /\ out.pushes = {}
      BY <2>1, <3>1 DEF Did
    <3>5. Survives(g.payload, want)
      BY <2>1, <3>2, <3>3
    <3> QED
      BY <3>4, <3>5, OneSent DEF out, want
  <2>5. CASE ~ IsKeepaliveAck(f.payload) /\ ~ IsQuery(f)
    <3> DEFINE default == IF f.op = "SendReport" THEN 3 ELSE 2
               effect == SurfaceEffect(f)
    <3>1. DeckHandle(f) = Did(Acknowledge(f, default), effect)
      BY <1>5, <2>5 DEF DeckHandle
    <3> HIDE DEF default, effect, out, want
    <3> QED
      BY <2>1, <3>1, AckSurvives DEF out, want
  <2> QED
    BY <2>2, <2>3, <2>4, <2>5
<1> QED
  BY <1>2, <1>3, <1>4, <1>5

\* Child reports, pushed or asked for, are parsed back to what their slot holds, for
\* texts of any length and any length of their fields (reports.rs:158-290).
THEOREM ChildReportsSurvive == Spec => []ChildInfoSurvives
<1> DEFINE Sent == port \in {"dock", "hub", "deck"} => AllSurvive(result, AskedSlot(frame))
<1>0. Sent => ChildInfoSurvives
  BY DEF ChildInfoSurvives, AllSurvive, Survives, AskedSlot
<1>1. Init => Sent
  <2> SUFFICES ASSUME Init
               PROVE  AllSurvive(result, AskedSlot(frame))
    OBVIOUS
  <2>1. result.pushes = {} /\ result.replies = <<>>
    BY DEF Init, Did
  <2> QED
    BY <2>1, NothingSent
<1>2. PortInv /\ Sent /\ [Next]_vars => Sent'
  <2> SUFFICES ASSUME PortInv, Sent, [Next]_vars
               PROVE  Sent'
    OBVIOUS
  <2> DEFINE res == result'
             want == AskedSlot(frame)'
  <2>0. ASSUME AllSurvive(res, want)
        PROVE  Sent'
    BY <2>0 DEF AllSurvive, Survives, Parse
  <2>1. ASSUME res = Did(<<>>, "none")
        PROVE  Sent'
    <3> HIDE DEF res, want
    <3>1. res.pushes = {} /\ res.replies = <<>>
      BY <2>1 DEF Did
    <3>2. AllSurvive(res, want)
      BY <3>1, NothingSent
    <3> QED
      BY <2>0, <3>2
  <2>2. ASSUME NEW p \in Ports, AcceptPrimary(p)
        PROVE  Sent'
    BY <2>1, <2>2 DEF AcceptPrimary
  <2>3. ASSUME NEW p \in Ports, AcceptOther(p)
        PROVE  Sent'
    <3>1. CASE p # "hub"
      BY <2>1, <2>3, <3>1 DEF AcceptOther
    <3>2. CASE p = "hub"
      <4> DEFINE probe == KeepaliveProbe(1, 1)
      <4>1. res = [Did(<<>>, "none") EXCEPT !.pushes = {probe} \cup ChildPushes]
        BY <2>3, <3>2 DEF AcceptOther
      <4>2. Survives(probe.payload, want)
        <5>1. probe.payload.child = None
          BY DEF KeepaliveProbe, Frame, Payload
        <5> HIDE DEF probe, want
        <5> QED
          BY <5>1, PlainSurvives
      <4> HIDE DEF probe, res, want
      <4>3. res.pushes = {probe} \cup ChildPushes /\ res.replies = <<>>
        BY <4>1 DEF Did
      <4>4. Range(res.replies) = {}
        BY <4>3 DEF Range
      <4>5. AllSurvive(res, want)
        BY <4>2, <4>3, <4>4, PushesSurvive DEF AllSurvive
      <4> QED
        BY <2>0, <4>5
    <3> QED
      BY <3>1, <3>2
  <2>4. ASSUME NEW f \in Frames, NEW data \in UsbData \cup {Failed}, Handle(f, data)
        PROVE  Sent'
    <3>1. frame' = f /\ res = Outcome(f, data) /\ port' = port
      BY <2>4 DEF Handle
    <3>2. want = AskedSlot(f)
      BY <3>1 DEF AskedSlot
    <3>3. CASE port \in {"dock", "hub", "deck"}
      <4>1. AllSurvive(Outcome(f, data), AskedSlot(f))
        BY <3>3, OutcomeSurvives
      <4> QED
        BY <2>0, <3>1, <3>2, <4>1
    <3>4. CASE port \notin {"dock", "hub", "deck"}
      BY <3>1, <3>4
    <3> QED
      BY <3>3, <3>4
  <2>5. CASE Finish
    BY <2>1, <2>5 DEF Finish
  <2>6. CASE UNCHANGED vars
    BY <2>6 DEF vars, AskedSlot, AllSurvive
  <2> QED
    BY <2>2, <2>3, <2>4, <2>5, <2>6 DEF Next
<1> QED
  BY <1>0, <1>1, <1>2, PortInit, PortStep, PTL DEF Spec
================================================================================
