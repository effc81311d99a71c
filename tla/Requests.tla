------------------------------- MODULE Requests --------------------------------
(***************************************************************************)
(* What each of the four frame handlers does with a frame: the server's    *)
(* primary port in dock and in direct mode (connection.rs), its bridge to  *)
(* a deck (bridge.rs), and the hub and the deck bridge of the embedded     *)
(* crate.  A handler is an operator from a frame, and from what the USB    *)
(* device returned where it is asked, to the frames it sends and what it   *)
(* does to the deck.                                                       *)
(*                                                                         *)
(* Connections come one after the other and exchange one frame at a time;  *)
(* DeckBridge and Hotplug have the interleavings.                          *)
(***************************************************************************)
EXTENDS Reports

CONSTANTS
  Frames,      \* the frames clients send
  UsbData,     \* payloads a deck returns for a feature report
  Failed,      \* a transfer that failed
  Slots,       \* [slot -> deck or None], the slot table
  OwnSlot,     \* the slot of the deck behind a bridge
  BasePort,    \* secondary_port
  LocalIps,    \* addresses a client may reach the primary port at; None: not IPv4
  IdSpace,     \* 2^8, the range of the AtomicU8
  Config       \* serial, firmware, mac, ip, vid and pid of the dock, primary port

ASSUME RequestsAssumption ==
  /\ \A f \in Frames : f.payload \in Payloads
  /\ UsbData \subseteq Payloads
  /\ DOMAIN Slots \subseteq Nat /\ OwnSlot \in DOMAIN Slots /\ Slots[OwnSlot] # None
  /\ \A s \in DOMAIN Slots :
       Slots[s] \in [vid : Nat, pid : Nat, name : Texts, serial : Texts] \cup {None}
  /\ BasePort \in Nat
  /\ LocalIps \subseteq Seq(Bytes) \cup {None}
  /\ IdSpace \in Nat /\ IdSpace > 2
  /\ Config \in [vid : Nat, pid : Nat, port : Nat, serial : Texts, firmware : Texts,
                 mac : Seq(Bytes), ip : Seq(Bytes)]

VARIABLES
  port,      \* the port of the connection
  deck,      \* direct mode: the deck found when the connection was accepted
  local,     \* the primary port: the IPv4 address of local_addr
  polled,    \* has_sent_initial_hotplug
  counter,   \* conn_counter
  ids,       \* history: the last ids given out, newest last
  frame,     \* the frame being handled, None before and after
  usb,       \* what the deck returned for it
  result     \* what the handler did

vars == <<port, deck, local, polled, counter, ids, frame, usb, result>>

Ports == {"dock", "direct", "bridge", "hub", "deck"}

\* secondary_port.saturating_add(slot), of a u16.
PortOf(s) == IF BasePort + s > 65535 THEN 65535 ELSE BasePort + s

Children == {s \in DOMAIN Slots : Slots[s] # None}
ChildAt(s) ==
  IF s \in Children THEN Connected(s, Slots[s], PortOf(s)) ELSE Disconnected(s)

Did(replies, effect) ==
  [replies |-> replies, effect |-> effect, pushes |-> {}, alive |-> TRUE]

--------------------------------------------------------------------------------
(***************************************************************************)
(* Shared by the handlers.                                                 *)
(***************************************************************************)
EchoProbe(f) == Did(<<KeepaliveAck(At(f.payload, 5), f.id)>>, "none")

WantsAck(f) == "REQ_ACK" \in f.flags \/ f.id # 0

ResultFlags(f) == {"RESULT"} \cup (f.flags \cap {"VERBATIM"})

\* A variant: only REQ_ACK asks for an acknowledgement.
AcknowledgeFlagged(f, default) ==
  IF "REQ_ACK" \in f.flags
  THEN <<Frame(ResultFlags(f), f.op, f.id,
               Payload(<<IF f.payload.len > 0 THEN At(f.payload, 0) ELSE default>>, 1))>>
  ELSE <<>>

\* The acknowledgement of a write: the first byte of its payload.
Acknowledge(f, default) ==
  IF WantsAck(f)
  THEN <<Frame(ResultFlags(f), f.op, f.id,
               Payload(<<IF f.payload.len > 0 THEN At(f.payload, 0) ELSE default>>, 1))>>
  ELSE <<>>

\* GetReport, or Write with 03 in front.
IsQuery(f) ==
  \/ f.op = "GetReport"
  \/ f.op = "Write" /\ f.payload.len > 0 /\ At(f.payload, 0) = 3

LongOr(f, len) == IF f.payload.len >= Long THEN Long ELSE len

--------------------------------------------------------------------------------
(***************************************************************************)
(* The primary port.                                                       *)
(***************************************************************************)
\* A variant: as the deck returned it.
AsReturned(r, data) == IF data = Failed THEN <<3, r>> ELSE data.head

\* What the deck returned, behind the two bytes 03 and opcode.
Aligned(r, data) ==
  IF data = Failed \/ data.len = 0 THEN <<3, r>>
  ELSE IF data.len >= 2 /\ At(data, 0) = 3 /\ At(data, 1) = r THEN data.head
  ELSE IF At(data, 0) = r THEN <<3>> \o data.head
  ELSE <<3, r>> \o data.head

\* Reports that are answered without asking a deck; dev is the deck or None, ip
\* the address the dock gives as its own.
DockReport(r, dev, ip) ==
  LET identity == IF dev = None THEN Config ELSE dev
  IN  CASE r = 128 -> DeviceInfo(identity.vid, identity.pid)
        [] r = 131 -> FirmwareVersion(Config.firmware)
        [] r = 132 -> SerialNumber(identity.serial)
        [] r = 133 -> MacAddress(Config.mac)
        [] r = 135 -> NetworkConfig(ip, Config.port)
        [] OTHER -> <<3, r>>

Local == {128, 131, 132, 133, 28, 135, 143, 26}

\* The first 0x1a in dock mode: a push for each child, from tasks of their own.
IsFirstPoll(f) ==
  /\ port = "dock" /\ ~ polled
  /\ f.payload.len > 0 /\ ~ IsKeepaliveProbe(f.payload) /\ ReportId(f.payload) = 26

ChildPushes == {PushFrame(BuildPayload(ChildAt(s), TRUE, s)) : s \in Children}

PrimaryAnswer(f, data) ==
  LET r    == ReportId(f.payload)
      slot == RequestedSlot(f.payload)
      asks == r \notin Local /\ deck # None
      body == IF r = 28 THEN BuildPayload(ChildAt(slot), FALSE, slot)
              ELSE Payload(IF asks THEN Aligned(r, data) ELSE DockReport(r, deck, local), LongOr(f, 128))
  IN  [Did(<<Frame({"RESULT"}, f.op, f.id, body)>>, IF asks THEN "get" ELSE "none")
         EXCEPT !.pushes = IF IsFirstPoll(f) THEN ChildPushes ELSE {}]

\* FrameHandler::handle_frame; deck is None in dock mode.
PrimaryHandle(f, data) ==
  IF IsKeepaliveProbe(f.payload) THEN EchoProbe(f)
  ELSE IF port = "direct" /\ f.op = "Write" /\ f.payload.len > 0 /\ At(f.payload, 0) \notin {1, 3}
  THEN Did(Acknowledge(f, 2), IF deck # None THEN "write" ELSE "none")
  ELSE IF port = "direct" /\ f.op = "SendReport"
  THEN Did(Acknowledge(f, 3), IF deck # None /\ f.payload.len > 0 THEN "set" ELSE "none")
  ELSE IF f.payload.len > 0 THEN PrimaryAnswer(f, data)
  ELSE Did(<<>>, "none")

\* EmbeddedDockHub::handle_frame.
HubHandle(f) ==
  LET r    == ReportId(f.payload)
      slot == RequestedSlot(f.payload)
      body == IF r = 28 THEN BuildPayload(ChildAt(slot), FALSE, slot)
              ELSE Payload(DockReport(r, None, Config.ip), Long)
  IN  IF IsKeepaliveProbe(f.payload) THEN EchoProbe(f)
      ELSE Did(IF f.payload.len > 0 THEN <<ResponseFrame(f.id, body)>> ELSE <<>>, "none")

--------------------------------------------------------------------------------
(***************************************************************************)
(* The port of a deck.                                                     *)
(***************************************************************************)
\* The server answers 1c and 80 itself and asks the deck for the rest.
BridgeAnswer(f, data) ==
  LET own  == Slots[OwnSlot]
      r    == ReportId(f.payload)
      slot == RequestedSlot(f.payload)
      body == CASE r = 28 -> [BuildPayload(Connected(slot, own, 5344), FALSE, slot)
                                EXCEPT !.len = LongOr(f, 128)]
                [] r = 128 -> Payload(DeviceInfo(own.vid, own.pid), LongOr(f, 16))
                [] OTHER -> IF data = Failed THEN Payload(<<3, r>>, LongOr(f, 32))
                            ELSE Payload(data.head, LongOr(f, data.len))
  IN  Did(<<Frame(ResultFlags(f), f.op, f.id, body)>>, IF r \in {28, 128} THEN "none" ELSE "get")

\* SecondaryConnection::handle_incoming_frame.
BridgeHandle(f, data) ==
  IF IsKeepaliveProbe(f.payload) THEN EchoProbe(f)
  ELSE IF IsKeepaliveAck(f.payload) THEN Did(<<>>, "none")
  ELSE IF IsQuery(f)
  THEN IF f.payload.len = 0 THEN Did(<<>>, "none") ELSE BridgeAnswer(f, data)
  ELSE IF f.op = "SendReport"
  THEN Did(Acknowledge(f, 3), IF f.payload.len > 0 THEN "set" ELSE "none")
  ELSE Did(Acknowledge(f, 2), IF f.payload.len > 0 THEN "write" ELSE "none")

\* The surface of a board answers for itself; firmware_version is the dock's here.
DeckAnswer(f) ==
  LET own == Slots[OwnSlot]
      r   == ReportId(f.payload)
      fw  == UpTo(Config.firmware, 30)
      sn  == UpTo(own.serial, 30)
      len == LongOr(f, 32)
  IN  CASE r = 5 -> Payload(<<5, Len(fw), 0, 0, 0, 0>> \o fw, len)
        [] r = 6 -> Payload(<<6, Len(sn)>> \o sn, len)
        [] r = 11 -> Payload(<<11, 2, 48, 1>>, len)
        [] r = 128 -> Payload(DeviceInfo(own.vid, own.pid), 16)
        [] r = 28 -> BuildPayload(Connected(OwnSlot, own, PortOf(OwnSlot)), FALSE, OwnSlot)
        [] OTHER -> Payload(<<3, r>>, len)

\* What a SendReport or a Write does to the surface.
SurfaceEffect(f) ==
  LET p == f.payload
  IN  IF f.op = "SendReport" /\ p.len >= 3 /\ At(p, 0) = 3 /\ At(p, 1) = 8 THEN "brightness"
      ELSE IF f.op = "Write" /\ p.len >= 8 /\ At(p, 0) = 2 /\ At(p, 1) \in {7, 12} THEN "image"
      ELSE "none"

\* A variant: VERBATIM is dropped.
DeckHandlePlain(f) ==
  IF IsKeepaliveProbe(f.payload) THEN EchoProbe(f)
  ELSE IF IsKeepaliveAck(f.payload) THEN Did(<<>>, "none")
  ELSE IF IsQuery(f)
  THEN IF f.payload.len = 0 THEN [Did(<<>>, "none") EXCEPT !.alive = FALSE]
       ELSE Did(<<Frame({"RESULT"}, f.op, f.id, DeckAnswer(f))>>, "none")
  ELSE Did(Acknowledge(f, IF f.op = "SendReport" THEN 3 ELSE 2), SurfaceEffect(f))

\* EmbeddedDeckBridge::handle_incoming_frame; payload[0] of nothing panics.
DeckHandle(f) ==
  IF IsKeepaliveProbe(f.payload) THEN EchoProbe(f)
  ELSE IF IsKeepaliveAck(f.payload) THEN Did(<<>>, "none")
  ELSE IF IsQuery(f)
  THEN IF f.payload.len = 0 THEN [Did(<<>>, "none") EXCEPT !.alive = FALSE]
       ELSE Did(<<Frame(ResultFlags(f), f.op, f.id, DeckAnswer(f))>>, "none")
  ELSE Did(Acknowledge(f, IF f.op = "SendReport" THEN 3 ELSE 2), SurfaceEffect(f))

--------------------------------------------------------------------------------
Init ==
  /\ port = None
  /\ deck = None /\ local = None
  /\ polled = FALSE
  /\ counter = 1
  /\ ids = <<>>
  /\ frame = None
  /\ usb = Failed
  /\ result = Did(<<>>, "none")

\* A variant: 0 is not skipped.
GivenId == counter

\* next_connection_id: fetch_add wraps, and 0 is fetched over.
NextConnectionId == IF counter = 0 THEN 1 ELSE counter

\* The accept loop of the primary port, which gives every connection an id.
AcceptPrimary(p) ==
  /\ frame = None /\ result.alive
  /\ p \in {"dock", "direct"}
  /\ port' = p
  /\ deck' \in IF p = "direct" THEN {None, Slots[OwnSlot]} ELSE {None}
  /\ local' \in LocalIps
  /\ polled' = FALSE
  /\ ids' = (IF Len(ids) = IdSpace - 1 THEN Tail(ids) ELSE ids) \o <<NextConnectionId>>
  /\ counter' = (NextConnectionId + 1) % IdSpace
  /\ result' = Did(<<>>, "none")
  /\ UNCHANGED <<frame, usb>>

\* The other ports call every connection 1; the hub greets with a probe and pushes.
AcceptOther(p) ==
  /\ frame = None /\ result.alive
  /\ p \in {"bridge", "hub", "deck"}
  /\ port' = p
  /\ deck' = None /\ local' = None
  /\ polled' = FALSE
  /\ result' = IF p = "hub"
               THEN [Did(<<>>, "none") EXCEPT !.pushes =
                       {KeepaliveProbe(1, 1)} \cup ChildPushes]
               ELSE Did(<<>>, "none")
  /\ UNCHANGED <<counter, ids, frame, usb>>

Outcome(f, data) ==
  CASE port \in {"dock", "direct"} -> PrimaryHandle(f, data)
    [] port = "bridge" -> BridgeHandle(f, data)
    [] port = "hub" -> HubHandle(f)
    [] port = "deck" -> DeckHandle(f)

Handle(f, data) ==
  /\ port # None /\ frame = None /\ result.alive
  /\ frame' = f
  /\ usb' = data
  /\ result' = Outcome(f, data)
  /\ data # Failed => result'.effect = "get"
  /\ polled' = (polled \/ IsFirstPoll(f))
  /\ UNCHANGED <<port, deck, local, counter, ids>>

\* The client has its answer.
Finish ==
  /\ frame # None /\ result.alive
  /\ frame' = None
  /\ usb' = Failed
  /\ result' = Did(<<>>, "none")
  /\ UNCHANGED <<port, deck, local, polled, counter, ids>>

\* A board whose firmware panicked answers nobody.
Halted == ~ result.alive

Next ==
  \/ \E p \in Ports : AcceptPrimary(p) \/ AcceptOther(p)
  \/ \E f \in Frames, data \in UsbData \cup {Failed} : Handle(f, data)
  \/ Finish
  \/ Halted /\ UNCHANGED vars

Spec == Init /\ [][Next]_vars

--------------------------------------------------------------------------------
\* On all ports, a frame that asks for a reply (GetReport, a message id or
\* REQ_ACK) gets exactly one, marked as such and with its message id, unless its
\* payload is empty or it reads as a keepalive ack; no frame gets two, and only
\* the empty query to a board stops it (connection.rs:260-520, bridge.rs:221-461,
\* hub.rs:124-223 and bridge.rs:105-281 of the embedded crate).
WhoAsksIsAnsweredOnce ==
  frame # None =>
    LET asks == frame.op = "GetReport" \/ frame.id # 0 \/ "REQ_ACK" \in frame.flags
    IN  /\ Len(result.replies) <= 1
        /\ \A k \in DOMAIN result.replies :
              /\ result.replies[k].id = frame.id
              /\ result.replies[k].flags \cap {"RESULT", "ACK_NAK"} # {}
        /\ asks /\ frame.payload.len > 0 /\ ~ IsKeepaliveAck(frame.payload)
             => result.replies # <<>>
        /\ ~ result.alive => port = "deck" /\ frame.payload.len = 0

NamesReport(p, r) == At(p, 0) = r \/ (At(p, 0) = 3 /\ At(p, 1) = r)

\* The payload of an answer names the report that was asked for, in either form,
\* whatever layout the deck's own answer has; the bridge passes that one on
\* (connection.rs:481-498, bridge.rs:353-391).
AnswerNamesTheReport ==
  frame # None /\ IsQuery(frame) /\ ~ IsKeepaliveProbe(frame.payload) =>
    \A k \in DOMAIN result.replies :
       \/ NamesReport(result.replies[k].payload, ReportId(frame.payload))
       \/ port = "bridge" /\ usb # Failed /\ ~ NamesReport(usb, ReportId(frame.payload))

\* Keepalives are the connection's own: a probe is acknowledged with its id and
\* an ack never starts a transfer or changes the deck, although both look like
\* reports; only an ack that comes as a SendReport reaches a deck, in direct mode
\* (connection.rs:271-281 and 446-449, bridge.rs:237-251).
KeepalivesStayLocal ==
  frame # None =>
    /\ IsKeepaliveProbe(frame.payload) =>
         /\ result.effect = "none"
         /\ \A k \in DOMAIN result.replies :
               /\ IsKeepaliveAck(result.replies[k].payload)
               /\ At(result.replies[k].payload, 2) = At(frame.payload, 5)
    /\ IsKeepaliveAck(frame.payload) /\ frame.op # "SendReport" => result.effect = "none"

Header(f) == [flags |-> f.flags, op |-> f.op, id |-> f.id]

\* What a hub replies in place of a server's reply to a request for report r:
\* build_cora_response_frame knows neither its operation nor its length.
OnHub(reply, r) ==
  Frame(reply.flags, "GetReport", reply.id,
        IF r = 28 THEN reply.payload ELSE [reply.payload EXCEPT !.len = Long])

\* What a board answers, next to a server set up alike, unless the payload is
\* empty.  On a deck's port the same frames get the same number of replies with
\* the same flags, operation and message id, and those to a short request are as
\* long as the server's for a deck that does not answer.  On the dock's port the
\* replies have the same content, flags and message id; operation and length are
\* those of a GetReport in full length whatever was asked, and the address is the
\* configured one (hub.rs:142-219 and bridge.rs:105-281 of the embedded crate
\* against connection.rs:260-520 and bridge.rs:221-461 of the server).
BoardAnswersLikeServer ==
  frame # None /\ frame.payload.len > 0 =>
    /\ port = "deck" =>
         LET server == BridgeHandle(frame, Failed).replies
         IN  /\ Len(server) = Len(result.replies)
             /\ \A k \in DOMAIN server :
                   /\ Header(server[k]) = Header(result.replies[k])
                   /\ frame.payload.len < Long =>
                        server[k].payload.len = result.replies[k].payload.len
    /\ port = "dock" /\ local = Config.ip =>
         LET board == HubHandle(frame).replies
         IN  /\ Len(board) = Len(result.replies)
             /\ \A k \in DOMAIN board :
                   board[k] = IF IsKeepaliveProbe(frame.payload) THEN result.replies[k]
                              ELSE OnHub(result.replies[k], ReportId(frame.payload))

\* Whoever parses a child report, pushed or asked for, gets what the slot holds:
\* the deck's ids, its port, and its serial number and name up to the length of
\* their fields; an empty or impossible slot parses as none (reports.rs:158-290).
ChildInfoSurvives ==
  port \in {"dock", "hub", "deck"} =>
    \A p \in {f.payload : f \in result.pushes \cup Range(result.replies)} :
       p.child # None =>
         LET s == p.child.slot
         IN  /\ Parse(p) = (IF s \in Children THEN ChildAt(s) ELSE None)
             /\ p.head[1] = 3 => s = IF port = "deck" THEN OwnSlot ELSE RequestedSlot(frame.payload)

\* Until the counter comes round, connections have different ids, and none is 0
\* (dock.rs:97-104).
ConnectionIdsDiffer ==
  \A j, k \in DOMAIN ids : ids[j] # 0 /\ (j # k => ids[j] # ids[k])
================================================================================
