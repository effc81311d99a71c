------------------------------- MODULE Reports ---------------------------------
(***************************************************************************)
(* Frames and report payloads of the protocol crate (cora.rs, keepalive.rs,*)
(* reports.rs), without state.  A payload is its length and its first      *)
(* bytes, all others being zero; a child device's report also has its      *)
(* fields.  Texts are sequences of bytes other than 0.                     *)
(***************************************************************************)
EXTENDS Naturals, Sequences, FiniteSetsExt, Functions

CONSTANTS
  FieldLen,   \* length of a text field in a child device's report
  None        \* Option::None

ASSUME ReportsAssumption == FieldLen \in Nat \ {0}

Long == 1024            \* length from which a request is answered in full length

Payload(head, len) == [head |-> head, len |-> len, child |-> None]

Bytes == 0 .. 255
Texts == Seq(1 .. 255)

\* What a client or a deck sends, which is no child device's report.
Payloads == [head : Seq(Bytes), len : Nat, child : {None}]

\* Byte k of a payload, counted from 0 as in the code.
At(p, k) == IF k < Len(p.head) THEN p.head[k + 1] ELSE 0

Frame(flags, op, id, payload) ==
  [flags |-> flags, op |-> op, id |-> id, payload |-> payload]

\* u16::to_le_bytes and u16::from_le_bytes.
ToLe(n) == <<n % 256, n \div 256>>
FromLe(b) == b[1] + 256 * b[2]

Zeros(n) == [k \in 1 .. n |-> 0]
UpTo(text, n) == SubSeq(text, 1, Min({n, Len(text)}))

--------------------------------------------------------------------------------
(***************************************************************************)
(* Keepalives and queries.                                                 *)
(***************************************************************************)
IsKeepaliveProbe(p) == p.len >= 6 /\ At(p, 0) = 1 /\ At(p, 1) = 10
IsKeepaliveAck(p) == p.len >= 3 /\ At(p, 0) = 3 /\ At(p, 1) = 26

KeepaliveProbe(conn, id) == Frame({}, "Write", id, Payload(<<1, 10, 0, 0, 0, conn>>, 32))

\* A variant: the id of the connection is not copied.
KeepaliveAckOfNobody(conn, id) == Frame({"ACK_NAK"}, "Write", id, Payload(<<3, 26, 0>>, 32))

KeepaliveAck(conn, id) == Frame({"ACK_NAK"}, "Write", id, Payload(<<3, 26, conn>>, 32))

\* parse_primary_query, and the report_id of both bridges; for p.len > 0.
ReportId(p) == IF At(p, 0) = 3 /\ p.len >= 2 THEN At(p, 1) ELSE At(p, 0)

RequestedSlot(p) == IF p.len >= 3 THEN At(p, 2) ELSE 0

--------------------------------------------------------------------------------
(***************************************************************************)
(* Reports of the dock and of a deck.                                      *)
(***************************************************************************)
DeviceInfo(vid, pid) == <<3, 128>> \o Zeros(10) \o ToLe(vid) \o ToLe(pid)
FirmwareVersion(text) == <<3, 131>> \o Zeros(6) \o UpTo(text, 8)
SerialNumber(text) == <<3, 132, 0, Min({32, Len(text)})>> \o UpTo(text, 32)
MacAddress(mac) == <<3, 133, 0, 0>> \o mac

\* Without an IPv4 address, address, mask and gateway stay zero.
NetworkConfig(ip, port) ==
  <<3, 135, 1, 1>>
    \o (IF ip = None THEN Zeros(12) ELSE ip \o <<255, 255, 255, 0>> \o ip)
    \o ToLe(port)

--------------------------------------------------------------------------------
(***************************************************************************)
(* ChildDeviceInfo: what a slot holds, and the 128 bytes that say so.      *)
(***************************************************************************)
Disconnected(slot) ==
  [slot |-> slot, connected |-> FALSE, vid |-> 0, pid |-> 0, name |-> <<>>,
   serial |-> <<>>, port |-> 0]

Connected(slot, deck, port) ==
  [slot |-> slot, connected |-> TRUE, vid |-> deck.vid, pid |-> deck.pid,
   name |-> UpTo(deck.name, FieldLen - 1), serial |-> UpTo(deck.serial, FieldLen - 1),
   port |-> port]

\* A text in a field of n bytes, filled up with zeros.
ToField(text) == [k \in 1 .. FieldLen |-> IF k <= Len(text) THEN text[k] ELSE 0]

\* A variant: the end of the text is the last zero, not the first.
FromFieldLast(field) ==
  LET ends == {k \in 1 .. FieldLen : field[k] = 0}
  IN  IF ends = {} THEN field ELSE SubSeq(field, 1, Max(ends) - 1)

FromField(field) ==
  LET ends == {k \in 1 .. FieldLen : field[k] = 0}
  IN  IF ends = {} THEN field ELSE SubSeq(field, 1, Min(ends) - 1)

BuildPayload(c, push, requested) ==
  [head |-> (IF push THEN <<1, 11>> ELSE <<3, 28>>) \o ToLe(124),
   len |-> 128,
   child |-> [status |-> IF c.connected THEN 2 ELSE 0,
              slot |-> IF c.connected THEN c.slot ELSE requested,
              vid |-> ToLe(c.vid), pid |-> ToLe(c.pid), name |-> ToField(c.name),
              serial |-> ToField(c.serial), port |-> ToLe(c.port)]]

\* ChildDeviceInfo::parse, of a payload of at least 128 bytes.
Parse(p) ==
  LET c == p.child
  IN  IF c.status # 2 THEN None
      ELSE [slot |-> c.slot, connected |-> TRUE, vid |-> FromLe(c.vid),
            pid |-> FromLe(c.pid), name |-> FromField(c.name),
            serial |-> FromField(c.serial), port |-> FromLe(c.port)]

\* build_cora_response_frame and build_cora_push_frame.
ResponseFrame(id, payload) == Frame({"RESULT"}, "GetReport", id, payload)
PushFrame(payload) == Frame({}, "Write", 0, payload)
================================================================================
