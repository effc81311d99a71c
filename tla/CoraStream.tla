------------------------------- MODULE CoraStream ------------------------------
(***************************************************************************)
(* How CORA frames are cut out of a TCP byte stream: CoraFrame::decode and *)
(* find_magic (cora.rs) under the read loop of a connection                *)
(* (connection.rs, bridge.rs and both loops of the embedded crate), which  *)
(* appends each chunk it reads to a buffer and decodes until more is       *)
(* needed, skipping to the next magic on an error.  The server's buffer    *)
(* grows; the one of the embedded crate has a fixed size, and a read into  *)
(* no room returns 0, which the loop takes for the end of the connection.  *)
(*                                                                         *)
(* Bytes are kept as far as decoding tells them apart: a magic of MagicLen *)
(* bytes, a last header byte that carries the payload length or an unknown *)
(* operation, payload and garbage.  Frame bytes name the frame they are    *)
(* from, which no decoder looks at.                                        *)
(***************************************************************************)
EXTENDS Naturals, Sequences, FiniteSetsExt

CONSTANTS
  MagicLen,    \* length of CORA_MAGIC
  HeaderLen,   \* CORA_HEADER_SIZE, with all header bytes after the magic as one
  MaxItems,    \* how many frames and runs of noise the client sends
  MaxPayload,  \* longest payload
  MaxNoise,    \* longest run of bytes that are not CORA
  BufSizes,    \* sizes of rx_buffer: 2048 on a board, beyond reach in the server
  SplitMagic   \* whether a chunk may end inside a magic once there was noise

ASSUME CoraAssumption ==
  /\ MagicLen \in Nat \ {0} /\ HeaderLen = MagicLen + 1
  /\ MaxItems \in Nat /\ MaxPayload \in Nat /\ MaxNoise \in Nat
  /\ SplitMagic \in BOOLEAN
  /\ BufSizes \subseteq Nat /\ \A s \in BufSizes : s >= HeaderLen

VARIABLES
  items,    \* how many more things the client will send
  wire,     \* bytes the client has sent that are not read yet
  noisy,    \* history: the client has sent something that is not a frame
  sent,     \* history: how many frames the client has sent, numbered from 1
  size,     \* the size of this connection's receive buffer
  buf,      \* read_buf, or rx_buffer up to rx_offset
  phase,    \* "read", "decode" or "closed"
  handled   \* history: the frames given to handle_frame, 0 for a mangled one

vars == <<items, wire, noisy, sent, size, buf, phase, handled>>

--------------------------------------------------------------------------------
(***************************************************************************)
(* Bytes.                                                                  *)
(***************************************************************************)
Magic(k) == [is |-> "magic", nth |-> k]
Field(f, op, len) == [is |-> "field", of |-> f, op |-> op, len |-> len]
Data(f) == [is |-> "data", of |-> f]
Noise == [is |-> "noise"]

Bytes ==
  {Magic(k) : k \in 1 .. MagicLen}
    \cup {Field(f, op, len) :
            f \in 0 .. MaxItems, op \in {"known", "unknown"}, len \in 0 .. MaxPayload}
    \cup {Data(f) : f \in 0 .. MaxItems}
    \cup {Noise}

MagicBytes == [k \in 1 .. MagicLen |-> Magic(k)]
Payload(f, len) == [k \in 1 .. len |-> Data(f)]

\* CoraFrame::encode, of frame number f with a payload of len bytes.
Encode(f, op, len) == MagicBytes \o <<Field(f, op, len)>> \o Payload(f, len)

--------------------------------------------------------------------------------
(***************************************************************************)
(* The decoder.                                                            *)
(***************************************************************************)
MagicAt(b, k) == SubSeq(b, k, k + MagicLen - 1) = MagicBytes

\* A variant: a magic at the very end of the buffer is missed.
PositionsButLast(b) == {k \in 1 .. Len(b) - MagicLen : MagicAt(b, k)}

Positions(b) == {k \in 1 .. Len(b) - MagicLen + 1 : MagicAt(b, k)}

\* find_magic, 1-based; 0 for None.
FindMagic(b) == IF Positions(b) = {} THEN 0 ELSE Min(Positions(b))

\* A variant: a frame is waited for until a byte follows it.
DecodeLate(b) ==
  IF Len(b) < HeaderLen THEN "more"
  ELSE IF ~ MagicAt(b, 1) \/ b[HeaderLen].is # "field" THEN "error"
  ELSE IF b[HeaderLen].op = "unknown" THEN "error"
  ELSE IF Len(b) <= HeaderLen + b[HeaderLen].len THEN "more"
  ELSE "frame"

\* CoraFrame::decode: Ok(None), Err(_) or the length of the frame at the front.
Decode(b) ==
  IF Len(b) < HeaderLen THEN "more"
  ELSE IF ~ MagicAt(b, 1) \/ b[HeaderLen].is # "field" THEN "error"
  ELSE IF b[HeaderLen].op = "unknown" THEN "error"
  ELSE IF Len(b) < HeaderLen + b[HeaderLen].len THEN "more"
  ELSE "frame"

\* A variant: the payload is not counted.
HeaderOnly(b) == HeaderLen

FrameLen(b) == HeaderLen + b[HeaderLen].len

FrameAtFront(b) ==
  LET h == b[HeaderLen]
  IN  IF SubSeq(b, HeaderLen + 1, FrameLen(b)) = Payload(h.of, h.len) THEN h.of ELSE 0

From(b, k) == SubSeq(b, k, Len(b))

--------------------------------------------------------------------------------
Init ==
  /\ items = MaxItems
  /\ wire = <<>>
  /\ noisy = FALSE
  /\ sent = 0
  /\ size \in BufSizes
  /\ buf = <<>>
  /\ phase = "read"
  /\ handled = <<>>

(***************************************************************************)
(* The client.                                                             *)
(***************************************************************************)
SendFrame(len) ==
  /\ items > 0
  /\ items' = items - 1
  /\ sent' = sent + 1
  /\ wire' = wire \o Encode(sent', "known", len)
  /\ UNCHANGED <<noisy, size, buf, phase, handled>>

\* A frame with an operation from_u8 does not know, or bytes that are no frame.
SendNoise(bytes) ==
  /\ items > 0
  /\ items' = items - 1
  /\ noisy' = TRUE
  /\ wire' = wire \o bytes
  /\ UNCHANGED <<sent, size, buf, phase, handled>>

NoiseRuns ==
  {[k \in 1 .. n |-> Noise] : n \in 1 .. MaxNoise}
    \cup {Encode(0, "unknown", len) : len \in 0 .. MaxPayload}

(***************************************************************************)
(* The read loop.                                                          *)
(***************************************************************************)
InsideMagic(n) == n < Len(wire) /\ wire[n + 1].is = "magic" /\ wire[n + 1].nth > 1

\* The read returns the first n bytes, as many as there is room for.
ReadChunk(n) ==
  /\ phase = "read"
  /\ n <= size - Len(buf)
  /\ InsideMagic(n) => SplitMagic \/ ~ noisy
  /\ buf' = buf \o SubSeq(wire, 1, n)
  /\ wire' = From(wire, n + 1)
  /\ phase' = "decode"
  /\ UNCHANGED <<items, noisy, sent, size, handled>>

\* rx_buffer is full, the slice that is left is empty, and Ok(0) ends the loop.
HangUp ==
  /\ phase = "read" /\ Len(buf) = size
  /\ phase' = "closed"
  /\ UNCHANGED <<items, wire, noisy, sent, size, buf, handled>>

\* Ok(None), or nothing left; copy_within moves the rest to the front.
NeedMore ==
  /\ phase = "decode" /\ Decode(buf) = "more"
  /\ phase' = "read"
  /\ UNCHANGED <<items, wire, noisy, sent, size, buf, handled>>

\* A variant: the buffer is not advanced.
HandleFrameAgain ==
  /\ phase = "decode" /\ Decode(buf) = "frame"
  /\ handled' = Append(handled, FrameAtFront(buf))
  /\ UNCHANGED <<items, wire, noisy, sent, size, buf, phase>>

\* Ok(Some((frame, consumed))).
HandleFrame ==
  /\ phase = "decode" /\ Decode(buf) = "frame"
  /\ handled' = Append(handled, FrameAtFront(buf))
  /\ buf' = From(buf, FrameLen(buf) + 1)
  /\ UNCHANGED <<items, wire, noisy, sent, size, phase>>

\* Err(_), and find_magic finds a magic after the first byte, or right there.
SkipToMagic ==
  /\ phase = "decode" /\ Decode(buf) = "error"
  /\ FindMagic(buf) # 0
  /\ buf' = From(buf, IF FindMagic(buf) = 1 THEN 2 ELSE FindMagic(buf))
  /\ UNCHANGED <<items, wire, noisy, sent, size, phase, handled>>

\* Err(_), and there is no magic: read_buf.clear().
Discard ==
  /\ phase = "decode" /\ Decode(buf) = "error"
  /\ FindMagic(buf) = 0
  /\ buf' = <<>>
  /\ phase' = "read"
  /\ UNCHANGED <<items, wire, noisy, sent, size, handled>>

\* The client has nothing more to send and all of it was decoded.
Drained == items = 0 /\ wire = <<>> /\ phase = "read"

Next ==
  \/ \E len \in 0 .. MaxPayload : SendFrame(len)
  \/ \E bytes \in NoiseRuns : SendNoise(bytes)
  \/ \E n \in 1 .. Len(wire) : ReadChunk(n)
  \/ NeedMore \/ HandleFrame \/ SkipToMagic \/ Discard \/ HangUp
  \/ (Drained \/ phase = "closed") /\ UNCHANGED vars

\* Bytes that were sent are read in the end, and the loop runs on: it awaits
\* nothing but the socket here.
Fairness ==
  /\ WF_vars(\E n \in 1 .. Len(wire) : ReadChunk(n))
  /\ WF_vars(NeedMore \/ HandleFrame \/ SkipToMagic \/ Discard \/ HangUp)

Spec == Init /\ [][Next]_vars /\ Fairness

--------------------------------------------------------------------------------
TypeOK ==
  /\ items \in 0 .. MaxItems /\ sent \in 0 .. MaxItems
  /\ noisy \in BOOLEAN
  /\ wire \in Seq(Bytes) /\ buf \in Seq(Bytes)
  /\ size \in BufSizes /\ Len(buf) <= size
  /\ phase \in {"read", "decode", "closed"}
  /\ handled \in Seq(0 .. sent) /\ Len(handled) <= MaxItems

\* The channel a connection implements.
Channel == INSTANCE FifoChannel WITH got <- handled, open <- phase # "closed"

\* However the stream is cut into reads and whatever noise is in it, the frame
\* handler sees the frames the client sent, whole, once, in order and without a
\* gap, and each of them in the end, as long as the connection is up (cora.rs
\* decode, connection.rs:206-228, bridge.rs and hub.rs of the embedded crate).
FramesArrive == Channel!Spec

\* "Resynchronizing stream to next CORA magic" (connection.rs:217): noise costs
\* no frame that follows it; when everything is read, every frame was handled.
NoFrameIsLost == Drained => Len(handled) = sent

\* A full buffer passes for "client disconnected" (bridge.rs:42-46 and hub.rs:73-77
\* of the embedded crate) only for a frame that does not fit in it: what is left
\* of frames that do fit, and of noise, always leaves room for the next read.
HangsUpOnlyOnLongFrames == phase = "closed" => Decode(buf) = "more" /\ FrameLen(buf) > size
================================================================================
