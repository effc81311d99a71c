-------------------------------- MODULE Session --------------------------------
(***************************************************************************)
(* The life of one TCP connection: the select! loop of PrimaryConnection   *)
(* (connection.rs) and of SecondaryConnection (bridge.rs), which are the   *)
(* same loop.  It sends a keepalive probe every Interval, drops the client *)
(* when nothing was read for Timeout, and handles what it reads one frame  *)
(* after the other: each frame may cost a USB transfer and is answered     *)
(* through the bounded channel that the socket writer drains.              *)
(*                                                                         *)
(* Time is discrete.  It passes only when no task can run: the runtime is  *)
(* prompt, so what takes time is the USB bus and the client.               *)
(***************************************************************************)
EXTENDS Naturals

CONSTANTS
  Interval,   \* KEEPALIVE_INTERVAL_MS
  Timeout,    \* TIMEOUT_DURATION_MS
  UsbTime,    \* the longest a frame waits for write_lock and its transfer: 1.5 s
              \* for a control transfer on a deck with one client; an OUT
              \* transfer has no limit in the code, and one is assumed
  MaxFrames,  \* frames one read of the socket may hold
  TxCap       \* room for messages on their way to the client

ASSUME SessionAssumption ==
  /\ Interval \in Nat \ {0} /\ Timeout \in Nat /\ UsbTime \in Nat
  /\ MaxFrames \in Nat \ {0} /\ TxCap \in Nat \ {0}

VARIABLES
  loop,       \* what the connection loop waits for
  work,       \* frames of the last read that are still to be answered
  usb,        \* time left until the transfer in progress ends
  due,        \* interval ticks that have passed and are not yet handled
  untilTick,  \* time until the next interval tick
  sinceRead,  \* last_received.elapsed()
  sinceSent,  \* time since the client last sent a frame
  punctual,   \* history: the client never let more than Timeout go by
  inbox,      \* frames in the socket, not yet read
  queued,     \* messages in the channel and in the socket to the client
  reading,    \* the client reads its socket
  stalled     \* history: the client has not always read its socket

loopVars == <<loop, work, usb>>
timeVars == <<due, untilTick, sinceRead, sinceSent>>
clientVars == <<punctual, inbox, reading, stalled>>
vars == <<loopVars, timeVars, clientVars, queued>>

\* The longest a chunk of frames can keep the loop busy.
Busy == MaxFrames * UsbTime

\* A silent client is gone by then: the loop may be busy when its last frame
\* arrives, and then is busy with that, or idle until the tick after the timeout.
Deadline == Busy + (IF Busy > Timeout + Interval THEN Busy ELSE Timeout + Interval)

\* Clocks stop one step later, and at most MaxDue ticks are counted.
Later(t) == IF t > Deadline THEN t ELSE t + 1
MaxDue == 2

Open == loop \notin {"dropped", "closed"}

Init ==
  /\ loop = "select" /\ work = 0 /\ usb = 0
  /\ due = 0 /\ untilTick = Interval
  /\ sinceRead = 0 /\ sinceSent = 0
  /\ punctual = TRUE
  /\ inbox = 0 /\ queued = 0
  /\ reading = TRUE /\ stalled = FALSE

--------------------------------------------------------------------------------
(***************************************************************************)
(* The connection loop.                                                    *)
(***************************************************************************)

\* Variants of TakeTick: the timeout is compared with the wrong constant, or a
\* probe counts as a sign of life.
TakeTickTooStrict ==
  /\ loop = "select" /\ due > 0
  /\ IF sinceRead > Interval
       THEN loop' = "dropped" /\ UNCHANGED due
       ELSE loop' = "send" /\ due' = due - 1
  /\ UNCHANGED <<work, usb, untilTick, sinceRead, sinceSent, clientVars, queued>>

TakeTickRefreshing ==
  /\ loop = "select" /\ due > 0
  /\ IF sinceRead > Timeout
       THEN loop' = "dropped" /\ UNCHANGED <<due, sinceRead>>
       ELSE loop' = "send" /\ due' = due - 1 /\ sinceRead' = 0
  /\ UNCHANGED <<work, usb, untilTick, sinceSent, clientVars, queued>>

\* The ping_interval branch: drop the client, or send it a probe.
TakeTick ==
  /\ loop = "select" /\ due > 0
  /\ IF sinceRead > Timeout
       THEN loop' = "dropped" /\ UNCHANGED due
       ELSE loop' = "send" /\ due' = due - 1
  /\ UNCHANGED <<work, usb, untilTick, sinceRead, sinceSent, clientVars, queued>>

\* The reader.read branch.
ReadChunk ==
  /\ loop = "select" /\ inbox > 0
  /\ work' = inbox
  /\ inbox' = 0
  /\ sinceRead' = 0
  /\ loop' = "handle"
  /\ UNCHANGED <<usb, due, untilTick, sinceSent, punctual, reading, stalled, queued>>

\* read returns Ok(0).
ReadEnd ==
  /\ loop = "select" /\ inbox = 0
  /\ loop' = "closed"
  /\ UNCHANGED <<work, usb, timeVars, clientVars, queued>>

\* handle_frame: at once, or after a transfer that runs into its limit.
Handle ==
  /\ loop = "handle"
  /\ loop' = "usb"
  /\ usb' \in {0, UsbTime}
  /\ UNCHANGED <<work, timeVars, clientVars, queued>>

TransferEnds ==
  /\ loop = "usb" /\ usb = 0
  /\ loop' = "send"
  /\ UNCHANGED <<work, usb, timeVars, clientVars, queued>>

\* A variant: the channel has no bound.
SendUnbounded ==
  /\ loop = "send"
  /\ queued' = queued + 1
  /\ work' = IF work = 0 THEN 0 ELSE work - 1
  /\ loop' = IF work > 1 THEN "handle" ELSE "select"
  /\ UNCHANGED <<usb, timeVars, clientVars>>

\* tx.send(..).await, of an answer or of a probe.
Send ==
  /\ loop = "send" /\ queued < TxCap
  /\ queued' = queued + 1
  /\ work' = IF work = 0 THEN 0 ELSE work - 1
  /\ loop' = IF work > 1 THEN "handle" ELSE "select"
  /\ UNCHANGED <<usb, timeVars, clientVars>>

LoopStep == TakeTick \/ ReadChunk \/ Handle \/ TransferEnds \/ Send

--------------------------------------------------------------------------------
(***************************************************************************)
(* The writer task, the tasks that push hotplug changes and input reports, *)
(* the client, and time.                                                   *)
(***************************************************************************)
Write ==
  /\ Open /\ queued > 0 /\ reading
  /\ queued' = queued - 1
  /\ UNCHANGED <<loopVars, timeVars, clientVars>>

Push ==
  /\ Open /\ queued < TxCap
  /\ queued' = queued + 1
  /\ UNCHANGED <<loopVars, timeVars, clientVars>>

ClientSends ==
  /\ Open /\ inbox < MaxFrames
  /\ inbox' = inbox + 1
  /\ sinceSent' = 0
  /\ UNCHANGED <<loopVars, due, untilTick, sinceRead, punctual, reading, stalled, queued>>

ClientStalls ==
  /\ Open
  /\ reading' = ~ reading
  /\ stalled' = TRUE
  /\ UNCHANGED <<loopVars, timeVars, punctual, inbox, queued>>

Urgent ==
  \/ loop = "select" /\ (due > 0 \/ inbox > 0)
  \/ loop = "handle"
  \/ loop = "usb" /\ usb = 0
  \/ loop = "send" /\ queued < TxCap
  \/ queued > 0 /\ reading

\* MissedTickBehavior::Burst: a tick that could not be taken stays due.
Elapse ==
  /\ Open /\ ~ Urgent
  /\ sinceRead' = Later(sinceRead)
  /\ sinceSent' = Later(sinceSent)
  /\ punctual' = (punctual /\ sinceSent' <= Timeout)
  /\ usb' = IF loop = "usb" THEN usb - 1 ELSE usb
  /\ untilTick' = IF untilTick = 1 THEN Interval ELSE untilTick - 1
  /\ due' = IF untilTick = 1 /\ due < MaxDue THEN due + 1 ELSE due
  /\ UNCHANGED <<loop, work, inbox, reading, stalled, queued>>

\* The client opens a new connection.
Reconnect ==
  /\ ~ Open
  /\ loop' = "select" /\ work' = 0 /\ usb' = 0
  /\ due' = 0 /\ untilTick' = Interval
  /\ sinceRead' = 0 /\ sinceSent' = 0
  /\ punctual' = TRUE
  /\ inbox' = 0 /\ queued' = 0
  /\ reading' = TRUE /\ stalled' = FALSE

Next ==
  \/ LoopStep \/ ReadEnd \/ Write \/ Push
  \/ ClientSends \/ ClientStalls \/ Elapse \/ Reconnect

Spec == Init /\ [][Next]_vars

--------------------------------------------------------------------------------
TypeOK ==
  /\ loop \in {"select", "handle", "usb", "send", "dropped", "closed"}
  /\ work \in 0 .. MaxFrames
  /\ usb \in 0 .. UsbTime
  /\ due \in 0 .. MaxDue
  /\ untilTick \in 1 .. Interval
  /\ sinceRead \in 0 .. Deadline + 1
  /\ sinceSent \in 0 .. Deadline + 1
  /\ punctual \in BOOLEAN
  /\ inbox \in 0 .. MaxFrames
  /\ queued \in 0 .. TxCap
  /\ reading \in BOOLEAN /\ stalled \in BOOLEAN

\* A client that reads what it is sent but sends nothing itself is dropped one
\* interval after its timeout, plus the time the loop was busy before it read its
\* last frames (connection.rs:171-177, bridge.rs:151-155).
SilentClientIsDropped == Open /\ ~ stalled => sinceSent <= Deadline

\* "Connection timed out (no data for >5s)" (connection.rs:175): a client that
\* reads, and sends something before every Timeout, is never dropped.
PunctualClientIsKept == loop = "dropped" /\ ~ stalled => ~ punctual

\* "Connection timeout duration in milliseconds before dropping an inactive
\* client" (constants.rs:24), whether or not the client reads.
InactiveClientIsDropped == Open => sinceSent <= Deadline
================================================================================
