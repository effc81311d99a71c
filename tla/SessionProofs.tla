----------------------------- MODULE SessionProofs -----------------------------
(***************************************************************************)
(* The clock bounds of a connection, for any timeout, interval, length of  *)
(* a transfer, number of frames in a read and room for answers.            *)
(***************************************************************************)
EXTENDS Session, TLAPS

\* The time n frames may take.
Cost(n) == n * UsbTime

\* The longest the loop can still be busy with the frames it has read: what it
\* waits for is l, w frames are unanswered, the transfer still takes u.
Rest(l, w, u) ==
  CASE l = "handle" -> Cost(w)
    [] l = "usb" -> u + Cost(w - 1)
    [] l = "send" /\ w > 0 -> Cost(w - 1)
    [] OTHER -> 0

LEMMA CostIsNat == \A n \in Nat : Cost(n) \in Nat
BY SessionAssumption DEF Cost

LEMMA CostOfOneMore == \A n \in Nat \ {0} : Cost(n) = Cost(n - 1) + UsbTime
BY SessionAssumption DEF Cost

LEMMA CostIsBounded ==
  ASSUME NEW n \in 0 .. MaxFrames
  PROVE  Cost(n) <= Busy
<1>1. /\ MaxFrames - n \in Nat /\ n \in Nat /\ UsbTime \in Nat
      /\ Cost(MaxFrames - n) \in Nat
  BY SessionAssumption, CostIsNat
<1>2. Busy = Cost(n) + Cost(MaxFrames - n)
  BY <1>1, SessionAssumption DEF Busy, Cost
<1> QED
  BY <1>1, <1>2, CostIsNat

LEMMA BusyIsNat == Busy \in Nat /\ Deadline \in Nat /\ Busy <= Deadline
<1>1. Busy \in Nat
  BY SessionAssumption, CostIsNat DEF Busy, Cost
<1> QED
  BY <1>1, SessionAssumption DEF Deadline

--------------------------------------------------------------------------------
LEMMA TypeInit == Init => TypeOK
<1> SUFFICES ASSUME Init PROVE TypeOK
  OBVIOUS
<1>1. punctual \in BOOLEAN /\ reading \in BOOLEAN /\ stalled \in BOOLEAN
  BY DEF Init
<1>2. /\ loop = "select" /\ work = 0 /\ usb = 0 /\ due = 0 /\ untilTick = Interval
      /\ sinceRead = 0 /\ sinceSent = 0 /\ inbox = 0 /\ queued = 0
  BY DEF Init
<1> QED
  BY <1>1, <1>2, SessionAssumption, BusyIsNat DEF TypeOK, MaxDue

LEMMA TypeStep == TypeOK /\ [Next]_vars => TypeOK'
<1> SUFFICES ASSUME TypeOK, [Next]_vars PROVE TypeOK'
  OBVIOUS
<1> USE SessionAssumption, BusyIsNat DEF TypeOK, MaxDue, loopVars, timeVars, clientVars
<1>1. CASE TakeTick \/ ReadChunk \/ Handle \/ TransferEnds \/ Send
  BY <1>1 DEF TakeTick, ReadChunk, Handle, TransferEnds, Send
<1>2. CASE ReadEnd \/ Write \/ Push \/ ClientSends
  BY <1>2 DEF ReadEnd, Write, Push, ClientSends
<1>6. CASE ClientStalls
  <2>1. reading' \in BOOLEAN /\ stalled' \in BOOLEAN
    BY <1>6 DEF ClientStalls
  <2>2. UNCHANGED <<loopVars, timeVars, punctual, inbox, queued>>
    BY <1>6 DEF ClientStalls
  <2> QED
    BY <2>1, <2>2
<1>3. CASE Elapse
  <2>1. sinceRead' \in 0 .. Deadline + 1 /\ sinceSent' \in 0 .. Deadline + 1
    BY <1>3 DEF Elapse, Later
  <2>2. usb' \in 0 .. UsbTime
    BY <1>3 DEF Elapse, Urgent
  <2>3. punctual' \in BOOLEAN
    BY <1>3 DEF Elapse
  <2> QED
    BY <1>3, <2>1, <2>2, <2>3 DEF Elapse
<1>4. CASE Reconnect
  <2>1. punctual' \in BOOLEAN /\ reading' \in BOOLEAN /\ stalled' \in BOOLEAN
    BY <1>4 DEF Reconnect
  <2>2. /\ loop' = "select" /\ work' = 0 /\ usb' = 0 /\ due' = 0 /\ untilTick' = Interval
        /\ sinceRead' = 0 /\ sinceSent' = 0 /\ inbox' = 0 /\ queued' = 0
    BY <1>4 DEF Reconnect
  <2> QED
    BY <2>1, <2>2
<1>5. CASE UNCHANGED vars
  BY <1>5 DEF vars
<1> QED
  BY <1>1, <1>2, <1>3, <1>4, <1>5, <1>6 DEF Next, LoopStep

\* The clocks, counters and queues of a connection stay in their ranges; the
\* channel to the writer never holds more than its capacity (connection.rs:89-200).
THEOREM SessionTypeCorrect == Spec => []TypeOK
<1> QED
  BY TypeInit, TypeStep, PTL DEF Spec

--------------------------------------------------------------------------------
\* The loop has frames to handle exactly while it handles them; "send" is also
\* the state in which it sends a probe.
WorkInLoop ==
  /\ loop \in {"handle", "usb"} => work > 0
  /\ loop = "select" => work = 0

\* Time since the last read, while the loop is busy with what it read.
ReadIsRecent == work > 0 => sinceRead + Rest(loop, work, usb) <= Busy

\* Frames wait in the socket no longer than the loop is busy.
FramesWaitBriefly == inbox > 0 => sinceSent + Rest(loop, work, usb) <= Busy

\* With nothing in the socket, the last read came after the last frame and not
\* much later.
ReadFollowsSend == inbox = 0 => sinceRead <= sinceSent /\ sinceSent <= sinceRead + Busy

\* When no tick is due, the last one found the client within its timeout, or it
\* was read from since.
TickLooked == due = 0 => sinceRead + untilTick <= Timeout + Interval

\* The inductive invariant of the clocks, of a client that reads.
ClockInv ==
  /\ TypeOK
  /\ WorkInLoop
  /\ ~ stalled =>
       /\ reading
       /\ ReadIsRecent /\ FramesWaitBriefly /\ ReadFollowsSend /\ TickLooked
       /\ sinceSent <= Deadline

LEMMA ClockInvInit == Init => ClockInv
<1> SUFFICES ASSUME Init PROVE ClockInv
  OBVIOUS
<1>1. TypeOK
  BY TypeInit
<1> QED
  BY <1>1, BusyIsNat, SessionAssumption DEF Init, ClockInv, WorkInLoop, ReadIsRecent,
     FramesWaitBriefly, ReadFollowsSend, TickLooked

\* What is left to do is a number, and at most what a whole chunk takes.
RestIs ==
  /\ Rest(loop, work, usb) \in Nat /\ Rest(loop, work, usb) <= Busy
  /\ loop = "handle" => Rest(loop, work, usb) = Cost(work)
  /\ loop = "usb" => Rest(loop, work, usb) = usb + Cost(work - 1)
  /\ loop = "send" /\ work > 0 => Rest(loop, work, usb) = Cost(work - 1)
  /\ loop \notin {"handle", "usb"} /\ work = 0 => Rest(loop, work, usb) = 0

LEMMA RestBound == TypeOK /\ WorkInLoop => RestIs
<1> SUFFICES ASSUME TypeOK, WorkInLoop PROVE RestIs
  OBVIOUS
<1>1. work \in 0 .. MaxFrames /\ MaxFrames \in Nat /\ usb \in 0 .. UsbTime /\ UsbTime \in Nat
  BY SessionAssumption DEF TypeOK
<1>2. Cost(work) \in Nat /\ Cost(work) <= Busy /\ Busy \in Nat
  BY <1>1, CostIsNat, CostIsBounded, BusyIsNat
<1>3. work > 0 => Cost(work - 1) \in Nat /\ Cost(work) = Cost(work - 1) + UsbTime
  BY <1>1, CostIsNat, CostOfOneMore
<1> QED
  BY <1>1, <1>2, <1>3 DEF RestIs, Rest, WorkInLoop, TypeOK

LEMMA ClockInvStep == ClockInv /\ [Next]_vars => ClockInv'
<1> SUFFICES ASSUME ClockInv, [Next]_vars PROVE ClockInv'
  OBVIOUS
<1> USE SessionAssumption, BusyIsNat DEF loopVars, timeVars, clientVars, RestIs
<1> DEFINE Bounds == /\ reading
                     /\ ReadIsRecent /\ FramesWaitBriefly /\ ReadFollowsSend /\ TickLooked
                     /\ sinceSent <= Deadline
<1>1. TypeOK /\ TypeOK' /\ WorkInLoop
  BY TypeStep DEF ClockInv
<1>2. WorkInLoop'
  BY <1>1 DEF WorkInLoop, TypeOK, Next, LoopStep, TakeTick, ReadChunk, Handle, TransferEnds,
     Send, ReadEnd, Write, Push, ClientSends, ClientStalls, Elapse, Reconnect, vars
<1>3. RestIs
  BY <1>1, RestBound
<1>4. RestIs'
  BY <1>1, <1>2, RestBound, PTL
<1>5. work > 0 => Cost(work - 1) \in Nat /\ Cost(work) = Cost(work - 1) + UsbTime
  BY <1>1, CostIsNat, CostOfOneMore DEF TypeOK
<1>6. ASSUME ~ stalled', ~ stalled, Bounds,
             TakeTick \/ ReadChunk \/ Handle \/ TransferEnds \/ Send \/ ReadEnd
      PROVE  Bounds'
  <2> USE <1>6 DEF Bounds
  <2>1. CASE TakeTick
    <3>1. work = 0 /\ Rest(loop', work', usb') = 0 /\ UNCHANGED <<work, untilTick, sinceRead, sinceSent, inbox, reading>>
      BY <2>1, <1>1, <1>4 DEF TakeTick, WorkInLoop
    <3>2. due' = due \/ (due' = due - 1 /\ sinceRead <= Timeout)
      BY <2>1, <1>1 DEF TakeTick, TypeOK
    <3> QED
      BY <3>1, <3>2, <1>1, <1>3
         DEF TypeOK, ReadIsRecent, FramesWaitBriefly, ReadFollowsSend, TickLooked, MaxDue
  <2>2. CASE ReadChunk
    BY <2>2, <1>1, <1>2, <1>3, <1>4
       DEF ReadChunk, TypeOK, WorkInLoop, ReadIsRecent, FramesWaitBriefly, ReadFollowsSend, TickLooked
  <2>3. CASE Handle
    BY <2>3, <1>1, <1>2, <1>3, <1>4, <1>5
       DEF Handle, TypeOK, WorkInLoop, ReadIsRecent, FramesWaitBriefly, ReadFollowsSend, TickLooked
  <2>4. CASE TransferEnds
    BY <2>4, <1>1, <1>2, <1>3, <1>4
       DEF TransferEnds, TypeOK, WorkInLoop, ReadIsRecent, FramesWaitBriefly, ReadFollowsSend, TickLooked
  <2>5. CASE Send
    <3>1. UNCHANGED <<timeVars, clientVars>>
      BY <2>5 DEF Send
    <3>2. Rest(loop', work', usb') <= Rest(loop, work, usb) /\ (work' > 0 => work > 0)
      BY <2>5, <1>1, <1>3, <1>4 DEF Send, TypeOK, WorkInLoop
    <3>3. ReadIsRecent' /\ FramesWaitBriefly'
      BY <3>1, <3>2, <1>1, <1>3, <1>4 DEF TypeOK, ReadIsRecent, FramesWaitBriefly
    <3> QED
      BY <3>1, <3>3 DEF ReadFollowsSend, TickLooked
  <2>6. CASE ReadEnd
    BY <2>6, <1>1, <1>2, <1>3, <1>4
       DEF ReadEnd, TypeOK, WorkInLoop, ReadIsRecent, FramesWaitBriefly, ReadFollowsSend, TickLooked
  <2> QED
    BY <2>1, <2>2, <2>3, <2>4, <2>5, <2>6
<1>7. ASSUME ~ stalled', ~ stalled, Bounds, ClientSends PROVE Bounds'
  <2>1. Rest(loop', work', usb') = Rest(loop, work, usb)
    BY <1>7 DEF ClientSends
  <2> QED
    BY <2>1, <1>1, <1>2, <1>3, <1>7
       DEF ClientSends, TypeOK, WorkInLoop, ReadIsRecent, FramesWaitBriefly, ReadFollowsSend, TickLooked
<1>8. ASSUME ~ stalled', ~ stalled, Bounds, Write \/ Push \/ UNCHANGED vars PROVE Bounds'
  <2>1. UNCHANGED <<loopVars, timeVars, clientVars>>
    BY <1>8 DEF Write, Push, vars
  <2>2. Rest(loop', work', usb') = Rest(loop, work, usb)
    BY <2>1
  <2> QED
    BY <2>1, <2>2, <1>8
       DEF ReadIsRecent, FramesWaitBriefly, ReadFollowsSend, TickLooked
<1>9. ASSUME ~ stalled', ~ stalled, Bounds, Elapse PROVE Bounds'
  <2> USE <1>9 DEF Bounds
  <2>1. \/ loop = "select" /\ due = 0 /\ inbox = 0 /\ work = 0
        \/ loop = "usb" /\ usb > 0 /\ work > 0
    BY <1>1 DEF Elapse, Urgent, Open, TypeOK, WorkInLoop
  <2>2. /\ sinceRead' = Later(sinceRead) /\ sinceSent' = sinceSent + 1
        /\ UNCHANGED <<loop, work, inbox, reading>>
        /\ usb' = IF loop = "usb" THEN usb - 1 ELSE usb
        /\ untilTick' = IF untilTick = 1 THEN Interval ELSE untilTick - 1
        /\ due' = IF untilTick = 1 /\ due < MaxDue THEN due + 1 ELSE due
    BY <1>1 DEF Elapse, Later, TypeOK
  <2>3. sinceRead <= Deadline
    <3>1. CASE inbox = 0
      BY <3>1, <1>1 DEF ReadFollowsSend, TypeOK
    <3>2. CASE inbox # 0
      BY <3>2, <2>1, <1>1, <1>3 DEF ReadIsRecent, TypeOK
    <3> QED
      BY <3>1, <3>2
  <2>4. sinceRead' = sinceRead + 1
    BY <2>2, <2>3, <1>1 DEF Later, TypeOK
  <2>5. loop = "usb" => Rest(loop', work', usb') = Rest(loop, work, usb) - 1
    BY <2>1, <2>2, <1>1, <1>3, <1>4, <1>5 DEF TypeOK
  <2>6. ReadIsRecent' /\ FramesWaitBriefly'
    BY <2>1, <2>2, <2>4, <2>5, <1>1, <1>3 DEF TypeOK, ReadIsRecent, FramesWaitBriefly
  <2>7. ReadFollowsSend'
    BY <2>2, <2>4, <1>1 DEF TypeOK, ReadFollowsSend
  <2>8. TickLooked'
    BY <2>2, <2>4, <1>1 DEF TypeOK, TickLooked, MaxDue
  <2>9. sinceSent' <= Deadline
    <3>1. CASE loop = "select"
      BY <3>1, <2>1, <2>2, <1>1 DEF TypeOK, ReadFollowsSend, TickLooked, Deadline
    <3>2. CASE loop = "usb" /\ inbox > 0
      BY <3>2, <2>2, <2>6, <1>1, <1>4 DEF TypeOK, FramesWaitBriefly
    <3>3. CASE loop = "usb" /\ inbox = 0
      BY <3>3, <2>1, <2>2, <2>6, <2>7, <1>1, <1>4 DEF TypeOK, ReadIsRecent, ReadFollowsSend, Deadline
    <3> QED
      BY <3>1, <3>2, <3>3, <2>1, <1>1 DEF TypeOK
  <2> QED
    BY <2>2, <2>6, <2>7, <2>8, <2>9
<1>10. ASSUME Reconnect PROVE Bounds'
  BY <1>10, <1>4 DEF Reconnect, Bounds, ReadIsRecent, FramesWaitBriefly, ReadFollowsSend, TickLooked
<1>11. ASSUME ~ stalled', ~ Reconnect PROVE ~ stalled /\ ~ ClientStalls
  BY <1>1, <1>11 DEF Next, LoopStep, TakeTick, ReadChunk, Handle, TransferEnds, Send, ReadEnd,
     Write, Push, ClientSends, ClientStalls, Elapse, vars
<1>12. ~ stalled => Bounds
  BY DEF ClockInv
<1> HIDE DEF Bounds
<1>13. ASSUME ~ stalled' PROVE Bounds'
  BY <1>13, <1>6, <1>7, <1>8, <1>9, <1>10, <1>11, <1>12 DEF Next, LoopStep
<1> QED
  BY <1>1, <1>2, <1>13 DEF ClockInv, Bounds

\* A client that reads what it is sent and falls silent is dropped in bounded time,
\* whatever the loop is doing then (connection.rs:171-177, bridge.rs:151-155).
THEOREM SilentClientsGo == Spec => []SilentClientIsDropped
<1>1. ClockInv => SilentClientIsDropped
  BY DEF ClockInv, SilentClientIsDropped
<1> QED
  BY <1>1, ClockInvInit, ClockInvStep, PTL DEF Spec

--------------------------------------------------------------------------------
\* What a punctual client relies on: it was read from within the timeout, also
\* when a tick is taken before the frames that wait.
PunctualIsRead == punctual /\ ~ stalled => sinceRead <= Timeout

PunctualInv == ClockInv /\ PunctualIsRead /\ PunctualClientIsKept

LEMMA PunctualInvInit == Init => PunctualInv
<1>1. Init => PunctualIsRead /\ PunctualClientIsKept
  BY SessionAssumption DEF Init, PunctualIsRead, PunctualClientIsKept
<1> QED
  BY <1>1, ClockInvInit DEF PunctualInv

LEMMA PunctualInvStep ==
  ASSUME Busy <= Timeout
  PROVE  PunctualInv /\ [Next]_vars => PunctualInv'
<1> SUFFICES ASSUME PunctualInv, [Next]_vars PROVE PunctualInv'
  OBVIOUS
<1> USE SessionAssumption, BusyIsNat DEF loopVars, timeVars, clientVars
<1>1. ClockInv /\ ClockInv' /\ TypeOK /\ TypeOK'
  BY ClockInvStep DEF PunctualInv, ClockInv
<1>2. ASSUME Elapse PROVE PunctualIsRead'
  <2> SUFFICES ASSUME punctual', ~ stalled' PROVE sinceRead' <= Timeout
    BY DEF PunctualIsRead
  <2>1. /\ ~ stalled /\ sinceSent' <= Timeout /\ UNCHANGED <<loop, work, inbox>>
        /\ (loop = "select" /\ inbox = 0) \/ loop = "usb"
    BY <1>1, <1>2 DEF Elapse, Urgent, Open, ClockInv, TypeOK
  <2>2. CASE loop = "select" /\ inbox = 0
    BY <2>1, <2>2, <1>1 DEF ClockInv, ReadFollowsSend, TypeOK
  <2>3. CASE loop = "usb"
    <3>1. RestIs'
      BY <1>1, RestBound, PTL DEF ClockInv
    <3>2. Rest(loop', work', usb') \in Nat /\ work' > 0
      BY <3>1, <1>1, <2>1, <2>3 DEF RestIs, ClockInv, WorkInLoop
    <3>3. ReadIsRecent'
      BY <1>1 DEF ClockInv
    <3>4. sinceRead' \in Nat /\ work' \in Nat
      BY <1>1 DEF TypeOK
    <3>5. sinceRead' + Rest(loop', work', usb') <= Busy
      BY <3>2, <3>3, <3>4 DEF ReadIsRecent
    <3> QED
      BY <3>2, <3>4, <3>5
  <2> QED
    BY <2>1, <2>2, <2>3
<1>3. ASSUME ~ Elapse PROVE PunctualIsRead'
  <2>1. CASE Reconnect \/ ReadChunk
    <3>1. sinceRead' = 0
      BY <2>1 DEF Reconnect, ReadChunk
    <3> QED
      BY <3>1 DEF PunctualIsRead
  <2>2. CASE ClientStalls
    BY <2>2 DEF ClientStalls, PunctualIsRead
  <2>3. CASE TakeTick \/ Handle \/ TransferEnds \/ Send \/ ReadEnd \/ Write \/ Push \/ ClientSends
    <3>1. UNCHANGED <<sinceRead, punctual, stalled>>
      BY <2>3 DEF TakeTick, Handle, TransferEnds, Send, ReadEnd, Write, Push, ClientSends
    <3> QED
      BY <3>1 DEF PunctualInv, PunctualIsRead
  <2>4. CASE UNCHANGED vars
    BY <2>4 DEF PunctualInv, PunctualIsRead, vars
  <2> QED
    BY <1>3, <2>1, <2>2, <2>3, <2>4 DEF Next, LoopStep
<1>4. PunctualClientIsKept'
  BY <1>1 DEF PunctualInv, PunctualIsRead, PunctualClientIsKept, TypeOK, Next, LoopStep, TakeTick,
     ReadChunk, Handle, TransferEnds, Send, ReadEnd, Write, Push, ClientSends, ClientStalls,
     Elapse, Reconnect, Open, vars
<1> QED
  BY <1>1, <1>2, <1>3, <1>4 DEF PunctualInv

\* If the frames of one read never keep the loop busy for longer than the timeout, a
\* client that reads, and sends before every timeout, is not dropped, though a tick
\* may be taken before its frames (connection.rs:171-177, bridge.rs:151-155).
THEOREM PunctualClientsStay ==
  ASSUME Busy <= Timeout
  PROVE  Spec => []PunctualClientIsKept
<1>1. PunctualInv => PunctualClientIsKept
  BY DEF PunctualInv
<1>2. PunctualInv /\ [Next]_vars => PunctualInv'
  BY PunctualInvStep
<1> QED
  BY <1>1, <1>2, PunctualInvInit, PTL DEF Spec
================================================================================
