----------------------------- MODULE WatcherProofs -----------------------------
(***************************************************************************)
(* What the watcher keeps, for any number of decks, serial numbers and     *)
(* slots, also with more decks than slots: its table of bridges and the    *)
(* slot table agree, it uses the slot table as DockSpec asks, and it never *)
(* tears down a deck that is plugged in.                                   *)
(***************************************************************************)
EXTENDS UsbWatcher, DockProofs, FiniteSetTheorems

LEMMA PortIsNat == \A i \in Slots : PortOf(i) \in Nat
BY DockAssumption DEF PortOf, Slots

LEMMA AbortedType == \A b \in BridgeStates : Aborted(b) \in BridgeStates
BY DEF BridgeStates, Aborted

\* The watcher's variables keep their types at every step.
LEMMA TypeStep == TypeOK /\ [Next]_vars => TypeOK'
<1> SUFFICES ASSUME TypeOK, [Next]_vars
             PROVE  TypeOK'
  OBVIOUS
<1> USE DEF TypeOK, Phases, vars, dockVars, watcherVars, taskVars
<1>1. ASSUME NEW s \in Serials, active[s] # None, Teardown(s)
      PROVE  /\ bridge' \in [Devices -> BridgeStates]
             /\ active' \in [Serials -> Devices \cup {None}]
             /\ detaching' \in Serials \cup {None}
             /\ UNCHANGED <<slots, sticky, bus, phase, todo, seen, port, polling>>
  BY <1>1, AbortedType DEF Teardown
<1>2. ASSUME TakeSignal PROVE TypeOK'
  <2>1. Head(signals) \in Devices /\ signals' \in Seq(Devices)
    BY <1>2 DEF TakeSignal
  <2>2. SerialOf[Head(signals)] \in Serials
    BY <2>1, DockAssumption
  <2>3. CASE active[SerialOf[Head(signals)]] # None
    BY <2>1, <2>2, <2>3, <1>1, <1>2 DEF TakeSignal, DockTypeOK
  <2>4. CASE active[SerialOf[Head(signals)]] = None
    BY <2>1, <2>4, <1>2 DEF TakeSignal, DockTypeOK
  <2> QED
    BY <2>3, <2>4
<1>3. ASSUME FinishDetach PROVE TypeOK'
  BY <1>3 DEF FinishDetach, DetachDeviceBySerial, DockTypeOK
<1>4. ASSUME DrainDone \/ ScanFails \/ ClaimDone \/ PruneDone \/ Wake PROVE TypeOK'
  BY <1>4 DEF DrainDone, ScanFails, ClaimDone, PruneDone, Wake, DockTypeOK
<1>5. ASSUME ScanOk PROVE TypeOK'
  BY <1>5, DockAssumption DEF ScanOk, Present, DockTypeOK
<1>6. ASSUME NEW d \in Devices, SkipKnown(d) \/ OpenFails(d) PROVE TypeOK'
  BY <1>6 DEF SkipKnown, OpenFails, DockTypeOK
<1>7. ASSUME NEW d \in Devices, Claim(d) PROVE TypeOK'
  <2>1. SerialOf[d] \in Serials /\ TargetSlot(SerialOf[d]) \in Slots
    BY DockAssumption, TargetInTable
  <2>2. DockTypeOK'
    BY <1>7, <2>1 DEF Claim, AttachDevice, DockTypeOK
  <2>3. bridge' \in [Devices -> BridgeStates] /\ port' \in [Devices -> Nat \cup {None}]
    BY <1>7, <2>1, PortIsNat DEF Claim, BridgeStates
  <2>4. /\ active' \in [Serials -> Devices \cup {None}] /\ todo' \subseteq Devices
        /\ UNCHANGED <<bus, phase, seen, detaching, signals, polling>>
    BY <1>7, <2>1 DEF Claim
  <2> QED
    BY <2>2, <2>3, <2>4
<1>8. ASSUME NEW s \in Serials, Prune(s) PROVE TypeOK'
  BY <1>8, <1>1 DEF Prune, Removed, DockTypeOK
<1>9. ASSUME NEW d \in Devices, TaskStep(d) PROVE TypeOK'
  <2>1. ASSUME Bind(d) \/ Drop(d) PROVE TypeOK'
    BY <2>1 DEF Bind, Drop, BridgeStates, DockTypeOK
  <2>2. ASSUME Forward(d) PROVE TypeOK'
    <3>1. Append(signals, d) \in Seq(Devices)
      OBVIOUS
    <3> QED
      BY <2>2, <3>1 DEF Forward, BridgeStates, DockTypeOK
  <2>3. ASSUME ReaderGone(d) PROVE TypeOK'
    BY <2>3 DEF ReaderGone, BridgeStates, DockTypeOK
  <2> QED
    BY <1>9, <2>1, <2>2, <2>3 DEF TaskStep
<1>10. ASSUME NEW d \in Devices, ClientStep(d) \/ BusStep(d) PROVE TypeOK'
  BY <1>10 DEF ClientStep, BusStep, Connect, Disconnect, Plug, Unplug, DockTypeOK
<1>11. CASE UNCHANGED vars
  BY <1>11 DEF DockTypeOK
<1> QED
  BY <1>2, <1>3, <1>4, <1>5, <1>6, <1>7, <1>8, <1>9, <1>10, <1>11 DEF Next, WatcherStep
--------------------------------------------------------------------------------
\* Between the removal of a bridge and the freeing of its slot the watcher is in
\* the drain or in the prune of its loop, and does nothing else.
DetachPhase ==
  detaching # None => phase \in {"drain", "prune"} /\ active[detaching] = None

\* The inductive invariant of the two tables.
TablesInv == TypeOK /\ StickyIsWhereItSits /\ DetachPhase /\ SlotsBacked

\* A bridge in one of these states is the one its serial number's entry is for.
Live == {"spawned", "listening", "signalled"}

ActiveIsSound ==
  \A s \in Serials : active[s] # None =>
     SerialOf[active[s]] = s /\ bus[active[s]] # "absent"

LiveIsActive == \A d \in Devices : bridge[d] \in Live => active[SerialOf[d]] = d

SignalledIsGone ==
  \A d \in Devices : bridge[d] \in {"signalled", "cancelled"} => bus[d] = "gone"

\* An aborted task that may still get its signal out does so before the watcher
\* reads the channel again.
CancelledIsPruned ==
  \A d \in Devices : bridge[d] = "cancelled" =>
     phase \in {"prune", "sleep"} /\ active[SerialOf[d]] = None

\* A signal in the channel is about the device of its serial number's entry, or
\* finds no entry when it is read.
SignalIsTrue ==
  \A k \in 1 .. Len(signals) :
     LET d == signals[k]
     IN  /\ bus[d] = "gone" /\ bridge[d] = "ended"
         /\ \/ active[SerialOf[d]] = d
            \/ active[SerialOf[d]] = None /\ phase \in {"prune", "sleep", "drain"}

\* What the scan did not see is gone, however long the watcher takes to drop it.
UnseenIsGone ==
  phase \in {"claim", "prune"} =>
     \A s \in Serials : active[s] # None /\ s \notin seen => bus[active[s]] = "gone"

TodoIsSeen == phase = "claim" => \A d \in todo : SerialOf[d] \in seen

\* The inductive invariant of the disconnect signals.
SignalInv ==
  /\ TypeOK
  /\ ActiveIsSound
  /\ LiveIsActive
  /\ SignalledIsGone
  /\ CancelledIsPruned
  /\ SignalIsTrue
  /\ UnseenIsGone
  /\ TodoIsSeen

--------------------------------------------------------------------------------
LEMMA TablesInvInit == Init => TablesInv
<1> SUFFICES ASSUME Init PROVE TablesInv
  OBVIOUS
<1>1. DockTypeOK /\ StickyIsWhereItSits
  BY DockInvInit DEF Init, DockInv
<1>2. TypeOK
  BY <1>1 DEF Init, TypeOK, Phases, BridgeStates
<1>3. DetachPhase /\ SlotsBacked
  BY DEF Init, DockInit, DetachPhase, SlotsBacked, Occupied, Slots
<1> QED
  BY <1>1, <1>2, <1>3 DEF TablesInv

\* A step of the watcher that frees the slot of serial number s frees the only
\* slot s has.
LEMMA DetachFreesAll ==
  ASSUME DockTypeOK, StickyIsWhereItSits, NEW s \in Serials, DetachDeviceBySerial(s),
         NEW i \in Slots, Occupied(i)'
  PROVE  slots'[i] = slots[i] /\ SerialOf[slots[i]] # s
<1>1. CASE SlotsOf(s) = {}
  BY <1>1 DEF DetachDeviceBySerial, SlotsOf, Occupied
<1>2. CASE SlotsOf(s) # {}
  <2>1. SlotsOf(s) \in SUBSET Nat
    BY DEF SlotsOf, Slots
  <2>2. Min(SlotsOf(s)) \in SlotsOf(s)
    BY <1>2, <2>1, MinOfNats
  <2> DEFINE m == Min(SlotsOf(s))
  <2> HIDE DEF m
  <2>3. m \in Slots /\ Occupied(m) /\ SerialOf[slots[m]] = s
    BY <2>2 DEF SlotsOf, m
  <2>4. slots' = [slots EXCEPT ![m] = None]
    BY <1>2 DEF DetachDeviceBySerial, m
  <2>5. i # m
    BY <2>3, <2>4 DEF DockTypeOK, Occupied
  <2>6. slots'[i] = slots[i] /\ Occupied(i)
    BY <2>4, <2>5 DEF DockTypeOK, Occupied
  <2>7. SerialOf[slots[i]] # s
    BY <2>3, <2>5, <2>6, StickyMakesUnique DEF OneSlotPerSerial
  <2> QED
    BY <2>6, <2>7
<1> QED
  BY <1>1, <1>2

\* The watcher attaches a device only when no slot has its serial number.
LEMMA ClaimAttaches ==
  ASSUME TablesInv, NEW d \in Devices, Claim(d)
  PROVE  Attach(d)
<1>1. detaching = None /\ active[SerialOf[d]] = None /\ AttachDevice(d)
  BY DEF Claim, TablesInv, DetachPhase
<1>2. SerialOf[d] \in Serials /\ SerialOf[d] # None
  BY DockAssumption, WatcherAssumption
<1>3. SlotsOf(SerialOf[d]) = {}
  BY <1>1, <1>2 DEF TablesInv, SlotsBacked, SlotsOf, Occupied
<1> QED
  BY <1>1, <1>3 DEF Attach

\* Every step of the program is a step of DockSpec, or leaves the table alone.
LEMMA StepRefines == TablesInv /\ [Next]_vars => [DockNext]_dockVars
<1> SUFFICES ASSUME TablesInv, [Next]_vars PROVE [DockNext]_dockVars
  OBVIOUS
<1> USE DEF dockVars
<1>1. ASSUME NEW d \in Devices, Claim(d) PROVE [DockNext]_dockVars
  BY <1>1, ClaimAttaches DEF DockNext
<1>2. ASSUME FinishDetach PROVE [DockNext]_dockVars
  <2>1. detaching \in Serials /\ Detach(detaching)
    BY <1>2 DEF FinishDetach, Detach, TablesInv, TypeOK
  <2> QED
    BY <2>1 DEF DockNext
<1>3. ASSUME TakeSignal \/ (\E s \in Serials : Prune(s)) PROVE UNCHANGED dockVars
  BY <1>3 DEF TakeSignal, Prune, Teardown
<1>4. ASSUME DrainDone \/ ScanOk \/ ScanFails \/ ClaimDone \/ PruneDone \/ Wake
      PROVE  UNCHANGED dockVars
  BY <1>4 DEF DrainDone, ScanOk, ScanFails, ClaimDone, PruneDone, Wake
<1>5. ASSUME NEW d \in Devices, SkipKnown(d) \/ OpenFails(d) PROVE UNCHANGED dockVars
  BY <1>5 DEF SkipKnown, OpenFails
<1>6. ASSUME NEW d \in Devices, TaskStep(d) \/ ClientStep(d) \/ BusStep(d)
      PROVE  UNCHANGED dockVars
  BY <1>6 DEF TaskStep, ClientStep, BusStep, Bind, Drop, Forward, ReaderGone,
              Connect, Disconnect, Plug, Unplug
<1>7. CASE UNCHANGED vars
  BY <1>7 DEF vars
<1> QED
  BY <1>1, <1>2, <1>3, <1>4, <1>5, <1>6, <1>7 DEF Next, WatcherStep

LEMMA TeardownKeepsTables ==
  ASSUME TablesInv, NEW s \in Serials, active[s] # None, detaching = None,
         phase \in {"drain", "prune"}, Teardown(s)
  PROVE  DetachPhase' /\ SlotsBacked'
<1>1. /\ active' = [active EXCEPT ![s] = None]
      /\ detaching' = s
      /\ UNCHANGED <<slots, phase>>
      /\ active \in [Serials -> Devices \cup {None}]
  BY DEF Teardown, dockVars, TablesInv, TypeOK
<1>2. DetachPhase'
  BY <1>1 DEF DetachPhase
<1>3. ASSUME NEW i \in Slots, Occupied(i)
      PROVE  LET t == SerialOf[slots[i]]
             IN  active'[t] = slots[i] \/ (detaching' = t /\ active'[t] = None)
  <2>1. slots[i] \in Devices /\ SerialOf[slots[i]] \in Serials
    BY <1>3, DockAssumption DEF TablesInv, TypeOK, DockTypeOK, Occupied
  <2>2. active[SerialOf[slots[i]]] = slots[i]
    BY <1>3, <2>1, WatcherAssumption DEF TablesInv, SlotsBacked
  <2> QED
    BY <1>1, <2>1, <2>2
<1>4. SlotsBacked'
  BY <1>1, <1>3 DEF SlotsBacked, Occupied
<1> QED
  BY <1>2, <1>4

LEMMA TablesInvStep == TablesInv /\ [Next]_vars => TablesInv'
<1> SUFFICES ASSUME TablesInv, [Next]_vars PROVE TablesInv'
  OBVIOUS
<1>1. TypeOK'
  BY TypeStep DEF TablesInv
<1>2. StickyIsWhereItSits'
  <2>1. [DockNext]_dockVars
    BY StepRefines
  <2>2. DockInv
    BY DEF DockInv, TablesInv, TypeOK
  <2> QED
    BY <2>1, <2>2, DockInvStep DEF DockInv
<1>3. DetachPhase' /\ SlotsBacked'
  <2>1. ASSUME TakeSignal PROVE DetachPhase' /\ SlotsBacked'
    <3>1. signals \in Seq(Devices) /\ signals # <<>>
      BY <2>1 DEF TakeSignal, TablesInv, TypeOK
    <3>2. SerialOf[Head(signals)] \in Serials
      BY <3>1, DockAssumption
    <3>3. CASE active[SerialOf[Head(signals)]] # None
      BY <2>1, <3>2, <3>3, TeardownKeepsTables DEF TakeSignal
    <3>4. CASE active[SerialOf[Head(signals)]] = None
      BY <2>1, <3>4 DEF TakeSignal, dockVars, watcherVars, TablesInv, DetachPhase,
                        SlotsBacked, Occupied
    <3> QED
      BY <3>3, <3>4
  <2>2. ASSUME FinishDetach PROVE DetachPhase' /\ SlotsBacked'
    <3>1. detaching \in Serials /\ DockTypeOK /\ StickyIsWhereItSits
      BY <2>2 DEF FinishDetach, TablesInv, TypeOK
    <3>2. ASSUME NEW i \in Slots, Occupied(i)'
          PROVE  active[SerialOf[slots'[i]]] = slots'[i]
      <4>1. slots'[i] = slots[i] /\ SerialOf[slots[i]] # detaching
        BY <2>2, <3>1, <3>2, DetachFreesAll DEF FinishDetach
      <4>2. Occupied(i)
        BY <3>2, <4>1 DEF Occupied
      <4> QED
        BY <4>1, <4>2 DEF TablesInv, SlotsBacked
    <3> QED
      BY <2>2, <3>2 DEF FinishDetach, DetachPhase, SlotsBacked
  <2>3. ASSUME NEW d \in Devices, Claim(d) PROVE DetachPhase' /\ SlotsBacked'
    <3> DEFINE s == SerialOf[d]
               i == TargetSlot(s)
    <3>1. s \in Serials /\ i \in Slots
      BY DockAssumption, TargetInTable DEF TablesInv, TypeOK
    <3>2. /\ SlotsOf(s) = {}
          /\ slots' = [slots EXCEPT ![i] = d]
      BY <2>3, ClaimAttaches DEF Attach, AttachDevice
    <3>3. /\ active' = [active EXCEPT ![s] = d]
          /\ detaching = None /\ detaching' = None
          /\ active \in [Serials -> Devices \cup {None}]
      BY <2>3 DEF Claim, TablesInv, DetachPhase, TypeOK
    <3> HIDE DEF s, i
    <3>4. ASSUME NEW j \in Slots, Occupied(j)'
          PROVE  active'[SerialOf[slots'[j]]] = slots'[j]
      <4>1. CASE j = i
        BY <4>1, <3>1, <3>2, <3>3 DEF s, TablesInv, TypeOK, DockTypeOK
      <4>2. CASE j # i
        <5>1. slots'[j] = slots[j] /\ Occupied(j) /\ slots[j] \in Devices
          BY <4>2, <3>2, <3>4 DEF TablesInv, TypeOK, DockTypeOK, Occupied
        <5>2. SerialOf[slots[j]] # s /\ SerialOf[slots[j]] \in Serials
          BY <5>1, <3>2, DockAssumption DEF SlotsOf
        <5>3. active[SerialOf[slots[j]]] = slots[j]
          BY <5>1, <5>2, <3>3, WatcherAssumption DEF TablesInv, SlotsBacked
        <5> QED
          BY <5>1, <5>2, <5>3, <3>3
      <4> QED
        BY <4>1, <4>2
    <3> QED
      BY <3>3, <3>4 DEF DetachPhase, SlotsBacked
  <2>4. ASSUME NEW s \in Serials, Prune(s) PROVE DetachPhase' /\ SlotsBacked'
    BY <2>4, TeardownKeepsTables DEF Prune, Removed
  <2>5. ASSUME DrainDone \/ ScanOk \/ ScanFails \/ ClaimDone \/ PruneDone \/ Wake
        PROVE  DetachPhase' /\ SlotsBacked'
    BY <2>5 DEF DrainDone, ScanOk, ScanFails, ClaimDone, PruneDone, Wake, dockVars,
                TablesInv, DetachPhase, SlotsBacked, Occupied
  <2>6. ASSUME NEW d \in Devices, SkipKnown(d) \/ OpenFails(d)
        PROVE  DetachPhase' /\ SlotsBacked'
    BY <2>6 DEF SkipKnown, OpenFails, dockVars, TablesInv, DetachPhase, SlotsBacked, Occupied
  <2>7. ASSUME NEW d \in Devices, TaskStep(d) \/ ClientStep(d) \/ BusStep(d)
        PROVE  UNCHANGED <<dockVars, watcherVars>>
    BY <2>7 DEF TaskStep, ClientStep, BusStep, Bind, Drop, Forward, ReaderGone,
                Connect, Disconnect, Plug, Unplug
  <2>8. CASE UNCHANGED <<dockVars, watcherVars>>
    BY <2>8 DEF dockVars, watcherVars, TablesInv, DetachPhase, SlotsBacked, Occupied
  <2>9. CASE UNCHANGED vars
    BY <2>8, <2>9 DEF vars, dockVars
  <2> QED
    BY <2>1, <2>2, <2>3, <2>4, <2>5, <2>6, <2>7, <2>8, <2>9 DEF Next, WatcherStep
<1> QED
  BY <1>1, <1>2, <1>3 DEF TablesInv

\* The watcher's variables keep their types (watcher.rs UsbWatcher::run).
THEOREM WatcherTypeCorrect == Spec => []TypeOK
<1>1. TablesInv => TypeOK
  BY DEF TablesInv
<1> QED
  BY <1>1, TablesInvInit, TablesInvStep, PTL DEF Spec

\* The watcher's table of bridges and the slot table agree, also with more decks
\* than slots (watcher.rs:50-54, 92-141, 159-161).
THEOREM TablesAgree == Spec => []SlotsBacked
<1>1. TablesInv => SlotsBacked
  BY DEF TablesInv
<1> QED
  BY <1>1, TablesInvInit, TablesInvStep, PTL DEF Spec

\* The watcher never attaches a serial number that is in the slot table, so all
\* that DockSpec promises holds of the program (watcher.rs:92-141, dock.rs:159-190).
THEOREM WatcherImplementsDock == Spec => DockSpec
<1>1. Init => DockInit
  BY DEF Init
<1> QED
  BY <1>1, TablesInvInit, TablesInvStep, StepRefines, PTL DEF Spec, DockSpec

\* The table invariants of DockSpec, carried over to the running watcher: no deck
\* is listed twice, and the sticky map is exact (dock.rs:171-190).
THEOREM WatcherNeverListsTwice == Spec => [](OneSlotPerSerial /\ StickyIsWhereItSits)
<1> QED
  BY WatcherImplementsDock, NeverListedTwice, StickyIsExact, PTL

\* While the whole watcher runs, a deck that returns gets its slot back unless
\* another deck sits in it (dock.rs:159-169).
THEOREM WatcherHonoursReservations == Spec => ReservationHonoured
<1> QED
  BY WatcherImplementsDock, ReservationsAreHonoured, PTL

--------------------------------------------------------------------------------
LEMMA SignalInvInit == Init => SignalInv
<1> SUFFICES ASSUME Init PROVE SignalInv
  OBVIOUS
<1>1. TypeOK
  BY TablesInvInit DEF TablesInv
<1>2. /\ ActiveIsSound /\ LiveIsActive /\ SignalledIsGone /\ CancelledIsPruned
      /\ UnseenIsGone /\ TodoIsSeen
  BY DEF Init, ActiveIsSound, LiveIsActive, SignalledIsGone, CancelledIsPruned,
         UnseenIsGone, TodoIsSeen, Live
<1>3. SignalIsTrue
  BY DEF Init, SignalIsTrue
<1> QED
  BY <1>1, <1>2, <1>3 DEF SignalInv

\* The bridge is aborted and its entry removed.  In the drain its task has ended
\* already; in the prune it may still get its signal out.
LEMMA TeardownKeepsSignals ==
  ASSUME SignalInv, NEW s \in Serials, active[s] # None, Teardown(s),
         \/ phase = "drain" /\ bridge[active[s]] = "ended"
         \/ phase = "prune",
         bus[active[s]] = "gone"
  PROVE  /\ ActiveIsSound' /\ LiveIsActive' /\ SignalledIsGone' /\ CancelledIsPruned'
         /\ UnseenIsGone' /\ TodoIsSeen'
         /\ signals' = signals => SignalIsTrue'
<1> DEFINE a == active[s]
<1>1. /\ bridge' = [bridge EXCEPT ![a] = Aborted(@)]
      /\ active' = [active EXCEPT ![s] = None]
      /\ UNCHANGED <<bus, phase, todo, seen>>
  BY DEF Teardown
<1>2. /\ active \in [Serials -> Devices \cup {None}]
      /\ bridge \in [Devices -> BridgeStates]
      /\ a \in Devices /\ SerialOf[a] = s /\ bus[a] = "gone"
  BY DEF SignalInv, TypeOK, ActiveIsSound
<1>3. \A d \in Devices : SerialOf[d] \in Serials
  BY DockAssumption
<1>4. Aborted(bridge[a]) \notin Live
  BY <1>2 DEF Aborted, Live, BridgeStates
<1> HIDE DEF a
<1>5. ActiveIsSound' /\ UnseenIsGone' /\ TodoIsSeen'
  BY <1>1, <1>2 DEF SignalInv, ActiveIsSound, UnseenIsGone, TodoIsSeen
<1>6. LiveIsActive'
  <2> SUFFICES ASSUME NEW d \in Devices, bridge'[d] \in Live
               PROVE  active'[SerialOf[d]] = d
    BY DEF LiveIsActive
  <2>1. d # a
    BY <1>1, <1>2, <1>4
  <2>2. bridge'[d] = bridge[d] /\ active[SerialOf[d]] = d
    BY <2>1, <1>1, <1>2 DEF SignalInv, LiveIsActive
  <2> QED
    BY <2>1, <2>2, <1>1, <1>2, <1>3 DEF a
<1>7. SignalledIsGone'
  BY <1>1, <1>2 DEF SignalInv, SignalledIsGone
<1>8. CancelledIsPruned'
  <2> SUFFICES ASSUME NEW d \in Devices, bridge'[d] = "cancelled"
               PROVE  phase' \in {"prune", "sleep"} /\ active'[SerialOf[d]] = None
    BY DEF CancelledIsPruned
  <2>1. CASE d = a
    BY <2>1, <1>1, <1>2 DEF a, Aborted
  <2>2. CASE d # a
    BY <2>2, <1>1, <1>2, <1>3 DEF SignalInv, CancelledIsPruned
  <2> QED
    BY <2>1, <2>2
<1>9. ASSUME signals' = signals PROVE SignalIsTrue'
  <2> SUFFICES ASSUME NEW k \in 1 .. Len(signals)
               PROVE  LET d == signals[k]
                      IN  /\ bus[d] = "gone" /\ bridge'[d] = "ended"
                          /\ \/ active'[SerialOf[d]] = d
                             \/ /\ active'[SerialOf[d]] = None
                                /\ phase \in {"prune", "sleep", "drain"}
    BY <1>1, <1>9 DEF SignalIsTrue
  <2> DEFINE d == signals[k]
  <2>1. d \in Devices
    BY DEF SignalInv, TypeOK
  <2>2. /\ bus[d] = "gone" /\ bridge[d] = "ended"
        /\ \/ active[SerialOf[d]] = d
           \/ active[SerialOf[d]] = None /\ phase \in {"prune", "sleep", "drain"}
    BY DEF SignalInv, SignalIsTrue
  <2> HIDE DEF d
  <2>3. bridge'[d] = "ended"
    BY <2>1, <2>2, <1>1, <1>2 DEF Aborted
  <2>4. \/ active'[SerialOf[d]] = d
        \/ active'[SerialOf[d]] = None /\ phase \in {"prune", "sleep", "drain"}
    BY <2>1, <2>2, <1>1, <1>2, <1>3
  <2> QED
    BY <2>2, <2>3, <2>4 DEF d
<1> QED
  BY <1>5, <1>6, <1>7, <1>8, <1>9

\* The watcher tears down only what is gone: in the drain because the signal it
\* reads is about the entry it removes, in the prune because of the scan.
LEMMA TakenSignalIsTrue ==
  ASSUME SignalInv, TakeSignal
  PROVE  LET s == SerialOf[Head(signals)]
         IN  /\ s \in Serials
             /\ active[s] # None => /\ active[s] = Head(signals)
                                    /\ bridge[active[s]] = "ended"
                                    /\ bus[active[s]] = "gone"
<1>1. signals \in Seq(Devices) /\ signals # <<>>
  BY DEF TakeSignal, SignalInv, TypeOK
<1>2. Head(signals) \in Devices /\ Head(signals) = signals[1] /\ 1 \in 1 .. Len(signals)
  BY <1>1
<1> QED
  BY <1>2, DockAssumption DEF SignalInv, SignalIsTrue

LEMMA PrunedIsGone ==
  ASSUME SignalInv, NEW s \in Serials, Prune(s)
  PROVE  active[s] # None /\ phase = "prune" /\ bus[active[s]] = "gone"
BY DEF Prune, Removed, SignalInv, UnseenIsGone

LEMMA SignalInvStep == SignalInv /\ [Next]_vars => SignalInv'
<1> SUFFICES ASSUME SignalInv, [Next]_vars PROVE SignalInv'
  OBVIOUS
<1> USE DEF dockVars, watcherVars, taskVars
<1> DEFINE Rest == /\ ActiveIsSound /\ LiveIsActive /\ SignalledIsGone
                   /\ CancelledIsPruned /\ SignalIsTrue /\ UnseenIsGone /\ TodoIsSeen
<1>1. TypeOK'
  BY TypeStep DEF SignalInv
<1>2. /\ \A d \in Devices : SerialOf[d] \in Serials
      /\ \A k \in 1 .. Len(signals) : signals[k] \in Devices
      /\ signals \in Seq(Devices)
      /\ active \in [Serials -> Devices \cup {None}]
      /\ bridge \in [Devices -> BridgeStates]
      /\ bus \in [Devices -> {"absent", "plugged", "gone"}]
  BY DockAssumption DEF SignalInv, TypeOK
<1>3. ASSUME TakeSignal PROVE Rest'
  <2> DEFINE s == SerialOf[Head(signals)]
  <2>1. /\ signals # <<>> /\ signals' = Tail(signals) /\ phase = "drain"
        /\ \/ active[s] # None /\ Teardown(s)
           \/ UNCHANGED <<bus, phase, todo, seen, active, bridge>>
    BY <1>3 DEF TakeSignal
  <2>2. /\ Len(Tail(signals)) = Len(signals) - 1
        /\ \A k \in 1 .. Len(Tail(signals)) :
             k + 1 \in 1 .. Len(signals) /\ Tail(signals)[k] = signals[k + 1]
    BY <2>1, <1>2
  <2>3. /\ s \in Serials
        /\ active[s] # None => bridge[active[s]] = "ended" /\ bus[active[s]] = "gone"
    BY <1>3, TakenSignalIsTrue
  <2>4. CASE active[s] # None /\ Teardown(s)
    <3> DEFINE a == active[s]
    <3>1. /\ active' = [active EXCEPT ![s] = None] /\ phase' = "drain"
          /\ a \in Devices /\ bus' = bus
      BY <2>1, <2>3, <2>4, <1>2 DEF Teardown
    <3>2. bridge' = bridge
      <4> HIDE DEF a
      <4>1. bridge' = [bridge EXCEPT ![a] = Aborted(@)]
        BY <2>4 DEF Teardown, a
      <4>2. bridge[a] = "ended" /\ Aborted("ended") = "ended"
        BY <2>3, <2>4 DEF a, Aborted
      <4> QED
        BY <4>1, <4>2, <3>1, <1>2
    <3>3. /\ ActiveIsSound' /\ LiveIsActive' /\ SignalledIsGone' /\ CancelledIsPruned'
          /\ UnseenIsGone' /\ TodoIsSeen'
      BY <2>1, <2>3, <2>4, TeardownKeepsSignals
    <3>4. ASSUME NEW k \in 1 .. Len(signals')
          PROVE  /\ bus[signals'[k]] = "gone" /\ bridge[signals'[k]] = "ended"
                 /\ \/ active'[SerialOf[signals'[k]]] = signals'[k]
                    \/ active'[SerialOf[signals'[k]]] = None
      <4>1. k + 1 \in 1 .. Len(signals) /\ signals'[k] = signals[k + 1]
        BY <2>1, <2>2
      <4>2. signals'[k] \in Devices
        BY <4>1, <1>2
      <4>3. /\ bus[signals'[k]] = "gone" /\ bridge[signals'[k]] = "ended"
            /\ \/ active[SerialOf[signals'[k]]] = signals'[k]
               \/ active[SerialOf[signals'[k]]] = None
        BY <4>1 DEF SignalInv, SignalIsTrue
      <4> QED
        BY <4>2, <4>3, <3>1, <1>2
    <3>5. SignalIsTrue'
      BY <3>1, <3>2, <3>4 DEF SignalIsTrue
    <3> QED
      BY <3>3, <3>5
  <2>5. CASE UNCHANGED <<bus, phase, todo, seen, active, bridge>>
    <3>1. /\ ActiveIsSound' /\ LiveIsActive' /\ SignalledIsGone' /\ CancelledIsPruned'
          /\ UnseenIsGone' /\ TodoIsSeen'
      BY <2>5 DEF SignalInv, ActiveIsSound, LiveIsActive, SignalledIsGone,
                  CancelledIsPruned, UnseenIsGone, TodoIsSeen
    <3>2. SignalIsTrue'
      BY <2>1, <2>2, <2>5 DEF SignalInv, SignalIsTrue
    <3> QED
      BY <3>1, <3>2
  <2> QED
    BY <2>1, <2>4, <2>5
<1>4. ASSUME NEW s \in Serials, Prune(s) PROVE Rest'
  BY <1>4, PrunedIsGone, TeardownKeepsSignals DEF Prune
<1>5. ASSUME NEW d \in Devices, Claim(d) PROVE Rest'
  <2> DEFINE s == SerialOf[d]
  <2>1. /\ phase = "claim" /\ d \in todo /\ active[s] = None /\ bus[d] = "plugged"
        /\ active' = [active EXCEPT ![s] = d]
        /\ bridge' = [bridge EXCEPT ![d] = "spawned"]
        /\ todo' = todo \ {d}
        /\ UNCHANGED <<bus, phase, seen, signals>>
    BY <1>5 DEF Claim
  <2>2. s \in Serials /\ SerialOf[d] = s /\ s \in seen /\ d # None
    BY <2>1, <1>2, DockAssumption DEF SignalInv, TodoIsSeen
  <2> HIDE DEF s
  <2>3. ActiveIsSound'
    BY <2>1, <2>2, <1>2 DEF SignalInv, ActiveIsSound
  <2>4. LiveIsActive'
    BY <2>1, <2>2, <1>2, DockAssumption DEF SignalInv, LiveIsActive
  <2>5. SignalledIsGone' /\ CancelledIsPruned'
    BY <2>1, <2>2, <1>2 DEF SignalInv, SignalledIsGone, CancelledIsPruned
  <2>6. SignalIsTrue'
    <3>1. ASSUME NEW k \in 1 .. Len(signals)
          PROVE  /\ bus[signals[k]] = "gone" /\ bridge'[signals[k]] = "ended"
                 /\ active'[SerialOf[signals[k]]] = signals[k]
      <4>1. signals[k] \in Devices /\ signals[k] # None
        BY <1>2, DockAssumption
      <4>2. /\ bus[signals[k]] = "gone" /\ bridge[signals[k]] = "ended"
            /\ active[SerialOf[signals[k]]] = signals[k]
        BY <2>1 DEF SignalInv, SignalIsTrue
      <4>3. signals[k] # d /\ SerialOf[signals[k]] # s
        BY <4>1, <4>2, <2>1
      <4> QED
        BY <4>1, <4>2, <4>3, <2>1, <1>2
    <3> QED
      BY <3>1, <2>1 DEF SignalIsTrue
  <2>7. UnseenIsGone' /\ TodoIsSeen'
    BY <2>1, <2>2, <1>2 DEF SignalInv, UnseenIsGone, TodoIsSeen
  <2> QED
    BY <2>3, <2>4, <2>5, <2>6, <2>7
<1>6. ASSUME ScanOk PROVE Rest'
  <2>1. /\ phase = "scan" /\ phase' = "claim"
        /\ todo' = Present /\ seen' = {SerialOf[d] : d \in Present}
        /\ UNCHANGED <<bus, active, signals, bridge>>
    BY <1>6 DEF ScanOk
  <2>2. /\ ActiveIsSound' /\ LiveIsActive' /\ SignalledIsGone' /\ CancelledIsPruned'
    BY <2>1 DEF SignalInv, ActiveIsSound, LiveIsActive, SignalledIsGone, CancelledIsPruned
  <2>3. SignalIsTrue'
    BY <2>1 DEF SignalInv, SignalIsTrue
  <2>4. ASSUME NEW s \in Serials, active[s] # None, s \notin seen'
        PROVE  bus[active[s]] = "gone"
    BY <2>1, <2>4, <1>2 DEF SignalInv, ActiveIsSound, Present
  <2>5. UnseenIsGone' /\ TodoIsSeen'
    BY <2>1, <2>4 DEF UnseenIsGone, TodoIsSeen
  <2> QED
    BY <2>2, <2>3, <2>5
<1>7. ASSUME DrainDone \/ ScanFails \/ ClaimDone \/ PruneDone \/ Wake PROVE Rest'
  <2>1. /\ UNCHANGED <<bus, todo, seen, active, signals, bridge>>
        /\ phase' \in {"claim", "prune"} => phase' = "prune" /\ phase = "claim"
        /\ \/ phase' \in {"prune", "sleep", "drain"}
           \/ signals = <<>>
        /\ \/ phase' \in {"prune", "sleep"}
           \/ phase \notin {"prune", "sleep"}
           \/ \A d \in Devices : bridge[d] # "cancelled"
    BY <1>7 DEF DrainDone, ScanFails, ClaimDone, PruneDone, Wake
  <2>2. ActiveIsSound' /\ LiveIsActive' /\ SignalledIsGone' /\ CancelledIsPruned'
    BY <2>1 DEF SignalInv, ActiveIsSound, LiveIsActive, SignalledIsGone, CancelledIsPruned
  <2>3. SignalIsTrue'
    BY <2>1 DEF SignalInv, SignalIsTrue
  <2>4. UnseenIsGone' /\ TodoIsSeen'
    BY <2>1 DEF SignalInv, UnseenIsGone, TodoIsSeen
  <2> QED
    BY <2>2, <2>3, <2>4
<1>8. ASSUME NEW d \in Devices, SkipKnown(d) \/ OpenFails(d) PROVE Rest'
  <2>1. todo' \subseteq todo /\ UNCHANGED <<bus, phase, seen, active, signals, bridge>>
    BY <1>8 DEF SkipKnown, OpenFails
  <2> QED
    BY <2>1 DEF SignalInv, ActiveIsSound, LiveIsActive, SignalledIsGone,
                CancelledIsPruned, SignalIsTrue, UnseenIsGone, TodoIsSeen
<1>9. ASSUME NEW d \in Devices, Forward(d) PROVE Rest'
  <2>1. /\ bridge[d] \in {"signalled", "cancelled"}
        /\ signals' = Append(signals, d)
        /\ bridge' = [bridge EXCEPT ![d] = "ended"]
        /\ UNCHANGED <<bus, phase, todo, seen, active>>
    BY <1>9 DEF Forward
  <2>2. /\ ActiveIsSound' /\ LiveIsActive' /\ SignalledIsGone' /\ CancelledIsPruned'
        /\ UnseenIsGone' /\ TodoIsSeen'
    BY <2>1, <1>2 DEF SignalInv, ActiveIsSound, LiveIsActive, SignalledIsGone,
                CancelledIsPruned, UnseenIsGone, TodoIsSeen, Live
  <2>3. /\ bus[d] = "gone"
        /\ \/ active[SerialOf[d]] = d
           \/ active[SerialOf[d]] = None /\ phase \in {"prune", "sleep", "drain"}
    BY <2>1 DEF SignalInv, SignalledIsGone, LiveIsActive, CancelledIsPruned, Live
  <2>4. /\ Len(signals') = Len(signals) + 1
        /\ \A k \in 1 .. Len(signals') :
             \/ signals'[k] = d
             \/ k \in 1 .. Len(signals) /\ signals'[k] = signals[k]
    BY <2>1, <1>2
  <2>5. SignalIsTrue'
    BY <2>1, <2>3, <2>4, <1>2 DEF SignalInv, SignalIsTrue
  <2> QED
    BY <2>2, <2>5
<1>10. ASSUME NEW d \in Devices, Bind(d) \/ Drop(d) \/ ReaderGone(d) PROVE Rest'
  <2>1. /\ UNCHANGED <<bus, phase, todo, seen, active, signals>>
        /\ \A e \in Devices : e # d => bridge'[e] = bridge[e]
        /\ bridge'[d] = "signalled" => bus[d] = "gone"
        /\ bridge'[d] = "cancelled" => bridge[d] = "cancelled"
        /\ bridge'[d] \in Live => bridge[d] \in Live
        /\ bridge[d] = "ended" => bridge'[d] = "ended"
    BY <1>10, <1>2 DEF Bind, Drop, ReaderGone, Live, SignalInv, SignalledIsGone
  <2>2. ActiveIsSound' /\ UnseenIsGone' /\ TodoIsSeen'
    BY <2>1 DEF SignalInv, ActiveIsSound, UnseenIsGone, TodoIsSeen
  <2>3. LiveIsActive' /\ SignalledIsGone' /\ CancelledIsPruned'
    BY <2>1 DEF SignalInv, LiveIsActive, SignalledIsGone, CancelledIsPruned
  <2>4. SignalIsTrue'
    BY <2>1, <1>2 DEF SignalInv, SignalIsTrue
  <2> QED
    BY <2>2, <2>3, <2>4
<1>11. ASSUME NEW d \in Devices, Plug(d) \/ Unplug(d) PROVE Rest'
  <2>1. /\ UNCHANGED <<phase, todo, seen, active, signals, bridge>>
        /\ \A e \in Devices : bus[e] = "gone" => bus'[e] = "gone"
        /\ \A e \in Devices : bus[e] # "absent" => bus'[e] # "absent"
    BY <1>11, <1>2 DEF Plug, Unplug
  <2>2. /\ ActiveIsSound' /\ LiveIsActive' /\ SignalledIsGone' /\ CancelledIsPruned'
        /\ UnseenIsGone' /\ TodoIsSeen'
    BY <2>1, <1>2 DEF SignalInv, ActiveIsSound, LiveIsActive, SignalledIsGone,
                      CancelledIsPruned, UnseenIsGone, TodoIsSeen
  <2>3. SignalIsTrue'
    BY <2>1, <1>2 DEF SignalInv, SignalIsTrue
  <2> QED
    BY <2>2, <2>3
<1>12. ASSUME NEW d \in Devices, ClientStep(d)
       PROVE  UNCHANGED <<bus, phase, todo, seen, active, signals, bridge>>
  BY <1>12 DEF ClientStep, Connect, Disconnect
<1>13. ASSUME FinishDetach
       PROVE  UNCHANGED <<bus, phase, todo, seen, active, signals, bridge>>
  BY <1>13 DEF FinishDetach
<1>14. ASSUME UNCHANGED <<bus, phase, todo, seen, active, signals, bridge>> PROVE Rest'
  BY <1>14 DEF SignalInv, ActiveIsSound, LiveIsActive, SignalledIsGone,
               CancelledIsPruned, SignalIsTrue, UnseenIsGone, TodoIsSeen
<1>15. ASSUME UNCHANGED vars PROVE Rest'
  BY <1>14, <1>15 DEF vars
<1> HIDE DEF Rest
<1>16. Rest'
  BY <1>3, <1>4, <1>5, <1>6, <1>7, <1>8, <1>9, <1>10, <1>11, <1>12, <1>13, <1>14, <1>15
     DEF Next, WatcherStep, TaskStep, BusStep
<1> QED
  BY <1>1, <1>16 DEF SignalInv, Rest

\* The watcher never tears down a deck that is plugged in: neither a disconnect
\* signal that arrives late, nor an old scan, is taken for the deck's next
\* enumeration (watcher.rs:49-62, 152-169).
THEOREM LiveDecksStay == Spec => NoLiveTeardown
<1>1. ASSUME SignalInv, [Next]_vars, NEW s \in Serials,
             active[s] # None, active'[s] # active[s]
      PROVE  bus[active[s]] = "gone"
  <2> USE DEF dockVars, watcherVars, taskVars
  <2>1. active \in [Serials -> Devices \cup {None}]
    BY <1>1 DEF SignalInv, TypeOK
  <2>2. ASSUME TakeSignal PROVE bus[active[s]] = "gone"
    <3> DEFINE t == SerialOf[Head(signals)]
    <3>1. /\ active' = active \/ (active[t] # None /\ active' = [active EXCEPT ![t] = None])
          /\ active[t] # None => bus[active[t]] = "gone"
      BY <2>2, <1>1, TakenSignalIsTrue DEF TakeSignal, Teardown
    <3> HIDE DEF t
    <3> QED
      BY <3>1, <2>1, <1>1
  <2>3. ASSUME NEW t \in Serials, Prune(t) PROVE bus[active[s]] = "gone"
    <3>1. active' = [active EXCEPT ![t] = None] /\ bus[active[t]] = "gone"
      BY <2>3, <1>1, PrunedIsGone DEF Prune, Teardown
    <3> QED
      BY <3>1, <2>1, <1>1
  <2>4. ASSUME NEW d \in Devices, Claim(d) PROVE FALSE
    BY <2>1, <2>4, <1>1 DEF Claim
  <2>5. ASSUME \/ FinishDetach \/ DrainDone \/ ScanOk \/ ScanFails
               \/ ClaimDone \/ PruneDone \/ Wake
        PROVE  FALSE
    BY <2>5, <1>1 DEF FinishDetach, DrainDone, ScanOk, ScanFails, ClaimDone, PruneDone, Wake
  <2>6. ASSUME NEW d \in Devices,
               \/ SkipKnown(d) \/ OpenFails(d)
               \/ TaskStep(d) \/ ClientStep(d) \/ BusStep(d)
        PROVE  FALSE
    BY <2>6, <1>1 DEF SkipKnown, OpenFails, TaskStep, ClientStep, BusStep, Bind, Drop,
                      Forward, ReaderGone, Connect, Disconnect, Plug, Unplug
  <2>7. ~ UNCHANGED vars
    BY <1>1 DEF vars
  <2> QED
    BY <2>2, <2>3, <2>4, <2>5, <2>6, <2>7, <1>1 DEF Next, WatcherStep
<1>2. SignalInv /\ [Next]_vars =>
        [\A s \in Serials :
            active[s] # None /\ active'[s] # active[s] => bus[active[s]] = "gone"]_vars
  BY <1>1
<1> QED
  BY <1>2, SignalInvInit, SignalInvStep, PTL DEF Spec, NoLiveTeardown
--------------------------------------------------------------------------------
\* There are no more serial numbers than slots, and the port numbers suffice.
EnoughSlots ==
  /\ IsFiniteSet(Serials) /\ Cardinality(Serials) <= MaxChildSlots
  /\ SecondaryPort + MaxChildSlots <= MaxPort + 1

\* An aborted bridge gives its port back before the watcher claims anything, and
\* no bridge that runs was given that port.
ClosingIsApart ==
  \A e \in Devices : bridge[e] = "closing" =>
     /\ phase \in {"prune", "sleep"}
     /\ \A s \in Serials : active[s] # None => active[s] # e /\ port[active[s]] # port[e]

\* The inductive invariant of the ports.
PortInv == TablesInv /\ SignalInv /\ ActiveIsListed /\ ClosingIsApart /\ BindFailsOnlyWhenBusy

\* With a serial number that is not in the table there is a free slot for it: the
\* others have at most one slot each.
LEMMA FreeSlotExists ==
  ASSUME EnoughSlots, DockTypeOK, StickyIsWhereItSits, NEW s \in Serials, SlotsOf(s) = {}
  PROVE  FreeSlots # {}
<1> SUFFICES ASSUME FreeSlots = {} PROVE FALSE
  OBVIOUS
<1> DEFINE f == [i \in Slots |-> SerialOf[slots[i]]]
<1>1. \A i \in Slots : Occupied(i) /\ slots[i] \in Devices /\ SerialOf[slots[i]] # s
  BY DEF FreeSlots, SlotsOf, Occupied, DockTypeOK
<1>2. f \in [Slots -> Serials \ {s}]
  BY <1>1, DockAssumption
<1>3. IsFiniteSet(Slots) /\ Cardinality(Slots) = MaxChildSlots
  BY FS_Interval, DockAssumption DEF Slots
<1>4. /\ IsFiniteSet(Serials \ {s})
      /\ Cardinality(Serials \ {s}) = Cardinality(Serials) - 1
      /\ Cardinality(Serials) \in Nat
  BY FS_RemoveElement, FS_CardinalityType DEF EnoughSlots
<1>5. Cardinality(Serials \ {s}) < Cardinality(Slots)
  BY <1>3, <1>4, DockAssumption DEF EnoughSlots
<1> HIDE DEF f
<1>6. PICK i \in Slots, j \in Slots : i # j /\ f[i] = f[j]
  BY <1>2, <1>3, <1>4, <1>5, FS_PigeonHole
<1>7. SerialOf[slots[i]] = SerialOf[slots[j]]
  BY <1>6 DEF f
<1> QED
  BY <1>1, <1>6, <1>7, StickyMakesUnique DEF OneSlotPerSerial

LEMMA TargetIsFree ==
  ASSUME EnoughSlots, DockTypeOK, StickyIsWhereItSits, NEW s \in Serials, SlotsOf(s) = {}
  PROVE  TargetSlot(s) \in FreeSlots
<1>1. FreeSlots # {} /\ FreeSlots \in SUBSET Nat
  BY FreeSlotExists DEF FreeSlots, Slots
<1>2. Min(FreeSlots) \in FreeSlots
  BY <1>1, MinOfNats
<1> QED
  BY <1>1, <1>2 DEF TargetSlot, FindLowestFreeSlot

\* The ports of two slots differ.
LEMMA PortsDiffer ==
  ASSUME EnoughSlots, NEW i \in Slots, NEW j \in Slots, PortOf(i) = PortOf(j)
  PROVE  i = j
BY DockAssumption DEF EnoughSlots, PortOf, Slots

LEMMA ListedHavePorts ==
  ASSUME EnoughSlots, SignalInv, ActiveIsListed
  PROVE  DedicatedPort
<1> SUFFICES ASSUME NEW s \in Serials, NEW t \in Serials, active[s] # None,
                    active[t] # None, port[active[s]] = port[active[t]]
             PROVE  s = t
  BY DEF DedicatedPort
<1>1. PICK i \in Slots : slots[i] = active[s] /\ port[active[s]] = PortOf(i)
  BY DEF ActiveIsListed
<1>2. PICK j \in Slots : slots[j] = active[t] /\ port[active[t]] = PortOf(j)
  BY DEF ActiveIsListed
<1>3. active[s] = active[t]
  BY <1>1, <1>2, PortsDiffer
<1> QED
  BY <1>3 DEF SignalInv, ActiveIsSound

LEMMA PortInvInit == Init => PortInv
<1> SUFFICES ASSUME Init PROVE PortInv
  OBVIOUS
<1>1. ActiveIsListed /\ ClosingIsApart /\ BindFailsOnlyWhenBusy
  BY DEF Init, ActiveIsListed, ClosingIsApart, BindFailsOnlyWhenBusy
<1> QED
  BY <1>1, TablesInvInit, SignalInvInit DEF PortInv

\* In the drain the task of the entry has ended; in the prune its port may still be
\* held, and no other bridge that runs has it.
LEMMA TeardownKeepsPorts ==
  ASSUME EnoughSlots, PortInv, NEW s \in Serials, active[s] # None, Teardown(s),
         \/ phase = "drain" /\ bridge[active[s]] = "ended"
         \/ phase = "prune"
  PROVE  ActiveIsListed' /\ ClosingIsApart' /\ BindFailsOnlyWhenBusy'
<1> DEFINE a == active[s]
<1>1. /\ bridge' = [bridge EXCEPT ![a] = Aborted(@)]
      /\ active' = [active EXCEPT ![s] = None]
      /\ UNCHANGED <<slots, phase, port>>
  BY DEF Teardown, dockVars
<1>2. /\ active \in [Serials -> Devices \cup {None}]
      /\ bridge \in [Devices -> BridgeStates]
      /\ a \in Devices /\ SerialOf[a] = s
  BY DEF PortInv, SignalInv, TypeOK, ActiveIsSound
<1>3. /\ Aborted(bridge[a]) = "failed" => bridge[a] = "failed"
      /\ Aborted(bridge[a]) = "closing" => bridge[a] # "ended"
  BY <1>2 DEF Aborted, BridgeStates
<1>4. ActiveIsListed'
  BY <1>1, <1>2 DEF PortInv, ActiveIsListed
<1>5. ClosingIsApart'
  <2> SUFFICES ASSUME NEW e \in Devices, bridge'[e] = "closing",
                      NEW t \in Serials, active'[t] # None
               PROVE  /\ phase \in {"prune", "sleep"}
                      /\ active'[t] # e /\ port[active'[t]] # port[e]
    <3>1. ASSUME NEW e \in Devices, bridge'[e] = "closing" PROVE phase \in {"prune", "sleep"}
      BY <3>1, <1>1, <1>2, <1>3 DEF PortInv, ClosingIsApart
    <3> QED
      BY <1>1, <3>1 DEF ClosingIsApart
  <2>1. t # s /\ active'[t] = active[t]
    BY <1>1, <1>2
  <2>2. CASE e = a
    <3>1. port[active[t]] # port[a]
      BY <2>1, ListedHavePorts DEF PortInv, DedicatedPort
    <3> QED
      BY <2>1, <2>2, <3>1, <1>1, <1>2, <1>3
  <2>3. CASE e # a
    <3>1. bridge[e] = "closing"
      BY <2>3, <1>1, <1>2
    <3> QED
      BY <2>1, <3>1 DEF PortInv, ClosingIsApart
  <2> QED
    BY <2>2, <2>3
<1>6. BindFailsOnlyWhenBusy'
  BY <1>1, <1>2, <1>3 DEF PortInv, BindFailsOnlyWhenBusy
<1> QED
  BY <1>4, <1>5, <1>6

LEMMA ClaimKeepsPorts ==
  ASSUME EnoughSlots, PortInv, NEW d \in Devices, Claim(d)
  PROVE  ActiveIsListed' /\ ClosingIsApart' /\ BindFailsOnlyWhenBusy'
<1> DEFINE s == SerialOf[d]
           i == TargetSlot(s)
<1>1. s \in Serials /\ d # None /\ DockTypeOK /\ StickyIsWhereItSits
  BY DockAssumption DEF PortInv, TablesInv, TypeOK
<1>2. Attach(d)
  BY ClaimAttaches DEF PortInv
<1>3. i \in FreeSlots
  BY <1>1, <1>2, TargetIsFree DEF Attach
<1>4. /\ slots' = [slots EXCEPT ![i] = d] /\ active' = [active EXCEPT ![s] = d]
      /\ port' = [port EXCEPT ![d] = PortOf(i)] /\ bridge' = [bridge EXCEPT ![d] = "spawned"]
      /\ active[s] = None /\ phase = "claim" /\ phase' = phase
  BY DEF Claim, AttachDevice
<1> HIDE DEF s, i
<1>5. /\ active \in [Serials -> Devices \cup {None}] /\ bridge \in [Devices -> BridgeStates]
      /\ port \in [Devices -> Nat \cup {None}] /\ slots \in [Slots -> Devices \cup {None}]
      /\ i \in Slots /\ slots[i] = None
  BY <1>3 DEF PortInv, TablesInv, TypeOK, DockTypeOK, FreeSlots, Occupied
<1>6. ASSUME NEW t \in Serials, active'[t] # None
      PROVE  \E j \in Slots : slots'[j] = active'[t] /\ port'[active'[t]] = PortOf(j)
  <2>1. CASE t = s
    BY <2>1, <1>4, <1>5
  <2>2. CASE t # s
    <3>1. active'[t] = active[t] /\ active[t] \in Devices /\ SerialOf[active[t]] = t
      BY <2>2, <1>4, <1>5, <1>6 DEF PortInv, SignalInv, ActiveIsSound
    <3>2. PICK j \in Slots : slots[j] = active[t] /\ port[active[t]] = PortOf(j)
      BY <3>1, <1>6 DEF PortInv, ActiveIsListed
    <3>3. active[t] # d /\ j # i
      BY <2>2, <3>1, <3>2, <1>5, DockAssumption DEF s
    <3> QED
      BY <3>1, <3>2, <3>3, <1>4, <1>5
  <2> QED
    BY <2>1, <2>2
<1>7. ActiveIsListed'
  BY <1>6 DEF ActiveIsListed, PortOf
<1>8. ClosingIsApart' /\ BindFailsOnlyWhenBusy'
  BY <1>4, <1>5 DEF PortInv, ClosingIsApart, BindFailsOnlyWhenBusy
<1> QED
  BY <1>7, <1>8

LEMMA BindKeepsPorts ==
  ASSUME EnoughSlots, PortInv, NEW d \in Devices, Bind(d)
  PROVE  ActiveIsListed' /\ ClosingIsApart' /\ BindFailsOnlyWhenBusy'
<1>1. /\ bridge[d] = "spawned"
      /\ bridge' = [bridge EXCEPT ![d] = IF PortInUse(port[d]) THEN "failed" ELSE "listening"]
      /\ UNCHANGED <<slots, phase, active, port>>
  BY DEF Bind, dockVars, watcherVars
<1>2. bridge \in [Devices -> BridgeStates] /\ \A e \in Devices : SerialOf[e] \in Serials
  BY DockAssumption DEF PortInv, SignalInv, TypeOK
<1>3. ActiveIsListed' /\ ClosingIsApart'
  BY <1>1, <1>2 DEF PortInv, ActiveIsListed, ClosingIsApart
<1>4. ASSUME PortInUse(port[d]) PROVE port[d] \in BusyPorts
  <2> SUFFICES ASSUME NEW e \in Devices, port[e] = port[d], bridge[e] \in {"listening", "closing"}
               PROVE  FALSE
    BY <1>4 DEF PortInUse
  <2>1. active[SerialOf[d]] = d /\ d # None
    BY <1>1, DockAssumption DEF PortInv, SignalInv, LiveIsActive, Live
  <2>2. CASE bridge[e] = "listening"
    <3>1. active[SerialOf[e]] = e /\ e # None
      BY <2>2, DockAssumption DEF PortInv, SignalInv, LiveIsActive, Live
    <3>2. SerialOf[e] = SerialOf[d]
      BY <2>1, <3>1, <1>2, ListedHavePorts DEF PortInv, DedicatedPort
    <3> QED
      BY <2>1, <2>2, <3>1, <3>2, <1>1
  <2>3. CASE bridge[e] = "closing"
    BY <2>1, <2>3, <1>2 DEF PortInv, ClosingIsApart
  <2> QED
    BY <2>2, <2>3
<1>5. BindFailsOnlyWhenBusy'
  BY <1>1, <1>2, <1>4 DEF PortInv, BindFailsOnlyWhenBusy
<1> QED
  BY <1>3, <1>5

LEMMA PortInvStep ==
  ASSUME EnoughSlots
  PROVE  PortInv /\ [Next]_vars => PortInv'
<1> SUFFICES ASSUME PortInv, [Next]_vars PROVE PortInv'
  OBVIOUS
<1> USE DEF dockVars, watcherVars, taskVars
<1> DEFINE Ports == ActiveIsListed /\ ClosingIsApart /\ BindFailsOnlyWhenBusy
<1>1. TablesInv' /\ SignalInv'
  BY TablesInvStep, SignalInvStep DEF PortInv
<1>2. /\ bridge \in [Devices -> BridgeStates]
      /\ active \in [Serials -> Devices \cup {None}]
      /\ slots \in [Slots -> Devices \cup {None}]
  BY DEF PortInv, SignalInv, TypeOK, DockTypeOK
<1>3. ASSUME TakeSignal PROVE Ports'
  <2> DEFINE s == SerialOf[Head(signals)]
  <2>1. s \in Serials /\ (active[s] # None => bridge[active[s]] = "ended")
    BY <1>3, TakenSignalIsTrue DEF PortInv
  <2>2. CASE active[s] # None
    BY <1>3, <2>1, <2>2, TeardownKeepsPorts DEF TakeSignal
  <2>3. CASE active[s] = None
    BY <1>3, <2>3 DEF TakeSignal, PortInv, ActiveIsListed, ClosingIsApart, BindFailsOnlyWhenBusy
  <2> QED
    BY <2>2, <2>3
<1>4. ASSUME NEW s \in Serials, Prune(s) PROVE Ports'
  BY <1>4, TeardownKeepsPorts DEF Prune, Removed
<1>5. ASSUME FinishDetach PROVE Ports'
  <2>1. /\ detaching \in Serials /\ active[detaching] = None
        /\ DetachDeviceBySerial(detaching)
        /\ UNCHANGED <<phase, active, bridge, port>>
    BY <1>5 DEF FinishDetach, PortInv, TablesInv, TypeOK, DetachPhase
  <2>2. ASSUME NEW i \in Slots, Occupied(i), SerialOf[slots[i]] # detaching
        PROVE  slots'[i] = slots[i]
    <3>1. CASE SlotsOf(detaching) = {}
      BY <2>1, <3>1 DEF DetachDeviceBySerial
    <3>2. CASE SlotsOf(detaching) # {}
      <4>1. SlotsOf(detaching) \in SUBSET Nat
        BY DEF SlotsOf, Slots
      <4>2. Min(SlotsOf(detaching)) \in SlotsOf(detaching)
        BY <3>2, <4>1, MinOfNats
      <4>3. Min(SlotsOf(detaching)) # i
        BY <4>2, <2>2 DEF SlotsOf
      <4> QED
        BY <2>1, <3>2, <4>3, <1>2 DEF DetachDeviceBySerial
    <3> QED
      BY <3>1, <3>2
  <2>3. ASSUME NEW t \in Serials, active[t] # None
        PROVE  \E j \in Slots : slots'[j] = active[t] /\ port[active[t]] = PortOf(j)
    <3>1. PICK j \in Slots : slots[j] = active[t] /\ port[active[t]] = PortOf(j)
      BY <2>3 DEF PortInv, ActiveIsListed
    <3>2. SerialOf[active[t]] = t /\ t # detaching
      BY <2>1, <2>3 DEF PortInv, SignalInv, ActiveIsSound
    <3>3. slots'[j] = slots[j]
      BY <2>2, <2>3, <3>1, <3>2 DEF Occupied
    <3> QED
      BY <3>1, <3>3
  <2>4. ActiveIsListed'
    BY <2>1, <2>3 DEF ActiveIsListed, PortOf
  <2> QED
    BY <2>1, <2>4 DEF PortInv, ClosingIsApart, BindFailsOnlyWhenBusy
<1>6. ASSUME NEW d \in Devices, Claim(d) PROVE Ports'
  BY <1>6, ClaimKeepsPorts
<1>7. ASSUME NEW d \in Devices, Bind(d) PROVE Ports'
  BY <1>7, BindKeepsPorts
<1>8. ASSUME DrainDone \/ ScanOk \/ ScanFails \/ ClaimDone \/ PruneDone \/ Wake PROVE Ports'
  <2>1. /\ UNCHANGED <<slots, active, bridge, port>>
        /\ \/ phase' \in {"prune", "sleep"}
           \/ phase \notin {"prune", "sleep"}
           \/ \A d \in Devices : bridge[d] # "closing"
    BY <1>8 DEF DrainDone, ScanOk, ScanFails, ClaimDone, PruneDone, Wake
  <2> QED
    BY <2>1 DEF PortInv, ActiveIsListed, ClosingIsApart, BindFailsOnlyWhenBusy
<1>9. ASSUME NEW d \in Devices, Drop(d) \/ Forward(d) \/ ReaderGone(d) PROVE Ports'
  <2>1. /\ UNCHANGED <<slots, phase, active, port>>
        /\ \A e \in Devices : bridge'[e] \in {"closing", "failed"} => bridge'[e] = bridge[e]
    BY <1>9, <1>2 DEF Drop, Forward, ReaderGone
  <2> QED
    BY <2>1 DEF PortInv, ActiveIsListed, ClosingIsApart, BindFailsOnlyWhenBusy
<1>10. ASSUME NEW d \in Devices, SkipKnown(d) \/ OpenFails(d) \/ ClientStep(d) \/ BusStep(d)
       PROVE  UNCHANGED <<slots, phase, active, bridge, port>>
  BY <1>10 DEF SkipKnown, OpenFails, ClientStep, BusStep, Connect, Disconnect, Plug, Unplug
<1>11. ASSUME UNCHANGED <<slots, phase, active, bridge, port>> PROVE Ports'
  BY <1>11 DEF PortInv, ActiveIsListed, ClosingIsApart, BindFailsOnlyWhenBusy
<1>12. ASSUME UNCHANGED vars PROVE Ports'
  BY <1>11, <1>12 DEF vars
<1> HIDE DEF Ports
<1>13. Ports'
  BY <1>3, <1>4, <1>5, <1>6, <1>7, <1>8, <1>9, <1>10, <1>11, <1>12
     DEF Next, WatcherStep, TaskStep
<1> QED
  BY <1>1, <1>13 DEF PortInv, Ports

\* With no more decks than slots every deck that has a bridge is listed, at the port
\* its bridge was given: a claim never evicts (dock.rs:159-190, watcher.rs:92-110).
THEOREM ServedDecksAreListed ==
  ASSUME EnoughSlots
  PROVE  Spec => []ActiveIsListed
<1>1. PortInv => ActiveIsListed
  BY DEF PortInv
<1>2. PortInv /\ [Next]_vars => PortInv'
  BY PortInvStep
<1> QED
  BY <1>1, <1>2, PortInvInit, PTL DEF Spec

\* With no more decks than slots no two decks share a port: "spawned dedicated
\* secondary bridge" (watcher.rs:107).
THEOREM PortsAreDedicated ==
  ASSUME EnoughSlots
  PROVE  Spec => []DedicatedPort
<1>1. PortInv => DedicatedPort
  BY ListedHavePorts DEF PortInv
<1>2. PortInv /\ [Next]_vars => PortInv'
  BY PortInvStep
<1> QED
  BY <1>1, <1>2, PortInvInit, PTL DEF Spec

\* With no more decks than slots a bridge never meets a port that another bridge
\* of the watcher, running or aborted, still holds (watcher.rs:50-51, 117-122, 160).
THEOREM OwnBridgesLeaveThePort ==
  ASSUME EnoughSlots
  PROVE  Spec => []BindFailsOnlyWhenBusy
<1>1. PortInv => BindFailsOnlyWhenBusy
  BY DEF PortInv
<1>2. PortInv /\ [Next]_vars => PortInv'
  BY PortInvStep
<1> QED
  BY <1>1, <1>2, PortInvInit, PTL DEF Spec
================================================================================
