------------------------------- MODULE DockProofs ------------------------------
(***************************************************************************)
(* What the slot table keeps, for any number of slots, decks and serial    *)
(* numbers, as long as its caller never attaches a serial number that is   *)
(* already in the table.                                                   *)
(***************************************************************************)
EXTENDS DockState, WellFoundedInduction, TLAPS

\* A non-empty set of natural numbers has a least member, and Min is it.
LEMMA MinOfNats ==
  ASSUME NEW S \in SUBSET Nat, S # {}
  PROVE  Min(S) \in S /\ \A j \in S : Min(S) <= j
<1>1. PICK i \in S : \A j \in S : ~ (<<j, i>> \in OpToRel(<, Nat))
  BY WFMin, NatLessThanWellFounded
<1>2. \A j \in S : i <= j
  <2> TAKE j \in S
  <2>1. <<j, i>> \notin OpToRel(<, Nat)
    BY <1>1
  <2>2. ~ (j < i)
    BY <2>1 DEF OpToRel
  <2> QED
    BY <2>2
<1> QED
  BY <1>2 DEF Min

\* The slot attach_device chooses always exists, also when the table is full.
LEMMA TargetInTable ==
  ASSUME DockTypeOK, NEW s \in Serials
  PROVE  TargetSlot(s) \in Slots
<1>1. FreeSlots \subseteq Slots /\ Slots \subseteq Nat
  BY DEF FreeSlots, Slots
<1>2. FindLowestFreeSlot \in Slots
  <2>1. CASE FreeSlots = {}
    BY <2>1, DockAssumption DEF FindLowestFreeSlot, Slots
  <2>2. CASE FreeSlots # {}
    BY <2>2, <1>1, MinOfNats DEF FindLowestFreeSlot
  <2> QED
    BY <2>1, <2>2
<1> QED
  BY <1>1, <1>2 DEF TargetSlot

--------------------------------------------------------------------------------
\* The inductive invariant: with the sticky map exact, no serial number can be
\* listed twice.
DockInv == DockTypeOK /\ StickyIsWhereItSits

\* A serial number listed in two slots would need two sticky entries.
LEMMA StickyMakesUnique == StickyIsWhereItSits => OneSlotPerSerial
BY DEF StickyIsWhereItSits, OneSlotPerSerial

LEMMA DockInvInit == DockInit => DockInv
BY DEF DockInit, DockInv, DockTypeOK, StickyIsWhereItSits, Occupied

LEMMA DockInvStep == DockInv /\ [DockNext]_dockVars => DockInv'
<1> SUFFICES ASSUME DockInv, [DockNext]_dockVars
             PROVE  DockInv'
  OBVIOUS
<1> USE DEF DockInv
<1>1. ASSUME NEW d \in Devices, Attach(d)
      PROVE  DockInv'
  <2> DEFINE s == SerialOf[d]
             i == TargetSlot(s)
  <2>1. s \in Serials /\ i \in Slots
    BY DockAssumption, TargetInTable
  <2>2. /\ slots' = [slots EXCEPT ![i] = d]
        /\ sticky' = [sticky EXCEPT ![s] = i]
        /\ SlotsOf(s) = {}
    BY <1>1 DEF Attach, AttachDevice
  <2> HIDE DEF s, i
  <2>3. DockTypeOK'
    BY <2>1, <2>2 DEF DockTypeOK
  <2>4. ASSUME NEW j \in Slots, Occupied(j)'
        PROVE  (sticky[SerialOf[slots[j]]] = j)'
    <3>1. CASE j = i
      BY <3>1, <2>1, <2>2 DEF DockTypeOK, s
    <3>2. CASE j # i
      <4>1. slots'[j] = slots[j] /\ Occupied(j) /\ slots[j] \in Devices
        BY <3>2, <2>2, <2>4 DEF DockTypeOK, Occupied
      <4>2. SerialOf[slots[j]] # s
        BY <4>1, <2>2 DEF SlotsOf
      <4>3. sticky[SerialOf[slots[j]]] = j
        BY <4>1 DEF StickyIsWhereItSits
      <4> QED
        BY <4>1, <4>2, <4>3, <2>2 DEF DockTypeOK
    <3> QED
      BY <3>1, <3>2
  <2> QED
    BY <2>3, <2>4 DEF StickyIsWhereItSits
<1>2. ASSUME NEW s \in Serials, Detach(s)
      PROVE  DockInv'
  BY <1>2 DEF Detach, DetachDeviceBySerial, DockTypeOK, StickyIsWhereItSits, Occupied
<1>3. CASE UNCHANGED dockVars
  BY <1>3 DEF dockVars, DockTypeOK, StickyIsWhereItSits, Occupied
<1> QED
  BY <1>1, <1>2, <1>3 DEF DockNext

\* The slot table and the sticky map keep their types (dock.rs:69-73).
THEOREM DockTypeCorrect == DockSpec => []DockTypeOK
<1>1. DockInv => DockTypeOK
  BY DEF DockInv
<1> QED
  BY <1>1, DockInvInit, DockInvStep, PTL DEF DockSpec

\* No deck is listed in two slots (dock.rs attach_device).
THEOREM NeverListedTwice == DockSpec => []OneSlotPerSerial
<1>1. DockInv => OneSlotPerSerial
  BY StickyMakesUnique DEF DockInv
<1> QED
  BY <1>1, DockInvInit, DockInvStep, PTL DEF DockSpec

\* The sticky map is exact for every attached deck (dock.rs:187).
THEOREM StickyIsExact == DockSpec => []StickyIsWhereItSits
<1>1. DockInv => StickyIsWhereItSits
  BY DEF DockInv
<1> QED
  BY <1>1, DockInvInit, DockInvStep, PTL DEF DockSpec

\* A returning deck gets its slot back unless another deck sits in it
\* (dock.rs:159-169).
THEOREM ReservationsAreHonoured == DockSpec => ReservationHonoured
<1>1. ASSUME DockInv, [DockNext]_dockVars, NEW s \in Serials
      PROVE  sticky[s] # None /\ sticky'[s] # sticky[s]
               => Occupied(sticky[s]) /\ SerialOf[slots[sticky[s]]] # s
  <2>1. ASSUME NEW d \in Devices, Attach(d), sticky[s] # None, sticky'[s] # sticky[s]
        PROVE  Occupied(sticky[s]) /\ SerialOf[slots[sticky[s]]] # s
    <3>1. SerialOf[d] = s /\ SlotsOf(s) = {} /\ sticky'[s] = TargetSlot(s)
      BY <2>1, <1>1, DockAssumption DEF Attach, AttachDevice, DockInv, DockTypeOK
    <3>2. sticky[s] \notin FreeSlots
      BY <3>1, <2>1 DEF TargetSlot
    <3>3. sticky[s] \in Slots
      BY <1>1, <2>1 DEF DockInv, DockTypeOK
    <3> QED
      BY <3>1, <3>2, <3>3 DEF FreeSlots, SlotsOf
  <2>2. ASSUME NEW t \in Serials, Detach(t)
        PROVE  sticky' = sticky
    BY <2>2 DEF Detach, DetachDeviceBySerial
  <2>3. CASE UNCHANGED dockVars
    BY <2>3 DEF dockVars
  <2> QED
    BY <2>1, <2>2, <2>3, <1>1 DEF DockNext
<1>2. DockInv /\ [DockNext]_dockVars => [KeepsReservations]_dockVars
  BY <1>1 DEF KeepsReservations
<1> QED
  BY <1>2, DockInvInit, DockInvStep, PTL DEF DockSpec, ReservationHonoured
================================================================================
