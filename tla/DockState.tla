------------------------------- MODULE DockState -------------------------------
(***************************************************************************)
(* The slot table of the dock: DockStateInner.slots and .sticky_map, and   *)
(* the two operations the USB watcher calls on it, attach_device and       *)
(* detach_device_by_serial (dock.rs).                                      *)
(*                                                                         *)
(* A member of Devices is one enumeration of a Stream Deck on the USB bus, *)
(* and also the handle the server claims on it.  A deck that is unplugged  *)
(* and plugged in again is a new device with the same serial number.       *)
(*                                                                         *)
(* Both operations run under the write lock of DockState::inner, so each   *)
(* is one step.                                                            *)
(***************************************************************************)
EXTENDS Naturals, FiniteSetsExt

CONSTANTS
  Devices,        \* the device enumerations that may ever show up
  Serials,        \* serial numbers
  SerialOf,       \* the serial number each device reports
  MaxChildSlots,  \* MAX_CHILD_SLOTS
  SecondaryPort,  \* DockConfig.secondary_port
  MaxPort,        \* u16::MAX
  None            \* Option::None

ASSUME DockAssumption ==
  /\ SerialOf \in [Devices -> Serials]
  /\ MaxChildSlots \in Nat \ {0}
  /\ SecondaryPort \in Nat
  /\ MaxPort \in Nat
  /\ None \notin Devices
  /\ None \notin Nat

VARIABLES
  slots,   \* the handle of the deck in each slot, or None
  sticky   \* sticky_map: the slot each serial was last given, or None

dockVars == <<slots, sticky>>

Slots == 0 .. MaxChildSlots - 1

\* secondary_port.saturating_add(slot_index)
PortOf(i) == IF SecondaryPort + i <= MaxPort THEN SecondaryPort + i ELSE MaxPort

--------------------------------------------------------------------------------

Occupied(i) == slots[i] # None
FreeSlots == {i \in Slots : ~ Occupied(i)}

\* The slots whose entry carries serial number s.
SlotsOf(s) == {i \in Slots : Occupied(i) /\ SerialOf[slots[i]] = s}

\* find_lowest_free_slot answers slot 0 when every slot is taken.
FindLowestFreeSlot == IF FreeSlots = {} THEN 0 ELSE Min(FreeSlots)

\* Variants of TargetSlot that the properties rule out: the reservation is not
\* looked up, or is trusted though another deck sits there.
TargetSlotIgnoringSticky(s) == FindLowestFreeSlot
TargetSlotTrustingSticky(s) ==
  IF sticky[s] # None THEN sticky[s] ELSE FindLowestFreeSlot

\* The slot attach_device chooses for a deck with serial number s.
TargetSlot(s) ==
  IF sticky[s] \in FreeSlots THEN sticky[s] ELSE FindLowestFreeSlot

\* A variant: the first reservation of a serial number is never updated.
AttachDeviceKeepingFirst(d) ==
  LET i == TargetSlot(SerialOf[d])
  IN  /\ slots' = [slots EXCEPT ![i] = d]
      /\ sticky' = [sticky EXCEPT ![SerialOf[d]] = IF @ = None THEN i ELSE @]

AttachDevice(d) ==
  LET i == TargetSlot(SerialOf[d])
  IN  /\ slots' = [slots EXCEPT ![i] = d]
      /\ sticky' = [sticky EXCEPT ![SerialOf[d]] = i]

DetachDeviceBySerial(s) ==
  /\ slots' = IF SlotsOf(s) = {}
                THEN slots
                ELSE [slots EXCEPT ![Min(SlotsOf(s))] = None]
  /\ UNCHANGED sticky

--------------------------------------------------------------------------------
(***************************************************************************)
(* What the table promises to a caller that, like the watcher, never       *)
(* attaches a serial number that is already in the table.                  *)
(***************************************************************************)
DockInit ==
  /\ slots = [i \in Slots |-> None]
  /\ sticky = [s \in Serials |-> None]

Attach(d) == SlotsOf(SerialOf[d]) = {} /\ AttachDevice(d)
Detach(s) == DetachDeviceBySerial(s)

DockNext ==
  \/ \E d \in Devices : Attach(d)
  \/ \E s \in Serials : Detach(s)

DockSpec == DockInit /\ [][DockNext]_dockVars

--------------------------------------------------------------------------------

DockTypeOK ==
  /\ slots \in [Slots -> Devices \cup {None}]
  /\ sticky \in [Serials -> Slots \cup {None}]

\* A deck is never listed twice: a client that walks the slots with 0x1c
\* queries sees each serial number at most once (dock.rs attach_device).
OneSlotPerSerial ==
  \A i, j \in Slots :
     Occupied(i) /\ Occupied(j) /\ SerialOf[slots[i]] = SerialOf[slots[j]] => i = j

\* The sticky map always points at the slot an attached deck sits in, so the
\* reservation that survives a detach is for the slot last used, whatever
\* other decks were moved, evicted or detached in between (dock.rs:180-187).
StickyIsWhereItSits ==
  \A i \in Slots : Occupied(i) => sticky[SerialOf[slots[i]]] = i

\* A deck keeps its slot number across unplugging and plugging in again, unless
\* another deck sits in that slot when it returns (dock.rs:159-169).
KeepsReservations ==
  \A s \in Serials :
     sticky[s] # None /\ sticky'[s] # sticky[s]
       => /\ Occupied(sticky[s])
          /\ SerialOf[slots[sticky[s]]] # s

ReservationHonoured == [][KeepsReservations]_dockVars
================================================================================
