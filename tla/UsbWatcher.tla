------------------------------- MODULE UsbWatcher ------------------------------
(***************************************************************************)
(* The USB hotplug watcher (usb/watcher.rs UsbWatcher::run), the bridge    *)
(* task it spawns for every deck it claims (the select! of bridge.run()    *)
(* and slot_dc_rx.recv()), and the input readers whose failed transfers    *)
(* announce that a deck is gone (usb/device.rs spawn_input_reader).        *)
(*                                                                         *)
(* The watcher is one sequential loop: drain the disconnect signals, scan  *)
(* the bus, claim what is new, drop what is missing, sleep one second.     *)
(* Every await between two of its statements is a point where the bus, the *)
(* bridges and the readers move, so each stretch between two awaits is one *)
(* action.                                                                 *)
(***************************************************************************)
EXTENDS DockState, Sequences

CONSTANTS
  SignalCap,      \* capacity of the global_disconnect channel
  BusyPorts,      \* TCP ports another program listens on
  SharedSerials   \* serial numbers several decks may report at once

ASSUME WatcherAssumption ==
  /\ SignalCap \in Nat \ {0}
  /\ BusyPorts \subseteq Nat
  /\ SharedSerials \subseteq Serials
  /\ None \notin Serials

VARIABLES
  bus,        \* what the operating system knows of each device
  phase,      \* where in its loop the watcher is
  todo,       \* devices of the last scan that are still to be looked at
  seen,       \* seen_serials of the last scan
  active,     \* active_bridges: the device whose bridge runs for a serial
  detaching,  \* serial taken out of active_bridges, its slot not yet freed
  signals,    \* the global_disconnect channel, by the device each is about
  bridge,     \* the bridge task of each device
  port,       \* the port the bridge of a device was given
  polling     \* devices whose interrupt IN endpoint a client's reader holds

watcherVars == <<phase, todo, seen, active, detaching>>
taskVars == <<signals, bridge, port, polling>>
vars == <<slots, sticky, bus, watcherVars, taskVars>>

Phases == {"drain", "scan", "claim", "prune", "sleep"}
BridgeStates == {"none", "spawned", "listening", "failed", "signalled",
                 "closing", "cancelled", "ended"}

Init ==
  /\ DockInit
  /\ bus = [d \in Devices |-> "absent"]
  /\ phase = "drain"
  /\ todo = {}
  /\ seen = {}
  /\ active = [s \in Serials |-> None]
  /\ detaching = None
  /\ signals = <<>>
  /\ bridge = [d \in Devices |-> "none"]
  /\ port = [d \in Devices |-> None]
  /\ polling = {}

--------------------------------------------------------------------------------
(***************************************************************************)
(* The USB bus.  A device is plugged in once and unplugged once.           *)
(***************************************************************************)
Present == {d \in Devices : bus[d] = "plugged"}
Twins(d) == {e \in Devices \ {d} : SerialOf[e] = SerialOf[d]}

Plug(d) ==
  /\ bus[d] = "absent"
  /\ SerialOf[d] \in SharedSerials \/ Twins(d) \cap Present = {}
  /\ bus' = [bus EXCEPT ![d] = "plugged"]
  /\ UNCHANGED <<dockVars, watcherVars, taskVars>>

Unplug(d) ==
  /\ bus[d] = "plugged"
  /\ bus' = [bus EXCEPT ![d] = "gone"]
  /\ UNCHANGED <<dockVars, watcherVars, taskVars>>

--------------------------------------------------------------------------------
(***************************************************************************)
(* The watcher.                                                            *)
(***************************************************************************)

\* JoinHandle::abort: a task that waits is dropped at the next turn of the
\* runtime; until then it still holds its listener ("closing"), or may get its
\* signal out ("cancelled").
Aborted(b) ==
  CASE b = "spawned"   -> "ended"
    [] b = "listening" -> "closing"
    [] b = "signalled" -> "cancelled"
    [] OTHER           -> b

\* Variants of Teardown: the slot is not freed, or the task is not aborted.
TeardownKeepingSlot(s) ==
  /\ bridge' = [bridge EXCEPT ![active[s]] = Aborted(@)]
  /\ active' = [active EXCEPT ![s] = None]
  /\ UNCHANGED <<dockVars, bus, phase, todo, seen, detaching, port, polling>>

TeardownWithoutAbort(s) ==
  /\ active' = [active EXCEPT ![s] = None]
  /\ detaching' = s
  /\ UNCHANGED <<dockVars, bus, phase, todo, seen, bridge, port, polling>>

\* active_bridges.remove and abort; detach_device_by_serial is the next step.
Teardown(s) ==
  /\ bridge' = [bridge EXCEPT ![active[s]] = Aborted(@)]
  /\ active' = [active EXCEPT ![s] = None]
  /\ detaching' = s
  /\ UNCHANGED <<dockVars, bus, phase, todo, seen, port, polling>>

FinishDetach ==
  /\ detaching # None
  /\ DetachDeviceBySerial(detaching)
  /\ detaching' = None
  /\ UNCHANGED <<bus, phase, todo, seen, active, taskVars>>

\* The watcher reads only the serial number of a signal.
TakeSignal ==
  /\ phase = "drain" /\ detaching = None
  /\ signals # <<>>
  /\ signals' = Tail(signals)
  /\ LET s == SerialOf[Head(signals)]
     IN  \/ active[s] # None /\ Teardown(s)
         \/ active[s] = None /\ UNCHANGED <<dockVars, bus, watcherVars, bridge, port, polling>>

DrainDone ==
  /\ phase = "drain" /\ detaching = None
  /\ signals = <<>>
  /\ phase' = "scan"
  /\ UNCHANGED <<dockVars, bus, todo, seen, active, detaching, taskVars>>

\* A variant: seen_serials holds something else than serial numbers.
ScanOkByDevice ==
  /\ phase = "scan"
  /\ phase' = "claim"
  /\ todo' = Present
  /\ seen' = Present
  /\ UNCHANGED <<dockVars, bus, active, detaching, taskVars>>

ScanOk ==
  /\ phase = "scan"
  /\ phase' = "claim"
  /\ todo' = Present
  /\ seen' = {SerialOf[d] : d \in Present}
  /\ UNCHANGED <<dockVars, bus, active, detaching, taskVars>>

\* A variant: a scan error ends the watcher.
ScanFailsForGood ==
  /\ phase = "scan"
  /\ phase' = "ended"
  /\ UNCHANGED <<dockVars, bus, todo, seen, active, detaching, taskVars>>

ScanFails ==
  /\ phase = "scan"
  /\ phase' = "sleep"
  /\ UNCHANGED <<dockVars, bus, todo, seen, active, detaching, taskVars>>

SkipKnown(d) ==
  /\ phase = "claim" /\ d \in todo
  /\ active[SerialOf[d]] # None
  /\ todo' = todo \ {d}
  /\ UNCHANGED <<dockVars, bus, phase, seen, active, detaching, taskVars>>

OpenFails(d) ==
  /\ phase = "claim" /\ d \in todo
  /\ active[SerialOf[d]] = None
  /\ todo' = todo \ {d}
  /\ UNCHANGED <<dockVars, bus, phase, seen, active, detaching, taskVars>>

\* A variant: a device is claimed though its serial number has a bridge.
ClaimTwice(d) ==
  /\ phase = "claim" /\ d \in todo
  /\ active[SerialOf[d]] # d
  /\ bus[d] = "plugged"
  /\ AttachDevice(d)
  /\ port' = [port EXCEPT ![d] = PortOf(TargetSlot(SerialOf[d]))]
  /\ bridge' = [bridge EXCEPT ![d] = "spawned"]
  /\ active' = [active EXCEPT ![SerialOf[d]] = d]
  /\ todo' = todo \ {d}
  /\ UNCHANGED <<bus, phase, seen, detaching, signals, polling>>

\* open_from_info succeeds; attach_device, tokio::spawn and vacant.insert follow.
Claim(d) ==
  /\ phase = "claim" /\ d \in todo
  /\ active[SerialOf[d]] = None
  /\ bus[d] = "plugged"
  /\ AttachDevice(d)
  /\ port' = [port EXCEPT ![d] = PortOf(TargetSlot(SerialOf[d]))]
  /\ bridge' = [bridge EXCEPT ![d] = "spawned"]
  /\ active' = [active EXCEPT ![SerialOf[d]] = d]
  /\ todo' = todo \ {d}
  /\ UNCHANGED <<bus, phase, seen, detaching, signals, polling>>

ClaimDone ==
  /\ phase = "claim" /\ todo = {}
  /\ phase' = "prune"
  /\ UNCHANGED <<dockVars, bus, todo, seen, active, detaching, taskVars>>

Removed == {s \in Serials : active[s] # None /\ s \notin seen}

Prune(s) ==
  /\ phase = "prune" /\ detaching = None
  /\ s \in Removed
  /\ Teardown(s)
  /\ UNCHANGED signals

\* A variant: what the scan did not find is not dropped.
PruneNothing ==
  /\ phase = "prune"
  /\ phase' = "sleep"
  /\ UNCHANGED <<dockVars, bus, todo, seen, active, detaching, taskVars>>

PruneDone ==
  /\ phase = "prune" /\ detaching = None
  /\ Removed = {}
  /\ phase' = "sleep"
  /\ UNCHANGED <<dockVars, bus, todo, seen, active, detaching, taskVars>>

\* A variant: no pause between two scans.
WakeAtOnce ==
  /\ phase = "sleep"
  /\ phase' = "drain"
  /\ UNCHANGED <<dockVars, bus, todo, seen, active, detaching, taskVars>>

\* One second is enough for the runtime to run every task that is ready:
\* a spawned bridge binds its port, an aborted one is dropped.
Wake ==
  /\ phase = "sleep"
  /\ \A d \in Devices : bridge[d] \notin {"spawned", "closing", "cancelled"}
  /\ phase' = "drain"
  /\ UNCHANGED <<dockVars, bus, todo, seen, active, detaching, taskVars>>

--------------------------------------------------------------------------------
(***************************************************************************)
(* Bridge tasks and input readers.                                         *)
(***************************************************************************)
PortInUse(p) ==
  \/ p \in BusyPorts
  \/ \E d \in Devices : port[d] = p /\ bridge[d] \in {"listening", "closing"}

\* TcpListener::bind; an error ends the task, its active_bridges entry stays.
Bind(d) ==
  /\ bridge[d] = "spawned"
  /\ bridge' = [bridge EXCEPT ![d] = IF PortInUse(port[d]) THEN "failed" ELSE "listening"]
  /\ UNCHANGED <<dockVars, bus, watcherVars, signals, port, polling>>

\* The runtime drops an aborted task.
Drop(d) ==
  /\ bridge[d] \in {"closing", "cancelled"}
  /\ bridge' = [bridge EXCEPT ![d] = "ended"]
  /\ UNCHANGED <<dockVars, bus, watcherVars, signals, port, polling>>

\* A variant: a signal that finds the channel full is dropped.
ForwardOrDrop(d) ==
  /\ bridge[d] \in {"signalled", "cancelled"}
  /\ signals' = IF Len(signals) < SignalCap THEN Append(signals, d) ELSE signals
  /\ bridge' = [bridge EXCEPT ![d] = "ended"]
  /\ UNCHANGED <<dockVars, bus, watcherVars, port, polling>>

\* forward_dc.send(serial_clone), which waits for room in the channel.
Forward(d) ==
  /\ bridge[d] \in {"signalled", "cancelled"}
  /\ Len(signals) < SignalCap
  /\ signals' = Append(signals, d)
  /\ bridge' = [bridge EXCEPT ![d] = "ended"]
  /\ UNCHANGED <<dockVars, bus, watcherVars, port, polling>>

\* A client of the bridge whose reader gets the interrupt IN endpoint.
Connect(d) ==
  /\ bridge[d] = "listening"
  /\ d \notin polling
  /\ polling' = polling \cup {d}
  /\ UNCHANGED <<dockVars, bus, watcherVars, signals, bridge, port>>

\* The connection ends and its reader is aborted.
Disconnect(d) ==
  /\ d \in polling
  /\ polling' = polling \ {d}
  /\ UNCHANGED <<dockVars, bus, watcherVars, signals, bridge, port>>

\* The transfer ends with TransferError::Disconnected.  A connection outlives
\* the bridge that accepted it: the signal of such a reader has no receiver.
ReaderGone(d) ==
  /\ d \in polling
  /\ bus[d] = "gone"
  /\ polling' = polling \ {d}
  /\ bridge' = [bridge EXCEPT ![d] = IF @ = "listening" THEN "signalled" ELSE @]
  /\ UNCHANGED <<dockVars, bus, watcherVars, signals, port>>

--------------------------------------------------------------------------------
WatcherStep ==
  \/ TakeSignal \/ FinishDetach \/ DrainDone \/ ScanOk \/ ScanFails
  \/ \E d \in Devices : SkipKnown(d) \/ OpenFails(d) \/ Claim(d)
  \/ ClaimDone
  \/ \E s \in Serials : Prune(s)
  \/ PruneDone \/ Wake

TaskStep(d) == Bind(d) \/ Drop(d) \/ Forward(d) \/ ReaderGone(d)

ClientStep(d) == Connect(d) \/ Disconnect(d)

BusStep(d) == Plug(d) \/ Unplug(d)

Next ==
  \/ WatcherStep
  \/ \E d \in Devices : TaskStep(d) \/ ClientStep(d) \/ BusStep(d)

Spec == Init /\ [][Next]_vars

(***************************************************************************)
(* The runtime polls every task that is ready.  A scan, or the opening of  *)
(* a device that stays plugged in, may fail but not every time.  Nobody    *)
(* has to plug in or unplug a deck, to connect or to disconnect.           *)
(***************************************************************************)
Fairness ==
  /\ WF_vars(WatcherStep)
  /\ SF_vars(ScanOk)
  /\ \A d \in Devices :
       /\ SF_vars(Claim(d))
       /\ WF_vars(Bind(d) \/ Drop(d))
       /\ WF_vars(Forward(d))
       /\ WF_vars(ReaderGone(d))

FairSpec == Spec /\ Fairness

--------------------------------------------------------------------------------
TypeOK ==
  /\ DockTypeOK
  /\ bus \in [Devices -> {"absent", "plugged", "gone"}]
  /\ phase \in Phases
  /\ todo \subseteq Devices
  /\ seen \subseteq Serials
  /\ active \in [Serials -> Devices \cup {None}]
  /\ detaching \in Serials \cup {None}
  /\ signals \in Seq(Devices)
  /\ bridge \in [Devices -> BridgeStates]
  /\ port \in [Devices -> Nat \cup {None}]
  /\ polling \subseteq Devices

\* A slot the dock lists holds the device the watcher runs a bridge for, or one
\* whose entry it has just removed and whose slot it is about to free: the two
\* tables, kept by different tasks' calls, never disagree for longer than that
\* (watcher.rs:50-54, 92-141, 159-161).
SlotsBacked ==
  \A i \in Slots : Occupied(i) =>
     LET s == SerialOf[slots[i]]
     IN  active[s] = slots[i] \/ (detaching = s /\ active[s] = None)

\* With no more decks than slots, every deck with a bridge is in the slot table,
\* so that clients can find it, and the port of its bridge is the one its slot
\* advertises (dock.rs:171-190, watcher.rs:110).
ActiveIsListed ==
  \A s \in Serials : active[s] # None =>
     \E i \in Slots : slots[i] = active[s] /\ port[active[s]] = PortOf(i)

\* Each deck is served on a port of its own: "spawned dedicated secondary
\* bridge" (watcher.rs:107).
DedicatedPort ==
  \A s, t \in Serials :
     active[s] # None /\ active[t] # None /\ port[active[s]] = port[active[t]] => s = t

\* A bridge fails to bind only because another program holds its port, never
\* because of a bridge the watcher itself aborted (watcher.rs:50-51, 160).
BindFailsOnlyWhenBusy ==
  \A d \in Devices : bridge[d] = "failed" => port[d] \in BusyPorts

\* The watcher never tears down a deck that is plugged in: a disconnect signal
\* that arrives late is not taken for the deck's next enumeration
\* (watcher.rs:49-62, 152-169).
NoLiveTeardown ==
  [][\A s \in Serials :
        active[s] # None /\ active'[s] # active[s] => bus[active[s]] = "gone"]_vars

\* A deck that is unplugged, and whose serial number is not back before the
\* next scan, is taken out of the slot table (watcher.rs:151-169).
UnpluggedIsFreed ==
  \A d \in Devices :
     bus[d] = "gone" ~> (\A i \in Slots : slots[i] # d) \/ Twins(d) \cap Present # {}

\* A deck that is plugged in and stays gets a bridge, unless the watcher still
\* has one under its serial number (watcher.rs:78-142).
PluggedIsServed ==
  \A d \in Devices :
     bus[d] = "plugged" ~> bus[d] = "gone" \/ active[SerialOf[d]] # None

\* Once a reader has met the end of its device, the dead device is dropped even
\* if the deck is already back on the bus (watcher.rs:49-62, 131-133).
SignalNotLost ==
  \A d \in Devices : bridge[d] = "signalled" ~> active[SerialOf[d]] # d

\* "Remove devices no longer detected on USB bus" (watcher.rs:151): a device
\* that is gone is taken out of the slot table.
UnpluggedIsRemoved ==
  \A d \in Devices : bus[d] = "gone" ~> \A i \in Slots : slots[i] # d
================================================================================
