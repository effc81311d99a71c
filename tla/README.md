# A TLA+ model of OpenNetDeck

OpenNetDeck makes USB Stream Decks reachable over TCP. A client first talks to
the *primary port* (5343), where the server plays Elgato's network dock and
tells which of its eight *slots* hold a deck, then to the deck's own *secondary
port* (5344 + slot), which forwards its traffic to USB. A second, embedded crate
plays the same two roles on a board without USB. This directory models both as
TLA+ modules, checks them with TLC on small instances, and proves with TLAPS, for
every value of the constants, all the safety properties that the runs check.

Paths below are relative to `crates/opennetdeck-server/src/` unless they name
another crate.

## Inventory

| Component | State | Operations | Talks to |
|---|---|---|---|
| slot table (`dock.rs`) | `slots`, `sticky_map`, under one `RwLock` | attach, detach by serial, look up a slot, list all | watcher (writes), primary connections (read), broadcast channel (publishes) |
| USB watcher (`usb/watcher.rs`) | `active_bridges`, `seen_serials`, the channel of disconnect signals | drain signals, scan, claim, prune, sleep 1 s | slot table, bridge tasks, USB bus |
| bridge task of a deck (`usb/watcher.rs`, `bridge.rs`) | its listener, its signal channel | bind, accept, forward a disconnect signal, be aborted | watcher, secondary connections |
| primary connection (`connection.rs`) | read buffer, clocks, `has_sent_initial_hotplug`, tx channel, three or four tasks | frames, ticks, hotplug pushes | slot table, client, in direct mode a deck |
| secondary connection (`bridge.rs`) | read buffer, clocks, tx channel, four tasks | frames, ticks, input reports | deck handle, client |
| deck handle (`usb/device.rs`) | `write_lock`, the exclusive endpoints | feature reports, OUT writes, input reader | USB |
| CORA codec (`opennetdeck-protocol/src/cora.rs`) | none | decode, encode, find_magic | every connection |
| report payloads, keepalives (`opennetdeck-protocol`) | none | build, parse | every connection |
| frame handlers (`connection.rs`, `bridge.rs`, and their twins in `opennetdeck-embedded`) | `has_sent_initial_hotplug`, the deck of a direct connection | answer, acknowledge, ignore or forward a frame | client, slot table, deck handle, surface |
| connection ids (`dock.rs`) | an atomic byte | next id | accept loop of the primary port |
| embedded hub (`opennetdeck-embedded/src/hub.rs`) | a fixed receive buffer, the children of the connection | greeting, frames | client |
| embedded deck bridge (`opennetdeck-embedded/src/bridge.rs`) | a fixed receive buffer | frames, one surface event per read | client, surface |
| mDNS, command line | none | start-up | |

What is hard here, and what makes each part correct:

* **Watcher, bridges, slot table.** Two tables are kept in step with awaits in
  between; signals name a serial number only and arrive late; a deck may leave
  and return at any point; tasks are aborted asynchronously and their ports
  given to others. Correct means: the tables agree, a deck that is plugged in is
  served on a port of its own and never torn down, one that is gone frees its
  slot, and a returning deck gets its slot back.
* **Hotplug news.** One client is told about one slot through three paths that
  nobody orders. Correct means: what it believes in the end is what the table
  holds.
* **Session.** Ticks, reads and replies are served by one loop, which also waits
  for USB and for the client. Correct means: silent clients go, others stay.
* **Framing.** TCP cuts the stream anywhere, and a board reads into a buffer of
  fixed size. Correct means: every frame is handled once and in order, garbage
  costs only itself, and only a frame that cannot fit ends a connection.
* **Handlers.** Four handlers dispatch on operation, payload, flags and message
  id; keepalives look like reports, and a deck returns its report in one of
  several layouts. Correct means: whoever asks is answered once, about what was
  asked, keepalives never reach a deck, and a board's answers differ from a
  server's in known ways only.
* **Embedded deck.** One loop reads, answers, polls and pushes, so that what
  happens at the deck waits for the client. Correct means: events arrive in order
  and in the end, and the client knows which keys are down.
* **Clients of one deck.** They compete for a lock and for an endpoint that is
  opened once. Correct means: transfers exclude each other, everyone is answered
  in order, input is neither lost nor reordered, and whoever is connected has it.

`PROJECT.json` lists every such hazard at its line with the properties aimed at it,
and says in a note where the instance or a condition of the property leaves out the
case in which the code fails; those cases are under `findings`.

## Modules

| Module | Models | Based on |
|---|---|---|
| `DockState` | slot table and sticky map; `DockSpec` is what it promises to a caller that never attaches a listed serial number | |
| `UsbWatcher` | watcher loop, bridge tasks, disconnect signals, USB bus | `DockState` |
| `Hotplug` | broadcast channel, listener, first-poll pushes, 0x1c answers, tx channel | `DockState` |
| `Session` | the select loop of a connection in discrete time | |
| `FifoChannel` | a reliable channel of numbered items that may break: what a stream of frames promises | |
| `CoraStream` | decoder, resynchronisation and the read loops of both crates | implements `FifoChannel` |
| `Reports` | frames, keepalives and report payloads, built and parsed | |
| `Requests` | the four frame handlers, the slot that a query names, connection ids | `Reports` |
| `DeckBridge` | connections that share one deck handle | |
| `EmbeddedDeck` | the connection loop of the embedded deck bridge, with its surface and its client | |
| `MCWatcher`, `MCHotplug`, `MCBridge`, `MCRequests` | instances for TLC | |
| `DockProofs`, `WatcherProofs`, `HotplugProofs`, `SessionProofs`, `CoraProofs`, `RequestsProofs`, `EmbeddedProofs`, `BridgeProofs` | the theorems, and the lemmas they rest on | the module they are about; the second and third also `DockProofs` |

**DockState.** A member of `Devices` is one enumeration on the bus and the handle
claimed on it; `SerialOf` gives its serial number, so "unplugged and back" is a
second device with the same serial. Both table operations hold the write lock
and are one step. `AttachDevice` includes the fallback to slot 0.

**UsbWatcher.** `phase` is the watcher's place in its loop. One action is a
stretch between two awaits: tearing a bridge down takes two (`Teardown` removes
the entry and aborts the task, `FinishDetach` frees the slot), and signals,
bridges and the bus move in between. `JoinHandle::abort` is asynchronous: an
aborted task is `"closing"` or `"cancelled"`, and still holds its port or gets
its signal out, until `Drop`. `Connect` is a connection whose reader got the IN
endpoint, `ReaderGone` its meeting the end of the device. `UsbWatcher` *extends*
the table: its every step is a `DockNext` step or leaves the table alone, which
the run `watcher` checks as the property `DockSpec`.

**Hotplug** takes any caller that `DockNext` describes for the watcher, one
connection, and the client at its end. `pending` is the message the connection
loop holds while it waits for room in tx, `held` the listener's, `pushes` the
tasks of the first poll. A change in the broadcast channel is kept as the push the
listener makes of it, which depends on nothing else. `view` is what the client
believes; `live`, `snapshot`, `answered` and `told` are history variables for the
properties. `WillKnow(i, x)` says that the last news of slot *i* on its way through
rx, `held` and tx, or what the client already heard, is *x*.

**Session** has a clock that moves only when no task can run: the server itself
is prompt, and what takes time is the USB bus and the client. One unit is 500 ms
in the runs: `Interval` 2.5 s, `Timeout` 5 s, `UsbTime` 1.5 s. A tick that could
not be taken stays due (tokio's Burst behaviour). `UsbTime` is the longest a frame
waits for `write_lock` and for its transfer together. 1.5 s is the limit of a control
transfer and holds for a deck with one client; the transfers of other clients come on
top, and an OUT transfer has no limit in the code (`usb/device.rs:227`), so that there
is one at all is an assumption. `Busy` is the time the frames of one read can take. `Deadline`, the bound on a client's silence, is `Busy` plus
`Timeout + Interval`, or plus `Busy` again where that is longer: the loop may be
handling one read while the next one waits. In the runs it is the first.

**CoraStream** keeps of a byte what decoding tells apart: its place in the magic,
the last header byte with operation and length, payload of frame *f*, noise.
`size` is the size of the receive buffer, chosen at the start: one that no stream
of the run can fill stands for the server's, which grows, the small ones for a
board's. `HangUp` is the read into no room, whose `Ok(0)` ends the loop. The
module is shown to implement `FifoChannel`: what was handled is what the channel
has delivered, and the channel is broken when the connection was given up.

**Reports and Requests.** A payload is its leading bytes and its length; padding is
not written out, and a child report also carries the record that was put in it,
with its text fields cut to the length of the field, for `Parse` to find again.
`local` is the address of the socket, which the server's network report gives as its
own, or leaves zero when it is not IPv4; a hub gives the configured address. A
handler is an operator from a frame (and the outcome of the USB transfer, where
one is made) to the replies, the pushes and the effect on the deck. The state
machine around them opens a connection to one of five ports (`"dock"` and
`"direct"` are the primary port in its two modes, `"bridge"` a deck's own port,
`"hub"` and `"deck"` the board's) and exchanges one frame at a time; how
exchanges interleave is the subject of `Hotplug` and `DeckBridge`.

`BoardAnswersLikeServer` says how far a board answers like a server. On a deck's port
the headers are the same (flags, operation, message id), and so are the lengths for a
short request, next to a deck that does not answer the server. On the dock's port
`OnHub` turns the server's reply into the hub's: flags, message id and content are
the same, the operation is always GetReport and the length always 1024 (128 for 0x1c).

**EmbeddedDeck.** A client's frame is two pieces, which a read may split or join;
each read is followed by the answers to the frames that became complete (keepalive
acks and writes that want no acknowledgement have none), by one
`PollEvent`, and by one `Push` if there was an event. `Write` waits for room in the
socket. `polled`, `holding`, `heard`, `clean` and `chord` are history variables for
the properties; `InOrder` says that the reports under way are those of the events
from the last one heard to the last one polled. The surface is a trait, modelled as a queue of events.

**DeckBridge.** Frames are classed by what the handlers do with them (answered
locally, ignored, sent to the deck with or without an answer); `Sends` gives the
kinds a client sends. A client may send for ever: it numbers its frames, up to
`MaxFrames`, and begins again at 1 when all were taken and answered. `lock` is the
queue of `write_lock`, whose head has it: tokio's mutex serves its waiters in the
order in which they asked, and `HandleFrame` asks. `owed` and
`emitted` are history: the numbers of the answers and reports the client is still
to receive. `InOrder` compares them with what is under way: each number once, in
growing order, through all queues taken as one line. Connections never
reopen; a client that returns is another member of `Conns`. `Direct` holds the
connections to the primary port of a server in direct mode, which forward to the
same handle and treat a keepalive ack as a query.

Operators whose comment calls them *a variant* are plausible mistakes. Each is
named in `PROJECT.json` under `mutants` with the property that fails when it
replaces the real definition.

## Runs

| Run | Instance | Shows |
|---|---|---|
| `watcher` | decks A and B, each plugged in up to twice, 2 slots, port 5345 taken by another program, serial B reported by two decks at once, signal channel of 1 | tables agree (`SlotsBacked`, `ActiveIsListed`), no double listing, exact reservations, ports of one's own, no live teardown, refinement of `DockSpec` |
| `watcher_live` | A twice, B once | unplugged decks free their slot, plugged decks are served, signals are not lost |
| `watcher_replug` | A twice | *violated*: a quick unplug and return is never noticed |
| `hotplug` | 2 decks, 1 slot, broadcast capacity 2, tx capacity 1 | the listener's stream is complete until it lags; only what the first poll or a query found can mislead; every deck is announced |
| `hotplug_stale` | 1 deck | *violated*: a client is left with a deck that is gone |
| `session` | chunks of up to 2 frames | of clients that always read, a silent one is gone after timeout + interval + the time of one chunk (the bound is tight), and a punctual one is kept |
| `session_stalled` | the same, all clients | *violated*: once the client has stopped reading the timeout is never looked at |
| `cora` | 4 items (frames of 3 to 5 bytes, unknown operations, noise up to 3 bytes), buffers of 4 and 5 bytes and one that is never full, any cut except inside a magic after noise | the read loop implements `FifoChannel`, liveness included; noise costs no frame; a connection is given up only for a frame that does not fit |
| `requests` | every head of a payload that the handlers' conditions tell apart, short and long, all flags, operations and message ids zero or not, every outcome of a transfer, one full and one empty slot, the configured address or none | who asks is answered once and with the right report, keepalives stay local, a board's answers differ from a server's only as stated, a child report parses to what the slot holds, ids differ |
| `embedded` | 3 keys of which a report shows 2, a dial press and a touch, 4 events, a socket with room for 1 | events arrive in order and in the end, and tell the client the keys that are down |
| `bridge` | a direct-mode and a secondary connection that send for ever, 1 and 2 frames at a time, 2 reports, queues of 1 | answers and reports add up, one transfer at a time and nobody keeps the lock, the endpoint comes back, everyone is answered though the other client always has something for the deck |
| `bridge_reconnect` | two secondary connections | *violated*: the second one is deaf for good |

Why the bounds are enough. Two serial numbers and two slots are the least with
which a deck can take another's reserved slot and its port; two devices per
serial give one return. A signal channel of one is full at once. The slots of a
connection's news never interact, so one slot with two decks covers replacement;
a broadcast capacity of two gives both order and lag. In `session` the numbers
are the code's, halved. Four frames of 1.5 s are the least that exceed the
timeout. A magic of two bytes can be cut in one place, as one of four can in
three; noise of three bytes exceeds a header, so that both ways through the
resynchronisation occur. With frames of at most five bytes a buffer of five is
filled exactly and one of four is too small. Two frames and two reports are the
least with an order. A handler keeps no state but `has_sent_initial_hotplug`, so
two exchanges on a connection are as many as differ. In `bridge` the direct client
can keep the deck busy with writes that ask for no answer, while the other waits. A text field of four bytes
holds a serial number of five cut and a shorter one whole; an id space of four
wraps around. Three keys with two in a report give a key that has no place of its
own; frames in two pieces give reads with no frame, one, and one and a half; room
for one item makes `write_all` wait. `CHECK_DEADLOCK FALSE` is set for
`DeckBridge` only, where all connections may be over.

Fairness. The runtime polls every task that is ready, so tasks have weak
fairness. A scan, or the claim of a deck that stays plugged in, may fail but not
always (strong fairness of `ScanOk` and `Claim`); a channel with several senders
serves its waiters in turn (strong fairness of the sends). `bridge` needs weak
fairness only: the turns at `write_lock` are in its queue, and with a lock that goes
to anyone who waits (`LockOutOfTurn`) `EveryRequestIsAnswered` fails. No
client, user or bus has to do anything, except that `hotplug` and `bridge`
assume for liveness a client that keeps reading. In `CoraStream` bytes that were
sent are read in the end, and the loop, which waits for nothing else, runs on.
`EmbeddedDeck` assumes besides its loop a client that keeps sending and reading
while it is connected; that is a demand on the client, and the price of polling
the surface after reads only. `Session` and `Requests` need no fairness: the
promises of the first are bounds on clocks, those of the second about one
exchange.

Refinement. `UsbWatcher` implements `DockSpec` (checked, and proved below).
`CoraStream` implements `FifoChannel!Spec` under the mapping `got <- handled`,
`open <- phase # "closed"`; this includes the liveness of the channel, which needs
that reads, resynchronisation and decoding make progress together, and is
model-checked; that every step is one of the channel's or a stutter is also proved.

## What the violated runs mean

Each of the four is a disagreement of the code with a sentence beside it;
`PROJECT.json` (`findings`) has the quotes. In short: (1) the watcher keys
everything by serial number, so a deck that returns within a scan period is not
noticed unless a reader was polling it; (2) the pushes of the first poll run
unordered with the live ones; (3) the connection loop waits without limit for room
in tx; (4) the input reader tries the endpoint once.

Three more show when the condition that keeps a passing run clear of them is lifted:

* `session.cfg` with `MaxFrames = 4`: `PunctualClientIsKept` fails, because
  `last_received` is the time of the read, not of the end of its handling
  (`bridge.rs:152`);
* `cora.cfg` with `SplitMagic = TRUE`: `NoFrameIsLost` fails, because
  `read_buf.clear()` forgets the start of a magic (`connection.rs:223`);
* `ClientKnowsKeys` without its conditions on chords and on keys: a report of the
  embedded crate shows one key only, and the keys past the eighth as the eighth
  (`opennetdeck-embedded/src/bridge.rs:292-293`).

A board can be told from a server. The hub answers each query as a GetReport in full
length, because `build_cora_response_frame` knows no other (`reports.rs:299-304` of
the protocol crate, `hub.rs:148` of the embedded one), where the server echoes the
operation and answers a short query with 128 bytes (`connection.rs:502-513`). On a
deck's port the lengths for a long query of 0x1c or 0x80 differ
(`opennetdeck-embedded/src/bridge.rs:175` and `:189`, `bridge.rs:295` and `:323`).

The rest were found while translating the code: connection id 255 is given out
(`dock.rs:97`); the hotplug listener also runs in direct mode
(`connection.rs:127`); a ninth deck evicts slot 0 and cannot bind (`dock.rs:251`),
which is why the runs of the watcher have no more decks than slots; every deck's
own port calls itself 5344 (`bridge.rs:293`); `is_keepalive_ack` looks at the
payload only, so that a query of report 0x1a may pass for one (`keepalive.rs:25`
of the protocol crate); a full buffer is logged as a disconnect, and an empty
GetReport stops a board (`opennetdeck-embedded/src/bridge.rs:44` and `:134`).

## Proofs

`DockProofs` proves for every number of slots, devices and serial numbers, from
`DockAssumption` alone (`SerialOf` is a function into `Serials`, at least one
slot, `None` is no device and no number):

* `DockTypeCorrect`: `DockSpec => []DockTypeOK`, with the lemma that
  `TargetSlot` is always a slot;
* `NeverListedTwice`: `DockSpec => []OneSlotPerSerial`;
* `StickyIsExact`: `DockSpec => []StickyIsWhereItSits`;
* `ReservationsAreHonoured`: `DockSpec => ReservationHonoured`.

`OneSlotPerSerial` is not inductive by itself in a useful way: what excludes a
second slot is that both would have to be *the* sticky slot. The inductive
invariant is `DockInv == DockTypeOK /\ StickyIsWhereItSits`, and uniqueness
follows from it (`StickyMakesUnique`). `ReservationHonoured` is a property of
steps and follows from `DockInv` and the shape of `TargetSlot`. `MinOfNats` is
the one fact about numbers: a non-empty set of naturals has a least member.

`WatcherProofs` proves for every number of devices, serial numbers and slots, also
with more decks than slots, and for every capacity of the disconnect channel,
from `DockAssumption` and `WatcherAssumption`:

* `WatcherTypeCorrect`: `Spec => []TypeOK`;
* `TablesAgree`: `Spec => []SlotsBacked`;
* `WatcherImplementsDock`: `Spec => DockSpec`, so the theorems about `DockSpec`
  hold of the running watcher (`WatcherNeverListsTwice`);
* `LiveDecksStay`: `Spec => NoLiveTeardown`.

The first three rest on `TablesInv`: `TypeOK`, `StickyIsWhereItSits`,
`SlotsBacked` and `DetachPhase`. `SlotsBacked` alone is not inductive: it allows a
slot whose entry has been removed but which is not freed yet, and a claim in that
moment would list the serial number twice. `DetachPhase` says that the moment
falls only in the drain or the prune, where nothing is claimed. `Claim` is then an
`Attach` of `DockSpec` (`ClaimAttaches`), and freeing the lowest slot of a serial
number frees its only one (`DetachFreesAll`).

`LiveDecksStay` needs to know who a signal is about, although the watcher reads
only its serial number. `SignalInv` says that a signal in the channel is about
the device of its serial number's entry, or that there is no entry and none can
appear before the signal is read (`SignalIsTrue`); that a task aborted with its
signal in hand gets rid of it before the next drain (`CancelledIsPruned`), which is
where the one-second pause of the loop is needed; and that what the scan did not
see is gone, not merely unseen (`UnseenIsGone`), because the watcher knows only
devices that were on the bus once (`ActiveIsSound`). Both invariants were first
checked by TLC on the instance of the run `watcher`.

With as many slots as serial numbers and ports that do not run past 65535
(`EnoughSlots`, a hypothesis of these three theorems and the condition under which
the code promises "dedicated" ports), `WatcherProofs` also has

* `ServedDecksAreListed` (`ActiveIsListed`), `PortsAreDedicated` (`DedicatedPort`)
  and `OwnBridgesLeaveThePort` (`BindFailsOnlyWhenBusy`);
* `WatcherHonoursReservations` (`ReservationHonoured`), which follows from the
  refinement and needs no hypothesis.

A deck is listed at its bridge's port as long as nobody is evicted, and nobody is
because a serial number that is not listed leaves a slot free (`FreeSlotExists`, by
counting). `ClosingIsApart` is what the port needs besides: a listener of an
aborted task is gone before the next claim, and no bridge has its port.

`HotplugProofs`, for any capacity of both channels and any number of slots and
decks, from `HotplugAssumption` and `DockAssumption`: `HotplugTypeCorrect`
(`TypeOK`), `LiveStreamComplete` (`LiveStreamIsComplete`) and
`OnlySnapshotsMislead` (`OnlyOldSnapshotsMislead`). The first property is inductive
next to `TypeOK`. The second is about quiet states only; `ViewExplained` says what
must hold of the others, with one disjunct for each message that may still change
the client's mind, and `LastAnswerCounts` and `PushesAreSnapshots` keep track of
what the answers and pushes in the queue say.

`SessionProofs`, for every timeout, interval, duration of a transfer, length of a
chunk and room in tx, from `SessionAssumption`: `SessionTypeCorrect` (`TypeOK`),
`SilentClientsGo` (`SilentClientIsDropped`) and, if the frames of one read take no
longer than the timeout (`Busy <= Timeout`; without it the property is false, see
above), `PunctualClientsStay` (`PunctualClientIsKept`). `ClockInv` relates the
clocks: a read, or frames that wait, are not older than the part of `Busy` that the
loop has used up (`Rest` is what it may still need), and when no tick is due the
last one found the client within its timeout. The proof showed that the bound first
written, `Timeout + Interval + Busy`, holds only while `Busy` is no longer than
`Timeout + Interval`.

`CoraProofs`, for any length of the magic, payloads, noise and stream, any buffer
that holds a header and any cut into reads, from `CoraAssumption`:
`CoraTypeCorrect` (`TypeOK`), `HangsUpOnLongFrames` (`HangsUpOnlyOnLongFrames`), and
under `SplitMagic = FALSE` (see above for what happens otherwise) `NoFrameLost`
(`NoFrameIsLost`) and `ConnectionIsAChannel`, the safety part of `FramesArrive`.
`CoraInv` speaks of `buf \o wire`, which reads do not change: a magic runs on into a
header and a header into its payload wherever they begin, the numbers of the frames
grow (`OrderInv`), the loop rests only when it can decode nothing (`IdleInv`), and
no frame that is to come has lost a byte (`WholeInv`). That last part must also say
what precedes a cut inside a magic: only frames.

`RequestsProofs`, for any frames, decks, texts, lengths of fields, answers of a deck
and widths of the counter, from `ReportsAssumption` and `RequestsAssumption`:
`AskersAreAnswered` (`WhoAsksIsAnsweredOnce`), `AnswersNameReports`
(`AnswerNamesTheReport`), `KeepalivesAreLocal` (`KeepalivesStayLocal`),
`BoardsAnswerLikeServers` (`BoardAnswersLikeServer`), `ChildReportsSurvive`
(`ChildInfoSurvives`) and `IdsDiffer` (`ConnectionIdsDiffer`). All but the last are
about one exchange and need of the past only which deck a connection has
(`PortInv`); their substance is in the lemmas about the handlers
(`OutcomeOnce`, `OutcomeNamed`, `DeckLikeBridge`, `HubLikeDock`) and about
the payloads (`DockReportNames`, `AlignedNames`, `LeRoundTrip`, `FieldRoundTrip`).
For the last, `IdsInv` says exactly which id was given out how many connections ago.

`EmbeddedProofs`, for any keys, events, places in a report and room in the socket,
from `EmbeddedAssumption`: `EmbeddedTypeCorrect` (`TypeOK`), `EventsArriveInOrder`
(`NoEventIsLostOnTheWay`) and `ClientsKnowTheKeys` (`ClientKnowsKeys`). The client's
picture is right only once everything is heard; `KeysInv` says before that, for the
queue of the surface, the report in hand and the socket in turn, that the last
thing in it about a key says where the key is.

`BridgeProofs`, for any number of connections, frames and reports and any capacity
of the channels, from `BridgeAssumption`: `BridgeTypeCorrect` (`TypeOK`),
`AnswersArriveInOrder` (`AnswersAddUp`), `ReportsArriveInOrder` (`InputAddsUp`) and
`TransfersExclude` (`OneTransferAtATime`). The sums are inductive once it is known
which task can be where (`TasksInv`): a loop has a frame exactly while it handles
one, the queue of `write_lock` is the connections whose loop is there, the endpoint belongs to one reader, and nothing is under way on a connection
that is not open.

Every inductive invariant was first checked by TLC on the instance of the run.

Only model-checked: the seven liveness properties (`UnpluggedIsFreed`,
`PluggedIsServed`, `SignalNotLost`, `EveryDeckIsAnnounced`, `EveryEventIsHeard`,
`EndpointIsGivenBack`, `EveryRequestIsAnswered`), and the fairness in `FramesArrive`.
Liveness under fairness, and facts about ENABLED, are beyond the proof system; so
is what a recursively defined operator computes for every input, which is why no
module here declares one.

## Not modelled

Device model tables and error texts, which are lookups without state; mDNS
(`discovery.rs`, whose `unregister` is never called), the command line and the
start-up, which happen once and call into libraries; logging; the wording and
padding of reports; `set_device_for_slot`, `serial_as_str`, the `*_vec` helpers,
`open_first` and `open_all`, which only tests call or nothing does. What boards do behind the
surface trait, and their network drivers, are external. Write errors of a socket
are seen by a connection as the end of its client. Transfers are assumed to end,
which an OUT transfer does without a limit of the server's own
(`usb/device.rs:227`).

## Plan

1. Core: slot table, watcher, hotplug news, session, framing, clients of a deck,
   with the theorems of the slot table and of the watcher (done).
2. The embedded crate, the codec as an implementation of a reliable channel, the
   handlers with their payloads, connection ids (done).
3. Proofs of the safety properties of every module, and of the safety part of the
   second refinement (done).
4. Left: steps of `FairSpec` towards the liveness properties that need no fairness
   (what each task leaves enabled); stronger statements where a proof showed more
   than its property says, such as the deadline of a client whose transfers are slow.
