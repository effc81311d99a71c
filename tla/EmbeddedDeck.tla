----------------------------- MODULE EmbeddedDeck ------------------------------
(***************************************************************************)
(* A connection to the deck bridge of the embedded crate                   *)
(* (EmbeddedDeckBridge::handle_connection): one loop that reads, answers   *)
(* the frames that are complete, polls the surface for one event and       *)
(* pushes it.  Nothing else looks at the surface, so what happens at the   *)
(* deck reaches the client only when the client itself sends something.    *)
(*                                                                         *)
(* The surface, a trait that a board implements, is external: it queues    *)
(* its events.  A frame is sent in two pieces, which reads may split or    *)
(* join; Requests says which frames are answered.                          *)
(***************************************************************************)
EXTENDS Naturals, Sequences, FiniteSets, FiniteSetsExt

CONSTANTS
  Keys,          \* the keys of the deck, numbered from 0
  Others,        \* other events: DialRotate (by one), DialPress, DialRelease, TouchTap
  ReportKeys,    \* how many keys a report has room for: 8
  MaxEvents,     \* bound on the events of a behaviour
  MaxUnread,     \* bound on the pieces a client has sent ahead
  OutRoom,       \* what the socket takes before write_all waits
  None

Event(is, key) == [is |-> is, key |-> key]

Events == [is : {"KeyDown", "KeyUp"}, key : Keys] \cup [is : Others, key : {0}]

Reports ==
  [is : {"keys"}, number : 1 .. MaxEvents, pressed : SUBSET Keys]
    \cup [is : {"dial"}, number : 1 .. MaxEvents, value : 0 .. 1]
    \cup [is : {"touch"}, number : 1 .. MaxEvents]

ASSUME EmbeddedAssumption ==
  /\ Keys \subseteq Nat /\ (\A k \in Keys : 0 .. k \subseteq Keys)
  /\ Others \subseteq {"DialRotate", "DialPress", "DialRelease", "TouchTap"}
  /\ ReportKeys \in Nat \ {0}
  /\ MaxEvents \in Nat /\ MaxUnread \in Nat /\ OutRoom \in Nat \ {0}
  /\ None \notin Reports

VARIABLES
  down,       \* the keys held down
  queue,      \* events of the surface that were not polled yet
  conn,       \* "none", "open", or "closed" by the client and not noticed yet
  phase,      \* "read", "answer" or "push"
  unread,     \* pieces sent and not read
  part,       \* pieces of an unfinished frame in rx_buffer
  due,        \* frames still to be answered
  held,       \* the report of the event just polled
  out,        \* what is under way to the client: reports, and None for answers
  polled,     \* history: how many events were polled
  holding,    \* history: the keys down according to the polled events
  seen,       \* the keys down according to the client
  heard,      \* history: number of the last event before what the client has to hear
  clean,      \* history: no key was down according to what came before it connected
  chord       \* history: two keys were down together, and not all were released since

deckVars == <<down, chord>>
loopVars == <<phase, part, due, held>>
clientVars == <<seen, heard>>
pollVars == <<queue, polled, holding>>
vars == <<deckVars, loopVars, clientVars, pollVars, conn, unread, out, clean>>

Init ==
  /\ down = {} /\ chord = FALSE
  /\ queue = <<>> /\ polled = 0 /\ holding = {}
  /\ conn = "none" /\ unread = 0 /\ out = <<>>
  /\ phase = "read" /\ part = 0 /\ due = 0 /\ held = None
  /\ seen = {} /\ heard = 0 /\ clean = TRUE

--------------------------------------------------------------------------------
(***************************************************************************)
(* The surface.                                                            *)
(***************************************************************************)
Emit(e) ==
  /\ polled + Len(queue) < MaxEvents
  /\ queue' = Append(queue, e)
  /\ UNCHANGED <<polled, holding, loopVars, clientVars, conn, unread, out, clean>>

Press(k) ==
  /\ k \notin down
  /\ down' = down \cup {k}
  /\ chord' = (chord \/ down # {})
  /\ Emit(Event("KeyDown", k))

Release(k) ==
  /\ k \in down
  /\ down' = down \ {k}
  /\ chord' = (chord /\ down' # {})
  /\ Emit(Event("KeyUp", k))

Turn(is) ==
  /\ Emit(Event(is, 0))
  /\ UNCHANGED deckVars

\* The keys down after event e.
After(e, keys) ==
  CASE e.is = "KeyDown" -> keys \cup {e.key}
    [] e.is = "KeyUp" -> keys \ {e.key}
    [] OTHER -> keys

--------------------------------------------------------------------------------
(***************************************************************************)
(* The client.                                                             *)
(***************************************************************************)
Connect ==
  /\ conn = "none"
  /\ conn' = "open"
  /\ phase' = "read" /\ part' = 0 /\ due' = 0 /\ held' = None
  /\ unread' = 0 /\ out' = <<>>
  /\ seen' = {} /\ heard' = polled
  /\ clean' = (holding = {})
  /\ UNCHANGED <<deckVars, pollVars>>

SendFrame ==
  /\ conn = "open" /\ unread + 2 <= MaxUnread
  /\ unread' = unread + 2
  /\ UNCHANGED <<deckVars, loopVars, clientVars, pollVars, conn, out, clean>>

Receive ==
  /\ conn = "open" /\ out # <<>>
  /\ out' = Tail(out)
  /\ IF Head(out) = None THEN UNCHANGED clientVars
     ELSE /\ heard' = Head(out).number
          /\ seen' = IF Head(out).is = "keys" THEN Head(out).pressed ELSE seen
  /\ UNCHANGED <<deckVars, loopVars, pollVars, conn, unread, clean>>

CloseClient ==
  /\ conn = "open"
  /\ conn' = "closed"
  /\ out' = <<>>
  /\ UNCHANGED <<deckVars, loopVars, clientVars, pollVars, unread, clean>>

--------------------------------------------------------------------------------
(***************************************************************************)
(* handle_connection.                                                      *)
(***************************************************************************)
\* Whatever the read brought, the frames that are complete are handled; keepalive
\* acks, and writes that want no acknowledgement, are not answered.
Read(n) ==
  /\ conn # "none" /\ phase = "read"
  /\ unread' = unread - n
  /\ part' = (part + n) % 2
  /\ due' \in 0 .. (part + n) \div 2
  /\ phase' = "answer"
  /\ UNCHANGED <<deckVars, held, clientVars, pollVars, conn, out, clean>>

\* Ok(0), or a read error.
ReadEnd ==
  /\ conn = "closed" /\ phase = "read" /\ unread = 0
  /\ conn' = "none"
  /\ UNCHANGED <<deckVars, loopVars, clientVars, pollVars, unread, out, clean>>

\* A variant: what does not fit is left out.
WriteOrDrop(item) ==
  \/ /\ conn = "open" /\ conn' = conn
     /\ out' = IF Len(out) < OutRoom THEN Append(out, item) ELSE out
  \/ conn = "closed" /\ conn' = "none" /\ out' = out

\* A variant: it does not wait.
WriteAtOnce(item) ==
  \/ conn = "open" /\ out' = Append(out, item) /\ conn' = conn
  \/ conn = "closed" /\ conn' = "none" /\ out' = out

\* write_all waits for room; it fails when the client is gone, and `?` returns.
Write(item) ==
  \/ conn = "open" /\ Len(out) < OutRoom /\ out' = Append(out, item) /\ conn' = conn
  \/ conn = "closed" /\ conn' = "none" /\ out' = out

Answer ==
  /\ conn # "none" /\ phase = "answer" /\ due > 0
  /\ due' = due - 1
  /\ Write(None)
  /\ UNCHANGED <<deckVars, phase, part, held, clientVars, pollVars, unread, clean>>

\* A variant: the key that was released is still marked.
EncodeStuck(e, n) ==
  IF e.is \in {"KeyDown", "KeyUp"}
  THEN [is |-> "keys", number |-> n, pressed |-> {Min({e.key, ReportKeys - 1})}]
  ELSE IF e.is = "TouchTap" THEN [is |-> "touch", number |-> n]
  ELSE [is |-> "dial", number |-> n, value |-> IF e.is = "DialRelease" THEN 0 ELSE 1]

\* encode_surface_event: a report of keys shows the one that went down, or none;
\* that of a dial has one byte for its turn or for its state.
EncodeSurfaceEvent(e, n) ==
  IF e.is \in {"KeyDown", "KeyUp"}
  THEN [is |-> "keys", number |-> n,
        pressed |-> IF e.is = "KeyDown" THEN {Min({e.key, ReportKeys - 1})} ELSE {}]
  ELSE IF e.is = "TouchTap" THEN [is |-> "touch", number |-> n]
  ELSE [is |-> "dial", number |-> n, value |-> IF e.is = "DialRelease" THEN 0 ELSE 1]

\* A variant: the surface is polled only when no frame is unfinished.
PollWhenWhole ==
  /\ conn # "none" /\ phase = "answer" /\ due = 0
  /\ IF queue = <<>> \/ part # 0
     THEN phase' = "read" /\ UNCHANGED <<held, pollVars>>
     ELSE /\ held' = EncodeSurfaceEvent(Head(queue), polled + 1)
          /\ queue' = Tail(queue)
          /\ polled' = polled + 1
          /\ holding' = After(Head(queue), holding)
          /\ phase' = "push"
  /\ UNCHANGED <<deckVars, part, due, clientVars, conn, unread, out, clean>>

\* poll_event, once for each read.
PollEvent ==
  /\ conn # "none" /\ phase = "answer" /\ due = 0
  /\ IF queue = <<>>
     THEN phase' = "read" /\ UNCHANGED <<held, pollVars>>
     ELSE /\ held' = EncodeSurfaceEvent(Head(queue), polled + 1)
          /\ queue' = Tail(queue)
          /\ polled' = polled + 1
          /\ holding' = After(Head(queue), holding)
          /\ phase' = "push"
  /\ UNCHANGED <<deckVars, part, due, clientVars, conn, unread, out, clean>>

Push ==
  /\ conn # "none" /\ phase = "push"
  /\ Write(held)
  /\ held' = None
  /\ phase' = "read"
  /\ UNCHANGED <<deckVars, part, due, clientVars, pollVars, unread, clean>>

Loop == Answer \/ PollEvent \/ Push \/ ReadEnd

Next ==
  \/ \E k \in Keys : Press(k) \/ Release(k)
  \/ \E is \in Others : Turn(is)
  \/ Connect \/ SendFrame \/ Receive \/ CloseClient
  \/ \E n \in 1 .. unread : Read(n)
  \/ Loop

\* The loop runs when it can, and a client that stays sends and reads: Elgato's
\* poll their deck all the time.
Fairness ==
  /\ WF_vars(\E n \in 1 .. unread : Read(n))
  /\ WF_vars(Loop)
  /\ WF_vars(SendFrame)
  /\ WF_vars(Receive)

Spec == Init /\ [][Next]_vars /\ Fairness

--------------------------------------------------------------------------------
TypeOK ==
  /\ down \subseteq Keys /\ holding \subseteq Keys /\ seen \subseteq Keys
  /\ queue \in Seq(Events)
  /\ polled \in Nat /\ polled + Len(queue) <= MaxEvents
  /\ conn \in {"none", "open", "closed"}
  /\ phase \in {"read", "answer", "push"}
  /\ unread \in 0 .. MaxUnread /\ part \in 0 .. 1 /\ due \in 0 .. MaxUnread
  /\ out \in Seq(Reports \cup {None}) /\ Len(out) <= OutRoom
  /\ heard \in 0 .. polled
  /\ held \in Reports \cup {None}
  /\ conn # "none" => (held # None <=> phase = "push")
  /\ clean \in BOOLEAN /\ chord \in BOOLEAN

\* The reports among the items carry the numbers after first up to last, in order.
InOrder(items, first, last) ==
  LET told == {i \in DOMAIN items : items[i] # None}
  IN  /\ {items[i].number : i \in told} = first + 1 .. last
      /\ \A i, j \in told : i < j => items[i].number < items[j].number

\* While a connection lasts, its client hears every event that was polled, once
\* and in order: the reports under way, and the one write_all still waits with, are
\* those from what the client has heard to what was polled (bridge.rs:89-99 of the
\* embedded crate).
NoEventIsLostOnTheWay == conn = "open" => InOrder(Append(out, held), heard, polled)

\* A client that has heard everything knows which keys are down, although each
\* report is about one event only: unless keys overlap, or the deck has more keys
\* than a report, or a key was already held when the client connected
\* (encode_surface_event, bridge.rs:284-300 of the embedded crate).
ClientKnowsKeys ==
  conn = "open" /\ heard = polled + Len(queue) /\ clean /\ ~ chord
    /\ (\A k \in down : k < ReportKeys)
  => seen = down

\* No event stays behind: though one is taken per read, and only when the client
\* has sent something, each is heard in the end by a client that stays and keeps
\* sending (bridge.rs:41-42 and 89-99 of the embedded crate).
EveryEventIsHeard ==
  \A n \in 1 .. MaxEvents :
     (polled + Len(queue) >= n /\ conn = "open") ~> (heard >= n \/ conn # "open")
================================================================================
