-------------------------------- MODULE Hotplug --------------------------------
(***************************************************************************)
(* How a client of the primary port learns which slots hold a deck.        *)
(*                                                                         *)
(* Four tasks write to the one connection (connection.rs                   *)
(* PrimaryConnection::run), all through the bounded channel tx that the    *)
(* socket writer drains: the connection loop, which answers 0x1c queries   *)
(* and sends everything else; the hotplug listener, fed by the broadcast   *)
(* channel of DockState; one task per deck that the first 0x1a poll finds; *)
(* they reach tx in any order.  The dock is any caller that DockNext       *)
(* describes; UsbWatcher is one.                                           *)
(***************************************************************************)
EXTENDS DockState, Sequences

CONSTANTS
  HotplugCap,   \* capacity of the hotplug broadcast channel
  TxCap         \* capacity of the channel to the socket writer

ASSUME HotplugAssumption ==
  /\ HotplugCap \in Nat \ {0}
  /\ TxCap \in Nat \ {0}

VARIABLES
  conn,      \* "accepted", then "open" once it subscribed, then "closed"
  rx,        \* the listener's part of the broadcast channel, oldest first, each
             \* change as the push that the listener makes of it
  lagged,    \* the channel overwrote a value this listener had not read
  alive,     \* the listener task is running
  held,      \* the push the listener waits to put in tx, <<>> for none
  pending,   \* the message the connection loop waits to put in tx, or <<>>
  polled,    \* has_sent_initial_hotplug
  pushes,    \* tasks of the first poll that still have to send their push
  tx,        \* the channel to the socket writer
  view,      \* what the client was last told of each slot
  live,      \* history: what the listener's pushes alone told it
  snapshot,  \* history: the slots as the first 0x1a poll found them
  answered,  \* history: what the last 0x1c query found in a slot, {} for none
  told       \* history: the client heard of the deck that is in the slot now

connVars == <<conn, alive, held, pending, polled, pushes, tx>>
chanVars == <<rx, lagged>>
clientVars == <<view, live, snapshot, answered, told>>
vars == <<dockVars, connVars, chanVars, clientVars>>

Other == [kind |-> "other"]
Info(k, i, x) == [kind |-> k, slot |-> i, dev |-> x]

About(kinds) == [kind : kinds, slot : Slots, dev : Devices \cup {None}]
Msg == About({"live", "snapshot", "answer"}) \cup {Other}

Nothing == [i \in Slots |-> None]

Init ==
  /\ DockInit
  /\ conn = "accepted"
  /\ rx = <<>>
  /\ lagged = FALSE
  /\ alive = FALSE
  /\ held = <<>>
  /\ pending = <<Other>>
  /\ polled = FALSE
  /\ pushes = {}
  /\ tx = <<>>
  /\ view = Nothing
  /\ live = Nothing
  /\ snapshot = Nothing
  /\ answered = [i \in Slots |-> {}]
  /\ told = [i \in Slots |-> FALSE]

--------------------------------------------------------------------------------
(***************************************************************************)
(* The dock: hotplug_tx.send under the write lock of the slot table.       *)
(***************************************************************************)

\* A variant: the channel has no bound.
PublishUnbounded(i, x) ==
  IF ~ alive
    THEN UNCHANGED chanVars
    ELSE /\ rx' = Append(rx, Info("live", i, x))
         /\ UNCHANGED lagged

\* A full broadcast channel overwrites its oldest value.
Publish(i, x) ==
  IF ~ alive
    THEN UNCHANGED chanVars
    ELSE /\ rx' = Append(IF Len(rx) < HotplugCap THEN rx ELSE Tail(rx), Info("live", i, x))
         /\ lagged' = (lagged \/ Len(rx) = HotplugCap)

AttachAndPublish(d) ==
  /\ Attach(d)
  /\ Publish(TargetSlot(SerialOf[d]), d)
  /\ told' = [told EXCEPT ![TargetSlot(SerialOf[d])] = FALSE]
  /\ UNCHANGED <<connVars, view, live, snapshot, answered>>

\* A variant: the removal is not published.
DetachSilently(s) ==
  /\ SlotsOf(s) # {}
  /\ Detach(s)
  /\ told' = [told EXCEPT ![Min(SlotsOf(s))] = FALSE]
  /\ UNCHANGED <<chanVars, connVars, view, live, snapshot, answered>>

DetachAndPublish(s) ==
  /\ SlotsOf(s) # {}
  /\ Detach(s)
  /\ Publish(Min(SlotsOf(s)), None)
  /\ told' = [told EXCEPT ![Min(SlotsOf(s))] = FALSE]
  /\ UNCHANGED <<connVars, view, live, snapshot, answered>>

--------------------------------------------------------------------------------
(***************************************************************************)
(* The connection.                                                         *)
(***************************************************************************)
Room == Len(tx) < TxCap

\* The first probe is sent, then subscribe_hotplug.
Subscribe ==
  /\ conn = "accepted"
  /\ Room
  /\ tx' = tx \o pending
  /\ pending' = <<>>
  /\ alive' = TRUE
  /\ conn' = "open"
  /\ live' = slots
  /\ UNCHANGED <<dockVars, chanVars, held, polled, pushes, view, snapshot, answered, told>>

\* hotplug_rx.recv(): the while-let ends at the first error, Lagged included.
Receive ==
  /\ alive /\ held = <<>>
  /\ rx # <<>>
  /\ alive' = ~ lagged
  /\ held' = IF lagged THEN <<>> ELSE <<Head(rx)>>
  /\ rx' = IF lagged THEN <<>> ELSE Tail(rx)
  /\ UNCHANGED <<dockVars, lagged, conn, pending, polled, pushes, tx, clientVars>>

PushLive ==
  /\ held # <<>>
  /\ Room
  /\ tx' = tx \o held
  /\ held' = <<>>
  /\ UNCHANGED <<dockVars, chanVars, conn, alive, pending, polled, pushes, clientVars>>

\* handle_frame on a 0x1c query: child_device_at, then tx.send of the answer.
QueryChild(i) ==
  /\ conn = "open" /\ pending = <<>>
  /\ pending' = <<Info("answer", i, slots[i])>>
  /\ answered' = [answered EXCEPT ![i] = {slots[i]}]
  /\ UNCHANGED <<dockVars, chanVars, conn, alive, held, polled, pushes, tx, view, live, snapshot, told>>

\* A variant: the poll is only answered.
PollWithoutPushes ==
  /\ conn = "open" /\ pending = <<>>
  /\ pending' = <<Other>>
  /\ polled' = TRUE
  /\ UNCHANGED <<dockVars, chanVars, conn, alive, held, pushes, tx, clientVars>>

\* handle_frame on a 0x1a poll: the first one spawns a push for every deck.
Poll ==
  /\ conn = "open" /\ pending = <<>>
  /\ pending' = <<Other>>
  /\ polled' = TRUE
  /\ IF polled
       THEN UNCHANGED <<pushes, snapshot>>
       ELSE /\ pushes' = {Info("snapshot", i, slots[i]) : i \in {j \in Slots : Occupied(j)}}
            /\ snapshot' = slots
  /\ UNCHANGED <<dockVars, chanVars, conn, alive, held, tx, view, live, answered, told>>

PushSnapshot(m) ==
  /\ conn = "open" /\ m \in pushes
  /\ Room
  /\ tx' = Append(tx, m)
  /\ pushes' = pushes \ {m}
  /\ UNCHANGED <<dockVars, chanVars, conn, alive, held, pending, polled, clientVars>>

\* Everything else the loop sends: keepalive probes and acks, other answers.
SendOther ==
  /\ conn = "open" /\ pending = <<>>
  /\ pending' = <<Other>>
  /\ UNCHANGED <<dockVars, chanVars, conn, alive, held, polled, pushes, tx, clientVars>>

Flush ==
  /\ conn = "open" /\ pending # <<>>
  /\ Room
  /\ tx' = tx \o pending
  /\ pending' = <<>>
  /\ UNCHANGED <<dockVars, chanVars, conn, alive, held, polled, pushes, clientVars>>

\* The writer task writes the oldest message and the client reads it.
Deliver ==
  /\ conn = "open" /\ tx # <<>>
  /\ tx' = Tail(tx)
  /\ LET m == Head(tx)
     IN  IF m.kind = "other"
           THEN UNCHANGED <<view, live, told>>
           ELSE LET i == m.slot  x == m.dev
                IN  /\ view' = [view EXCEPT ![i] = x]
                    /\ live' = [live EXCEPT ![i] = IF m.kind = "live" THEN x ELSE @]
                    /\ told' = [told EXCEPT ![i] = @ \/ (x # None /\ x = slots[i])]
  /\ UNCHANGED <<dockVars, chanVars, conn, alive, held, pending, polled, pushes, snapshot, answered>>

\* The loop breaks; the listener and the writer are aborted with all they hold.
Close ==
  /\ conn = "open" /\ pending = <<>>
  /\ conn' = "closed"
  /\ alive' = FALSE
  /\ held' = <<>>
  /\ rx' = <<>>
  /\ tx' = <<>>
  /\ pushes' = {}
  /\ view' = Nothing /\ live' = Nothing /\ snapshot' = Nothing
  /\ answered' = [i \in Slots |-> {}]
  /\ told' = [i \in Slots |-> FALSE]
  /\ UNCHANGED <<dockVars, lagged, pending, polled>>

--------------------------------------------------------------------------------
DockStep ==
  \/ \E d \in Devices : AttachAndPublish(d)
  \/ \E s \in Serials : DetachAndPublish(s)

ClientFrame == (\E i \in Slots : QueryChild(i)) \/ Poll \/ SendOther

Next ==
  \/ DockStep \/ ClientFrame
  \/ Subscribe \/ Receive \/ PushLive \/ Flush \/ Deliver \/ Close
  \/ \E m \in pushes : PushSnapshot(m)

Spec == Init /\ [][Next]_vars

(***************************************************************************)
(* The tasks run whenever they can, each gets its turn at a channel with   *)
(* room (tokio's mpsc is fair among waiting senders), and the client keeps *)
(* reading.  Nobody has to plug, poll, query or close.                     *)
(***************************************************************************)
Fairness ==
  /\ WF_vars(Subscribe)
  /\ WF_vars(Receive)
  /\ WF_vars(Deliver)
  /\ SF_vars(PushLive)
  /\ SF_vars(Flush)
  /\ \A i \in Slots, d \in Devices : SF_vars(PushSnapshot(Info("snapshot", i, d)))

FairSpec == Spec /\ Fairness

--------------------------------------------------------------------------------
TypeOK ==
  /\ DockTypeOK
  /\ conn \in {"accepted", "open", "closed"}
  /\ rx \in Seq(About({"live"})) /\ Len(rx) <= HotplugCap
  /\ lagged \in BOOLEAN
  /\ alive \in BOOLEAN
  /\ held \in Seq(About({"live"})) /\ Len(held) <= 1
  /\ pending \in Seq(About({"answer"}) \cup {Other}) /\ Len(pending) <= 1
  /\ polled \in BOOLEAN
  /\ pushes \subseteq About({"snapshot"})
  /\ tx \in Seq(Msg) /\ Len(tx) <= TxCap
  /\ view \in [Slots -> Devices \cup {None}]
  /\ live \in [Slots -> Devices \cup {None}]
  /\ snapshot \in [Slots -> Devices \cup {None}]
  /\ answered \in [Slots -> SUBSET (Devices \cup {None})]
  /\ told \in [Slots -> BOOLEAN]

\* The listener's pushes about slot i in a queue, and that the last of them
\* names x.
News(q, i) == {k \in DOMAIN q : q[k].kind = "live" /\ q[k].slot = i}
LastNews(q, i, x) == \E k \in News(q, i) : q[k].dev = x /\ \A j \in News(q, i) : j <= k

\* The client will believe that x is in slot i once all that is on its way from
\* the slot table has arrived.
WillKnow(i, x) ==
  \/ LastNews(rx, i, x)
  \/ News(rx, i) = {} /\ LastNews(held, i, x)
  \/ News(rx, i) = {} /\ News(held, i) = {} /\ LastNews(tx, i, x)
  \/ News(rx, i) = {} /\ News(held, i) = {} /\ News(tx, i) = {} /\ live[i] = x

Listening == alive /\ ~ lagged

\* Until it falls behind by more than the channel holds, the listener loses and
\* reorders nothing: what it sent and what is on its way always add up to the
\* slot table (dock.rs:189, 211, connection.rs:131-150).
LiveStreamIsComplete ==
  Listening => \A i \in Slots : WillKnow(i, slots[i])

\* Nothing is on its way to the client.
Quiet ==
  /\ conn = "open" /\ rx = <<>> /\ held = <<>>
  /\ pending = <<>> /\ pushes = {} /\ tx = <<>>

\* When all is quiet, a client that has polled is wrong about a slot only if it
\* was told what the first poll or its own last query found there, after
\* the listener had already announced what came next (connection.rs:410-426,
\* 451-473).
OnlyOldSnapshotsMislead ==
  Quiet /\ Listening /\ polled =>
    \A i \in Slots : view[i] # slots[i] =>
       \/ view[i] = snapshot[i] /\ snapshot[i] # None
       \/ view[i] \in answered[i]

\* Once a client has polled, a deck that stays attached is named to it,
\* whether it was there before the poll or came later (connection.rs:131-150,
\* 451-473).
EveryDeckIsAnnounced ==
  \A i \in Slots, d \in Devices :
     Listening /\ polled /\ slots[i] = d
       ~> told[i] \/ slots[i] # d \/ ~ Listening

\* "Trigger child hotplug notification on confirmed idle poll for all active
\* slots" (connection.rs:451): once all is quiet, a client that only listens and
\* polls has been told of no deck that is not in an active slot.
NoPhantomDeck ==
  Quiet /\ Listening => \A i \in Slots :
     answered[i] = {} /\ view[i] # None => Occupied(i)
================================================================================
