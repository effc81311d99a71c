------------------------------- MODULE DeckBridge ------------------------------
(***************************************************************************)
(* The clients of one deck: the connections to its secondary port          *)
(* (bridge.rs SecondaryConnection) and, in direct mode, those to the       *)
(* primary port (connection.rs PrimaryConnection), all of which share one  *)
(* StreamDeckUsbHandle (usb/device.rs): its write_lock, and the interrupt  *)
(* IN endpoint, which only one input reader at a time can open.            *)
(*                                                                         *)
(* Each connection is four tasks: the loop, which handles one frame after  *)
(* the other; the input reader; the forwarder of its reports; the writer.  *)
(* Its keepalive ticks and its timeout are in Session.                     *)
(* A client that comes back is a new connection.                           *)
(***************************************************************************)
EXTENDS Naturals, FiniteSets, Sequences

CONSTANTS
  Conns,       \* the connections that may ever be accepted
  Direct,      \* those of them on the primary port of a server in direct mode
  MaxFrames,   \* frames the client of each connection numbers before it starts over
  Sends,       \* the kinds of frames each of them sends
  MaxReports,  \* input reports the deck emits
  InCap,       \* room for reports between a reader and tx
  TxCap,       \* capacity of the channel to the socket writer
  None

ASSUME BridgeAssumption ==
  /\ Direct \subseteq Conns
  /\ MaxFrames \in [Conns -> Nat] /\ MaxReports \in Nat
  /\ InCap \in Nat \ {0} /\ TxCap \in Nat \ {0}
  /\ None \notin Conns

VARIABLES
  deck,      \* "plugged" or "gone"
  lock,      \* write_lock: the connection that has it, then those that wait, in turn
  endpoint,  \* the connection whose reader holds the IN endpoint, or None
  reports,   \* how many input reports the deck has emitted
  conn,      \* "new", "open" or "closed"
  loop,      \* what the connection loop is doing
  job,       \* the frame it handles
  inbox,     \* frames the client sent that are not handled yet
  reader,    \* the input reader; "sending" holds report number `reports`
  input,     \* reports in the input channel or with the forwarder
  tx,        \* the channel to the socket writer
  sent,      \* history: the number of the last frame the client sent
  owed,      \* history: those of them whose answer it has yet to receive
  emitted    \* history: reports the reader took that it has yet to receive

loopVars == <<conn, loop, job, inbox, sent, owed>>
inputVars == <<endpoint, reports, reader, input, emitted>>
vars == <<deck, lock, loopVars, inputVars, tx>>

--------------------------------------------------------------------------------
(***************************************************************************)
(* Frames, by what the handler does with them.  "local" is a keepalive     *)
(* probe or a query the server answers by itself, "ack" a keepalive ack,   *)
(* "report" a feature report to read from the deck, or a SendReport or     *)
(* Write that asks for an answer, "quiet" one of these that does not.      *)
(***************************************************************************)
Kinds == {"local", "ack", "report", "quiet"}
Frame == [is : Kinds, nr : Nat]
Message == [is : {"answer", "input"}, nr : Nat]

UsesDeck(f) == f.is \in {"report", "quiet"}

\* The primary port takes a keepalive ack for a 0x1a query.
Answered(c) == {"local", "report"} \cup (IF c \in Direct THEN {"ack"} ELSE {})
IsAnswered(c, f) == f.is \in Answered(c)

Answer(n) == [is |-> "answer", nr |-> n]
Input(n) == [is |-> "input", nr |-> n]

Init ==
  /\ deck = "plugged" /\ lock = <<>> /\ endpoint = None /\ reports = 0
  /\ conn = [c \in Conns |-> "new"]
  /\ loop = [c \in Conns |-> "select"]
  /\ reader = [c \in Conns |-> "none"]
  /\ job = [c \in Conns |-> <<>>] /\ sent = [c \in Conns |-> 0]
  /\ inbox = [c \in Conns |-> <<>>] /\ owed = [c \in Conns |-> {}]
  /\ input = [c \in Conns |-> <<>>] /\ emitted = [c \in Conns |-> {}]
  /\ tx = [c \in Conns |-> <<>>]

Push(q, c, x) == [q EXCEPT ![c] = Append(@, x)]
Pop(q, c) == [q EXCEPT ![c] = Tail(@)]

--------------------------------------------------------------------------------
(***************************************************************************)
(* The deck and the clients.                                               *)
(***************************************************************************)
Unplug ==
  /\ deck = "plugged"
  /\ deck' = "gone"
  /\ UNCHANGED <<lock, loopVars, inputVars, tx>>

\* A transfer submitted by a reader completes with a report.
Press(c) ==
  /\ deck = "plugged" /\ reports < MaxReports /\ conn[c] = "open"
  /\ endpoint = c /\ reader[c] = "polling"
  /\ reports' = reports + 1
  /\ reader' = [reader EXCEPT ![c] = "sending"]
  /\ emitted' = [emitted EXCEPT ![c] = @ \cup {reports'}]
  /\ UNCHANGED <<deck, lock, loopVars, endpoint, input, tx>>

\* Message ids are the client's choice: frames carry the numbers 1, 2, ..., and
\* 1 again once all frames were taken and all answers are there.  A client may
\* send for ever.
NextNr(c) == IF inbox[c] = <<>> /\ owed[c] = {} THEN 1 ELSE sent[c] + 1

SendFrame(c, k) ==
  LET f == [is |-> k, nr |-> NextNr(c)]
  IN  /\ conn[c] = "open" /\ k \in Sends[c] /\ f.nr <= MaxFrames[c]
      /\ sent' = [sent EXCEPT ![c] = f.nr]
      /\ inbox' = Push(inbox, c, f)
      /\ owed' = IF IsAnswered(c, f) THEN [owed EXCEPT ![c] = @ \cup {f.nr}] ELSE owed
      /\ UNCHANGED <<deck, lock, conn, loop, job, inputVars, tx>>

--------------------------------------------------------------------------------
(***************************************************************************)
(* The connection loop.                                                    *)
(***************************************************************************)
Accept(c) ==
  /\ conn[c] = "new"
  /\ conn' = [conn EXCEPT ![c] = "open"]
  /\ reader' = [reader EXCEPT ![c] = "spawned"]
  /\ UNCHANGED <<deck, lock, loop, job, inbox, sent, owed, endpoint, reports, input, emitted, tx>>

\* handle_frame and handle_incoming_frame, up to their first await, which for a
\* frame to the deck is that of write_lock.lock(): tokio's mutex has a queue.
HandleFrame(c) ==
  /\ conn[c] = "open" /\ loop[c] = "select"
  /\ inbox[c] # <<>>
  /\ LET f == Head(inbox[c])
         next == IF UsesDeck(f) THEN "lock" ELSE IF IsAnswered(c, f) THEN "answer" ELSE "select"
     IN  /\ loop' = [loop EXCEPT ![c] = next]
         /\ job' = [job EXCEPT ![c] = IF next = "select" THEN <<>> ELSE <<f>>]
         /\ lock' = IF next = "lock" THEN Append(lock, c) ELSE lock
  /\ inbox' = Pop(inbox, c)
  /\ UNCHANGED <<deck, conn, sent, owed, inputVars, tx>>

\* A variant: whoever asks first when write_lock is free has it, whoever waits.
LockOutOfTurn(c) ==
  /\ loop[c] = "lock" /\ \A e \in Conns : loop[e] # "transfer"
  /\ \E i \in DOMAIN lock :
       lock[i] = c /\ lock' = <<c>> \o SubSeq(lock, 1, i - 1) \o SubSeq(lock, i + 1, Len(lock))
  /\ loop' = [loop EXCEPT ![c] = "transfer"]
  /\ UNCHANGED <<deck, conn, job, inbox, sent, owed, inputVars, tx>>

\* write_lock.lock().await returns, and the transfer is submitted.
Lock(c) ==
  /\ loop[c] = "lock" /\ Head(lock) = c
  /\ loop' = [loop EXCEPT ![c] = "transfer"]
  /\ UNCHANGED <<deck, lock, conn, job, inbox, sent, owed, inputVars, tx>>

\* Variants of TransferEnds: the lock is kept after an error, or an error is
\* not answered.
TransferEndsKeepingLock(c) ==
  /\ loop[c] = "transfer"
  /\ lock' = IF deck = "gone" THEN lock ELSE Tail(lock)
  /\ loop' = [loop EXCEPT ![c] = IF IsAnswered(c, job[c][1]) THEN "answer" ELSE "select"]
  /\ job' = [job EXCEPT ![c] = IF IsAnswered(c, job[c][1]) THEN @ ELSE <<>>]
  /\ UNCHANGED <<deck, conn, inbox, sent, owed, inputVars, tx>>

TransferEndsInSilence(c) ==
  /\ loop[c] = "transfer"
  /\ lock' = Tail(lock)
  /\ loop' = [loop EXCEPT ![c] = IF IsAnswered(c, job[c][1]) /\ deck # "gone" THEN "answer" ELSE "select"]
  /\ job' = [job EXCEPT ![c] = IF IsAnswered(c, job[c][1]) /\ deck # "gone" THEN @ ELSE <<>>]
  /\ UNCHANGED <<deck, conn, inbox, sent, owed, inputVars, tx>>

\* The transfer completes, fails or runs into its time limit: a query that
\* failed has a made-up answer, a command that failed is acknowledged.
TransferEnds(c) ==
  /\ loop[c] = "transfer"
  /\ lock' = Tail(lock)
  /\ loop' = [loop EXCEPT ![c] = IF IsAnswered(c, job[c][1]) THEN "answer" ELSE "select"]
  /\ job' = [job EXCEPT ![c] = IF IsAnswered(c, job[c][1]) THEN @ ELSE <<>>]
  /\ UNCHANGED <<deck, conn, inbox, sent, owed, inputVars, tx>>

\* tx.send(..).await of the answer.
SendAnswer(c) ==
  /\ loop[c] = "answer" /\ Len(tx[c]) < TxCap
  /\ tx' = Push(tx, c, Answer(job[c][1].nr))
  /\ loop' = [loop EXCEPT ![c] = "select"]
  /\ job' = [job EXCEPT ![c] = <<>>]
  /\ UNCHANGED <<deck, lock, conn, inbox, sent, owed, inputVars>>

Forgotten(c) ==
  /\ inbox' = [inbox EXCEPT ![c] = <<>>] /\ sent' = [sent EXCEPT ![c] = 0]
  /\ owed' = [owed EXCEPT ![c] = {}] /\ tx' = [tx EXCEPT ![c] = <<>>]
  /\ input' = [input EXCEPT ![c] = <<>>] /\ emitted' = [emitted EXCEPT ![c] = {}]

\* A variant: the reader is not aborted and waits for a key to be pressed.
CloseKeepingReader(c) ==
  /\ conn[c] = "open" /\ loop[c] = "select"
  /\ conn' = [conn EXCEPT ![c] = "closed"]
  /\ reader' = [reader EXCEPT ![c] = IF endpoint = c THEN "polling" ELSE "ended"]
  /\ Forgotten(c)
  /\ UNCHANGED <<deck, lock, loop, job, endpoint, reports>>

\* The client closes, or is silent for too long: the loop breaks and aborts the
\* other tasks.  An aborted reader holds its endpoint until it is dropped.
Close(c) ==
  /\ conn[c] = "open" /\ loop[c] = "select"
  /\ conn' = [conn EXCEPT ![c] = "closed"]
  /\ reader' = [reader EXCEPT ![c] = IF endpoint = c THEN "aborted" ELSE "ended"]
  /\ Forgotten(c)
  /\ UNCHANGED <<deck, lock, loop, job, endpoint, reports>>

--------------------------------------------------------------------------------
(***************************************************************************)
(* The input reader, the forwarder and the writer.                         *)
(***************************************************************************)

\* Interface::endpoint fails while another reader holds the endpoint, and the
\* reader returns.
OpenEndpoint(c) ==
  /\ reader[c] = "spawned"
  /\ IF endpoint = None
       THEN endpoint' = c /\ reader' = [reader EXCEPT ![c] = "polling"]
       ELSE reader' = [reader EXCEPT ![c] = "ended"] /\ UNCHANGED endpoint
  /\ UNCHANGED <<deck, lock, loopVars, reports, input, emitted, tx>>

\* Variants of ReaderSends: a report that finds no room is dropped, or the
\* channel has no bound.
ReaderTriesToSend(c) ==
  /\ reader[c] = "sending"
  /\ input' = IF Len(input[c]) < InCap THEN Push(input, c, Input(reports)) ELSE input
  /\ reader' = [reader EXCEPT ![c] = "polling"]
  /\ UNCHANGED <<deck, lock, loopVars, endpoint, reports, emitted, tx>>

ReaderSendsUnbounded(c) ==
  /\ reader[c] = "sending"
  /\ input' = Push(input, c, Input(reports))
  /\ reader' = [reader EXCEPT ![c] = "polling"]
  /\ UNCHANGED <<deck, lock, loopVars, endpoint, reports, emitted, tx>>

\* tx.send(data).await; no other reader can have a report before.
ReaderSends(c) ==
  /\ reader[c] = "sending" /\ Len(input[c]) < InCap
  /\ input' = Push(input, c, Input(reports))
  /\ reader' = [reader EXCEPT ![c] = "polling"]
  /\ UNCHANGED <<deck, lock, loopVars, endpoint, reports, emitted, tx>>

\* TransferError::Disconnected.
ReaderDisconnected(c) ==
  /\ reader[c] = "polling" /\ deck = "gone"
  /\ reader' = [reader EXCEPT ![c] = "ended"]
  /\ endpoint' = None
  /\ UNCHANGED <<deck, lock, loopVars, reports, input, emitted, tx>>

DropReader(c) ==
  /\ reader[c] = "aborted"
  /\ reader' = [reader EXCEPT ![c] = "ended"]
  /\ endpoint' = None
  /\ UNCHANGED <<deck, lock, loopVars, reports, input, emitted, tx>>

ForwardInput(c) ==
  /\ input[c] # <<>> /\ Len(tx[c]) < TxCap
  /\ tx' = Push(tx, c, Head(input[c]))
  /\ input' = Pop(input, c)
  /\ UNCHANGED <<deck, lock, loopVars, endpoint, reports, reader, emitted>>

\* The writer task writes the oldest message and the client reads it.
Deliver(c) ==
  /\ tx[c] # <<>>
  /\ tx' = Pop(tx, c)
  /\ IF Head(tx[c]).is = "answer"
       THEN owed' = [owed EXCEPT ![c] = @ \ {Head(tx[c]).nr}] /\ UNCHANGED emitted
       ELSE emitted' = [emitted EXCEPT ![c] = @ \ {Head(tx[c]).nr}] /\ UNCHANGED owed
  /\ UNCHANGED <<deck, lock, conn, loop, job, inbox, sent, endpoint, reports, reader, input>>

--------------------------------------------------------------------------------
LoopStep(c) == HandleFrame(c) \/ Lock(c) \/ TransferEnds(c) \/ SendAnswer(c)

ReaderStep(c) ==
  \/ OpenEndpoint(c) \/ ReaderSends(c) \/ ReaderDisconnected(c) \/ DropReader(c)

ClientStep(c) ==
  \/ Accept(c) \/ Close(c) \/ Press(c)
  \/ \E k \in Kinds : SendFrame(c, k)

Next ==
  \/ Unplug
  \/ \E c \in Conns :
       LoopStep(c) \/ ReaderStep(c) \/ ForwardInput(c) \/ Deliver(c) \/ ClientStep(c)

Spec == Init /\ [][Next]_vars

(***************************************************************************)
(* The tasks run whenever they can, a transfer ends, and the client reads. *)
(* Nobody has to connect, press, send or leave.  That write_lock is given  *)
(* to its waiters in turn is not assumed here: it is in its queue.         *)
(***************************************************************************)
Fairness ==
  \A c \in Conns :
    /\ WF_vars(LoopStep(c))
    /\ WF_vars(ReaderStep(c))
    /\ WF_vars(Deliver(c))

FairSpec == Spec /\ Fairness

--------------------------------------------------------------------------------
TypeOK ==
  /\ deck \in {"plugged", "gone"}
  /\ lock \in Seq(Conns) /\ endpoint \in Conns \cup {None}
  /\ reports \in 0 .. MaxReports
  /\ conn \in [Conns -> {"new", "open", "closed"}]
  /\ loop \in [Conns -> {"select", "lock", "transfer", "answer"}]
  /\ reader \in [Conns -> {"none", "spawned", "polling", "sending", "aborted", "ended"}]
  /\ sent \in [Conns -> Nat] /\ job \in [Conns -> Seq(Frame)] /\ inbox \in [Conns -> Seq(Frame)]
  /\ input \in [Conns -> Seq([is : {"input"}, nr : Nat])] /\ tx \in [Conns -> Seq(Message)]
  /\ owed \in [Conns -> SUBSET Nat] /\ emitted \in [Conns -> SUBSET Nat]
  /\ \A c \in Conns :
       /\ sent[c] <= MaxFrames[c] /\ owed[c] \subseteq 1 .. sent[c]
       /\ Len(job[c]) <= 1
       /\ Len(input[c]) <= InCap /\ Len(tx[c]) <= TxCap
       /\ emitted[c] \subseteq 1 .. reports

\* The items of these kinds carry the given numbers, each once and in order.
InOrder(line, kinds, numbers) ==
  LET at == {i \in DOMAIN line : line[i].is \in kinds}
  IN  /\ {line[i].nr : i \in at} = numbers
      /\ \A i, j \in at : i < j => line[i].nr < line[j].nr

\* Every frame that has an answer is answered once and in the order of the
\* frames, whoever else uses the deck, whatever becomes of the transfer, and
\* though input reports go out in between: the answers in the queue and the
\* frames still to be answered are those the client waits for (bridge.rs:221-461,
\* connection.rs:260-520).
AnswersAddUp ==
  \A c \in Conns :
    InOrder(tx[c] \o job[c] \o inbox[c], {"answer"} \cup Answered(c), owed[c])

\* A reader that holds the endpoint loses no report and reorders none, also
\* when its client reads slower than keys are pressed: reports wait, and the
\* deck with them (device.rs:278-292, bridge.rs:121-137).
InputAddsUp ==
  \A c \in Conns :
    conn[c] = "open" =>
      LET held == IF reader[c] = "sending" THEN <<Input(reports)>> ELSE <<>>
      IN  InOrder(tx[c] \o input[c] \o held, {"input"}, emitted[c])

\* The transfers of all connections to a deck exclude each other; write_lock is
\* with the one whose transfer is in progress, and is asked for by exactly those
\* that handle a frame for the deck, once each: nobody leaves it locked or in
\* line for it, whatever becomes of the transfer (device.rs:159, 186, 214).
OneTransferAtATime ==
  /\ \A c \in Conns : loop[c] = "transfer" => lock # <<>> /\ Head(lock) = c
  /\ \A c \in Conns : loop[c] \in {"lock", "transfer"} <=> \E i \in DOMAIN lock : lock[i] = c
  /\ \A i, j \in DOMAIN lock : lock[i] = lock[j] => i = j

\* A connection that is over gives the endpoint back, even if no key is ever
\* pressed again, so that the next client can have it (bridge.rs:215).
EndpointIsGivenBack ==
  \A c \in Conns : conn[c] = "closed" ~> endpoint # c

\* A client that stays gets its answers, though another client sends without end
\* and takes write_lock whenever it can, and though transfers fail
\* (device.rs:159, 186, 214).
EveryRequestIsAnswered ==
  \A c \in Conns : \A n \in 1 .. MaxFrames[c] :
    n \in owed[c] ~> n \notin owed[c]

\* "Spawns a background task continuously polling the Interrupt IN endpoint"
\* (device.rs:250): once its reader has started, the only client of a deck that
\* is plugged in hears what is pressed.
OnlyClientHasInput ==
  \A c \in Conns :
    /\ deck = "plugged" /\ conn[c] = "open" /\ reader[c] # "spawned"
    /\ \A e \in Conns \ {c} : conn[e] # "open" /\ endpoint # e
    => endpoint = c
================================================================================
