------------------------------ MODULE FifoChannel ------------------------------
(***************************************************************************)
(* What a connection promises to its two ends: numbered items arrive once, *)
(* in the order they were sent and without a gap, until the channel breaks *)
(* for good; while it is open, what was sent arrives in the end.  The      *)
(* detailed specifications are shown to implement it.                      *)
(***************************************************************************)
EXTENDS Naturals, Sequences

VARIABLES
  sent,   \* how many items were sent, numbered from 1
  got,    \* the items received, in order
  open    \* FALSE once the channel is broken

vars == <<sent, got, open>>

Init ==
  /\ sent = 0
  /\ got = <<>>
  /\ open = TRUE

Send ==
  /\ sent' = sent + 1
  /\ UNCHANGED <<got, open>>

Receive ==
  /\ open
  /\ Len(got) < sent
  /\ got' = Append(got, Len(got) + 1)
  /\ UNCHANGED <<sent, open>>

Break ==
  /\ open' = FALSE
  /\ UNCHANGED <<sent, got>>

Next == Send \/ Receive \/ Break

Spec == Init /\ [][Next]_vars /\ WF_vars(Receive)
================================================================================
