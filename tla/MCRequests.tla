------------------------------ MODULE MCRequests -------------------------------
(***************************************************************************)
(* Instance of Requests: two slots, one of them empty, a deck whose serial *)
(* number is longer than its field, and for every handler the payloads     *)
(* that its conditions tell apart.                                         *)
(***************************************************************************)
EXTENDS Requests

Heads ==
  {<<>>, <<3>>, <<6>>, <<28>>, <<128>>, <<2, 7>>, <<2, 5>>, <<1, 5>>, <<1, 10>>,
   <<1, 10, 0, 0, 0, 9>>, <<3, 26>>, <<3, 26, 1>>, <<3, 28>>, <<3, 28, 1>>, <<3, 28, 9>>,
   <<3, 5>>, <<3, 6>>, <<3, 8, 50>>, <<3, 11>>, <<3, 128>>, <<3, 131>>, <<3, 132>>,
   <<3, 133>>, <<3, 135>>, <<3, 143>>}

MCFrames ==
  {Frame(flags, op, id, Payload(h, IF long THEN Long ELSE Len(h))) :
     flags \in SUBSET {"REQ_ACK", "VERBATIM"}, op \in {"Write", "SendReport", "GetReport"},
     id \in {0, 7}, h \in Heads, long \in BOOLEAN}

MCUsbData == {Payload(h, 32) : h \in {<<6, 1>>, <<3, 6, 1>>, <<9>>}} \cup {Payload(<<>>, 0)}

Deck == [vid |-> 4057, pid |-> 132, name |-> <<80>>, serial |-> <<65, 66, 67, 68, 69>>]

MCSlots == [s \in 0 .. 1 |-> IF s = 1 THEN Deck ELSE None]

MCLocalIps == {None, <<10, 0, 0, 1>>}

MCConfig == [vid |-> 4057, pid |-> 200, serial |-> <<68, 76>>, firmware |-> <<49>>,
             mac |-> <<0, 26, 125, 218, 113, 1>>, ip |-> <<10, 0, 0, 1>>, port |-> 5343]
================================================================================
