----------------------------- MODULE Reflector ------------------------------
(***************************************************************************)
(* What a queue promises to the sender of its packets: it holds no more    *)
(* than Capacity packets, and sends every packet back once, in the order   *)
(* of arrival, with its MAC addresses swapped.                             *)
(***************************************************************************)
EXTENDS Integers, Sequences

CONSTANT Capacity

VARIABLES
    arrived,   \* the number of packets that came in, which are numbered from 0
    returned   \* the packets that went out

rvars == <<arrived, returned>>

RInit ==
    /\ arrived = 0
    /\ returned = <<>>

Arrive ==
    /\ arrived - Len(returned) < Capacity
    /\ arrived' = arrived + 1
    /\ UNCHANGED returned

Return ==
    /\ Len(returned) < arrived
    /\ returned' = Append(returned, [pkt |-> Len(returned), swapped |-> TRUE])
    /\ UNCHANGED arrived

RSpec == RInit /\ [][Arrive \/ Return]_rvars

RFairSpec == RSpec /\ WF_rvars(Return)
=============================================================================
