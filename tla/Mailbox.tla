------------------------------ MODULE Mailbox ------------------------------
(***************************************************************************)
(* What a session's two queues promise a client on an ordered transport:   *)
(* the reliable messages the room got accepted are heard in that order and *)
(* without a gap, the first of them, the JoinAck, before everything else;  *)
(* snapshots are heard in the order of their ticks, any of them may be     *)
(* missing.                                                                *)
(***************************************************************************)
EXTENDS Integers

VARIABLES
  accepted,  \* reliable messages accepted, the JoinAck included
  heard,     \* reliable messages heard
  offered,   \* snapshots offered
  shown      \* the number of the last snapshot heard

vars == <<accepted, heard, offered, shown>>

Init == accepted = 1 /\ heard = 0 /\ offered = 0 /\ shown = 0

Accept == accepted' = accepted + 1 /\ UNCHANGED <<heard, offered, shown>>
Offer == offered' = offered + 1 /\ UNCHANGED <<accepted, heard, shown>>

Hear ==
  /\ heard < accepted
  /\ heard' = heard + 1
  /\ UNCHANGED <<accepted, offered, shown>>

Show ==
  /\ heard > 0
  /\ shown' \in shown + 1 .. offered
  /\ UNCHANGED <<accepted, heard, offered>>

Next == Accept \/ Offer \/ Hear \/ Show

Spec == Init /\ [][Next]_vars
=============================================================================
