------------------------------- MODULE Mirror -------------------------------
(***************************************************************************)
(* What snapshots promise a client, whatever the coding and the transport  *)
(* do: the server publishes views at some of its ticks, and the client is  *)
(* shown published views, whole and at most once each, in the order of     *)
(* their ticks.  It may miss any of them.                                  *)
(***************************************************************************)
EXTENDS Integers

CONSTANT Values  \* the views that can be published

VARIABLES
  now,        \* the server's tick
  published,  \* the ticks with a view -> the view
  shown,      \* the tick the client is shown, 0 before the first
  view        \* the view it is shown

vars == <<now, published, shown, view>>

Init ==
  /\ now = 0
  /\ published = [t \in {} |-> 0]
  /\ shown = 0
  /\ view \in Values

Advance ==
  /\ now' = now + 1
  /\ UNCHANGED <<published, shown, view>>

Publish ==
  /\ now' = now + 1
  /\ \E v \in Values :
       published' = [t \in DOMAIN published \cup {now'} |->
                       IF t = now' THEN v ELSE published[t]]
  /\ UNCHANGED <<shown, view>>

Show ==
  /\ \E t \in DOMAIN published :
       /\ t > shown
       /\ shown' = t
       /\ view' = published[t]
  /\ UNCHANGED <<now, published>>

Next == Advance \/ Publish \/ Show

Spec == Init /\ [][Next]_vars
=============================================================================
