------------------------------- MODULE Roster -------------------------------
(***************************************************************************)
(* A room as those around it know it: a mailbox, the players it counts,    *)
(* and whether it is open.  Mail is taken in the order in which it was     *)
(* posted, one letter at a time; a join is granted exactly while there is  *)
(* a place, a leave removes its sender, no other letter changes who is     *)
(* there.  The leave of a guest who is no longer there removes nobody, but *)
(* if that guest is stale (all the numbers of the room have been given out *)
(* since) it may remove the one guest who has the number now.  A room may  *)
(* drop guests at any time, and once closed it has none and takes no more  *)
(* mail.  The count that others read is never behind.                      *)
(*                                                                         *)
(* Room.tla implements it, and so does each of the rooms that Lobby.tla    *)
(* has in the place of Room.tla.                                           *)
(***************************************************************************)
EXTENDS Integers, Sequences, FiniteSets

CONSTANTS
  Guest,   \* who may play in the room
  Size,    \* the letters its mailbox holds
  Places   \* the players it admits

VARIABLES
  mail,    \* the letters that were posted and not taken
  guests,  \* the players of the room
  count,   \* how many the others are told there are
  stale,   \* the guests of any time whose number may be another's
  open     \* FALSE once the room has shut down

vars == <<mail, guests, count, stale, open>>

Other == [kind |-> "other"]
Letter == [kind : {"join", "leave"}, who : Guest] \cup {Other}

Init ==
  /\ mail = <<>>
  /\ guests = {} /\ count = 0
  /\ stale = {}
  /\ open = TRUE

Become(S) == guests' = S /\ count' = Cardinality(S)

Post ==
  /\ Len(mail) < Size
  /\ \E letter \in Letter : mail' = Append(mail, letter)
  /\ UNCHANGED <<guests, count, stale, open>>

\* The guests a letter may leave in the room.
After(letter) ==
  CASE letter.kind = "join" ->
         {IF Cardinality(guests) < Places THEN guests \cup {letter.who} ELSE guests}
    [] letter.kind = "leave" ->
         {guests \ {letter.who}}
           \cup (IF letter.who \in stale \ guests THEN {guests \ {g} : g \in guests} ELSE {})
    [] OTHER -> {guests}

\* Numbers are given out: more guests may be stale than before.
Age == stale' \in SUBSET Guest /\ stale \subseteq stale'

Take ==
  /\ open /\ mail # <<>>
  /\ mail' = Tail(mail)
  /\ \E S \in After(Head(mail)) : Become(S)
  /\ Age
  /\ UNCHANGED open

Pass ==
  /\ open
  /\ Age
  /\ UNCHANGED <<mail, guests, count, open>>

Drop ==
  /\ open
  /\ \E S \in SUBSET guests : Become(S)
  /\ UNCHANGED <<mail, stale, open>>

Close ==
  /\ open /\ open' = FALSE
  /\ Become({})
  /\ UNCHANGED <<mail, stale>>

Next == Post \/ Take \/ Pass \/ Drop \/ Close

Spec == Init /\ [][Next]_vars
=============================================================================
