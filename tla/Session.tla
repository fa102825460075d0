------------------------------ MODULE Session ------------------------------
(***************************************************************************)
(* One session's way out: the two queues of internal/game/session.go, the  *)
(* room's goroutine that fills them without ever blocking, the write pump  *)
(* that empties them, and the transport to the client.                     *)
(*                                                                         *)
(* Room.tla has every session, as the lengths of its queues; this is one   *)
(* of them, from its admission to the end of its pump, with what is in     *)
(* the queues and each step of the two goroutines.  The room may close the *)
(* queues between any two of its calls: it has dozens of reasons.          *)
(*                                                                         *)
(* Messages are numbered in the order the room enqueues them: reliable     *)
(* ones from 1, the JoinAck, and snapshots from 1.                         *)
(*                                                                         *)
(* An operator Bad... is a faulty variant of the operator it stands before *)
(* that makes the property in parentheses fail; no action uses it.         *)
(***************************************************************************)
EXTENDS Integers, Sequences, SequencesExt

CONSTANTS
  ReliableSize,  \* reliableQueueSize
  SessionQueue,  \* Config.SessionQueue
  Unreliable,    \* the transport is a transport.UnreliableWriter (WebRTC)
  MaxReliable,   \* bound: reliable messages of a run
  MaxSnapshots   \* bound: snapshots of a run

ASSUME SessionAssumption ==
  /\ ReliableSize \in Nat \ {0}
  /\ SessionQueue \in Nat \ {0}
  /\ Unreliable \in BOOLEAN
  /\ MaxReliable \in Nat \ {0} /\ MaxSnapshots \in Nat

VARIABLES
  \* --- the room's goroutine
  room,       \* where enqueueSnapshot is: "idle", "evict", "retry"
  accepted,   \* reliable messages that found a place
  offered,    \* snapshots enqueued
  backlog,    \* Session.backlog
  kick,       \* Session.kick
  \* --- the queues
  reliable,   \* Session.reliable
  snapshots,  \* Session.snapshots
  closed,     \* both are closed
  \* --- the write pump
  pump,       \* "poll", "wait", "write", "done"
  live,       \* the queues whose local copy is not nil yet
  hand,       \* the message being written
  cancelled,  \* its context is done
  \* --- the transport and the client
  game,       \* the ordered channel
  state,      \* the unordered one, for snapshots, of a WebRTC transport
  client,     \* "attach", then "playing" or, if Attach fails, "failed"
  heard,      \* the last reliable message the client got
  shown,      \* the last snapshot it got
  \* --- history
  taken,      \* the last snapshot the pump took
  passed,     \* snapshots taken while the first reliable message waited
  drained     \* the pump ended because both queues had

queueVars == <<reliable, snapshots, closed>>
roomVars == <<room, accepted, offered, backlog, kick>>
pumpVars == <<pump, live, hand, taken, passed, drained>>
netVars == <<game, state>>
clientVars == <<client, heard, shown>>
vars == <<roomVars, queueVars, pumpVars, cancelled, netVars, clientVars>>

Kinds == {"reliable", "snapshot"}
Message == [kind : Kinds, n : Nat]
Reliable(n) == [kind |-> "reliable", n |-> n]
Snapshot(n) == [kind |-> "snapshot", n |-> n]
Nothing == Reliable(0)

\* newSession, and the JoinAck of the two joins.
Init ==
  /\ room = "idle" /\ accepted = 1 /\ offered = 0 /\ backlog = 0 /\ kick = FALSE
  /\ reliable = <<Reliable(1)>> /\ snapshots = <<>> /\ closed = FALSE
  /\ pump = "poll" /\ live = Kinds /\ hand = Nothing /\ cancelled = FALSE
  /\ game = <<>> /\ state = {}
  /\ client = "attach" /\ heard = 0 /\ shown = 0
  /\ taken = 0 /\ passed = 0 /\ drained = FALSE

-----------------------------------------------------------------------------
(***************************************************************************)
(* The room's goroutine.                                                   *)
(***************************************************************************)

\* (TypeOK) one too many.
BadEnqueueReliable ==
  /\ room = "idle" /\ ~closed /\ accepted < MaxReliable
  /\ Len(reliable) <= ReliableSize
  /\ reliable' = Append(reliable, Reliable(accepted + 1))
  /\ accepted' = accepted + 1
  /\ UNCHANGED <<room, offered, backlog, kick, snapshots, closed, pumpVars, cancelled, netVars,
                 clientVars>>

\* (ReliableInOrder) the oldest gives way, like a snapshot.
BadRefuseReliable ==
  /\ room = "idle" /\ ~closed /\ accepted < MaxReliable
  /\ Len(reliable) >= ReliableSize
  /\ reliable' = Append(Tail(reliable), Reliable(accepted + 1))
  /\ accepted' = accepted + 1
  /\ UNCHANGED <<room, offered, backlog, kick, snapshots, closed, pumpVars, cancelled, netVars,
                 clientVars>>

\* enqueueReliable finds a place,
EnqueueReliable ==
  /\ room = "idle" /\ ~closed /\ accepted < MaxReliable
  /\ Len(reliable) < ReliableSize
  /\ reliable' = Append(reliable, Reliable(accepted + 1))
  /\ accepted' = accepted + 1
  /\ UNCHANGED <<room, offered, backlog, kick, snapshots, closed, pumpVars, cancelled, netVars,
                 clientVars>>

\* or finds none, and the session is to be removed.
RefuseReliable ==
  /\ room = "idle" /\ ~closed /\ accepted < MaxReliable
  /\ Len(reliable) >= ReliableSize
  /\ kick' = TRUE
  /\ UNCHANGED <<room, accepted, offered, backlog, queueVars, pumpVars, cancelled, netVars,
                 clientVars>>

\* enqueueSnapshot, its first select: there is a place, or the oldest must go.
EnqueueSnapshot ==
  /\ room = "idle" /\ ~closed /\ offered < MaxSnapshots
  /\ offered' = offered + 1
  /\ \/ /\ Len(snapshots) < SessionQueue
        /\ snapshots' = Append(snapshots, Snapshot(offered + 1))
        /\ backlog' = 0
        /\ UNCHANGED room
     \/ /\ Len(snapshots) = SessionQueue
        /\ room' = "evict"
        /\ UNCHANGED <<snapshots, backlog>>
  /\ UNCHANGED <<accepted, kick, reliable, closed, pumpVars, cancelled, netVars, clientVars>>

\* (NewestSurvives) nothing is thrown out.
BadEvict ==
  /\ room = "evict"
  /\ room' = "retry"
  /\ backlog' = backlog + 1
  /\ UNCHANGED <<accepted, offered, kick, queueVars, pumpVars, cancelled, netVars, clientVars>>

\* Its second: the oldest is thrown out, unless the pump emptied the queue.
Evict ==
  /\ room = "evict"
  /\ room' = "retry"
  /\ backlog' = backlog + 1
  /\ \/ snapshots # <<>> /\ snapshots' = Tail(snapshots)
     \/ snapshots = <<>> /\ UNCHANGED snapshots
  /\ UNCHANGED <<accepted, offered, kick, reliable, closed, pumpVars, cancelled, netVars,
                 clientVars>>

\* Its third.
Retry ==
  /\ room = "retry"
  /\ room' = "idle"
  /\ snapshots' = IF Len(snapshots) < SessionQueue
                  THEN Append(snapshots, Snapshot(offered)) ELSE snapshots
  /\ UNCHANGED <<accepted, offered, backlog, kick, reliable, closed, pumpVars, cancelled,
                 netVars, clientVars>>

\* removeSession, removeSpectator or shutdown.
Close ==
  /\ room = "idle" /\ ~closed
  /\ closed' = TRUE
  /\ UNCHANGED <<roomVars, reliable, snapshots, pumpVars, cancelled, netVars, clientVars>>

-----------------------------------------------------------------------------
(***************************************************************************)
(* writePump.                                                              *)
(***************************************************************************)

TakeReliable ==
  /\ "reliable" \in live /\ reliable # <<>>
  /\ hand' = Head(reliable)
  /\ reliable' = Tail(reliable)
  /\ pump' = "write"
  /\ passed' = 0
  /\ UNCHANGED <<snapshots, live, taken>>

TakeSnapshot ==
  /\ "snapshot" \in live /\ snapshots # <<>>
  /\ hand' = Head(snapshots)
  /\ snapshots' = Tail(snapshots)
  /\ pump' = "write"
  /\ taken' = Head(snapshots).n
  /\ passed' = IF reliable = <<>> THEN 0 ELSE passed + 1
  /\ UNCHANGED <<reliable, live>>

Queue(k) == IF k = "reliable" THEN reliable ELSE snapshots

\* (ClosedEndsPump) the closed queue stays in the select.
BadForget(k) ==
  /\ k \in live /\ closed /\ Queue(k) = <<>>
  /\ pump' = "poll"
  /\ UNCHANGED <<reliable, snapshots, live, hand, taken, passed>>

\* A receive from a closed and empty queue: its local copy becomes nil.
Forget(k) ==
  /\ k \in live /\ closed /\ Queue(k) = <<>>
  /\ live' = live \ {k}
  /\ pump' = "poll"
  /\ UNCHANGED <<reliable, snapshots, hand, taken, passed>>

\* (OvertakenOnce) no queue comes first.
BadPoll ==
  /\ pump = "poll" /\ live # {}
  /\ pump' = "wait"
  /\ UNCHANGED <<reliable, snapshots, live, hand, taken, passed>>
  /\ UNCHANGED <<roomVars, closed, drained, cancelled, netVars, clientVars>>

\* The first select: the reliable queue, if it is ready.
Poll ==
  /\ pump = "poll" /\ live # {}
  /\ \/ TakeReliable
     \/ Forget("reliable")
     \/ /\ ~("reliable" \in live /\ (reliable # <<>> \/ closed))
        /\ pump' = "wait"
        /\ UNCHANGED <<reliable, snapshots, live, hand, taken, passed>>
  /\ UNCHANGED <<roomVars, closed, drained, cancelled, netVars, clientVars>>

\* The second select: either queue, at random when both are ready.
Wait ==
  /\ pump = "wait"
  /\ TakeReliable \/ TakeSnapshot \/ \E k \in Kinds : Forget(k)
  /\ UNCHANGED <<roomVars, closed, drained, cancelled, netVars, clientVars>>

\* Its third arm.
PumpCancelled ==
  /\ pump = "wait" /\ cancelled
  /\ pump' = "done"
  /\ UNCHANGED <<roomVars, queueVars, live, hand, taken, passed, drained, cancelled, netVars,
                 clientVars>>

\* (DrainedMeansDelivered) one closed queue ends the loop.
BadPumpDrained ==
  /\ pump = "poll" /\ live # Kinds
  /\ pump' = "done"
  /\ drained' = TRUE
  /\ UNCHANGED <<roomVars, queueVars, live, hand, taken, passed, cancelled, netVars, clientVars>>

\* Both local copies are nil.
PumpDrained ==
  /\ pump = "poll" /\ live = {}
  /\ pump' = "done"
  /\ drained' = TRUE
  /\ UNCHANGED <<roomVars, queueVars, live, hand, taken, passed, cancelled, netVars, clientVars>>

\* (ClientHearsMailbox) a WebSocket is taken for a transport of two channels.
BadWrite ==
  /\ pump = "write"
  /\ pump' = "poll"
  /\ IF hand.kind = "snapshot"
     THEN state' = state \cup {hand} /\ UNCHANGED game
     ELSE game' = Append(game, hand) /\ UNCHANGED state
  /\ UNCHANGED <<roomVars, queueVars, live, hand, taken, passed, drained, cancelled, clientVars>>

\* conn.Write, or sendSnapshot: the unordered channel if the transport has one.
Write ==
  /\ pump = "write"
  /\ pump' = "poll"
  /\ IF hand.kind = "snapshot" /\ Unreliable
     THEN state' = state \cup {hand} /\ UNCHANGED game
     ELSE game' = Append(game, hand) /\ UNCHANGED state
  /\ UNCHANGED <<roomVars, queueVars, live, hand, taken, passed, drained, cancelled, clientVars>>

\* It fails: the connection is broken, or its deadline or context expired.
WriteFails ==
  /\ pump = "write"
  /\ pump' = "done"
  /\ UNCHANGED <<roomVars, queueVars, live, hand, taken, passed, drained, cancelled, netVars,
                 clientVars>>

-----------------------------------------------------------------------------
(***************************************************************************)
(* The client, as bot.Attach and ReadSnapshot, and the rest.               *)
(***************************************************************************)

Receive(m) ==
  /\ \/ /\ client = "attach"
        /\ client' = IF m = Reliable(1) THEN "playing" ELSE "failed"
     \/ client = "playing" /\ UNCHANGED client
  /\ heard' = IF m.kind = "reliable" THEN m.n ELSE heard
  /\ shown' = IF m.kind = "snapshot" THEN m.n ELSE shown

ReceiveOrdered ==
  /\ game # <<>>
  /\ Receive(Head(game))
  /\ game' = Tail(game)
  /\ UNCHANGED <<roomVars, queueVars, pumpVars, cancelled, state>>

ReceiveUnordered ==
  /\ \E m \in state : Receive(m) /\ state' = state \ {m}
  /\ UNCHANGED <<roomVars, queueVars, pumpVars, cancelled, game>>

LoseUnordered ==
  /\ \E m \in state : state' = state \ {m}
  /\ UNCHANGED <<roomVars, queueVars, pumpVars, cancelled, game, clientVars>>

\* The server's base context is cancelled.
Cancel ==
  /\ ~cancelled
  /\ cancelled' = TRUE
  /\ UNCHANGED <<roomVars, queueVars, pumpVars, netVars, clientVars>>

RoomNext == EnqueueReliable \/ RefuseReliable \/ EnqueueSnapshot \/ Evict \/ Retry \/ Close
PumpNext == Poll \/ Wait \/ PumpCancelled \/ PumpDrained \/ Write \/ WriteFails
ClientNext == ReceiveOrdered \/ ReceiveUnordered \/ LoseUnordered

Next == RoomNext \/ PumpNext \/ ClientNext \/ Cancel

Spec == Init /\ [][Next]_vars

\* The pump is scheduled, and each write ends (writes to a WebSocket time out).
FairSpec == Spec /\ WF_vars(PumpNext)

-----------------------------------------------------------------------------
(***************************************************************************)
(* Properties.                                                             *)
(***************************************************************************)

\* The queues stay within their capacities and hold what their name says.
TypeOK ==
  /\ room \in {"idle", "evict", "retry"}
  /\ accepted \in 1 .. MaxReliable /\ offered \in 0 .. MaxSnapshots
  /\ backlog \in Nat /\ kick \in BOOLEAN
  /\ reliable \in Seq([kind : {"reliable"}, n : Nat]) /\ Len(reliable) <= ReliableSize
  /\ snapshots \in Seq([kind : {"snapshot"}, n : Nat]) /\ Len(snapshots) <= SessionQueue
  /\ closed \in BOOLEAN
  /\ pump \in {"poll", "wait", "write", "done"}
  /\ live \subseteq Kinds /\ hand \in Message
  /\ cancelled \in BOOLEAN /\ drained \in BOOLEAN
  /\ game \in Seq(Message) /\ state \subseteq Message
  /\ client \in {"attach", "playing", "failed"}
  /\ heard \in Nat /\ shown \in Nat /\ taken \in Nat /\ passed \in Nat

\* Reliable messages come first: while one waits, the pump takes at most one
\* snapshot, in the race between its two selects.
OvertakenOnce == passed <= 1

\* The queue of snapshots loses old ones only: between two calls the newest is
\* the last in it or has been taken, and the retry always finds its place,
\* though the pump may take from the queue at any point of the three selects.
NewestSurvives ==
  /\ room = "idle" =>
       IF snapshots = <<>> THEN taken = offered ELSE Last(snapshots) = Snapshot(offered)
  /\ room = "retry" => Len(snapshots) < SessionQueue

\* A session the room removes still gets what it was promised: if the pump ends
\* because the queues have, every reliable message accepted was handed to the
\* transport.
DrainedMeansDelivered ==
  drained => \/ accepted = heard
             \/ \E i \in DOMAIN game : game[i] = Reliable(accepted)

\* bot.go:91: the JoinAck is the first message a client gets.  Attach fails on
\* any other.
AttachSucceeds == client # "failed"

\* On any transport the reliable messages are heard one after the other: a
\* snapshot that overtakes them on its own channel displaces none.
ReliableInOrder == [][heard' \in {heard, heard + 1}]_vars

\* The queues, the pump and an ordered transport keep the promise of Mailbox.
Promise == INSTANCE Mailbox
ClientHearsMailbox == Promise!Spec

\* Closing the queues ends the pump, whatever is in them.
ClosedEndsPump == closed ~> pump = "done"
=============================================================================
