----------------------------- MODULE DeltaSync -----------------------------
(***************************************************************************)
(* The delta stream of one session: sendSnapshotTo codes each view against *)
(* the view the client acknowledged last, if its ring still holds it; the  *)
(* client reconstructs views from what arrives and acknowledges the tick   *)
(* of the last one in its inputs.                                          *)
(*                                                                         *)
(* Snapshots take the unreliable channel: in the model they are a set, any *)
(* of them may arrive next and any may be lost, on the way or, pushed out  *)
(* by a newer one, in the session's queue.  Inputs keep their order, and   *)
(* the room drops one when its inbox is full.  The view a tick has for     *)
(* this client is any of Views: what it sees of the world, cut at          *)
(* MaxEntities.                                                            *)
(*                                                                         *)
(* An operator Bad... is a faulty variant of the operator it stands before *)
(* that makes the property in parentheses fail; no action uses it.         *)
(***************************************************************************)
EXTENDS Delta, Sequences, SequencesExt

CONSTANTS
  Ids,           \* ids of entities
  Views,         \* the views the session may be sent
  Ring,          \* baselineRingLen
  Keep,          \* reconKeep
  SnapshotRate,  \* Config.SnapshotRate
  TickRate,      \* Config.TickRate
  MaxTick,       \* bound: ticks in a run
  MaxInputs      \* bound: inputs on their way

ASSUME SyncAssumption ==
  /\ \A v \in Views : IsView(v) /\ DOMAIN v \subseteq Ids
  /\ IsFiniteSet(Ids)
  /\ Views # {}
  /\ Ring \in Nat \ {0} /\ Keep \in Nat \ {0}
  /\ TickRate \in Nat \ {0} /\ SnapshotRate \in 1 .. TickRate
  /\ MaxTick \in Nat /\ MaxInputs \in Nat

VARIABLES
  \* --- the room's goroutine
  tick,     \* World.Tick
  accum,    \* rateDivider.accum
  ackTick,  \* Session.ackTick
  ring,     \* Session.baseline.slots
  \* --- on the way
  shots,    \* snapshots
  inputs,   \* the AckTick of each input
  \* --- the client
  store,    \* reconstructor.store
  order,    \* reconstructor.order
  seen,     \* Client.tick, 0 while hasSnap is false; also Client.ack
  view,     \* what ReadSnapshot returned last
  \* --- history
  sent      \* tick -> the view coded at it

serverVars == <<tick, accum, ackTick, ring, sent>>
clientVars == <<store, order, seen, view>>
vars == <<serverVars, shots, inputs, clientVars>>

Ticks == 1 .. MaxTick
Empty == [i \in {} |-> Blank]
NoSlot == [used |-> FALSE, tick |-> 0, ents |-> Empty]

\* A session is admitted at any point of the room's cycle of snapshots; ticks
\* count from its admission.
Init ==
  /\ tick = 0
  /\ \E n \in 0 .. TickRate - 1 : accum = (n * SnapshotRate) % TickRate
  /\ ackTick = 0
  /\ ring = [k \in 0 .. Ring - 1 |-> NoSlot]
  /\ shots = {}
  /\ inputs = <<>>
  /\ store = [t \in {} |-> Empty]
  /\ order = <<>>
  /\ seen = 0
  /\ view = Empty
  /\ sent = [t \in {} |-> Empty]

-----------------------------------------------------------------------------
(***************************************************************************)
(* The server.                                                             *)
(***************************************************************************)

Slot(t) == ring[t % Ring]

\* (ClientMirrorsServer) the slot is taken for the tick whatever it holds.
BadHas(t) == t # 0 /\ Slot(t).used

\* baselineRing.get finds tick t: its slot may hold another tick of the same
\* residue.
Has(t) == Slot(t).used /\ Slot(t).tick = t

Full(t, v) == [tick |-> t, base |-> 0, entities |-> WireView(v), removed |-> {}]

DeltaFrom(t, base, v) ==
  [tick |-> t, base |-> ackTick, entities |-> Changed(base, v), removed |-> Removed(base, v)]

\* A delta is worth it only if it has fewer records than the view.
Shorter(base, v) ==
  Cardinality(DOMAIN Changed(base, v)) + Cardinality(Removed(base, v)) < Cardinality(DOMAIN v)

\* sendSnapshotTo at tick t: the coding of v, against the acknowledged view if
\* the ring still has it.
Coded(t, v) ==
  IF Has(ackTick) /\ Shorter(Slot(ackTick).ents, v)
  THEN DeltaFrom(t, Slot(ackTick).ents, v)
  ELSE Full(t, v)

SnapshotDue == accum + SnapshotRate >= TickRate  \* rateDivider.tick

\* A tick that broadcasts nothing.
Quiet ==
  /\ tick < MaxTick /\ ~SnapshotDue
  /\ tick' = tick + 1
  /\ accum' = accum + SnapshotRate
  /\ UNCHANGED <<ackTick, ring, sent, shots, inputs, clientVars>>

\* A tick that does.  The queue always takes the snapshot, from an older one's
\* place if it must (shots), so the view becomes a base.
Broadcast ==
  /\ tick < MaxTick /\ SnapshotDue
  /\ tick' = tick + 1
  /\ accum' = accum + SnapshotRate - TickRate
  /\ \E v \in Views :
       /\ shots' = shots \cup {Coded(tick + 1, v)}
       /\ ring' = [ring EXCEPT ![(tick + 1) % Ring] =
                     [used |-> TRUE, tick |-> tick + 1, ents |-> v]]
       /\ sent' = [t \in DOMAIN sent \cup {tick + 1} |-> IF t = tick + 1 THEN v ELSE sent[t]]
  /\ UNCHANGED <<ackTick, inputs, clientVars>>

\* (BasesSuffice) what was sent counts as received.
BadAcknowledged(ack) == tick

\* handle of an input: the acknowledged tick never goes back, nor past the
\* world's.
Acknowledged(ack) ==
  LET known == IF ack > tick THEN tick ELSE ack
  IN IF known > ackTick THEN known ELSE ackTick

HandleInput ==
  /\ inputs # <<>>
  /\ ackTick' = Acknowledged(Head(inputs))
  /\ inputs' = Tail(inputs)
  /\ UNCHANGED <<tick, accum, ring, sent, shots, clientVars>>

-----------------------------------------------------------------------------
(***************************************************************************)
(* What gets lost, and the client.                                         *)
(***************************************************************************)

LoseSnapshot ==
  /\ \E m \in shots : shots' = shots \ {m}
  /\ UNCHANGED <<serverVars, inputs, clientVars>>

\* Room.input with a full inbox.
DropInput ==
  /\ inputs # <<>>
  /\ inputs' = Tail(inputs)
  /\ UNCHANGED <<serverVars, shots, clientVars>>

SendInput ==
  /\ Len(inputs) < MaxInputs
  /\ inputs' = Append(inputs, seen)
  /\ UNCHANGED <<serverVars, shots, clientVars>>

\* ReadSnapshot skips what is not newer than what it has, and apply a delta
\* whose base it does not have.
Stale(m) == seen # 0 /\ m.tick <= seen
Known(m) == m.base = 0 \/ m.base \in DOMAIN store

Rebuilt(m) == IF m.base = 0 THEN m.entities
              ELSE Patch(store[m.base], m.entities, m.removed)

\* (TypeOK) one too many is kept.
BadRemembered(t) ==
  LET longer == IF t \in DOMAIN store THEN order ELSE Append(order, t)
  IN IF Len(longer) > Keep + 1 THEN Tail(longer) ELSE longer

\* remember: the order in which the ticks were stored, without the oldest if
\* there are more than Keep.
Remembered(t) ==
  LET longer == IF t \in DOMAIN store THEN order ELSE Append(order, t)
  IN IF Len(longer) > Keep THEN Tail(longer) ELSE longer

Skip(m) ==
  /\ m \in shots
  /\ Stale(m) \/ ~Known(m)
  /\ shots' = shots \ {m}
  /\ UNCHANGED <<serverVars, inputs, clientVars>>

Apply(m) ==
  /\ m \in shots
  /\ ~Stale(m) /\ Known(m)
  /\ shots' = shots \ {m}
  /\ order' = Remembered(m.tick)
  /\ store' = [t \in (DOMAIN store \cup {m.tick}) \cap ToSet(order') |->
                 IF t = m.tick THEN Rebuilt(m) ELSE store[t]]
  /\ seen' = m.tick
  /\ view' = Rebuilt(m)
  /\ UNCHANGED <<serverVars, inputs>>

Next ==
  \/ Quiet \/ Broadcast \/ HandleInput
  \/ LoseSnapshot \/ DropInput \/ SendInput
  \/ \E m \in shots : Skip(m) \/ Apply(m)

Spec == Init /\ [][Next]_vars

-----------------------------------------------------------------------------
(***************************************************************************)
(* Properties.                                                             *)
(***************************************************************************)

Messages ==
  [tick : Ticks, base : 0 .. MaxTick,
   entities : {WireView(v) : v \in Views} \cup {Changed(b, v) : b, v \in Views},
   removed : SUBSET Ids]

Slots == {NoSlot} \cup [used : {TRUE}, tick : Ticks, ents : Views]

\* The ring and the client's store stay within their sizes, and what is on the
\* way is a full snapshot or a delta.
TypeOK ==
  /\ tick \in 0 .. MaxTick
  /\ accum \in 0 .. TickRate - 1
  /\ ackTick \in 0 .. MaxTick
  /\ ring \in [0 .. Ring - 1 -> Slots]
  /\ shots \subseteq Messages
  /\ inputs \in Seq(0 .. MaxTick) /\ Len(inputs) <= MaxInputs
  /\ order \in Seq(Ticks) /\ Len(order) <= Keep
  /\ DOMAIN store = ToSet(order)
  /\ seen \in 0 .. MaxTick
  /\ DOMAIN sent \subseteq 1 .. tick /\ \A t \in DOMAIN sent : sent[t] \in Views

\* A slot of a ring of n that a quiet tick passes over, at a rate of
\* snapshots in ticks, is filled at its next turn.
TurnsOver(n, snapshots, ticks) ==
  \A a \in 0 .. ticks - 1 :
    a + snapshots >= ticks \/ ((a + n * snapshots) % ticks) + snapshots >= ticks

\* A delta the client has a use for never lacks its base: the client
\* acknowledges only ticks it holds, and it holds them for as long as the
\* server's ring does, whatever is lost, late or out of order.
BasesSuffice ==
  \A m \in shots : ~Stale(m) => Known(m)

\* The client is only ever shown a view the server had at the tick it says, to
\* the precision of the wire, and never an older one after a newer.
Server == INSTANCE Mirror WITH
  Values <- {WireView(v) : v \in Views \cup {Empty}},
  now <- tick,
  published <- [t \in DOMAIN sent |-> WireView(sent[t])],
  shown <- seen
ClientMirrorsServer == Server!Spec
=============================================================================
