---------------------------- MODULE DeltaProofs ----------------------------
(***************************************************************************)
(* Proofs about Delta and DeltaSync: the client's patch undoes the         *)
(* server's diff, the model keeps its types, and the stream implements     *)
(* Mirror, for every set of views, ring, store, rate and bound; and for    *)
(* rates and sizes like the code's no delta lacks its base.                *)
(***************************************************************************)
EXTENDS DeltaSync, FiniteSetTheorems, TLAPS

\* Patching the wire form of one view with the diff to another gives the wire
\* form of the other: ids that change kind, fields that change by less than
\* the wire tells apart and entities that come and go included (diffEntities
\* and reconstructor.apply).
THEOREM RoundTrip ==
  ASSUME NEW base, NEW new
  PROVE  Patch(WireView(base), Changed(base, new), Removed(base, new)) = WireView(new)
<1> DEFINE gone == Removed(base, new)
           news == Changed(base, new)
           kept == DOMAIN WireView(base) \ gone
           got == Patch(WireView(base), news, gone)
<1>1. DOMAIN WireView(base) = DOMAIN base /\ DOMAIN WireView(new) = DOMAIN new
  BY DEF WireView
<1>2. \A i : i \in kept <=> Same(base, new, i)
  BY <1>1 DEF Removed, Same
<1>3. DOMAIN news = {i \in DOMAIN new : Mask(base, new, i) # {}}
  BY DEF Changed
<1>4. \A i \in DOMAIN new : i \notin DOMAIN news => Same(base, new, i)
  BY <1>3 DEF Mask, Fields
<1>5. kept \cup DOMAIN news = DOMAIN new
  BY <1>2, <1>3, <1>4 DEF Same
<1>6. got = [i \in DOMAIN new |->
               IF i \notin DOMAIN news THEN WireView(base)[i]
               ELSE Merge(IF i \in kept THEN WireView(base)[i] ELSE Blank, news[i])]
  BY <1>5 DEF Patch
<1>7. ASSUME NEW i \in DOMAIN new PROVE got[i] = Wire(new[i])
  <2> DEFINE mask == Mask(base, new, i)
  <2>1. CASE i \notin DOMAIN news
    <3>1. mask = {} BY <2>1, <1>3
    <3>2. Same(base, new, i) BY <2>1, <1>4
    <3>3. \A f \in Fields : Quantize(f, base[i][f]) = Quantize(f, new[i][f])
      BY <3>1, <3>2 DEF Mask
    <3>4. Wire(base[i]) = Wire(new[i]) BY <3>3 DEF Wire
    <3>5. WireView(base)[i] = Wire(base[i]) BY <3>2 DEF WireView, Same
    <3> QED BY <1>6, <2>1, <3>4, <3>5
  <2>2. CASE i \in DOMAIN news
    <3> DEFINE old == IF i \in kept THEN WireView(base)[i] ELSE Blank
    <3>1. news[i] = [f \in mask |-> Wire(new[i])[f]]
      BY <2>2, <1>3 DEF Changed, Restrict
    <3>2. mask \subseteq Fields BY DEF Mask
    <3>3. ASSUME NEW f \in Fields, f \notin mask PROVE old[f] = Wire(new[i])[f]
      <4>1. Same(base, new, i) BY <3>3 DEF Mask
      <4>2. Quantize(f, base[i][f]) = Quantize(f, new[i][f]) BY <4>1, <3>3 DEF Mask
      <4>3. old = Wire(base[i]) BY <4>1, <1>2 DEF WireView, Same
      <4> QED BY <4>2, <4>3 DEF Wire
    <3>4. Merge(old, news[i]) = [f \in Fields |-> Wire(new[i])[f]]
      <4> HIDE DEF old, mask
      <4>1. DOMAIN news[i] = mask /\ \A f \in mask : news[i][f] = Wire(new[i])[f]
        BY <3>1
      <4> QED BY <4>1, <3>2, <3>3 DEF Merge
    <3>5. [f \in Fields |-> Wire(new[i])[f]] = Wire(new[i]) BY DEF Wire
    <3>6. got[i] = Merge(old, news[i]) BY <1>6, <2>2
    <3> QED BY <3>4, <3>5, <3>6
  <2> QED BY <2>1, <2>2
<1>8. WireView(new) = [i \in DOMAIN new |-> Wire(new[i])]
  BY DEF WireView
<1> HIDE DEF got, news, kept, gone
<1>9. got = WireView(new)
  BY <1>6, <1>7, <1>8
<1> QED BY <1>9 DEF got, news, gone

-----------------------------------------------------------------------------
(***************************************************************************)
(* The types.                                                              *)
(***************************************************************************)
LEMMA InitTypeOK == Init => TypeOK
<1> SUFFICES ASSUME Init PROVE TypeOK
  OBVIOUS
<1>1. ring \in [0 .. Ring - 1 -> Slots]
  BY DEF Init, Slots
<1>2. ToSet(order) = {}
  BY DEF Init, ToSet
<1> QED BY <1>1, <1>2, SyncAssumption DEF Init, TypeOK, Messages

\* A broadcast sends a message, and the ring takes its view.
LEMMA BroadcastTypeOK ==
  ASSUME TypeOK, Broadcast
  PROVE  TypeOK'
<1>1. tick + 1 \in Ticks /\ tick \in Nat
  BY SyncAssumption DEF Broadcast, TypeOK, Ticks
<1>2. tick' = tick + 1 /\ accum' = accum + SnapshotRate - TickRate /\ SnapshotDue
  BY DEF Broadcast
<1>3. accum' \in 0 .. TickRate - 1
  BY <1>2, SyncAssumption DEF TypeOK, SnapshotDue
<1>4. PICK v \in Views :
        /\ shots' = shots \cup {Coded(tick + 1, v)}
        /\ ring' = [ring EXCEPT ![(tick + 1) % Ring] =
                      [used |-> TRUE, tick |-> tick + 1, ents |-> v]]
        /\ sent' = [t \in DOMAIN sent \cup {tick + 1} |-> IF t = tick + 1 THEN v ELSE sent[t]]
  BY DEF Broadcast
<1>5. ring' \in [0 .. Ring - 1 -> Slots]
  <2>1. [used |-> TRUE, tick |-> tick + 1, ents |-> v] \in Slots
    BY <1>1 DEF Slots
  <2> QED BY <1>4, <2>1 DEF TypeOK
<1>6. DOMAIN sent' \subseteq 1 .. tick' /\ \A t \in DOMAIN sent' : sent'[t] \in Views
  BY <1>1, <1>2, <1>4 DEF TypeOK
<1>7. Coded(tick + 1, v) \in Messages
  <2> DEFINE base == Slot(ackTick).ents
  <2>1. CASE Has(ackTick) /\ Shorter(base, v)
    <3>1. Coded(tick + 1, v) = DeltaFrom(tick + 1, base, v)
      BY <2>1 DEF Coded
    <3>2. ackTick % Ring \in 0 .. Ring - 1
      BY SyncAssumption DEF TypeOK
    <3>3. base \in Views
      <4>1. Slot(ackTick) \in Slots /\ Slot(ackTick).used
        BY <2>1, <3>2 DEF TypeOK, Has, Slot
      <4>2. Slot(ackTick) # NoSlot
        BY <4>1 DEF NoSlot
      <4> QED BY <4>1, <4>2 DEF Slots
    <3>4. Removed(base, v) \subseteq Ids
      BY <3>3, SyncAssumption DEF Removed
    <3>5. ackTick \in 0 .. MaxTick
      BY DEF TypeOK
    <3> QED BY <1>1, <3>1, <3>3, <3>4, <3>5 DEF DeltaFrom, Messages
  <2>2. CASE ~(Has(ackTick) /\ Shorter(base, v))
    BY <2>2, <1>1, SyncAssumption DEF Coded, Full, Messages
  <2> QED BY <2>1, <2>2
<1>8. shots' \subseteq Messages
  BY <1>4, <1>7 DEF TypeOK
<1>9. UNCHANGED <<ackTick, inputs, clientVars>>
  BY DEF Broadcast
<1>10. tick' \in 0 .. MaxTick
  BY <1>1, <1>2 DEF Ticks
<1> QED BY <1>3, <1>5, <1>6, <1>8, <1>9, <1>10 DEF TypeOK, clientVars

\* The client's store holds the ticks of its order, at most Keep of them.
LEMMA ApplyTypeOK ==
  ASSUME TypeOK, NEW m \in shots, Apply(m)
  PROVE  TypeOK'
<1>1. m.tick \in Ticks
  BY DEF TypeOK, Messages
<1>2. order \in Seq(Ticks) /\ Len(order) <= Keep /\ DOMAIN store = ToSet(order)
  BY DEF TypeOK
<1> DEFINE longer == IF m.tick \in DOMAIN store THEN order ELSE Append(order, m.tick)
<1>3. longer \in Seq(Ticks) /\ Len(longer) <= Keep + 1 /\ ToSet(longer) = DOMAIN store \cup {m.tick}
  <2>1. CASE m.tick \in DOMAIN store
    BY <2>1, <1>2, SyncAssumption
  <2>2. CASE m.tick \notin DOMAIN store
    <3>1. longer = Append(order, m.tick) /\ Len(longer) = Len(order) + 1
      BY <2>2, <1>2
    <3>2. ToSet(Append(order, m.tick)) = ToSet(order) \cup {m.tick}
      <4>1. \A k \in 1 .. Len(order) : Append(order, m.tick)[k] = order[k]
        BY <1>2
      <4>2. Append(order, m.tick)[Len(order) + 1] = m.tick
        BY <1>2
      <4>3. DOMAIN order = 1 .. Len(order) /\ Len(order) \in Nat
              /\ DOMAIN Append(order, m.tick) = 1 .. Len(order) + 1
        BY <1>1, <1>2
      <4>4. 1 .. Len(order) + 1 = (1 .. Len(order)) \cup {Len(order) + 1}
        BY <4>3
      <4> HIDE DEF longer
      <4> QED BY <4>1, <4>2, <4>3, <4>4 DEF ToSet
    <3> QED BY <1>1, <1>2, <3>1, <3>2, SyncAssumption
  <2> QED BY <2>1, <2>2
<1>4. order' = IF Len(longer) > Keep THEN Tail(longer) ELSE longer
  BY DEF Apply, Remembered
<1> HIDE DEF longer
<1>5. order' \in Seq(Ticks) /\ Len(order') <= Keep /\ ToSet(order') \subseteq ToSet(longer)
  <2>1. CASE Len(longer) > Keep
    <3>1. longer # <<>> /\ order' = Tail(longer)
      BY <2>1, <1>4, <1>3, SyncAssumption
    <3>2. order' \in Seq(Ticks) /\ Len(order') = Len(longer) - 1
            /\ \A k \in 1 .. Len(order') : order'[k] = longer[k + 1]
      BY <3>1, <1>3
    <3> QED BY <3>2, <1>3, SyncAssumption DEF ToSet
  <2>2. CASE ~(Len(longer) > Keep)
    BY <2>2, <1>4, <1>3, SyncAssumption
  <2> QED BY <2>1, <2>2
<1>6. DOMAIN store' = ToSet(order')
  BY <1>3, <1>5 DEF Apply
<1>7. seen' \in 0 .. MaxTick
  BY <1>1 DEF Apply, Ticks
<1>8. shots' \subseteq Messages /\ UNCHANGED <<serverVars, inputs>>
  BY DEF Apply, TypeOK
<1> QED BY <1>5, <1>6, <1>7, <1>8 DEF TypeOK, serverVars

\* Every other step moves numbers within their bounds.
LEMMA NextTypeOK == TypeOK /\ [Next]_vars => TypeOK'
<1> SUFFICES ASSUME TypeOK, [Next]_vars PROVE TypeOK'
  OBVIOUS
<1>1. CASE Quiet
  BY <1>1, SyncAssumption DEF TypeOK, Quiet, SnapshotDue, clientVars
<1>2. CASE Broadcast
  BY <1>2, BroadcastTypeOK
<1>3. CASE HandleInput
  <2>1. Head(inputs) \in 0 .. MaxTick /\ Tail(inputs) \in Seq(0 .. MaxTick)
          /\ Len(Tail(inputs)) <= MaxInputs
    BY <1>3, SyncAssumption DEF HandleInput, TypeOK
  <2>2. Acknowledged(Head(inputs)) \in 0 .. MaxTick
    BY <2>1, SyncAssumption DEF Acknowledged, TypeOK
  <2> QED BY <1>3, <2>1, <2>2 DEF TypeOK, HandleInput, clientVars
<1>4. CASE LoseSnapshot
  BY <1>4 DEF TypeOK, LoseSnapshot, serverVars, clientVars
<1>5. CASE DropInput
  <2>1. Tail(inputs) \in Seq(0 .. MaxTick) /\ Len(Tail(inputs)) <= MaxInputs
    BY <1>5, SyncAssumption DEF DropInput, TypeOK
  <2> QED BY <1>5, <2>1 DEF TypeOK, DropInput, serverVars, clientVars
<1>6. CASE SendInput
  <2>1. inputs' \in Seq(0 .. MaxTick) /\ Len(inputs') <= MaxInputs
    BY <1>6, SyncAssumption DEF SendInput, TypeOK
  <2> QED BY <1>6, <2>1 DEF TypeOK, SendInput, serverVars, clientVars
<1>7. ASSUME NEW m \in shots, Skip(m) PROVE TypeOK'
  BY <1>7 DEF TypeOK, Skip, serverVars, clientVars
<1>8. ASSUME NEW m \in shots, Apply(m) PROVE TypeOK'
  BY <1>8, ApplyTypeOK
<1>9. CASE UNCHANGED vars
  BY <1>9 DEF TypeOK, vars, serverVars, clientVars
<1> QED BY <1>1, <1>2, <1>3, <1>4, <1>5, <1>6, <1>7, <1>8, <1>9 DEF Next

\* The ring, the client's store and whatever is on the way stay in their types
\* and sizes, for every view, rate and bound (baselineRing, remember).
THEOREM StreamTypeCorrect == Spec => []TypeOK
BY InitTypeOK, NextTypeOK, PTL DEF Spec

-----------------------------------------------------------------------------
(***************************************************************************)
(* The stream.  What the invariant says of each place a view may be in:    *)
(* the ring holds what was sent, what is on the way is its coding, and     *)
(* what the client stored is its wire form.                                *)
(***************************************************************************)
RingHoldsSent ==
  \A k \in 0 .. Ring - 1 :
    ring[k].used => ring[k].tick \in DOMAIN sent /\ ring[k].ents = sent[ring[k].tick]

CodesSent(m) ==
  /\ m.tick \in DOMAIN sent
  /\ m.base = 0 => m.entities = WireView(sent[m.tick])
  /\ m.base # 0 =>
       /\ m.base \in DOMAIN sent
       /\ m.entities = Changed(sent[m.base], sent[m.tick])
       /\ m.removed = Removed(sent[m.base], sent[m.tick])

StoreHoldsSent == \A t \in DOMAIN store : t \in DOMAIN sent /\ store[t] = WireView(sent[t])

Faithful ==
  /\ RingHoldsSent
  /\ \A m \in shots : CodesSent(m)
  /\ StoreHoldsSent

\* What a tick sends codes its view.
LEMMA CodedIsFaithful ==
  ASSUME TypeOK, Faithful, NEW v,
         NEW m, m = Coded(tick + 1, v)
  PROVE  /\ m.tick = tick + 1
         /\ m.base = 0 => m.entities = WireView(v)
         /\ m.base # 0 => /\ m.base \in DOMAIN sent
                          /\ m.entities = Changed(sent[m.base], v)
                          /\ m.removed = Removed(sent[m.base], v)
<1> DEFINE slot == Slot(ackTick)
<1>1. CASE Has(ackTick) /\ Shorter(slot.ents, v)
  <2>1. m = DeltaFrom(tick + 1, slot.ents, v)
    BY <1>1 DEF Coded
  <2>2. m.tick = tick + 1 /\ m.base = ackTick /\ m.entities = Changed(slot.ents, v)
          /\ m.removed = Removed(slot.ents, v)
    BY <2>1 DEF DeltaFrom
  <2>3. ackTick \in DOMAIN sent /\ slot.ents = sent[ackTick]
    <3>1. slot.used /\ slot.tick = ackTick
      BY <1>1 DEF Has
    <3>2. ackTick % Ring \in 0 .. Ring - 1
      BY SyncAssumption DEF TypeOK
    <3> QED BY <3>1, <3>2 DEF Faithful, RingHoldsSent, Slot
  <2>4. ackTick # 0
    BY <2>3 DEF TypeOK
  <2> QED BY <2>2, <2>3, <2>4
<1>2. CASE ~(Has(ackTick) /\ Shorter(slot.ents, v))
  <2>1. m = Full(tick + 1, v)
    BY <1>2 DEF Coded
  <2> QED BY <2>1 DEF Full
<1> QED BY <1>1, <1>2

\* What the client rebuilds is the wire form of what was sent.
LEMMA RebuiltIsSent ==
  ASSUME Faithful, NEW m \in shots, Known(m)
  PROVE  Rebuilt(m) = WireView(sent[m.tick])
<1>1. CodesSent(m)
  BY DEF Faithful
<1>2. CASE m.base = 0
  BY <1>1, <1>2 DEF Rebuilt, CodesSent
<1>3. CASE m.base # 0
  <2>1. m.base \in DOMAIN store
    BY <1>3 DEF Known
  <2>2. store[m.base] = WireView(sent[m.base])
    BY <2>1 DEF Faithful, StoreHoldsSent
  <2>3. Patch(WireView(sent[m.base]), Changed(sent[m.base], sent[m.tick]),
              Removed(sent[m.base], sent[m.tick])) = WireView(sent[m.tick])
    BY RoundTrip
  <2> QED BY <1>1, <1>3, <2>2, <2>3 DEF Rebuilt, CodesSent
<1> QED BY <1>2, <1>3

\* The invariant holds at first and is kept by every step.
LEMMA InitFaithful == Init => Faithful
BY DEF Init, Faithful, RingHoldsSent, StoreHoldsSent, NoSlot

LEMMA NextFaithful == TypeOK /\ Faithful /\ [Next]_vars => Faithful'
<1> SUFFICES ASSUME TypeOK, Faithful, [Next]_vars PROVE Faithful'
  OBVIOUS
<1>1. CASE Broadcast
  <2>1. PICK v \in Views :
          /\ shots' = shots \cup {Coded(tick + 1, v)}
          /\ ring' = [ring EXCEPT ![(tick + 1) % Ring] =
                        [used |-> TRUE, tick |-> tick + 1, ents |-> v]]
          /\ sent' = [t \in DOMAIN sent \cup {tick + 1} |-> IF t = tick + 1 THEN v ELSE sent[t]]
    BY <1>1 DEF Broadcast
  <2>2. tick \in Nat /\ tick + 1 \notin DOMAIN sent
    BY DEF TypeOK
  <2>3. DOMAIN sent' = DOMAIN sent \cup {tick + 1} /\ sent'[tick + 1] = v
          /\ \A t \in DOMAIN sent : sent'[t] = sent[t]
    BY <2>1, <2>2
  <2>4. RingHoldsSent'
    BY <2>1, <2>3, SyncAssumption DEF Faithful, RingHoldsSent, TypeOK
  <2>5. ASSUME NEW m \in shots' PROVE CodesSent(m)'
    <3>1. CASE m \in shots
      BY <3>1, <2>3 DEF Faithful, CodesSent
    <3>2. CASE m = Coded(tick + 1, v)
      <4>1. /\ m.tick = tick + 1
            /\ m.base = 0 => m.entities = WireView(v)
            /\ m.base # 0 => /\ m.base \in DOMAIN sent
                             /\ m.entities = Changed(sent[m.base], v)
                             /\ m.removed = Removed(sent[m.base], v)
        BY <3>2, CodedIsFaithful
      <4> QED BY <4>1, <2>3 DEF CodesSent
    <3> QED BY <2>1, <3>1, <3>2
  <2>6. StoreHoldsSent'
    BY <1>1, <2>3 DEF Broadcast, clientVars, Faithful, StoreHoldsSent
  <2> QED BY <2>4, <2>5, <2>6 DEF Faithful
<1>2. ASSUME NEW m \in shots, Apply(m) PROVE Faithful'
  <2>1. Rebuilt(m) = WireView(sent[m.tick]) /\ m.tick \in DOMAIN sent
    BY <1>2, RebuiltIsSent DEF Apply, Faithful, CodesSent
  <2>2. UNCHANGED serverVars
    BY <1>2 DEF Apply
  <2>3. StoreHoldsSent'
    BY <1>2, <2>1, <2>2 DEF Apply, serverVars, Faithful, StoreHoldsSent
  <2>4. RingHoldsSent'
    BY <2>2 DEF serverVars, Faithful, RingHoldsSent
  <2>5. \A n \in shots' : CodesSent(n)'
    BY <1>2, <2>2 DEF Apply, serverVars, Faithful, CodesSent
  <2> QED BY <2>3, <2>4, <2>5 DEF Faithful
<1>3. ASSUME UNCHANGED <<ring, sent, store>>, shots' \subseteq shots PROVE Faithful'
  BY <1>3 DEF Faithful, RingHoldsSent, StoreHoldsSent, CodesSent
<1>4. CASE Quiet \/ HandleInput \/ LoseSnapshot \/ DropInput \/ SendInput \/ UNCHANGED vars
  BY <1>4, <1>3 DEF Quiet, HandleInput, LoseSnapshot, DropInput, SendInput, vars,
                    serverVars, clientVars
<1>5. ASSUME NEW m \in shots, Skip(m) PROVE Faithful'
  BY <1>5, <1>3 DEF Skip, serverVars, clientVars
<1> QED BY <1>1, <1>2, <1>4, <1>5 DEF Next

-----------------------------------------------------------------------------
(***************************************************************************)
(* The refinement.                                                         *)
(***************************************************************************)
LEMMA InitMirrors == Init => Server!Init
<1> SUFFICES ASSUME Init PROVE Server!Init
  OBVIOUS
<1>1. WireView(Empty) = Empty
  BY DEF WireView, Empty
<1>2. [t \in DOMAIN sent |-> WireView(sent[t])] = [t \in {} |-> 0]
  BY DEF Init
<1> QED BY <1>1, <1>2 DEF Init, Server!Init

\* A broadcast publishes its view.
LEMMA BroadcastMirrors ==
  ASSUME TypeOK, Broadcast
  PROVE  Server!Publish
<1>1. PICK v \in Views :
        sent' = [t \in DOMAIN sent \cup {tick + 1} |-> IF t = tick + 1 THEN v ELSE sent[t]]
  BY DEF Broadcast
<1>2. tick' = tick + 1 /\ UNCHANGED <<seen, view>>
  BY DEF Broadcast, clientVars
<1> DEFINE published == [t \in DOMAIN sent |-> WireView(sent[t])]
<1>3. [t \in DOMAIN sent' |-> WireView(sent'[t])]
        = [t \in DOMAIN published \cup {tick'} |->
             IF t = tick' THEN WireView(v) ELSE published[t]]
  BY <1>1, <1>2
<1>4. WireView(v) \in {WireView(w) : w \in Views \cup {Empty}}
  OBVIOUS
<1> HIDE DEF published
<1> QED BY <1>2, <1>3, <1>4 DEF Server!Publish, published

\* A client that applies a snapshot is shown a published view, a later one.
LEMMA ApplyMirrors ==
  ASSUME TypeOK, Faithful, NEW m \in shots, Apply(m)
  PROVE  Server!Show
<1>1. m.tick \in DOMAIN sent /\ Rebuilt(m) = WireView(sent[m.tick])
  BY RebuiltIsSent DEF Apply, Faithful, CodesSent
<1>2. m.tick > seen
  BY <1>1 DEF Apply, Stale, TypeOK
<1>3. seen' = m.tick /\ view' = WireView(sent[m.tick])
  BY <1>1 DEF Apply
<1>4. UNCHANGED <<tick, sent>>
  BY DEF Apply, serverVars
<1> QED BY <1>1, <1>2, <1>3, <1>4 DEF Server!Show

LEMMA NextMirrors ==
  TypeOK /\ Faithful /\ [Next]_vars => [Server!Next]_(Server!vars)
<1> SUFFICES ASSUME TypeOK, Faithful, [Next]_vars
             PROVE  Server!Next \/ UNCHANGED Server!vars
  OBVIOUS
<1>1. CASE Quiet
  BY <1>1 DEF Quiet, clientVars, Server!Next, Server!Advance
<1>2. CASE Broadcast
  BY <1>2, BroadcastMirrors DEF Server!Next
<1>3. CASE HandleInput \/ LoseSnapshot \/ DropInput \/ SendInput \/ UNCHANGED vars
  BY <1>3 DEF HandleInput, LoseSnapshot, DropInput, SendInput, vars, serverVars, clientVars,
              Server!vars
<1>4. ASSUME NEW m \in shots, Skip(m) PROVE UNCHANGED Server!vars
  BY <1>4 DEF Skip, serverVars, clientVars, Server!vars
<1>5. ASSUME NEW m \in shots, Apply(m) PROVE Server!Next
  BY <1>5, ApplyMirrors DEF Server!Next
<1> QED BY <1>1, <1>2, <1>3, <1>4, <1>5 DEF Next

\* Whatever is lost, late or out of order, the client is shown only views the
\* server had, each at its tick and each later than the last: the stream
\* implements Mirror (sendSnapshotTo, ReadSnapshot).
THEOREM StreamMirrorsServer == Spec => ClientMirrorsServer
<1>1. Init => TypeOK /\ Faithful
  BY InitTypeOK, InitFaithful
<1>2. TypeOK /\ Faithful /\ [Next]_vars => (TypeOK /\ Faithful)'
  BY NextTypeOK, NextFaithful
<1> QED BY <1>1, <1>2, InitMirrors, NextMirrors, PTL DEF Spec, ClientMirrorsServer, Server!Spec

-----------------------------------------------------------------------------
(***************************************************************************)
(* Bases.  A slot keeps its view for less than two rounds of the ring, so  *)
(* a base is at most two rounds old, and one tick between it and its delta *)
(* sent nothing if it is older than one.  The client has dropped a base it *)
(* acknowledged only if it stored Keep later ticks; there are not that     *)
(* many between.                                                           *)
(***************************************************************************)
LEMMA ModUnique ==
  ASSUME NEW x \in Nat, NEW m \in Nat \ {0}, NEW d \in Int, NEW r \in 0 .. m - 1, x = d * m + r
  PROVE  x % m = r
<1> DEFINE q == x \div m
           s == x % m
<1>1. q \in Int /\ s \in 0 .. m - 1 /\ x = m * q + s
  OBVIOUS
<1> HIDE DEF q, s
<1>2. m * (d - q) = s - r
  BY <1>1
<1>3. d - q = 0
  <2>1. CASE d - q >= 1
    <3>1. m * (d - q) >= m
      BY <2>1, <1>1
    <3> QED BY <3>1, <1>1, <1>2
  <2>2. CASE d - q <= -1
    <3>1. m * (d - q) <= -m
      BY <2>2, <1>1
    <3> QED BY <3>1, <1>1, <1>2
  <2> QED BY <2>1, <2>2, <1>1
<1>4. s = r
  BY <1>1, <1>2, <1>3
<1> QED BY <1>4 DEF s

LEMMA ModShift ==
  ASSUME NEW x \in Nat, NEW m \in Nat \ {0}
  PROVE  (x + m) % m = x % m /\ (x + 2 * m) % m = x % m
<1> DEFINE q == x \div m
           r == x % m
<1>1. q \in Int /\ r \in 0 .. m - 1 /\ x = m * q + r
  OBVIOUS
<1> HIDE DEF q, r
<1>2. x + m = (q + 1) * m + r /\ x + 2 * m = (q + 2) * m + r
  BY <1>1
<1>3. (x + m) % m = r
  BY <1>1, <1>2, ModUnique
<1>4. (x + 2 * m) % m = r
  BY <1>1, <1>2, ModUnique
<1> QED BY <1>3, <1>4 DEF r

\* The rate divider, tick by tick: what it held after each, and how often it
\* has turned over.
Regular ==
  \E past, turns \in [Nat -> Int] :
    /\ past[tick] = accum
    /\ \A t \in 0 .. tick :
         /\ past[t] \in 0 .. TickRate - 1
         /\ past[t] = past[0] + t * SnapshotRate - turns[t] * TickRate
    /\ \A t \in 1 .. tick : t \in DOMAIN sent <=> past[t - 1] + SnapshotRate >= TickRate

SlotsAge ==
  \A k \in 0 .. Ring - 1 :
    ring[k].used =>
      /\ k = ring[k].tick % Ring
      /\ tick < ring[k].tick + 2 * Ring
      /\ ring[k].tick + Ring \notin DOMAIN sent

Near(m) ==
  m.base # 0 =>
    /\ m.base < m.tick /\ m.tick <= m.base + 2 * Ring
    /\ m.tick > m.base + Ring => m.base + Ring \notin DOMAIN sent

InOrder ==
  /\ \A i, j \in 1 .. Len(order) : i < j => order[i] < order[j]
  /\ \A i \in 1 .. Len(order) : order[i] <= seen
  /\ seen <= tick

\* A tick the client has acknowledged: it is still stored, or was dropped for
\* Keep later ones.
Dropped(t) == Len(order) = Keep /\ \A i \in 1 .. Len(order) : t < order[i]
Acked(t) == t = 0 \/ t \in DOMAIN store \/ Dropped(t)
AcksAreOld ==
  /\ Acked(seen) /\ Acked(ackTick)
  /\ \A n \in DOMAIN inputs : Acked(inputs[n]) /\ inputs[n] <= tick
  /\ \A m \in shots : Acked(m.base)

Supplied ==
  /\ TypeOK /\ Faithful /\ Regular /\ SlotsAge
  /\ \A m \in shots : Near(m)
  /\ InOrder /\ AcksAreOld

\* A slot that was passed over is not passed over again.
LEMMA NeverTwiceQuiet ==
  ASSUME TypeOK, Regular, TurnsOver(Ring, SnapshotRate, TickRate), ~SnapshotDue,
         NEW t \in 1 .. tick, t + Ring = tick + 1
  PROVE  t \in DOMAIN sent
<1>1. PICK past \in [Nat -> Int], turns \in [Nat -> Int] :
        /\ past[tick] = accum
        /\ \A s \in 0 .. tick :
             /\ past[s] \in 0 .. TickRate - 1
             /\ past[s] = past[0] + s * SnapshotRate - turns[s] * TickRate
        /\ \A s \in 1 .. tick : s \in DOMAIN sent <=> past[s - 1] + SnapshotRate >= TickRate
  BY DEF Regular
<1>2. /\ tick \in Nat /\ t \in Nat \ {0} /\ Ring \in Nat \ {0} /\ TickRate \in Nat \ {0}
      /\ SnapshotRate \in Nat /\ t - 1 \in 0 .. tick /\ t - 1 \in Nat /\ tick = (t - 1) + Ring
  BY SyncAssumption DEF TypeOK
<1>3. PICK a \in 0 .. TickRate - 1 : a = past[t - 1]
  BY <1>1, <1>2
<1>4. PICK c \in 0 .. TickRate - 1 : c = accum
  BY DEF TypeOK
<1>5. PICK d \in Int : d = turns[tick] - turns[t - 1]
  BY <1>2
<1>6. a + Ring * SnapshotRate = d * TickRate + c
  <2>1. c = past[0] + tick * SnapshotRate - turns[tick] * TickRate
    BY <1>1, <1>2, <1>4
  <2>2. a = past[0] + (t - 1) * SnapshotRate - turns[t - 1] * TickRate
    BY <1>1, <1>2, <1>3
  <2>3. tick * SnapshotRate = (t - 1) * SnapshotRate + Ring * SnapshotRate
    BY <1>2
  <2>4. d * TickRate = turns[tick] * TickRate - turns[t - 1] * TickRate
    BY <1>2, <1>5
  <2>5. past[0] \in Int /\ turns[tick] \in Int /\ turns[t - 1] \in Int
    BY <1>2
  <2> QED BY <1>2, <1>3, <1>4, <1>5, <2>1, <2>2, <2>3, <2>4, <2>5
<1>7. (a + Ring * SnapshotRate) % TickRate = c
  <2>1. a + Ring * SnapshotRate \in Nat
    BY <1>2, <1>3
  <2> QED BY <1>2, <1>4, <1>5, <1>6, <2>1, ModUnique
<1>8. a + SnapshotRate >= TickRate
  BY <1>4, <1>7 DEF TurnsOver, SnapshotDue
<1> QED BY <1>1, <1>3, <1>8

\* A tick adds its place to the history of the divider.
LEMMA TickRegular ==
  ASSUME TypeOK, Regular, Quiet \/ Broadcast
  PROVE  Regular'
<1>1. PICK past \in [Nat -> Int], turns \in [Nat -> Int] :
        /\ past[tick] = accum
        /\ \A s \in 0 .. tick :
             /\ past[s] \in 0 .. TickRate - 1
             /\ past[s] = past[0] + s * SnapshotRate - turns[s] * TickRate
        /\ \A s \in 1 .. tick : s \in DOMAIN sent <=> past[s - 1] + SnapshotRate >= TickRate
  BY DEF Regular
<1>2. /\ tick \in Nat /\ tick' = tick + 1 /\ TickRate \in Nat \ {0} /\ SnapshotRate \in 1 .. TickRate
      /\ accum \in 0 .. TickRate - 1 /\ DOMAIN sent \subseteq 1 .. tick
  BY SyncAssumption DEF TypeOK, Quiet, Broadcast
<1>3. PICK turn \in {0, 1} :
        /\ accum' = accum + SnapshotRate - turn * TickRate /\ accum' \in 0 .. TickRate - 1
        /\ turn = 1 <=> accum + SnapshotRate >= TickRate
        /\ tick + 1 \in DOMAIN sent' <=> turn = 1
        /\ \A s \in 1 .. tick : s \in DOMAIN sent' <=> s \in DOMAIN sent
  <2>1. CASE Quiet
    BY <1>2, <2>1 DEF Quiet, SnapshotDue
  <2>2. CASE Broadcast
    BY <1>2, <2>2 DEF Broadcast, SnapshotDue
  <2> QED BY <2>1, <2>2
<1> DEFINE later == [past EXCEPT ![tick + 1] = accum']
           turned == [turns EXCEPT ![tick + 1] = turns[tick] + turn]
<1>4. /\ later \in [Nat -> Int] /\ turned \in [Nat -> Int]
      /\ later[tick + 1] = accum' /\ turned[tick + 1] = turns[tick] + turn
      /\ \A s \in 0 .. tick : later[s] = past[s] /\ turned[s] = turns[s]
  BY <1>2, <1>3
<1> HIDE DEF later, turned
<1>5. ASSUME NEW s \in 0 .. tick + 1
      PROVE  /\ later[s] \in 0 .. TickRate - 1
             /\ later[s] = later[0] + s * SnapshotRate - turned[s] * TickRate
  <2>1. CASE s \in 0 .. tick
    BY <1>1, <1>2, <1>4, <2>1
  <2>2. CASE s = tick + 1
    <3>1. accum = past[0] + tick * SnapshotRate - turns[tick] * TickRate
      BY <1>1, <1>2
    <3>2. (tick + 1) * SnapshotRate = tick * SnapshotRate + SnapshotRate
      BY <1>2
    <3>3. /\ turns[tick] \in Int /\ past[0] \in Int /\ later[0] = past[0]
          /\ (turns[tick] + turn) * TickRate = turns[tick] * TickRate + turn * TickRate
      <4>1. turns[tick] \in Int /\ past[0] \in Int
        BY <1>2
      <4>2. later[0] = past[0]
        BY <1>2, <1>4
      <4>3. \A a, b, d \in Int : (a + b) * d = a * d + b * d
        OBVIOUS
      <4>4. turn \in Int /\ TickRate \in Int
        BY <1>2, <1>3
      <4> QED BY <4>1, <4>2, <4>3, <4>4
    <3>4. PICK x \in Int, y \in Int, q \in Int :
            x = tick * SnapshotRate /\ y = turns[tick] * TickRate /\ q = turn * TickRate
      BY <1>2, <1>3, <3>3
    <3>5. accum = past[0] + x - y /\ accum' = accum + SnapshotRate - q /\ SnapshotRate \in Int
      BY <1>2, <1>3, <3>1, <3>4
    <3>6. s * SnapshotRate = x + SnapshotRate /\ turned[s] * TickRate = y + q
      BY <1>4, <2>2, <3>2, <3>3, <3>4
    <3>7. accum' = later[0] + (x + SnapshotRate) - (y + q)
      BY <3>3, <3>4, <3>5
    <3>8. later[s] = accum' /\ accum' \in 0 .. TickRate - 1
      BY <1>3, <1>4, <2>2
    <3> QED BY <3>6, <3>7, <3>8
  <2> QED BY <1>2, <2>1, <2>2
<1>6. ASSUME NEW s \in 1 .. tick + 1
      PROVE  s \in DOMAIN sent' <=> later[s - 1] + SnapshotRate >= TickRate
  <2>1. CASE s \in 1 .. tick
    BY <1>1, <1>2, <1>3, <1>4, <2>1
  <2>2. CASE s = tick + 1
    <3>1. later[s - 1] = accum
      BY <1>1, <1>2, <1>4, <2>2
    <3> QED BY <1>3, <2>2, <3>1
  <2> QED BY <1>2, <2>1, <2>2
<1> QED BY <1>2, <1>4, <1>5, <1>6 DEF Regular

\* A slot reaches its second turn only to be overwritten.
LEMMA TickAges ==
  ASSUME TypeOK, Faithful, Regular, SlotsAge, TurnsOver(Ring, SnapshotRate, TickRate),
         Quiet \/ Broadcast
  PROVE  SlotsAge'
<1>1. /\ tick \in Nat /\ tick' = tick + 1 /\ Ring \in Nat \ {0} /\ DOMAIN sent \subseteq 1 .. tick
  BY SyncAssumption DEF TypeOK, Quiet, Broadcast
<1>2. ASSUME NEW k \in 0 .. Ring - 1, ring[k].used
      PROVE  /\ ring[k].tick \in 1 .. tick /\ k = ring[k].tick % Ring
             /\ tick < ring[k].tick + 2 * Ring /\ ring[k].tick + Ring \notin DOMAIN sent
  BY <1>1, <1>2 DEF Faithful, RingHoldsSent, SlotsAge
<1>3. CASE Quiet
  <2>1. UNCHANGED <<ring, sent>>
    BY <1>3 DEF Quiet
  <2>2. ASSUME NEW k \in 0 .. Ring - 1, ring[k].used, tick + 1 = ring[k].tick + 2 * Ring PROVE FALSE
    <3>1. ring[k].tick + Ring \in 1 .. tick /\ (ring[k].tick + Ring) + Ring = tick + 1
      BY <1>1, <1>2, <2>2
    <3>2. ring[k].tick + Ring \in DOMAIN sent
      BY <1>3, <3>1, NeverTwiceQuiet DEF Quiet
    <3> QED BY <1>2, <2>2, <3>2
  <2>3. ASSUME NEW k \in 0 .. Ring - 1, ring[k].used PROVE tick + 1 < ring[k].tick + 2 * Ring
    BY <1>1, <1>2, <2>2, <2>3
  <2> QED BY <1>1, <1>2, <2>1, <2>3 DEF SlotsAge
<1>4. CASE Broadcast
  <2> DEFINE turn == (tick + 1) % Ring
  <2>1. PICK v \in Views :
          ring' = [ring EXCEPT ![turn] = [used |-> TRUE, tick |-> tick + 1, ents |-> v]]
    BY <1>4 DEF Broadcast
  <2>2. turn \in 0 .. Ring - 1 /\ turn = (tick + 1) % Ring
    BY <1>1
  <2> HIDE DEF turn
  <2>3. DOMAIN sent' = DOMAIN sent \cup {tick + 1}
    BY <1>4 DEF Broadcast
  <2>4. ring \in [0 .. Ring - 1 -> Slots]
    BY DEF TypeOK
  <2>5. ASSUME NEW k \in 0 .. Ring - 1, ring'[k].used
        PROVE  /\ k = ring'[k].tick % Ring
               /\ tick + 1 < ring'[k].tick + 2 * Ring
               /\ ring'[k].tick + Ring \notin DOMAIN sent'
    <3>1. CASE k = turn
      <4>1. ring'[k].tick = tick + 1
        BY <2>1, <2>2, <2>4, <3>1
      <4> QED BY <1>1, <2>2, <2>3, <3>1, <4>1
    <3>2. CASE k # turn
      <4>1. ring'[k] = ring[k]
        BY <2>1, <2>4, <3>2
      <4>2. PICK b \in 1 .. tick : b = ring[k].tick
        BY <1>2, <2>5, <4>1
      <4>3. k = b % Ring /\ tick < b + 2 * Ring /\ b + Ring \notin DOMAIN sent
        BY <1>2, <2>5, <4>1, <4>2
      <4>4. (b + Ring) % Ring = b % Ring /\ (b + 2 * Ring) % Ring = b % Ring
        <5>1. b \in Nat /\ Ring \in Nat \ {0}
          BY <1>1, <4>2
        <5> QED BY <5>1, ModShift
      <4>5. tick + 1 # b + Ring /\ tick + 1 # b + 2 * Ring
        BY <2>2, <3>2, <4>3, <4>4
      <4> QED BY <1>1, <2>3, <4>1, <4>2, <4>3, <4>5
    <3> QED BY <3>1, <3>2
  <2> QED BY <1>1, <2>5 DEF SlotsAge
<1> QED BY <1>3, <1>4

\* A delta is coded against a slot that has not reached its second turn.
LEMMA CodedIsNear ==
  ASSUME TypeOK, Faithful, SlotsAge, Broadcast, NEW v, NEW m, m = Coded(tick + 1, v), m.base # 0
  PROVE  /\ m.tick = tick + 1 /\ m.base = ackTick
         /\ m.base < m.tick /\ m.tick <= m.base + 2 * Ring
         /\ m.tick > m.base + Ring => m.base + Ring \notin DOMAIN sent'
<1> DEFINE slot == Slot(ackTick)
<1>1. /\ tick \in Nat /\ Ring \in Nat \ {0} /\ ackTick \in Nat /\ DOMAIN sent \subseteq 1 .. tick
  BY SyncAssumption DEF TypeOK
<1>2. Has(ackTick) /\ m.tick = tick + 1 /\ m.base = ackTick
  <2>1. CASE Has(ackTick) /\ Shorter(slot.ents, v)
    <3>1. m = DeltaFrom(tick + 1, slot.ents, v)
      BY <2>1 DEF Coded
    <3> QED BY <2>1, <3>1 DEF DeltaFrom
  <2>2. CASE ~(Has(ackTick) /\ Shorter(slot.ents, v))
    <3>1. m = Full(tick + 1, v)
      BY <2>2 DEF Coded
    <3> QED BY <3>1 DEF Full
  <2> QED BY <2>1, <2>2
<1>3. ackTick % Ring \in 0 .. Ring - 1
  BY <1>1
<1>4. /\ ackTick \in 1 .. tick /\ tick < ackTick + 2 * Ring /\ ackTick + Ring \notin DOMAIN sent
  BY <1>1, <1>2, <1>3 DEF Has, Slot, Faithful, RingHoldsSent, SlotsAge
<1>5. DOMAIN sent' = DOMAIN sent \cup {tick + 1}
  BY DEF Broadcast
<1> QED BY <1>1, <1>2, <1>4, <1>5

\* What was acknowledged stays so when the client applies a snapshot.
LEMMA ApplyKeepsAcks ==
  ASSUME TypeOK, Faithful, InOrder, NEW m \in shots, Apply(m)
  PROVE  /\ InOrder' /\ Acked(m.tick)'
         /\ \A t \in Nat : Acked(t) => Acked(t)'
<1> DEFINE longer == Append(order, m.tick)
<1>1. /\ order \in Seq(Ticks) /\ Keep \in Nat \ {0} /\ Len(order) \in Nat /\ Len(order) <= Keep
      /\ DOMAIN store = ToSet(order) /\ \A i \in 1 .. Len(order) : order[i] \in Nat
      /\ seen \in Nat /\ tick \in Nat
  BY SyncAssumption DEF TypeOK, Ticks
<1>2. m.tick \in Ticks /\ m.tick \in Nat /\ m.tick <= tick /\ seen < m.tick
  BY <1>1 DEF TypeOK, Messages, Ticks, Apply, Stale, Faithful, CodesSent
<1>3. m.tick \notin DOMAIN store
  BY <1>1, <1>2 DEF InOrder, ToSet
<1>4. order' = IF Len(longer) > Keep THEN Tail(longer) ELSE longer
  BY <1>3 DEF Apply, Remembered
<1>5. /\ longer \in Seq(Ticks) /\ Len(longer) = Len(order) + 1 /\ longer[Len(order) + 1] = m.tick
      /\ \A i \in 1 .. Len(order) : longer[i] = order[i]
  BY <1>1, <1>2
<1> HIDE DEF longer
<1>6. DOMAIN store' = ToSet(order') /\ seen' = m.tick /\ tick' = tick
  BY ApplyTypeOK DEF TypeOK, Apply, serverVars
<1>7. /\ \A i, j \in 1 .. Len(longer) : i < j => longer[i] < longer[j]
      /\ \A i \in 1 .. Len(longer) : longer[i] <= m.tick /\ longer[i] \in Nat
  <2>1. \A i \in 1 .. Len(order) : longer[i] <= seen /\ longer[i] \in Nat
    BY <1>1, <1>5 DEF InOrder
  <2>2. \A i, j \in 1 .. Len(order) : i < j => longer[i] < longer[j]
    BY <1>1, <1>5 DEF InOrder
  <2>3. \A i \in 1 .. Len(longer) : i \in 1 .. Len(order) \/ i = Len(order) + 1
    BY <1>1, <1>5
  <2>4. \A i \in 1 .. Len(longer) : longer[i] <= m.tick /\ longer[i] \in Nat
    BY <1>1, <1>2, <1>5, <2>1, <2>3
  <2>5. ASSUME NEW i \in 1 .. Len(longer), NEW j \in 1 .. Len(longer), i < j
        PROVE  longer[i] < longer[j]
    <3>1. i \in 1 .. Len(order)
      BY <1>1, <1>5, <2>3, <2>5
    <3>2. CASE j \in 1 .. Len(order)
      BY <2>2, <2>5, <3>1, <3>2
    <3>3. CASE j = Len(order) + 1
      BY <1>1, <1>2, <1>5, <2>1, <3>1, <3>3
    <3> QED BY <2>3, <3>2, <3>3
  <2> QED BY <2>4, <2>5
<1>8. CASE Len(longer) > Keep
  <2>1. /\ order' = Tail(longer) /\ Len(order) = Keep /\ Len(order') = Keep /\ Len(longer) = Keep + 1
        /\ order' \in Seq(Ticks)
    BY <1>1, <1>4, <1>5, <1>8
  <2>2. \A i \in 1 .. Keep : order'[i] = longer[i + 1]
    BY <1>1, <1>5, <2>1
  <2>3. InOrder'
    <3>1. /\ seen' <= tick' /\ 1 .. Len(order') = 1 .. Keep /\ Keep \in Nat /\ Len(longer) = Keep + 1
      BY <1>1, <1>2, <1>6, <2>1
    <3>2. \A i \in 1 .. Keep : i + 1 \in 1 .. Len(longer)
      BY <3>1
    <3>3. \A i \in 1 .. Keep : order'[i] <= seen'
      BY <1>6, <1>7, <2>2, <3>2
    <3>4. ASSUME NEW i \in 1 .. Keep, NEW j \in 1 .. Keep, i < j
          PROVE  order'[i] < order'[j]
      <4>1. i + 1 < j + 1
        BY <3>4
      <4>2. longer[i + 1] < longer[j + 1]
        BY <1>7, <3>2, <4>1
      <4> QED BY <2>2, <4>2
    <3> QED BY <3>1, <3>3, <3>4 DEF InOrder
  <2>4. m.tick \in ToSet(order')
    <3>1. Keep \in 1 .. Keep /\ order'[Keep] = m.tick /\ DOMAIN order' = 1 .. Keep
      BY <1>1, <1>5, <2>1, <2>2
    <3> QED BY <3>1 DEF ToSet
  <2>5. ASSUME NEW t \in Nat, Acked(t) PROVE Acked(t)'
    <3>1. CASE t = 0
      BY <3>1 DEF Acked
    <3>2. CASE t \in DOMAIN store
      <4>1. PICK i \in 1 .. Keep : t = longer[i]
        BY <1>1, <1>5, <2>1, <3>2 DEF ToSet
      <4>2. CASE i = 1
        <5>1. \A j \in 1 .. Keep : t < order'[j]
          BY <1>1, <1>7, <2>1, <2>2, <4>1, <4>2
        <5> QED BY <2>1, <5>1 DEF Acked, Dropped
      <4>3. CASE i # 1
        <5>1. i - 1 \in 1 .. Keep /\ t = order'[i - 1] /\ DOMAIN order' = 1 .. Keep
          BY <1>1, <2>1, <2>2, <4>1, <4>3
        <5>2. t \in ToSet(order')
          BY <5>1 DEF ToSet
        <5> QED BY <1>6, <5>2 DEF Acked
      <4> QED BY <4>2, <4>3
    <3>3. CASE Dropped(t)
      <4>1. \A i \in 1 .. Keep : t < longer[i]
        BY <1>5, <2>1, <3>3 DEF Dropped
      <4>2. \A i \in 1 .. Keep + 1 : t < longer[i]
        BY <1>1, <1>7, <2>1, <4>1
      <4>3. \A i \in 1 .. Keep : t < order'[i]
        BY <1>1, <2>2, <4>2
      <4> QED BY <2>1, <4>3 DEF Acked, Dropped
    <3> QED BY <2>5, <3>1, <3>2, <3>3 DEF Acked
  <2> QED BY <1>6, <2>3, <2>4, <2>5 DEF Acked
<1>9. CASE ~(Len(longer) > Keep)
  <2>1. order' = longer /\ Len(order) < Keep
    BY <1>1, <1>4, <1>5, <1>9
  <2>2. InOrder'
    BY <1>1, <1>2, <1>6, <1>7, <2>1 DEF InOrder
  <2>3. DOMAIN order' = 1 .. Len(order) + 1 /\ DOMAIN order = 1 .. Len(order)
    BY <1>1, <1>5, <2>1
  <2>4. m.tick \in ToSet(order') /\ ToSet(order) \subseteq ToSet(order')
    BY <1>1, <1>5, <2>1, <2>3 DEF ToSet
  <2>5. ASSUME NEW t \in Nat, Acked(t) PROVE Acked(t)'
    BY <1>1, <1>6, <2>1, <2>4, <2>5 DEF Acked, Dropped
  <2> QED BY <1>6, <2>2, <2>4, <2>5 DEF Acked
<1> QED BY <1>8, <1>9

LEMMA InitSupplied == Init => Supplied
<1> SUFFICES ASSUME Init PROVE Supplied
  OBVIOUS
<1>1. TypeOK /\ Faithful
  BY InitTypeOK, InitFaithful
<1>2. Regular
  <2> DEFINE past == [t \in Nat |-> accum]
             turns == [t \in Nat |-> 0]
  <2>1. past \in [Nat -> Int] /\ turns \in [Nat -> Int] /\ past[0] = accum /\ turns[0] = 0
    BY <1>1, SyncAssumption DEF TypeOK
  <2>2. accum \in 0 .. TickRate - 1 /\ tick = 0
    BY <1>1 DEF TypeOK, Init
  <2>3. accum = accum + 0 * SnapshotRate - 0 * TickRate
    BY <2>2, SyncAssumption
  <2> HIDE DEF past, turns
  <2> QED BY <2>1, <2>2, <2>3 DEF Regular
<1>3. SlotsAge /\ InOrder /\ AcksAreOld /\ shots = {}
  BY DEF Init, SlotsAge, NoSlot, InOrder, AcksAreOld, Acked
<1> QED BY <1>1, <1>2, <1>3 DEF Supplied

LEMMA NextSupplied ==
  ASSUME Supplied, [Next]_vars, TurnsOver(Ring, SnapshotRate, TickRate)
  PROVE  Supplied'
<1>1. TypeOK' /\ Faithful' /\ TypeOK /\ Faithful
  BY NextTypeOK, NextFaithful DEF Supplied
<1>2. ASSUME UNCHANGED <<tick, accum, ring, sent>>, shots' \subseteq shots
      PROVE  Regular' /\ SlotsAge' /\ \A m \in shots' : Near(m)'
  BY <1>2 DEF Supplied, Regular, SlotsAge, Near
<1>3. ASSUME UNCHANGED <<order, seen, store>>, tick \in Nat, tick' \in Nat, tick' >= tick
      PROVE  InOrder' /\ \A t : Acked(t)' <=> Acked(t)
  BY <1>1, <1>3 DEF Supplied, InOrder, Acked, Dropped, TypeOK
<1>4. tick \in Nat /\ DOMAIN sent \subseteq 1 .. tick /\ inputs \in Seq(0 .. MaxTick)
  BY <1>1 DEF TypeOK
<1>4a. \A n \in DOMAIN inputs : inputs[n] \in Nat
  BY <1>4, SyncAssumption
<1>4b. \A m \in shots : m.base \in Nat
  <2>1. \A m \in Messages : m.base \in Nat
    BY DEF Messages
  <2> QED BY <1>1, <2>1 DEF TypeOK
<1>5. CASE Quiet \/ Broadcast
  <2>1. Regular' /\ SlotsAge' /\ tick' = tick + 1 /\ UNCHANGED <<ackTick, inputs, order, seen, store>>
    BY <1>1, <1>5, TickRegular, TickAges DEF Supplied, Quiet, Broadcast, clientVars
  <2>2. InOrder' /\ \A t : Acked(t)' <=> Acked(t)
    BY <1>3, <1>4, <2>1
  <2>3. ASSUME NEW m \in shots' PROVE Near(m)' /\ Acked(m.base)
    <3>1. CASE m \in shots
      <4>1. Near(m) /\ Acked(m.base) /\ m.tick \in DOMAIN sent
        BY <1>1, <3>1 DEF Supplied, AcksAreOld, Faithful, CodesSent
      <4>2. \A t \in 1 .. tick : t \in DOMAIN sent' => t \in DOMAIN sent
        <5>1. CASE Quiet
          BY <5>1 DEF Quiet
        <5>2. CASE Broadcast
          <6>1. DOMAIN sent' = DOMAIN sent \cup {tick + 1}
            BY <5>2 DEF Broadcast
          <6> QED BY <1>4, <6>1
        <5> QED BY <1>5, <5>1, <5>2
      <4>3. m.base \in Nat
        BY <1>4b, <3>1
      <4>4. m.tick > m.base + Ring => m.base + Ring \in 1 .. tick
        BY <1>4, <4>1, <4>3, SyncAssumption
      <4> QED BY <4>1, <4>2, <4>4 DEF Near
    <3>2. CASE m \notin shots
      <4>1. Broadcast
        BY <1>5, <2>3, <3>2 DEF Quiet
      <4>2. PICK v \in Views : m = Coded(tick + 1, v)
        BY <2>3, <3>2, <4>1 DEF Broadcast
      <4>3. CASE m.base = 0
        BY <4>3 DEF Near, Acked
      <4>4. CASE m.base # 0
        BY <1>1, <4>1, <4>2, <4>4, CodedIsNear DEF Supplied, AcksAreOld, Near
      <4> QED BY <4>3, <4>4
    <3> QED BY <3>1, <3>2
  <2>4. AcksAreOld'
    <3>1. \A n \in DOMAIN inputs : inputs[n] <= tick + 1
      BY <1>4, <1>4a DEF Supplied, AcksAreOld
    <3> QED BY <2>1, <2>2, <2>3, <3>1 DEF Supplied, AcksAreOld
  <2> QED BY <1>1, <2>1, <2>2, <2>3, <2>4 DEF Supplied
<1>6. CASE HandleInput
  <2>1. UNCHANGED <<tick, accum, ring, sent, shots, order, seen, store>>
    BY <1>6 DEF HandleInput, clientVars
  <2>2. \A n \in DOMAIN inputs' : \E k \in DOMAIN inputs : inputs'[n] = inputs[k]
    BY <1>4, <1>6 DEF HandleInput
  <2>3. 1 \in DOMAIN inputs /\ Head(inputs) = inputs[1] /\ inputs[1] \in Nat /\ inputs[1] <= tick
    <3>1. inputs # <<>>
      BY <1>6 DEF HandleInput
    <3>2. 1 \in DOMAIN inputs /\ Head(inputs) = inputs[1]
      BY <1>4, <3>1
    <3> QED BY <1>4a, <3>2 DEF Supplied, AcksAreOld
  <2>4. ackTick' \in {inputs[1], ackTick}
    BY <1>4, <1>6, <2>3 DEF HandleInput, Acknowledged
  <2>5. AcksAreOld'
    BY <1>3, <1>4, <2>1, <2>2, <2>3, <2>4 DEF Supplied, AcksAreOld
  <2> QED BY <1>1, <1>2, <1>3, <1>4, <2>1, <2>5 DEF Supplied
<1>7. CASE SendInput
  <2>1. UNCHANGED <<tick, accum, ring, sent, ackTick, shots, order, seen, store>>
    BY <1>7 DEF SendInput, serverVars, clientVars
  <2>2. \A n \in DOMAIN inputs' : inputs'[n] = seen \/ (n \in DOMAIN inputs /\ inputs'[n] = inputs[n])
    BY <1>4, <1>7 DEF SendInput
  <2>3. AcksAreOld'
    BY <1>3, <1>4, <2>1, <2>2 DEF Supplied, AcksAreOld, InOrder
  <2> QED BY <1>1, <1>2, <1>3, <1>4, <2>1, <2>3 DEF Supplied
<1>8. CASE DropInput
  <2>1. UNCHANGED <<tick, accum, ring, sent, ackTick, shots, order, seen, store>>
    BY <1>8 DEF DropInput, serverVars, clientVars
  <2>2. \A n \in DOMAIN inputs' : \E k \in DOMAIN inputs : inputs'[n] = inputs[k]
    BY <1>4, <1>8 DEF DropInput
  <2>3. AcksAreOld'
    BY <1>3, <1>4, <2>1, <2>2 DEF Supplied, AcksAreOld
  <2> QED BY <1>1, <1>2, <1>3, <1>4, <2>1, <2>3 DEF Supplied
<1>9. ASSUME LoseSnapshot \/ (\E m \in shots : Skip(m)) \/ UNCHANGED vars PROVE Supplied'
  <2>1. UNCHANGED <<tick, accum, ring, sent, ackTick, inputs, order, seen, store>> /\ shots' \subseteq shots
    BY <1>9 DEF LoseSnapshot, Skip, vars, serverVars, clientVars
  <2>2. AcksAreOld'
    BY <1>3, <1>4, <2>1 DEF Supplied, AcksAreOld
  <2> QED BY <1>1, <1>2, <1>3, <1>4, <2>1, <2>2 DEF Supplied
<1>10. ASSUME NEW m \in shots, Apply(m) PROVE Supplied'
  <2>1. UNCHANGED <<tick, accum, ring, sent, ackTick, inputs>> /\ shots' \subseteq shots /\ seen' = m.tick
    BY <1>10 DEF Apply, serverVars
  <2>2. InOrder' /\ Acked(m.tick)' /\ \A t \in Nat : Acked(t) => Acked(t)'
    BY <1>1, <1>10, ApplyKeepsAcks DEF Supplied
  <2>3. /\ ackTick \in Nat /\ \A n \in DOMAIN inputs : inputs[n] \in Nat
        /\ \A n \in shots : n.base \in Nat
    BY <1>1, <1>4a, <1>4b DEF TypeOK
  <2>4. AcksAreOld'
    BY <2>1, <2>2, <2>3 DEF Supplied, AcksAreOld
  <2> QED BY <1>1, <1>2, <2>1, <2>2, <2>4 DEF Supplied
<1> QED BY <1>5, <1>6, <1>7, <1>8, <1>9, <1>10 DEF Next

\* Fewer snapshots lie between a base and its delta than the client keeps.
LEMMA SuppliedSuffices ==
  ASSUME Supplied, Keep >= 2 * Ring - 1
  PROVE  BasesSuffice
<1> SUFFICES ASSUME NEW m \in shots, ~Stale(m), m.base # 0, m.base \notin DOMAIN store
             PROVE  FALSE
  BY DEF BasesSuffice, Known
<1>1. /\ Len(order) = Keep /\ \A i \in 1 .. Keep : m.base < order[i]
      /\ order \in Seq(Ticks) /\ ToSet(order) = DOMAIN store
  BY DEF Supplied, AcksAreOld, Acked, Dropped, TypeOK
<1>2. /\ m.base \in Nat /\ m.tick \in Nat /\ Ring \in Nat \ {0} /\ Keep \in Nat \ {0} /\ seen \in Nat
      /\ \A i \in 1 .. Keep : order[i] \in Nat /\ order[i] <= seen
  <2>1. m \in Messages /\ seen \in Nat
    BY DEF Supplied, TypeOK
  <2>2. m.base \in Nat /\ m.tick \in Nat
    BY <2>1 DEF Messages, Ticks
  <2>3. \A i \in 1 .. Keep : order[i] \in Nat
    BY <1>1, SyncAssumption DEF Ticks
  <2>4. \A i \in 1 .. Keep : order[i] <= seen
    BY <1>1 DEF Supplied, InOrder
  <2> QED BY <2>1, <2>2, <2>3, <2>4, SyncAssumption
<1>2a. m.base + 1 \in Int /\ m.tick - 1 \in Int /\ 1 \in Int /\ Keep \in Int
  BY <1>2
<1>3. \A i \in 1 .. Keep : order[i] < m.tick
  <2>1. order[1] # 0
    BY <1>1, <1>2
  <2>2. seen # 0
    BY <1>2, <2>1
  <2> QED BY <1>2, <2>2 DEF Stale
<1>4. \A i \in 1 .. Keep : order[i] \in DOMAIN sent
  BY <1>1 DEF ToSet, Supplied, Faithful, StoreHoldsSent
<1>5. /\ m.tick <= m.base + 2 * Ring
      /\ m.tick > m.base + Ring => m.base + Ring \notin DOMAIN sent
  BY DEF Supplied, Near
<1> DEFINE between == (m.base + 1 .. m.tick - 1) \ {t \in {m.base + Ring} : m.tick > m.base + Ring}
<1>6. IsFiniteSet(between) /\ Cardinality(between) < Keep
  <2> DEFINE all == m.base + 1 .. m.tick - 1
  <2>1. /\ IsFiniteSet(all)
        /\ Cardinality(all) = IF m.base + 1 > m.tick - 1 THEN 0 ELSE m.tick - 1 - m.base
    <3>1. /\ IsFiniteSet(all)
          /\ Cardinality(all) = IF m.base + 1 > m.tick - 1 THEN 0 ELSE (m.tick - 1) - (m.base + 1) + 1
      BY <1>2a, FS_Interval
    <3> HIDE DEF all
    <3> QED BY <1>2, <3>1
  <2>2. CASE m.tick > m.base + Ring
    <3>1. between = all \ {m.base + Ring} /\ m.base + Ring \in all
      BY <1>2, <2>2
    <3>2. IsFiniteSet(between) /\ Cardinality(between) = Cardinality(all) - 1
      BY <2>1, <3>1, FS_RemoveElement
    <3> HIDE DEF between, all
    <3> QED BY <1>2, <1>5, <2>1, <2>2, <3>2
  <2>3. CASE ~(m.tick > m.base + Ring)
    <3>1. between = all
      BY <2>3
    <3> HIDE DEF between, all
    <3> QED BY <1>2, <2>1, <2>3, <3>1
  <2> QED BY <2>2, <2>3
<1>7. \A i \in 1 .. Keep : order[i] \in between
  BY <1>1, <1>2, <1>3, <1>4, <1>5
<1> HIDE DEF between
<1>8. order \in [1 .. Keep -> between]
  <2>1. DOMAIN order = 1 .. Keep /\ order = [i \in 1 .. Keep |-> order[i]]
    BY <1>1, <1>2
  <2> QED BY <1>7, <2>1
<1>9. IsFiniteSet(1 .. Keep) /\ Cardinality(1 .. Keep) = Keep
  <2>1. IsFiniteSet(1 .. Keep) /\ Cardinality(1 .. Keep) = IF 1 > Keep THEN 0 ELSE Keep - 1 + 1
    BY <1>2a, FS_Interval
  <2> QED BY <1>2, <2>1
<1>10. PICK i, j \in 1 .. Keep : i # j /\ order[i] = order[j]
  BY <1>6, <1>8, <1>9, FS_PigeonHole
<1> QED BY <1>1, <1>2, <1>10 DEF Supplied, InOrder

\* For all views, losses and delays, and for every ring, store and rate of
\* which the two assumptions are true (MCDeltaSync evaluates them for the
\* code's): a delta the client has a use for never lacks its base.
THEOREM BasesAreKept ==
  ASSUME TurnsOver(Ring, SnapshotRate, TickRate), Keep >= 2 * Ring - 1
  PROVE  Spec => []BasesSuffice
<1>1. Supplied => BasesSuffice
  BY SuppliedSuffices
<1>2. Supplied /\ [Next]_vars => Supplied'
  BY NextSupplied
<1> QED BY <1>1, <1>2, InitSupplied, PTL DEF Spec
=============================================================================
