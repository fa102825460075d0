--------------------------- MODULE SessionProofs ---------------------------
(***************************************************************************)
(* Proofs about Session, for every capacity, transport and bound.          *)
(***************************************************************************)
EXTENDS Session, TLAPS

-----------------------------------------------------------------------------
(***************************************************************************)
(* Types.  Every action of the room leaves the pump alone and the other    *)
(* way round, so each is proved with the conjuncts it can disturb.         *)
(***************************************************************************)
LEMMA TakeFrom ==
  ASSUME NEW S, NEW s \in Seq(S), s # <<>>
  PROVE  /\ Head(s) \in S /\ Tail(s) \in Seq(S)
         /\ Len(s) \in Nat \ {0} /\ Len(Tail(s)) = Len(s) - 1
OBVIOUS

LEMMA AddTo ==
  ASSUME NEW S, NEW s \in Seq(S), NEW e \in S
  PROVE  /\ Append(s, e) \in Seq(S) /\ Append(s, e) # <<>>
         /\ Len(s) \in Nat /\ Len(Append(s, e)) = Len(s) + 1
         /\ Append(s, e)[Len(s) + 1] = e
OBVIOUS

ReliableMessage == [kind : {"reliable"}, n : Nat]
SnapshotMessage == [kind : {"snapshot"}, n : Nat]
ReliableQueue == Seq(ReliableMessage)
SnapshotQueue == Seq(SnapshotMessage)

LEMMA Queues ==
  ASSUME TypeOK
  PROVE  /\ reliable \in Seq(ReliableMessage) /\ Len(reliable) <= ReliableSize
         /\ snapshots \in Seq(SnapshotMessage) /\ Len(snapshots) <= SessionQueue
         /\ ReliableMessage \subseteq Message /\ SnapshotMessage \subseteq Message
BY DEF TypeOK, ReliableMessage, SnapshotMessage, Message, Kinds

LEMMA InitTypeOK == Init => TypeOK
<1> SUFFICES ASSUME Init PROVE TypeOK
  OBVIOUS
<1>1. Reliable(1) \in ReliableMessage /\ Nothing \in Message
  BY DEF Reliable, Nothing, ReliableMessage, Message, Kinds
<1>2. reliable \in ReliableQueue /\ Len(reliable) = 1
  BY <1>1 DEF Init, ReliableQueue
<1>3. snapshots \in SnapshotQueue /\ Len(snapshots) = 0 /\ game \in Seq(Message)
  BY DEF Init, SnapshotQueue
<1>4. accepted \in 1 .. MaxReliable /\ offered \in 0 .. MaxSnapshots
        /\ Len(reliable) <= ReliableSize /\ Len(snapshots) <= SessionQueue
  BY <1>2, <1>3, SessionAssumption DEF Init
<1>5. hand \in Message /\ state \subseteq Message /\ live \subseteq Kinds
  BY <1>1 DEF Init
<1> QED BY <1>2, <1>3, <1>4, <1>5
           DEF Init, TypeOK, ReliableQueue, SnapshotQueue, ReliableMessage, SnapshotMessage

LEMMA TakesTypeOK ==
  ASSUME TypeOK, TakeReliable \/ TakeSnapshot
  PROVE  /\ reliable' \in ReliableQueue /\ Len(reliable') <= ReliableSize
         /\ snapshots' \in SnapshotQueue /\ Len(snapshots') <= SessionQueue
         /\ hand' \in Message /\ taken' \in Nat /\ passed' \in Nat
         /\ pump' = "write" /\ live' = live
<1>1. CASE TakeReliable
  <2>1. Head(reliable) \in ReliableMessage /\ Tail(reliable) \in ReliableQueue
          /\ Len(reliable) \in Nat /\ Len(Tail(reliable)) = Len(reliable) - 1
    BY <1>1, Queues, TakeFrom DEF TakeReliable, ReliableQueue
  <2>2. taken' \in Nat /\ passed' \in Nat
    BY <1>1 DEF TakeReliable, TypeOK
  <2> QED BY <1>1, <2>1, <2>2, Queues, SessionAssumption DEF TakeReliable, SnapshotQueue
<1>2. CASE TakeSnapshot
  <2>1. Head(snapshots) \in SnapshotMessage /\ Tail(snapshots) \in SnapshotQueue
          /\ Len(snapshots) \in Nat /\ Len(Tail(snapshots)) = Len(snapshots) - 1
    BY <1>2, Queues, TakeFrom DEF TakeSnapshot, SnapshotQueue
  <2>2. Head(snapshots).n \in Nat
    BY <2>1 DEF SnapshotMessage
  <2>3. taken' \in Nat /\ passed' \in Nat
    BY <1>2, <2>2 DEF TakeSnapshot, TypeOK
  <2> QED BY <1>2, <2>1, <2>3, Queues, SessionAssumption DEF TakeSnapshot, ReliableQueue
<1> QED BY <1>1, <1>2

LEMMA RoomTypeOK == ASSUME TypeOK, RoomNext PROVE TypeOK'
<1>1. CASE EnqueueReliable
  <2>1. Reliable(accepted + 1) \in ReliableMessage /\ accepted' \in 1 .. MaxReliable
    BY <1>1, SessionAssumption DEF EnqueueReliable, TypeOK, Reliable, ReliableMessage
  <2>2. reliable' \in ReliableQueue /\ Len(reliable') <= ReliableSize
    BY <1>1, <2>1, Queues, AddTo, SessionAssumption DEF EnqueueReliable, ReliableQueue
  <2> QED BY <1>1, <2>1, <2>2 DEF EnqueueReliable, TypeOK, ReliableQueue, ReliableMessage,
                                  pumpVars, netVars, clientVars
<1>2. CASE RefuseReliable
  BY <1>2 DEF RefuseReliable, TypeOK, queueVars, pumpVars, netVars, clientVars
<1>3. Snapshot(offered) \in SnapshotMessage /\ Snapshot(offered + 1) \in SnapshotMessage
  BY SessionAssumption DEF TypeOK, Snapshot, SnapshotMessage
<1>4. ASSUME snapshots' \in SnapshotQueue, Len(snapshots') <= SessionQueue,
             room' \in {"idle", "evict", "retry"}, offered' \in 0 .. MaxSnapshots, backlog' \in Nat,
             UNCHANGED <<accepted, kick, reliable, closed, pumpVars, cancelled, netVars, clientVars>>
      PROVE  TypeOK'
  BY <1>4 DEF TypeOK, SnapshotQueue, SnapshotMessage, pumpVars, netVars, clientVars
<1>5. CASE EnqueueSnapshot
  <2>1. snapshots' \in SnapshotQueue /\ Len(snapshots') <= SessionQueue
    <3>1. \/ /\ Len(snapshots) < SessionQueue
             /\ snapshots' = Append(snapshots, Snapshot(offered + 1))
          \/ UNCHANGED snapshots
      BY <1>5 DEF EnqueueSnapshot
    <3>2. snapshots \in Seq(SnapshotMessage) /\ Len(snapshots) <= SessionQueue
      BY Queues
    <3>3. Len(snapshots) \in Nat /\ Append(snapshots, Snapshot(offered + 1)) \in Seq(SnapshotMessage)
            /\ Len(Append(snapshots, Snapshot(offered + 1))) = Len(snapshots) + 1
      BY <3>2, <1>3, AddTo
    <3> QED BY <3>1, <3>2, <3>3, SessionAssumption DEF SnapshotQueue
  <2>2. offered' \in 0 .. MaxSnapshots /\ backlog' \in Nat /\ room' \in {"idle", "evict"}
    BY <1>5, SessionAssumption DEF EnqueueSnapshot, TypeOK
  <2> QED BY <1>5, <2>1, <2>2, <1>4 DEF EnqueueSnapshot
<1>6. CASE Evict
  <2>1. snapshots' \in SnapshotQueue /\ Len(snapshots') <= SessionQueue
    <3>1. snapshots \in Seq(SnapshotMessage) /\ Len(snapshots) <= SessionQueue
      BY Queues
    <3>2. CASE snapshots # <<>> /\ snapshots' = Tail(snapshots)
      BY <3>1, <3>2, TakeFrom, SessionAssumption DEF SnapshotQueue
    <3>3. CASE UNCHANGED snapshots
      BY <3>1, <3>3 DEF SnapshotQueue
    <3> QED BY <1>6, <3>2, <3>3 DEF Evict
  <2> QED BY <1>6, <2>1, <1>4 DEF Evict, TypeOK
<1>7. CASE Retry
  <2>1. snapshots' \in SnapshotQueue /\ Len(snapshots') <= SessionQueue
    BY <1>7, <1>3, Queues, AddTo, SessionAssumption DEF Retry, SnapshotQueue
  <2> QED BY <1>7, <2>1, <1>4 DEF Retry, TypeOK
<1>8. CASE Close
  BY <1>8 DEF Close, TypeOK, roomVars, pumpVars, netVars, clientVars
<1> QED BY <1>1, <1>2, <1>5, <1>6, <1>7, <1>8 DEF RoomNext

LEMMA PumpTypeOK == ASSUME TypeOK, PumpNext PROVE TypeOK'
<1>1. ASSUME UNCHANGED <<reliable, snapshots, hand, taken, passed>>, live' \subseteq Kinds,
             pump' \in {"poll", "wait", "write", "done"}, drained' \in BOOLEAN,
             UNCHANGED <<roomVars, closed, cancelled, netVars, clientVars>>
      PROVE  TypeOK'
  BY <1>1 DEF TypeOK, roomVars, netVars, clientVars
<1>2. ASSUME TakeReliable \/ TakeSnapshot,
             UNCHANGED <<roomVars, closed, drained, cancelled, netVars, clientVars>>
      PROVE  TypeOK'
  BY <1>2, TakesTypeOK DEF TypeOK, roomVars, netVars, clientVars, ReliableQueue, SnapshotQueue,
                           ReliableMessage, SnapshotMessage
<1>3. CASE Poll
  BY <1>3, <1>1, <1>2 DEF Poll, Forget, TypeOK
<1>4. CASE Wait
  BY <1>4, <1>1, <1>2 DEF Wait, Forget, TypeOK
<1>5. CASE PumpCancelled
  BY <1>5, <1>1 DEF PumpCancelled, TypeOK, queueVars
<1>6. CASE PumpDrained
  BY <1>6, <1>1 DEF PumpDrained, TypeOK, queueVars
<1>7. CASE Write
  <2>1. game' \in Seq(Message) /\ state' \subseteq Message
    <3>1. hand \in Message /\ game \in Seq(Message) /\ state \subseteq Message
      BY DEF TypeOK
    <3> QED BY <1>7, <3>1, AddTo DEF Write
  <2> QED BY <1>7, <2>1 DEF Write, TypeOK, roomVars, queueVars, clientVars
<1>8. CASE WriteFails
  BY <1>8, <1>1 DEF WriteFails, TypeOK, queueVars
<1> QED BY <1>3, <1>4, <1>5, <1>6, <1>7, <1>8 DEF PumpNext

LEMMA ReceiveTypeOK ==
  ASSUME TypeOK, NEW m \in Message, Receive(m)
  PROVE  client' \in {"attach", "playing", "failed"} /\ heard' \in Nat /\ shown' \in Nat
BY DEF Receive, TypeOK, Message

LEMMA NextTypeOK == TypeOK /\ [Next]_vars => TypeOK'
<1> SUFFICES ASSUME TypeOK, [Next]_vars PROVE TypeOK'
  OBVIOUS
<1>1. CASE ReceiveOrdered
  <2>1. Head(game) \in Message /\ Tail(game) \in Seq(Message)
    BY <1>1 DEF ReceiveOrdered, TypeOK
  <2>2. client' \in {"attach", "playing", "failed"} /\ heard' \in Nat /\ shown' \in Nat
    BY <1>1, <2>1, ReceiveTypeOK DEF ReceiveOrdered
  <2> QED BY <1>1, <2>1, <2>2 DEF ReceiveOrdered, TypeOK, roomVars, queueVars, pumpVars
<1>2. CASE ReceiveUnordered
  <2>1. PICK m \in state : Receive(m) /\ state' = state \ {m}
    BY <1>2 DEF ReceiveUnordered
  <2>2. client' \in {"attach", "playing", "failed"} /\ heard' \in Nat /\ shown' \in Nat
    BY <2>1, ReceiveTypeOK DEF TypeOK
  <2> QED BY <1>2, <2>1, <2>2 DEF ReceiveUnordered, TypeOK, roomVars, queueVars, pumpVars
<1>3. CASE LoseUnordered
  BY <1>3 DEF LoseUnordered, TypeOK, roomVars, queueVars, pumpVars, clientVars
<1>4. CASE Cancel
  BY <1>4 DEF Cancel, TypeOK, roomVars, queueVars, pumpVars, netVars, clientVars
<1>5. CASE UNCHANGED vars
  BY <1>5 DEF TypeOK, vars, roomVars, queueVars, pumpVars, netVars, clientVars
<1> QED BY <1>1, <1>2, <1>3, <1>4, <1>5, RoomTypeOK, PumpTypeOK DEF Next, ClientNext

\* The queues never outgrow their capacities, whatever the two goroutines do
\* between the selects of the other (newSession, enqueueSnapshot, writePump).
THEOREM SessionTypeCorrect == Spec => []TypeOK
BY InitTypeOK, NextTypeOK, PTL DEF Spec

-----------------------------------------------------------------------------
(***************************************************************************)
(* Priority.  A snapshot that overtook a reliable message leaves the pump  *)
(* anywhere but in its second select, and the message still in the queue;  *)
(* and the pump gives the reliable queue up only when it is closed and     *)
(* empty.                                                                  *)
(***************************************************************************)
Priority ==
  /\ passed \in {0, 1}
  /\ passed = 1 => pump # "wait" /\ reliable # <<>>
  /\ "reliable" \notin live => closed /\ reliable = <<>>

LEMMA InitPriority == Init => Priority
BY DEF Init, Priority, Kinds

LEMMA NextPriority == TypeOK /\ Priority /\ [Next]_vars => Priority'
<1> SUFFICES ASSUME TypeOK, Priority, [Next]_vars PROVE Priority'
  OBVIOUS
<1>1. CASE EnqueueReliable
  <2>1. reliable' # <<>>
    BY <1>1 DEF EnqueueReliable, TypeOK
  <2> QED BY <1>1, <2>1 DEF EnqueueReliable, Priority, pumpVars
<1>2. ASSUME UNCHANGED <<reliable, pumpVars>>, closed => closed' PROVE Priority'
  BY <1>2 DEF Priority, pumpVars
<1>3. CASE RefuseReliable \/ EnqueueSnapshot \/ Evict \/ Retry \/ Close
  BY <1>3, <1>2 DEF RefuseReliable, EnqueueSnapshot, Evict, Retry, Close, queueVars
<1>4. ASSUME TakeReliable, UNCHANGED closed PROVE Priority'
  BY <1>4 DEF TakeReliable, Priority
<1>5. ASSUME pump = "wait", TakeSnapshot, UNCHANGED closed PROVE Priority'
  BY <1>5 DEF TakeSnapshot, Priority
<1>6. ASSUME NEW k \in Kinds, Forget(k), UNCHANGED closed PROVE Priority'
  BY <1>6 DEF Forget, Queue, Priority, Kinds
<1>7. CASE Poll
  <2>1. CASE TakeReliable \/ Forget("reliable")
    BY <2>1, <1>7, <1>4, <1>6 DEF Poll, Kinds
  <2>2. CASE /\ ~("reliable" \in live /\ (reliable # <<>> \/ closed))
             /\ pump' = "wait"
             /\ UNCHANGED <<reliable, snapshots, live, hand, taken, passed>>
    BY <1>7, <2>2 DEF Poll, Priority
  <2> QED BY <1>7, <2>1, <2>2 DEF Poll
<1>8. CASE Wait
  BY <1>8, <1>4, <1>5, <1>6 DEF Wait
<1>9. CASE PumpCancelled \/ PumpDrained \/ Write \/ WriteFails
  BY <1>9 DEF PumpCancelled, PumpDrained, Write, WriteFails, queueVars, Priority
<1>10. CASE ClientNext \/ Cancel \/ UNCHANGED vars
  BY <1>10, <1>2 DEF ClientNext, ReceiveOrdered, ReceiveUnordered, LoseUnordered, Cancel, vars,
                     queueVars
<1> QED BY <1>1, <1>3, <1>7, <1>8, <1>9, <1>10 DEF Next, RoomNext, PumpNext

\* A reliable message never waits for more than one snapshot (writePump's two
\* selects).
THEOREM ReliableFirst == Spec => []OvertakenOnce
<1>1. Init => TypeOK /\ Priority
  BY InitTypeOK, InitPriority
<1>2. TypeOK /\ Priority /\ [Next]_vars => (TypeOK /\ Priority)'
  BY NextTypeOK, NextPriority
<1>3. Priority => OvertakenOnce
  BY DEF Priority, OvertakenOnce
<1> QED BY <1>1, <1>2, <1>3, PTL DEF Spec

-----------------------------------------------------------------------------
(***************************************************************************)
(* Freshness.  NewestSurvives is inductive with the types: the pump takes  *)
(* the newest snapshot only when it is the only one.                       *)
(***************************************************************************)
LEMMA InitNewest == Init => NewestSurvives
BY DEF Init, NewestSurvives

LEMMA TakeNewest ==
  ASSUME TypeOK, NewestSurvives, TakeSnapshot, UNCHANGED <<room, offered>>
  PROVE  NewestSurvives'
<1>1. snapshots # <<>> /\ snapshots' = Tail(snapshots) /\ taken' = Head(snapshots).n
  BY DEF TakeSnapshot
<1>2. Len(snapshots) \in Nat \ {0} /\ Len(snapshots') = Len(snapshots) - 1
        /\ Len(snapshots) <= SessionQueue
  BY <1>1 DEF TypeOK
<1>3. ASSUME room = "idle", snapshots' = <<>> PROVE taken' = offered'
  <2>1. Len(snapshots) = 1
    BY <1>2, <1>3
  <2>2. Last(snapshots) = Head(snapshots)
    BY <2>1 DEF Last
  <2> QED BY <1>1, <1>3, <2>2 DEF NewestSurvives, Snapshot
<1>4. ASSUME room = "idle", snapshots' # <<>> PROVE Last(snapshots') = Snapshot(offered')
  <2>1. snapshots \in SnapshotQueue /\ snapshots' \in SnapshotQueue
    BY <1>1, Queues, TakeFrom DEF SnapshotQueue
  <2>2. Len(snapshots') \in Nat \ {0}
    BY <2>1, <1>4 DEF SnapshotQueue
  <2>3. snapshots'[Len(snapshots')] = snapshots[Len(snapshots)]
    BY <1>1, <1>2, <2>1, <2>2 DEF SnapshotQueue
  <2>4. Last(snapshots) = Snapshot(offered)
    BY <1>1, <1>4 DEF NewestSurvives
  <2> QED BY <2>3, <2>4 DEF Last
<1> QED BY <1>1, <1>2, <1>3, <1>4, SessionAssumption DEF NewestSurvives

LEMMA NextNewest == TypeOK /\ NewestSurvives /\ [Next]_vars => NewestSurvives'
<1> SUFFICES ASSUME TypeOK, NewestSurvives, [Next]_vars PROVE NewestSurvives'
  OBVIOUS
<1>1. ASSUME UNCHANGED <<room, offered, snapshots, taken>> PROVE NewestSurvives'
  BY <1>1 DEF NewestSurvives
<1>2. CASE EnqueueReliable \/ RefuseReliable \/ Close
  BY <1>2, <1>1 DEF EnqueueReliable, RefuseReliable, Close, roomVars, queueVars, pumpVars
<1>3. ASSUME NEW n, snapshots' = Append(snapshots, Snapshot(n))
      PROVE  snapshots' # <<>> /\ Last(snapshots') = Snapshot(n)
  <2>1. snapshots \in Seq(SnapshotMessage \cup {Snapshot(n)})
    BY Queues
  <2>2. snapshots' # <<>> /\ Len(snapshots') = Len(snapshots) + 1
          /\ snapshots'[Len(snapshots) + 1] = Snapshot(n)
    BY <1>3, <2>1, AddTo
  <2> QED BY <2>2 DEF Last
<1>4. CASE EnqueueSnapshot
  <2>1. CASE /\ Len(snapshots) < SessionQueue
             /\ snapshots' = Append(snapshots, Snapshot(offered + 1))
             /\ backlog' = 0
             /\ UNCHANGED room
    BY <1>4, <2>1, <1>3 DEF EnqueueSnapshot, NewestSurvives
  <2>2. CASE room' = "evict"
    BY <2>2 DEF NewestSurvives
  <2> QED BY <1>4, <2>1, <2>2 DEF EnqueueSnapshot
<1>5. CASE Evict
  <2>1. Len(snapshots') < SessionQueue /\ room' = "retry"
    BY <1>5, SessionAssumption DEF Evict, TypeOK
  <2> QED BY <2>1 DEF NewestSurvives
<1>6. CASE Retry
  <2>1. snapshots' = Append(snapshots, Snapshot(offered)) /\ room' = "idle" /\ offered' = offered
    BY <1>6 DEF Retry, NewestSurvives
  <2> QED BY <2>1, <1>3 DEF NewestSurvives
<1>7. CASE Poll
  BY <1>7, <1>1 DEF Poll, TakeReliable, Forget, roomVars
<1>8. CASE Wait
  BY <1>8, <1>1, TakeNewest DEF Wait, TakeReliable, Forget, roomVars
<1>9. CASE PumpCancelled \/ PumpDrained \/ Write \/ WriteFails
  BY <1>9, <1>1 DEF PumpCancelled, PumpDrained, Write, WriteFails, roomVars, queueVars
<1>10. CASE ClientNext \/ Cancel \/ UNCHANGED vars
  BY <1>10, <1>1 DEF ClientNext, ReceiveOrdered, ReceiveUnordered, LoseUnordered, Cancel, vars,
                     roomVars, queueVars, pumpVars
<1> QED BY <1>2, <1>4, <1>5, <1>6, <1>7, <1>8, <1>9, <1>10 DEF Next, RoomNext, PumpNext

\* The queue of snapshots only ever loses old ones, and the retry of
\* enqueueSnapshot always finds the place its eviction made.
THEOREM NewestIsKept == Spec => []NewestSurvives
BY InitTypeOK, NextTypeOK, InitNewest, NextNewest, PTL DEF Spec

-----------------------------------------------------------------------------
(***************************************************************************)
(* Order.  The reliable queue holds the numbers up to accepted; the pump   *)
(* took all up to First, and wrote all up to some w, the last of them or   *)
(* the one before it; the ordered channel holds those after heard up to w, *)
(* each once and in order, among snapshots.                                *)
(***************************************************************************)
First == accepted - Len(reliable)

InOrder(w) ==
  /\ heard <= w
  /\ \A i \in DOMAIN game :
       game[i].kind = "reliable" => heard < game[i].n /\ game[i].n <= w
  /\ \A i, j \in DOMAIN game :
       i < j /\ game[i].kind = "reliable" /\ game[j].kind = "reliable" => game[i].n < game[j].n
  /\ \A n \in Nat : heard < n /\ n <= w => \E i \in DOMAIN game : game[i] = Reliable(n)

Written(w) ==
  /\ w \in {First - 1, First}
  /\ pump \in {"poll", "wait"} \/ drained => w = First
  /\ pump = "write" =>
       IF hand.kind = "reliable" THEN w = First - 1 /\ hand.n = First ELSE w = First

Numbered ==
  /\ \A i \in DOMAIN reliable : reliable[i] = Reliable(First + i)
  /\ drained => pump = "done" /\ "reliable" \notin live
  /\ \A m \in state : m.kind = "snapshot"
  /\ \E w \in Nat : InOrder(w) /\ Written(w)

LEMMA FirstIsInt == ASSUME TypeOK PROVE First \in Int /\ Len(reliable) \in Nat /\ accepted \in Nat
BY SessionAssumption DEF TypeOK, First

LEMMA InGame ==
  ASSUME TypeOK, NEW i \in DOMAIN game
  PROVE  i \in Nat \ {0} /\ game[i] \in Message /\ game[i].n \in Nat
<1>1. game \in Seq(Message)
  BY DEF TypeOK
<1>2. i \in Nat \ {0} /\ game[i] \in Message
  BY <1>1
<1> QED BY <1>2 DEF Message

LEMMA InitNumbered == Init => Numbered
<1> SUFFICES ASSUME Init PROVE Numbered
  OBVIOUS
<1>1. reliable = <<Reliable(1)>> /\ Len(reliable) = 1 /\ First = 0
  BY DEF Init, First
<1>2. InOrder(0) /\ Written(0)
  BY <1>1 DEF Init, InOrder, Written
<1> QED BY <1>1, <1>2 DEF Init, Numbered

\* What the pump does with the same queue, and the channel as it was.
LEMMA SamePlace ==
  ASSUME TypeOK, Numbered, UNCHANGED <<accepted, reliable, game, heard>>, state' \subseteq state,
         drained' => pump' = "done" /\ "reliable" \notin live',
         \A w \in Nat : Written(w) => Written(w)'
  PROVE  Numbered'
<1>1. PICK w \in Nat : InOrder(w) /\ Written(w)
  BY DEF Numbered
<1>2. InOrder(w)' /\ Written(w)'
  BY <1>1 DEF InOrder
<1> QED BY <1>1, <1>2 DEF Numbered, First

LEMMA EnqueueNumbered == ASSUME TypeOK, Numbered, EnqueueReliable PROVE Numbered'
<1>1. /\ reliable' = Append(reliable, Reliable(accepted + 1)) /\ accepted' = accepted + 1
      /\ UNCHANGED <<pump, live, hand, drained, game, state, heard>>
  BY DEF EnqueueReliable, pumpVars, netVars, clientVars
<1>2. reliable \in Seq([kind : {"reliable"}, n : Nat]) /\ Len(reliable) \in Nat /\ accepted \in Nat
  BY FirstIsInt DEF TypeOK
<1>3. Len(reliable') = Len(reliable) + 1 /\ First' = First
  <2>1. Reliable(accepted + 1) \in [kind : {"reliable"}, n : Nat]
    BY <1>2 DEF Reliable
  <2>2. Len(reliable') = Len(reliable) + 1
    BY <1>1, <1>2, <2>1, AddTo
  <2> QED BY <1>1, <1>2, <2>2 DEF First
<1>4. ASSUME NEW i \in DOMAIN reliable' PROVE reliable'[i] = Reliable(First + i)
  <2>1. i \in 1 .. Len(reliable) + 1
    BY <1>1, <1>2, <1>3 DEF Reliable
  <2>2. CASE i = Len(reliable) + 1
    BY <1>1, <1>2, <2>2 DEF First, Reliable
  <2>3. CASE i \in DOMAIN reliable
    BY <1>1, <1>2, <2>3 DEF Numbered
  <2> QED BY <1>2, <2>1, <2>2, <2>3
<1>5. PICK w \in Nat : InOrder(w) /\ Written(w)
  BY DEF Numbered
<1>6. InOrder(w)' /\ Written(w)'
  BY <1>1, <1>3, <1>5 DEF InOrder, Written
<1> QED BY <1>1, <1>3, <1>4, <1>6 DEF Numbered

LEMMA TakeNumbered ==
  ASSUME TypeOK, Numbered, TakeReliable, pump \in {"poll", "wait"},
         UNCHANGED <<accepted, game, state, heard, drained>>
  PROVE  Numbered'
<1>1. /\ reliable # <<>> /\ hand' = Head(reliable) /\ reliable' = Tail(reliable)
      /\ pump' = "write" /\ UNCHANGED live
  BY DEF TakeReliable
<1>2. reliable \in Seq([kind : {"reliable"}, n : Nat]) /\ Len(reliable) \in Nat /\ accepted \in Nat
  BY FirstIsInt DEF TypeOK
<1>3. Len(reliable) > 0 /\ Len(reliable') = Len(reliable) - 1 /\ First' = First + 1
  BY <1>1, <1>2 DEF First
<1>4. hand' = Reliable(First + 1)
  BY <1>1, <1>2, <1>3 DEF Numbered
<1>5. ASSUME NEW i \in DOMAIN reliable' PROVE reliable'[i] = Reliable(First' + i)
  <2>1. i \in 1 .. Len(reliable) - 1 /\ reliable'[i] = reliable[i + 1] /\ i + 1 \in DOMAIN reliable
    BY <1>1, <1>2, <1>3
  <2>2. First + (i + 1) = First' + i
    BY <1>3, <2>1, FirstIsInt
  <2> QED BY <2>1, <2>2 DEF Numbered
<1>6. PICK w \in Nat : InOrder(w) /\ Written(w)
  BY DEF Numbered
<1>7. w = First /\ ~drained
  BY <1>6 DEF Written, Numbered
<1>8. InOrder(w)' /\ Written(w)'
  BY <1>1, <1>3, <1>4, <1>6, <1>7, FirstIsInt DEF InOrder, Written, Reliable
<1> QED BY <1>5, <1>7, <1>8 DEF Numbered

LEMMA WriteNumbered == ASSUME TypeOK, Numbered, Write PROVE Numbered'
<1>1. /\ pump = "write" /\ pump' = "poll"
      /\ UNCHANGED <<accepted, reliable, heard, hand, live, drained>>
  BY DEF Write, roomVars, queueVars, clientVars
<1>2. game \in Seq(Message) /\ hand \in Message /\ heard \in Nat
  BY DEF TypeOK
<1>3. PICK w \in Nat : InOrder(w) /\ Written(w)
  BY DEF Numbered
<1>4. /\ First' = First /\ First \in Int /\ ~drained
      /\ \A m \in state' : m.kind = "snapshot"
  BY <1>1, FirstIsInt DEF First, Numbered, Write
<1>5. CASE UNCHANGED game
  <2>1. hand.kind = "snapshot"
    BY <1>2, <1>5, AddTo DEF Write, Message, Kinds
  <2>2. InOrder(w)' /\ Written(w)'
    BY <1>1, <1>3, <1>4, <1>5, <2>1 DEF InOrder, Written
  <2> QED BY <1>1, <1>4, <2>2 DEF Numbered
<1>6. CASE game' = Append(game, hand)
  <2> DEFINE last == Len(game) + 1
  <2>1. /\ last \in Nat /\ DOMAIN game' = DOMAIN game \cup {last} /\ DOMAIN game = 1 .. last - 1
        /\ game'[last] = hand /\ \A i \in DOMAIN game : game'[i] = game[i]
    BY <1>2, <1>6
  <2> HIDE DEF last
  <2>2. CASE hand.kind = "reliable"
    <3>1. w + 1 = First /\ hand.n = w + 1 /\ hand = Reliable(w + 1)
      BY <1>1, <1>2, <1>3, <1>4, <2>2 DEF Written, Message, Reliable
    <3>2. Written(w + 1)'
      BY <1>1, <1>4, <3>1 DEF Written
    <3>3. heard' <= w + 1 /\ heard' = heard
      BY <1>1, <1>2, <1>3 DEF InOrder
    <3>4. ASSUME NEW i \in DOMAIN game', game'[i].kind = "reliable"
          PROVE  heard < game'[i].n /\ game'[i].n <= w + 1
      <4>1. CASE i = last
        BY <1>2, <1>3, <2>1, <3>1, <4>1 DEF InOrder
      <4>2. CASE i \in DOMAIN game
        <5>1. game[i].n \in Nat
          BY <4>2, InGame
        <5> QED BY <1>3, <2>1, <3>4, <4>2, <5>1 DEF InOrder
      <4> QED BY <2>1, <4>1, <4>2
    <3>5. ASSUME NEW i \in DOMAIN game', NEW j \in DOMAIN game', i < j,
                 game'[i].kind = "reliable", game'[j].kind = "reliable"
          PROVE  game'[i].n < game'[j].n
      <4>1. i \in DOMAIN game
        BY <2>1, <3>5
      <4>2. game[i].n \in Nat /\ game[i].n <= w
        BY <1>3, <2>1, <3>5, <4>1, InGame DEF InOrder
      <4>3. CASE j = last
        BY <2>1, <3>1, <4>1, <4>2, <4>3
      <4>4. CASE j \in DOMAIN game
        BY <1>3, <2>1, <3>5, <4>1, <4>4 DEF InOrder
      <4> QED BY <2>1, <4>3, <4>4
    <3>6. ASSUME NEW n \in Nat, heard < n, n <= w + 1
          PROVE  \E i \in DOMAIN game' : game'[i] = Reliable(n)
      <4>1. CASE n = w + 1
        BY <2>1, <3>1, <4>1
      <4>2. CASE n <= w
        <5>1. PICK i \in DOMAIN game : game[i] = Reliable(n)
          BY <1>3, <3>6, <4>2 DEF InOrder
        <5> QED BY <2>1, <5>1
      <4> QED BY <3>6, <4>1, <4>2
    <3>7. InOrder(w + 1)'
      BY <3>3, <3>4, <3>5, <3>6 DEF InOrder
    <3> QED BY <1>1, <1>4, <3>2, <3>7 DEF Numbered
  <2>3. CASE hand.kind = "snapshot"
    <3>1. Written(w)'
      BY <1>1, <1>3, <1>4, <2>3 DEF Written
    <3>2. \A i \in DOMAIN game' : game'[i].kind = "reliable" => i \in DOMAIN game
      BY <2>1, <2>3
    <3>3. ASSUME NEW n \in Nat, heard < n, n <= w
          PROVE  \E i \in DOMAIN game' : game'[i] = Reliable(n)
      <4>1. PICK i \in DOMAIN game : game[i] = Reliable(n)
        BY <1>3, <3>3 DEF InOrder
      <4> QED BY <2>1, <4>1
    <3>4. InOrder(w)'
      BY <1>1, <1>3, <2>1, <3>2, <3>3 DEF InOrder
    <3> QED BY <1>1, <1>4, <3>1, <3>4 DEF Numbered
  <2> QED BY <1>2, <2>2, <2>3 DEF Message, Kinds
<1> QED BY <1>5, <1>6 DEF Write

\* The next message of the ordered channel, if it is a reliable one, is the one
\* after the last heard.
LEMMA NextHeard ==
  ASSUME TypeOK, NEW w \in Nat, InOrder(w), game # <<>>, Head(game).kind = "reliable"
  PROVE  Head(game).n = heard + 1 /\ heard + 1 <= w
<1>1. game \in Seq(Message) /\ heard \in Nat
  BY DEF TypeOK
<1>2. 1 \in DOMAIN game /\ Head(game) = game[1] /\ Head(game).n \in Nat
  BY <1>1, InGame
<1>3. heard < Head(game).n /\ Head(game).n <= w
  BY <1>2 DEF InOrder
<1>4. PICK i \in DOMAIN game : game[i] = Reliable(heard + 1)
  BY <1>1, <1>2, <1>3 DEF InOrder
<1>5. CASE i = 1
  BY <1>1, <1>2, <1>3, <1>4, <1>5 DEF Reliable
<1>6. CASE 1 < i
  <2>1. Head(game).n < heard + 1
    BY <1>2, <1>4, <1>6 DEF InOrder, Reliable
  <2> QED BY <1>1, <1>2, <1>3, <2>1
<1> QED BY <1>1, <1>4, <1>5, <1>6

LEMMA ReceiveNumbered == ASSUME TypeOK, Numbered, ReceiveOrdered PROVE Numbered'
<1>1. /\ game # <<>> /\ game' = Tail(game)
      /\ heard' = IF Head(game).kind = "reliable" THEN Head(game).n ELSE heard
      /\ UNCHANGED <<accepted, reliable, pump, live, hand, drained, state>>
  BY DEF ReceiveOrdered, Receive, roomVars, queueVars, pumpVars
<1>2. game \in Seq(Message) /\ heard \in Nat
  BY DEF TypeOK
<1>3. PICK w \in Nat : InOrder(w) /\ Written(w)
  BY DEF Numbered
<1>4. /\ \A i \in DOMAIN game' : i \in Nat /\ i + 1 \in DOMAIN game /\ game'[i] = game[i + 1]
      /\ \A i \in DOMAIN game : i \in Nat /\ (i # 1 => i - 1 \in DOMAIN game' /\ game'[i - 1] = game[i])
      /\ 1 \in DOMAIN game /\ Head(game) = game[1]
  BY <1>1, <1>2
<1>5. /\ heard' \in {heard, heard + 1} /\ heard' <= w
      /\ heard' = heard => Head(game).kind # "reliable"
      /\ heard' = heard + 1 => Head(game) = Reliable(heard + 1)
  <2>1. Head(game) \in Message
    BY <1>1, <1>2
  <2>2. CASE Head(game).kind = "reliable"
    BY <1>1, <1>2, <1>3, <2>1, <2>2, NextHeard DEF Message, Reliable
  <2>3. CASE Head(game).kind # "reliable"
    BY <1>1, <1>2, <1>3, <2>3 DEF InOrder
  <2> QED BY <2>2, <2>3
<1>6. ASSUME NEW i \in DOMAIN game', game'[i].kind = "reliable"
      PROVE  heard' < game'[i].n /\ game'[i].n <= w
  <2>1. game'[i] = game[i + 1] /\ i + 1 \in DOMAIN game /\ 1 < i + 1
    BY <1>2, <1>4, <1>1
  <2>2. heard < game[i + 1].n /\ game[i + 1].n <= w /\ game[i + 1].n \in Nat
    BY <1>2, <1>3, <1>6, <2>1, InGame DEF InOrder
  <2>3. CASE heard' = heard + 1
    <3>1. heard + 1 < game[i + 1].n
      BY <1>3, <1>4, <1>5, <1>6, <2>1, <2>3 DEF InOrder, Reliable
    <3> QED BY <2>1, <2>2, <2>3, <3>1
  <2> QED BY <1>5, <2>1, <2>2, <2>3
<1>7. ASSUME NEW i \in DOMAIN game', NEW j \in DOMAIN game', i < j,
             game'[i].kind = "reliable", game'[j].kind = "reliable"
      PROVE  game'[i].n < game'[j].n
  BY <1>3, <1>4, <1>7 DEF InOrder
<1>8. ASSUME NEW n \in Nat, heard' < n, n <= w
      PROVE  \E i \in DOMAIN game' : game'[i] = Reliable(n)
  <2>1. PICK i \in DOMAIN game : game[i] = Reliable(n)
    BY <1>2, <1>3, <1>5, <1>8 DEF InOrder
  <2>2. i # 1
    BY <1>2, <1>4, <1>5, <1>8, <2>1 DEF Reliable
  <2> QED BY <1>4, <2>1, <2>2
<1>9. InOrder(w)'
  BY <1>5, <1>6, <1>7, <1>8 DEF InOrder
<1>10. Written(w)' /\ First' = First
  BY <1>1, <1>3 DEF Written, First
<1> QED BY <1>1, <1>3, <1>9, <1>10 DEF Numbered

LEMMA NextNumbered == TypeOK /\ Priority /\ Numbered /\ [Next]_vars => Numbered'
<1> SUFFICES ASSUME TypeOK, Priority, Numbered, [Next]_vars PROVE Numbered'
  OBVIOUS
<1>1. ASSUME UNCHANGED <<accepted, reliable, pumpVars, game, heard>>, state' \subseteq state
      PROVE  Numbered'
  BY <1>1, SamePlace DEF pumpVars, Numbered, Written, First
<1>2. CASE RefuseReliable \/ EnqueueSnapshot \/ Evict \/ Retry \/ Close
  BY <1>2, <1>1 DEF RefuseReliable, EnqueueSnapshot, Evict, Retry, Close, roomVars, queueVars,
                    netVars, clientVars
<1>3. ASSUME pump \in {"poll", "wait"}, pump' \in {"poll", "wait", "done"},
             UNCHANGED <<accepted, reliable, hand, game, state, heard>>, live' \subseteq live,
             drained' => pump' = "done" /\ "reliable" \notin live'
      PROVE  Numbered'
  BY <1>3, SamePlace DEF Written, First
<1>4. ASSUME TakeSnapshot, pump = "wait", UNCHANGED <<accepted, game, state, heard, drained>>
      PROVE  Numbered'
  <2>1. hand' = Head(snapshots) /\ snapshots # <<>> /\ snapshots \in Seq(SnapshotMessage)
          /\ UNCHANGED reliable /\ pump' = "write" /\ ~drained
    BY <1>4, Queues DEF TakeSnapshot, Numbered
  <2>2. hand'.kind = "snapshot"
    <3>1. hand' \in SnapshotMessage
      BY <2>1, TakeFrom
    <3> QED BY <3>1 DEF SnapshotMessage
  <2> QED BY <1>4, <2>1, <2>2, SamePlace DEF Written, First
<1>5. CASE Poll
  <2>1. ~drained /\ UNCHANGED <<accepted, game, state, heard, drained>>
    BY <1>5 DEF Poll, Numbered, roomVars, netVars, clientVars
  <2> QED BY <1>5, <2>1, <1>3, TakeNumbered DEF Poll, Forget
<1>6. CASE Wait
  <2>1. ~drained /\ UNCHANGED <<accepted, game, state, heard, drained>>
    BY <1>6 DEF Wait, Numbered, roomVars, netVars, clientVars
  <2> QED BY <1>6, <2>1, <1>3, <1>4, TakeNumbered DEF Wait, Forget
<1>7. CASE PumpCancelled \/ PumpDrained
  <2>1. /\ pump \in {"poll", "wait"} /\ pump' = "done"
        /\ UNCHANGED <<accepted, reliable, hand, game, state, heard, live>>
        /\ drained' => "reliable" \notin live
    BY <1>7 DEF PumpCancelled, PumpDrained, Numbered, roomVars, queueVars, netVars, clientVars
  <2> QED BY <2>1, <1>3
<1>8. CASE WriteFails
  <2>1. /\ pump = "write" /\ pump' = "done" /\ ~drained'
        /\ UNCHANGED <<accepted, reliable, hand, game, state, heard, live>>
    BY <1>8 DEF WriteFails, Numbered, roomVars, queueVars, netVars, clientVars
  <2> QED BY <2>1, SamePlace DEF Written, First
<1>9. CASE ReceiveUnordered
  <2>1. PICK m \in state : Receive(m) /\ state' = state \ {m}
    BY <1>9 DEF ReceiveUnordered
  <2>2. UNCHANGED heard
    BY <2>1 DEF Receive, Numbered
  <2> QED BY <1>9, <1>1, <2>1, <2>2 DEF ReceiveUnordered, roomVars, queueVars, pumpVars
<1>10. CASE LoseUnordered \/ Cancel \/ UNCHANGED vars
  BY <1>10, <1>1 DEF LoseUnordered, Cancel, vars, roomVars, queueVars, netVars, clientVars
<1> QED BY <1>2, <1>5, <1>6, <1>7, <1>8, <1>9, <1>10, EnqueueNumbered, WriteNumbered,
           ReceiveNumbered DEF Next, RoomNext, PumpNext, ClientNext

LEMMA NumberedDelivers == ASSUME TypeOK, Priority, Numbered PROVE DrainedMeansDelivered
<1> SUFFICES ASSUME drained, accepted # heard
             PROVE  \E i \in DOMAIN game : game[i] = Reliable(accepted)
  BY DEF DrainedMeansDelivered
<1>1. reliable = <<>>
  BY DEF Numbered, Priority
<1>2. First = accepted /\ accepted \in Nat /\ heard \in Nat
  BY <1>1, FirstIsInt DEF First, TypeOK
<1>3. InOrder(accepted)
  BY <1>2 DEF Numbered, Written
<1> QED BY <1>2, <1>3 DEF InOrder

\* A session whose pump ended with its queues has handed every accepted reliable
\* message to the transport, for every capacity, on both transports (writePump).
THEOREM DrainedSessionsDeliver == Spec => []DrainedMeansDelivered
<1> DEFINE IInv == TypeOK /\ Priority /\ Numbered
<1>1. Init => IInv
  BY InitTypeOK, InitPriority, InitNumbered
<1>2. IInv /\ [Next]_vars => IInv'
  BY NextTypeOK, NextPriority, NextNumbered
<1>3. IInv => DrainedMeansDelivered
  BY NumberedDelivers
<1> QED BY <1>1, <1>2, <1>3, PTL DEF Spec

\* Reliable messages are heard without a gap and in order on both transports,
\* whatever the snapshots do.
THEOREM ReliableIsHeardInOrder == Spec => ReliableInOrder
<1> DEFINE IInv == TypeOK /\ Priority /\ Numbered
<1>1. Init => IInv
  BY InitTypeOK, InitPriority, InitNumbered
<1>2. IInv /\ [Next]_vars => IInv'
  BY NextTypeOK, NextPriority, NextNumbered
<1>3. IInv /\ [Next]_vars => [heard' \in {heard, heard + 1}]_vars
  <2> SUFFICES ASSUME IInv, [Next]_vars PROVE heard' \in {heard, heard + 1}
    OBVIOUS
  <2>1. CASE ReceiveOrdered
    <3>1. PICK w \in Nat : InOrder(w)
      BY DEF Numbered
    <3>2. /\ game # <<>>
          /\ heard' = IF Head(game).kind = "reliable" THEN Head(game).n ELSE heard
      BY <2>1 DEF ReceiveOrdered, Receive
    <3> QED BY <3>1, <3>2, NextHeard
  <2>2. CASE ReceiveUnordered
    BY <2>2 DEF ReceiveUnordered, Receive, Numbered
  <2>3. CASE RoomNext
    BY <2>3 DEF RoomNext, EnqueueReliable, RefuseReliable, EnqueueSnapshot, Evict, Retry, Close,
                clientVars
  <2>4. CASE PumpNext
    BY <2>4 DEF PumpNext, Poll, Wait, PumpCancelled, PumpDrained, Write, WriteFails, clientVars
  <2>5. CASE LoseUnordered \/ Cancel \/ UNCHANGED vars
    BY <2>5 DEF LoseUnordered, Cancel, vars, clientVars
  <2> QED BY <2>1, <2>2, <2>3, <2>4, <2>5 DEF Next, ClientNext
<1> QED BY <1>1, <1>2, <1>3, PTL DEF Spec, ReliableInOrder

-----------------------------------------------------------------------------
(***************************************************************************)
(* The promise of Mailbox, on an ordered transport.  The numbers of the    *)
(* snapshots grow from the client over the channel, the pump's hand and    *)
(* the queue to the room's; and nothing leaves the session before the      *)
(* JoinAck, so while that is unheard it comes first in the channel.        *)
(***************************************************************************)
QueueGrows ==
  /\ taken <= offered /\ (room # "idle" => taken < offered)
  /\ \A i \in DOMAIN snapshots :
       /\ taken < snapshots[i].n /\ snapshots[i].n <= offered
       /\ room # "idle" => snapshots[i].n < offered
  /\ \A i, j \in DOMAIN snapshots : i < j => snapshots[i].n < snapshots[j].n

ChannelGrows ==
  /\ shown <= taken
  /\ \A i \in DOMAIN game :
       game[i].kind = "snapshot" => shown < game[i].n /\ game[i].n <= taken
  /\ \A i, j \in DOMAIN game :
       i < j /\ game[i].kind = "snapshot" /\ game[j].kind = "snapshot" => game[i].n < game[j].n
  /\ pump = "write" /\ hand.kind = "snapshot" =>
       /\ hand.n = taken /\ shown < taken
       /\ \A i \in DOMAIN game : game[i].kind = "snapshot" => game[i].n < taken

JoinAckFirst ==
  /\ First = 0 => pump = "poll" /\ game = <<>>
  /\ \A i \in DOMAIN game :
       heard = 0 /\ game[i].kind = "snapshot" =>
         \E j \in DOMAIN game : j < i /\ game[j] = Reliable(1)

Growing == state = {} /\ QueueGrows /\ ChannelGrows /\ JoinAckFirst

LEMMA InitGrowing == Init => Growing
BY DEF Init, Growing, QueueGrows, ChannelGrows, JoinAckFirst, First

LEMMA InSnapshots ==
  ASSUME TypeOK, NEW i \in DOMAIN snapshots
  PROVE  i \in Nat \ {0} /\ snapshots[i].n \in Nat
<1>1. snapshots \in Seq(SnapshotMessage)
  BY Queues
<1>2. i \in Nat \ {0} /\ snapshots[i] \in SnapshotMessage
  BY <1>1
<1> QED BY <1>2 DEF SnapshotMessage

LEMMA Numbers == ASSUME TypeOK PROVE {taken, offered, shown, heard, accepted} \subseteq Nat
BY SessionAssumption DEF TypeOK

\* The room adds a number above all others,
LEMMA AddGrows ==
  ASSUME TypeOK, QueueGrows, UNCHANGED taken, NEW n \in Nat,
         snapshots' = Append(snapshots, Snapshot(n)), offered' = n, room' = "idle",
         taken < n, \A i \in DOMAIN snapshots : snapshots[i].n < n
  PROVE  QueueGrows'
<1> DEFINE last == Len(snapshots) + 1
<1>1. /\ last \in Nat /\ DOMAIN snapshots' = DOMAIN snapshots \cup {last}
      /\ DOMAIN snapshots = 1 .. last - 1 /\ snapshots'[last] = Snapshot(n)
      /\ \A i \in DOMAIN snapshots : snapshots'[i] = snapshots[i]
  <2>1. snapshots \in Seq(SnapshotMessage) /\ Snapshot(n) \in SnapshotMessage
    BY Queues DEF Snapshot, SnapshotMessage
  <2> HIDE DEF SnapshotMessage
  <2> QED BY <2>1
<1> HIDE DEF last
<1>2. taken' <= offered'
  BY Numbers
<1>3. ASSUME NEW i \in DOMAIN snapshots'
      PROVE  taken' < snapshots'[i].n /\ snapshots'[i].n <= offered'
  <2>1. CASE i = last
    BY <1>1, <2>1 DEF Snapshot
  <2>2. CASE i \in DOMAIN snapshots
    BY <1>1, <2>2, InSnapshots DEF QueueGrows
  <2> QED BY <1>1, <2>1, <2>2
<1>4. ASSUME NEW i \in DOMAIN snapshots', NEW j \in DOMAIN snapshots', i < j
      PROVE  snapshots'[i].n < snapshots'[j].n
  <2>1. i \in DOMAIN snapshots
    BY <1>1, <1>4
  <2>2. CASE j = last
    BY <1>1, <2>1, <2>2 DEF Snapshot
  <2>3. CASE j \in DOMAIN snapshots
    BY <1>1, <1>4, <2>1, <2>3 DEF QueueGrows
  <2> QED BY <1>1, <2>2, <2>3
<1> QED BY <1>2, <1>3, <1>4 DEF QueueGrows

\* and whoever takes the first leaves higher ones.
LEMMA TailGrows ==
  ASSUME TypeOK, QueueGrows, snapshots # <<>>
  PROVE  /\ Head(snapshots).n \in Nat /\ taken < Head(snapshots).n /\ Head(snapshots).n <= offered
         /\ room # "idle" => Head(snapshots).n < offered
         /\ \A i \in DOMAIN Tail(snapshots) :
              /\ Head(snapshots).n < Tail(snapshots)[i].n /\ taken < Tail(snapshots)[i].n
              /\ Tail(snapshots)[i].n <= offered
              /\ room # "idle" => Tail(snapshots)[i].n < offered
         /\ \A i, j \in DOMAIN Tail(snapshots) :
              i < j => Tail(snapshots)[i].n < Tail(snapshots)[j].n
<1>1. /\ 1 \in DOMAIN snapshots /\ Head(snapshots) = snapshots[1]
      /\ \A i \in DOMAIN Tail(snapshots) :
           i \in Nat \ {0} /\ i + 1 \in DOMAIN snapshots /\ Tail(snapshots)[i] = snapshots[i + 1]
  <2>1. snapshots \in Seq(SnapshotMessage)
    BY Queues
  <2> QED BY <2>1
<1>2. \A i \in DOMAIN Tail(snapshots) : 1 < i + 1
  BY <1>1
<1>3. \A i, j \in DOMAIN Tail(snapshots) : i < j => i + 1 < j + 1
  BY <1>1
<1> QED BY <1>1, <1>2, <1>3, InSnapshots DEF QueueGrows

LEMMA RoomGrows == ASSUME TypeOK, Growing, RoomNext PROVE Growing'
<1>1. UNCHANGED <<pump, hand, taken, game, state, heard, shown>> /\ ChannelGrows'
  BY DEF RoomNext, EnqueueReliable, RefuseReliable, EnqueueSnapshot, Evict, Retry, Close,
         pumpVars, netVars, clientVars, Growing, ChannelGrows
<1>2. First' = First
  <2>1. CASE EnqueueReliable
    <3>1. reliable \in Seq(ReliableMessage) /\ Reliable(accepted + 1) \in ReliableMessage
      BY Queues, Numbers DEF Reliable, ReliableMessage
    <3>2. Len(reliable') = Len(reliable) + 1 /\ Len(reliable) \in Nat
      BY <2>1, <3>1, AddTo DEF EnqueueReliable
    <3> QED BY <2>1, <3>2, Numbers DEF EnqueueReliable, First
  <2>2. CASE UNCHANGED <<accepted, reliable>>
    BY <2>2 DEF First
  <2> QED BY <2>1, <2>2 DEF RoomNext, RefuseReliable, EnqueueSnapshot, Evict, Retry, Close,
                            roomVars, queueVars
<1>3. JoinAckFirst'
  BY <1>1, <1>2 DEF Growing, JoinAckFirst
<1>4. QueueGrows'
  <2>1. CASE EnqueueReliable \/ RefuseReliable \/ Close
    BY <2>1 DEF EnqueueReliable, RefuseReliable, Close, roomVars, queueVars, pumpVars, Growing,
                QueueGrows
  <2>2. CASE EnqueueSnapshot
    <3>1. CASE /\ snapshots' = Append(snapshots, Snapshot(offered + 1)) /\ UNCHANGED room
      <4>1. room' = "idle" /\ offered' = offered + 1 /\ UNCHANGED taken
        BY <2>2, <3>1 DEF EnqueueSnapshot, pumpVars
      <4>2. taken < offered + 1 /\ \A i \in DOMAIN snapshots : snapshots[i].n < offered + 1
        BY Numbers, InSnapshots DEF Growing, QueueGrows
      <4> QED BY <3>1, <4>1, <4>2, AddGrows, Numbers DEF Growing
    <3>2. CASE room' = "evict" /\ UNCHANGED snapshots
      <4>1. offered' = offered + 1 /\ UNCHANGED taken
        BY <2>2 DEF EnqueueSnapshot, pumpVars
      <4> QED BY <3>2, <4>1, Numbers, InSnapshots DEF Growing, QueueGrows
    <3> QED BY <2>2, <3>1, <3>2 DEF EnqueueSnapshot
  <2>3. CASE Evict
    <3>1. room # "idle" /\ room' # "idle" /\ UNCHANGED <<offered, taken>>
      BY <2>3 DEF Evict, pumpVars
    <3>2. CASE snapshots # <<>> /\ snapshots' = Tail(snapshots)
      BY <3>1, <3>2, TailGrows DEF Growing, QueueGrows
    <3>3. CASE UNCHANGED snapshots
      BY <3>1, <3>3 DEF Growing, QueueGrows
    <3> QED BY <2>3, <3>2, <3>3 DEF Evict
  <2>4. CASE Retry
    <3>1. room # "idle" /\ room' = "idle" /\ UNCHANGED <<offered, taken>>
      BY <2>4 DEF Retry, pumpVars
    <3>2. CASE snapshots' = Append(snapshots, Snapshot(offered))
      BY <3>1, <3>2, AddGrows, Numbers DEF Growing, QueueGrows
    <3>3. CASE UNCHANGED snapshots
      BY <3>1, <3>3 DEF Growing, QueueGrows
    <3> QED BY <2>4, <3>2, <3>3 DEF Retry
  <2> QED BY <2>1, <2>2, <2>3, <2>4 DEF RoomNext
<1> QED BY <1>1, <1>3, <1>4 DEF Growing

LEMMA TakeSnapshotGrows ==
  ASSUME TypeOK, Growing, TakeSnapshot, pump = "wait",
         UNCHANGED <<room, offered, accepted, game, state, heard, shown>>
  PROVE  Growing'
<1>1. /\ snapshots # <<>> /\ snapshots' = Tail(snapshots) /\ hand' = Head(snapshots)
      /\ taken' = Head(snapshots).n /\ UNCHANGED reliable
  BY DEF TakeSnapshot
<1>2. QueueGrows'
  BY <1>1, TailGrows DEF Growing, QueueGrows
<1>3. ChannelGrows'
  <2>1. taken < taken' /\ taken' \in Nat /\ {taken, shown} \subseteq Nat /\ shown <= taken
    BY <1>1, TailGrows, Numbers DEF Growing, ChannelGrows
  <2>2. shown < taken' /\ shown <= taken'
    BY <2>1
  <2>3. \A i \in DOMAIN game : game[i].kind = "snapshot" =>
          shown < game[i].n /\ game[i].n <= taken' /\ game[i].n < taken'
    BY <2>1, InGame DEF Growing, ChannelGrows
  <2> QED BY <1>1, <2>2, <2>3 DEF Growing, ChannelGrows
<1>4. JoinAckFirst'
  BY <1>1 DEF Growing, JoinAckFirst, First
<1> QED BY <1>2, <1>3, <1>4 DEF Growing

LEMMA TakeReliableGrows ==
  ASSUME TypeOK, Numbered, Growing, TakeReliable, pump \in {"poll", "wait"},
         UNCHANGED <<room, offered, accepted, game, state, heard, shown>>
  PROVE  Growing'
<1>1. /\ reliable # <<>> /\ hand' = Head(reliable) /\ reliable' = Tail(reliable)
      /\ pump' = "write" /\ UNCHANGED <<snapshots, taken>>
  BY DEF TakeReliable
<1>2. /\ Head(reliable) \in ReliableMessage /\ Len(reliable) \in Nat
      /\ Len(Tail(reliable)) = Len(reliable) - 1
  BY <1>1, Queues, TakeFrom
<1>3. hand'.kind = "reliable"
  BY <1>1, <1>2 DEF ReliableMessage
<1>4. First' = First + 1 /\ First \in Int
  BY <1>1, <1>2, Numbers DEF First
<1>5. PICK w \in Nat : Written(w)
  BY DEF Numbered
<1>6. First' # 0
  BY <1>4, <1>5 DEF Written
<1> QED BY <1>1, <1>3, <1>6 DEF Growing, QueueGrows, ChannelGrows, JoinAckFirst

LEMMA WriteGrows ==
  ASSUME TypeOK, Numbered, Growing, ~Unreliable, Write
  PROVE  Growing'
<1>1. /\ pump = "write" /\ pump' = "poll" /\ game' = Append(game, hand)
      /\ UNCHANGED <<room, offered, accepted, reliable, snapshots, taken, hand, heard, shown>>
      /\ UNCHANGED state
  BY DEF Write, roomVars, queueVars, clientVars
<1> DEFINE last == Len(game) + 1
<1>2. /\ last \in Nat /\ DOMAIN game' = DOMAIN game \cup {last} /\ DOMAIN game = 1 .. last - 1
      /\ game'[last] = hand /\ \A i \in DOMAIN game : game'[i] = game[i]
  BY <1>1 DEF TypeOK
<1> HIDE DEF last
<1>3. QueueGrows'
  BY <1>1 DEF Growing, QueueGrows
<1>4. ASSUME NEW i \in DOMAIN game', game'[i].kind = "snapshot"
      PROVE  shown < game'[i].n /\ game'[i].n <= taken
  BY <1>1, <1>2, <1>4, Numbers DEF Growing, ChannelGrows
<1>5. ASSUME NEW i \in DOMAIN game', NEW j \in DOMAIN game', i < j,
             game'[i].kind = "snapshot", game'[j].kind = "snapshot"
      PROVE  game'[i].n < game'[j].n
  <2>1. i \in DOMAIN game
    BY <1>2, <1>5
  <2>2. CASE j = last
    BY <1>1, <1>2, <1>5, <2>1, <2>2 DEF Growing, ChannelGrows
  <2>3. CASE j \in DOMAIN game
    BY <1>2, <1>5, <2>1, <2>3 DEF Growing, ChannelGrows
  <2> QED BY <1>2, <2>2, <2>3
<1>6. ChannelGrows'
  BY <1>1, <1>4, <1>5 DEF Growing, ChannelGrows
<1>7. First' = First /\ First # 0
  BY <1>1 DEF First, Growing, JoinAckFirst
<1>8. ASSUME NEW i \in DOMAIN game', heard = 0, game'[i].kind = "snapshot"
      PROVE  \E j \in DOMAIN game' : j < i /\ game'[j] = Reliable(1)
  <2>1. CASE i \in DOMAIN game
    <3>1. PICK j \in DOMAIN game : j < i /\ game[j] = Reliable(1)
      BY <1>2, <1>8, <2>1 DEF Growing, JoinAckFirst
    <3> QED BY <1>2, <3>1
  <2>2. CASE i = last
    <3>1. PICK w \in Nat : InOrder(w) /\ Written(w)
      BY DEF Numbered
    <3>2. w = First
      BY <1>1, <1>2, <1>8, <2>2, <3>1 DEF Written
    <3>3. heard < 1 /\ 1 <= w
      BY <1>7, <1>8, <3>1, <3>2
    <3>4. PICK j \in DOMAIN game : game[j] = Reliable(1)
      BY <3>1, <3>3 DEF InOrder
    <3>5. j < i
      BY <1>2, <2>2, <3>4
    <3> QED BY <1>2, <3>4, <3>5
  <2> QED BY <1>2, <2>1, <2>2
<1>9. JoinAckFirst'
  BY <1>1, <1>7, <1>8 DEF JoinAckFirst
<1> QED BY <1>1, <1>3, <1>6, <1>9 DEF Growing

\* What the client hears next: the next reliable message, or a newer snapshot
\* once it has heard the JoinAck.
LEMMA NextOrdered ==
  ASSUME TypeOK, Numbered, Growing, ReceiveOrdered
  PROVE  \/ /\ heard' = heard + 1 /\ heard < accepted /\ UNCHANGED shown
            /\ Head(game).kind = "reliable"
         \/ /\ heard > 0 /\ UNCHANGED heard
            /\ Head(game).kind = "snapshot" /\ shown' = Head(game).n
            /\ shown < shown' /\ shown' <= taken /\ taken <= offered
<1>1. /\ game # <<>>
      /\ heard' = IF Head(game).kind = "reliable" THEN Head(game).n ELSE heard
      /\ shown' = IF Head(game).kind = "snapshot" THEN Head(game).n ELSE shown
  BY DEF ReceiveOrdered, Receive
<1>2. 1 \in DOMAIN game /\ Head(game) = game[1] /\ Head(game) \in Message
  BY <1>1, InGame DEF TypeOK
<1>3. CASE Head(game).kind = "reliable"
  <2>1. PICK w \in Nat : InOrder(w) /\ Written(w)
    BY DEF Numbered
  <2>2. Head(game).n = heard + 1 /\ heard + 1 <= w
    BY <1>1, <1>3, <2>1, NextHeard
  <2>3. w <= accepted
    BY <2>1, FirstIsInt DEF Written, First
  <2> QED BY <1>1, <1>3, <2>2, <2>3, Numbers
<1>4. CASE Head(game).kind = "snapshot"
  <2>1. heard # 0
    <3>1. SUFFICES ASSUME heard = 0 PROVE FALSE
      OBVIOUS
    <3>2. PICK j \in DOMAIN game : j < 1
      BY <1>2, <1>4, <3>1 DEF Growing, JoinAckFirst
    <3> QED BY <3>2, InGame
  <2>2. shown < Head(game).n /\ Head(game).n <= taken /\ taken <= offered
    BY <1>2, <1>4 DEF Growing, ChannelGrows, QueueGrows
  <2> QED BY <1>1, <1>4, <2>1, <2>2, Numbers
<1> QED BY <1>2, <1>3, <1>4 DEF Message, Kinds

LEMMA ReceiveGrows ==
  ASSUME TypeOK, Numbered, Growing, ReceiveOrdered
  PROVE  Growing'
<1>1. /\ game # <<>> /\ game' = Tail(game)
      /\ UNCHANGED <<room, offered, accepted, reliable, snapshots, pump, hand, taken, state>>
  BY DEF ReceiveOrdered, roomVars, queueVars, pumpVars
<1>2. /\ \A i \in DOMAIN game' : i \in Nat \ {0} /\ i + 1 \in DOMAIN game /\ game'[i] = game[i + 1]
      /\ \A i \in DOMAIN game : i # 1 => i - 1 \in DOMAIN game' /\ game'[i - 1] = game[i]
      /\ 1 \in DOMAIN game /\ Head(game) = game[1]
  BY <1>1 DEF TypeOK
<1>3. /\ \A i \in DOMAIN game' : 1 < i + 1
      /\ \A i, j \in DOMAIN game' : i < j => i + 1 < j + 1
  BY <1>2
<1>4. QueueGrows'
  BY <1>1 DEF Growing, QueueGrows
<1>5. ChannelGrows'
  <2>1. ASSUME NEW i \in DOMAIN game', game'[i].kind = "snapshot"
        PROVE  shown' < game'[i].n /\ game'[i].n <= taken
    BY <1>2, <1>3, <2>1, NextOrdered DEF Growing, ChannelGrows
  <2>2. shown' <= taken
    BY NextOrdered DEF Growing, ChannelGrows
  <2>3. pump = "write" /\ hand.kind = "snapshot" => shown' < taken
    BY <1>2, NextOrdered DEF Growing, ChannelGrows
  <2> QED BY <1>1, <1>2, <1>3, <2>1, <2>2, <2>3 DEF Growing, ChannelGrows
<1>6. JoinAckFirst'
  <2>1. heard' # 0
    BY NextOrdered, Numbers
  <2>2. First' = First /\ First # 0
    BY <1>1 DEF First, Growing, JoinAckFirst
  <2> QED BY <2>1, <2>2 DEF JoinAckFirst
<1> QED BY <1>1, <1>4, <1>5, <1>6 DEF Growing

LEMMA NextGrowing ==
  ASSUME ~Unreliable, TypeOK, Priority, Numbered, Growing, [Next]_vars
  PROVE  Growing'
<1>1. ASSUME UNCHANGED <<room, offered, accepted, reliable, snapshots, hand, taken, game, state,
                         heard, shown>>,
             pump' = pump \/ (pump' # "write" /\ First # 0)
      PROVE  Growing'
  BY <1>1 DEF Growing, QueueGrows, ChannelGrows, JoinAckFirst, First
<1>2. First = 0 => "reliable" \in live /\ reliable # <<>> /\ pump = "poll"
  <2>1. accepted >= 1 /\ accepted \in Nat
    BY SessionAssumption DEF TypeOK
  <2>2. ASSUME First = 0 PROVE reliable # <<>>
    BY <2>1, <2>2 DEF First
  <2> QED BY <2>2 DEF Priority, Growing, JoinAckFirst
<1>3. ASSUME NEW k, Forget(k), pump \in {"poll", "wait"},
             UNCHANGED <<room, offered, accepted, game, state, heard, shown>>
      PROVE  Growing'
  BY <1>1, <1>2, <1>3 DEF Forget
<1>4. CASE Poll
  BY <1>1, <1>2, <1>3, <1>4, TakeReliableGrows DEF Poll, roomVars, netVars, clientVars
<1>5. CASE Wait
  BY <1>3, <1>5, TakeReliableGrows, TakeSnapshotGrows DEF Wait, roomVars, netVars, clientVars
<1>6. CASE PumpCancelled \/ PumpDrained \/ WriteFails
  BY <1>1, <1>2, <1>6 DEF PumpCancelled, PumpDrained, WriteFails, roomVars, queueVars, netVars,
                          clientVars
<1>7. CASE ReceiveUnordered \/ LoseUnordered
  BY <1>7 DEF ReceiveUnordered, LoseUnordered, Growing
<1>8. CASE Cancel \/ UNCHANGED vars
  BY <1>1, <1>8 DEF Cancel, vars, roomVars, queueVars, pumpVars, netVars, clientVars
<1> QED BY <1>4, <1>5, <1>6, <1>7, <1>8, RoomGrows, WriteGrows, ReceiveGrows
        DEF Next, PumpNext, ClientNext

\* Every step of the session is one of Mailbox, or none of its concern.
LEMMA StepKeepsPromise ==
  ASSUME TypeOK, Numbered, Growing, [Next]_vars
  PROVE  [Promise!Next]_(Promise!vars)
<1>1. CASE ReceiveOrdered
  <2>1. UNCHANGED <<accepted, offered>>
    BY <1>1 DEF ReceiveOrdered, roomVars
  <2>2. CASE heard' = heard + 1 /\ heard < accepted /\ UNCHANGED shown
    BY <2>1, <2>2 DEF Promise!Next, Promise!Hear
  <2>3. CASE heard > 0 /\ UNCHANGED heard /\ shown < shown' /\ shown' <= offered /\ shown' \in Nat
    <3>1. shown' \in shown + 1 .. offered
      BY <2>3, Numbers
    <3> QED BY <2>1, <2>3, <3>1 DEF Promise!Next, Promise!Show
  <2>4. shown' \in Nat
    BY <1>1, NextTypeOK DEF Next, ClientNext, TypeOK
  <2> QED BY <1>1, <2>2, <2>3, <2>4, NextOrdered, Numbers
<1>2. CASE ReceiveUnordered \/ LoseUnordered
  BY <1>2 DEF ReceiveUnordered, LoseUnordered, Growing
<1>3. CASE EnqueueReliable
  BY <1>3 DEF EnqueueReliable, clientVars, Promise!Next, Promise!Accept
<1>4. CASE EnqueueSnapshot
  BY <1>4 DEF EnqueueSnapshot, clientVars, Promise!Next, Promise!Offer
<1>5. ASSUME UNCHANGED <<accepted, offered, clientVars>> PROVE UNCHANGED Promise!vars
  BY <1>5 DEF clientVars, Promise!vars
<1>6. CASE RefuseReliable \/ Evict \/ Retry \/ Close
  BY <1>5, <1>6 DEF RefuseReliable, Evict, Retry, Close, roomVars
<1>7. CASE PumpNext
  BY <1>5, <1>7 DEF PumpNext, Poll, Wait, PumpCancelled, PumpDrained, Write, WriteFails, roomVars
<1>8. CASE Cancel \/ UNCHANGED vars
  BY <1>5, <1>8 DEF Cancel, vars, roomVars
<1> QED BY <1>1, <1>2, <1>3, <1>4, <1>6, <1>7, <1>8 DEF Next, RoomNext, ClientNext

\* On an ordered transport (a WebSocket or a pipe) a session implements Mailbox,
\* for every capacity: the JoinAck first, the reliable messages in order and
\* without a gap, the snapshots in order.
THEOREM SessionKeepsPromise == ASSUME ~Unreliable PROVE Spec => ClientHearsMailbox
<1> DEFINE IInv == TypeOK /\ Priority /\ Numbered /\ Growing
<1>1. Init => IInv
  BY InitTypeOK, InitPriority, InitNumbered, InitGrowing
<1>2. IInv /\ [Next]_vars => IInv'
  BY NextTypeOK, NextPriority, NextNumbered, NextGrowing
<1>3. Init => Promise!Init
  BY DEF Init, Promise!Init
<1>4. IInv /\ [Next]_vars => [Promise!Next]_(Promise!vars)
  BY StepKeepsPromise
<1> HIDE DEF IInv
<1> QED BY <1>1, <1>2, <1>3, <1>4, PTL DEF Spec, ClientHearsMailbox, Promise!Spec

=============================================================================
