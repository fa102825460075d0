---------------------------- MODULE LobbyProofs ----------------------------
(***************************************************************************)
(* Proofs about Lobby: the counts of the gate are exact, rooms stay within *)
(* their limits, a server that exits in time has lost nothing, clients and *)
(* lists are where they belong, the filler takes no bot for a human, and   *)
(* every room is a roster.  The fourth and the fifth need to know who may  *)
(* write to which inbox, and which letters of the filler and its bots are  *)
(* under way.                                                              *)
(***************************************************************************)
EXTENDS Lobby, FoldProofs, FiniteSetTheorems, TLAPS

-----------------------------------------------------------------------------
(* The gate. *)

Served(a) == {h \in Human : AddressOf[h] = a /\ InProgress(h)}
Counted ==
    /\ pc \in [Client -> Pc]
    /\ slots \in [Address -> Nat]
    /\ SlotsMatchConnections

(* A step that keeps the slots and in progress whoever was, keeps the count. *)
LEMMA SameServed ==
    ASSUME Counted, UNCHANGED slots, pc' \in [Client -> Pc],
           \A h \in Human : InProgress(h)' <=> InProgress(h)
    PROVE  Counted'
<1>1. \A a \in Address : Served(a)' = Served(a)
  BY DEF Served
<1> QED  BY <1>1 DEF Counted, SlotsMatchConnections, Served

(* So does a client going from one stage of its service to another. *)
LEMMA Onward ==
    ASSUME Counted, UNCHANGED slots, NEW c, NEW v \in Pc,
           pc' = [pc EXCEPT ![c] = v],
           c \in Human => pc[c] \notin {"off", "gone"} /\ v \notin {"off", "gone"}
    PROVE  Counted'
<1>1. pc' \in [Client -> Pc]
  BY DEF Counted
<1>2. \A h \in Human : InProgress(h)' <=> InProgress(h)
  BY DEF Counted, InProgress, Client
<1> QED  BY <1>1, <1>2, SameServed

LEMMA SameClients == ASSUME Counted, UNCHANGED <<pc, slots>> PROVE Counted'
  BY SameServed DEF Counted, InProgress

LEMMA ServedFinite == \A a \in Address : IsFiniteSet(Served(a)) /\ Cardinality(Served(a)) \in Nat
  BY LobbyAssumption, FS_Subset, FS_CardinalityType DEF Served

LEMMA CountedConnect ==
    ASSUME Counted, NEW h \in Human, Connect(h)
    PROVE  Counted'
<1> DEFINE a == AddressOf[h]
<1>1. /\ pc[h] = "off" /\ h \in Client /\ a \in Address
      /\ slots[a] \in Nat /\ MaxPerIP \in Nat
  BY LobbyAssumption DEF Connect, Client, Counted
<1>2. CASE slots[a] < MaxPerIP
  <2>1. /\ slots' = [slots EXCEPT ![a] = @ + 1]
        /\ pc' = [pc EXCEPT ![h] = "handshake"]
    BY <1>2 DEF Connect, Acquire
  <2>2. pc' \in [Client -> Pc] /\ slots' \in [Address -> Nat]
    BY <1>1, <2>1 DEF Counted, Pc
  <2>3. Served(a)' = Served(a) \union {h} /\ h \notin Served(a)
    BY <1>1, <2>1 DEF Served, InProgress, Counted, Client
  <2>4. \A o \in Address \ {a} : Served(o)' = Served(o) /\ slots'[o] = slots[o]
    BY <1>1, <2>1 DEF Served, InProgress, Counted, Client
  <2>5. Cardinality(Served(a)') = Cardinality(Served(a)) + 1
    BY <1>1, <2>3, ServedFinite, FS_AddElement
  <2>6. slots[a] = Cardinality(Served(a)) /\ slots'[a] = slots[a] + 1
    BY <1>1, <2>1 DEF Counted, SlotsMatchConnections, Served
  <2>7. ASSUME NEW o \in Address
        PROVE  slots'[o] = Cardinality(Served(o)') /\ slots'[o] <= MaxPerIP
    <3>1. CASE o = a  BY <1>1, <1>2, <2>5, <2>6, <3>1
    <3>2. CASE o # a
      BY <2>4, <3>2 DEF Counted, SlotsMatchConnections, Served
    <3> QED  BY <3>1, <3>2
  <2> QED  BY <2>2, <2>7 DEF Counted, SlotsMatchConnections, Served
<1>3. CASE ~(slots[a] < MaxPerIP)
  <2>1. UNCHANGED slots /\ pc' = [pc EXCEPT ![h] = "gone"]
    BY <1>3 DEF Connect, Acquire
  <2>2. pc' \in [Client -> Pc]
    BY <2>1 DEF Counted, Pc
  <2>3. \A o \in Human : InProgress(o)' <=> InProgress(o)
    BY <1>1, <2>1 DEF InProgress, Counted, Client
  <2> QED  BY <2>1, <2>2, <2>3, SameServed
<1> QED  BY <1>2, <1>3

LEMMA CountedRelease ==
    ASSUME Counted, NEW h \in Human, Release(h)
    PROVE  Counted'
<1> DEFINE a == AddressOf[h]
<1>1. /\ pc[h] \in {"refused", "left"} /\ h \in Client /\ a \in Address
      /\ slots[a] \in Nat /\ MaxPerIP \in Nat
      /\ slots' = [slots EXCEPT ![a] = @ - 1]
      /\ pc' = [pc EXCEPT ![h] = "gone"]
  BY LobbyAssumption DEF Release, Client, Counted
<1>2. Served(a)' = Served(a) \ {h} /\ h \in Served(a)
  BY <1>1 DEF Served, InProgress, Counted, Client
<1>3. \A o \in Address \ {a} : Served(o)' = Served(o) /\ slots'[o] = slots[o]
  BY <1>1 DEF Served, InProgress, Counted, Client
<1>4. Cardinality(Served(a)') = Cardinality(Served(a)) - 1
  <2>1. PICK F : F = Served(a)
    OBVIOUS
  <2>2. IsFiniteSet(F) /\ h \in F
    BY <1>1, <1>2, <2>1, ServedFinite
  <2>3. Cardinality(F \ {h}) = Cardinality(F) - 1
    BY <2>2, FS_RemoveElement
  <2> QED BY <1>2, <2>1, <2>3
<1>5. IsFiniteSet(Served(a)') /\ Cardinality(Served(a)') \in Nat
  BY <1>1, <1>2, ServedFinite, FS_RemoveElement, FS_CardinalityType
<1>6. /\ slots[a] = Cardinality(Served(a)) /\ slots[a] <= MaxPerIP
      /\ slots'[a] = slots[a] - 1
  BY <1>1 DEF Counted, SlotsMatchConnections, Served
<1>7. pc' \in [Client -> Pc] /\ slots' \in [Address -> Nat]
  BY <1>1, <1>4, <1>5, <1>6 DEF Counted, Pc
<1>8. ASSUME NEW o \in Address
      PROVE  slots'[o] = Cardinality(Served(o)') /\ slots'[o] <= MaxPerIP
  <2>1. CASE o = a  BY <1>1, <1>4, <1>6, <2>1
  <2>2. CASE o # a
    BY <1>3, <2>2 DEF Counted, SlotsMatchConnections, Served
  <2> QED  BY <2>1, <2>2
<1> QED  BY <1>7, <1>8 DEF Counted, SlotsMatchConnections, Served

LEMMA CountedInit == Init => Counted
<1> SUFFICES ASSUME Init PROVE Counted
  OBVIOUS
<1>1. pc \in [Client -> Pc] /\ slots \in [Address -> Nat]
  BY DEF Init, Pc
<1>2. \A a \in Address : Served(a) = {}
  BY DEF Init, Served, InProgress, Client
<1>3. \A a \in Address : slots[a] = 0 /\ 0 <= MaxPerIP
  BY LobbyAssumption DEF Init
<1> QED  BY <1>1, <1>2, <1>3, FS_EmptySet DEF Counted, SlotsMatchConnections, Served

\* Every step keeps the counts of the gate.
LEMMA CountedNext == Counted /\ [Next]_vars => Counted'
<1> SUFFICES ASSUME Counted, [Next]_vars PROVE Counted'
  OBVIOUS
<1> USE LobbyAssumption
<1>1. ASSUME NEW h \in Human, Connect(h) \/ Release(h) PROVE Counted'
  BY <1>1, CountedConnect, CountedRelease
<1>2. ASSUME NEW h \in Human, HandshakeFails(h) PROVE Counted'
  BY <1>2, Onward, "refused" \in Pc DEF HandshakeFails, Pc
<1>3. ASSUME NEW h \in Human, Assign(h) PROVE Counted'
  <2>1. \E v \in {"assigned", "refused"} : pc' = [pc EXCEPT ![h] = v]
    BY <1>3 DEF Assign
  <2> QED  BY <1>3, <2>1, Onward DEF Assign, Pc
<1>4. ASSUME NEW h \in Human, PostJoin(h) \/ AbandonJoin(h) \/ Disconnect(h) PROVE Counted'
  <2>1. /\ pc[h] \in {"assigned", "joining", "running"} /\ UNCHANGED slots
        /\ \E v \in {"joining", "refused", "leaving"} : pc' = [pc EXCEPT ![h] = v]
    BY <1>4 DEF PostJoin, AbandonJoin, Disconnect
  <2> QED  BY <2>1, Onward DEF Pc
<1>5. ASSUME NEW c \in Client, SessionEnds(c) \/ PostLeave(c) PROVE Counted'
  <2>1. /\ pc[c] \in {"running", "leaving"} /\ UNCHANGED slots
        /\ \E v \in {"leaving", "left"} : pc' = [pc EXCEPT ![c] = v]
    BY <1>5 DEF SessionEnds, PostLeave
  <2> QED  BY <2>1, Onward DEF Pc
<1>6. ASSUME NEW b \in Bot, RunReturns(b) PROVE Counted'
  BY <1>6, Onward DEF RunReturns, Pc
<1>7. ASSUME NEW r \in Started, Handle(r) PROVE Counted'
  <2>1. UNCHANGED slots
    BY <1>7 DEF Handle
  <2>2. \/ UNCHANGED pc
        \/ \E v \in {"running", "refused"} : pc' = Answer(Head(inbox[r]).who, v)
    BY <1>7 DEF Handle
  <2>3. ASSUME NEW v \in {"running", "refused"}, pc' = Answer(Head(inbox[r]).who, v)
        PROVE  Counted'
    <3> DEFINE c == Head(inbox[r]).who
    <3>1. CASE pc[c] = "joining"
      <4>1. pc' = [pc EXCEPT ![c] = v]  BY <2>3, <3>1 DEF Answer
      <4> QED  BY <2>1, <3>1, <4>1, Onward DEF Pc
    <3>2. CASE pc[c] # "joining"
      BY <2>1, <2>3, <3>2, SameClients DEF Answer
    <3> QED  BY <3>1, <3>2
  <2> QED  BY <2>1, <2>2, <2>3, SameClients
<1>8. ASSUME AddBot PROVE Counted'
  <2>1. UNCHANGED slots /\ (UNCHANGED pc \/ \E b \in Bot : pc' = [pc EXCEPT ![b] = "joining"])
    BY <1>8 DEF AddBot
  <2> QED  BY <2>1, Onward, SameClients DEF Pc
<1>9. ASSUME BotJoined PROVE Counted'
  <2>1. UNCHANGED slots
        /\ \/ UNCHANGED pc
           \/ pc[fill.bot] = "joining" /\ pc' = [pc EXCEPT ![fill.bot] = "refused"]
    BY <1>9 DEF BotJoined
  <2> QED  BY <2>1, Onward, SameClients DEF Pc
<1>10. ASSUME \/ \E r \in Started : SendPersist(r) \/ StopRoom(r) \/ \E c \in Client : Drop(r, c)
              \/ Reconcile \/ VisitRoom \/ AskState \/ Count \/ StopNewest \/ Adjusted
              \/ FillerStops \/ Persist \/ Signal \/ MainStep \/ ExitLate
              \/ UNCHANGED vars
       PROVE  Counted'
  <2>1. UNCHANGED <<pc, slots>>
    BY <1>10 DEF SendPersist, StopRoom, Drop, Reconcile, VisitRoom, AskState, Count,
         StopNewest, Adjusted, FillerStops, Persist, Signal, MainStep, ShutHttp, WaitRooms,
         WaitFiller, Exit, ExitLate, vars, clientVars
  <2> QED  BY <2>1, SameClients
<1> QED  BY <1>1, <1>2, <1>3, <1>4, <1>5, <1>6, <1>7, <1>8, <1>9, <1>10
         DEF Next, Handler, Session, FillerStep

(* The count of an address is the number of its connections that are being *)
(* served, and never above the limit (ConnLimiter, joinGate). *)
THEOREM SlotsAreExact == Spec => []SlotsMatchConnections
<1>1. Counted => SlotsMatchConnections
  BY DEF Counted
<1> QED  BY <1>1, CountedInit, CountedNext, PTL DEF Spec

-----------------------------------------------------------------------------
(* The shutdown. *)

(* A room main has waited for never runs again, nothing is sent into the   *)
(* channel before it is closed that would not be taken out, and the        *)
(* persister ends with an empty channel that stays empty. *)
HandedOver ==
    /\ rooms \in Seq({"running", "stopped"})
    /\ \A r \in waited : r \in Started /\ ~Runs(r)
    /\ persister = "done" => Closed /\ queue = 0
    /\ main = "exit" => persister = "done"
    /\ ~Closed => panicked = {}
    /\ panicked \intersect waited = {}

LEMMA HandedOverInit == Init => HandedOver
  BY DEF Init, HandedOver, Closed, Started

\* Every step keeps what main waits for.
LEMMA HandedOverNext == HandedOver /\ [Next]_vars => HandedOver'
<1> SUFFICES ASSUME HandedOver, [Next]_vars PROVE HandedOver'
  OBVIOUS
<1>1. ASSUME UNCHANGED stopVars, rooms' \in Seq({"running", "stopped"}),
             Started \subseteq Started', \A r \in Started : ~Runs(r) => ~Runs(r)'
      PROVE  HandedOver'
  BY <1>1 DEF HandedOver, stopVars, Closed
<1>2. ASSUME UNCHANGED <<rooms, stopVars>> PROVE HandedOver'
  BY <1>1, <1>2 DEF HandedOver, Started, Runs
<1>3. ASSUME NEW h \in Human, Connect(h) \/ Handler(h) \/ Disconnect(h) PROVE HandedOver'
  <2>1. CASE Assign(h)
    <3>1. UNCHANGED stopVars /\ (UNCHANGED rooms \/ rooms' = Append(rooms, "running"))
      BY <2>1 DEF Assign
    <3>2. CASE rooms' = Append(rooms, "running")
      <4>1. /\ rooms' \in Seq({"running", "stopped"})
            /\ Started \subseteq Started'
            /\ \A r \in Started : rooms'[r] = rooms[r]
        BY <3>2 DEF HandedOver, Started
      <4> QED  BY <1>1, <3>1, <4>1 DEF Runs
    <3> QED  BY <1>2, <3>1, <3>2
  <2>2. CASE ~Assign(h)
    <3>1. UNCHANGED <<rooms, stopVars>>
      BY <1>3, <2>2 DEF Connect, Handler, Disconnect, HandshakeFails, PostJoin, AbandonJoin,
           Release, roomVars
    <3> QED  BY <1>2, <3>1
  <2> QED  BY <2>1, <2>2
<1>4. ASSUME NEW c \in Client, Session(c) PROVE HandedOver'
  <2>1. UNCHANGED <<rooms, stopVars>>
    BY <1>4 DEF Session, SessionEnds, PostLeave, RunReturns, roomVars
  <2> QED  BY <1>2, <2>1
<1>5. ASSUME NEW r \in Started, Handle(r) \/ \E c \in Client : Drop(r, c) PROVE HandedOver'
  <2>1. UNCHANGED <<rooms, stopVars>>
    BY <1>5 DEF Handle, Drop
  <2> QED  BY <1>2, <2>1
<1>6. ASSUME NEW r \in Started, StopRoom(r) PROVE HandedOver'
  <2>1. UNCHANGED stopVars /\ rooms' = [rooms EXCEPT ![r] = "stopped"]
    BY <1>6 DEF StopRoom
  <2>2. /\ rooms' \in Seq({"running", "stopped"}) /\ Started' = Started
        /\ \A s \in Started : rooms'[s] = IF s = r THEN "stopped" ELSE rooms[s]
    BY <2>1 DEF HandedOver, Started
  <2> QED  BY <1>1, <2>1, <2>2 DEF Runs
<1>7. ASSUME NEW r \in Started, SendPersist(r) PROVE HandedOver'
  <2>1. /\ Runs(r) /\ UNCHANGED <<rooms, main, persister, waited>>
        /\ \/ Closed /\ panicked' = panicked \union {r} /\ UNCHANGED queue
           \/ ~Closed /\ UNCHANGED panicked
    BY <1>7 DEF SendPersist, roomVars
  <2>2. r \notin waited
    BY <2>1 DEF HandedOver
  <2> QED  BY <2>1, <2>2 DEF HandedOver, Closed, Started, Runs
<1>8. ASSUME FillerStep PROVE HandedOver'
  <2>1. UNCHANGED <<rooms, stopVars>>
    BY <1>8 DEF FillerStep, Reconcile, VisitRoom, AskState, Count, AddBot, BotJoined,
         StopNewest, Adjusted, FillerStops, roomVars
  <2> QED  BY <1>2, <2>1
<1>9. ASSUME Persist PROVE HandedOver'
  BY <1>9 DEF Persist, HandedOver, Closed, Started, Runs, roomVars
<1>10. ASSUME Signal \/ ShutHttp \/ WaitFiller \/ Exit \/ ExitLate PROVE HandedOver'
  BY <1>10 DEF Signal, ShutHttp, WaitFiller, Exit, ExitLate, Goto, HandedOver, Closed,
       Started, Runs, roomVars
<1>11. ASSUME WaitRooms PROVE HandedOver'
  BY <1>11 DEF WaitRooms, RoomsStopped, Goto, HandedOver, Closed, Started, Runs, roomVars
<1>12. ASSUME UNCHANGED vars PROVE HandedOver'
  BY <1>2, <1>12 DEF vars, roomVars
<1> QED  BY <1>3, <1>4, <1>5, <1>6, <1>7, <1>8, <1>9, <1>10, <1>11, <1>12
         DEF Next, MainStep

(* When the server exits within its grace, all the persister was handed is *)
(* written, and no room that main has waited for sends to the closed       *)
(* channel (shutdown, Hub.Wait, Persister.Run). *)
THEOREM NothingIsLost == Spec => []NothingLost
<1>1. HandedOver => NothingLost
  BY DEF HandedOver, NothingLost
<1> QED  BY <1>1, HandedOverInit, HandedOverNext, PTL DEF Spec

-----------------------------------------------------------------------------
(* The rooms. *)

Event == [kind : {"join", "leave", "state"}, who : Client \union {0}]
Housed ==
    /\ rooms \in Seq({"running", "stopped"})
    /\ inbox \in [RoomNumber -> Seq(Event)]
    /\ DOMAIN members = RoomNumber
    /\ \A r \in RoomNumber : IsFiniteSet(members[r])
    /\ WithinLimits

LEMMA HousedInit == Init => Housed
<1> SUFFICES ASSUME Init PROVE Housed
  OBVIOUS
<1>1. Cardinality({}) = 0 /\ IsFiniteSet({})
  BY FS_EmptySet
<1> QED  BY <1>1, LobbyAssumption DEF Init, Housed, WithinLimits, RoomNumber

(* A post finds room, and a room that does not exist has no inbox to grow. *)
LEMMA HousedPost ==
    ASSUME Housed, UNCHANGED <<rooms, members>>,
           NEW r, NEW kind \in {"join", "leave", "state"}, NEW who \in Client \union {0},
           RoomForEvent(r), inbox' = Posted(r, kind, who)
    PROVE  Housed'
<1> DEFINE e == [kind |-> kind, who |-> who]
<1>1. e \in Event
  BY DEF Event
<1> HIDE DEF e
<1>2. inbox' = [inbox EXCEPT ![r] = Append(@, e)] /\ Len(inbox[r]) < InboxSize
  BY DEF Posted, RoomForEvent, e
<1>3. ASSUME NEW s \in RoomNumber
      PROVE  inbox'[s] \in Seq(Event) /\ Len(inbox'[s]) <= InboxSize
  <2>1. CASE s = r
    <3>1. inbox'[s] = Append(inbox[s], e)  BY <1>2, <2>1 DEF Housed
    <3>2. inbox[s] \in Seq(Event)  BY DEF Housed
    <3>3. Len(inbox'[s]) = Len(inbox[s]) + 1 /\ inbox'[s] \in Seq(Event)
      BY <1>1, <3>1, <3>2
    <3> QED  BY <1>2, <2>1, <3>2, <3>3, LobbyAssumption
  <2>2. CASE s # r
    BY <1>2, <2>2 DEF Housed, WithinLimits
  <2> QED  BY <2>1, <2>2
<1>4. inbox' \in [RoomNumber -> Seq(Event)]
  BY <1>2, <1>3 DEF Housed
<1> QED  BY <1>3, <1>4 DEF Housed, WithinLimits

(* The members of one room become others, no more than there are places. *)
LEMMA HousedMembers ==
    ASSUME Housed, UNCHANGED <<rooms, inbox>>, NEW r, NEW S,
           members' = [members EXCEPT ![r] = S],
           r \in RoomNumber => IsFiniteSet(S) /\ Cardinality(S) <= MaxPlayers
    PROVE  Housed'
  BY DEF Housed, WithinLimits

LEMMA Fewer ==
    ASSUME Housed, NEW r \in RoomNumber, NEW S \in SUBSET members[r]
    PROVE  IsFiniteSet(S) /\ Cardinality(S) <= MaxPlayers
<1>1. IsFiniteSet(members[r]) /\ Cardinality(members[r]) <= MaxPlayers
  BY DEF Housed, WithinLimits
<1>2. /\ IsFiniteSet(S) /\ Cardinality(S) <= Cardinality(members[r])
      /\ Cardinality(S) \in Nat /\ Cardinality(members[r]) \in Nat
  BY <1>1, FS_Subset, FS_CardinalityType
<1> QED  BY <1>1, <1>2, LobbyAssumption

LEMMA OneMore ==
    ASSUME Housed, NEW r \in RoomNumber, NEW c, Admits(r, c)
    PROVE  /\ IsFiniteSet(members[r] \union {c})
           /\ Cardinality(members[r] \union {c}) <= MaxPlayers
<1>1. IsFiniteSet(members[r]) /\ Cardinality(members[r]) < MaxPlayers
  BY DEF Housed, Admits
<1>2. /\ IsFiniteSet(members[r] \union {c}) /\ Cardinality(members[r]) \in Nat
      /\ \/ Cardinality(members[r] \union {c}) = Cardinality(members[r])
         \/ Cardinality(members[r] \union {c}) = Cardinality(members[r]) + 1
  BY <1>1, FS_AddElement, FS_CardinalityType
<1> QED  BY <1>1, <1>2, LobbyAssumption

LEMMA HousedHandle ==
    ASSUME Housed, NEW r \in Started, Handle(r)
    PROVE  Housed'
<1> DEFINE ev == Head(inbox[r])
<1>0. r \in RoomNumber
  BY LobbyAssumption DEF Housed, WithinLimits, Started, RoomNumber
<1>1. /\ inbox[r] # << >> /\ inbox' = [inbox EXCEPT ![r] = Tail(@)] /\ UNCHANGED rooms
      /\ \/ Admits(r, ev.who) /\ members' = [members EXCEPT ![r] = @ \union {ev.who}]
         \/ members' = [members EXCEPT ![r] = @ \ {ev.who}]
         \/ UNCHANGED members
  BY DEF Handle
<1>2. ASSUME NEW s \in RoomNumber
      PROVE  inbox'[s] \in Seq(Event) /\ Len(inbox'[s]) <= InboxSize
  <2>1. CASE s = r
    <3>1. inbox'[s] = Tail(inbox[s]) /\ inbox[s] # << >> /\ inbox[s] \in Seq(Event)
          /\ Len(inbox[s]) <= InboxSize
      BY <1>1, <2>1 DEF Housed, WithinLimits
    <3>2. inbox'[s] \in Seq(Event) /\ Len(inbox'[s]) = Len(inbox[s]) - 1
      BY <3>1
    <3> QED  BY <3>1, <3>2, LobbyAssumption
  <2>2. CASE s # r
    BY <1>1, <2>2 DEF Housed, WithinLimits
  <2> QED  BY <2>1, <2>2
<1>3. DOMAIN members' = RoomNumber
  BY <1>1 DEF Housed
<1>4. ASSUME NEW s \in RoomNumber
      PROVE  IsFiniteSet(members'[s]) /\ Cardinality(members'[s]) <= MaxPlayers
  <2>1. CASE s = r /\ Admits(r, ev.who) /\ members'[s] = members[r] \union {ev.who}
    <3> HIDE DEF ev
    <3> QED  BY <2>1, OneMore
  <2>2. CASE members'[s] \subseteq members[s]
    BY <2>2, Fewer
  <2>3. (s = r /\ Admits(r, ev.who) /\ members'[s] = members[r] \union {ev.who})
        \/ members'[s] \subseteq members[s]
    <3> HIDE DEF ev
    <3> QED  BY <1>1 DEF Housed
  <2> QED  BY <2>1, <2>2, <2>3
<1>5. inbox' \in [RoomNumber -> Seq(Event)]
  BY <1>1, <1>2 DEF Housed
<1> QED  BY <1>1, <1>2, <1>3, <1>4, <1>5 DEF Housed, WithinLimits

\* Every step keeps the rooms within their limits.
LEMMA HousedNext == Housed /\ [Next]_vars => Housed'
<1> SUFFICES ASSUME Housed, [Next]_vars PROVE Housed'
  OBVIOUS
<1>1. ASSUME UNCHANGED roomVars PROVE Housed'
  BY <1>1 DEF roomVars, Housed, WithinLimits
<1>2. ASSUME NEW h \in Human, Assign(h) PROVE Housed'
  <2>1. /\ UNCHANGED <<inbox, members>>
        /\ UNCHANGED rooms \/ (Len(rooms) < MaxRooms /\ rooms' = Append(rooms, "running"))
    BY <1>2 DEF Assign
  <2>2. CASE Len(rooms) < MaxRooms /\ rooms' = Append(rooms, "running")
    <3>1. rooms' \in Seq({"running", "stopped"}) /\ Len(rooms') = Len(rooms) + 1
      BY <2>2 DEF Housed
    <3>2. Len(rooms) \in Nat
      BY DEF Housed
    <3>3. Len(rooms') <= MaxRooms
      BY <2>2, <3>1, <3>2, LobbyAssumption
    <3> QED  BY <2>1, <3>1, <3>3 DEF Housed, WithinLimits
  <2> QED  BY <1>1, <2>1, <2>2 DEF roomVars
<1>3. ASSUME NEW h \in Human, PostJoin(h) PROVE Housed'
  <2>1. /\ UNCHANGED <<rooms, members>>
        /\ \/ UNCHANGED inbox
           \/ RoomForEvent(room[h]) /\ inbox' = Posted(room[h], "join", h)
    BY <1>3 DEF PostJoin
  <2> QED  BY <1>1, <2>1, HousedPost DEF roomVars, Client
<1>4. ASSUME NEW c \in Client, PostLeave(c) PROVE Housed'
  <2>1. /\ UNCHANGED <<rooms, members>>
        /\ \/ UNCHANGED inbox
           \/ RoomForEvent(room[c]) /\ inbox' = Posted(room[c], "leave", c)
    BY <1>4 DEF PostLeave
  <2> QED  BY <1>1, <2>1, HousedPost DEF roomVars
<1>5. ASSUME AskState PROVE Housed'
  <2>1. /\ UNCHANGED <<rooms, members>>
        /\ \/ UNCHANGED inbox
           \/ RoomForEvent(fill.room) /\ inbox' = Posted(fill.room, "state", 0)
    BY <1>5 DEF AskState
  <2> QED  BY <1>1, <2>1, HousedPost DEF roomVars
<1>6. ASSUME AddBot PROVE Housed'
  <2>1. /\ UNCHANGED <<rooms, members>>
        /\ \/ UNCHANGED inbox
           \/ /\ RoomForEvent(fill.room)
              /\ \E b \in Bot : inbox' = Posted(fill.room, "join", b)
    BY <1>6 DEF AddBot
  <2> QED  BY <1>1, <2>1, HousedPost DEF roomVars, Client
<1>7. ASSUME NEW r \in Started, Handle(r) PROVE Housed'
  BY <1>7, HousedHandle
<1>8. ASSUME NEW r \in Started, NEW c \in Client, Drop(r, c) PROVE Housed'
  <2>1. UNCHANGED <<rooms, inbox>> /\ members' = [members EXCEPT ![r] = members[r] \ {c}]
    BY <1>8 DEF Drop
  <2>2. r \in RoomNumber => /\ IsFiniteSet(members[r] \ {c})
                            /\ Cardinality(members[r] \ {c}) <= MaxPlayers
    BY Fewer
  <2> QED  BY <2>1, <2>2, HousedMembers
<1>9. ASSUME NEW r \in Started, StopRoom(r) PROVE Housed'
  <2>1. /\ UNCHANGED inbox /\ members' = [members EXCEPT ![r] = {}]
        /\ rooms' = [rooms EXCEPT ![r] = "stopped"]
    BY <1>9 DEF StopRoom
  <2>2. rooms' \in Seq({"running", "stopped"}) /\ Len(rooms') = Len(rooms)
    BY <2>1 DEF Housed, Started
  <2>3. r \in RoomNumber => IsFiniteSet({}) /\ Cardinality({}) <= MaxPlayers
    BY Fewer
  <2> QED  BY <2>1, <2>2, <2>3 DEF Housed, WithinLimits
<1>10. ASSUME NEW h \in Human,
              Connect(h) \/ HandshakeFails(h) \/ AbandonJoin(h) \/ Release(h) \/ Disconnect(h)
       PROVE  Housed'
  <2>1. UNCHANGED roomVars
    BY <1>10 DEF Connect, HandshakeFails, AbandonJoin, Release, Disconnect
  <2> QED  BY <1>1, <2>1
<1>11. ASSUME NEW c \in Client, SessionEnds(c) \/ RunReturns(c) PROVE Housed'
  <2>1. UNCHANGED roomVars
    BY <1>11 DEF SessionEnds, RunReturns
  <2> QED  BY <1>1, <2>1
<1>12. ASSUME \/ \E r \in Started : SendPersist(r)
              \/ Reconcile \/ VisitRoom \/ Count \/ BotJoined \/ StopNewest \/ Adjusted
              \/ FillerStops \/ Persist \/ Signal \/ MainStep \/ ExitLate \/ UNCHANGED vars
       PROVE  Housed'
  <2>1. UNCHANGED roomVars
    BY <1>12 DEF SendPersist, Reconcile, VisitRoom, Count, BotJoined, StopNewest, Adjusted,
         FillerStops, Persist, Signal, MainStep, ShutHttp, WaitRooms, WaitFiller, Exit,
         ExitLate, vars
  <2> QED  BY <1>1, <2>1
<1> QED  BY <1>2, <1>3, <1>4, <1>5, <1>6, <1>7, <1>8, <1>9, <1>10, <1>11, <1>12
         DEF Next, Handler, Session, FillerStep

(* No room holds more players than MaxPlayers, no hub more rooms than      *)
(* MaxRooms, and no inbox more than its places, though Assign may send     *)
(* many clients to the same last place (Hub.Assign, handleJoin, post). *)
THEOREM RoomsStayWithinLimits == Spec => []WithinLimits
<1>1. Housed => WithinLimits
  BY DEF Housed
<1> QED  BY <1>1, HousedInit, HousedNext, PTL DEF Spec

\* The fold of Live: what holds after each of the bots in their order.
LEMMA LiveFold ==
  ASSUME NEW r, tracked[r] \in Seq(Bot), NEW W, << >> \in W[0],
         \A k \in 1 .. Len(tracked[r]) : \A u \in Seq(Bot) :
            u \in W[k - 1] =>
              (IF Returned(tracked[r][k]) THEN u ELSE Append(u, tracked[r][k])) \in W[k]
  PROVE  Live(r) \in W[Len(tracked[r])] /\ Live(r) \in Seq(Bot)
<1> DEFINE t == tracked[r]
           n == Len(t)
           V == [k \in 0 .. n |-> Seq(Bot)]
           Op(u, b) == IF Returned(b) THEN u ELSE Append(u, b)
           F == [k \in 1 .. n |-> [u \in Seq(Bot) |-> Op(u, t[k])]]
           base == << >>
<1>0. n \in Nat /\ DOMAIN t = 1 .. n /\ (\A k \in 1 .. n : t[k] \in Bot) /\ base \in Seq(Bot)
  OBVIOUS
<1>1. \A k \in 1 .. n : \A u \in Seq(Bot) : Op(u, t[k]) \in Seq(Bot)
  BY <1>0
<1>2. /\ \A k \in 1 .. n : F[k] \in [V[k - 1] -> V[k]]
      /\ base \in V[0] /\ \A j, k \in 0 .. n : j <= k => V[j] \subseteq V[k]
  <2>1. \A k \in 1 .. n : F[k] \in [Seq(Bot) -> Seq(Bot)]
    <3> HIDE DEF Op, n, t
    <3> QED BY <1>0, <1>1
  <2>2. \A k \in 1 .. n : V[k - 1] = Seq(Bot) /\ V[k] = Seq(Bot)
    <3> HIDE DEF n
    <3> QED BY <1>0
  <2>3. 0 \in 0 .. n
    BY <1>0
  <2> HIDE DEF F, n, base
  <2> QED BY <1>0, <2>1, <2>2, <2>3
<1>3. PICK g : Taken(n, base, F, g) /\ Kept(n, V, g)
  <2> HIDE DEF F, base, n, V
  <2> QED BY <1>0, <1>2, FoldExists
<1>4. g = [s \in SUBSET DOMAIN t |-> IF s = {} THEN base ELSE Op(g[s \ {Max(s)}], t[Max(s)])]
  <2>1. \A s \in SUBSET (1 .. n) : s # {} => Max(s) \in 1 .. n /\ g[s \ {Max(s)}] \in Seq(Bot)
    <3>1. \A s \in SUBSET (1 .. n) : s # {} => Max(s) \in 1 .. n /\ g[s \ {Max(s)}] \in V[Max(s) - 1]
      <4> HIDE DEF F, base, n, V
      <4> QED BY <1>0, <1>2, <1>3, BeforeLast
    <3>2. \A k \in 1 .. n : V[k - 1] = Seq(Bot)
      <4> HIDE DEF n
      <4> QED BY <1>0
    <3> HIDE DEF V, n
    <3> QED BY <3>1, <3>2
  <2>2. \A s \in SUBSET (1 .. n) : s # {} =>
           F[Max(s)][g[s \ {Max(s)}]] = Op(g[s \ {Max(s)}], t[Max(s)])
    <3>1. \A k \in 1 .. n : \A u \in Seq(Bot) : F[k][u] = Op(u, t[k])
      <4> HIDE DEF Op, n, t
      <4> QED BY <1>0
    <3> HIDE DEF F, Op, base, n, t
    <3> QED BY <1>0, <2>1, <3>1
  <2> HIDE DEF F, Op, base, n, t
  <2> QED BY <1>0, <1>3, <2>2 DEF Taken
<1>5. PICK x : /\ x = [s \in SUBSET DOMAIN t |->
                         IF s = {} THEN base ELSE Op(x[s \ {Max(s)}], t[Max(s)])]
               /\ Live(r) = x[DOMAIN t]
  BY <1>4 DEF Live, FoldLeft, MapThenFoldSet
<1>6. x[{}] = base /\ \A k \in 1 .. n : x[1 .. k] = Op(x[1 .. (k - 1)], t[k])
  <2> HIDE DEF Op, base, n, t
  <2>1. x[{}] = base
    BY <1>5
  <2>2. \A k \in 1 .. n : x[1 .. k] = Op(x[(1 .. k) \ {Max(1 .. k)}], t[Max(1 .. k)])
    <3> TAKE k \in 1 .. n
    <3>1. 1 .. k \in SUBSET DOMAIN t /\ 1 .. k # {}
      BY <1>0, Segments
    <3> QED BY <1>5, <3>1
  <2>3. \A k \in 1 .. n : (1 .. k) \ {Max(1 .. k)} = 1 .. (k - 1) /\ Max(1 .. k) = k
    BY <1>0, Segments
  <2> QED BY <2>1, <2>2, <2>3
<1> DEFINE U == [k \in 0 .. n |-> W[k] \intersect Seq(Bot)]
<1>7. x[1 .. n] \in U[n]
  <2>1. \A k \in 0 .. n : U[k] = W[k] \intersect Seq(Bot)
    OBVIOUS
  <2>2. \A k \in 1 .. n : \A u \in U[k - 1] : Op(u, t[k]) \in U[k]
    <3> TAKE k \in 1 .. n
    <3>1. k - 1 \in 0 .. n /\ k \in 0 .. n
      BY <1>0
    <3> TAKE u \in U[k - 1]
    <3>2. u \in W[k - 1] /\ u \in Seq(Bot)
      BY <2>1, <3>1
    <3>3. Op(u, t[k]) \in W[k] /\ Op(u, t[k]) \in Seq(Bot)
      BY <1>1, <3>2
    <3> HIDE DEF U, Op, n, t
    <3> QED BY <2>1, <3>1, <3>3
  <2>3. x[{}] \in U[0]
    <3>1. 0 \in 0 .. n
      BY <1>0
    <3> HIDE DEF U, n
    <3> QED BY <1>0, <1>6, <2>1, <3>1
  <2> HIDE DEF Op, base, n, t, U
  <2>4. \A k \in 1 .. n : x[1 .. (k - 1)] \in U[k - 1] => x[1 .. k] \in U[k]
    BY <1>6, <2>2
  <2> QED BY <1>0, <2>3, <2>4, FoldClimbs
<1>8. U[n] = W[n] \intersect Seq(Bot)
  <2>1. n \in 0 .. n
    BY <1>0
  <2> HIDE DEF n
  <2> QED BY <2>1
<1>9. Live(r) \in U[n]
  <2> HIDE DEF U, Op, base
  <2> QED BY <1>0, <1>5, <1>7
<1> QED BY <1>8, <1>9

\* reconcileRoom keeps the bots that have not returned, each once.
LEMMA LiveEffect ==
  ASSUME NEW r, tracked[r] \in Seq(Bot), IsInjective(tracked[r])
  PROVE  /\ Live(r) \in Seq(Bot) /\ IsInjective(Live(r))
         /\ Range(Live(r)) = {b \in Range(tracked[r]) : ~Returned(b)}
<1> DEFINE t == tracked[r]
           n == Len(t)
           Good(u, k) == /\ IsInjective(u)
                         /\ \A i \in 1 .. Len(u) : \E j \in 1 .. k : u[i] = t[j] /\ ~Returned(t[j])
                         /\ \A j \in 1 .. k : ~Returned(t[j]) => \E i \in 1 .. Len(u) : u[i] = t[j]
           W == [k \in 0 .. n |-> {u \in Seq(Bot) : Good(u, k)}]
<1>0. n \in Nat /\ DOMAIN t = 1 .. n /\ \A k \in 1 .. n : t[k] \in Bot
  OBVIOUS
<1>1. \A k \in 0 .. n : W[k] = {u \in Seq(Bot) : Good(u, k)}
  OBVIOUS
<1>2. << >> \in W[0]
  <2>1. << >> \in Seq(Bot) /\ Good(<< >>, 0)
    BY DEF IsInjective
  <2> QED BY <1>0, <1>1, <2>1
<1>3. ASSUME NEW k \in 1 .. n, NEW u \in Seq(Bot), u \in W[k - 1]
      PROVE  (IF Returned(t[k]) THEN u ELSE Append(u, t[k])) \in W[k]
  <2>1. k - 1 \in 0 .. n /\ k \in 0 .. n
    BY <1>0
  <2>2. Good(u, k - 1)
    <3> HIDE DEF Good
    <3> QED BY <1>1, <1>3, <2>1
  <2>3. CASE Returned(t[k])
    <3>1. Good(u, k)
      <4>1. \A j \in 1 .. k : j \in 1 .. k - 1 \/ j = k
        BY <1>0
      <4>2. \A j \in 1 .. k - 1 : j \in 1 .. k
        BY <1>0
      <4> QED BY <2>2, <2>3, <4>1, <4>2
    <3> HIDE DEF Good, W
    <3> QED BY <1>1, <2>1, <2>3, <3>1
  <2>4. CASE ~Returned(t[k])
    <3> DEFINE v == Append(u, t[k])
    <3>0. t[k] \in Bot /\ Len(u) \in Nat
      BY <1>0
    <3>1. /\ v \in Seq(Bot) /\ Len(v) = Len(u) + 1 /\ v[Len(u) + 1] = t[k]
          /\ \A i \in 1 .. Len(u) : v[i] = u[i]
      BY <3>0
    <3>2. \A i \in 1 .. Len(v) : i \in 1 .. Len(u) \/ i = Len(u) + 1
      BY <3>0, <3>1
    <3>3. \A j \in 1 .. k : j \in 1 .. k - 1 \/ j = k
      BY <1>0
    <3>4. \A i \in 1 .. Len(u) : u[i] # t[k]
      <4> SUFFICES ASSUME NEW i \in 1 .. Len(u), u[i] = t[k] PROVE FALSE
        OBVIOUS
      <4>1. PICK j \in 1 .. k - 1 : u[i] = t[j]
        BY <2>2
      <4>2. j \in DOMAIN t /\ k \in DOMAIN t /\ j # k
        BY <1>0
      <4>3. t[j] # t[k]
        BY <4>2 DEF IsInjective
      <4> QED BY <4>1, <4>3
    <3>5. IsInjective(v)
      <4>1. IsInjective(u)
        BY <2>2
      <4> SUFFICES ASSUME NEW i \in 1 .. Len(v), NEW j \in 1 .. Len(v), v[i] = v[j]
                   PROVE  i = j
        BY DEF IsInjective
      <4> HIDE DEF v
      <4>2. CASE i \in 1 .. Len(u) /\ j \in 1 .. Len(u)
        BY <3>1, <4>1, <4>2 DEF IsInjective
      <4>3. CASE i = Len(u) + 1 /\ j \in 1 .. Len(u)
        BY <3>1, <3>4, <4>3
      <4>4. CASE i \in 1 .. Len(u) /\ j = Len(u) + 1
        BY <3>1, <3>4, <4>4
      <4> QED BY <3>2, <4>2, <4>3, <4>4
    <3>6. \A i \in 1 .. Len(v) : \E j \in 1 .. k : v[i] = t[j] /\ ~Returned(t[j])
      <4> TAKE i \in 1 .. Len(v)
      <4> HIDE DEF v
      <4>1. CASE i \in 1 .. Len(u)
        <5>1. PICK j \in 1 .. k - 1 : u[i] = t[j] /\ ~Returned(t[j])
          BY <2>2, <4>1
        <5>2. j \in 1 .. k /\ v[i] = t[j]
          BY <3>1, <4>1, <5>1
        <5> QED BY <5>1, <5>2
      <4>2. CASE i = Len(u) + 1
        BY <2>4, <3>1, <4>2
      <4> QED BY <3>2, <4>1, <4>2
    <3>7. \A j \in 1 .. k : ~Returned(t[j]) => \E i \in 1 .. Len(v) : v[i] = t[j]
      <4> SUFFICES ASSUME NEW j \in 1 .. k, ~Returned(t[j]) PROVE \E i \in 1 .. Len(v) : v[i] = t[j]
        OBVIOUS
      <4> HIDE DEF v
      <4>1. CASE j \in 1 .. k - 1
        <5>1. PICK i \in 1 .. Len(u) : u[i] = t[j]
          BY <2>2, <4>1
        <5>2. i \in 1 .. Len(v) /\ v[i] = t[j]
          BY <3>0, <3>1, <5>1
        <5> QED BY <5>2
      <4>2. CASE j = k
        <5>1. Len(u) + 1 \in 1 .. Len(v)
          BY <3>0, <3>1
        <5> QED BY <3>1, <4>2, <5>1
      <4> QED BY <3>3, <4>1, <4>2
    <3>8. Good(v, k)
      BY <3>5, <3>6, <3>7
    <3> HIDE DEF Good, W, v
    <3>9. v \in W[k]
      BY <1>1, <2>1, <3>1, <3>8
    <3> QED BY <2>4, <3>9 DEF v
  <2> QED BY <2>3, <2>4
<1>4. Live(r) \in W[n] /\ Live(r) \in Seq(Bot)
  <2> HIDE DEF W
  <2> QED BY <1>2, <1>3, LiveFold
<1>5. Good(Live(r), n)
  <2>1. n \in 0 .. n
    BY <1>0
  <2> HIDE DEF Good, W, n
  <2> QED BY <1>1, <1>4, <2>1
<1>6. Range(Live(r)) = {b \in Range(t) : ~Returned(b)}
  <2> DEFINE l == Live(r)
  <2>1. l \in Seq(Bot) /\ DOMAIN l = 1 .. Len(l)
    BY <1>4
  <2> HIDE DEF l
  <2>2. ASSUME NEW b \in Range(l) PROVE b \in Range(t) /\ ~Returned(b)
    BY <1>0, <1>5, <2>1 DEF Range, l
  <2>3. ASSUME NEW b \in Range(t), ~Returned(b) PROVE b \in Range(l)
    <3>1. PICK j \in 1 .. n : t[j] = b
      BY <1>0 DEF Range
    <3>2. PICK i \in 1 .. Len(l) : l[i] = b
      BY <1>5, <2>3, <3>1 DEF l
    <3> HIDE DEF t
    <3> QED BY <2>1, <3>2 DEF Range
  <2> QED BY <2>2, <2>3 DEF l
<1> QED BY <1>4, <1>5, <1>6

\* The clients with a join or a leave in the inbox of a room, and with them the
\* clients the room counts as players.
Writers(r) == {inbox[r][k].who : k \in {j \in 1 .. Len(inbox[r]) : inbox[r][j].kind # "state"}}
Known(r) == Writers(r) \union members[r]

\* A client is known to no room but the one it was sent to, and to none before.
Sent ==
    /\ room \in [Client -> RoomNumber \union {0}]
    /\ \A c \in Client : pc[c] \in {"assigned", "joining", "running", "leaving"} => room[c] \in Started
    /\ \A r \in RoomNumber :
         /\ \A c \in Known(r) : c \in Client /\ room[c] = r /\ r \in Started
         /\ \A h \in Human : pc[h] \in {"off", "handshake"} => h \notin Known(r)

\* Where the filler is: in a room of its snapshot of the rooms, and the bot that
\* is joining is in no list.
Filling ==
    /\ DOMAIN fill = {"at", "room", "last", "keep", "want", "bot"}
    /\ fill.room \in Nat /\ fill.last \in Nat /\ fill.last <= Len(rooms)
    /\ fill.at \notin {"sleep", "stopped"} => fill.room \in Started
    /\ fill.at = "join" => /\ fill.bot \in Bot /\ room[fill.bot] = fill.room
                           /\ \A r \in RoomNumber : fill.bot \notin Range(tracked[r])

\* The list of a room has bots of that room, each once.
Listed ==
    /\ tracked \in [RoomNumber -> Seq(Bot)]
    /\ \A r \in RoomNumber :
         /\ IsInjective(tracked[r])
         /\ \A b \in Range(tracked[r]) : room[b] = r /\ r \in Started
    /\ Filling

\* A post adds its sender to those a room knows.
LEMMA WritersPost ==
  ASSUME Housed, NEW r, NEW kind \in {"join", "leave", "state"}, NEW who \in Client \union {0},
         inbox' = Posted(r, kind, who), NEW s \in RoomNumber
  PROVE  \A c \in Writers(s)' : c \in Writers(s) \/ (c = who /\ s = r /\ kind # "state")
<1> DEFINE e == [kind |-> kind, who |-> who]
<1>1. e \in Event /\ e.kind = kind /\ e.who = who
  BY DEF Event
<1> HIDE DEF e
<1>2. inbox[s] \in Seq(Event) /\ Len(inbox[s]) \in Nat
  BY DEF Housed
<1>3. inbox' = [inbox EXCEPT ![r] = Append(@, e)]
  BY DEF Posted, e
<1>4. CASE s # r
  BY <1>3, <1>4 DEF Writers, Housed
<1>5. CASE s = r
  <2>1. inbox'[s] = Append(inbox[s], e)
    BY <1>3, <1>5 DEF Housed
  <2>2. /\ Len(inbox'[s]) = Len(inbox[s]) + 1 /\ inbox'[s][Len(inbox[s]) + 1] = e
        /\ \A k \in 1 .. Len(inbox[s]) : inbox'[s][k] = inbox[s][k]
    BY <1>1, <1>2, <2>1
  <2> TAKE c \in Writers(s)'
  <2>3. PICK k \in 1 .. Len(inbox'[s]) : inbox'[s][k].kind # "state" /\ inbox'[s][k].who = c
    BY DEF Writers
  <2>4. CASE k \in 1 .. Len(inbox[s])
    BY <2>2, <2>3, <2>4 DEF Writers
  <2>5. CASE k = Len(inbox[s]) + 1
    BY <1>1, <1>5, <2>2, <2>3, <2>5
  <2> QED BY <1>2, <2>2, <2>4, <2>5
<1> QED BY <1>4, <1>5

\* What a room takes from its inbox was there, and nothing is new.
LEMMA TakenLetter ==
  ASSUME Housed, NEW r \in RoomNumber, inbox[r] # << >>, inbox' = [inbox EXCEPT ![r] = Tail(@)]
  PROVE  /\ Len(inbox[r]) \in Nat \ {0} /\ Len(inbox'[r]) = Len(inbox[r]) - 1
         /\ Head(inbox[r]) = inbox[r][1]
         /\ \A k \in 1 .. Len(inbox'[r]) : inbox'[r][k] = inbox[r][k + 1]
         /\ \A s \in RoomNumber : s # r => inbox'[s] = inbox[s]
<1>1. inbox[r] \in Seq(Event) /\ inbox'[r] = Tail(inbox[r])
  BY DEF Housed
<1>2. \A s \in RoomNumber : s # r => inbox'[s] = inbox[s]
  BY DEF Housed
<1>3. /\ Len(inbox[r]) \in Nat \ {0} /\ Len(Tail(inbox[r])) = Len(inbox[r]) - 1
      /\ Head(inbox[r]) = inbox[r][1]
      /\ \A k \in 1 .. Len(inbox[r]) - 1 : Tail(inbox[r])[k] = inbox[r][k + 1]
  BY <1>1
<1> QED BY <1>1, <1>2, <1>3

\* A room that takes a letter knows no more writers than before.
LEMMA WritersHandle ==
  ASSUME Housed, NEW r \in RoomNumber, inbox[r] # << >>, inbox' = [inbox EXCEPT ![r] = Tail(@)]
  PROVE  /\ \A s \in RoomNumber : Writers(s)' \subseteq Writers(s)
         /\ Head(inbox[r]).kind # "state" => Head(inbox[r]).who \in Writers(r)
<1>1. ASSUME NEW s \in RoomNumber, NEW c \in Writers(s)' PROVE c \in Writers(s)
  <2>1. CASE s # r
    BY <2>1, <1>1, TakenLetter DEF Writers
  <2>2. CASE s = r
    <3>1. PICK k \in 1 .. Len(inbox'[r]) : inbox'[r][k].kind # "state" /\ inbox'[r][k].who = c
      BY <1>1, <2>2 DEF Writers
    <3>0. /\ Len(inbox[r]) \in Nat \ {0} /\ Len(inbox'[r]) = Len(inbox[r]) - 1
          /\ \A i \in 1 .. Len(inbox'[r]) : inbox'[r][i] = inbox[r][i + 1]
      BY TakenLetter
    <3>2. k + 1 \in 1 .. Len(inbox[r]) /\ inbox'[r][k] = inbox[r][k + 1]
      BY <3>0
    <3>3. inbox[r][k + 1].kind # "state" /\ inbox[r][k + 1].who = c
      BY <3>1, <3>2
    <3> QED BY <2>2, <3>2, <3>3 DEF Writers
  <2> QED BY <2>1, <2>2
<1>2. Head(inbox[r]).kind # "state" => Head(inbox[r]).who \in Writers(r)
  <2>1. Head(inbox[r]) = inbox[r][1] /\ 1 \in 1 .. Len(inbox[r])
    BY TakenLetter
  <2> QED BY <2>1 DEF Writers
<1> QED BY <1>1, <1>2

\* What a step has to respect: who is sent elsewhere is known nowhere, and a
\* room comes to know only clients that were sent to it.
LEMMA SentKept ==
  ASSUME Sent, Started \subseteq Started',
         room' \in [Client -> RoomNumber \union {0}],
         \A c \in Client : pc'[c] \in {"assigned", "joining", "running", "leaving"} => room'[c] \in Started',
         \A h \in Human : pc'[h] \in {"off", "handshake"} => pc[h] \in {"off", "handshake"},
         \A r \in RoomNumber : \A c \in Known(r)' :
            \/ c \in Known(r) /\ room'[c] = room[c]
            \/ /\ c \in Client /\ room'[c] = r /\ r \in Started'
               /\ pc'[c] \notin {"off", "handshake"}
  PROVE  Sent'
<1>1. ASSUME NEW r \in RoomNumber, NEW c \in Known(r)'
      PROVE  c \in Client /\ room'[c] = r /\ r \in Started'
  BY DEF Sent
<1>2. ASSUME NEW r \in RoomNumber, NEW h \in Human, pc'[h] \in {"off", "handshake"}
      PROVE  h \notin Known(r)'
  BY <1>2 DEF Sent
<1> QED BY <1>1, <1>2 DEF Sent

\* Nobody is sent anywhere and no inbox moves.
LEMMA SentSame ==
  ASSUME Sent, UNCHANGED <<pc, room, roomVars>> PROVE Sent'
BY DEF Sent, roomVars, Known, Writers, Started

\* A client goes on, and nothing else changes.
LEMMA SentOnward ==
  ASSUME Sent, Counted, UNCHANGED <<room, roomVars>>, NEW c \in Client, NEW v,
         pc' = [pc EXCEPT ![c] = v],
         c \in Human /\ v \in {"off", "handshake"} => pc[c] \in {"off", "handshake"},
         v \in {"assigned", "joining", "running", "leaving"} => room[c] \in Started
  PROVE  Sent'
<1>1. Started' = Started /\ \A r \in RoomNumber : Known(r)' = Known(r)
  BY DEF roomVars, Started, Known, Writers
<1>2. \A d \in Client : pc'[d] = IF d = c THEN v ELSE pc[d]
  BY DEF Counted
<1>3. \A d \in Client : pc'[d] \in {"assigned", "joining", "running", "leaving"} => room'[d] \in Started'
  BY <1>1, <1>2 DEF Sent
<1>4. \A h \in Human : pc'[h] \in {"off", "handshake"} => pc[h] \in {"off", "handshake"}
  BY <1>2 DEF Client
<1>5. room' \in [Client -> RoomNumber \union {0}]
  BY DEF Sent
<1> QED BY <1>1, <1>3, <1>4, <1>5, SentKept

\* A client writes to its room and goes on.
LEMMA SentPost ==
  ASSUME Sent, Counted, Housed, UNCHANGED <<room, rooms, members>>,
         NEW c \in Client, NEW v, v \notin {"off", "handshake"}, NEW kind \in {"join", "leave"},
         room[c] \in Started, pc' = [pc EXCEPT ![c] = v], inbox' = Posted(room[c], kind, c)
  PROVE  Sent'
<1>1. Started' = Started
  BY DEF Started
<1>2. \A d \in Client : pc'[d] = IF d = c THEN v ELSE pc[d]
  BY DEF Counted
<1>3. \A d \in Client : pc'[d] \in {"assigned", "joining", "running", "leaving"} => room'[d] \in Started'
  BY <1>1, <1>2 DEF Sent
<1>4. \A h \in Human : pc'[h] \in {"off", "handshake"} => pc[h] \in {"off", "handshake"}
  BY <1>2 DEF Client
<1>5. room' \in [Client -> RoomNumber \union {0}]
  BY DEF Sent
<1>6. ASSUME NEW r \in RoomNumber, NEW d \in Known(r)'
      PROVE  d \in Known(r) \/ (d = c /\ r = room[c])
  BY <1>6, WritersPost DEF Known
<1>7. ASSUME NEW r \in RoomNumber, NEW d \in Known(r)'
      PROVE  \/ d \in Known(r) /\ room'[d] = room[d]
             \/ d \in Client /\ room'[d] = r /\ r \in Started' /\ pc'[d] \notin {"off", "handshake"}
  BY <1>1, <1>2, <1>6, <1>7
<1> QED BY <1>1, <1>3, <1>4, <1>5, <1>7, SentKept

\* Members are only taken away, rooms only stopped.
LEMMA SentFewer ==
  ASSUME Sent, UNCHANGED <<room, pc, inbox>>, Started' = Started,
         \A r \in RoomNumber : members'[r] \subseteq members[r]
  PROVE  Sent'
<1>1. \A r \in RoomNumber : Known(r)' \subseteq Known(r)
  BY DEF Known, Writers
<1> QED BY <1>1 DEF Sent

\* The hub sends a human to a room: it was known to none.
LEMMA SentAssign ==
  ASSUME Sent, Counted, Housed, NEW h \in Human, Assign(h)
  PROVE  Sent'
<1>0. h \in Client /\ pc[h] = "handshake" /\ UNCHANGED <<inbox, members>>
  BY DEF Client, Assign
<1>1. CASE pc' = [pc EXCEPT ![h] = "refused"] /\ UNCHANGED <<room, rooms>>
  BY <1>0, <1>1, SentOnward DEF roomVars
<1>2. ASSUME NEW r \in Started', room' = [room EXCEPT ![h] = r], pc' = [pc EXCEPT ![h] = "assigned"],
             Started \subseteq Started', r \in RoomNumber
      PROVE  Sent'
  <2>1. /\ \A d \in Client : pc'[d] = IF d = h THEN "assigned" ELSE pc[d]
        /\ \A d \in Client : room'[d] = IF d = h THEN r ELSE room[d]
        /\ room' \in [Client -> RoomNumber \union {0}]
    BY <1>2 DEF Counted, Sent
  <2>2. \A s \in RoomNumber : Known(s)' = Known(s) /\ h \notin Known(s)
    BY <1>0 DEF Known, Writers, Sent
  <2>3. \A d \in Client : pc'[d] \in {"assigned", "joining", "running", "leaving"} => room'[d] \in Started'
    BY <1>2, <2>1 DEF Sent
  <2>4. \A g \in Human : pc'[g] \in {"off", "handshake"} => pc[g] \in {"off", "handshake"}
    BY <2>1 DEF Client
  <2>5. \A s \in RoomNumber : \A c \in Known(s)' : c \in Known(s) /\ room'[c] = room[c]
    BY <2>1, <2>2 DEF Sent
  <2> QED BY <1>2, <2>1, <2>3, <2>4, <2>5, SentKept
<1>3. CASE WithPlace # {} /\ UNCHANGED rooms
           /\ room' = [room EXCEPT ![h] = CHOOSE r \in WithPlace : \A s \in WithPlace : r <= s]
           /\ pc' = [pc EXCEPT ![h] = "assigned"]
  <2> DEFINE r == CHOOSE x \in WithPlace : \A s \in WithPlace : x <= s
  <2>1. WithPlace \subseteq Nat /\ WithPlace \subseteq Started
    BY DEF WithPlace, Started, Housed
  <2>2. r \in WithPlace
    <3>1. \E x \in WithPlace : \A s \in WithPlace : x <= s
      BY <1>3, <2>1, LeastNumber
    <3> QED BY <3>1
  <2> HIDE DEF r
  <2>3. r \in Started' /\ r \in RoomNumber /\ Started' = Started
    <3>1. Started \subseteq RoomNumber
      BY LobbyAssumption DEF Started, Housed, WithinLimits, RoomNumber
    <3>2. Started' = Started
      BY <1>3 DEF Started
    <3> QED BY <2>1, <2>2, <3>1, <3>2
  <2>4. room' = [room EXCEPT ![h] = r]
    BY <1>3 DEF r
  <2> QED BY <1>2, <1>3, <2>3, <2>4
<1>4. CASE Len(rooms) < MaxRooms /\ rooms' = Append(rooms, "running")
           /\ room' = [room EXCEPT ![h] = Len(rooms) + 1]
           /\ pc' = [pc EXCEPT ![h] = "assigned"]
  <2>1. rooms \in Seq({"running", "stopped"})
    BY DEF Housed
  <2>2. Len(rooms) \in Nat /\ Len(rooms') = Len(rooms) + 1 /\ DOMAIN rooms' = 1 .. Len(rooms) + 1 /\ DOMAIN rooms = 1 .. Len(rooms)
    BY <1>4, <2>1
  <2>3. Len(rooms) + 1 \in Started' /\ Started \subseteq Started' /\ Len(rooms) + 1 \in RoomNumber
    BY <1>4, <2>2, LobbyAssumption DEF Started, RoomNumber
  <2> QED BY <1>2, <1>4, <2>3
<1> QED BY <1>0, <1>1, <1>3, <1>4 DEF Assign

\* A room that handles a letter counts at most its writer.
LEMMA SentHandle ==
  ASSUME Sent, Counted, Housed, NEW r \in Started, Handle(r)
  PROVE  Sent'
<1> DEFINE ev == Head(inbox[r])
<1>0. r \in RoomNumber
  BY LobbyAssumption DEF Housed, WithinLimits, Started, RoomNumber
<1>1. /\ inbox[r] # << >> /\ inbox' = [inbox EXCEPT ![r] = Tail(@)] /\ UNCHANGED <<rooms, room>>
      /\ \/ ev.kind = "join" /\ members' = [members EXCEPT ![r] = @ \union {ev.who}]
         \/ members' = [members EXCEPT ![r] = @ \ {ev.who}]
         \/ UNCHANGED members
      /\ UNCHANGED pc \/ \E v \in {"running", "refused"} : ev.kind = "join" /\ pc' = Answer(ev.who, v)
  BY DEF Handle
<1>2. \A s \in RoomNumber : Writers(s)' \subseteq Writers(s)
  BY <1>0, <1>1, WritersHandle
<1>3. ev.kind # "state" => ev.who \in Writers(r)
  BY <1>0, <1>1, WritersHandle
<1> HIDE DEF ev
<1>4. ASSUME NEW s \in RoomNumber, NEW c \in Known(s)' PROVE c \in Known(s)
  <2>1. \A x \in members'[s] : x \in members[s] \/ (s = r /\ x = ev.who /\ ev.kind = "join")
    BY <1>1 DEF Housed
  <2> QED BY <1>2, <1>3, <1>4, <2>1 DEF Known
<1>5. /\ \A c \in Client : pc'[c] \in {"assigned", "joining", "running", "leaving"} =>
           pc[c] \in {"assigned", "joining", "running", "leaving"}
      /\ \A h \in Human : pc'[h] \in {"off", "handshake"} => pc[h] \in {"off", "handshake"}
  <2>1. CASE UNCHANGED pc
    BY <2>1
  <2>2. ASSUME NEW v \in {"running", "refused"}, pc' = Answer(ev.who, v)
        PROVE  \A c \in Client : pc'[c] = pc[c] \/ (pc[c] = "joining" /\ pc'[c] = v)
    BY <2>2 DEF Answer, Counted
  <2> QED BY <1>1, <2>1, <2>2 DEF Client
<1>6. Started' = Started /\ room' = room
  BY <1>1 DEF Started
<1> QED BY <1>4, <1>5, <1>6 DEF Sent

\* A new bot is nowhere yet.
LEMMA BotIsNew ==
  ASSUME Sent, Housed, Listed, NEW b \in Bot, Unused(b)
  PROVE  /\ pc[b] \in {"off", "refused", "returned"}
         /\ \A r \in RoomNumber : /\ b \notin Known(r) /\ b \notin Range(tracked[r])
                                 /\ \A k \in 1 .. Len(inbox[r]) : r \in Started => inbox[r][k].who # b
<1>1. \A r \in Started : /\ b \notin Range(tracked[r]) /\ b \notin members[r]
                         /\ \A k \in DOMAIN inbox[r] : inbox[r][k].who # b
  BY DEF Unused
<1>2. \A r \in RoomNumber : DOMAIN inbox[r] = 1 .. Len(inbox[r])
  BY DEF Housed
<1>3. \A r \in Started : r \in RoomNumber => b \notin Known(r)
  BY <1>1, <1>2 DEF Known, Writers
<1>4. \A r \in RoomNumber : r \notin Started => b \notin Known(r) /\ b \notin Range(tracked[r])
  BY DEF Sent, Listed
<1> QED BY <1>1, <1>2, <1>3, <1>4 DEF Unused

\* A bot is sent to the filler's room: it was known to none.
LEMMA SentAddBot ==
  ASSUME Sent, Counted, Housed, Listed, AddBot
  PROVE  Sent'
<1>1. CASE UNCHANGED <<inbox, pc, room>>
  BY <1>1, SentSame DEF AddBot, roomVars
<1>2. ASSUME NEW b \in Bot, Unused(b), inbox' = Posted(fill.room, "join", b),
             pc' = [pc EXCEPT ![b] = "joining"], room' = [room EXCEPT ![b] = fill.room],
             fill.at = "adjust", UNCHANGED <<rooms, members>>
      PROVE  Sent'
  <2>0. b \in Client /\ fill.room \in Started /\ fill.room \in RoomNumber /\ Started' = Started
    BY <1>2, LobbyAssumption DEF Client, Listed, Filling, Started, Housed, WithinLimits, RoomNumber
  <2>1. /\ \A d \in Client : pc'[d] = IF d = b THEN "joining" ELSE pc[d]
        /\ \A d \in Client : room'[d] = IF d = b THEN fill.room ELSE room[d]
        /\ room' \in [Client -> RoomNumber \union {0}]
    BY <1>2, <2>0 DEF Counted, Sent
  <2>2. \A r \in RoomNumber : b \notin Known(r)
    BY <1>2, BotIsNew
  <2>3. \A d \in Client : pc'[d] \in {"assigned", "joining", "running", "leaving"} => room'[d] \in Started'
    BY <2>0, <2>1 DEF Sent
  <2>4. \A h \in Human : pc'[h] \in {"off", "handshake"} => pc[h] \in {"off", "handshake"}
    BY <2>1 DEF Client
  <2>5. ASSUME NEW r \in RoomNumber, NEW d \in Known(r)'
        PROVE  d \in Known(r) \/ (d = b /\ r = fill.room)
    BY <1>2, <2>0, <2>5, WritersPost DEF Known
  <2>6. ASSUME NEW r \in RoomNumber, NEW d \in Known(r)'
        PROVE  \/ d \in Known(r) /\ room'[d] = room[d]
               \/ d \in Client /\ room'[d] = r /\ r \in Started' /\ pc'[d] \notin {"off", "handshake"}
    <3>1. CASE d \in Known(r)
      <4>1. d # b /\ d \in Client
        BY <2>2, <3>1 DEF Sent
      <4> QED BY <2>1, <3>1, <4>1
    <3>2. CASE d = b /\ r = fill.room
      BY <2>0, <2>1, <3>2
    <3> QED BY <2>5, <2>6, <3>1, <3>2
  <2> QED BY <2>0, <2>1, <2>3, <2>4, <2>6, SentKept
<1> QED BY <1>1, <1>2 DEF AddBot

\* Every step keeps clients to the rooms they were sent to.
LEMMA SentNext ==
  ASSUME Sent, Counted, Housed, Listed, [Next]_vars
  PROVE  Sent'
<1> USE LobbyAssumption
<1>1. ASSUME NEW h \in Human, Connect(h) PROVE Sent'
  <2>1. /\ UNCHANGED <<room, roomVars>> /\ pc[h] = "off" /\ h \in Client
        /\ \E v \in {"handshake", "gone"} : pc' = [pc EXCEPT ![h] = v]
    BY <1>1 DEF Connect, Acquire, Client
  <2> QED BY <2>1, SentOnward
<1>2. ASSUME NEW h \in Human, HandshakeFails(h) \/ AbandonJoin(h) \/ Release(h) PROVE Sent'
  <2>1. /\ UNCHANGED <<room, roomVars>> /\ h \in Client
        /\ \E v \in {"refused", "gone"} : pc' = [pc EXCEPT ![h] = v]
    BY <1>2 DEF HandshakeFails, AbandonJoin, Release, Client
  <2> QED BY <2>1, SentOnward
<1>3. ASSUME NEW h \in Human, Assign(h) PROVE Sent'
  BY <1>3, SentAssign
<1>4. ASSUME NEW h \in Human, PostJoin(h) PROVE Sent'
  <2>1. /\ h \in Client /\ room[h] \in Started /\ UNCHANGED <<room, rooms, members>>
    BY <1>4 DEF PostJoin, Client, Sent
  <2>2. CASE inbox' = Posted(room[h], "join", h) /\ pc' = [pc EXCEPT ![h] = "joining"]
    BY <2>1, <2>2, SentPost
  <2>3. CASE UNCHANGED inbox /\ pc' = [pc EXCEPT ![h] = "refused"]
    BY <2>1, <2>3, SentOnward DEF roomVars
  <2> QED BY <1>4, <2>2, <2>3 DEF PostJoin
<1>5. ASSUME NEW c \in Client, SessionEnds(c) \/ (c \in Human /\ Disconnect(c)) PROVE Sent'
  <2>1. /\ UNCHANGED <<room, roomVars>> /\ pc[c] = "running"
        /\ pc' = [pc EXCEPT ![c] = "leaving"]
    BY <1>5 DEF SessionEnds, Disconnect
  <2>2. room[c] \in Started
    BY <2>1 DEF Sent
  <2> QED BY <2>1, <2>2, SentOnward
<1>6. ASSUME NEW c \in Client, PostLeave(c) PROVE Sent'
  <2>1. /\ room[c] \in Started /\ UNCHANGED <<room, rooms, members>> /\ pc' = [pc EXCEPT ![c] = "left"]
    BY <1>6 DEF PostLeave, Sent
  <2>2. CASE inbox' = Posted(room[c], "leave", c)
    BY <2>1, <2>2, SentPost
  <2>3. CASE UNCHANGED inbox
    BY <2>1, <2>3, SentOnward DEF roomVars
  <2> QED BY <1>6, <2>2, <2>3 DEF PostLeave
<1>7. ASSUME NEW b \in Bot, RunReturns(b) PROVE Sent'
  BY <1>7, SentOnward DEF RunReturns, Client
<1>8. ASSUME NEW r \in Started, Handle(r) PROVE Sent'
  BY <1>8, SentHandle
<1>9. ASSUME NEW r \in Started, NEW c \in Client, Drop(r, c) PROVE Sent'
  <2>1. UNCHANGED <<room, pc, inbox, rooms>> /\ members' = [members EXCEPT ![r] = @ \ {c}]
    BY <1>9 DEF Drop, clientVars
  <2>2. Started' = Started /\ \A s \in RoomNumber : members'[s] \subseteq members[s]
    BY <2>1 DEF Started, Housed
  <2> QED BY <2>1, <2>2, SentFewer
<1>10. ASSUME NEW r \in Started, StopRoom(r) PROVE Sent'
  <2>1. /\ UNCHANGED <<room, pc, inbox>> /\ members' = [members EXCEPT ![r] = {}]
        /\ rooms' = [rooms EXCEPT ![r] = "stopped"]
    BY <1>10 DEF StopRoom, clientVars
  <2>2. Started' = Started /\ \A s \in RoomNumber : members'[s] \subseteq members[s]
    BY <2>1 DEF Started, Housed
  <2> QED BY <2>1, <2>2, SentFewer
<1>11. ASSUME AskState PROVE Sent'
  <2>1. UNCHANGED <<room, pc, rooms, members>> /\ (UNCHANGED inbox \/ inbox' = Posted(fill.room, "state", 0))
    BY <1>11 DEF AskState, clientVars
  <2>2. CASE UNCHANGED inbox
    BY <2>1, <2>2, SentSame DEF roomVars
  <2>3. CASE inbox' = Posted(fill.room, "state", 0)
    <3>1. \A r \in RoomNumber : Writers(r)' \subseteq Writers(r)
      BY <2>3, WritersPost
    <3>2. \A r \in RoomNumber : Known(r)' \subseteq Known(r)
      BY <2>1, <3>1 DEF Known
    <3>3. Started' = Started
      BY <2>1 DEF Started
    <3> QED BY <2>1, <3>2, <3>3 DEF Sent
  <2> QED BY <2>1, <2>2, <2>3
<1>12. ASSUME AddBot PROVE Sent'
  BY <1>12, SentAddBot
<1>13. ASSUME BotJoined PROVE Sent'
  <2>1. /\ UNCHANGED <<room, roomVars>>
        /\ UNCHANGED pc \/ (fill.bot \in Client /\ pc' = [pc EXCEPT ![fill.bot] = "refused"])
    BY <1>13 DEF BotJoined, Listed, Filling, Client
  <2> QED BY <2>1, SentSame, SentOnward
<1>14. ASSUME \/ \E r \in Started : SendPersist(r)
              \/ Reconcile \/ VisitRoom \/ Count \/ StopNewest \/ Adjusted
              \/ FillerStops \/ Persist \/ Signal \/ MainStep \/ ExitLate \/ UNCHANGED vars
       PROVE  Sent'
  <2>1. UNCHANGED <<pc, room, roomVars>>
    BY <1>14 DEF SendPersist, Reconcile, VisitRoom, Count, StopNewest, Adjusted,
         FillerStops, Persist, Signal, MainStep, ShutHttp, WaitRooms, WaitFiller, Exit,
         ExitLate, vars, clientVars
  <2> QED BY <2>1, SentSame
<1> QED  BY <1>1, <1>2, <1>3, <1>4, <1>5, <1>6, <1>7, <1>8, <1>9, <1>10, <1>11, <1>12, <1>13, <1>14
         DEF Next, Handler, Session, FillerStep, Client

FillFields == {"at", "room", "last", "keep", "want", "bot"}

\* The lists and the filler stay, rooms may be added and humans sent to them.
LEMMA ListedSame ==
  ASSUME Listed, UNCHANGED <<fill, tracked>>, Started \subseteq Started',
         Len(rooms) \in Nat, Len(rooms') \in Nat, Len(rooms) <= Len(rooms'),
         \A b \in Bot : room'[b] = room[b]
  PROVE  Listed'
<1>1. \A r \in RoomNumber : Range(tracked[r]) \subseteq Bot
  BY DEF Listed, Range
<1>2. fill'.last <= Len(rooms')
  BY DEF Listed, Filling
<1>3. Filling'
  BY <1>2 DEF Listed, Filling
<1> QED BY <1>1, <1>3 DEF Listed

\* The filler moves, without a bot that is joining.
LEMMA FillerMoves ==
  ASSUME Listed, UNCHANGED <<rooms, room, tracked>>, DOMAIN fill' = FillFields,
         fill'.room \in Nat, fill'.last \in Nat, fill'.last <= Len(rooms),
         fill'.at \notin {"sleep", "stopped"} => fill'.room \in Started, fill'.at # "join"
  PROVE  Listed'
BY DEF Listed, Filling, FillFields, Started

\* It takes its next step in the same room.
LEMMA FillerStays ==
  ASSUME Listed, UNCHANGED <<rooms, room, tracked>>, fill.at \notin {"sleep", "stopped"},
         DOMAIN fill' = DOMAIN fill, fill'.room = fill.room, fill'.last = fill.last,
         fill'.at # "join"
  PROVE  Listed'
<1>1. DOMAIN fill' = FillFields /\ fill'.room \in Nat /\ fill'.last \in Nat /\ fill'.last <= Len(rooms)
      /\ fill'.room \in Started
  BY DEF Listed, Filling, FillFields
<1> QED BY <1>1, FillerMoves

LEMMA FillIsRecord ==
  ASSUME NEW at, NEW r, NEW last
  PROVE  /\ DOMAIN Fill(at, r, last) = FillFields
         /\ Fill(at, r, last).at = at /\ Fill(at, r, last).room = r /\ Fill(at, r, last).last = last
BY DEF Fill, FillFields

\* Or it goes to the next room, if there is one.
LEMMA FillerLeaves ==
  ASSUME Listed, Housed, UNCHANGED <<rooms, room, tracked>>, fill.at \notin {"sleep", "stopped"},
         fill' = NextRoom
  PROVE  Listed'
<1>0. /\ fill.room \in Nat /\ fill.last \in Nat /\ fill.last <= Len(rooms) /\ fill.room \in Started
      /\ Len(rooms) \in Nat /\ Started = 1 .. Len(rooms)
  BY DEF Listed, Filling, Housed, Started
<1>1. CASE fill.room < fill.last
  <2>1. fill' = Fill("room", fill.room + 1, fill.last)
    BY <1>1 DEF NextRoom
  <2>2. /\ DOMAIN fill' = FillFields /\ fill'.at = "room" /\ fill'.room = fill.room + 1
        /\ fill'.last = fill.last
    BY <2>1, FillIsRecord
  <2>3. fill'.room \in Nat /\ fill'.room \in Started
    BY <1>0, <1>1, <2>2
  <2> QED BY <1>0, <2>2, <2>3, FillerMoves
<1>2. CASE ~(fill.room < fill.last)
  <2>1. fill' = Fill("sleep", 0, 0)
    BY <1>2 DEF NextRoom, Sleeping
  <2>2. DOMAIN fill' = FillFields /\ fill'.at = "sleep" /\ fill'.room = 0 /\ fill'.last = 0
    BY <2>1, FillIsRecord
  <2>3. fill'.last <= Len(rooms) /\ fill'.room \in Nat /\ fill'.last \in Nat
    BY <1>0, <2>2
  <2> QED BY <2>2, <2>3, FillerMoves
<1> QED BY <1>1, <1>2

\* Forgetting the returned bots keeps the list in order.
LEMMA ListedVisit == ASSUME Listed, Housed, VisitRoom PROVE Listed'
<1> DEFINE r == fill.room
<1>0. r \in RoomNumber /\ r \in Started /\ DOMAIN fill = FillFields
  BY LobbyAssumption DEF VisitRoom, Listed, Filling, FillFields, Started, Housed, WithinLimits, RoomNumber
<1>1. /\ fill.at = "room" /\ UNCHANGED <<rooms, room>>
      /\ tracked' = [tracked EXCEPT ![r] = Live(r)]
      /\ \E v \in {"ask", "count"} : fill' = [fill EXCEPT !.at = v]
  BY DEF VisitRoom, ForgetReturned, clientVars, roomVars
<1>2. tracked[r] \in Seq(Bot) /\ IsInjective(tracked[r])
  BY <1>0 DEF Listed
<1>3. /\ Live(r) \in Seq(Bot) /\ IsInjective(Live(r))
      /\ Range(Live(r)) = {b \in Range(tracked[r]) : ~Returned(b)}
  BY <1>2, LiveEffect
<1>4. /\ DOMAIN fill' = FillFields /\ fill'.room = fill.room /\ fill'.last = fill.last
      /\ fill'.at \in {"ask", "count"}
  BY <1>0, <1>1 DEF FillFields
<1>5. Filling'
  BY <1>0, <1>1, <1>4 DEF Listed, Filling, FillFields, Started
<1>6. \A s \in RoomNumber : tracked'[s] = IF s = r THEN Live(r) ELSE tracked[s]
  BY <1>1 DEF Listed
<1> HIDE DEF r
<1>7. tracked' \in [RoomNumber -> Seq(Bot)]
  BY <1>1, <1>3 DEF Listed
<1>8. ASSUME NEW s \in RoomNumber
      PROVE  /\ IsInjective(tracked'[s])
             /\ \A b \in Range(tracked'[s]) : room'[b] = s /\ s \in Started'
  <2>1. Started' = Started /\ room' = room
    BY <1>1 DEF Started
  <2>2. Range(tracked'[s]) \subseteq Range(tracked[s])
    BY <1>3, <1>6
  <2>3. IsInjective(tracked'[s])
    BY <1>3, <1>6 DEF Listed
  <2> QED BY <2>1, <2>2, <2>3 DEF Listed
<1> QED BY <1>5, <1>7, <1>8 DEF Listed

\* The bot that joins is in no list.
LEMMA ListedAddBot == ASSUME Sent, Listed, Housed, AddBot PROVE Listed'
<1>0. fill.at = "adjust" /\ UNCHANGED <<rooms, tracked>> /\ DOMAIN fill = FillFields
  BY DEF AddBot, Listed, Filling, FillFields
<1>1. CASE UNCHANGED room /\ fill' = NextRoom
  BY <1>0, <1>1, FillerLeaves
<1>2. ASSUME NEW b \in Bot, Unused(b), room' = [room EXCEPT ![b] = fill.room],
             fill' = [fill EXCEPT !.at = "join", !.bot = b]
      PROVE  Listed'
  <2>1. b \in Client /\ \A d \in Client : room'[d] = IF d = b THEN fill.room ELSE room[d]
    BY <1>2 DEF Client, Sent
  <2>2. /\ DOMAIN fill' = FillFields /\ fill'.room = fill.room /\ fill'.last = fill.last
        /\ fill'.at = "join" /\ fill'.bot = b
    BY <1>0, <1>2 DEF FillFields
  <2>3. \A r \in RoomNumber : b \notin Range(tracked[r])
    BY <1>2, BotIsNew
  <2>4. Started' = Started /\ fill.room \in Started
    BY <1>0 DEF Started, Listed, Filling
  <2>5. Filling'
    BY <1>0, <2>1, <2>2, <2>3, <2>4 DEF Listed, Filling, FillFields
  <2>6. ASSUME NEW r \in RoomNumber, NEW d \in Range(tracked[r]) PROVE room'[d] = r /\ r \in Started'
    <3>1. d \in Bot
      BY <2>6 DEF Listed, Range
    <3>2. d # b /\ room[d] = r /\ r \in Started
      BY <2>3, <2>6 DEF Listed
    <3> QED BY <2>1, <2>4, <3>1, <3>2 DEF Client
  <2> QED BY <1>0, <2>5, <2>6 DEF Listed
<1> QED BY <1>0, <1>1, <1>2 DEF AddBot

\* So its name enters the list once.
LEMMA ListedJoined == ASSUME Listed, Housed, BotJoined PROVE Listed'
<1> DEFINE r == fill.room
           b == fill.bot
<1>0. /\ fill.at = "join" /\ UNCHANGED <<rooms, room>> /\ DOMAIN fill = FillFields
      /\ r \in Started /\ b \in Bot /\ room[b] = r
      /\ \A s \in RoomNumber : b \notin Range(tracked[s])
  BY DEF BotJoined, Listed, Filling, FillFields, roomVars
<1>1. CASE UNCHANGED tracked /\ fill' = NextRoom
  BY <1>0, <1>1, FillerLeaves
<1>2. CASE /\ tracked' = [tracked EXCEPT ![r] = Append(@, b)]
           /\ fill' = [fill EXCEPT !.at = "adjust", !.keep = @ + 1, !.bot = 0]
  <2>1. /\ DOMAIN fill' = FillFields /\ fill'.room = r /\ fill'.last = fill.last
        /\ fill'.at = "adjust"
    BY <1>0, <1>2 DEF FillFields
  <2>2. Filling'
    BY <1>0, <2>1 DEF Listed, Filling, FillFields, Started
  <2> HIDE DEF b, r
  <2>3. \A s \in RoomNumber : tracked'[s] = IF s = r THEN Append(tracked[s], b) ELSE tracked[s]
    BY <1>2 DEF Listed
  <2>4. ASSUME NEW s \in RoomNumber
        PROVE  /\ tracked'[s] \in Seq(Bot) /\ IsInjective(tracked'[s])
               /\ \A d \in Range(tracked'[s]) : d \in Range(tracked[s]) \/ (d = b /\ s = r)
    <3>0. tracked[s] \in Seq(Bot) /\ IsInjective(tracked[s])
      BY DEF Listed
    <3>1. CASE s # r
      BY <2>3, <3>0, <3>1
    <3>2. CASE s = r
      <4> DEFINE t == tracked[s]
                 v == Append(t, b)
      <4>1. /\ v \in Seq(Bot) /\ Len(t) \in Nat /\ Len(v) = Len(t) + 1 /\ v[Len(t) + 1] = b
            /\ DOMAIN v = 1 .. Len(v) /\ DOMAIN t = 1 .. Len(t)
            /\ \A i \in 1 .. Len(t) : v[i] = t[i]
        BY <1>0, <3>0
      <4>2. \A i \in 1 .. Len(t) : t[i] # b
        BY <1>0, <4>1 DEF Range
      <4> HIDE DEF v
      <4>3. \A i \in 1 .. Len(v) : i \in 1 .. Len(t) \/ i = Len(t) + 1
        BY <4>1
      <4>4. IsInjective(v)
        BY <3>0, <4>1, <4>2, <4>3 DEF IsInjective
      <4>5. \A d \in Range(v) : d \in Range(t) \/ d = b
        BY <4>1, <4>3 DEF Range
      <4>6. tracked'[s] = v
        BY <2>3, <3>2 DEF v
      <4> QED BY <3>2, <4>1, <4>4, <4>5, <4>6
    <3> QED BY <3>1, <3>2
  <2>5. tracked' \in [RoomNumber -> Seq(Bot)]
    BY <1>2, <2>4 DEF Listed
  <2>6. Started' = Started /\ room' = room
    BY <1>0 DEF Started
  <2>7. ASSUME NEW s \in RoomNumber, NEW d \in Range(tracked'[s])
        PROVE  room'[d] = s /\ s \in Started'
    <3>1. d \in Range(tracked[s]) \/ (d = b /\ s = r)
      BY <2>4, <2>7
    <3>2. d \in Range(tracked[s]) => room[d] = s /\ s \in Started
      BY DEF Listed
    <3> QED BY <1>0, <2>6, <3>1, <3>2
  <2> QED BY <2>2, <2>4, <2>5, <2>7 DEF Listed
<1> QED BY <1>1, <1>2 DEF BotJoined

\* Every step keeps the lists and the filler where they belong.
LEMMA ListedNext ==
  ASSUME Sent, Housed, Listed, [Next]_vars
  PROVE  Listed'
<1> USE LobbyAssumption
<1>0. Len(rooms) \in Nat /\ DOMAIN rooms = 1 .. Len(rooms) /\ rooms \in Seq({"running", "stopped"})
      /\ DOMAIN fill = FillFields
  BY DEF Housed, Listed, Filling, FillFields
<1>1. ASSUME NEW h \in Human, Assign(h) PROVE Listed'
  <2>1. UNCHANGED <<fill, tracked>>
    BY <1>1 DEF Assign, fillVars
  <2>2. Started \subseteq Started' /\ Len(rooms') \in Nat /\ Len(rooms) <= Len(rooms')
    <3>1. UNCHANGED rooms \/ rooms' = Append(rooms, "running")
      BY <1>1 DEF Assign
    <3>2. CASE UNCHANGED rooms
      BY <1>0, <3>2 DEF Started
    <3>3. CASE rooms' = Append(rooms, "running")
      <4>1. Len(rooms') = Len(rooms) + 1 /\ DOMAIN rooms' = 1 .. Len(rooms) + 1
        BY <1>0, <3>3
      <4> QED BY <1>0, <4>1 DEF Started
    <3> QED BY <3>1, <3>2, <3>3
  <2>3. UNCHANGED room \/ \E r : room' = [room EXCEPT ![h] = r]
    BY <1>1 DEF Assign
  <2>4. \A b \in Bot : room'[b] = room[b]
    BY <2>3 DEF Sent, Client
  <2> QED BY <1>0, <2>1, <2>2, <2>4, ListedSame
<1>2. ASSUME UNCHANGED <<fill, tracked, room>>, Started' = Started, Len(rooms') = Len(rooms) PROVE Listed'
  BY <1>0, <1>2, ListedSame
<1>3. ASSUME NEW r \in Started, Handle(r) PROVE Listed'
  <2>1. UNCHANGED <<rooms, room, tracked>>
    BY <1>3 DEF Handle
  <2>2. UNCHANGED fill \/ (fill.at = "state" /\ fill' = [fill EXCEPT !.at = "count"])
    BY <1>3 DEF Handle
  <2>3. CASE UNCHANGED fill
    BY <1>2, <2>1, <2>3 DEF Started
  <2>4. CASE fill.at = "state" /\ fill' = [fill EXCEPT !.at = "count"]
    <3>1. DOMAIN fill' = DOMAIN fill /\ fill'.room = fill.room /\ fill'.last = fill.last /\ fill'.at = "count"
      BY <1>0, <2>4 DEF FillFields
    <3> QED BY <2>1, <2>4, <3>1, FillerStays
  <2> QED BY <2>2, <2>3, <2>4
<1>4. ASSUME NEW r \in Started, StopRoom(r) PROVE Listed'
  <2>1. UNCHANGED <<fill, tracked, room>> /\ rooms' = [rooms EXCEPT ![r] = "stopped"]
    BY <1>4 DEF StopRoom, fillVars, clientVars
  <2>2. Started' = Started /\ Len(rooms') = Len(rooms)
    BY <1>0, <2>1 DEF Started
  <2> QED BY <1>2, <2>1, <2>2
<1>5. ASSUME Reconcile PROVE Listed'
  <2>1. UNCHANGED <<rooms, room, tracked>> /\ fill' = Fill("room", 1, Len(rooms)) /\ rooms # << >>
    BY <1>5 DEF Reconcile, clientVars, roomVars
  <2>2. DOMAIN fill' = FillFields /\ fill'.at = "room" /\ fill'.room = 1 /\ fill'.last = Len(rooms)
    BY <2>1, FillIsRecord
  <2>3. 1 \in Started
    BY <1>0, <2>1 DEF Started
  <2> QED BY <1>0, <2>1, <2>2, <2>3, FillerMoves
<1>6. ASSUME AskState \/ Count \/ StopNewest PROVE Listed'
  <2>1. UNCHANGED <<rooms, room, tracked>> /\ fill.at \notin {"sleep", "stopped"}
    BY <1>6 DEF AskState, Count, StopNewest, clientVars, roomVars
  <2>2. /\ DOMAIN fill' = DOMAIN fill /\ fill'.room = fill.room /\ fill'.last = fill.last
        /\ fill'.at # "join"
    <3>1. CASE AskState
      <4>1. \E v \in {"state", "count"} : fill' = [fill EXCEPT !.at = v]
        BY <3>1 DEF AskState
      <4> QED BY <1>0, <4>1 DEF FillFields
    <3>2. CASE Count
      <4>1. PICK w, k : fill' = [fill EXCEPT !.at = "adjust", !.want = w, !.keep = k]
        BY <3>2 DEF Count
      <4> QED BY <1>0, <4>1 DEF FillFields
    <3>3. CASE StopNewest
      <4>1. fill.at = "adjust" /\ fill' = [fill EXCEPT !.keep = @ - 1]
        BY <3>3 DEF StopNewest
      <4> QED BY <1>0, <4>1 DEF FillFields
    <3> QED BY <1>6, <3>1, <3>2, <3>3
  <2> QED BY <2>1, <2>2, FillerStays
<1>7. ASSUME Adjusted PROVE Listed'
  BY <1>7, FillerLeaves DEF Adjusted, clientVars, roomVars
<1>8. ASSUME FillerStops PROVE Listed'
  <2>1. UNCHANGED <<rooms, room, tracked>> /\ fill' = [Sleeping EXCEPT !.at = "stopped"]
    BY <1>8 DEF FillerStops, clientVars, roomVars
  <2>2. DOMAIN fill' = FillFields /\ fill'.at = "stopped" /\ fill'.room = 0 /\ fill'.last = 0
    BY <2>1 DEF Sleeping, Fill, FillFields
  <2> QED BY <1>0, <2>1, <2>2, FillerMoves
<1>9. ASSUME VisitRoom \/ AddBot \/ BotJoined PROVE Listed'
  BY <1>9, ListedVisit, ListedAddBot, ListedJoined
<1>10. ASSUME \/ \E h \in Human : Connect(h) \/ HandshakeFails(h) \/ PostJoin(h) \/ AbandonJoin(h)
                                  \/ Release(h) \/ Disconnect(h)
              \/ \E c \in Client : SessionEnds(c) \/ PostLeave(c) \/ RunReturns(c)
              \/ \E r \in Started : SendPersist(r) \/ \E c \in Client : Drop(r, c)
              \/ Persist \/ Signal \/ MainStep \/ ExitLate \/ UNCHANGED vars
       PROVE  Listed'
  <2>1. UNCHANGED <<fill, tracked, room, rooms>>
    BY <1>10 DEF Connect, HandshakeFails, PostJoin, AbandonJoin, Release, Disconnect, SessionEnds,
         PostLeave, RunReturns, SendPersist, Drop, Persist, Signal, MainStep, ShutHttp, WaitRooms,
         WaitFiller, Exit, ExitLate, vars, clientVars, roomVars, fillVars
  <2> QED BY <1>2, <2>1 DEF Started
<1> QED  BY <1>1, <1>3, <1>4, <1>5, <1>6, <1>7, <1>8, <1>9, <1>10 DEF Next, Handler, Session, FillerStep

\* A sequence without repetition has as many members as places.
LEMMA OnceEach ==
  ASSUME NEW S, NEW s \in Seq(S), IsInjective(s)
  PROVE  IsFiniteSet(Range(s)) /\ Cardinality(Range(s)) = Len(s)
<1>1. Len(s) \in Nat /\ DOMAIN s = 1 .. Len(s)
  OBVIOUS
<1>2. IsFiniteSet(1 .. Len(s)) /\ Cardinality(1 .. Len(s)) = Len(s)
  BY <1>1, FS_Interval
<1>3. ExistsBijection(1 .. Len(s), Range(s))
  <2>1. s \in [1 .. Len(s) -> Range(s)]
    BY <1>1 DEF Range
  <2>2. \A j, k \in 1 .. Len(s) : s[j] = s[k] => j = k
    BY DEF IsInjective
  <2>3. \A x \in Range(s) : \E k \in 1 .. Len(s) : s[k] = x
    BY <1>1 DEF Range
  <2>4. s \in Bijection(1 .. Len(s), Range(s))
    BY <2>1, <2>2, <2>3 DEF Bijection, Injection, Surjection, IsInjective
  <2> QED BY <2>4 DEF ExistsBijection
<1> QED BY <1>2, <1>3, FS_Bijection

\* The types of the lobby, and what they need of one another.
Placed == Counted /\ Housed /\ Sent /\ Listed /\ queue \in 0 .. PersistBuffer

\* The invariant of the types holds at first and after every step.
LEMMA PlacedInit == Init => Placed
<1> SUFFICES ASSUME Init PROVE Placed
  OBVIOUS
<1>0. Started = {}
  BY DEF Init, Started
<1>1. Sent
  <2>1. \A r \in RoomNumber : Known(r) = {}
    BY DEF Init, Known, Writers, RoomNumber
  <2>2. room \in [Client -> RoomNumber \union {0}] /\ \A c \in Client : pc[c] = "off"
    BY DEF Init
  <2> QED BY <2>1, <2>2 DEF Sent
<1>2. Listed
  <2>1. /\ fill.at = "sleep" /\ fill.room = 0 /\ fill.last = 0 /\ DOMAIN fill = FillFields
        /\ Len(rooms) = 0
    BY FillIsRecord DEF Init, Sleeping
  <2>2. Filling
    BY <2>1 DEF Filling, FillFields
  <2>3. \A r \in RoomNumber : tracked[r] = << >>
    BY DEF Init
  <2>4. tracked \in [RoomNumber -> Seq(Bot)]
    BY DEF Init
  <2> QED BY <2>2, <2>3, <2>4 DEF Listed, IsInjective, Range
<1>3. queue \in 0 .. PersistBuffer
  BY LobbyAssumption DEF Init
<1> QED BY <1>1, <1>2, <1>3, CountedInit, HousedInit DEF Placed

\* The persist channel holds no more than it has places.
LEMMA QueueNext ==
  ASSUME queue \in 0 .. PersistBuffer, [Next]_vars
  PROVE  queue' \in 0 .. PersistBuffer
<1>0. PersistBuffer \in Nat
  BY LobbyAssumption
<1>1. ASSUME NEW r \in Started, SendPersist(r) PROVE queue' \in 0 .. PersistBuffer
  <2>1. UNCHANGED queue \/ queue' = Min({queue + 1, PersistBuffer})
    BY <1>1 DEF SendPersist
  <2>2. CASE queue' = Min({queue + 1, PersistBuffer})
    <3>1. /\ Min({queue + 1, PersistBuffer}) \in {queue + 1, PersistBuffer}
          /\ Min({queue + 1, PersistBuffer}) <= PersistBuffer
      <4>1. {queue + 1, PersistBuffer} \in SUBSET Nat /\ {queue + 1, PersistBuffer} # {}
        BY <1>0
      <4> QED BY <4>1, MinOfNumbers
    <3> QED BY <1>0, <2>2, <3>1
  <2> QED BY <2>1, <2>2
<1>2. ASSUME Persist PROVE queue' \in 0 .. PersistBuffer
  BY <1>0, <1>2 DEF Persist
<1>3. ASSUME UNCHANGED queue PROVE queue' \in 0 .. PersistBuffer
  BY <1>3
<1>4. ASSUME \/ \E h \in Human : Connect(h) \/ Handler(h) \/ Disconnect(h)
             \/ \E c \in Client : Session(c)
             \/ \E r \in Started : Handle(r) \/ StopRoom(r) \/ \E c \in Client : Drop(r, c)
             \/ FillerStep \/ Signal \/ MainStep \/ ExitLate \/ UNCHANGED vars
      PROVE  UNCHANGED queue
  <2>1. ASSUME NEW h \in Human, Connect(h) \/ Handler(h) \/ Disconnect(h) PROVE UNCHANGED queue
    BY <2>1 DEF Connect, Handler, Disconnect, HandshakeFails, Assign, PostJoin, AbandonJoin, Release, stopVars
  <2>2. ASSUME NEW c \in Client, Session(c) PROVE UNCHANGED queue
    BY <2>2 DEF Session, SessionEnds, PostLeave, RunReturns, stopVars
  <2>3. ASSUME NEW r \in Started, Handle(r) \/ StopRoom(r) \/ \E c \in Client : Drop(r, c) PROVE UNCHANGED queue
    BY <2>3 DEF Handle, StopRoom, Drop, stopVars
  <2>4. ASSUME FillerStep PROVE UNCHANGED queue
    BY <2>4 DEF FillerStep, Reconcile, VisitRoom, AskState, Count, AddBot, BotJoined,
         StopNewest, Adjusted, FillerStops, stopVars
  <2>5. ASSUME Signal \/ MainStep \/ ExitLate \/ UNCHANGED vars PROVE UNCHANGED queue
    BY <2>5 DEF Signal, MainStep, ShutHttp, WaitRooms, WaitFiller, Exit, ExitLate, vars, stopVars
  <2> QED BY <1>4, <2>1, <2>2, <2>3, <2>4, <2>5
<1> QED BY <1>1, <1>2, <1>3, <1>4 DEF Next

LEMMA PlacedNext == Placed /\ [Next]_vars => Placed'
BY CountedNext, HousedNext, SentNext, ListedNext, QueueNext DEF Placed

\* It implies them.
LEMMA PlacedTypes == Placed => TypeOK
<1> SUFFICES ASSUME Placed PROVE TypeOK
  OBVIOUS
<1>1. WithinLimits /\ pc \in [Client -> Pc] /\ queue <= PersistBuffer
  BY LobbyAssumption DEF Placed, Housed, Counted
<1>2. ASSUME NEW r \in RoomNumber
      PROVE  /\ members[r] \subseteq {c \in Client : room[c] = r}
             /\ Cardinality(Range(tracked[r])) = Len(tracked[r])
             /\ Range(tracked[r]) \subseteq {b \in Bot : room[b] = r}
  <2>1. \A c \in members[r] : c \in Client /\ room[c] = r
    BY DEF Placed, Sent, Known
  <2>2. tracked[r] \in Seq(Bot) /\ IsInjective(tracked[r]) /\ \A b \in Range(tracked[r]) : room[b] = r
    BY DEF Placed, Listed
  <2>3. Range(tracked[r]) \subseteq Bot
    BY <2>2 DEF Range
  <2> QED BY <2>1, <2>2, <2>3, OnceEach
<1> QED BY <1>1, <1>2 DEF TypeOK

\* No room holds more players than MaxPlayers and no hub more rooms than MaxRooms,
\* a client is counted by the room it was sent to and no other, and the filler's
\* list names each bot of its room once (handleJoin, Hub.Assign, reconcileRoom).
THEOREM LobbyTypeCorrect == Spec => []TypeOK
<1> QED BY PlacedInit, PlacedNext, PlacedTypes, PTL DEF Spec

-----------------------------------------------------------------------------
(* Humans and bots. *)

LeaveOf(b, r, k) == inbox[r][k].kind = "leave" /\ inbox[r][k].who = b

AllRun == \A r \in Started : Runs(r)

\* A session posts its leave before it is over.
LeavesPosted ==
    \A r \in RoomNumber : \A b \in Bot :
       b \in members[r] /\ pc[b] \in {"left", "returned"} =>
          \E k \in 1 .. Len(inbox[r]) : LeaveOf(b, r, k)

\* One bot joins at a time: the filler waits for its answer.
OneBotJoins ==
    \A r \in RoomNumber : \A k \in 1 .. Len(inbox[r]) :
       inbox[r][k].kind = "join" /\ inbox[r][k].who \in Bot =>
          /\ fill.at = "join" /\ fill.bot = inbox[r][k].who /\ pc[fill.bot] = "joining"
          /\ \A j \in 1 .. Len(inbox[r]) :
                inbox[r][j].kind = "join" /\ inbox[r][j].who = fill.bot => j = k
NotYetIn ==
    fill.at = "join" /\ pc[fill.bot] \in {"joining", "refused"} =>
       \A r \in RoomNumber : fill.bot \notin members[r]

\* So does one State, in the room the filler is in.
OneState ==
    \A r \in RoomNumber : \A k \in 1 .. Len(inbox[r]) : inbox[r][k].kind = "state" =>
       /\ fill.at = "state" /\ fill.room = r
       /\ \A j \in 1 .. Len(inbox[r]) : inbox[r][j].kind = "state" => j = k

\* The leave of a bot comes before every State that is waiting.
Before(b, r) ==
    \A k \in 1 .. Len(inbox[r]) : inbox[r][k].kind = "state" =>
       \E j \in 1 .. k - 1 : LeaveOf(b, r, j)

\* A bot that is counted and not in the list is the one that is joining, or has
\* returned and will have left when the filler's State is answered.
Seen ==
    \A r \in RoomNumber : \A b \in Bot : b \in members[r] /\ b \notin Range(tracked[r]) =>
       \/ fill.at = "join" /\ fill.bot = b
       \/ fill.at = "ask" /\ fill.room = r /\ pc[b] = "returned"
       \/ fill.at = "state" /\ fill.room = r /\ Before(b, r)

Told == AllRun /\ LeavesPosted /\ OneBotJoins /\ NotYetIn /\ OneState /\ Seen

\* At first no bot and no letter is under way.
LEMMA ToldInit == Init => Told
BY DEF Init, Told, AllRun, Started, LeavesPosted, OneBotJoins, NotYetIn, OneState, Seen, Sleeping, Fill

\* A letter that is posted stands behind the others.
LEMMA PostedLetter ==
  ASSUME Housed, NEW r \in RoomNumber, NEW kind \in {"join", "leave", "state"},
         NEW who \in Client \union {0}, inbox' = Posted(r, kind, who)
  PROVE  /\ Len(inbox[r]) \in Nat /\ Len(inbox'[r]) = Len(inbox[r]) + 1
         /\ inbox'[r][Len(inbox[r]) + 1].kind = kind /\ inbox'[r][Len(inbox[r]) + 1].who = who
         /\ \A k \in 1 .. Len(inbox[r]) : inbox'[r][k] = inbox[r][k]
         /\ \A s \in RoomNumber : s # r => inbox'[s] = inbox[s]
<1> DEFINE e == [kind |-> kind, who |-> who]
<1>1. e \in Event /\ e.kind = kind /\ e.who = who
  BY DEF Event
<1> HIDE DEF e
<1>2. inbox[r] \in Seq(Event)
  BY DEF Housed
<1>3. inbox'[r] = Append(inbox[r], e) /\ \A s \in RoomNumber : s # r => inbox'[s] = inbox[s]
  BY DEF Posted, e, Housed
<1>4. /\ Len(inbox[r]) \in Nat /\ Len(inbox'[r]) = Len(inbox[r]) + 1
      /\ inbox'[r][Len(inbox[r]) + 1] = e
      /\ \A k \in 1 .. Len(inbox[r]) : inbox'[r][k] = inbox[r][k]
  BY <1>1, <1>2, <1>3
<1> QED BY <1>1, <1>3, <1>4

\* The inbox of a room grows by letters that are no State and no bot's join.
Grown(r) ==
    /\ Len(inbox[r]) \in Nat /\ Len(inbox'[r]) \in Nat /\ Len(inbox[r]) <= Len(inbox'[r])
    /\ \A k \in 1 .. Len(inbox[r]) : inbox'[r][k] = inbox[r][k]
    /\ \A k \in 1 .. Len(inbox'[r]) : k \in 1 .. Len(inbox[r]) \/
          /\ inbox'[r][k].kind # "state"
          /\ inbox'[r][k].kind = "join" => inbox'[r][k].who \notin Bot

\* Clients move on, the bots among them on their way out.
Leaves(b) ==
    \/ pc'[b] = pc[b]
    \/ pc[b] = "running" /\ pc'[b] = "leaving"
    \/ /\ pc[b] = "leaving" /\ pc'[b] = "left"
       /\ \A r \in RoomNumber : b \in members[r] =>
             \E k \in 1 .. Len(inbox'[r]) : inbox'[r][k].kind = "leave" /\ inbox'[r][k].who = b
    \/ pc[b] = "left" /\ pc'[b] = "returned"

\* Then the filler is told no less: leaves stay posted, States behind them.
LEMMA ClientsMove ==
  ASSUME Told, Listed, UNCHANGED <<fill, tracked, members>>, AllRun',
         \A r \in RoomNumber : Grown(r), \A b \in Bot : Leaves(b)
  PROVE  Told'
<1>1. LeavesPosted'
  <2> SUFFICES ASSUME NEW r \in RoomNumber, NEW b \in Bot, b \in members[r], pc'[b] \in {"left", "returned"}
               PROVE  \E k \in 1 .. Len(inbox'[r]) : inbox'[r][k].kind = "leave" /\ inbox'[r][k].who = b
    BY DEF LeavesPosted, LeaveOf
  <2>1. CASE pc[b] \in {"left", "returned"}
    <3>1. PICK k \in 1 .. Len(inbox[r]) : LeaveOf(b, r, k)
      BY <2>1 DEF Told, LeavesPosted
    <3>2. k \in 1 .. Len(inbox'[r]) /\ inbox'[r][k] = inbox[r][k]
      BY DEF Grown
    <3> QED BY <3>1, <3>2 DEF LeaveOf
  <2>2. CASE pc[b] \notin {"left", "returned"}
    BY <2>2 DEF Leaves
  <2> QED BY <2>1, <2>2
<1>2. \A b \in Bot : pc[b] \in {"joining", "refused"} \/ pc'[b] \in {"joining", "refused"} => pc'[b] = pc[b]
  BY DEF Leaves
<1>3. OneBotJoins'
  <2> SUFFICES ASSUME NEW r \in RoomNumber, NEW k \in 1 .. Len(inbox'[r]),
                      inbox'[r][k].kind = "join", inbox'[r][k].who \in Bot
               PROVE  /\ fill.at = "join" /\ fill.bot = inbox'[r][k].who /\ pc'[fill.bot] = "joining"
                      /\ \A j \in 1 .. Len(inbox'[r]) :
                            inbox'[r][j].kind = "join" /\ inbox'[r][j].who = fill.bot => j = k
    BY DEF OneBotJoins
  <2>1. k \in 1 .. Len(inbox[r]) /\ inbox'[r][k] = inbox[r][k]
    BY DEF Grown
  <2>2. /\ fill.at = "join" /\ fill.bot = inbox[r][k].who /\ pc[fill.bot] = "joining"
        /\ \A j \in 1 .. Len(inbox[r]) :
              inbox[r][j].kind = "join" /\ inbox[r][j].who = fill.bot => j = k
    BY <2>1 DEF Told, OneBotJoins
  <2>3. fill.bot \in Bot
    BY <2>1, <2>2
  <2>4. pc'[fill.bot] = "joining"
    BY <1>2, <2>2, <2>3
  <2>5. \A j \in 1 .. Len(inbox'[r]) : inbox'[r][j].kind = "join" /\ inbox'[r][j].who = fill.bot =>
           j \in 1 .. Len(inbox[r]) /\ inbox'[r][j] = inbox[r][j]
    BY <2>3 DEF Grown
  <2> QED BY <2>1, <2>2, <2>4, <2>5
<1>4. NotYetIn'
  <2>1. fill.at = "join" => fill.bot \in Bot
    BY DEF Listed, Filling
  <2> QED BY <1>2, <2>1 DEF Told, NotYetIn
<1>5. ASSUME NEW r \in RoomNumber, NEW k \in 1 .. Len(inbox'[r]), inbox'[r][k].kind = "state"
      PROVE  k \in 1 .. Len(inbox[r]) /\ inbox'[r][k] = inbox[r][k]
  BY <1>5 DEF Grown
<1>6. OneState'
  BY <1>5 DEF Told, OneState
<1>7. ASSUME NEW r \in RoomNumber, NEW b \in Bot, Before(b, r)
      PROVE  Before(b, r)'
  <2> SUFFICES ASSUME NEW k \in 1 .. Len(inbox'[r]), inbox'[r][k].kind = "state"
               PROVE  \E j \in 1 .. k - 1 : inbox'[r][j].kind = "leave" /\ inbox'[r][j].who = b
    BY DEF Before, LeaveOf
  <2>1. k \in 1 .. Len(inbox[r]) /\ inbox[r][k].kind = "state"
    BY <1>5
  <2>2. PICK j \in 1 .. k - 1 : LeaveOf(b, r, j)
    BY <1>7, <2>1 DEF Before
  <2>3. j \in 1 .. Len(inbox[r])
    BY <2>1 DEF Grown
  <2>4. inbox'[r][j] = inbox[r][j]
    BY <2>3 DEF Grown
  <2> QED BY <2>2, <2>4 DEF LeaveOf
<1>8. Seen'
  <2> SUFFICES ASSUME NEW r \in RoomNumber, NEW b \in Bot, b \in members[r], b \notin Range(tracked[r])
               PROVE  \/ fill.at = "join" /\ fill.bot = b
                      \/ fill.at = "ask" /\ fill.room = r /\ pc'[b] = "returned"
                      \/ fill.at = "state" /\ fill.room = r /\ Before(b, r)'
    BY DEF Seen
  <2>1. pc[b] = "returned" => pc'[b] = "returned"
    BY DEF Leaves
  <2> QED BY <1>7, <2>1 DEF Told, Seen
<1> QED BY <1>1, <1>3, <1>4, <1>6, <1>8 DEF Told

\* Fewer members, and nothing else that matters.
LEMMA MembersGo ==
  ASSUME Told, UNCHANGED <<fill, tracked, pc, inbox, rooms>>,
         \A r \in RoomNumber : members'[r] \subseteq members[r]
  PROVE  Told'
<1>1. AllRun' /\ OneBotJoins' /\ OneState'
  BY DEF Told, AllRun, Started, Runs, OneBotJoins, OneState
<1>2. LeavesPosted' /\ NotYetIn'
  BY DEF Told, LeavesPosted, LeaveOf, NotYetIn
<1>3. \A b, r : Before(b, r)' = Before(b, r)
  BY DEF Before, LeaveOf
<1>4. Seen'
  BY <1>3 DEF Told, Seen
<1> QED BY <1>1, <1>2, <1>4 DEF Told

LEMMA ToldSame ==
  ASSUME Told, UNCHANGED <<fill, tracked, pc, inbox, rooms, members>> PROVE Told'
BY MembersGo

\* A client known to a room is known to no other.
LEMMA WriterKnown ==
  ASSUME Sent, NEW r \in RoomNumber, NEW k \in 1 .. Len(inbox[r]), inbox[r][k].kind # "state"
  PROVE  inbox[r][k].who \in Client /\ room[inbox[r][k].who] = r /\ r \in Started
<1>1. inbox[r][k].who \in Known(r)
  BY DEF Known, Writers
<1> QED BY <1>1 DEF Sent

\* The room takes a letter: the others move up by one place.
Shortened(r) ==
    /\ Len(inbox[r]) \in Nat \ {0} /\ Len(inbox'[r]) = Len(inbox[r]) - 1
    /\ \A k \in 1 .. Len(inbox'[r]) : k + 1 \in 1 .. Len(inbox[r]) /\ inbox'[r][k] = inbox[r][k + 1]
    /\ \A k \in 1 .. Len(inbox[r]) : k = 1 \/
          (k - 1 \in 1 .. Len(inbox'[r]) /\ inbox[r][k] = inbox'[r][k - 1])
    /\ \A s \in RoomNumber : s # r => inbox'[s] = inbox[s]

\* So it is when its first letter is taken.
LEMMA Shorter ==
  ASSUME Housed, NEW r \in RoomNumber, inbox[r] # << >>, inbox' = [inbox EXCEPT ![r] = Tail(@)]
  PROVE  Shortened(r) /\ Head(inbox[r]) = inbox[r][1] /\ 1 \in 1 .. Len(inbox[r])
<1>1. /\ Len(inbox[r]) \in Nat \ {0} /\ Len(inbox'[r]) = Len(inbox[r]) - 1
      /\ Head(inbox[r]) = inbox[r][1]
      /\ \A k \in 1 .. Len(inbox'[r]) : inbox'[r][k] = inbox[r][k + 1]
      /\ \A s \in RoomNumber : s # r => inbox'[s] = inbox[s]
  BY TakenLetter
<1>2. \A k \in 1 .. Len(inbox'[r]) : k + 1 \in 1 .. Len(inbox[r])
  BY <1>1
<1>3. ASSUME NEW k \in 1 .. Len(inbox[r]), k # 1
      PROVE  k - 1 \in 1 .. Len(inbox'[r]) /\ inbox[r][k] = inbox'[r][k - 1]
  <2>1. k - 1 \in 1 .. Len(inbox'[r]) /\ (k - 1) + 1 = k
    BY <1>1, <1>3
  <2> QED BY <1>1, <2>1
<1> QED BY <1>1, <1>2, <1>3 DEF Shortened

\* A client that is not answered and not the author of the letter keeps its place.
LEMMA LeaveKept ==
  ASSUME NEW r \in RoomNumber, Shortened(r), NEW b, ~LeaveOf(b, r, 1),
         NEW s \in RoomNumber, \E k \in 1 .. Len(inbox[s]) : LeaveOf(b, s, k)
  PROVE  \E k \in 1 .. Len(inbox'[s]) : LeaveOf(b, s, k)'
<1>1. PICK k \in 1 .. Len(inbox[s]) : LeaveOf(b, s, k)
  OBVIOUS
<1>2. CASE s # r
  <2>1. inbox'[s] = inbox[s]
    BY <1>2 DEF Shortened
  <2> QED BY <1>1, <2>1 DEF LeaveOf
<1>3. CASE s = r
  <2>1. k # 1
    BY <1>1, <1>3
  <2>2. k - 1 \in 1 .. Len(inbox'[r]) /\ inbox[r][k] = inbox'[r][k - 1]
    BY <1>3, <2>1 DEF Shortened
  <2>3. LeaveOf(b, s, k - 1)'
    BY <1>1, <1>3, <2>2 DEF LeaveOf
  <2> QED BY <1>3, <2>2, <2>3
<1> QED BY <1>2, <1>3

\* And its leave stays before the States.
LEMMA BeforeKept ==
  ASSUME NEW r \in RoomNumber, Shortened(r), NEW b, ~LeaveOf(b, r, 1),
         NEW s \in RoomNumber, Before(b, s)
  PROVE  Before(b, s)'
<1>1. CASE s # r
  <2>1. inbox'[s] = inbox[s]
    BY <1>1 DEF Shortened
  <2> QED BY <2>1 DEF Before, LeaveOf
<1>2. CASE s = r
  <2> SUFFICES ASSUME NEW k \in 1 .. Len(inbox'[r]), inbox'[r][k].kind = "state"
               PROVE  \E j \in 1 .. k - 1 : LeaveOf(b, r, j)'
    BY <1>2 DEF Before
  <2>1. k + 1 \in 1 .. Len(inbox[r]) /\ inbox[r][k + 1].kind = "state"
    BY DEF Shortened
  <2>2. PICK j \in 1 .. (k + 1) - 1 : LeaveOf(b, r, j)
    BY <1>2, <2>1 DEF Before
  <2>3. j # 1 /\ j \in 1 .. Len(inbox[r])
    BY <2>1, <2>2 DEF Shortened
  <2>4. j - 1 \in 1 .. k - 1 /\ inbox[r][j] = inbox'[r][j - 1]
    BY <2>2, <2>3 DEF Shortened
  <2>5. LeaveOf(b, r, j - 1)'
    BY <2>2, <2>4 DEF LeaveOf
  <2> QED BY <2>4, <2>5
<1> QED BY <1>1, <1>2

\* The letters that are left are letters that were there, in the same order.
LEMMA JoinsKept ==
  ASSUME Sent, NEW r \in RoomNumber, Shortened(r), OneBotJoins, UNCHANGED fill,
         NEW c \in Client, c = inbox[r][1].who \/ inbox[r][1].kind = "state",
         \A d \in Client : pc'[d] = pc[d] \/ (d = c /\ inbox[r][1].kind = "join")
  PROVE  OneBotJoins'
<1> SUFFICES ASSUME NEW s \in RoomNumber, NEW k \in 1 .. Len(inbox'[s]),
                    inbox'[s][k].kind = "join", inbox'[s][k].who \in Bot
             PROVE  /\ fill.at = "join" /\ fill.bot = inbox'[s][k].who /\ pc'[fill.bot] = "joining"
                    /\ \A j \in 1 .. Len(inbox'[s]) :
                          inbox'[s][j].kind = "join" /\ inbox'[s][j].who = fill.bot => j = k
  BY DEF OneBotJoins
<1>1. PICK i \in 1 .. Len(inbox[s]) : inbox[s][i] = inbox'[s][k] /\ (s = r => i = k + 1)
  BY DEF Shortened
<1>2. /\ fill.at = "join" /\ fill.bot = inbox[s][i].who /\ pc[fill.bot] = "joining"
      /\ \A j \in 1 .. Len(inbox[s]) :
            inbox[s][j].kind = "join" /\ inbox[s][j].who = fill.bot => j = i
  BY <1>1 DEF OneBotJoins
<1>3. fill.bot \in Client /\ room[fill.bot] = s
  BY <1>1, <1>2, WriterKnown
<1>4. ~(fill.bot = c /\ inbox[r][1].kind = "join")
  <2> SUFFICES ASSUME fill.bot = c, inbox[r][1].kind = "join" PROVE FALSE
    OBVIOUS
  <2>1. 1 \in 1 .. Len(inbox[r]) /\ inbox[r][1].who = fill.bot
    BY DEF Shortened
  <2>2. room[fill.bot] = r
    BY <2>1, WriterKnown
  <2>3. s = r /\ i = k + 1 /\ 1 = i
    BY <1>1, <1>2, <1>3, <2>1, <2>2
  <2> QED BY <2>3
<1>5. pc'[fill.bot] = "joining"
  BY <1>2, <1>3, <1>4
<1>6. ASSUME NEW j \in 1 .. Len(inbox'[s]), inbox'[s][j].kind = "join", inbox'[s][j].who = fill.bot
      PROVE  j = k
  <2>1. CASE s # r
    BY <1>1, <1>2, <1>6, <2>1 DEF Shortened, OneBotJoins
  <2>2. CASE s = r
    <3>1. j + 1 \in 1 .. Len(inbox[r]) /\ inbox[r][j + 1] = inbox'[r][j]
      BY <2>2 DEF Shortened
    <3>2. j + 1 = k + 1
      BY <1>1, <1>2, <1>6, <2>2, <3>1
    <3> QED BY <3>2
  <2> QED BY <2>1, <2>2
<1> QED BY <1>1, <1>2, <1>5, <1>6

\* A State that is left is the one there was.
LEMMA StatesKept ==
  ASSUME NEW r \in RoomNumber, Shortened(r), OneState,
         fill'.room = fill.room, fill'.at = fill.at \/ inbox[r][1].kind = "state"
  PROVE  OneState'
<1> SUFFICES ASSUME NEW s \in RoomNumber, NEW k \in 1 .. Len(inbox'[s]), inbox'[s][k].kind = "state"
             PROVE  /\ fill'.at = "state" /\ fill'.room = s
                    /\ \A j \in 1 .. Len(inbox'[s]) : inbox'[s][j].kind = "state" => j = k
  BY DEF OneState
<1>1. PICK i \in 1 .. Len(inbox[s]) : inbox[s][i] = inbox'[s][k] /\ (s = r => i = k + 1)
  BY DEF Shortened
<1>2. /\ fill.at = "state" /\ fill.room = s
      /\ \A j \in 1 .. Len(inbox[s]) : inbox[s][j].kind = "state" => j = i
  BY <1>1 DEF OneState
<1>3. inbox[r][1].kind # "state"
  <2> SUFFICES ASSUME inbox[r][1].kind = "state" PROVE FALSE
    OBVIOUS
  <2>1. 1 \in 1 .. Len(inbox[r])
    BY DEF Shortened
  <2>2. fill.room = r
    BY <2>1 DEF OneState
  <2>3. i = k + 1 /\ i = 1
    BY <1>1, <1>2, <2>1, <2>2
  <2> QED BY <2>3
<1>4. ASSUME NEW j \in 1 .. Len(inbox'[s]), inbox'[s][j].kind = "state" PROVE j = k
  <2>1. CASE s # r
    BY <1>1, <1>2, <1>4, <2>1 DEF Shortened, OneState
  <2>2. CASE s = r
    <3>1. j + 1 \in 1 .. Len(inbox[r]) /\ inbox[r][j + 1] = inbox'[r][j]
      BY <2>2 DEF Shortened
    <3>2. j + 1 = k + 1
      BY <1>1, <1>2, <1>4, <2>2, <3>1
    <3> QED BY <3>2
  <2> QED BY <2>1, <2>2
<1> QED BY <1>2, <1>3, <1>4

\* The room takes a join.
LEMMA ToldJoin ==
  ASSUME Told, Sent, Listed, Counted, NEW r \in RoomNumber, Shortened(r), inbox[r][1].kind = "join",
         UNCHANGED <<fill, tracked, rooms>>, NEW c \in Client, c = inbox[r][1].who,
         \/ /\ \A s \in RoomNumber : members'[s] = IF s = r THEN members[s] \union {c} ELSE members[s]
            /\ pc' = Answer(c, "running")
         \/ UNCHANGED members /\ pc' = Answer(c, "refused")
  PROVE  Told'
<1>0. 1 \in 1 .. Len(inbox[r]) /\ room[c] = r
  <2>1. 1 \in 1 .. Len(inbox[r])
    BY DEF Shortened
  <2> QED BY <2>1, WriterKnown
<1>1. \A d \in Client : pc'[d] = pc[d] \/ (d = c /\ pc[d] = "joining" /\ pc'[d] \in {"running", "refused"})
  BY DEF Answer, Counted
<1>2. c \in Bot => fill.at = "join" /\ fill.bot = c /\ pc[c] = "joining"
  BY <1>0 DEF Told, OneBotJoins
<1>3. \A s \in RoomNumber : \A b \in members'[s] : b \in members[s] \/ (s = r /\ b = c)
  OBVIOUS
<1>4. c \in members'[r] /\ c \in Bot => c \in members[r] \/ pc'[c] = "running"
  BY <1>2 DEF Answer, Counted
<1>5. \A b : ~LeaveOf(b, r, 1)
  BY DEF LeaveOf
<1>6. LeavesPosted'
  <2> SUFFICES ASSUME NEW s \in RoomNumber, NEW b \in Bot, b \in members'[s], pc'[b] \in {"left", "returned"}
               PROVE  \E k \in 1 .. Len(inbox'[s]) : LeaveOf(b, s, k)'
    BY DEF LeavesPosted
  <2>1. pc[b] = pc'[b] /\ b \in members[s]
    BY <1>1, <1>3, <1>4 DEF Client
  <2>2. \E k \in 1 .. Len(inbox[s]) : LeaveOf(b, s, k)
    BY <2>1 DEF Told, LeavesPosted
  <2> QED BY <1>5, <2>2, LeaveKept
<1>7. OneBotJoins'
  BY <1>1, JoinsKept DEF Told
<1>8. NotYetIn'
  <2> SUFFICES ASSUME fill.at = "join", pc'[fill.bot] \in {"joining", "refused"}, NEW s \in RoomNumber,
                      fill.bot \in members'[s], fill.bot \in Client
               PROVE  FALSE
    <3>1. ASSUME NEW s \in RoomNumber, fill.bot \in members'[s] PROVE fill.bot \in Client
      <4>1. fill.bot \in members[s] \/ fill.bot = c
        BY <1>3, <3>1
      <4> QED BY <4>1 DEF Sent, Known
    <3> QED BY <3>1 DEF NotYetIn
  <2>1. pc[fill.bot] \in {"joining", "refused"}
    BY <1>1
  <2>2. fill.bot \notin members[s]
    BY <2>1 DEF Told, NotYetIn
  <2>3. s = r /\ fill.bot = c
    BY <1>3, <2>2
  <2>4. pc[c] = "joining" => pc'[c] = "running"
    BY <2>2, <2>3 DEF Answer, Counted
  <2>5. pc[c] # "joining"
    BY <2>3, <2>4
  <2>6. c \in Bot
    BY <2>3 DEF Listed, Filling
  <2> QED BY <1>2, <2>5, <2>6
<1>9. OneState'
  BY StatesKept DEF Told
<1>10. Seen'
  <2> SUFFICES ASSUME NEW s \in RoomNumber, NEW b \in Bot, b \in members'[s], b \notin Range(tracked[s])
               PROVE  \/ fill.at = "join" /\ fill.bot = b
                      \/ fill.at = "ask" /\ fill.room = s /\ pc'[b] = "returned"
                      \/ fill.at = "state" /\ fill.room = s /\ Before(b, s)'
    BY DEF Seen
  <2>1. CASE b = c
    BY <1>2, <2>1
  <2>2. CASE b # c
    <3>1. b \in members[s] /\ pc'[b] = pc[b]
      BY <1>1, <1>3, <2>2 DEF Client
    <3>2. Before(b, s) => Before(b, s)'
      BY <1>5, BeforeKept
    <3> QED BY <3>1, <3>2 DEF Told, Seen
  <2> QED BY <2>1, <2>2
<1>11. AllRun'
  BY DEF Told, AllRun, Started, Runs
<1> QED BY <1>6, <1>7, <1>8, <1>9, <1>10, <1>11 DEF Told

\* The room takes a leave.
LEMMA ToldLeave ==
  ASSUME Told, Sent, NEW r \in RoomNumber, Shortened(r), inbox[r][1].kind = "leave",
         UNCHANGED <<fill, tracked, rooms, pc>>, NEW c \in Client, c = inbox[r][1].who,
         \A s \in RoomNumber : members'[s] = IF s = r THEN members[s] \ {c} ELSE members[s]
  PROVE  Told'
<1>0. room[c] = r
  <2>1. 1 \in 1 .. Len(inbox[r])
    BY DEF Shortened
  <2> QED BY <2>1, WriterKnown
<1>1. ASSUME NEW s \in RoomNumber, NEW b \in members'[s]
      PROVE  b \in members[s] /\ ~LeaveOf(b, r, 1)
  <2>1. b \in members[s] /\ room[b] = s
    BY <1>1 DEF Sent, Known
  <2>2. b # c
    BY <1>0, <1>1, <2>1
  <2> QED BY <2>1, <2>2 DEF LeaveOf
<1>2. LeavesPosted'
  <2> SUFFICES ASSUME NEW s \in RoomNumber, NEW b \in Bot, b \in members'[s], pc[b] \in {"left", "returned"}
               PROVE  \E k \in 1 .. Len(inbox'[s]) : LeaveOf(b, s, k)'
    BY DEF LeavesPosted
  <2>1. \E k \in 1 .. Len(inbox[s]) : LeaveOf(b, s, k)
    BY <1>1 DEF Told, LeavesPosted
  <2> QED BY <1>1, <2>1, LeaveKept
<1>3. OneBotJoins'
  BY JoinsKept DEF Told
<1>4. NotYetIn'
  BY <1>1 DEF Told, NotYetIn
<1>5. OneState'
  BY StatesKept DEF Told
<1>6. Seen'
  <2> SUFFICES ASSUME NEW s \in RoomNumber, NEW b \in Bot, b \in members'[s], b \notin Range(tracked[s])
               PROVE  \/ fill.at = "join" /\ fill.bot = b
                      \/ fill.at = "ask" /\ fill.room = s /\ pc[b] = "returned"
                      \/ fill.at = "state" /\ fill.room = s /\ Before(b, s)'
    BY DEF Seen
  <2>1. b \in members[s] /\ (Before(b, s) => Before(b, s)')
    BY <1>1, BeforeKept
  <2> QED BY <2>1 DEF Told, Seen
<1>7. AllRun'
  BY DEF Told, AllRun, Started, Runs
<1> QED BY <1>2, <1>3, <1>4, <1>5, <1>6, <1>7 DEF Told

\* Without a bot that is joining or a State that is asked for, every bot a room
\* counts is in its list, and no letter is the filler's.
Settled ==
    /\ \A r \in RoomNumber : \A b \in Bot : b \in members[r] => b \in Range(tracked[r])
    /\ \A r \in RoomNumber : \A k \in 1 .. Len(inbox[r]) :
         inbox[r][k].kind # "state" /\ (inbox[r][k].kind = "join" => inbox[r][k].who \notin Bot)

\* The two say the same of the steps in which the filler asks for nothing.
LEMMA SettledTold ==
  ASSUME Told, fill.at \notin {"join", "ask", "state"} PROVE Settled
BY DEF Told, Settled, Seen, OneState, OneBotJoins

LEMMA ToldSettled ==
  ASSUME AllRun', LeavesPosted', Settled', fill'.at # "join" PROVE Told'
BY DEF Told, Settled, Seen, OneState, OneBotJoins, NotYetIn

\* The room answers a State: the bots that had returned have left.
LEMMA ToldState ==
  ASSUME Told, NEW r \in RoomNumber, Shortened(r), inbox[r][1].kind = "state",
         UNCHANGED <<tracked, rooms, pc, members>>, fill.at = "state" => fill'.at = "count"
  PROVE  Told'
<1>0. 1 \in 1 .. Len(inbox[r])
  BY DEF Shortened
<1>1. fill.at = "state" /\ fill.room = r /\ fill'.at = "count"
  BY <1>0 DEF Told, OneState
<1>2. \A b : ~LeaveOf(b, r, 1)
  BY DEF LeaveOf
<1>3. LeavesPosted'
  <2> SUFFICES ASSUME NEW s \in RoomNumber, NEW b \in Bot, b \in members[s], pc[b] \in {"left", "returned"}
               PROVE  \E k \in 1 .. Len(inbox'[s]) : LeaveOf(b, s, k)'
    BY DEF LeavesPosted
  <2>1. \E k \in 1 .. Len(inbox[s]) : LeaveOf(b, s, k)
    BY DEF Told, LeavesPosted
  <2> QED BY <1>2, <2>1, LeaveKept
<1>4. Settled'
  <2>1. ASSUME NEW s \in RoomNumber, NEW b \in Bot, b \in members[s], b \notin Range(tracked[s]) PROVE FALSE
    <3>1. s = r /\ Before(b, r)
      BY <1>1, <2>1 DEF Told, Seen
    <3>2. PICK j \in 1 .. 1 - 1 : LeaveOf(b, r, j)
      BY <1>0, <3>1 DEF Before
    <3> QED BY <3>2
  <2>2. ASSUME NEW s \in RoomNumber, NEW k \in 1 .. Len(inbox'[s])
        PROVE  inbox'[s][k].kind # "state" /\ (inbox'[s][k].kind = "join" => inbox'[s][k].who \notin Bot)
    <3>1. PICK i \in 1 .. Len(inbox[s]) : inbox[s][i] = inbox'[s][k] /\ (s = r => i # 1)
      <4>1. CASE s = r
        <5>1. k + 1 \in 1 .. Len(inbox[r]) /\ inbox'[r][k] = inbox[r][k + 1] /\ k + 1 # 1
          BY <4>1 DEF Shortened
        <5> QED BY <4>1, <5>1
      <4>2. CASE s # r
        BY <4>2 DEF Shortened
      <4> QED BY <4>1, <4>2
    <3>2. inbox[s][i].kind # "state"
      BY <1>0, <1>1, <3>1 DEF Told, OneState
    <3>3. inbox[s][i].kind = "join" => inbox[s][i].who \notin Bot
      BY <1>1 DEF Told, OneBotJoins
    <3> QED BY <3>1, <3>2, <3>3
  <2> QED BY <2>1, <2>2 DEF Settled
<1>5. AllRun'
  BY DEF Told, AllRun, Started, Runs
<1>6. fill'.at # "join"
  BY <1>1
<1> QED BY <1>3, <1>4, <1>5, <1>6, ToldSettled

\* Whatever letter the room takes.
LEMMA ToldHandle ==
  ASSUME Told, Sent, Listed, Counted, Housed, NEW r \in Started, Handle(r)
  PROVE  Told'
<1> DEFINE ev == Head(inbox[r])
<1>0. r \in RoomNumber /\ DOMAIN fill = FillFields
  BY LobbyAssumption DEF Housed, WithinLimits, Started, RoomNumber, Listed, Filling, FillFields
<1>1. /\ inbox[r] # << >> /\ inbox' = [inbox EXCEPT ![r] = Tail(@)] /\ UNCHANGED <<rooms, tracked>>
      /\ \/ /\ ev.kind = "join" /\ UNCHANGED fill
            /\ \/ members' = [members EXCEPT ![r] = @ \union {ev.who}] /\ pc' = Answer(ev.who, "running")
               \/ UNCHANGED members /\ pc' = Answer(ev.who, "refused")
         \/ /\ ev.kind = "leave" /\ UNCHANGED <<fill, pc>>
            /\ members' = [members EXCEPT ![r] = @ \ {ev.who}]
         \/ /\ ev.kind = "state" /\ UNCHANGED <<pc, members>>
            /\ fill' = IF fill.at = "state" THEN [fill EXCEPT !.at = "count"] ELSE fill
  BY DEF Handle
<1>2. Shortened(r) /\ ev = inbox[r][1] /\ 1 \in 1 .. Len(inbox[r])
  BY <1>0, <1>1, Shorter
<1>3. ev.kind # "state" => ev.who \in Client
  BY <1>0, <1>2, WriterKnown
<1> HIDE DEF ev
<1>4. CASE /\ ev.kind = "join" /\ UNCHANGED fill
           /\ \/ members' = [members EXCEPT ![r] = @ \union {ev.who}] /\ pc' = Answer(ev.who, "running")
              \/ UNCHANGED members /\ pc' = Answer(ev.who, "refused")
  <2>1. /\ inbox[r][1].kind = "join" /\ UNCHANGED <<fill, tracked, rooms>>
        /\ ev.who \in Client /\ ev.who = inbox[r][1].who
    BY <1>1, <1>2, <1>3, <1>4
  <2>2. \/ /\ \A s \in RoomNumber : members'[s] = IF s = r THEN members[s] \union {ev.who} ELSE members[s]
           /\ pc' = Answer(ev.who, "running")
        \/ UNCHANGED members /\ pc' = Answer(ev.who, "refused")
    BY <1>4 DEF Housed
  <2> QED BY <1>0, <1>2, <2>1, <2>2, ToldJoin
<1>5. CASE /\ ev.kind = "leave" /\ UNCHANGED <<fill, pc>>
           /\ members' = [members EXCEPT ![r] = @ \ {ev.who}]
  <2>1. /\ inbox[r][1].kind = "leave" /\ UNCHANGED <<fill, tracked, rooms, pc>>
        /\ ev.who \in Client /\ ev.who = inbox[r][1].who
    BY <1>1, <1>2, <1>3, <1>5
  <2>2. \A s \in RoomNumber : members'[s] = IF s = r THEN members[s] \ {ev.who} ELSE members[s]
    BY <1>5 DEF Housed
  <2> QED BY <1>0, <1>2, <2>1, <2>2, ToldLeave
<1>6. CASE /\ ev.kind = "state" /\ UNCHANGED <<pc, members>>
           /\ fill' = IF fill.at = "state" THEN [fill EXCEPT !.at = "count"] ELSE fill
  <2>1. fill.at = "state" => fill'.at = "count"
    BY <1>0, <1>6 DEF FillFields
  <2>2. inbox[r][1].kind = "state" /\ UNCHANGED <<tracked, rooms, pc, members>>
    BY <1>1, <1>2, <1>6
  <2> QED BY <1>0, <1>2, <2>1, <2>2, ToldState
<1> QED BY <1>1, <1>4, <1>5, <1>6

\* The filler moves on, with nothing asked for before or after.
LEMMA FillerGoesOn ==
  ASSUME Told, UNCHANGED <<tracked, pc, inbox, rooms, members>>,
         fill.at \notin {"join", "ask", "state"}, fill'.at # "join"
  PROVE  Told'
<1>1. Settled
  BY SettledTold
<1>2. Settled' /\ AllRun' /\ LeavesPosted'
  BY <1>1 DEF Settled, Told, AllRun, Started, Runs, LeavesPosted, LeaveOf
<1> QED BY <1>2, ToldSettled

\* The bots that are forgotten have posted their leaves, and the filler asks.
LEMMA ToldVisit == ASSUME Told, Listed, Housed, VisitRoom PROVE Told'
<1> DEFINE r == fill.room
<1>0. r \in RoomNumber /\ DOMAIN fill = FillFields
  BY LobbyAssumption DEF VisitRoom, Listed, Filling, FillFields, Started, Housed, WithinLimits, RoomNumber
<1>1. /\ fill.at = "room" /\ UNCHANGED <<rooms, pc, inbox, members>>
      /\ tracked' = [tracked EXCEPT ![r] = Live(r)]
      /\ fill' = [fill EXCEPT !.at = IF \E b \in Range(tracked[r]) : Returned(b) THEN "ask" ELSE "count"]
  BY DEF VisitRoom, ForgetReturned, clientVars, roomVars
<1>2. Range(Live(r)) = {b \in Range(tracked[r]) : ~Returned(b)}
  BY <1>0, LiveEffect DEF Listed
<1>3. /\ fill'.room = r /\ fill'.at \in {"ask", "count"}
      /\ (\E b \in Range(tracked[r]) : Returned(b)) => fill'.at = "ask"
  BY <1>0, <1>1 DEF FillFields
<1>4. Settled
  BY <1>1, SettledTold
<1>5. \A s \in RoomNumber : tracked'[s] = IF s = r THEN Live(r) ELSE tracked[s]
  BY <1>1 DEF Listed
<1> HIDE DEF r
<1>6. Seen'
  <2> SUFFICES ASSUME NEW s \in RoomNumber, NEW b \in Bot, b \in members'[s], b \notin Range(tracked'[s])
               PROVE  fill'.at = "ask" /\ fill'.room = s /\ pc'[b] = "returned"
    BY DEF Seen
  <2>1. b \in Range(tracked[s])
    BY <1>1, <1>4 DEF Settled
  <2>2. s = r /\ Returned(b)
    BY <1>2, <1>5, <2>1
  <2> QED BY <1>1, <1>3, <2>1, <2>2 DEF Returned
<1>7. OneState' /\ OneBotJoins' /\ NotYetIn'
  BY <1>1, <1>3, <1>4 DEF Settled, OneState, OneBotJoins, NotYetIn
<1>8. AllRun' /\ LeavesPosted'
  BY <1>1 DEF Told, AllRun, Started, Runs, LeavesPosted, LeaveOf
<1> QED BY <1>6, <1>7, <1>8 DEF Told

\* Its State is posted behind the leaves of the bots it forgot.
LEMMA ToldAsk ==
  ASSUME Told, Listed, Housed, ~Cancelled, AskState
  PROVE  Told'
<1>0. PICK r \in RoomNumber :
         /\ r = fill.room /\ r \in Started /\ DOMAIN fill = FillFields /\ ~GivesUp(r)
         /\ UNCHANGED <<rooms, pc, members, tracked>>
  <2>1. fill.room \in Started /\ UNCHANGED <<rooms, pc, members, tracked>> /\ DOMAIN fill = FillFields
    BY DEF AskState, clientVars, Listed, Filling, FillFields
  <2>2. ~GivesUp(fill.room)
    BY <2>1 DEF GivesUp, Told, AllRun
  <2> QED BY <2>1, <2>2, LobbyAssumption DEF Started, Housed, WithinLimits, RoomNumber
<1>1. fill.at = "ask" /\ inbox' = Posted(r, "state", 0) /\ fill' = [fill EXCEPT !.at = "state"]
  BY <1>0 DEF AskState
<1>2. fill'.at = "state" /\ fill'.room = r
  BY <1>0, <1>1 DEF FillFields
<1>3. PICK n \in Nat :
         /\ n = Len(inbox[r]) /\ Len(inbox'[r]) = n + 1
         /\ inbox'[r][n + 1].kind = "state"
         /\ \A k \in 1 .. n : inbox'[r][k] = inbox[r][k]
         /\ \A s \in RoomNumber : s # r => inbox'[s] = inbox[s]
  BY <1>0, <1>1, PostedLetter
<1>4. \A k \in 1 .. Len(inbox'[r]) : k \in 1 .. n \/ k = n + 1
  BY <1>3
<1>5. \A s \in RoomNumber : \A k \in 1 .. Len(inbox[s]) :
         inbox[s][k].kind # "state" /\ (inbox[s][k].kind = "join" => inbox[s][k].who \notin Bot)
  BY <1>1 DEF Told, OneState, OneBotJoins
<1>6. ASSUME NEW s \in RoomNumber, NEW k \in 1 .. Len(inbox'[s])
      PROVE  \/ inbox'[s][k].kind # "state" /\ (inbox'[s][k].kind = "join" => inbox'[s][k].who \notin Bot)
             \/ s = r /\ k = n + 1
  <2>1. CASE s # r
    BY <1>3, <1>5, <2>1
  <2>2. CASE s = r
    BY <1>3, <1>4, <1>5, <2>2
  <2> QED BY <2>1, <2>2
<1>7. OneState'
  BY <1>2, <1>6 DEF OneState
<1>8. OneBotJoins' /\ NotYetIn'
  <2>1. \A s \in RoomNumber : \A k \in 1 .. Len(inbox'[s]) :
           inbox'[s][k].kind = "join" => inbox'[s][k].who \notin Bot
    BY <1>3, <1>6
  <2> QED BY <1>2, <2>1 DEF OneBotJoins, NotYetIn
<1>9. LeavesPosted'
  <2> SUFFICES ASSUME NEW s \in RoomNumber, NEW b \in Bot, b \in members[s], pc[b] \in {"left", "returned"}
               PROVE  \E k \in 1 .. Len(inbox'[s]) : LeaveOf(b, s, k)'
    BY <1>0 DEF LeavesPosted
  <2>1. PICK k \in 1 .. Len(inbox[s]) : LeaveOf(b, s, k)
    BY DEF Told, LeavesPosted
  <2>2. k \in 1 .. Len(inbox'[s]) /\ inbox'[s][k] = inbox[s][k]
    <3>1. CASE s # r
      BY <1>3, <3>1
    <3>2. CASE s = r
      BY <1>3, <3>2
    <3> QED BY <3>1, <3>2
  <2> QED BY <2>1, <2>2 DEF LeaveOf
<1>10. Seen'
  <2> SUFFICES ASSUME NEW s \in RoomNumber, NEW b \in Bot, b \in members[s], b \notin Range(tracked[s])
               PROVE  fill'.room = s /\ Before(b, s)'
    BY <1>0, <1>2 DEF Seen
  <2>1. r = s /\ pc[b] = "returned"
    BY <1>0, <1>1 DEF Told, Seen
  <2>2. PICK j \in 1 .. n : LeaveOf(b, r, j)
    BY <1>0, <1>3, <2>1 DEF Told, LeavesPosted
  <2>3. LeaveOf(b, r, j)'
    BY <1>3, <2>2 DEF LeaveOf
  <2>4. ASSUME NEW k \in 1 .. Len(inbox'[r]), inbox'[r][k].kind = "state"
        PROVE  j \in 1 .. k - 1
    <3>1. r \in RoomNumber
      BY <2>1
    <3>2. k = n + 1
      BY <1>6, <2>4, <3>1
    <3> QED BY <2>2, <3>2
  <2> QED BY <1>2, <2>1, <2>3, <2>4 DEF Before
<1>11. AllRun'
  BY <1>0 DEF Told, AllRun, Started, Runs
<1> QED BY <1>7, <1>8, <1>9, <1>10, <1>11 DEF Told

\* The next room of the filler is none of its steps that wait for an answer.
LEMMA NextRoomAt == NextRoom.at \in {"room", "sleep"}
BY DEF NextRoom, Sleeping, Fill

\* A bot is added: its join is the only one of a bot, and no room counts it.
LEMMA ToldAddBot ==
  ASSUME Told, Sent, Listed, Counted, Housed, AddBot
  PROVE  Told'
<1>0. fill.at = "adjust" /\ UNCHANGED <<rooms, members, tracked>> /\ DOMAIN fill = FillFields
  BY DEF AddBot, Listed, Filling, FillFields
<1>1. CASE fill' = NextRoom /\ UNCHANGED <<inbox, pc, room>>
  BY <1>0, <1>1, NextRoomAt, FillerGoesOn
<1>2. ASSUME NEW b \in Bot, Unused(b), inbox' = Posted(fill.room, "join", b),
             pc' = [pc EXCEPT ![b] = "joining"], fill' = [fill EXCEPT !.at = "join", !.bot = b]
      PROVE  Told'
  <2>0. PICK r \in RoomNumber : r = fill.room
    <3>1. fill.room \in 1 .. Len(rooms)
      BY <1>0 DEF Listed, Filling, Started, Housed
    <3>2. Len(rooms) \in Nat /\ Len(rooms) <= MaxRooms /\ MaxRooms \in Nat
      BY LobbyAssumption DEF Housed, WithinLimits
    <3> QED BY <3>1, <3>2 DEF RoomNumber
  <2>1. b \in Client /\ \A d \in Client : pc'[d] = IF d = b THEN "joining" ELSE pc[d]
    BY <1>2 DEF Client, Counted
  <2>2. fill'.at = "join" /\ fill'.bot = b
    BY <1>0, <1>2 DEF FillFields
  <2>3. \A s \in RoomNumber : b \notin Known(s)
    BY <1>2, BotIsNew
  <2>4. Settled
    BY <1>0, SettledTold
  <2>5. PICK n \in Nat :
           /\ n = Len(inbox[r]) /\ Len(inbox'[r]) = n + 1
           /\ inbox'[r][n + 1].kind = "join" /\ inbox'[r][n + 1].who = b
           /\ \A k \in 1 .. n : inbox'[r][k] = inbox[r][k]
           /\ \A s \in RoomNumber : s # r => inbox'[s] = inbox[s]
    <3>1. inbox' = Posted(r, "join", b)
      BY <1>2, <2>0
    <3>2. b \in Client \union {0}
      BY <2>1
    <3>3. PICK n : n = Len(inbox[r])
      OBVIOUS
    <3>4. /\ n \in Nat /\ Len(inbox'[r]) = n + 1
          /\ inbox'[r][n + 1].kind = "join" /\ inbox'[r][n + 1].who = b
          /\ \A k \in 1 .. n : inbox'[r][k] = inbox[r][k]
          /\ \A s \in RoomNumber : s # r => inbox'[s] = inbox[s]
      BY <3>1, <3>2, <3>3, PostedLetter
    <3> QED BY <3>3, <3>4
  <2>6. ASSUME NEW s \in RoomNumber, NEW k \in 1 .. Len(inbox'[s])
        PROVE  /\ inbox'[s][k].kind # "state"
               /\ inbox'[s][k].kind = "join" /\ inbox'[s][k].who \in Bot =>
                     inbox'[s][k].who = b /\ s = r /\ k = n + 1
    <3>1. CASE s # r
      BY <2>4, <2>5, <3>1 DEF Settled
    <3>2. CASE s = r /\ k \in 1 .. n
      BY <2>4, <2>5, <3>2 DEF Settled
    <3>3. CASE s = r /\ k = n + 1
      BY <2>5, <3>3
    <3> QED BY <2>5, <3>1, <3>2, <3>3
  <2>7. OneState'
    BY <2>6 DEF OneState
  <2>8. OneBotJoins'
    BY <2>1, <2>2, <2>6 DEF OneBotJoins
  <2>9. NotYetIn'
    BY <1>0, <2>2, <2>3 DEF NotYetIn, Known
  <2>10. LeavesPosted'
    <3> SUFFICES ASSUME NEW s \in RoomNumber, NEW a \in Bot, a \in members[s], pc'[a] \in {"left", "returned"}
                 PROVE  \E k \in 1 .. Len(inbox'[s]) : LeaveOf(a, s, k)'
      BY <1>0 DEF LeavesPosted
    <3>1. pc[a] = pc'[a]
      BY <2>1 DEF Client
    <3>2. PICK k \in 1 .. Len(inbox[s]) : LeaveOf(a, s, k)
      BY <3>1 DEF Told, LeavesPosted
    <3>3. k \in 1 .. Len(inbox'[s]) /\ inbox'[s][k] = inbox[s][k]
      <4>1. CASE s # r
        BY <2>5, <4>1
      <4>2. CASE s = r
        BY <2>5, <4>2
      <4> QED BY <4>1, <4>2
    <3> QED BY <3>2, <3>3 DEF LeaveOf
  <2>11. Seen'
    BY <1>0, <2>4 DEF Settled, Seen
  <2>12. AllRun'
    BY <1>0 DEF Told, AllRun, Started, Runs
  <2> QED BY <2>7, <2>8, <2>9, <2>10, <2>11, <2>12 DEF Told
<1> QED BY <1>0, <1>1, <1>2 DEF AddBot

\* Its answer has come: the bot is in the list, or it is in no room (any more).
LEMMA ToldBotJoined ==
  ASSUME Told, Sent, Listed, Counted, Housed, ~Cancelled, BotJoined
  PROVE  Told'
<1>0. PICK r \in RoomNumber, b \in Bot :
         /\ r = fill.room /\ b = fill.bot /\ r \in Started /\ DOMAIN fill = FillFields
         /\ fill.at = "join" /\ room[b] = r
         /\ UNCHANGED <<rooms, members, inbox>> /\ ~GivesUp(r)
  <2>1. /\ fill.room \in Started /\ fill.bot \in Bot /\ DOMAIN fill = FillFields /\ fill.at = "join"
        /\ room[fill.bot] = fill.room /\ UNCHANGED <<rooms, members, inbox>>
    BY DEF BotJoined, roomVars, Listed, Filling, FillFields
  <2>2. ~GivesUp(fill.room)
    BY <2>1 DEF GivesUp, Told, AllRun
  <2>3. fill.room \in RoomNumber
    BY <2>1, LobbyAssumption DEF Started, Housed, WithinLimits, RoomNumber
  <2> QED BY <2>1, <2>2, <2>3
<1>1. /\ UNCHANGED pc /\ pc[b] # "joining"
      /\ fill'.at # "join"
      /\ \/ /\ pc[b] # "refused"
            /\ tracked' = [tracked EXCEPT ![r] = Append(@, b)]
         \/ (pc[b] = "refused" \/ b \notin members[r]) /\ UNCHANGED tracked
  <2>1. CASE /\ pc[fill.bot] \notin {"joining", "refused"}
             /\ tracked' = [tracked EXCEPT ![fill.room] = Append(@, fill.bot)]
             /\ fill' = [fill EXCEPT !.at = "adjust", !.keep = @ + 1, !.bot = 0]
             /\ UNCHANGED pc
    <3>1. fill'.at = "adjust"
      BY <1>0, <2>1 DEF FillFields
    <3> QED BY <1>0, <2>1, <3>1
  <2>2. CASE /\ pc[fill.bot] = "refused" \/ GivesUp(fill.room) \/ ClosedEarly(fill.bot)
             /\ fill' = NextRoom
             /\ pc' = IF pc[fill.bot] = "joining" THEN [pc EXCEPT ![fill.bot] = "refused"] ELSE pc
             /\ UNCHANGED tracked
    <3>1. fill'.at # "join"
      BY <2>2, NextRoomAt
    <3>2. pc[b] = "refused" \/ (b \notin members[r] /\ pc[b] \in {"left", "returned"})
      BY <1>0, <2>2 DEF ClosedEarly
    <3>3. pc[b] # "joining" /\ UNCHANGED <<pc, tracked>>
      BY <1>0, <2>2, <3>2
    <3> QED BY <3>1, <3>2, <3>3
  <2> QED BY <2>1, <2>2 DEF BotJoined
<1>2. \A s \in RoomNumber : \A k \in 1 .. Len(inbox[s]) :
         inbox[s][k].kind # "state" /\ (inbox[s][k].kind = "join" => inbox[s][k].who \notin Bot)
  BY <1>0, <1>1 DEF Told, OneState, OneBotJoins
<1>3. ASSUME NEW s \in RoomNumber, NEW a \in Bot, a \in members[s] PROVE a \in Range(tracked'[s])
  <2>1. a \in Range(tracked[s]) \/ a = b
    BY <1>0, <1>3 DEF Told, Seen
  <2>2. CASE UNCHANGED tracked /\ (pc[b] = "refused" \/ b \notin members[r])
    <3>1. a # b
      <4>1. CASE pc[b] = "refused"
        BY <1>0, <1>3, <4>1 DEF Told, NotYetIn
      <4>2. CASE b \notin members[r]
        <5>1. room[a] = s
          BY <1>3 DEF Sent, Known
        <5> QED BY <1>0, <1>3, <4>2, <5>1
      <4> QED BY <2>2, <4>1, <4>2
    <3> QED BY <2>1, <2>2, <3>1
  <2>3. CASE tracked' = [tracked EXCEPT ![r] = Append(@, b)]
    <3>0. tracked[s] \in Seq(Bot)
      BY DEF Listed
    <3>1. CASE s # r
      <4>1. room[a] = s
        BY <1>3 DEF Sent, Known
      <4>2. tracked'[s] = tracked[s] /\ a # b
        BY <1>0, <2>3, <3>1, <4>1 DEF Listed
      <4> QED BY <2>1, <4>2
    <3>2. CASE s = r
      <4>1. tracked'[s] = Append(tracked[s], b)
        BY <2>3, <3>2 DEF Listed
      <4>2. /\ DOMAIN tracked[s] = 1 .. Len(tracked[s]) /\ DOMAIN tracked'[s] = 1 .. Len(tracked[s]) + 1
            /\ Len(tracked[s]) \in Nat
            /\ tracked'[s][Len(tracked[s]) + 1] = b
            /\ \A k \in 1 .. Len(tracked[s]) : tracked'[s][k] = tracked[s][k]
        BY <3>0, <4>1
      <4>3. b \in Range(tracked'[s])
        BY <4>2 DEF Range
      <4>4. Range(tracked[s]) \subseteq Range(tracked'[s])
        BY <4>2 DEF Range
      <4> QED BY <2>1, <4>3, <4>4
    <3> QED BY <3>1, <3>2
  <2> QED BY <1>1, <2>2, <2>3
<1>4. Settled'
  BY <1>0, <1>2, <1>3 DEF Settled
<1>5. AllRun' /\ LeavesPosted'
  BY <1>0, <1>1 DEF Told, AllRun, Started, Runs, LeavesPosted, LeaveOf
<1> QED BY <1>1, <1>4, <1>5, ToldSettled

\* An inbox grows if it stays, or is posted a leave or the join of a human.
LEMMA GrownSame == ASSUME Housed, UNCHANGED inbox PROVE \A r \in RoomNumber : Grown(r)
<1>1. \A r \in RoomNumber : Len(inbox[r]) \in Nat
  BY DEF Housed
<1> QED BY <1>1 DEF Grown

LEMMA GrownPost ==
  ASSUME Housed, NEW r \in RoomNumber, NEW kind \in {"join", "leave"}, NEW c \in Client,
         inbox' = Posted(r, kind, c), kind = "join" => c \notin Bot
  PROVE  /\ \A s \in RoomNumber : Grown(s)
         /\ \E k \in 1 .. Len(inbox'[r]) : inbox'[r][k].kind = kind /\ inbox'[r][k].who = c
<1>1. PICK n \in Nat :
         /\ n = Len(inbox[r]) /\ Len(inbox'[r]) = n + 1
         /\ inbox'[r][n + 1].kind = kind /\ inbox'[r][n + 1].who = c
         /\ \A k \in 1 .. n : inbox'[r][k] = inbox[r][k]
         /\ \A s \in RoomNumber : s # r => inbox'[s] = inbox[s]
  BY PostedLetter
<1>2. \A s \in RoomNumber : Len(inbox[s]) \in Nat
  BY DEF Housed
<1>3. ASSUME NEW s \in RoomNumber PROVE Grown(s)
  <2>1. CASE s # r
    BY <1>1, <1>2, <2>1 DEF Grown
  <2>2. CASE s = r
    <3>1. \A k \in 1 .. Len(inbox'[r]) : k \in 1 .. n \/ k = n + 1
      BY <1>1
    <3> QED BY <1>1, <2>2, <3>1 DEF Grown
  <2> QED BY <2>1, <2>2
<1>4. n + 1 \in 1 .. Len(inbox'[r])
  BY <1>1
<1> QED BY <1>1, <1>3, <1>4

\* A client moves and no inbox does: a human, or a bot on its way out.
LEMMA ToldOnward ==
  ASSUME Told, Listed, Counted, Housed, UNCHANGED <<fill, tracked, members, inbox>>, AllRun',
         NEW c \in Client, NEW v, pc' = [pc EXCEPT ![c] = v],
         c \in Bot => \/ pc[c] = "running" /\ v = "leaving"
                      \/ pc[c] = "left" /\ v = "returned"
  PROVE  Told'
<1>1. \A b \in Bot : Leaves(b)
  BY DEF Leaves, Counted, Client
<1> QED BY <1>1, GrownSame, ClientsMove

\* A human is sent to a room, perhaps a new one, which runs.
LEMMA ToldAssign == ASSUME Told, Placed, NEW h \in Human, Assign(h) PROVE Told'
<1>1. UNCHANGED <<fill, tracked, members, inbox>> /\ h \in Client /\ h \notin Bot
  BY LobbyAssumption DEF Assign, fillVars, Client
<1>2. AllRun'
  <2>1. UNCHANGED rooms \/ rooms' = Append(rooms, "running")
    BY DEF Assign
  <2>2. rooms \in Seq({"running", "stopped"}) /\ \A r \in DOMAIN rooms : rooms[r] = "running"
    BY DEF Placed, Housed, Told, AllRun, Started, Runs
  <2>3. \A r \in DOMAIN rooms' : rooms'[r] = "running"
    BY <2>1, <2>2
  <2> QED BY <2>3 DEF AllRun, Started, Runs
<1>3. \E v : pc' = [pc EXCEPT ![h] = v]
  BY DEF Assign
<1> QED BY <1>1, <1>2, <1>3, ToldOnward DEF Placed

\* A human's join is no bot's.
LEMMA ToldPostJoin == ASSUME Told, Placed, NEW h \in Human, PostJoin(h) PROVE Told'
<1>1. UNCHANGED <<fill, tracked, members, rooms>> /\ h \in Client /\ h \notin Bot /\ pc[h] = "assigned"
  BY LobbyAssumption DEF PostJoin, fillVars, Client
<1>2. AllRun'
  BY <1>1 DEF Told, AllRun, Started, Runs
<1>3. CASE UNCHANGED inbox /\ pc' = [pc EXCEPT ![h] = "refused"]
  BY <1>1, <1>2, <1>3, ToldOnward DEF Placed
<1>4. CASE inbox' = Posted(room[h], "join", h) /\ pc' = [pc EXCEPT ![h] = "joining"]
  <2>1. room[h] \in RoomNumber
    <3>1. room[h] \in Started
      BY <1>1 DEF Placed, Sent
    <3> QED BY <3>1, LobbyAssumption DEF Placed, Housed, Started, WithinLimits, RoomNumber
  <2>2. \A b \in Bot : Leaves(b)
    BY <1>1, <1>4 DEF Leaves, Placed, Counted, Client
  <2>3. \A s \in RoomNumber : Grown(s)
    BY <1>1, <1>4, <2>1, GrownPost DEF Placed
  <2> QED BY <1>1, <1>2, <2>2, <2>3, ClientsMove DEF Placed
<1> QED BY <1>3, <1>4 DEF PostJoin

\* No bot's session is over before its leave is posted: no room has stopped.
LEMMA ToldPostLeave ==
  ASSUME Told, Placed, ~Cancelled, NEW c \in Client, PostLeave(c)
  PROVE  Told'
<1>0. /\ UNCHANGED <<fill, tracked, members, rooms>> /\ pc[c] = "leaving"
      /\ pc' = [pc EXCEPT ![c] = "left"]
  BY DEF PostLeave, fillVars
<1>1. PICK r \in RoomNumber : r = room[c] /\ r \in Started
  <2>1. room[c] \in Started
    BY <1>0 DEF Placed, Sent
  <2> QED BY <2>1, LobbyAssumption DEF Placed, Housed, Started, WithinLimits, RoomNumber
<1>2. inbox' = Posted(r, "leave", c)
  BY <1>1 DEF PostLeave, GivesUp, Told, AllRun
<1>3. /\ \A s \in RoomNumber : Grown(s)
      /\ \E k \in 1 .. Len(inbox'[r]) : inbox'[r][k].kind = "leave" /\ inbox'[r][k].who = c
  BY <1>2, GrownPost DEF Placed
<1>4. \A s \in RoomNumber : c \in members[s] => s = r
  BY <1>1 DEF Placed, Sent, Known
<1>5. \A b \in Bot : Leaves(b)
  <2> TAKE b \in Bot
  <2>1. CASE b # c
    BY <1>0, <2>1 DEF Leaves, Placed, Counted, Client
  <2>2. CASE b = c
    BY <1>0, <1>3, <1>4, <2>2 DEF Leaves, Placed, Counted, Client
  <2> QED BY <2>1, <2>2
<1>6. AllRun'
  BY <1>0 DEF Told, AllRun, Started, Runs
<1> QED BY <1>0, <1>3, <1>5, <1>6, ClientsMove DEF Placed

\* Until the signal, what the filler has been told of its bots holds.
Ghostless == Cancelled \/ Told

\* Until the signal every step leaves the filler told.
LEMMA ToldNext == ASSUME Told, Placed, ~Cancelled, [Next]_vars PROVE Told' \/ Cancelled'
<1> USE DEF Placed
<1>1. ASSUME NEW h \in Human, Connect(h) \/ HandshakeFails(h) \/ AbandonJoin(h) \/ Release(h) \/ Disconnect(h)
      PROVE  Told'
  <2>1. /\ UNCHANGED <<fill, tracked, members, inbox, rooms>> /\ h \in Client /\ h \notin Bot
        /\ \E v : pc' = [pc EXCEPT ![h] = v]
    BY <1>1, LobbyAssumption DEF Connect, Acquire, HandshakeFails, AbandonJoin, Release, Disconnect,
         fillVars, roomVars, Client
  <2>2. AllRun'
    BY <2>1 DEF Told, AllRun, Started, Runs
  <2> QED BY <2>1, <2>2, ToldOnward
<1>2. ASSUME NEW h \in Human, Assign(h) \/ PostJoin(h) PROVE Told'
  BY <1>2, ToldAssign, ToldPostJoin
<1>3. ASSUME NEW c \in Client, SessionEnds(c) \/ (c \in Bot /\ RunReturns(c)) PROVE Told'
  <2>1. /\ UNCHANGED <<fill, tracked, members, inbox, rooms>>
        /\ \/ pc[c] = "running" /\ pc' = [pc EXCEPT ![c] = "leaving"]
           \/ pc[c] = "left" /\ pc' = [pc EXCEPT ![c] = "returned"]
    BY <1>3 DEF SessionEnds, RunReturns, fillVars, roomVars
  <2>2. AllRun'
    BY <2>1 DEF Told, AllRun, Started, Runs
  <2> QED BY <2>1, <2>2, ToldOnward
<1>4. ASSUME NEW c \in Client, PostLeave(c) PROVE Told'
  BY <1>4, ToldPostLeave
<1>5. ASSUME NEW r \in Started, Handle(r) PROVE Told'
  BY <1>5, ToldHandle
<1>6. ASSUME NEW r \in Started, NEW c \in Client, Drop(r, c) PROVE Told'
  <2>1. UNCHANGED <<fill, tracked, pc, inbox, rooms>> /\ members' = [members EXCEPT ![r] = @ \ {c}]
    BY <1>6 DEF Drop, clientVars, fillVars
  <2>2. \A s \in RoomNumber : members'[s] \subseteq members[s]
    BY <2>1 DEF Housed
  <2> QED BY <2>1, <2>2, MembersGo
<1>7. ~ \E r \in Started : StopRoom(r)
  BY DEF StopRoom
<1>8. ASSUME Reconcile \/ Count \/ StopNewest \/ Adjusted \/ FillerStops PROVE Told'
  <2>1. UNCHANGED <<tracked, pc, inbox, rooms, members>> /\ fill.at \notin {"join", "ask", "state"}
    BY <1>8 DEF Reconcile, Count, StopNewest, Adjusted, FillerStops, clientVars, roomVars
  <2>2. fill'.at # "join"
    <3>0. DOMAIN fill = FillFields
      BY DEF Listed, Filling, FillFields
    <3>1. CASE Reconcile
      BY <3>1, FillIsRecord DEF Reconcile
    <3>2. CASE Count
      <4>1. PICK w, k : fill' = [fill EXCEPT !.at = "adjust", !.want = w, !.keep = k]
        BY <3>2 DEF Count
      <4> QED BY <3>0, <4>1 DEF FillFields
    <3>3. CASE StopNewest
      <4>1. fill' = [fill EXCEPT !.keep = @ - 1]
        BY <3>3 DEF StopNewest
      <4> QED BY <2>1, <3>0, <4>1 DEF FillFields
    <3>4. CASE Adjusted
      BY <3>4, NextRoomAt DEF Adjusted
    <3>5. CASE FillerStops
      BY <3>5 DEF FillerStops, Sleeping, Fill
    <3> QED BY <1>8, <3>1, <3>2, <3>3, <3>4, <3>5
  <2> QED BY <2>1, <2>2, FillerGoesOn
<1>9. ASSUME VisitRoom \/ AskState \/ AddBot \/ BotJoined PROVE Told'
  BY <1>9, ToldVisit, ToldAsk, ToldAddBot, ToldBotJoined
<1>10. ASSUME \/ \E r \in Started : SendPersist(r)
              \/ Persist \/ Signal \/ MainStep \/ ExitLate \/ UNCHANGED vars
       PROVE  Told'
  <2>1. UNCHANGED <<fill, tracked, pc, inbox, rooms, members>>
    BY <1>10 DEF SendPersist, Persist, Signal, MainStep, ShutHttp, WaitRooms, WaitFiller, Exit,
         ExitLate, vars, clientVars, roomVars, fillVars
  <2> QED BY <2>1, ToldSame
<1> QED BY <1>1, <1>2, <1>3, <1>4, <1>5, <1>6, <1>7, <1>8, <1>9, <1>10
        DEF Next, Handler, Session, FillerStep

\* The signal is not taken back.
LEMMA CancelledStays == Cancelled /\ [Next]_vars => Cancelled'
<1> SUFFICES ASSUME Cancelled, [Next]_vars PROVE Cancelled'
  OBVIOUS
<1>1. main' = main \/ main' \in {"http", "rooms", "filler", "drain", "exit", "late"}
  <2>1. ASSUME NEW h \in Human, Connect(h) \/ Handler(h) \/ Disconnect(h) PROVE UNCHANGED main
    BY <2>1 DEF Connect, Handler, Disconnect, HandshakeFails, Assign, PostJoin, AbandonJoin, Release, stopVars
  <2>2. ASSUME NEW c \in Client, Session(c) PROVE UNCHANGED main
    BY <2>2 DEF Session, SessionEnds, PostLeave, RunReturns, stopVars
  <2>3. ASSUME NEW r \in Started, Handle(r) \/ StopRoom(r) \/ SendPersist(r) \/ \E c \in Client : Drop(r, c)
        PROVE  UNCHANGED main
    BY <2>3 DEF Handle, StopRoom, SendPersist, Drop, stopVars
  <2>4. ASSUME FillerStep \/ Persist PROVE UNCHANGED main
    BY <2>4 DEF FillerStep, Reconcile, VisitRoom, AskState, Count, AddBot, BotJoined,
         StopNewest, Adjusted, FillerStops, Persist, stopVars
  <2>5. ASSUME Signal \/ MainStep \/ ExitLate \/ UNCHANGED vars
        PROVE  main' = main \/ main' \in {"http", "rooms", "filler", "drain", "exit", "late"}
    BY <2>5 DEF Signal, MainStep, ShutHttp, WaitRooms, WaitFiller, Exit, ExitLate, Goto, vars, stopVars
  <2> QED BY <2>1, <2>2, <2>3, <2>4, <2>5 DEF Next
<1> QED BY <1>1 DEF Cancelled

LEMMA GhostlessInit == Init => Ghostless
BY ToldInit DEF Ghostless

\* With the types this is inductive.
LEMMA GhostlessNext == Placed /\ Ghostless /\ [Next]_vars => Ghostless'
BY ToldNext, CancelledStays DEF Ghostless

\* No human, no bot wanted: the list has room for every member.
LEMMA NoneWanted ==
  ASSUME Placed, Told, Count, fill'.want > 0
  PROVE  members[fill.room] \intersect Human # {}
<1>0. PICK r \in RoomNumber : r = fill.room
  <2>1. fill.room \in Started
    BY DEF Count, Placed, Listed, Filling
  <2> QED BY <2>1, LobbyAssumption DEF Placed, Housed, Started, WithinLimits, RoomNumber
<1>1. Settled
  BY SettledTold DEF Count
<1>2. fill'.want = TargetBots(Cardinality(members[r]), Len(tracked[r]))
  <2>1. DOMAIN fill = FillFields
    BY DEF Placed, Listed, Filling, FillFields
  <2>2. PICK k : fill' = [fill EXCEPT !.at = "adjust",
                            !.want = TargetBots(Cardinality(members[r]), Len(tracked[r])),
                            !.keep = k]
    BY <1>0 DEF Count
  <2> QED BY <2>1, <2>2 DEF FillFields
<1> SUFFICES ASSUME members[r] \intersect Human = {} PROVE FALSE
  BY <1>0
<1>3. members[r] \subseteq Range(tracked[r])
  <2>1. \A c \in members[r] : c \in Client
    BY DEF Placed, Sent, Known
  <2> QED BY <1>1, <2>1 DEF Settled, Client
<1>4. tracked[r] \in Seq(Bot) /\ IsInjective(tracked[r])
  BY DEF Placed, Listed
<1>5. IsFiniteSet(Range(tracked[r])) /\ Cardinality(Range(tracked[r])) = Len(tracked[r])
  BY <1>4, OnceEach
<1>6. Cardinality(members[r]) <= Len(tracked[r]) /\ IsFiniteSet(members[r])
  BY <1>3, <1>5, FS_Subset
<1>7. Cardinality(members[r]) \in Nat /\ Len(tracked[r]) \in Nat
  BY <1>4, <1>6, FS_CardinalityType
<1>8. Cardinality(members[r]) - Len(tracked[r]) <= 0
  BY <1>6, <1>7
<1>9. fill'.want = 0
  BY <1>2, <1>8 DEF TargetBots
<1> QED BY <1>9

\* The filler wants bots only for humans: a bot whose session has returned has left
\* the room, too, before its players are counted (Filler.reconcileRoom).
THEOREM BotsAreNoHumans == Spec => NoPhantomHumans
<1>1. ASSUME Placed, Ghostless, [Next]_vars
      PROVE  [~Cancelled /\ fill.at = "count" /\ fill'.want > 0 =>
                 members[fill.room] \intersect Human # {}]_fill
  <2> SUFFICES ASSUME ~Cancelled, fill.at = "count", fill'.want > 0, fill' # fill
               PROVE  members[fill.room] \intersect Human # {}
    OBVIOUS
  <2>1. Count
    <3>1. ASSUME NEW h \in Human, Connect(h) \/ Handler(h) \/ Disconnect(h) PROVE UNCHANGED fill
      BY <3>1 DEF Connect, Handler, Disconnect, HandshakeFails, Assign, PostJoin, AbandonJoin, Release, fillVars
    <3>2. ASSUME NEW c \in Client, Session(c) PROVE UNCHANGED fill
      BY <3>2 DEF Session, SessionEnds, PostLeave, RunReturns, fillVars
    <3>3. ASSUME NEW r \in Started, StopRoom(r) \/ SendPersist(r) \/ \E c \in Client : Drop(r, c)
          PROVE  UNCHANGED fill
      BY <3>3 DEF StopRoom, SendPersist, Drop, fillVars
    <3>4. ASSUME NEW r \in Started, Handle(r) PROVE UNCHANGED fill
      BY <3>4 DEF Handle
    <3>5. ASSUME FillerStep PROVE Count
      BY <3>5 DEF FillerStep, Reconcile, VisitRoom, AskState, AddBot, BotJoined,
           StopNewest, Adjusted, FillerStops
    <3>6. ASSUME Persist \/ Signal \/ MainStep \/ ExitLate \/ UNCHANGED vars PROVE UNCHANGED fill
      BY <3>6 DEF Persist, Signal, MainStep, ShutHttp, WaitRooms, WaitFiller, Exit, ExitLate, vars, fillVars
    <3> QED BY <1>1, <3>1, <3>2, <3>3, <3>4, <3>5, <3>6 DEF Next
  <2> QED BY <1>1, <2>1, NoneWanted DEF Ghostless
<1> QED BY <1>1, PlacedInit, PlacedNext, GhostlessInit, GhostlessNext, PTL DEF Spec, NoPhantomHumans

-----------------------------------------------------------------------------
(* The rooms are rosters, as Room.tla is: what that module shows of a room *)
(* is what this one takes for a room.  A room that was not started yet has *)
(* no mail and no guests, and is as good as open.  A client is its own     *)
(* number here, so nobody is ever stale. *)

LetterOf(ev) == IF ev.kind = "state" THEN [kind |-> "other"] ELSE [kind |-> ev.kind, who |-> ev.who]
Letters(s) == [k \in DOMAIN s |-> LetterOf(s[k])]
Open(r) == r \in Started => Runs(r)

Roster(r) == INSTANCE Roster WITH
    Guest <- Client,
    Size <- InboxSize,
    Places <- MaxPlayers,
    mail <- Letters(inbox[r]),
    guests <- members[r],
    count <- Cardinality(members[r]),
    stale <- {},
    open <- Open(r)

RoomsKeepRosters ==
    /\ \A r \in RoomNumber : Roster(r)!Init
    /\ [][\A r \in RoomNumber : [Roster(r)!Next]_(Roster(r)!vars)]_vars

\* What the room shows changes with these and nothing else.
LEMMA RosterSame ==
  ASSUME NEW r, inbox'[r] = inbox[r], members'[r] = members[r], Open(r)' = Open(r)
  PROVE  [Roster(r)!Next]_(Roster(r)!vars)
<1>1. UNCHANGED <<Letters(inbox[r]), members[r], Cardinality(members[r]), Open(r)>>
  BY DEF Letters
<1> QED BY <1>1 DEF Roster!vars

\* The roster counts as the lobby does.
LEMMA SameCount == \A r, S : Roster(r)!Cardinality(S) = Cardinality(S)
  BY DEF Roster!Cardinality, Cardinality

\* The letters grow with the mail,
LEMMA LettersPosted ==
  ASSUME NEW s \in Seq(Event), NEW ev \in Event
  PROVE  /\ Len(Letters(s)) = Len(s)
         /\ Letters(Append(s, ev)) = Append(Letters(s), LetterOf(ev))
<1> DEFINE L == {LetterOf(e) : e \in Event}
           long == Append(s, ev)
<1>1. /\ Len(s) \in Nat /\ DOMAIN s = 1 .. Len(s) /\ \A k \in 1 .. Len(s) : s[k] \in Event
      /\ DOMAIN long = 1 .. Len(s) + 1 /\ long[Len(s) + 1] = ev
      /\ \A k \in 1 .. Len(s) : long[k] = s[k]
  OBVIOUS
<1>2. Letters(s) = [k \in 1 .. Len(s) |-> LetterOf(s[k])]
  BY <1>1 DEF Letters
<1>3. \A e \in Event : LetterOf(e) \in L
  OBVIOUS
<1> HIDE DEF L, long
<1>4. Letters(s) \in Seq(L) /\ Len(Letters(s)) = Len(s)
  BY <1>1, <1>2, <1>3
<1>5. Append(Letters(s), LetterOf(ev))
        = [k \in 1 .. Len(s) + 1 |-> IF k \in 1 .. Len(s) THEN LetterOf(s[k]) ELSE LetterOf(ev)]
  BY <1>1, <1>2, <1>3, <1>4
<1>6. Letters(long) = [k \in 1 .. Len(s) + 1 |-> LetterOf(long[k])]
  BY <1>1 DEF Letters
<1>7. \A k \in 1 .. Len(s) + 1 : k \notin 1 .. Len(s) => k = Len(s) + 1
  BY <1>1
<1>8. \A k \in 1 .. Len(s) + 1 :
         LetterOf(long[k]) = IF k \in 1 .. Len(s) THEN LetterOf(s[k]) ELSE LetterOf(ev)
  BY <1>1, <1>7
<1>9. Letters(long) = Append(Letters(s), LetterOf(ev))
  BY <1>5, <1>6, <1>8
<1> QED BY <1>4, <1>9 DEF long

\* and shrink with it, from the other end.
LEMMA LettersTaken ==
  ASSUME NEW s \in Seq(Event), s # << >>
  PROVE  /\ Letters(s) # << >> /\ Head(Letters(s)) = LetterOf(Head(s))
         /\ Letters(Tail(s)) = Tail(Letters(s))
<1> DEFINE L == {LetterOf(e) : e \in Event}
<1>1. /\ DOMAIN s = 1 .. Len(s) /\ Len(s) \in Nat \ {0} /\ \A k \in 1 .. Len(s) : s[k] \in Event
      /\ DOMAIN Tail(s) = 1 .. Len(s) - 1 /\ Head(s) = s[1]
      /\ \A k \in 1 .. Len(s) - 1 : Tail(s)[k] = s[k + 1]
  OBVIOUS
<1>2. Letters(s) = [k \in 1 .. Len(s) |-> LetterOf(s[k])]
  BY <1>1 DEF Letters
<1>3. \A e \in Event : LetterOf(e) \in L
  OBVIOUS
<1> HIDE DEF L
<1>4. Letters(s) \in Seq(L) /\ Len(Letters(s)) = Len(s) /\ Letters(s) # << >>
  BY <1>1, <1>2, <1>3
<1>5. Head(Letters(s)) = LetterOf(Head(s))
  BY <1>1, <1>2, <1>4
<1>6. Tail(Letters(s)) = [k \in 1 .. Len(s) - 1 |-> LetterOf(s[k + 1])]
  BY <1>1, <1>2, <1>4
<1>7. Letters(Tail(s)) = [k \in 1 .. Len(s) - 1 |-> LetterOf(Tail(s)[k])]
  BY <1>1 DEF Letters
<1> QED BY <1>1, <1>4, <1>5, <1>6, <1>7

\* Who is there after a letter.
LEMMA AfterIs ==
  ASSUME NEW r, NEW letter
  PROVE  Roster(r)!After(letter)
           = {IF letter.kind = "join"
                THEN IF Admits(r, letter.who) THEN members[r] \union {letter.who} ELSE members[r]
              ELSE IF letter.kind = "leave" THEN members[r] \ {letter.who}
              ELSE members[r]}
<1>1. PICK n : n = Cardinality(members[r]) /\ n = Roster(r)!Cardinality(members[r])
  BY SameCount
<1>2. Roster(r)!After(letter)
        = CASE letter.kind = "join" ->
                 {IF n < MaxPlayers THEN members[r] \union {letter.who} ELSE members[r]}
            [] letter.kind = "leave" -> {members[r] \ {letter.who}}
            [] OTHER -> {members[r]}
  <2>1. letter.who \notin {} \ members[r]
    OBVIOUS
  <2> QED BY <1>1, <2>1 DEF Roster!After
<1>3. Admits(r, letter.who) <=> n < MaxPlayers
  BY <1>1 DEF Admits
<1>4. CASE letter.kind = "join"
  <2>1. letter.kind # "leave"
    BY <1>4
  <2> QED BY <1>2, <1>3, <1>4, <2>1
<1>5. CASE letter.kind = "leave"
  <2>1. letter.kind # "join"
    BY <1>5
  <2> QED BY <1>2, <1>5, <2>1
<1>6. CASE letter.kind # "join" /\ letter.kind # "leave"
  BY <1>2, <1>6
<1> QED BY <1>4, <1>5, <1>6

\* What others are told of a room that has new members.
LEMMA BecomeIs ==
  ASSUME NEW r, NEW S, members'[r] = S
  PROVE  Roster(r)!Become(S)
<1>1. Cardinality(members'[r]) = Roster(r)!Cardinality(S)
  BY SameCount
<1> QED BY <1>1 DEF Roster!Become

\* A post is a letter posted to its room, and to no other.
LEMMA PostRoster ==
  ASSUME Housed, UNCHANGED <<rooms, members>>, NEW s,
         NEW kind \in {"join", "leave", "state"}, NEW who \in Client \union {0},
         kind # "state" => who \in Client,
         RoomForEvent(s), inbox' = Posted(s, kind, who), NEW r \in RoomNumber
  PROVE  [Roster(r)!Next]_(Roster(r)!vars)
<1>1. PICK ev \in Event : ev = [kind |-> kind, who |-> who]
  BY DEF Event
<1>2. inbox' = [inbox EXCEPT ![s] = Append(@, ev)] /\ Len(inbox[s]) < InboxSize
  BY <1>1 DEF Posted, RoomForEvent
<1>3. Open(r)' = Open(r) /\ members'[r] = members[r]
  BY DEF Open, Started, Runs
<1>4. CASE r # s
  <2>1. inbox'[r] = inbox[r]
    BY <1>2, <1>4 DEF Housed
  <2> QED BY <1>3, <2>1, RosterSame
<1>5. CASE r = s
  <2>1. inbox[r] \in Seq(Event) /\ inbox'[r] = Append(inbox[r], ev) /\ Len(inbox[r]) < InboxSize
    BY <1>2, <1>5 DEF Housed
  <2>2. /\ Len(Letters(inbox[r])) < InboxSize
        /\ Letters(inbox'[r]) = Append(Letters(inbox[r]), LetterOf(ev))
    BY <2>1, LettersPosted
  <2>3. LetterOf(ev) \in Roster(r)!Letter
    BY <1>1 DEF LetterOf, Roster!Letter, Roster!Other
  <2>4. Letters(inbox[r])' = Append(Letters(inbox[r]), LetterOf(ev))
    BY <2>2 DEF Letters
  <2>5. UNCHANGED <<members[r], Cardinality(members[r]), Open(r)>>
    BY <1>3
  <2>6. Roster(r)!Post
    BY <2>2, <2>3, <2>4, <2>5 DEF Roster!Post
  <2> QED BY <2>6 DEF Roster!Next
<1> QED BY <1>4, <1>5

\* An event handled is a letter taken.
LEMMA HandleRoster ==
  ASSUME Housed, NEW s \in Started, Handle(s), NEW r \in RoomNumber
  PROVE  [Roster(r)!Next]_(Roster(r)!vars)
<1>1. /\ inbox[s] # << >> /\ inbox' = [inbox EXCEPT ![s] = Tail(@)] /\ UNCHANGED rooms /\ Runs(s)
  BY DEF Handle
<1>2. Open(r)' = Open(r)
  BY <1>1 DEF Open, Started, Runs
<1>3. CASE r # s
  <2>1. members'[r] = members[r]
    BY <1>3 DEF Handle, Housed
  <2>2. inbox'[r] = inbox[r]
    BY <1>1, <1>3 DEF Housed
  <2> QED BY <1>2, <2>1, <2>2, RosterSame
<1>4. CASE r = s
  <2>1. inbox[r] \in Seq(Event) /\ inbox[r] # << >> /\ inbox'[r] = Tail(inbox[r])
    BY <1>1, <1>4 DEF Housed
  <2>2. PICK ev \in Event : ev = Head(inbox[r])
    BY <2>1
  <2>3. /\ Letters(inbox[r]) # << >> /\ Head(Letters(inbox[r])) = LetterOf(ev)
        /\ Letters(inbox'[r]) = Tail(Letters(inbox[r]))
    BY <2>1, <2>2, LettersTaken
  <2>4. PICK letter : letter = LetterOf(ev)
    OBVIOUS
  <2>5. /\ letter.kind = "join" <=> ev.kind = "join"
        /\ letter.kind = "leave" <=> ev.kind = "leave"
        /\ ev.kind # "state" => letter.who = ev.who
    BY <2>4 DEF LetterOf, Event
  <2>6. \/ ev.kind = "join" /\ Admits(r, ev.who) /\ members'[r] = members[r] \union {ev.who}
        \/ ev.kind = "join" /\ ~Admits(r, ev.who) /\ members'[r] = members[r]
        \/ ev.kind = "leave" /\ members'[r] = members[r] \ {ev.who}
        \/ ev.kind = "state" /\ members'[r] = members[r]
    BY <1>4, <2>2 DEF Handle, Housed
  <2>7. PICK S : S = members'[r]
    OBVIOUS
  <2>8. S \in Roster(r)!After(letter)
    BY <2>5, <2>6, <2>7, AfterIs
  <2>9. Roster(r)!Become(S)
    BY <2>7, BecomeIs
  <2>10. \E T \in Roster(r)!After(Head(Letters(inbox[r]))) : Roster(r)!Become(T)
    <3>1. S \in Roster(r)!After(Head(Letters(inbox[r])))
      BY <2>3, <2>4, <2>8
    <3> QED BY <2>9, <3>1
  <2>11. Letters(inbox[r])' = Tail(Letters(inbox[r]))
    BY <2>3 DEF Letters
  <2>12. Open(r) /\ UNCHANGED Open(r)
    BY <1>1, <1>2, <1>4 DEF Open
  <2>13. Roster(r)!Take
    BY <2>3, <2>10, <2>11, <2>12 DEF Roster!Take, Roster!Age
  <2> QED BY <2>13 DEF Roster!Next
<1> QED BY <1>3, <1>4

\* A session dropped leaves its room, a room that stops is left by all.
LEMMA GoneRoster ==
  ASSUME Housed, NEW s \in Started, StopRoom(s) \/ \E c \in Client : Drop(s, c), NEW r \in RoomNumber
  PROVE  [Roster(r)!Next]_(Roster(r)!vars)
<1>1. UNCHANGED inbox /\ Runs(s)
  BY DEF StopRoom, Drop
<1>2. Letters(inbox[r])' = Letters(inbox[r])
  BY <1>1 DEF Letters
<1>3. ASSUME r # s PROVE [Roster(r)!Next]_(Roster(r)!vars)
  <2>1. members'[r] = members[r]
    BY <1>3 DEF StopRoom, Drop, Housed
  <2>2. r \in Started => rooms'[r] = rooms[r]
    BY <1>3 DEF StopRoom, Drop, Started
  <2>3. Started' = Started
    BY DEF StopRoom, Drop, Started
  <2>4. Open(r)' = Open(r)
    BY <2>2, <2>3 DEF Open, Runs
  <2> QED BY <1>1, <2>1, <2>4, RosterSame
<1>4. ASSUME r = s, StopRoom(s) PROVE [Roster(r)!Next]_(Roster(r)!vars)
  <2>1. members'[r] = {} /\ rooms'[r] = "stopped" /\ r \in DOMAIN rooms'
    BY <1>4 DEF StopRoom, Housed, Started
  <2>2. Roster(r)!Become({})
    BY <2>1, BecomeIs
  <2>3. Open(r) /\ Open(r)' = FALSE
    BY <1>1, <1>4, <2>1 DEF Open, Started, Runs
  <2>4. Roster(r)!Close
    BY <1>2, <2>2, <2>3 DEF Roster!Close
  <2> QED BY <2>4 DEF Roster!Next
<1>5. ASSUME r = s, NEW c \in Client, Drop(s, c) PROVE [Roster(r)!Next]_(Roster(r)!vars)
  <2>1. PICK S \in SUBSET members[r] : members'[r] = S
    BY <1>5 DEF Drop, Housed
  <2>2. \E S1 \in SUBSET members[r] : Roster(r)!Become(S1)
    BY <2>1, BecomeIs
  <2>3. UNCHANGED rooms
    BY <1>5 DEF Drop
  <2>4. Open(r) /\ UNCHANGED Open(r)
    BY <1>1, <1>5, <2>3 DEF Open, Started, Runs
  <2>5. Roster(r)!Drop
    BY <1>2, <2>2, <2>4 DEF Roster!Drop
  <2> QED BY <2>5 DEF Roster!Next
<1> QED BY <1>3, <1>4, <1>5

\* A new room is as open as it was before.
LEMMA AssignRoster ==
  ASSUME Housed, NEW h \in Human, Assign(h), NEW r \in RoomNumber
  PROVE  [Roster(r)!Next]_(Roster(r)!vars)
<1>1. UNCHANGED <<inbox, members>> /\ (UNCHANGED rooms \/ rooms' = Append(rooms, "running"))
  BY DEF Assign
<1>2. CASE UNCHANGED rooms
  <2>1. Open(r)' = Open(r)
    BY <1>2 DEF Open, Started, Runs
  <2> QED BY <1>1, <2>1, RosterSame
<1>3. CASE rooms' = Append(rooms, "running")
  <2>1. /\ Len(rooms) \in Nat /\ DOMAIN rooms = 1 .. Len(rooms)
        /\ DOMAIN rooms' = 1 .. Len(rooms) + 1
        /\ rooms'[Len(rooms) + 1] = "running"
        /\ \A k \in 1 .. Len(rooms) : rooms'[k] = rooms[k]
    BY <1>3 DEF Housed
  <2>2. r \in DOMAIN rooms' => r \in DOMAIN rooms \/ rooms'[r] = "running"
    BY <2>1 DEF RoomNumber
  <2>3. r \in DOMAIN rooms => r \in DOMAIN rooms' /\ rooms'[r] = rooms[r]
    BY <2>1
  <2>4. Open(r)' = Open(r)
    BY <2>2, <2>3 DEF Open, Started, Runs
  <2> QED BY <1>1, <2>4, RosterSame
<1> QED BY <1>1, <1>2, <1>3

\* Every step is a step of each roster, or does not show.
LEMMA NextRosters ==
  ASSUME Housed, [Next]_vars, NEW r \in RoomNumber
  PROVE  [Roster(r)!Next]_(Roster(r)!vars)
<1>1. ASSUME UNCHANGED roomVars PROVE [Roster(r)!Next]_(Roster(r)!vars)
  <2>1. Open(r)' = Open(r)
    BY <1>1 DEF roomVars, Open, Started, Runs
  <2> QED BY <1>1, <2>1, RosterSame DEF roomVars
<1>2. ASSUME NEW h \in Human, PostJoin(h) PROVE [Roster(r)!Next]_(Roster(r)!vars)
  <2>1. UNCHANGED <<rooms, members>> /\ h \in Client
        /\ (UNCHANGED inbox \/ (RoomForEvent(room[h]) /\ inbox' = Posted(room[h], "join", h)))
    BY <1>2 DEF PostJoin, Client
  <2> QED BY <1>1, <2>1, PostRoster DEF roomVars
<1>3. ASSUME NEW c \in Client, PostLeave(c) PROVE [Roster(r)!Next]_(Roster(r)!vars)
  <2>1. UNCHANGED <<rooms, members>>
        /\ (UNCHANGED inbox \/ (RoomForEvent(room[c]) /\ inbox' = Posted(room[c], "leave", c)))
    BY <1>3 DEF PostLeave
  <2> QED BY <1>1, <2>1, PostRoster DEF roomVars
<1>4. ASSUME AskState PROVE [Roster(r)!Next]_(Roster(r)!vars)
  <2>1. UNCHANGED <<rooms, members>>
        /\ (UNCHANGED inbox \/ (RoomForEvent(fill.room) /\ inbox' = Posted(fill.room, "state", 0)))
    BY <1>4 DEF AskState
  <2> QED BY <1>1, <2>1, PostRoster DEF roomVars
<1>5. ASSUME AddBot PROVE [Roster(r)!Next]_(Roster(r)!vars)
  <2>1. UNCHANGED <<rooms, members>>
    BY <1>5, Zenon DEF AddBot
  <2>2. ASSUME NEW b \in Bot, RoomForEvent(fill.room), inbox' = Posted(fill.room, "join", b)
        PROVE  [Roster(r)!Next]_(Roster(r)!vars)
    <3>1. b \in Client
      BY DEF Client
    <3> QED BY <2>1, <2>2, <3>1, PostRoster
  <2>3. \/ UNCHANGED inbox
        \/ \E b \in Bot : RoomForEvent(fill.room) /\ inbox' = Posted(fill.room, "join", b)
    BY <1>5, Zenon DEF AddBot
  <2> QED BY <1>1, <2>1, <2>2, <2>3 DEF roomVars
<1>6. ASSUME NEW h \in Human,
             Connect(h) \/ HandshakeFails(h) \/ AbandonJoin(h) \/ Release(h) \/ Disconnect(h)
      PROVE  UNCHANGED roomVars
  BY <1>6 DEF Connect, HandshakeFails, AbandonJoin, Release, Disconnect
<1>7. ASSUME NEW c \in Client, SessionEnds(c) \/ RunReturns(c) PROVE UNCHANGED roomVars
  BY <1>7 DEF SessionEnds, RunReturns
<1>8. ASSUME \/ \E s \in Started : SendPersist(s)
             \/ Reconcile \/ VisitRoom \/ Count \/ BotJoined \/ StopNewest \/ Adjusted
             \/ FillerStops \/ Persist \/ Signal \/ MainStep \/ ExitLate \/ UNCHANGED vars
      PROVE  UNCHANGED roomVars
  BY <1>8 DEF SendPersist, Reconcile, VisitRoom, Count, BotJoined, StopNewest, Adjusted,
     FillerStops, Persist, Signal, MainStep, ShutHttp, WaitRooms, WaitFiller, Exit, ExitLate, vars
<1> QED
  BY <1>1, <1>2, <1>3, <1>4, <1>5, <1>6, <1>7, <1>8, AssignRoster, HandleRoster, GoneRoster
  DEF Next, Handler, Session, FillerStep

\* What Room.tla shows of one room, this module's rooms show too: the events of
\* an inbox take effect in the order in which they were posted, a client is
\* admitted exactly while there is a place, a leave removes its sender and nobody
\* else, a stopped room admits no one, and no step of the hub, the filler, the
\* persister or the shutdown touches a room in another way (handle, Hub.Assign,
\* Filler.reconcileRoom).
THEOREM LobbyRoomsKeepRosters == Spec => RoomsKeepRosters
<1>1. ASSUME Init, NEW r \in RoomNumber PROVE Roster(r)!Init
  <2>1. Letters(inbox[r]) = << >>
    BY <1>1 DEF Init, Letters
  <2>2. members[r] = {} /\ Cardinality(members[r]) = 0
    BY <1>1, FS_EmptySet DEF Init
  <2>3. Open(r) = TRUE
    BY <1>1 DEF Init, Open, Started
  <2> QED BY <2>1, <2>2, <2>3 DEF Roster!Init
<1>2. Init => \A r \in RoomNumber : Roster(r)!Init
  BY <1>1
<1>3. Housed /\ [Next]_vars => [\A r \in RoomNumber : [Roster(r)!Next]_(Roster(r)!vars)]_vars
  BY NextRosters
<1> QED BY <1>2, <1>3, HousedInit, HousedNext, PTL DEF Spec, RoomsKeepRosters

=============================================================================
