----------------------------- MODULE RoomProofs -----------------------------
(***************************************************************************)
(* Theorems about Room.tla for all sets of handlers, ids and capacities.   *)
(***************************************************************************)
EXTENDS Room, FiniteSetTheorems, WellFoundedInduction, TLAPS

-----------------------------------------------------------------------------
(***************************************************************************)
(* Ids, sets of them and the search for a free one.                        *)
(***************************************************************************)

\* A non-empty set of ids has a least member.
LEMMA LeastId ==
  ASSUME NEW S \in SUBSET Ids, S # {}
  PROVE  \E i \in S : \A j \in S : i <= j
<1> DEFINE T == {1 .. i : i \in S}
<1>1. S \subseteq Nat
  BY RoomAssumption DEF Ids
<1>2. T \subseteq FiniteSubsetsOf(Nat) /\ T # {}
  <2>1. ASSUME NEW i \in S
        PROVE  1 .. i \in SUBSET Nat /\ IsFiniteSet(1 .. i)
    BY <1>1, FS_Interval
  <2>2. QED
    BY <2>1 DEF FiniteSubsetsOf
<1>3. IsWellFoundedOn(StrictSubsetOrdering(Nat), FiniteSubsetsOf(Nat))
  BY FS_StrictSubsetOrderingWellFounded
<1>4. PICK x \in T : \A y \in T : ~ (<<y, x>> \in StrictSubsetOrdering(Nat))
  <2> HIDE DEF T
  <2>1. QED
    BY <1>2, <1>3, WFMin
<1>5. PICK i \in S : x = 1 .. i
  OBVIOUS
<1>6. ASSUME NEW j \in S, j < i
      PROVE  FALSE
  <2>1. 1 .. j \in SUBSET Nat /\ 1 .. i \in SUBSET Nat /\ 1 .. j \subseteq 1 .. i
    BY <1>1, <1>6
  <2>2. i \in 1 .. i /\ i \notin 1 .. j
    BY <1>1, <1>6
  <2>3. <<1 .. j, 1 .. i>> \in StrictSubsetOrdering(Nat)
    BY <2>1, <2>2 DEF StrictSubsetOrdering
  <2>4. QED
    BY <1>4, <1>5, <2>3
<1>7. QED
  BY <1>1, <1>6

\* The search of allocID and of handleSpectatorJoin ends at a free id.
LEMMA FirstFreeIsFree ==
  ASSUME NEW from \in Ids, NEW used, Ids \ used # {}
  PROVE  FirstFree(from, used) \in Ids \ used
<1> DEFINE free == Ids \ used
           later == {i \in free : i >= from}
           pool == IF later = {} THEN free ELSE later
<1>1. pool \in SUBSET Ids /\ pool # {} /\ pool \subseteq free
  OBVIOUS
<1> HIDE DEF pool
<1>2. \E i \in pool : \A j \in pool : i <= j
  BY <1>1, LeastId
<1>3. (CHOOSE i \in pool : \A j \in pool : i <= j) \in pool
  BY <1>2
<1>4. QED
  BY <1>1, <1>3 DEF FirstFree, pool

\* A set of ids is finite, and so is the set of handlers.
LEMMA FiniteSubsets ==
  /\ \A S \in SUBSET Ids : IsFiniteSet(S) /\ Cardinality(S) \in Nat
  /\ \A S \in SUBSET Topics : IsFiniteSet(S) /\ Cardinality(S) \in Nat
<1>1. IsFiniteSet(Ids)
  BY RoomAssumption, FS_Interval DEF Ids
<1>2. IsFiniteSet(Topics)
  <2>1. IsFiniteSet({"match"})
    BY FS_Singleton
  <2>2. IsFiniteSet({"match"} \cup {"pickups"})
    BY <2>1, FS_AddElement
  <2>3. IsFiniteSet({"match"} \cup {"pickups"} \cup {"weapons"})
    BY <2>2, FS_AddElement
  <2>4. IsFiniteSet({"match"} \cup {"pickups"} \cup {"weapons"} \cup {"flags"})
    BY <2>3, FS_AddElement
  <2>5. Topics = {"match"} \cup {"pickups"} \cup {"weapons"} \cup {"flags"}
    BY DEF Topics
  <2>6. QED
    BY <2>4, <2>5
<1>3. QED
  BY <1>1, <1>2, FS_Subset, FS_CardinalityType

-----------------------------------------------------------------------------
(***************************************************************************)
(* Types.                                                                  *)
(***************************************************************************)

LEMMA InitType == Init => TypeOK
<1> SUFFICES ASSUME Init PROVE TypeOK
  OBVIOUS
<1>1. 1 \in Ids /\ Ids = 1 .. IdSpace /\ IdSpace \in Nat /\ <<>> \in Seq(Events) /\ Len(<<>>) = 0
  BY RoomAssumption DEF Ids
<1>2. /\ 0 \in 0 .. InboxSize /\ 0 \in 0 .. TickRate - 1 /\ 0 \in 0 .. IdSpace
      /\ 0 \in 0 .. ReliableSize /\ 0 \in 0 .. SessionQueue /\ Len(inbox) <= InboxSize
  BY <1>1, RoomAssumption DEF Init
<1>3. /\ roomPc \in RoomPcs /\ handler \in [Clients -> HandlerPcs]
      /\ owed \in [Clients -> SUBSET Topics] /\ dirty \subseteq Topics
  BY DEF Init, RoomPcs, HandlerPcs
<1>4. QED
  BY <1>1, <1>2, <1>3 DEF Init, TypeOK

\* What Release leaves is a map, a world and a count again.
LEMMA ReleaseType ==
  ASSUME TypeOK, NEW S \in SUBSET Clients, Release(S)
  PROVE  /\ sessions' \in [Ids -> Clients \cup {None}]
         /\ spectators' \in [Ids -> Clients \cup {None}]
         /\ world' \subseteq Ids
         /\ players' \in Nat
         /\ queues' \in [Clients -> {"none", "open", "closed"}]
<1> DEFINE stay == {i \in Members : sessions[i] \notin S}
<1>1. Cardinality(stay) \in Nat
  <2>1. stay \in SUBSET Ids
    BY DEF Members
  <2>2. QED
    BY <2>1, FiniteSubsets
<1>2. players' \in Nat
  <2>1. players' \in {players, Cardinality(stay)}
    BY DEF Release
  <2>2. players \in Nat
    BY DEF TypeOK
  <2>3. QED
    BY <1>1, <2>1, <2>2
<1>3. QED
  BY <1>2 DEF Release, Reset, TypeOK

\* A counter draws at least one id and at most all of them before it gives one out.
LEMMA DrawsCount ==
  ASSUME NEW from \in Ids, NEW to \in Ids
  PROVE  Draws(from, to) \in 1 .. IdSpace
BY RoomAssumption DEF Draws, Ids

\* The ids drawn since a handler's only grow in number.
LEMMA OlderType ==
  ASSUME TypeOK, NEW P, NEW k \in Nat
  PROVE  /\ Older(P, k) \in [Clients -> 0 .. IdSpace]
         /\ \A c \in Clients : drawn[c] <= Older(P, k)[c]
<1>1. \A c \in Clients : drawn[c] \in 0 .. IdSpace
  BY DEF TypeOK
<1>2. IdSpace \in Nat
  BY RoomAssumption
<1>3. QED
  BY <1>1, <1>2 DEF Older

LEMMA HandleLeaveType ==
  ASSUME TypeOK, NEW S \in SUBSET Clients, HandleLeave(S)
  PROVE  /\ sessions' \in [Ids -> Clients \cup {None}]
         /\ spectators' \in [Ids -> Clients \cup {None}]
         /\ nextId' \in Ids /\ nextSpecId' \in Ids
         /\ world' \subseteq Ids
         /\ dirty' \subseteq Topics
         /\ players' \in Nat
         /\ reliable' \in [Clients -> 0 .. ReliableSize]
         /\ snapshots' \in [Clients -> 0 .. SessionQueue]
         /\ queues' \in [Clients -> {"none", "open", "closed"}]
         /\ backlog' \in [Clients -> Nat]
         /\ kick' \in [Clients -> BOOLEAN]
         /\ reply' \in [Clients -> {"none", "session", "full"}]
         /\ myId' \in [Clients -> 0 .. IdSpace]
         /\ owed' \in [Clients -> SUBSET Topics]
         /\ missed' \in [Clients -> BOOLEAN]
         /\ drawn' \in [Clients -> 0 .. IdSpace]
<1>1. Release(S)
  BY DEF HandleLeave
<1>2. TableAfter(S) \in SUBSET Topics
  BY DEF TableAfter, Topics
<1>3. Owe(TableAfter(S)) \in [Clients -> SUBSET Topics]
  BY <1>2 DEF Owe, TypeOK
<1>4. owed' \in [Clients -> SUBSET Topics]
  BY <1>3 DEF HandleLeave, Reset
<1>5. backlog' \in [Clients -> Nat]
  BY DEF HandleLeave, Reset, TypeOK
<1>6. kick' \in [Clients -> BOOLEAN]
  BY DEF HandleLeave, Reset, TypeOK
<1>7. missed' \in [Clients -> BOOLEAN]
  BY DEF HandleLeave, Reset, TypeOK
<1>8. dirty' \subseteq Topics
  BY <1>2 DEF HandleLeave, TypeOK
<1>9. QED
  BY <1>1, <1>4, <1>5, <1>6, <1>7, <1>8, ReleaseType DEF HandleLeave, TypeOK

LEMMA NextIdType == \A i \in Ids : NextId(i) \in Ids
BY RoomAssumption DEF NextId, Ids

\* Admit gives the session it opens a type, whatever topics it marks.
LEMMA AdmitType ==
  ASSUME TypeOK, NEW c \in Clients, NEW i \in Ids, NEW T \in SUBSET Topics, Admit(c, i, T)
  PROVE  /\ dirty' \subseteq Topics
         /\ reliable' \in [Clients -> 0 .. ReliableSize]
         /\ snapshots' \in [Clients -> 0 .. SessionQueue]
         /\ queues' \in [Clients -> {"none", "open", "closed"}]
         /\ backlog' \in [Clients -> Nat]
         /\ kick' \in [Clients -> BOOLEAN]
         /\ reply' \in [Clients -> {"none", "session", "full"}]
         /\ myId' \in [Clients -> 0 .. IdSpace]
         /\ missed' \in [Clients -> BOOLEAN]
<1>1. 1 \in 0 .. ReliableSize
  BY RoomAssumption
<1>2. i \in 0 .. IdSpace
  BY RoomAssumption DEF Ids
<1>3. QED
  BY <1>1, <1>2 DEF Admit, TypeOK

LEMMA HandleJoinType ==
  ASSUME TypeOK, NEW c \in Players, HandleJoin(c)
  PROVE  /\ sessions' \in [Ids -> Clients \cup {None}]
         /\ spectators' \in [Ids -> Clients \cup {None}]
         /\ nextId' \in Ids /\ nextSpecId' \in Ids
         /\ world' \subseteq Ids
         /\ players' \in Nat
         /\ owed' \in [Clients -> SUBSET Topics]
         /\ drawn' \in [Clients -> 0 .. IdSpace]
         /\ \E i \in Ids : Admit(c, i, Topics)
<1>1. PICK i \in Ids \ world :
        /\ nextId' = NextId(i)
        /\ drawn' = Older(Players, Draws(nextId, i))
        /\ world' = world \cup {i}
        /\ sessions' = [sessions EXCEPT ![i] = c]
        /\ players' = Cardinality(Members \cup {i})
        /\ Admit(c, i, Topics)
  BY DEF HandleJoin
<1>2. /\ owed' = [Owe({"match"}) EXCEPT ![c] = Topics]
      /\ UNCHANGED <<spectators, nextSpecId>>
  BY DEF HandleJoin
<1>3. players' \in Nat
  <2>1. Members \cup {i} \in SUBSET Ids
    BY <1>1 DEF Members
  <2>2. QED
    BY <1>1, <2>1, FiniteSubsets
<1>4. owed' \in [Clients -> SUBSET Topics]
  <2>1. Owe({"match"}) \in [Clients -> SUBSET Topics]
    BY DEF Owe, TypeOK, Topics
  <2>2. QED
    BY <1>2, <2>1
<1>5. drawn' \in [Clients -> 0 .. IdSpace]
  <2>1. Draws(nextId, i) \in Nat
    BY <1>1, DrawsCount DEF TypeOK
  <2>2. QED
    BY <1>1, <2>1, OlderType
<1>6. QED
  BY <1>1, <1>2, <1>3, <1>4, <1>5, NextIdType DEF TypeOK, Clients

LEMMA HandleSpectatorJoinType ==
  ASSUME TypeOK, NEW c \in Watchers, ~Full(c), HandleSpectatorJoin(c)
  PROVE  /\ sessions' \in [Ids -> Clients \cup {None}]
         /\ spectators' \in [Ids -> Clients \cup {None}]
         /\ nextId' \in Ids /\ nextSpecId' \in Ids
         /\ world' \subseteq Ids
         /\ players' \in Nat
         /\ owed' \in [Clients -> SUBSET Topics]
         /\ drawn' \in [Clients -> 0 .. IdSpace]
         /\ \E j \in Ids : Admit(c, j, Topics \ {"flags"})
<1> DEFINE j == FirstFree(nextSpecId, Viewers)
<1>1. j \in Ids
  <2>1. c \notin Players
    BY RoomAssumption
  <2>2. Ids \ Viewers # {}
    BY <2>1 DEF Full, Viewers
  <2>3. QED
    BY <2>2, FirstFreeIsFree DEF TypeOK
<1> HIDE DEF j
<1>2. /\ nextSpecId' = NextId(j)
      /\ drawn' = Older(Watchers, Draws(nextSpecId, j))
      /\ spectators' = [spectators EXCEPT ![j] = c]
      /\ Admit(c, j, Topics \ {"flags"})
      /\ owed' = [owed EXCEPT ![c] = Topics]
      /\ UNCHANGED <<sessions, nextId, world, players>>
  BY DEF HandleSpectatorJoin, j
<1>3. drawn' \in [Clients -> 0 .. IdSpace]
  <2>1. Draws(nextSpecId, j) \in Nat
    BY <1>1, DrawsCount DEF TypeOK
  <2>2. QED
    BY <1>2, <2>1, OlderType
<1>4. QED
  BY <1>1, <1>2, <1>3, NextIdType DEF TypeOK, Clients

LEMMA TickType == TypeOK /\ Tick => TypeOK'
BY RoomAssumption DEF TypeOK, Tick, RoomPcs, mapVars, sessionVars, handlerVars, historyVars

LEMMA DrainType == TypeOK /\ Drain => TypeOK'
<1> SUFFICES ASSUME TypeOK, Drain PROVE TypeOK'
  OBVIOUS
<1> DEFINE ev == Head(inbox)
<1>1. ev \in Events /\ Tail(inbox) \in Seq(Events) /\ Len(Tail(inbox)) <= InboxSize
  <2>1. inbox \in Seq(Events) /\ inbox # <<>> /\ Len(inbox) <= InboxSize
    BY DEF TypeOK, Drain
  <2>2. /\ Head(inbox) \in Events /\ Tail(inbox) \in Seq(Events)
        /\ Len(Tail(inbox)) = Len(inbox) - 1
    BY <2>1
  <2>3. QED
    BY <2>1, <2>2, RoomAssumption
<1>2. ev.from \in Clients /\ ev.id \in 0 .. IdSpace
  BY <1>1 DEF Events
<1>3. budget' \in 0 .. (IF roomPc' = "dispatch" THEN MaxEvents ELSE InboxSize)
  <2>1. budget \in 0 .. InboxSize /\ budget > 0 /\ budget' = budget - 1 /\ roomPc' = "drain"
    BY DEF TypeOK, Drain
  <2>2. QED
    BY <2>1, RoomAssumption
<1>4. /\ inbox' = Tail(inbox) /\ Handle(ev)
      /\ UNCHANGED <<roomPc, accum, closed, cancelled, handler, writer>>
  BY DEF Drain
<1>5. /\ roomPc' \in RoomPcs /\ accum' \in 0 .. TickRate - 1 /\ inbox' \in Seq(Events)
      /\ Len(inbox') <= InboxSize /\ closed' \in BOOLEAN /\ cancelled' \in BOOLEAN
      /\ handler' \in [Clients -> HandlerPcs] /\ writer' \in [Clients -> {"off", "on", "done"}]
  BY <1>1, <1>4 DEF TypeOK
<1> HIDE DEF ev
<1>6. CASE Refuse(ev.from)
  <2>1. reply' \in [Clients -> {"none", "session", "full"}]
    BY <1>6 DEF Refuse, TypeOK
  <2>2. QED
    BY <1>3, <1>5, <1>6, <2>1 DEF Refuse, TypeOK, mapVars, sessionVars, historyVars
<1>7. CASE ~Full(ev.from) /\ ev.from \in Players /\ HandleJoin(ev.from)
  <2>1. PICK i \in Ids : Admit(ev.from, i, Topics)
    BY <1>7, HandleJoinType
  <2>2. QED
    BY <1>2, <1>3, <1>5, <1>7, <2>1, AdmitType, HandleJoinType DEF TypeOK
<1>8. CASE ~Full(ev.from) /\ ev.from \in Watchers /\ HandleSpectatorJoin(ev.from)
  <2>1. PICK j \in Ids : Admit(ev.from, j, Topics \ {"flags"})
    BY <1>8, HandleSpectatorJoinType
  <2>2. Topics \ {"flags"} \in SUBSET Topics
    OBVIOUS
  <2>3. QED
    BY <1>2, <1>3, <1>5, <1>8, <2>1, <2>2, AdmitType, HandleSpectatorJoinType DEF TypeOK
<1>9. ASSUME NEW S \in SUBSET Clients, HandleLeave(S)
      PROVE  TypeOK'
  BY <1>3, <1>5, <1>9, HandleLeaveType DEF TypeOK
<1>10. CASE HandleLeave(Lookup(sessions, ev.id)) \/ HandleLeave(Lookup(spectators, ev.id))
  <2>1. Lookup(sessions, ev.id) \in SUBSET Clients /\ Lookup(spectators, ev.id) \in SUBSET Clients
    BY DEF Lookup, TypeOK
  <2>2. QED
    BY <1>9, <1>10, <2>1
<1>11. CASE UNCHANGED <<mapVars, dirty, sessionVars, reply, myId, historyVars>>
  BY <1>3, <1>5, <1>11 DEF TypeOK, mapVars, sessionVars, historyVars
<1>12. QED
  BY <1>4, <1>6, <1>7, <1>8, <1>10, <1>11 DEF Handle

LEMMA OweType == ASSUME TypeOK, NEW T \in SUBSET Topics PROVE Owe(T) \in [Clients -> SUBSET Topics]
BY DEF Owe, TypeOK

LEMMA StepType == TypeOK /\ Step => TypeOK'
<1> SUFFICES ASSUME TypeOK, Step PROVE TypeOK'
  OBVIOUS
<1>1. PICK events \in 0 .. MaxEvents, shots \in 0 .. MaxShots, T \in StepMarks, phase \in BOOLEAN :
        /\ budget' = events
        /\ nextId' = IF nextId + shots - IdSpace > 0 THEN nextId + shots - IdSpace ELSE nextId + shots
        /\ drawn' = Older(Players, shots)
        /\ dirty' = dirty \cup T \cup (IF phase THEN {"match"} ELSE {})
        /\ owed' = Owe(T \cup (IF phase THEN {"match"} ELSE {}))
  BY DEF Step
<1>2. T \cup (IF phase THEN {"match"} ELSE {}) \in SUBSET Topics /\ T \subseteq Topics
  BY RoomAssumption DEF Topics
<1>3. dirty' \subseteq Topics
  BY <1>1, <1>2 DEF TypeOK, Topics
<1>4. owed' \in [Clients -> SUBSET Topics]
  BY <1>1, <1>2, OweType
<1>5. /\ nextId \in Ids /\ IdSpace \in Nat /\ MaxShots \in 0 .. IdSpace
      /\ MaxEvents \in Nat /\ InboxSize \in Nat
  BY RoomAssumption DEF TypeOK
<1>6. nextId' \in Ids
  BY <1>1, <1>5 DEF Ids
<1>7. shots \in Nat
  BY <1>1, <1>5
<1>8. drawn' \in [Clients -> 0 .. IdSpace]
  BY <1>1, <1>7, OlderType
<1>9. roomPc' = "dispatch" /\ budget' \in 0 .. MaxEvents
  BY <1>1 DEF Step
<1>10. UNCHANGED <<sessions, spectators, nextSpecId, world, players, accum, inbox, closed,
                   cancelled, sessionVars, handlerVars, missed>>
  BY DEF Step
<1>11. QED
  BY <1>3, <1>4, <1>6, <1>8, <1>9, <1>10 DEF TypeOK, RoomPcs, sessionVars, handlerVars

\* Whatever is sent to whomever, no queue holds more than it can.
LEMMA DeliverType ==
  ASSUME TypeOK, NEW S, Deliver(S)
  PROVE  /\ reliable' \in [Clients -> 0 .. ReliableSize]
         /\ kick' \in [Clients -> BOOLEAN]
         /\ missed' \in [Clients -> BOOLEAN]
<1> DEFINE full == {c \in S : reliable[c] >= ReliableSize}
<1>1. /\ reliable' = [c \in Clients |-> IF c \in S \ full THEN reliable[c] + 1 ELSE reliable[c]]
      /\ kick' = [c \in Clients |-> kick[c] \/ c \in full]
      /\ missed' = [c \in Clients |-> missed[c] \/ c \in full]
  BY DEF Deliver
<1>2. ASSUME NEW c \in Clients
      PROVE  reliable'[c] \in 0 .. ReliableSize
  <2>1. reliable[c] \in 0 .. ReliableSize /\ ReliableSize \in Nat
    BY RoomAssumption DEF TypeOK
  <2>2. c \in S \ full => reliable[c] < ReliableSize
    BY <2>1
  <2>3. QED
    BY <1>1, <2>1, <2>2
<1>3. reliable' \in [Clients -> 0 .. ReliableSize]
  BY <1>1, <1>2
<1> HIDE DEF full
<1>4. kick' \in [Clients -> BOOLEAN] /\ missed' \in [Clients -> BOOLEAN]
  BY <1>1
<1>5. QED
  BY <1>3, <1>4

LEMMA DispatchType == TypeOK /\ Dispatch => TypeOK'
<1> SUFFICES ASSUME TypeOK, Dispatch PROVE TypeOK'
  OBVIOUS
<1>1. PICK S : Deliver(S)
  BY DEF Dispatch
<1>2. PICK T \in SUBSET Topics : dirty' = dirty \cup T /\ owed' = Owe(T)
  BY DEF Dispatch, Topics
<1>3. dirty' \subseteq Topics /\ owed' \in [Clients -> SUBSET Topics]
  BY <1>2, OweType DEF TypeOK
<1>4. budget' \in 0 .. MaxEvents /\ roomPc' = "dispatch"
  <2>1. budget \in 0 .. MaxEvents /\ budget > 0 /\ budget' = budget - 1 /\ roomPc' = "dispatch"
    BY DEF Dispatch, TypeOK
  <2>2. QED
    BY <2>1, RoomAssumption
<1>5. UNCHANGED <<mapVars, accum, inbox, closed, cancelled, snapshots, queues, backlog,
                  handlerVars, drawn>>
  BY DEF Dispatch
<1>6. QED
  BY <1>1, <1>3, <1>4, <1>5, DeliverType DEF TypeOK, RoomPcs, mapVars, handlerVars

LEMMA AnnounceType ==
  ASSUME TypeOK, NEW topic, NEW from, NEW to \in RoomPcs \ {"dispatch"}, Announce(topic, from, to)
  PROVE  TypeOK'
<1>1. \/ Deliver(Registered)
      \/ UNCHANGED <<reliable, kick, missed>>
  BY DEF Announce
<1>2. /\ reliable' \in [Clients -> 0 .. ReliableSize]
      /\ kick' \in [Clients -> BOOLEAN]
      /\ missed' \in [Clients -> BOOLEAN]
  BY <1>1, DeliverType DEF TypeOK
<1>3. dirty' \subseteq Topics /\ owed' \in [Clients -> SUBSET Topics]
  <2>1. \/ dirty' = dirty /\ owed' = owed
        \/ /\ dirty' = dirty \ {topic}
           /\ owed' = [c \in Clients |-> IF c \in Registered /\ reliable[c] < ReliableSize
                                        THEN owed[c] \ {topic} ELSE owed[c]]
    BY DEF Announce
  <2>2. dirty \subseteq Topics /\ \A c \in Clients : owed[c] \subseteq Topics
    BY DEF TypeOK
  <2>3. dirty' \subseteq Topics
    BY <2>1, <2>2
  <2>4. owed \in [Clients -> SUBSET Topics]
    BY DEF TypeOK
  <2>5. QED
    BY <2>1, <2>2, <2>3, <2>4, Zenon
<1>4. budget' = 0 /\ 0 \in 0 .. InboxSize
  BY RoomAssumption DEF Announce
<1>5. roomPc' = to
  BY DEF Announce
<1>6. UNCHANGED <<mapVars, accum, inbox, closed, cancelled, snapshots, queues, backlog,
                  handlerVars, drawn>>
  BY DEF Announce
<1>7. QED
  BY <1>2, <1>3, <1>4, <1>5, <1>6 DEF TypeOK, mapVars, handlerVars

LEMMA SnapshotType == TypeOK /\ Snapshot => TypeOK'
<1> SUFFICES ASSUME TypeOK, Snapshot PROVE TypeOK'
  OBVIOUS
<1>1. accum \in 0 .. TickRate - 1 /\ TickRate \in Nat \ {0} /\ SnapshotRate \in 1 .. TickRate
  BY RoomAssumption DEF TypeOK
<1>2. accum' \in 0 .. TickRate - 1
  BY <1>1 DEF Snapshot, SnapshotDue
<1>3. ASSUME NEW c \in Clients
      PROVE  snapshots[c] \in 0 .. SessionQueue /\ backlog[c] \in Nat /\ SessionQueue \in Nat
  BY RoomAssumption DEF TypeOK
<1>4. snapshots' \in [Clients -> 0 .. SessionQueue] /\ backlog' \in [Clients -> Nat]
  <2>1. CASE SnapshotDue
    <3>1. /\ snapshots' = [c \in Clients |-> IF c \in SnapshotTo /\ snapshots[c] < SessionQueue
                                             THEN snapshots[c] + 1 ELSE snapshots[c]]
          /\ backlog' = [c \in Clients |-> IF c \notin SnapshotTo THEN backlog[c]
                                           ELSE IF snapshots[c] < SessionQueue THEN 0
                                           ELSE backlog[c] + 1]
      BY <2>1 DEF Snapshot
    <3>2. \A c \in Clients : /\ snapshots'[c] \in 0 .. SessionQueue
                             /\ backlog'[c] \in Nat
      BY <1>3, <3>1
    <3>3. QED
      BY <3>1, <3>2
  <2>2. CASE ~SnapshotDue
    BY <2>2 DEF Snapshot, TypeOK
  <2>3. QED
    BY <2>1, <2>2
<1>5. roomPc = "snapshot" /\ roomPc' = "laggards"
  BY DEF Snapshot
<1>6. UNCHANGED <<budget, mapVars, dirty, inbox, closed, cancelled, reliable, queues, kick,
                  handlerVars, historyVars>>
  BY DEF Snapshot
<1>7. QED
  BY <1>2, <1>4, <1>5, <1>6 DEF TypeOK, RoomPcs, mapVars, handlerVars, historyVars

LEMMA DropLaggardsType == TypeOK /\ DropLaggards => TypeOK'
<1> SUFFICES ASSUME TypeOK, DropLaggards PROVE TypeOK'
  OBVIOUS
<1>1. Laggards \in SUBSET Clients
  BY DEF Laggards, Registered, Members, Viewers, TypeOK
<1>2. /\ HandleLeave(Laggards) /\ roomPc = "laggards" /\ roomPc' = "select"
      /\ UNCHANGED <<budget, accum, inbox, closed, cancelled, handler, writer>>
  BY DEF DropLaggards
<1>3. PICK S \in SUBSET Clients : HandleLeave(S)
  BY <1>1, <1>2
<1>4. QED
  BY <1>2, <1>3, HandleLeaveType DEF TypeOK, RoomPcs

LEMMA ShutdownType == TypeOK /\ Shutdown => TypeOK'
<1> SUFFICES ASSUME TypeOK, Shutdown PROVE TypeOK'
  OBVIOUS
<1>1. Registered \in SUBSET Clients
  BY DEF Registered, Members, Viewers, TypeOK
<1>2. HandleLeave(Registered) /\ roomPc = "select" /\ roomPc' = "shutdown"
      /\ UNCHANGED <<budget, accum, inbox, closed, cancelled, handler, writer>>
  BY DEF Shutdown
<1>3. QED
  BY <1>1, <1>2, HandleLeaveType DEF TypeOK, RoomPcs

\* An event a handler posts is one of Events, and it fits.
LEMMA PostType ==
  ASSUME TypeOK, NEW kind \in {"join", "leave", "leaveSpectator", "input"},
         NEW i \in 0 .. IdSpace, NEW c \in Clients, Post(kind, i, c)
  PROVE  inbox' \in Seq(Events) /\ Len(inbox') <= InboxSize
<1> DEFINE ev == [kind |-> kind, id |-> i, from |-> c]
<1>1. ev \in Events
  BY DEF Events
<1>2. inbox \in Seq(Events) /\ Len(inbox) < InboxSize /\ inbox' = Append(inbox, ev)
  BY DEF TypeOK, Post
<1> HIDE DEF ev
<1>3. QED
  BY <1>1, <1>2, RoomAssumption

\* Move only changes where one handler is.
LEMMA MoveType ==
  ASSUME TypeOK, NEW c \in Clients, NEW from, NEW to \in HandlerPcs, Move(c, from, to)
  PROVE  handler' \in [Clients -> HandlerPcs]
BY DEF TypeOK, Move

LEMMA HandlerType ==
  ASSUME TypeOK, NEW c \in Clients, HandlerNext(c)
  PROVE  TypeOK'
<1> USE DEF roomVars, mapVars, sessionVars, handlerVars, historyVars
<1>1. myId[c] \in 0 .. IdSpace /\ 0 \in 0 .. IdSpace
  BY RoomAssumption DEF TypeOK
<1>2. CASE CallJoin(c)
  <2>1. handler' \in [Clients -> HandlerPcs]
    BY <1>2, MoveType DEF CallJoin, HandlerPcs
  <2>2. QED
    BY <1>2, <2>1 DEF CallJoin, TypeOK
<1>3. CASE PostJoin(c)
  <2>1. handler' \in [Clients -> HandlerPcs]
    BY <1>3, MoveType DEF PostJoin, HandlerPcs
  <2>2. inbox' \in Seq(Events) /\ Len(inbox') <= InboxSize
    BY <1>1, <1>3, PostType DEF PostJoin
  <2>3. QED
    BY <1>3, <2>1, <2>2 DEF PostJoin, TypeOK
<1>4. CASE JoinAnswered(c)
  <2>1. handler' \in [Clients -> HandlerPcs]
    BY <1>4, MoveType DEF JoinAnswered, HandlerPcs
  <2>2. writer' \in [Clients -> {"off", "on", "done"}]
    BY <1>4 DEF JoinAnswered, TypeOK
  <2>3. QED
    BY <1>4, <2>1, <2>2 DEF JoinAnswered, TypeOK
<1>5. CASE JoinAbandoned(c)
  <2>1. handler' \in [Clients -> HandlerPcs]
    BY <1>5, MoveType DEF JoinAbandoned, HandlerPcs
  <2>2. QED
    BY <1>5, <2>1 DEF JoinAbandoned, TypeOK
<1>6. CASE SendInput(c)
  <2>1. inbox' \in Seq(Events) /\ Len(inbox') <= InboxSize
    BY <1>1, <1>6, PostType DEF SendInput
  <2>2. QED
    BY <1>6, <2>1 DEF SendInput, TypeOK
<1>7. CASE ReadEnds(c)
  <2>1. handler' \in [Clients -> HandlerPcs]
    BY <1>7, MoveType DEF ReadEnds, HandlerPcs
  <2>2. QED
    BY <1>7, <2>1 DEF ReadEnds, TypeOK
<1>8. CASE PostLeave(c)
  <2>1. handler' \in [Clients -> HandlerPcs]
    BY <1>8, MoveType DEF PostLeave, HandlerPcs
  <2>2. inbox' \in Seq(Events) /\ Len(inbox') <= InboxSize
    BY <1>1, <1>8, PostType DEF PostLeave, TypeOK
  <2>3. QED
    BY <1>8, <2>1, <2>2 DEF PostLeave, TypeOK
<1>9. CASE WriterTakes(c) \/ WriterFails(c)
  <2>0. /\ reliable \in [Clients -> 0 .. ReliableSize] /\ snapshots \in [Clients -> 0 .. SessionQueue]
        /\ ReliableSize \in Nat /\ SessionQueue \in Nat
    BY RoomAssumption DEF TypeOK
  <2>a. \/ reliable' = reliable
        \/ reliable[c] > 0 /\ reliable' = [reliable EXCEPT ![c] = @ - 1]
    BY <1>9 DEF WriterTakes, WriterFails
  <2>b. \/ snapshots' = snapshots
        \/ snapshots[c] > 0 /\ snapshots' = [snapshots EXCEPT ![c] = @ - 1]
    BY <1>9 DEF WriterTakes, WriterFails
  <2>1. reliable' \in [Clients -> 0 .. ReliableSize]
    BY <2>0, <2>a
  <2>2. snapshots' \in [Clients -> 0 .. SessionQueue]
    BY <2>0, <2>b
  <2>c. writer' = writer \/ writer' = [writer EXCEPT ![c] = "done"]
    BY <1>9 DEF WriterTakes, WriterFails, handlerVars
  <2>3. writer' \in [Clients -> {"off", "on", "done"}]
    BY <2>c DEF TypeOK
  <2>4. CASE WriterTakes(c)
    BY <2>1, <2>2, <2>4 DEF WriterTakes, TypeOK
  <2>5. CASE WriterFails(c)
    BY <2>1, <2>2, <2>3, <2>5 DEF WriterFails, TypeOK
  <2>6. QED
    BY <1>9, <2>4, <2>5
<1>10. CASE WriterEnds(c)
  BY <1>10 DEF WriterEnds, TypeOK
<1>11. CASE RunReturns(c)
  <2>1. handler' \in [Clients -> HandlerPcs]
    BY <1>11, MoveType DEF RunReturns, HandlerPcs
  <2>2. QED
    BY <1>11, <2>1 DEF RunReturns, TypeOK
<1>12. QED
  BY <1>2, <1>3, <1>4, <1>5, <1>6, <1>7, <1>8, <1>9, <1>10, <1>11 DEF HandlerNext

\* Every step of the room, of a handler and of the environment keeps the types.
LEMMA NextType == TypeOK /\ [Next]_vars => TypeOK'
<1> SUFFICES ASSUME TypeOK, [Next]_vars PROVE TypeOK'
  OBVIOUS
<1> USE DEF roomVars, mapVars, sessionVars, handlerVars, historyVars
<1>1. CASE RoomNext
  <2>1. CASE Stop
    BY <2>1 DEF Stop, TypeOK, RoomPcs
  <2>2. CASE AnnounceTopics
    BY <2>2, AnnounceType DEF AnnounceTopics, RoomPcs
  <2>3. QED
    BY <1>1, <2>1, <2>2, TickType, DrainType, StepType, DispatchType, SnapshotType,
       DropLaggardsType, ShutdownType DEF RoomNext
<1>2. CASE \E c \in Clients : HandlerNext(c)
  BY <1>2, HandlerType
<1>3. CASE Cancel
  BY <1>3 DEF Cancel, TypeOK
<1>4. CASE UNCHANGED vars
  BY <1>4 DEF vars, TypeOK
<1>5. QED
  BY <1>1, <1>2, <1>3, <1>4 DEF Next

\* Every queue stays within its capacity and every variable in its type, for
\* any number of handlers, any capacities and any rates.
THEOREM TypeCorrect == Spec => []TypeOK
<1>1. Init => TypeOK
  BY InitType
<1>2. TypeOK /\ [Next]_vars => TypeOK'
  BY NextType
<1>3. QED
  BY <1>1, <1>2, PTL DEF Spec

-----------------------------------------------------------------------------
(***************************************************************************)
(* Who is in the room.  The map of sessions, the world, the count and the  *)
(* queues change together; what makes that enough is that a handler joins  *)
(* once (JoinsOnce), so a join never meets a session that is there already *)
(* or queues that were open before.                                        *)
(***************************************************************************)

\* Up to its join being queued a handler has no session; its join is queued
\* once, and until the room takes it there is none either.
JoinsOnce ==
  /\ \A c \in Clients : handler[c] \in {"start", "posting"} => queues[c] = "none"
  /\ \A n \in DOMAIN inbox : inbox[n].kind = "join" =>
       /\ queues[inbox[n].from] = "none"
       /\ handler[inbox[n].from] \notin {"start", "posting"}
  /\ \A m, n \in DOMAIN inbox :
       inbox[m].kind = "join" /\ inbox[n].kind = "join" /\ inbox[m].from = inbox[n].from => m = n

\* The inductive invariant.
Membership == TypeOK /\ SessionsMatchWorld /\ QueuesOpenWhileRegistered /\ JoinsOnce

LEMMA InitMembership == Init => Membership
<1> SUFFICES ASSUME Init PROVE Membership
  OBVIOUS
<1>1. TypeOK
  BY InitType
<1>2. Members = {} /\ Viewers = {} /\ Registered = {}
  BY DEF Init, Members, Viewers, Registered
<1>3. SessionsMatchWorld
  <2>1. players = 0 /\ world = {} /\ Cardinality(Members) = 0 /\ 0 <= MaxPlayers
    BY <1>2, FS_EmptySet, RoomAssumption DEF Init
  <2>2. QED
    BY <1>2, <2>1 DEF SessionsMatchWorld, Init
<1>4. QueuesOpenWhileRegistered
  BY <1>2 DEF QueuesOpenWhileRegistered, Init
<1>5. JoinsOnce
  BY DEF JoinsOnce, Init
<1>6. QED
  BY <1>1, <1>3, <1>4, <1>5 DEF Membership

\* The registered handlers, now and after a step.
LEMMA RegisteredAre ==
  /\ TypeOK => Registered = {c \in Clients : \E i \in Ids : sessions[i] = c \/ spectators[i] = c}
  /\ (sessions' \in [Ids -> Clients \cup {None}] /\ spectators' \in [Ids -> Clients \cup {None}])
       => Registered' = {c \in Clients : \E i \in Ids : sessions'[i] = c \/ spectators'[i] = c}
<1>1. None \notin Clients
  BY RoomAssumption
<1>2. ASSUME TypeOK
      PROVE  \A c : c \in Registered
                      <=> c \in Clients /\ \E i \in Ids : sessions[i] = c \/ spectators[i] = c
  BY <1>1, <1>2 DEF Registered, Members, Viewers, TypeOK
<1>3. ASSUME sessions' \in [Ids -> Clients \cup {None}], spectators' \in [Ids -> Clients \cup {None}]
      PROVE  \A c : c \in Registered'
                      <=> c \in Clients /\ \E i \in Ids : sessions'[i] = c \/ spectators'[i] = c
  BY <1>1, <1>3 DEF Registered, Members, Viewers
<1>4. QED
  BY <1>2, <1>3

\* Releasing registered handlers keeps the four in step.
LEMMA ReleaseMembership ==
  ASSUME TypeOK, SessionsMatchWorld, QueuesOpenWhileRegistered,
         NEW S \in SUBSET Registered, Release(S)
  PROVE  SessionsMatchWorld' /\ QueuesOpenWhileRegistered'
<1> DEFINE stay == {i \in Members : sessions[i] \notin S}
<1>1. /\ sessions' = [i \in Ids |-> IF sessions[i] \in S THEN None ELSE sessions[i]]
      /\ spectators' = [j \in Ids |-> IF spectators[j] \in S THEN None ELSE spectators[j]]
      /\ world' = world \ (Members \ stay)
      /\ players' = IF stay = Members THEN players ELSE Cardinality(stay)
      /\ queues' = Reset(queues, S, "closed")
  BY DEF Release
<1>2. S \subseteq Clients /\ None \notin Clients
  BY RegisteredAre, RoomAssumption
<1>3. Members' = stay
  BY <1>1, <1>2 DEF Members, TypeOK
<1>4. Viewers' = {j \in Viewers : spectators[j] \notin S}
  BY <1>1, <1>2 DEF Viewers, TypeOK
<1>5. world' = stay
  BY <1>1 DEF SessionsMatchWorld
<1>6. players' = Cardinality(stay) /\ players' <= MaxPlayers
  <2>1. IsFiniteSet(Members) /\ stay \in SUBSET Members /\ Cardinality(Members) \in Nat
    BY FiniteSubsets DEF Members
  <2>2. Cardinality(stay) <= Cardinality(Members) /\ Cardinality(stay) \in Nat
    BY <2>1, FS_Subset, FS_CardinalityType
  <2>3. players = Cardinality(Members) /\ players <= MaxPlayers /\ MaxPlayers \in Nat
    BY RoomAssumption DEF SessionsMatchWorld
  <2>4. players' = Cardinality(stay)
    BY <1>1, <2>3
  <2>5. QED
    BY <2>1, <2>2, <2>3, <2>4
<1>7. SessionsMatchWorld'
  <2>1. /\ \A i, j \in Ids : sessions'[i] # None /\ sessions'[i] = sessions'[j] => i = j
        /\ \A i, j \in Ids : spectators'[i] # None /\ spectators'[i] = spectators'[j] => i = j
        /\ \A i, j \in Ids : sessions'[i] # None => sessions'[i] # spectators'[j]
    BY <1>1 DEF SessionsMatchWorld
  <2>2. QED
    BY <1>3, <1>5, <1>6, <2>1 DEF SessionsMatchWorld
<1>8. Registered' = Registered \ S
  <2>1. /\ sessions' \in [Ids -> Clients \cup {None}]
        /\ spectators' \in [Ids -> Clients \cup {None}]
    BY ReleaseType, <1>2
  <2>2. \A c \in Clients, i \in Ids :
          /\ sessions'[i] = c <=> sessions[i] = c /\ c \notin S
          /\ spectators'[i] = c <=> spectators[i] = c /\ c \notin S
    BY <1>1, <1>2 DEF TypeOK
  <2>3. QED
    BY <2>1, <2>2, RegisteredAre
<1>9. QueuesOpenWhileRegistered'
  BY <1>1, <1>8 DEF QueuesOpenWhileRegistered, Reset
<1>10. QED
  BY <1>7, <1>9

\* A session that was not there is admitted.
LEMMA HandleJoinMembership ==
  ASSUME TypeOK, SessionsMatchWorld, QueuesOpenWhileRegistered,
         NEW c \in Players, queues[c] = "none", ~Full(c), HandleJoin(c)
  PROVE  SessionsMatchWorld' /\ QueuesOpenWhileRegistered' /\ queues' = [queues EXCEPT ![c] = "open"]
<1>1. PICK i \in Ids \ world :
        /\ world' = world \cup {i}
        /\ sessions' = [sessions EXCEPT ![i] = c]
        /\ players' = Cardinality(Members \cup {i})
        /\ queues' = [queues EXCEPT ![c] = "open"]
  BY DEF HandleJoin, Admit
<1>2. /\ world' = world \cup {i}
      /\ sessions' = [sessions EXCEPT ![i] = c]
      /\ players' = Cardinality(Members \cup {i})
      /\ queues' = [queues EXCEPT ![c] = "open"]
      /\ spectators' = spectators
  BY <1>1 DEF HandleJoin
<1>3. c \in Clients /\ c # None /\ c \notin Registered
  BY RoomAssumption DEF Clients, QueuesOpenWhileRegistered
<1>4. Members' = Members \cup {i} /\ Viewers' = Viewers /\ i \notin Members
  BY <1>1, <1>2, <1>3 DEF Members, Viewers, TypeOK, SessionsMatchWorld
<1>5. players' = Cardinality(Members') /\ players' <= MaxPlayers
  <2>1. IsFiniteSet(Members) /\ Cardinality(Members) \in Nat
    BY FiniteSubsets DEF Members
  <2>2. Cardinality(Members \cup {i}) = Cardinality(Members) + 1
    BY <1>4, <2>1, FS_AddElement
  <2>3. Cardinality(Members) < MaxPlayers
    BY <2>1, RoomAssumption DEF Full
  <2>4. QED
    BY <1>2, <1>4, <2>1, <2>2, <2>3, RoomAssumption
<1>6. /\ \A m \in Ids : sessions[m] # c
      /\ \A m \in Ids : spectators[m] # c
  BY <1>3 DEF Registered, Members, Viewers
<1>7. SessionsMatchWorld'
  <2>1. /\ \A m, n \in Ids : sessions'[m] # None /\ sessions'[m] = sessions'[n] => m = n
        /\ \A m, n \in Ids : spectators'[m] # None /\ spectators'[m] = spectators'[n] => m = n
        /\ \A m, n \in Ids : sessions'[m] # None => sessions'[m] # spectators'[n]
    BY <1>1, <1>2, <1>6 DEF SessionsMatchWorld, TypeOK
  <2>2. Members' = world'
    BY <1>2, <1>4 DEF SessionsMatchWorld
  <2>3. QED
    BY <1>5, <2>1, <2>2 DEF SessionsMatchWorld
<1>8. Registered' = Registered \cup {c}
  BY <1>1, <1>2, <1>4 DEF Registered, Members, Viewers, TypeOK
<1>9. QueuesOpenWhileRegistered'
  BY <1>2, <1>3, <1>8 DEF QueuesOpenWhileRegistered, TypeOK
<1>10. QED
  BY <1>2, <1>7, <1>9

LEMMA HandleSpectatorJoinMembership ==
  ASSUME TypeOK, SessionsMatchWorld, QueuesOpenWhileRegistered,
         NEW c \in Watchers, queues[c] = "none", ~Full(c), HandleSpectatorJoin(c)
  PROVE  SessionsMatchWorld' /\ QueuesOpenWhileRegistered' /\ queues' = [queues EXCEPT ![c] = "open"]
<1> DEFINE j == FirstFree(nextSpecId, Viewers)
<1>1. j \in Ids \ Viewers
  <2>1. c \notin Players
    BY RoomAssumption
  <2>2. Ids \ Viewers # {}
    BY <2>1 DEF Full, Viewers
  <2>3. QED
    BY <2>2, FirstFreeIsFree DEF TypeOK
<1> HIDE DEF j
<1>2. /\ spectators' = [spectators EXCEPT ![j] = c]
      /\ queues' = [queues EXCEPT ![c] = "open"]
      /\ UNCHANGED <<sessions, world, players>>
  BY DEF HandleSpectatorJoin, Admit, j
<1>3. c \in Clients /\ c # None /\ c \notin Registered
  BY RoomAssumption DEF Clients, QueuesOpenWhileRegistered
<1>4. /\ \A m \in Ids : sessions[m] # c
      /\ \A m \in Ids : spectators[m] # c
  BY <1>3 DEF Registered, Members, Viewers
<1>5. SessionsMatchWorld'
  <2>1. /\ \A m, n \in Ids : spectators'[m] # None /\ spectators'[m] = spectators'[n] => m = n
        /\ \A m, n \in Ids : sessions'[m] # None => sessions'[m] # spectators'[n]
    BY <1>1, <1>2, <1>4 DEF SessionsMatchWorld, TypeOK
  <2>2. Members' = Members
    BY <1>2 DEF Members
  <2>3. QED
    BY <1>2, <2>1, <2>2 DEF SessionsMatchWorld
<1>6. Registered' = Registered \cup {c}
  BY <1>1, <1>2, <1>3 DEF Registered, Members, Viewers, TypeOK
<1>7. QueuesOpenWhileRegistered'
  BY <1>2, <1>3, <1>6 DEF QueuesOpenWhileRegistered, TypeOK
<1>8. QED
  BY <1>2, <1>5, <1>7

\* Taking an event off the inbox keeps JoinsOnce if it opens no queues but
\* those of the handler whose join it is.
LEMMA DrainJoinsOnce ==
  ASSUME TypeOK, JoinsOnce, inbox # <<>>, inbox' = Tail(inbox), handler' = handler,
         \A c \in Clients : queues[c] = "none" /\ queues'[c] # "none"
                              => Head(inbox).kind = "join" /\ Head(inbox).from = c
  PROVE  JoinsOnce'
<1>1. inbox \in Seq(Events)
  BY DEF TypeOK
<1>2. \A n \in DOMAIN inbox : inbox[n] \in Events
  BY <1>1
<1>3. \A n \in DOMAIN inbox : inbox[n].from \in Clients
  BY <1>2 DEF Events
<1>4. /\ Head(inbox) = inbox[1] /\ 1 \in DOMAIN inbox
      /\ \A n \in DOMAIN inbox' : n \in Nat \ {0} /\ n + 1 \in DOMAIN inbox /\ inbox'[n] = inbox[n + 1]
  BY <1>1
<1>5. ASSUME NEW n \in DOMAIN inbox', inbox'[n].kind = "join"
      PROVE  /\ queues'[inbox'[n].from] = "none"
             /\ handler[inbox'[n].from] \notin {"start", "posting"}
  <2>1. n + 1 \in DOMAIN inbox /\ n + 1 # 1 /\ inbox'[n] = inbox[n + 1]
    BY <1>4
  <2>2. /\ queues[inbox'[n].from] = "none" /\ inbox'[n].from \in Clients
        /\ handler[inbox'[n].from] \notin {"start", "posting"}
    BY <1>3, <1>5, <2>1 DEF JoinsOnce
  <2>3. ~ (Head(inbox).kind = "join" /\ Head(inbox).from = inbox'[n].from)
    BY <1>4, <1>5, <2>1 DEF JoinsOnce
  <2>4. QED
    BY <2>2, <2>3
<1>6. ASSUME NEW m \in DOMAIN inbox', NEW n \in DOMAIN inbox',
             inbox'[m].kind = "join", inbox'[n].kind = "join", inbox'[m].from = inbox'[n].from
      PROVE  m = n
  <2>1. m + 1 = n + 1
    BY <1>4, <1>6 DEF JoinsOnce
  <2>2. QED
    BY <1>4, <2>1
<1>7. ASSUME NEW c \in Clients, handler[c] \in {"start", "posting"}
      PROVE  queues'[c] = "none"
  BY <1>4, <1>7 DEF JoinsOnce
<1>8. QED
  BY <1>5, <1>6, <1>7 DEF JoinsOnce

LEMMA DrainMembership == Membership /\ Drain => Membership'
<1> SUFFICES ASSUME Membership, Drain PROVE Membership'
  OBVIOUS
<1> USE DEF Membership
<1> DEFINE ev == Head(inbox)
<1>1. TypeOK'
  BY DrainType
<1>2. /\ inbox # <<>> /\ inbox' = Tail(inbox) /\ Handle(ev) /\ handler' = handler
      /\ inbox \in Seq(Events)
  BY DEF Drain, TypeOK
<1>3. ev.from \in Clients /\ (ev.kind = "join" => queues[ev.from] = "none")
  <2>1. ev \in Events /\ ev = inbox[1] /\ 1 \in DOMAIN inbox
    BY <1>2
  <2>2. QED
    BY <2>1 DEF Events, JoinsOnce
<1>4. ASSUME \A c \in Clients : queues[c] = "none" /\ queues'[c] # "none"
                                  => ev.kind = "join" /\ ev.from = c
      PROVE  JoinsOnce'
  BY <1>2, <1>4, DrainJoinsOnce
<1> HIDE DEF ev
<1>5. CASE ev.kind = "join" /\ ~Full(ev.from) /\ ev.from \in Players /\ HandleJoin(ev.from)
  <2>1. /\ SessionsMatchWorld' /\ QueuesOpenWhileRegistered'
        /\ queues' = [queues EXCEPT ![ev.from] = "open"]
    BY <1>3, <1>5, HandleJoinMembership
  <2>2. JoinsOnce'
    BY <1>4, <1>5, <2>1 DEF TypeOK
  <2>3. QED
    BY <1>1, <2>1, <2>2
<1>6. CASE ev.kind = "join" /\ ~Full(ev.from) /\ ev.from \in Watchers /\ HandleSpectatorJoin(ev.from)
  <2>1. /\ SessionsMatchWorld' /\ QueuesOpenWhileRegistered'
        /\ queues' = [queues EXCEPT ![ev.from] = "open"]
    BY <1>3, <1>6, HandleSpectatorJoinMembership
  <2>2. JoinsOnce'
    BY <1>4, <1>6, <2>1 DEF TypeOK
  <2>3. QED
    BY <1>1, <2>1, <2>2
<1>7. CASE UNCHANGED <<mapVars, queues>>
  <2>1. Members' = Members /\ Registered' = Registered
    BY <1>7 DEF mapVars, Members, Viewers, Registered
  <2>2. SessionsMatchWorld' /\ QueuesOpenWhileRegistered'
    BY <1>7, <2>1 DEF SessionsMatchWorld, QueuesOpenWhileRegistered, mapVars
  <2>3. QED
    BY <1>1, <1>4, <1>7, <2>2
<1>8. ASSUME NEW S \in SUBSET Registered, HandleLeave(S)
      PROVE  Membership'
  <2>1. SessionsMatchWorld' /\ QueuesOpenWhileRegistered'
    BY <1>8, ReleaseMembership DEF HandleLeave
  <2>2. \A c \in Clients : queues[c] = "none" => queues'[c] = "none"
    BY <1>8 DEF HandleLeave, Release, Reset, QueuesOpenWhileRegistered
  <2>3. QED
    BY <1>1, <1>4, <2>1, <2>2
<1>9. /\ Lookup(sessions, ev.id) \in SUBSET Registered
      /\ Lookup(spectators, ev.id) \in SUBSET Registered
  BY DEF Lookup, Registered, Members, Viewers
<1>10. QED
  BY <1>2, <1>5, <1>6, <1>7, <1>8, <1>9 DEF Handle, Refuse, sessionVars

\* Whatever leaves the inbox alone and drops registered sessions only.
LEMMA ReleaseKeepsMembership ==
  ASSUME Membership, TypeOK', NEW S \in SUBSET Registered, Release(S),
         UNCHANGED <<inbox, handler>>
  PROVE  Membership'
<1> USE DEF Membership
<1>1. SessionsMatchWorld' /\ QueuesOpenWhileRegistered'
  BY ReleaseMembership
<1>2. \A c \in Clients : queues[c] = "none" => queues'[c] = "none"
  BY DEF Release, Reset, QueuesOpenWhileRegistered
<1>3. \A n \in DOMAIN inbox : inbox[n].from \in Clients
  <2>1. \A n \in DOMAIN inbox : inbox[n] \in Events
    BY DEF TypeOK
  <2>2. QED
    BY <2>1 DEF Events
<1>4. JoinsOnce'
  BY <1>2, <1>3 DEF JoinsOnce
<1>5. QED
  BY <1>1, <1>4

\* What neither moves the maps nor opens or closes a queue.
LEMMA MapsKept ==
  ASSUME Membership, TypeOK', JoinsOnce', UNCHANGED <<sessions, spectators, world, players, queues>>
  PROVE  Membership'
<1>1. Members' = Members /\ Registered' = Registered
  BY DEF Members, Viewers, Registered
<1>2. QED
  BY <1>1 DEF Membership, SessionsMatchWorld, QueuesOpenWhileRegistered

\* An event of another kind than a join may be queued at any time.
LEMMA PostKeepsJoinsOnce ==
  ASSUME TypeOK, JoinsOnce, NEW kind, NEW i, NEW c \in Clients, Post(kind, i, c),
         queues' = queues,
         \A d \in Clients : handler'[d] \in {"start", "posting"} => handler[d] \in {"start", "posting"},
         kind = "join" => handler[c] = "posting" /\ handler'[c] \notin {"start", "posting"}
  PROVE  JoinsOnce'
<1> DEFINE ev == [kind |-> kind, id |-> i, from |-> c]
<1>1. /\ inbox \in Seq(Events) /\ inbox' = Append(inbox, ev)
      /\ DOMAIN inbox = 1 .. Len(inbox) /\ Len(inbox) \in Nat
  BY DEF TypeOK, Post
<1>2. \A n \in DOMAIN inbox : inbox[n].from \in Clients
  <2>1. \A n \in DOMAIN inbox : inbox[n] \in Events
    BY <1>1
  <2>2. QED
    BY <2>1 DEF Events
<1>3. /\ DOMAIN inbox' = 1 .. Len(inbox) + 1 /\ inbox'[Len(inbox) + 1] = ev
      /\ \A n \in DOMAIN inbox : inbox'[n] = inbox[n]
      /\ \A n \in DOMAIN inbox' : n \in DOMAIN inbox \/ n = Len(inbox) + 1
  BY <1>1
<1>4. ev.kind = kind /\ ev.from = c
  OBVIOUS
<1> HIDE DEF ev
<1>5. ASSUME NEW n \in DOMAIN inbox', inbox'[n].kind = "join"
      PROVE  queues[inbox'[n].from] = "none" /\ handler'[inbox'[n].from] \notin {"start", "posting"}
  <2>1. CASE n \in DOMAIN inbox
    BY <1>2, <1>3, <1>5, <2>1 DEF JoinsOnce
  <2>2. CASE n = Len(inbox) + 1
    BY <1>3, <1>4, <1>5, <2>2 DEF JoinsOnce
  <2>3. QED
    BY <1>3, <2>1, <2>2
<1>6. kind = "join" => \A n \in DOMAIN inbox : inbox[n].kind = "join" => inbox[n].from # c
  BY DEF JoinsOnce
<1>7. ASSUME NEW m \in DOMAIN inbox', NEW n \in DOMAIN inbox',
             inbox'[m].kind = "join", inbox'[n].kind = "join", inbox'[m].from = inbox'[n].from
      PROVE  m = n
  <2>1. CASE m \in DOMAIN inbox /\ n \in DOMAIN inbox
    BY <1>3, <1>7, <2>1 DEF JoinsOnce
  <2>2. CASE m = Len(inbox) + 1 /\ n \in DOMAIN inbox
    BY <1>3, <1>4, <1>6, <1>7, <2>2
  <2>3. CASE m \in DOMAIN inbox /\ n = Len(inbox) + 1
    BY <1>3, <1>4, <1>6, <1>7, <2>3
  <2>4. QED
    BY <1>3, <2>1, <2>2, <2>3
<1>8. QED
  BY <1>5, <1>7 DEF JoinsOnce

LEMMA HandlerMembership ==
  ASSUME Membership, NEW c \in Clients, HandlerNext(c)
  PROVE  Membership'
<1> USE DEF Membership
<1>1. TypeOK'
  BY HandlerType
<1>2. UNCHANGED <<sessions, spectators, world, players, queues>>
  BY DEF HandlerNext, CallJoin, PostJoin, JoinAnswered, JoinAbandoned, SendInput, ReadEnds,
         PostLeave, WriterTakes, WriterEnds, WriterFails, RunReturns, roomVars, mapVars, sessionVars
<1>3. ASSUME inbox' = inbox,
             \A d \in Clients : handler'[d] \in {"start", "posting"} => handler[d] \in {"start", "posting"}
      PROVE  JoinsOnce'
  <2>1. \A n \in DOMAIN inbox : inbox[n].from \in Clients
    <3>1. \A n \in DOMAIN inbox : inbox[n] \in Events
      BY DEF TypeOK
    <3>2. QED
      BY <3>1 DEF Events
  <2>2. QED
    BY <1>2, <1>3, <2>1 DEF JoinsOnce
<1>4. \A d \in Clients : handler'[d] \in {"start", "posting"} => handler[d] \in {"start", "posting"}
  BY DEF HandlerNext, CallJoin, PostJoin, JoinAnswered, JoinAbandoned, SendInput, ReadEnds,
         PostLeave, WriterTakes, WriterEnds, WriterFails, RunReturns, handlerVars, Move, TypeOK
<1>5. CASE PostJoin(c)
  <2>1. handler[c] = "posting" /\ handler'[c] = "waiting"
    BY <1>5 DEF PostJoin, Move, TypeOK
  <2>2. JoinsOnce'
    BY <1>2, <1>4, <1>5, <2>1, PostKeepsJoinsOnce DEF PostJoin
  <2>3. QED
    BY <1>1, <1>2, <2>2, MapsKept
<1>6. CASE SendInput(c) \/ PostLeave(c)
  <2>1. ASSUME inbox' = inbox PROVE JoinsOnce'
    BY <1>3, <1>4, <2>1
  <2>2. ASSUME \E kind \in {"input", "leave", "leaveSpectator"} : Post(kind, myId[c], c)
        PROVE  JoinsOnce'
    <3>1. PICK kind \in {"input", "leave", "leaveSpectator"} : Post(kind, myId[c], c)
      BY <2>2
    <3>2. kind # "join" /\ queues' = queues
      BY <1>2
    <3>3. QED
      BY <1>4, <3>1, <3>2, PostKeepsJoinsOnce
  <2>3. inbox' = inbox \/ \E kind \in {"input", "leave", "leaveSpectator"} : Post(kind, myId[c], c)
    BY <1>6 DEF SendInput, PostLeave
  <2>4. JoinsOnce'
    BY <2>1, <2>2, <2>3
  <2>5. QED
    BY <1>1, <1>2, <2>4, MapsKept
<1>7. CASE inbox' = inbox
  BY <1>1, <1>2, <1>3, <1>4, <1>7, MapsKept
<1>8. QED
  BY <1>5, <1>6, <1>7 DEF HandlerNext, CallJoin, JoinAnswered, JoinAbandoned, ReadEnds,
         WriterTakes, WriterEnds, WriterFails, RunReturns

LEMMA NextMembership == Membership /\ [Next]_vars => Membership'
<1> SUFFICES ASSUME Membership, [Next]_vars PROVE Membership'
  OBVIOUS
<1>1. TypeOK'
  BY NextType DEF Membership
<1>2. ASSUME UNCHANGED <<sessions, spectators, world, players, queues, inbox, handler>>
      PROVE  Membership'
  <2>1. JoinsOnce'
    BY <1>2 DEF Membership, JoinsOnce
  <2>2. QED
    BY <1>1, <1>2, <2>1, MapsKept
<1>3. CASE Tick \/ Stop \/ Cancel \/ UNCHANGED vars
  BY <1>2, <1>3 DEF Tick, Stop, Cancel, vars, roomVars, mapVars, sessionVars, handlerVars
<1>4. CASE Step \/ Dispatch \/ AnnounceTopics \/ Snapshot
  BY <1>2, <1>4 DEF Step, Dispatch, AnnounceTopics, Announce, Snapshot, mapVars, sessionVars,
     handlerVars
<1>5. CASE Shutdown
  <2>1. Release(Registered) /\ UNCHANGED <<inbox, handler>>
    BY <1>5 DEF Shutdown, HandleLeave
  <2>2. QED
    BY <1>1, <2>1, ReleaseKeepsMembership
<1>6. CASE DropLaggards
  <2>1. Release(Laggards) /\ Laggards \in SUBSET Registered /\ UNCHANGED <<inbox, handler>>
    BY <1>6 DEF DropLaggards, HandleLeave, Laggards
  <2>2. QED
    BY <1>1, <2>1, ReleaseKeepsMembership
<1>7. QED
  BY <1>3, <1>4, <1>5, <1>6, DrainMembership, HandlerMembership DEF Next, RoomNext

\* For any number of handlers and any capacities: nobody is simulated without a
\* session, no session lacks its player or is registered twice, and the hub
\* never sees more players than MaxPlayers.
THEOREM MapAndWorldAgree == Spec => []SessionsMatchWorld
<1>1. Spec => []Membership
  BY InitMembership, NextMembership, PTL DEF Spec
<1>2. Membership => SessionsMatchWorld
  BY DEF Membership
<1>3. QED
  BY <1>1, <1>2, PTL

\* For any number of handlers and any capacities: a queue is open exactly while
\* its session is registered, so it is closed once and never sent to again.
THEOREM OpenExactlyWhileRegistered == Spec => []QueuesOpenWhileRegistered
<1>1. Spec => []Membership
  BY InitMembership, NextMembership, PTL DEF Spec
<1>2. Membership => QueuesOpenWhileRegistered
  BY DEF Membership
<1>3. QED
  BY <1>1, <1>2, PTL

-----------------------------------------------------------------------------
(***************************************************************************)
(* What the registered sessions were sent.                                 *)
(***************************************************************************)

\* The inductive form of NobodyMissesReliable.  A refused message leaves its mark
\* on the session, no message that fits later takes it back, and a tick that
\* makes a session late ends with dropLaggards: late sessions are registered, and
\* there are none but in a tick, past World.Step.
Sending == {"dispatch", "pickups", "weapons", "flags", "snapshot", "laggards"}
Prompt(c) == ~kick[c] /\ backlog[c] <= MaxBacklog
LateOnlyInTick ==
  \A c \in Clients : /\ missed[c] => kick[c]
                     /\ c \notin Registered \/ roomPc \notin Sending => Prompt(c)

\* A step that touches neither the maps nor what the sessions are judged by.
LEMMA KeepsPrompt ==
  ASSUME LateOnlyInTick, UNCHANGED <<sessions, spectators, kick, missed, backlog>>,
         roomPc \in Sending => roomPc' \in Sending
  PROVE  LateOnlyInTick'
<1>1. Registered' = Registered
  BY DEF Registered, Members, Viewers
<1>2. QED
  BY <1>1 DEF LateOnlyInTick, Prompt

\* What is delivered to registered sessions in a tick.
LEMMA DeliverKeepsPrompt ==
  ASSUME TypeOK, LateOnlyInTick, NEW S \in SUBSET Registered, Deliver(S),
         UNCHANGED <<sessions, spectators, backlog>>, roomPc' \in Sending
  PROVE  LateOnlyInTick'
<1>1. Registered' = Registered
  BY DEF Registered, Members, Viewers
<1>2. \A c \in Clients : /\ missed'[c] => missed[c] \/ kick'[c]
                         /\ kick[c] => kick'[c]
                         /\ c \notin Registered => kick'[c] = kick[c]
  BY DEF Deliver, TypeOK
<1>3. ASSUME NEW c \in Clients
      PROVE  /\ missed'[c] => kick'[c]
             /\ c \notin Registered => ~kick'[c] /\ backlog'[c] <= MaxBacklog
  BY <1>2 DEF LateOnlyInTick, Prompt
<1>4. QED
  BY <1>1, <1>3 DEF LateOnlyInTick, Prompt

\* A removal lets nobody late stay whom it finds in time.
LEMMA LeavePrompt ==
  ASSUME TypeOK, LateOnlyInTick, NEW S, HandleLeave(S), \A c \in Clients \ S : Prompt(c)
  PROVE  LateOnlyInTick'
<1>1. /\ backlog' = [c \in Clients |-> IF c \in S THEN 0 ELSE backlog[c]]
      /\ kick' = [c \in Clients |-> IF c \in S THEN FALSE ELSE kick[c]]
      /\ missed' = [c \in Clients |-> IF c \in S THEN FALSE ELSE missed[c]]
  BY DEF HandleLeave, Reset
<1>2. 0 <= MaxBacklog
  BY RoomAssumption
<1>3. ASSUME NEW c \in Clients
      PROVE  (missed'[c] => kick'[c]) /\ ~kick'[c] /\ backlog'[c] <= MaxBacklog
  BY <1>1, <1>2, <1>3 DEF LateOnlyInTick, Prompt
<1>4. QED
  BY <1>3 DEF LateOnlyInTick, Prompt

LEMMA NextPrompt == TypeOK /\ LateOnlyInTick /\ [Next]_vars => LateOnlyInTick'
<1> SUFFICES ASSUME TypeOK, LateOnlyInTick, [Next]_vars PROVE LateOnlyInTick'
  OBVIOUS
<1>1. CASE Tick \/ Stop \/ Step
  <2>1. /\ UNCHANGED <<sessions, spectators, kick, missed, backlog>>
        /\ roomPc \notin Sending
    BY <1>1 DEF Tick, Stop, Step, mapVars, sessionVars, historyVars, Sending
  <2>2. QED
    BY <2>1, KeepsPrompt
<1>2. CASE Cancel \/ UNCHANGED vars \/ \E c \in Clients : HandlerNext(c)
  <2>1. UNCHANGED <<sessions, spectators, kick, missed, backlog, roomPc>>
    <3>1. CASE Cancel \/ UNCHANGED vars
      BY <3>1 DEF Cancel, vars, roomVars, mapVars, sessionVars, historyVars
    <3>2. CASE \E c \in Clients : HandlerNext(c)
      BY <3>2 DEF HandlerNext, CallJoin, PostJoin, JoinAnswered, JoinAbandoned, SendInput,
         ReadEnds, PostLeave, WriterTakes, WriterEnds, WriterFails, RunReturns, roomVars, mapVars,
         sessionVars, historyVars
    <3>3. QED
      BY <1>2, <3>1, <3>2
  <2>2. QED
    BY <2>1, KeepsPrompt
<1>3. CASE Drain
  <2>1. Handle(Head(inbox)) /\ roomPc = "drain" /\ roomPc' = "drain"
    BY <1>3 DEF Drain
  <2>2. \A c \in Clients : Prompt(c) /\ (missed[c] => kick[c])
    BY <2>1 DEF LateOnlyInTick, Sending
  <2>3. CASE UNCHANGED <<kick, missed, backlog>>
    BY <2>2, <2>3 DEF LateOnlyInTick, Prompt
  <2>4. ASSUME NEW S, HandleLeave(S) PROVE LateOnlyInTick'
    BY <2>2, <2>4, LeavePrompt
  <2>5. QED
    BY <2>1, <2>3, <2>4 DEF Handle, Refuse, HandleJoin, HandleSpectatorJoin, Admit, sessionVars,
       historyVars
<1>4. CASE Dispatch
  <2>1. PICK S \in SUBSET Registered : Deliver(S)
    <3>1. \A a, b \in Ids : Lookup(sessions, a) \cup Lookup(sessions, b) \in SUBSET Registered
      BY DEF Lookup, Registered, Members
    <3>2. QED
      BY <1>4, <3>1 DEF Dispatch
  <2>2. UNCHANGED <<sessions, spectators, backlog>> /\ roomPc' \in Sending
    BY <1>4 DEF Dispatch, mapVars, Sending
  <2>3. QED
    BY <2>1, <2>2, DeliverKeepsPrompt
<1>5. CASE AnnounceTopics
  <2>1. Deliver(Registered) \/ UNCHANGED <<kick, missed>>
    BY <1>5 DEF AnnounceTopics, Announce
  <2>2. UNCHANGED <<sessions, spectators, backlog>> /\ roomPc' \in Sending
    BY <1>5 DEF AnnounceTopics, Announce, mapVars, Sending
  <2>3. CASE Deliver(Registered)
    BY <2>2, <2>3, DeliverKeepsPrompt
  <2>4. CASE UNCHANGED <<kick, missed>>
    BY <2>2, <2>4, KeepsPrompt
  <2>5. QED
    BY <2>1, <2>3, <2>4
<1>6. CASE Snapshot
  <2>1. /\ UNCHANGED <<sessions, spectators, kick, missed>> /\ roomPc' \in Sending
        /\ backlog \in [Clients -> Nat]
    BY <1>6 DEF Snapshot, mapVars, historyVars, Sending, TypeOK
  <2>2. SnapshotTo \subseteq Registered
    BY DEF SnapshotTo, Registered
  <2>3. \A c \in Clients : c \notin SnapshotTo => backlog'[c] = backlog[c]
    BY <1>6, <2>1 DEF Snapshot
  <2>4. Registered' = Registered
    BY <2>1 DEF Registered, Members, Viewers
  <2>5. QED
    BY <2>1, <2>2, <2>3, <2>4 DEF LateOnlyInTick, Prompt
<1>7. CASE DropLaggards
  <2>1. HandleLeave(Laggards)
    BY <1>7 DEF DropLaggards
  <2>2. ASSUME NEW c \in Clients \ Laggards PROVE Prompt(c)
    <3>1. CASE c \in Registered
      <4>1. ~kick[c] /\ ~(backlog[c] > MaxBacklog)
        BY <2>2, <3>1 DEF Laggards
      <4>2. backlog[c] \in Nat /\ MaxBacklog \in Nat
        BY RoomAssumption DEF TypeOK
      <4>3. QED
        BY <4>1, <4>2 DEF Prompt
    <3>2. CASE c \notin Registered
      BY <3>2 DEF LateOnlyInTick
    <3>3. QED
      BY <3>1, <3>2
  <2>3. QED
    BY <2>1, <2>2, LeavePrompt
<1>8. CASE Shutdown
  <2>1. HandleLeave(Registered) /\ roomPc = "select"
    BY <1>8 DEF Shutdown
  <2>2. \A c \in Clients \ Registered : Prompt(c)
    BY <2>1 DEF LateOnlyInTick, Sending
  <2>3. QED
    BY <2>1, <2>2, LeavePrompt
<1>9. QED
  BY <1>1, <1>2, <1>3, <1>4, <1>5, <1>6, <1>7, <1>8 DEF Next, RoomNext

\* For any capacities and rates, any number of events in a tick and whatever the
\* pumps take in its course: a session that misses a reliable message, or falls
\* too far behind, does not see the next tick.
THEOREM SlowSessionsAreDropped == Spec => []NobodyMissesReliable
<1>1. Init => LateOnlyInTick
  BY RoomAssumption DEF Init, LateOnlyInTick, Prompt
<1>2. TypeOK /\ LateOnlyInTick /\ [Next]_vars => LateOnlyInTick'
  BY NextPrompt
<1>3. TypeOK /\ LateOnlyInTick => NobodyMissesReliable
  BY RegisteredAre DEF LateOnlyInTick, Prompt, NobodyMissesReliable, Sending
<1>4. QED
  BY <1>1, <1>2, <1>3, TypeCorrect, PTL DEF Spec

\* The inductive form of StateReachesEveryone: the same between any two steps, but
\* for a session that was refused a message and is on its way out.
Overdue(c) == Due(c) \ (IF c \in Watchers THEN {"flags"} ELSE {})
NothingForgotten == \A c \in Registered : kick[c] \/ Overdue(c) \subseteq dirty

\* Leaving changes the table, and marks it changed, for those who stay.
LEMMA HandleLeaveForgetsNothing ==
  ASSUME TypeOK, NothingForgotten, NEW S \in SUBSET Registered, HandleLeave(S)
  PROVE  NothingForgotten'
<1>1. /\ owed' = Reset(Owe(TableAfter(S)), S, {})
      /\ dirty' = dirty \cup TableAfter(S) /\ Release(S)
  BY DEF HandleLeave
<1>2. S \subseteq Clients
  BY RegisteredAre
<1>3. Registered' \subseteq Registered \ S
  <2>1. /\ sessions' \in [Ids -> Clients \cup {None}]
        /\ spectators' \in [Ids -> Clients \cup {None}]
    BY <1>1, <1>2, ReleaseType
  <2>2. \A c \in Clients, i \in Ids :
          /\ sessions'[i] = c => sessions[i] = c /\ c \notin S
          /\ spectators'[i] = c => spectators[i] = c /\ c \notin S
    BY <1>1, RoomAssumption DEF Release, TypeOK
  <2>3. QED
    BY <2>1, <2>2, RegisteredAre
<1>4. Registered \subseteq Clients
  BY RegisteredAre
<1>5. \A c \in Registered : owed'[c] \subseteq owed[c] \cup TableAfter(S)
  BY <1>1, <1>4 DEF Reset, Owe
<1>6. \A c \in Registered \ S : kick'[c] = kick[c]
  BY <1>4 DEF HandleLeave, Reset
<1>7. QED
  BY <1>1, <1>3, <1>5, <1>6 DEF NothingForgotten, Overdue, Due

\* A newcomer is owed everything; whatever an admission marks stays marked.
LEMMA HandleJoinForgetsNothing ==
  ASSUME TypeOK, NothingForgotten, NEW c \in Clients, ~Full(c),
         \/ c \in Players /\ HandleJoin(c)
         \/ c \in Watchers /\ HandleSpectatorJoin(c)
  PROVE  NothingForgotten'
<1>1. /\ sessions' \in [Ids -> Clients \cup {None}]
      /\ spectators' \in [Ids -> Clients \cup {None}]
      /\ owed' \in [Clients -> SUBSET Topics]
  BY HandleJoinType, HandleSpectatorJoinType
<1>2. Registered' \subseteq Registered \cup {c}
  <2>1. \A d \in Clients \ {c}, i \in Ids :
          /\ sessions'[i] = d => sessions[i] = d
          /\ spectators'[i] = d => spectators[i] = d
    <3>1. CASE HandleJoin(c)
      BY <3>1 DEF HandleJoin, TypeOK
    <3>2. CASE HandleSpectatorJoin(c)
      BY <3>2 DEF HandleSpectatorJoin, TypeOK
    <3>3. QED
      BY <3>1, <3>2
  <2>2. QED
    BY <1>1, <2>1, RegisteredAre
<1>3. \A d \in Clients \ {c} : owed'[d] \subseteq owed[d] \cup {"match"}
  BY DEF HandleJoin, HandleSpectatorJoin, Owe, TypeOK
<1>4. dirty' = dirty \cup (IF c \in Players THEN Topics ELSE Topics \ {"flags"})
  BY RoomAssumption DEF HandleJoin, HandleSpectatorJoin, Admit
<1>5. Registered \subseteq Clients
  BY RegisteredAre
<1>6. ASSUME NEW d \in Registered', d # c
      PROVE  kick'[d] \/ Overdue(d)' \subseteq dirty'
  <2>1. d \in Registered /\ owed'[d] \subseteq owed[d] \cup {"match"}
    BY <1>2, <1>3, <1>5, <1>6
  <2>2. kick[d] \/ Overdue(d) \subseteq dirty
    BY <2>1 DEF NothingForgotten
  <2>3. kick' = kick
    BY DEF HandleJoin, HandleSpectatorJoin, Admit
  <2>4. "match" \in dirty' /\ dirty \subseteq dirty'
    BY <1>4 DEF Topics
  <2>5. QED
    BY <2>1, <2>2, <2>3, <2>4 DEF Overdue, Due
<1>7. Overdue(c)' \subseteq dirty'
  BY <1>1, <1>4 DEF Overdue, Due, Clients
<1>8. QED
  BY <1>6, <1>7 DEF NothingForgotten

\* New values of topics that are marked at once.
LEMMA OweForgetsNothing ==
  ASSUME TypeOK, NothingForgotten, NEW T, dirty' = dirty \cup T, owed' = Owe(T),
         UNCHANGED <<sessions, spectators>>, \A c \in Clients : kick[c] => kick'[c]
  PROVE  NothingForgotten'
<1>1. Registered' = Registered /\ Registered \subseteq Clients
  BY RegisteredAre DEF Registered, Members, Viewers
<1>2. \A c \in Registered : owed'[c] = owed[c] \cup T
  BY <1>1 DEF Owe
<1>3. QED
  BY <1>1, <1>2 DEF NothingForgotten, Overdue, Due

\* A topic that is sent reaches every session, or marks it for its removal.
LEMMA AnnounceForgetsNothing ==
  ASSUME TypeOK, NothingForgotten, NEW topic, NEW from, NEW to, Announce(topic, from, to)
  PROVE  NothingForgotten'
<1>1. Registered' = Registered /\ Registered \subseteq Clients
  BY RegisteredAre DEF Announce, mapVars, Registered, Members, Viewers
<1>2. CASE UNCHANGED <<dirty, owed, kick>>
  BY <1>1, <1>2 DEF NothingForgotten, Overdue, Due
<1>3. CASE /\ Deliver(Registered) /\ dirty' = dirty \ {topic}
           /\ owed' = [c \in Clients |-> IF c \in Registered /\ reliable[c] < ReliableSize
                                        THEN owed[c] \ {topic} ELSE owed[c]]
  <2>1. SUFFICES ASSUME NEW c \in Registered PROVE kick'[c] \/ Overdue(c)' \subseteq dirty'
    BY <1>1 DEF NothingForgotten
  <2>2. c \in Clients /\ reliable[c] \in Nat /\ ReliableSize \in Nat
    BY <1>1, RoomAssumption DEF TypeOK
  <2>3. kick'[c] = (kick[c] \/ reliable[c] >= ReliableSize)
    BY <1>3, <2>2 DEF Deliver
  <2>4. CASE reliable[c] >= ReliableSize
    BY <2>3, <2>4
  <2>5. CASE reliable[c] < ReliableSize
    <3>1. owed'[c] = owed[c] \ {topic}
      BY <1>3, <2>2, <2>5
    <3>2. kick[c] \/ Overdue(c) \subseteq dirty
      BY DEF NothingForgotten
    <3>3. QED
      BY <1>3, <2>3, <3>1, <3>2 DEF Overdue, Due
  <2>6. QED
    BY <2>2, <2>4, <2>5
<1>4. QED
  BY <1>2, <1>3 DEF Announce

LEMMA NextForgetsNothing == TypeOK /\ NothingForgotten /\ [Next]_vars => NothingForgotten'
<1> SUFFICES ASSUME TypeOK, NothingForgotten, [Next]_vars PROVE NothingForgotten'
  OBVIOUS
<1>1. ASSUME UNCHANGED <<mapVars, dirty, owed, kick>>
      PROVE  NothingForgotten'
  BY <1>1 DEF NothingForgotten, Overdue, Due, Registered, Members, Viewers, mapVars
<1>2. CASE Drain
  <2>1. Handle(Head(inbox))
    BY <1>2 DEF Drain
  <2>2. /\ Lookup(sessions, Head(inbox).id) \in SUBSET Registered
        /\ Lookup(spectators, Head(inbox).id) \in SUBSET Registered
    BY DEF Lookup, Registered, Members, Viewers
  <2>3. CASE UNCHANGED <<mapVars, dirty, owed, kick>>
    BY <1>1, <2>3
  <2>4. QED
    BY <2>1, <2>2, <2>3, HandleLeaveForgetsNothing, HandleJoinForgetsNothing
       DEF Handle, Refuse, historyVars, sessionVars, Clients
<1>3. CASE Shutdown
  BY <1>3, HandleLeaveForgetsNothing DEF Shutdown
<1>4. CASE DropLaggards
  <2>1. Laggards \in SUBSET Registered /\ HandleLeave(Laggards)
    BY <1>4 DEF DropLaggards, Laggards
  <2>2. QED
    BY <2>1, HandleLeaveForgetsNothing
<1>5. CASE Step
  <2>1. PICK T : dirty' = dirty \cup T /\ owed' = Owe(T)
    BY <1>5 DEF Step
  <2>2. UNCHANGED <<sessions, spectators, kick>>
    BY <1>5 DEF Step, sessionVars
  <2>3. QED
    BY <2>1, <2>2, OweForgetsNothing
<1>6. CASE Dispatch
  <2>1. PICK T : dirty' = dirty \cup T /\ owed' = Owe(T)
    BY <1>6 DEF Dispatch
  <2>2. UNCHANGED <<sessions, spectators>>
    BY <1>6 DEF Dispatch, mapVars
  <2>3. PICK S : Deliver(S)
    BY <1>6 DEF Dispatch
  <2>4. \A c \in Clients : kick[c] => kick'[c]
    BY <2>3 DEF Deliver
  <2>5. QED
    BY <2>1, <2>2, <2>4, OweForgetsNothing
<1>7. CASE AnnounceTopics
  BY <1>7, AnnounceForgetsNothing DEF AnnounceTopics
<1>8. CASE Tick \/ Stop \/ Cancel \/ Snapshot \/ UNCHANGED vars
  BY <1>1, <1>8 DEF Tick, Stop, Cancel, Snapshot, vars, roomVars, sessionVars, historyVars
<1>9. CASE \E c \in Clients : HandlerNext(c)
  BY <1>1, <1>9 DEF HandlerNext, CallJoin, PostJoin, JoinAnswered, JoinAbandoned, SendInput,
     ReadEnds, PostLeave, WriterTakes, WriterEnds, WriterFails, RunReturns, roomVars, sessionVars,
     historyVars
<1>10. QED
  BY <1>2, <1>3, <1>4, <1>5, <1>6, <1>7, <1>8, <1>9 DEF Next, RoomNext

\* For any number of handlers and any events: a topic whose present value a
\* session was not sent is marked, so the next tick sends it.
THEOREM ChangesReachEveryone == Spec => []StateReachesEveryone
<1>1. Init => NothingForgotten /\ LateOnlyInTick
  BY RoomAssumption DEF Init, NothingForgotten, Registered, Members, Viewers, LateOnlyInTick, Prompt
<1>2. TypeOK /\ NothingForgotten /\ [Next]_vars => NothingForgotten'
  BY NextForgetsNothing
<1>3. TypeOK /\ LateOnlyInTick /\ [Next]_vars => LateOnlyInTick'
  BY NextPrompt
<1>4. TypeOK /\ LateOnlyInTick /\ NothingForgotten => StateReachesEveryone
  BY RegisteredAre DEF LateOnlyInTick, Prompt, Sending, NothingForgotten, Overdue,
     StateReachesEveryone
<1>5. QED
  BY <1>1, <1>2, <1>3, <1>4, TypeCorrect, PTL DEF Spec

-----------------------------------------------------------------------------
(***************************************************************************)
(* Numbers.  An id may be given out again once its session is gone, and    *)
(* mail of the first owner may still be on its way then.  What protects it *)
(* is the distance: the counter of a space stands as far beyond a          *)
(* handler's id as ids were drawn since (Counted), so as long as fewer     *)
(* were drawn than there are, none of the draws was that id.               *)
(***************************************************************************)

\* Where a counter is after giving out i and k more.
Past(i, k) == IF i + 1 + k > IdSpace THEN i + 1 + k - IdSpace ELSE i + 1 + k

\* The handlers of P whose ids were not drawn round, by the counter and the map
\* of their space.
Counted(P, next, map) ==
  \A c \in P : IF myId[c] = 0 THEN drawn[c] = 0
               ELSE drawn[c] < IdSpace =>
                      next = Past(myId[c], drawn[c]) /\ map[myId[c]] \in {None, c}

MapsNumbered ==
  /\ \A i \in Ids : sessions[i] # None => sessions[i] \in Players /\ myId[sessions[i]] = i
  /\ \A i \in Ids : spectators[i] # None => spectators[i] \in Watchers /\ myId[spectators[i]] = i

HandlersNumbered ==
  \A c \in Clients :
    /\ queues[c] = "none" <=> myId[c] = 0
    /\ reply[c] = "session" \/ handler[c] \in {"running", "leaving"} => myId[c] # 0

Signed(ev) ==
  /\ ev.kind \in {"leave", "input"} => ev.from \in Players
  /\ ev.kind = "leaveSpectator" => ev.from \in Watchers
  /\ ev.kind # "join" => myId[ev.from] # 0 /\ ev.id = myId[ev.from]
MailSigned == \A n \in DOMAIN inbox : Signed(inbox[n])

Addressed ==
  /\ Counted(Players, nextId, sessions) /\ Counted(Watchers, nextSpecId, spectators)
  /\ MapsNumbered /\ HandlersNumbered /\ MailSigned

LEMMA InitAddressed == Init => Addressed
BY DEF Init, Addressed, Counted, Clients, MapsNumbered, HandlersNumbered, MailSigned

\* A counter stands next to the id it has just given out.
LEMMA PastSelf == \A i \in Ids : NextId(i) = Past(i, 0)
BY RoomAssumption DEF NextId, Past, Ids

\* Draws that do not go round once leave a handler's id alone, and take the
\* counter as much further.
LEMMA PastDraws ==
  ASSUME NEW a \in Ids, NEW k \in Nat, NEW next \in Ids, next = Past(a, k), NEW i \in Ids,
         k + Draws(next, i) < IdSpace
  PROVE  i # a /\ NextId(i) = Past(a, k + Draws(next, i))
<1>1. IdSpace \in Nat /\ Draws(next, i) \in 1 .. IdSpace
  BY RoomAssumption, DrawsCount
<1>2. CASE i >= next
  <2>1. Draws(next, i) = i - next + 1
    BY <1>2 DEF Draws
  <2>2. QED
    BY <1>1, <1>2, <2>1 DEF Past, NextId, Ids
<1>3. CASE i < next
  <2>1. Draws(next, i) = i - next + 1 + IdSpace
    BY <1>3 DEF Draws, Ids
  <2>2. QED
    BY <1>1, <1>3, <2>1 DEF Past, NextId, Ids
<1>4. QED
  BY <1>2, <1>3 DEF Ids

LEMMA PastShots ==
  ASSUME NEW a \in Ids, NEW k \in Nat, NEW n \in 0 .. IdSpace, k + n < IdSpace
  PROVE  Past(a, k + n) = IF Past(a, k) + n - IdSpace > 0 THEN Past(a, k) + n - IdSpace
                          ELSE Past(a, k) + n
BY RoomAssumption DEF Past, Ids

\* A join into a space draws its id and gives it to the newcomer.
LEMMA JoinCounted ==
  ASSUME TypeOK, NEW P \in {Players, Watchers}, NEW next \in Ids, NEW map, NEW new,
         Counted(P, next, map), map \in [Ids -> Clients \cup {None}],
         NEW c \in P, myId[c] = 0, NEW i \in Ids, new = [map EXCEPT ![i] = c],
         myId' = [myId EXCEPT ![c] = i], drawn' = Older(P, Draws(next, i))
  PROVE  Counted(P, NextId(i), new)'
<1>1. /\ P \subseteq Clients /\ IdSpace \in Nat \ {0} /\ Draws(next, i) \in 1 .. IdSpace
      /\ myId \in [Clients -> 0 .. IdSpace] /\ drawn \in [Clients -> 0 .. IdSpace]
      /\ i # 0
  <2>1. Draws(next, i) \in 1 .. IdSpace
    BY DrawsCount
  <2>2. P \subseteq Clients /\ IdSpace \in Nat \ {0} /\ i # 0
    BY RoomAssumption DEF Clients, Ids
  <2>3. myId \in [Clients -> 0 .. IdSpace] /\ drawn \in [Clients -> 0 .. IdSpace]
    BY DEF TypeOK
  <2>4. QED
    BY <2>1, <2>2, <2>3
<1>2. PICK k \in 1 .. IdSpace : k = Draws(next, i)
  BY <1>1
<1>3. ASSUME NEW d \in P, d # c
      PROVE  IF myId'[d] = 0 THEN drawn'[d] = 0
             ELSE drawn'[d] < IdSpace =>
                    NextId(i) = Past(myId'[d], drawn'[d]) /\ new[myId'[d]] \in {None, d}
  <2>1. myId'[d] = myId[d] /\ myId[d] \in 0 .. IdSpace /\ drawn[d] \in Nat
    BY <1>1, <1>3
  <2>2. CASE myId[d] = 0
    <3>1. drawn'[d] = drawn[d]
      BY <1>1, <2>2 DEF Older
    <3>2. QED
      BY <2>1, <2>2, <3>1 DEF Counted
  <2>3. CASE myId[d] # 0 /\ drawn'[d] < IdSpace
    <3>1. drawn'[d] = IF drawn[d] + k < IdSpace THEN drawn[d] + k ELSE IdSpace
      BY <1>1, <1>2, <2>3 DEF Older
    <3>2. drawn[d] + k < IdSpace /\ drawn'[d] = drawn[d] + k /\ drawn[d] < IdSpace
      BY <1>1, <1>2, <2>1, <2>3, <3>1
    <3>3. next = Past(myId[d], drawn[d]) /\ map[myId[d]] \in {None, d}
      BY <2>3, <3>2 DEF Counted
    <3>4. myId[d] \in Ids
      BY <1>1, <2>1, <2>3 DEF Ids
    <3>5. i # myId[d] /\ NextId(i) = Past(myId[d], drawn[d] + k)
      BY <1>2, <2>1, <3>2, <3>3, <3>4, PastDraws
    <3>6. new[myId[d]] = map[myId[d]]
      BY <3>4, <3>5
    <3>7. QED
      BY <2>1, <2>3, <3>2, <3>3, <3>5, <3>6
  <2>4. QED
    BY <2>1, <2>2, <2>3
<1>4. /\ myId'[c] = i /\ drawn'[c] = 0 /\ NextId(i) = Past(i, 0) /\ new[i] = c
  <2>1. drawn[c] = 0
    BY DEF Counted
  <2>2. drawn'[c] = drawn[c]
    BY <1>1 DEF Older
  <2>3. QED
    BY <1>1, <2>1, <2>2, PastSelf
<1>5. ASSUME NEW d \in P
      PROVE  IF myId'[d] = 0 THEN drawn'[d] = 0
             ELSE drawn'[d] < IdSpace =>
                    NextId(i) = Past(myId'[d], drawn'[d]) /\ new[myId'[d]] \in {None, d}
  <2>1. CASE d = c
    BY <1>1, <1>4, <2>1
  <2>2. CASE d # c
    BY <1>3, <2>2
  <2>3. QED
    BY <2>1, <2>2
<1>6. QED
  BY <1>5 DEF Counted

\* The other space sees nothing of it, nor does one whose sessions only go.
LEMMA OtherCounted ==
  ASSUME NEW P, NEW next, NEW map, NEW new, Counted(P, next, map),
         \A c \in P : myId'[c] = myId[c] /\ drawn'[c] = drawn[c],
         \A c \in P : myId[c] # 0 => new[myId[c]] \in {None, map[myId[c]]}
  PROVE  Counted(P, next, new)'
BY DEF Counted

\* Mail taken off the inbox, or left on it, stays signed while nobody's number
\* changes but that of handlers without one.
LEMMA MailStays ==
  ASSUME TypeOK, MailSigned,
         inbox' = inbox \/ (inbox # <<>> /\ inbox' = Tail(inbox)),
         \A c \in Clients : myId[c] # 0 => myId'[c] = myId[c]
  PROVE  MailSigned'
<1>1. \A n \in DOMAIN inbox : inbox[n] \in Events
  BY DEF TypeOK
<1>2. \A n \in DOMAIN inbox : inbox[n].from \in Clients
  BY <1>1 DEF Events
<1>3. \A n \in DOMAIN inbox' : \E m \in DOMAIN inbox : inbox'[n] = inbox[m]
  <2>1. CASE inbox' = Tail(inbox) /\ inbox # <<>>
    <3>1. inbox \in Seq(Events)
      BY DEF TypeOK
    <3>2. \A n \in DOMAIN inbox' : n + 1 \in DOMAIN inbox /\ inbox'[n] = inbox[n + 1]
      BY <2>1, <3>1
    <3>3. QED
      BY <3>2
  <2>2. QED
    BY <2>1
<1>4. QED
  BY <1>2, <1>3 DEF MailSigned, Signed

\* Releasing registered handlers changes no number.
LEMMA ReleaseAddressed ==
  ASSUME Membership, Addressed, NEW S \in SUBSET Registered, Release(S),
         UNCHANGED <<nextId, nextSpecId, myId, drawn, reply, handler>>,
         inbox' = inbox \/ (inbox # <<>> /\ inbox' = Tail(inbox))
  PROVE  Addressed'
<1>1. MailSigned'
  BY MailStays DEF Membership, Addressed
<1>2. MapsNumbered'
  BY DEF Release, Addressed, MapsNumbered
<1>3. \A c \in Clients : queues'[c] = "none" <=> queues[c] = "none"
  BY DEF Release, Reset, Membership, QueuesOpenWhileRegistered
<1>4. HandlersNumbered'
  BY <1>3 DEF Addressed, HandlersNumbered
<1>5. ASSUME NEW i \in Ids
      PROVE  sessions'[i] \in {None, sessions[i]} /\ spectators'[i] \in {None, spectators[i]}
  BY DEF Release
<1>6. \A c \in Clients : myId[c] # 0 => myId[c] \in Ids
  BY RoomAssumption DEF Membership, TypeOK, Ids
<1>7. Players \subseteq Clients /\ Watchers \subseteq Clients
  BY DEF Clients
<1>8. Counted(Players, nextId, sessions)'
  BY <1>5, <1>6, <1>7 DEF Addressed, Counted
<1>9. Counted(Watchers, nextSpecId, spectators)'
  BY <1>5, <1>6, <1>7 DEF Addressed, Counted
<1>10. QED
  BY <1>1, <1>2, <1>4, <1>8, <1>9 DEF Addressed

LEMMA JoinAddressed ==
  ASSUME Membership, Addressed, NEW c \in Clients, queues[c] = "none", ~Full(c),
         (HandleJoin(c) /\ c \in Players) \/ (HandleSpectatorJoin(c) /\ c \in Watchers),
         UNCHANGED handler, inbox # <<>>, inbox' = Tail(inbox)
  PROVE  Addressed'
<1>1. myId[c] = 0 /\ myId \in [Clients -> 0 .. IdSpace] /\ TypeOK
  BY DEF Addressed, HandlersNumbered, Membership, TypeOK
<1>2. PICK m, t, n, q : m = sessions /\ t = spectators /\ n = nextId /\ q = nextSpecId
  OBVIOUS
<1>3. /\ m \in [Ids -> Clients \cup {None}] /\ t \in [Ids -> Clients \cup {None}]
      /\ n \in Ids /\ q \in Ids
      /\ Counted(Players, n, m) /\ Counted(Watchers, q, t)
      /\ \A k \in Ids : m[k] # None => m[k] \in Players /\ myId[m[k]] = k
      /\ \A k \in Ids : t[k] # None => t[k] \in Watchers /\ myId[t[k]] = k
  BY <1>1, <1>2 DEF TypeOK, Addressed, MapsNumbered
<1>4. PICK i \in Ids : /\ myId' = [myId EXCEPT ![c] = i]
                       /\ \/ /\ c \in Players
                             /\ sessions' = [m EXCEPT ![i] = c] /\ nextId' = NextId(i)
                             /\ drawn' = Older(Players, Draws(n, i))
                             /\ spectators' = t /\ nextSpecId' = q
                          \/ /\ c \in Watchers
                             /\ spectators' = [t EXCEPT ![i] = c] /\ nextSpecId' = NextId(i)
                             /\ drawn' = Older(Watchers, Draws(q, i))
                             /\ sessions' = m /\ nextId' = n
  <2>1. CASE HandleJoin(c) /\ c \in Players
    <3>1. PICK i \in Ids \ world :
            /\ nextId' = NextId(i) /\ drawn' = Older(Players, Draws(nextId, i))
            /\ sessions' = [sessions EXCEPT ![i] = c] /\ Admit(c, i, Topics)
      BY <2>1 DEF HandleJoin
    <3>2. UNCHANGED <<spectators, nextSpecId>>
      BY <2>1 DEF HandleJoin
    <3>3. myId' = [myId EXCEPT ![c] = i] /\ i \in Ids
      BY <3>1 DEF Admit
    <3>4. QED
      BY <1>2, <2>1, <3>1, <3>2, <3>3
  <2>2. CASE HandleSpectatorJoin(c) /\ c \in Watchers
    <3>1. PICK i : i = FirstFree(nextSpecId, Viewers)
      OBVIOUS
    <3>2. i \in Ids
      <4>1. c \notin Players
        BY <2>2, RoomAssumption
      <4>2. Ids \ Viewers # {}
        BY <4>1 DEF Full, Viewers
      <4>3. QED
        BY <1>1, <3>1, <4>2, FirstFreeIsFree DEF TypeOK
    <3>3. /\ nextSpecId' = NextId(i) /\ drawn' = Older(Watchers, Draws(nextSpecId, i))
          /\ spectators' = [spectators EXCEPT ![i] = c] /\ Admit(c, i, Topics \ {"flags"})
          /\ UNCHANGED <<sessions, nextId>>
      BY <2>2, <3>1 DEF HandleSpectatorJoin
    <3>4. myId' = [myId EXCEPT ![c] = i]
      BY <3>3 DEF Admit
    <3>5. QED
      BY <1>2, <2>2, <3>2, <3>3, <3>4
  <2>3. QED
    BY <2>1, <2>2
<1>5. queues' = [queues EXCEPT ![c] = "open"] /\ reply' = [reply EXCEPT ![c] = "session"]
  BY DEF HandleJoin, HandleSpectatorJoin, Admit
<1>6. i # 0 /\ myId'[c] = i /\ \A d \in Clients : d # c => myId'[d] = myId[d]
  BY <1>1, <1>4, RoomAssumption DEF Ids
<1>7. MailSigned'
  BY <1>1, <1>6, MailStays DEF Addressed
<1>8. HandlersNumbered'
  BY <1>1, <1>5, <1>6 DEF Addressed, HandlersNumbered, TypeOK
<1>9. Players \cap Watchers = {} /\ Clients = Players \cup Watchers
  BY RoomAssumption DEF Clients
<1>10. PICK m2, t2, n2, q2 : m2 = sessions' /\ t2 = spectators' /\ n2 = nextId' /\ q2 = nextSpecId'
  OBVIOUS
<1>11. /\ m2 = m \/ (c \in Players /\ m2 = [m EXCEPT ![i] = c])
       /\ t2 = t \/ (c \in Watchers /\ t2 = [t EXCEPT ![i] = c])
  BY <1>4, <1>10
<1>12. MapsNumbered'
  <2>1. ASSUME NEW k \in Ids, m2[k] # None
        PROVE  m2[k] \in Players /\ myId'[m2[k]] = k
    <3>1. m2[k] = m[k] \/ (k = i /\ m2[k] = c /\ c \in Players)
      BY <1>3, <1>11
    <3>2. CASE m2[k] = m[k]
      <4>1. m[k] \in Players /\ myId[m[k]] = k /\ m[k] \in Clients
        BY <1>3, <1>9, <2>1, <3>2
      <4>2. m[k] # c
        BY <1>1, <4>1, RoomAssumption DEF Ids
      <4>3. QED
        BY <1>6, <3>2, <4>1, <4>2
    <3>3. QED
      BY <1>6, <3>1, <3>2
  <2>2. ASSUME NEW k \in Ids, t2[k] # None
        PROVE  t2[k] \in Watchers /\ myId'[t2[k]] = k
    <3>1. t2[k] = t[k] \/ (k = i /\ t2[k] = c /\ c \in Watchers)
      BY <1>3, <1>11
    <3>2. CASE t2[k] = t[k]
      <4>1. t[k] \in Watchers /\ myId[t[k]] = k /\ t[k] \in Clients
        BY <1>3, <1>9, <2>2, <3>2
      <4>2. t[k] # c
        BY <1>1, <4>1, RoomAssumption DEF Ids
      <4>3. QED
        BY <1>6, <3>2, <4>1, <4>2
    <3>3. QED
      BY <1>6, <3>1, <3>2
  <2>3. QED
    BY <1>10, <2>1, <2>2 DEF MapsNumbered
<1>13. Counted(Players, n2, m2)' /\ Counted(Watchers, q2, t2)'
  <2>1. CASE c \in Players
    <3>1. /\ m2 = [m EXCEPT ![i] = c] /\ n2 = NextId(i) /\ t2 = t /\ q2 = q
          /\ drawn' = Older(Players, Draws(n, i)) /\ c \notin Watchers
      BY <1>4, <1>9, <1>10, <2>1
    <3>2. Counted(Players, n2, m2)'
      <4>1. Counted(Players, NextId(i), m2)'
        BY <1>1, <1>3, <1>4, <2>1, <3>1, JoinCounted
      <4>2. QED
        BY <3>1, <4>1 DEF Counted
    <3>3. \A d \in Watchers : drawn'[d] = drawn[d]
      BY <1>9, <3>1 DEF Older
    <3>4. Counted(Watchers, q2, t2)'
      BY <1>3, <1>6, <1>9, <3>1, <3>3 DEF Counted
    <3>5. QED
      BY <3>2, <3>4
  <2>2. CASE c \in Watchers
    <3>1. /\ t2 = [t EXCEPT ![i] = c] /\ q2 = NextId(i) /\ m2 = m /\ n2 = n
          /\ drawn' = Older(Watchers, Draws(q, i)) /\ c \notin Players
      BY <1>4, <1>9, <1>10, <2>2
    <3>2. Counted(Watchers, q2, t2)'
      <4>1. Counted(Watchers, NextId(i), t2)'
        BY <1>1, <1>3, <1>4, <2>2, <3>1, JoinCounted
      <4>2. QED
        BY <3>1, <4>1 DEF Counted
    <3>3. \A d \in Players : drawn'[d] = drawn[d]
      BY <1>9, <3>1 DEF Older
    <3>4. Counted(Players, n2, m2)'
      BY <1>3, <1>6, <1>9, <3>1, <3>3 DEF Counted
    <3>5. QED
      BY <3>2, <3>4
  <2>3. QED
    BY <1>9, <2>1, <2>2
<1>14. QED
  BY <1>7, <1>8, <1>10, <1>12, <1>13 DEF Addressed, Counted

LEMMA DrainAddressed == Membership /\ Addressed /\ Drain => Addressed'
<1> SUFFICES ASSUME Membership, Addressed, Drain PROVE Addressed'
  OBVIOUS
<1> DEFINE ev == Head(inbox)
<1>1. /\ inbox # <<>> /\ inbox' = Tail(inbox) /\ UNCHANGED handler /\ Handle(ev)
  BY DEF Drain
<1>2. ev \in Events /\ 1 \in DOMAIN inbox /\ ev = inbox[1]
  BY <1>1 DEF Membership, TypeOK
<1>3. ev.from \in Clients
  BY <1>2 DEF Events
<1> HIDE DEF ev
<1>4. CASE ev.kind = "join" /\ ~Full(ev.from)
             /\ ((HandleJoin(ev.from) /\ ev.from \in Players)
                                  \/ (HandleSpectatorJoin(ev.from) /\ ev.from \in Watchers))
  <2>1. queues[ev.from] = "none"
    BY <1>2, <1>4 DEF Membership, JoinsOnce
  <2>2. QED
    BY <1>1, <1>3, <1>4, <2>1, JoinAddressed
<1>5. ASSUME UNCHANGED <<mapVars, queues, myId, drawn>>,
             \A c \in Clients : reply'[c] = "session" => reply[c] = "session"
      PROVE  Addressed'
  <2>1. MailSigned'
    BY <1>1, <1>5, MailStays DEF Membership, Addressed
  <2>2. QED
    BY <1>1, <1>5, <2>1 DEF Addressed, Counted, MapsNumbered, HandlersNumbered, mapVars
<1>6. CASE Refuse(ev.from)
  <2>1. /\ UNCHANGED <<mapVars, queues, myId, drawn>>
        /\ reply' = [reply EXCEPT ![ev.from] = "full"]
    BY <1>6 DEF Refuse, sessionVars, historyVars
  <2>2. \A c \in Clients : reply'[c] = "session" => reply[c] = "session"
    BY <2>1 DEF Membership, TypeOK
  <2>3. QED
    BY <1>5, <2>1, <2>2
<1>7. CASE UNCHANGED <<mapVars, dirty, sessionVars, reply, myId, historyVars>>
  BY <1>5, <1>7 DEF sessionVars, historyVars
<1>8. ASSUME NEW S \in SUBSET Registered, HandleLeave(S) PROVE Addressed'
  BY <1>1, <1>8, ReleaseAddressed DEF HandleLeave
<1>9. /\ Lookup(sessions, ev.id) \subseteq Registered
      /\ Lookup(spectators, ev.id) \subseteq Registered
  BY DEF Lookup, Registered, Members, Viewers
<1>10. CASE ev.kind = "leave" /\ HandleLeave(Lookup(sessions, ev.id))
  BY <1>8, <1>9, <1>10
<1>11. CASE ev.kind = "leaveSpectator" /\ HandleLeave(Lookup(spectators, ev.id))
  BY <1>8, <1>9, <1>11
<1>12. \/ /\ ev.kind = "join" /\ ~Full(ev.from)
          /\ (HandleJoin(ev.from) /\ ev.from \in Players) \/ (HandleSpectatorJoin(ev.from) /\ ev.from \in Watchers)
       \/ Refuse(ev.from)
       \/ ev.kind = "leave" /\ HandleLeave(Lookup(sessions, ev.id))
       \/ ev.kind = "leaveSpectator" /\ HandleLeave(Lookup(spectators, ev.id))
       \/ UNCHANGED <<mapVars, dirty, sessionVars, reply, myId, historyVars>>
  <2>1. Handle(ev)
    BY <1>1
  <2>2. QED
    BY <2>1 DEF Handle
<1>13. QED
  BY <1>4, <1>6, <1>7, <1>10, <1>11, <1>12

LEMMA HandlerAddressed ==
  ASSUME Membership, Addressed, NEW c \in Clients, HandlerNext(c)
  PROVE  Addressed'
<1>1. UNCHANGED <<mapVars, queues, reply, myId, drawn>>
  BY DEF HandlerNext, CallJoin, PostJoin, JoinAnswered, JoinAbandoned, SendInput, ReadEnds,
         PostLeave, WriterTakes, WriterEnds, WriterFails, RunReturns, roomVars, sessionVars,
         handlerVars, historyVars
<1>2. \A d \in Clients : handler'[d] \in {"running", "leaving"} =>
        handler[d] \in {"running", "leaving"} \/ reply[d] = "session"
  BY DEF HandlerNext, CallJoin, PostJoin, JoinAnswered, JoinAbandoned, SendInput, ReadEnds,
         PostLeave, WriterTakes, WriterEnds, WriterFails, RunReturns, handlerVars, Move,
         Membership, TypeOK
<1>3. HandlersNumbered'
  BY <1>1, <1>2 DEF Addressed, HandlersNumbered
<1>4. ASSUME MailSigned' PROVE Addressed'
  BY <1>1, <1>3, <1>4 DEF Addressed, Counted, MapsNumbered, mapVars
<1>5. ASSUME inbox' = inbox PROVE MailSigned'
  BY <1>1, <1>5, MailStays DEF Membership, Addressed
<1>6. ASSUME NEW kind \in {"join", "leave", "leaveSpectator", "input"}, NEW i \in 0 .. IdSpace,
             Post(kind, i, c), Signed([kind |-> kind, id |-> i, from |-> c])
      PROVE  MailSigned'
  <2> DEFINE e == [kind |-> kind, id |-> i, from |-> c]
  <2>1. e \in Events
    BY DEF Events
  <2>2. inbox' = Append(inbox, e) /\ inbox \in Seq(Events)
    BY <1>6 DEF Post, Membership, TypeOK
  <2> HIDE DEF e
  <2>3. \A n \in DOMAIN inbox' : inbox'[n] = e \/ (n \in DOMAIN inbox /\ inbox'[n] = inbox[n])
    BY <2>1, <2>2
  <2>4. Signed(e)
    BY <1>6 DEF e
  <2>5. QED
    BY <1>1, <2>3, <2>4 DEF Addressed, MailSigned, Signed
<1>7. myId[c] \in 0 .. IdSpace /\ (handler[c] \in {"running", "leaving"} => myId[c] # 0)
  BY DEF Membership, TypeOK, Addressed, HandlersNumbered
<1>8. CASE PostJoin(c)
  <2>1. Post("join", 0, c) /\ Signed([kind |-> "join", id |-> 0, from |-> c])
    BY <1>8 DEF PostJoin, Signed
  <2>2. 0 \in 0 .. IdSpace
    BY RoomAssumption
  <2>3. QED
    BY <1>4, <1>6, <2>1, <2>2
<1>9. CASE SendInput(c)
  <2>1. Post("input", myId[c], c) /\ Signed([kind |-> "input", id |-> myId[c], from |-> c])
    BY <1>7, <1>9 DEF SendInput, Signed
  <2>2. QED
    BY <1>4, <1>6, <1>7, <2>1
<1>10. CASE PostLeave(c)
  <2>1. handler[c] = "leaving"
    BY <1>10 DEF PostLeave, Move
  <2>2. CASE c \in Watchers /\ Post("leaveSpectator", myId[c], c)
    <3>1. Signed([kind |-> "leaveSpectator", id |-> myId[c], from |-> c])
      BY <1>7, <2>1, <2>2 DEF Signed
    <3>2. QED
      BY <1>4, <1>6, <1>7, <2>2, <3>1
  <2>3. CASE c \notin Watchers /\ Post("leave", myId[c], c)
    <3>1. Signed([kind |-> "leave", id |-> myId[c], from |-> c])
      BY <1>7, <2>1, <2>3 DEF Signed, Clients
    <3>2. QED
      BY <1>4, <1>6, <1>7, <2>3, <3>1
  <2>4. QED
    BY <1>4, <1>5, <1>10, <2>2, <2>3 DEF PostLeave
<1>11. QED
  BY <1>4, <1>5, <1>8, <1>9, <1>10 DEF HandlerNext, CallJoin, JoinAnswered, JoinAbandoned,
         ReadEnds, WriterTakes, WriterEnds, WriterFails, RunReturns

\* World.Step: the counter of the world goes on by what its shots draw.
LEMMA StepAddressed == Membership /\ Addressed /\ Step => Addressed'
<1> SUFFICES ASSUME Membership, Addressed, Step PROVE Addressed'
  OBVIOUS
<1>1. PICK n \in 0 .. MaxShots :
        /\ nextId' = IF nextId + n - IdSpace > 0 THEN nextId + n - IdSpace ELSE nextId + n
        /\ drawn' = Older(Players, n)
  BY DEF Step
<1>2. /\ UNCHANGED <<sessions, spectators, nextSpecId, queues, inbox, myId, reply, handler>>
      /\ n \in 0 .. IdSpace /\ IdSpace \in Nat \ {0}
  BY RoomAssumption DEF Step, sessionVars, handlerVars
<1>3. /\ myId \in [Clients -> 0 .. IdSpace] /\ drawn \in [Clients -> 0 .. IdSpace]
      /\ Players \subseteq Clients /\ Players \cap Watchers = {} /\ Watchers \subseteq Clients
  BY RoomAssumption DEF Membership, TypeOK, Clients
<1>4. ASSUME NEW c \in Players
      PROVE  IF myId[c] = 0 THEN drawn'[c] = 0
             ELSE drawn'[c] < IdSpace =>
                    nextId' = Past(myId[c], drawn'[c]) /\ sessions[myId[c]] \in {None, c}
  <2>1. CASE myId[c] = 0
    <3>1. drawn'[c] = drawn[c]
      BY <1>1, <1>3, <2>1 DEF Older
    <3>2. QED
      BY <2>1, <3>1 DEF Addressed, Counted
  <2>2. CASE myId[c] # 0 /\ drawn'[c] < IdSpace
    <3>1. drawn'[c] = IF drawn[c] + n < IdSpace THEN drawn[c] + n ELSE IdSpace
      BY <1>1, <1>3, <2>2 DEF Older
    <3>2. /\ drawn[c] + n < IdSpace /\ drawn'[c] = drawn[c] + n /\ drawn[c] < IdSpace
          /\ drawn[c] \in Nat
      BY <1>2, <1>3, <2>2, <3>1
    <3>3. nextId = Past(myId[c], drawn[c]) /\ sessions[myId[c]] \in {None, c}
      BY <2>2, <3>2 DEF Addressed, Counted
    <3>4. myId[c] \in Ids
      BY <1>3, <2>2, RoomAssumption DEF Ids
    <3>5. PICK a \in Ids, k \in Nat : a = myId[c] /\ k = drawn[c]
      BY <3>2, <3>4
    <3>6. Past(a, k + n) = IF Past(a, k) + n - IdSpace > 0 THEN Past(a, k) + n - IdSpace
                           ELSE Past(a, k) + n
      BY <1>2, <3>2, <3>5, PastShots
    <3>7. QED
      BY <1>1, <2>2, <3>2, <3>3, <3>5, <3>6
  <2>3. QED
    BY <2>1, <2>2
<1>5. Counted(Players, nextId, sessions)'
  BY <1>2, <1>4 DEF Counted
<1>6. \A c \in Watchers : drawn'[c] = drawn[c]
  BY <1>1, <1>3 DEF Older
<1>7. Counted(Watchers, nextSpecId, spectators)'
  BY <1>2, <1>6 DEF Addressed, Counted
<1>8. QED
  BY <1>2, <1>5, <1>7 DEF Addressed, MapsNumbered, HandlersNumbered, MailSigned, Signed

LEMMA NextAddressed == Membership /\ Addressed /\ [Next]_vars => Addressed'
<1> SUFFICES ASSUME Membership, Addressed, [Next]_vars PROVE Addressed'
  OBVIOUS
<1>1. ASSUME UNCHANGED <<mapVars, queues, inbox, myId, drawn, reply, handler>>
      PROVE  Addressed'
  BY <1>1 DEF Addressed, Counted, MapsNumbered, HandlersNumbered, MailSigned, Signed, mapVars
<1>2. CASE Tick \/ Stop \/ Cancel \/ UNCHANGED vars
  BY <1>1, <1>2 DEF Tick, Stop, Cancel, vars, roomVars, sessionVars, handlerVars, historyVars
<1>3. CASE Dispatch \/ AnnounceTopics \/ Snapshot
  BY <1>1, <1>3 DEF Dispatch, AnnounceTopics, Announce, Snapshot, handlerVars, historyVars
<1>4. CASE Shutdown
  <2>1. Release(Registered) /\ UNCHANGED <<nextId, nextSpecId, myId, drawn, reply, handler, inbox>>
    BY <1>4 DEF Shutdown, HandleLeave
  <2>2. QED
    BY <2>1, ReleaseAddressed
<1>5. CASE DropLaggards
  <2>1. Release(Laggards) /\ UNCHANGED <<nextId, nextSpecId, myId, drawn, reply, handler, inbox>>
    BY <1>5 DEF DropLaggards, HandleLeave
  <2>2. Laggards \subseteq Registered
    BY DEF Laggards
  <2>3. QED
    BY <2>1, <2>2, ReleaseAddressed
<1>6. QED
  BY <1>2, <1>3, <1>4, <1>5, DrainAddressed, StepAddressed, HandlerAddressed DEF Next, RoomNext

\* Under an id that was not drawn round a signed event finds its sender, or nobody.
LEMMA SenderNamed == ASSUME Membership, Addressed PROVE MailNamesItsSender
<1>1. SUFFICES ASSUME NEW n \in DOMAIN inbox, drawn[inbox[n].from] < IdSpace
               PROVE  /\ inbox[n].kind \in {"leave", "input"} =>
                           sessions[inbox[n].id] \in {None, inbox[n].from}
                      /\ inbox[n].kind = "leaveSpectator" =>
                           spectators[inbox[n].id] \in {None, inbox[n].from}
  BY DEF MailNamesItsSender
<1>2. Signed(inbox[n])
  BY DEF Addressed, MailSigned
<1>3. Counted(Players, nextId, sessions) /\ Counted(Watchers, nextSpecId, spectators)
  BY DEF Addressed
<1>4. QED
  BY <1>1, <1>2, <1>3 DEF Signed, Counted

\* For any number of handlers, any capacities and any shots that draw from the same
\* ids: until all of them have been drawn again, a leave or an input that comes
\* late finds its sender under the number it names, or nobody, however often its
\* place was taken since (allocID, handle, leave, leaveSpectator, input).
THEOREM MailFindsItsSender == Spec => []MailNamesItsSender
<1>1. Init => Membership /\ Addressed
  BY InitMembership, InitAddressed
<1>2. Membership /\ Addressed /\ [Next]_vars => (Membership /\ Addressed)'
  BY NextMembership, NextAddressed
<1>3. Membership /\ Addressed => MailNamesItsSender
  BY SenderNamed
<1>4. QED
  BY <1>1, <1>2, <1>3, PTL DEF Spec

-----------------------------------------------------------------------------
(***************************************************************************)
(* The roster.  The room as its neighbours see it: who plays is the image  *)
(* of the map of sessions, the mail is the inbox without what only         *)
(* spectators and inputs mean.  Membership counts the players, Addressed   *)
(* says whose leave a leave is; a player whose id was drawn round since is *)
(* stale, and its late leave may be taken for another's.                   *)
(***************************************************************************)
Letters(s) == [n \in DOMAIN s |-> LetterOf(s[n])]
Playing == {sessions[i] : i \in Members}
Stale == {c \in Players : drawn[c] = IdSpace}

\* Who may play after a letter.
Outcomes(letter) ==
  IF letter.kind = "join"
    THEN {IF Cardinality(Playing) < MaxPlayers THEN Playing \cup {letter.who} ELSE Playing}
  ELSE IF letter.kind = "leave"
    THEN {Playing \ {letter.who}}
           \cup (IF letter.who \in Stale \ Playing THEN {Playing \ {g} : g \in Playing} ELSE {})
  ELSE {Playing}

\* A letter of the roster for every event.
LEMMA LetterOfEvent ==
  ASSUME NEW ev \in Events
  PROVE  LetterOf(ev) \in Public!Letter
BY DEF LetterOf, Public!Letter, Public!Other

\* The mail grows with the inbox.
LEMMA LettersPosted ==
  ASSUME NEW s \in Seq(Events), NEW ev \in Events
  PROVE  Letters(Append(s, ev)) = Append(Letters(s), LetterOf(ev))
<1> DEFINE L == Public!Letter
<1>1. /\ DOMAIN s = 1 .. Len(s) /\ Len(s) \in Nat /\ \A n \in 1 .. Len(s) : s[n] \in Events
      /\ DOMAIN Append(s, ev) = 1 .. Len(s) + 1 /\ Append(s, ev)[Len(s) + 1] = ev
      /\ \A n \in 1 .. Len(s) : Append(s, ev)[n] = s[n]
  OBVIOUS
<1>2. Letters(s) = [n \in 1 .. Len(s) |-> LetterOf(s[n])]
  BY <1>1 DEF Letters
<1>3. \A n \in 1 .. Len(s) : LetterOf(s[n]) \in L
  BY <1>1, LetterOfEvent
<1> HIDE DEF L
<1>4. Letters(s) \in Seq(L) /\ Len(Letters(s)) = Len(s)
  BY <1>1, <1>2, <1>3
<1>5. Append(Letters(s), LetterOf(ev))
        = [n \in 1 .. Len(s) + 1 |-> IF n \in 1 .. Len(s) THEN LetterOf(s[n]) ELSE LetterOf(ev)]
  BY <1>2, <1>4
<1>6. Letters(Append(s, ev)) = [n \in 1 .. Len(s) + 1 |-> LetterOf(Append(s, ev)[n])]
  BY <1>1 DEF Letters
<1>7. \A n \in 1 .. Len(s) + 1 :
         LetterOf(Append(s, ev)[n]) = IF n \in 1 .. Len(s) THEN LetterOf(s[n]) ELSE LetterOf(ev)
  <2>1. \A n \in 1 .. Len(s) + 1 : n \notin 1 .. Len(s) => n = Len(s) + 1
    BY <1>1
  <2>2. QED
    BY <1>1, <2>1
<1>8. QED
  BY <1>5, <1>6, <1>7

\* And shrinks with it, from the same end.
LEMMA LettersTaken ==
  ASSUME NEW s \in Seq(Events), s # <<>>
  PROVE  /\ Letters(s) # <<>> /\ Head(Letters(s)) = LetterOf(Head(s))
         /\ Letters(Tail(s)) = Tail(Letters(s))
<1> DEFINE L == Public!Letter
<1>1. /\ DOMAIN s = 1 .. Len(s) /\ Len(s) \in Nat \ {0} /\ \A n \in 1 .. Len(s) : s[n] \in Events
      /\ DOMAIN Tail(s) = 1 .. Len(s) - 1 /\ Head(s) = s[1]
      /\ \A n \in 1 .. Len(s) - 1 : Tail(s)[n] = s[n + 1]
  OBVIOUS
<1>2. Letters(s) = [n \in 1 .. Len(s) |-> LetterOf(s[n])]
  BY <1>1 DEF Letters
<1>3. \A n \in 1 .. Len(s) : LetterOf(s[n]) \in L
  BY <1>1, LetterOfEvent
<1> HIDE DEF L
<1>4. Letters(s) \in Seq(L) /\ Len(Letters(s)) = Len(s) /\ Letters(s) # <<>>
  BY <1>1, <1>2, <1>3
<1>5. Head(Letters(s)) = LetterOf(Head(s))
  BY <1>1, <1>2, <1>4
<1>6. Tail(Letters(s)) = [n \in 1 .. Len(s) - 1 |-> LetterOf(s[n + 1])]
  BY <1>1, <1>2, <1>4
<1>7. Letters(Tail(s)) = [n \in 1 .. Len(s) - 1 |-> LetterOf(Tail(s)[n])]
  BY <1>1 DEF Letters
<1>8. QED
  BY <1>1, <1>4, <1>5, <1>6, <1>7

\* A map without repetition has as many values as keys.
LEMMA ValuesCount ==
  ASSUME NEW f, NEW S \in SUBSET Ids, \A i, j \in S : f[i] = f[j] => i = j
  PROVE  LET T == {f[i] : i \in S} IN
         IsFiniteSet(T) /\ Cardinality(T) = Cardinality(S) /\ Cardinality(S) \in Nat
<1> DEFINE T == {f[i] : i \in S}
           g == [i \in S |-> f[i]]
<1>1. IsFiniteSet(S) /\ Cardinality(S) \in Nat
  BY FiniteSubsets
<1>2. g \in Bijection(S, T)
  <2>1. g \in [S -> T] /\ \A i \in S : g[i] = f[i]
    OBVIOUS
  <2>2. \A t \in T : \E i \in S : g[i] = t
    OBVIOUS
  <2> HIDE DEF T, g
  <2>3. \A i, j \in S : g[i] = g[j] => i = j
    BY <2>1
  <2>4. g \in Injection(S, T) /\ g \in Surjection(S, T)
    BY <2>1, <2>2, <2>3 DEF Injection, Surjection, IsInjective
  <2>5. QED
    BY <2>4 DEF Bijection
<1>3. ExistsBijection(S, T)
  BY <1>2 DEF ExistsBijection
<1> HIDE DEF T, g
<1>4. IsFiniteSet(T) /\ Cardinality(T) = Cardinality(S)
  BY <1>1, <1>3, FS_Bijection
<1>5. QED
  BY <1>1, <1>4 DEF T

\* So the published count is the number of the players, before and after a step.
LEMMA PlayingCounted ==
  /\ Membership => /\ IsFiniteSet(Playing) /\ Cardinality(Playing) = Cardinality(Members)
                   /\ Cardinality(Playing) \in Nat /\ players = Cardinality(Playing)
  /\ SessionsMatchWorld' => players' = Cardinality(Playing')
<1>1. ASSUME SessionsMatchWorld
      PROVE  /\ IsFiniteSet(Playing) /\ Cardinality(Playing) = Cardinality(Members)
             /\ Cardinality(Playing) \in Nat /\ players = Cardinality(Playing)
  <2>1. Members \in SUBSET Ids /\ \A i, j \in Members : sessions[i] = sessions[j] => i = j
    BY <1>1 DEF SessionsMatchWorld, Members
  <2>2. players = Cardinality(Members)
    BY <1>1 DEF SessionsMatchWorld
  <2>3. QED
    BY <2>1, <2>2, ValuesCount DEF Playing
<1>2. ASSUME SessionsMatchWorld' PROVE players' = Cardinality(Playing')
  <2>1. Members' \in SUBSET Ids /\ \A i, j \in Members' : sessions'[i] = sessions'[j] => i = j
    BY <1>2 DEF SessionsMatchWorld, Members
  <2>2. players' = Cardinality(Members')
    BY <1>2 DEF SessionsMatchWorld
  <2>3. Playing' = {sessions'[i] : i \in Members'}
    BY DEF Playing
  <2>4. Cardinality(Playing') = Cardinality(Members')
    BY <2>1, <2>3, ValuesCount
  <2>5. QED
    BY <2>2, <2>4
<1>3. QED
  BY <1>1, <1>2 DEF Membership

\* The world does not run out of ids before the room is full.
LEMMA IdsSuffice ==
  ASSUME Membership, NEW c \in Players, Full(c)
  PROVE  Cardinality(Playing) >= MaxPlayers
<1>1. /\ IsFiniteSet(Playing) /\ Cardinality(Playing) = Cardinality(Members)
      /\ Cardinality(Playing) \in Nat
  BY PlayingCounted
<1>2. CASE Cardinality(Members) >= MaxPlayers
  BY <1>1, <1>2
<1>3. CASE world = Ids
  <2>1. Members = Ids
    BY <1>3 DEF Membership, SessionsMatchWorld
  <2>2. Cardinality(Playing) = IdSpace
    BY <1>1, <2>1, RoomAssumption, FS_Interval DEF Ids
  <2>3. QED
    BY <2>2, RoomAssumption
<1>4. QED
  BY <1>2, <1>3 DEF Full

\* Who plays after sessions are released.
LEMMA ReleasePlaying ==
  ASSUME Membership, NEW S, Release(S), None \notin S
  PROVE  Playing' = Playing \ S
<1>1. \A i \in Ids : sessions'[i] = IF sessions[i] \in S THEN None ELSE sessions[i]
  BY DEF Release
<1>2. Members' = {i \in Members : sessions[i] \notin S}
  BY <1>1 DEF Members
<1>3. Playing' = {sessions'[i] : i \in Members'}
  BY DEF Playing
<1>4. \A i \in Members' : sessions'[i] = sessions[i]
  BY <1>1, <1>2 DEF Members
<1>5. QED
  BY <1>2, <1>3, <1>4 DEF Playing

\* The rest of the state the roster shows, unless a step touches the sessions.
LEMMA SamePlaying ==
  ASSUME UNCHANGED sessions
  PROVE  Playing' = Playing
BY DEF Playing, Members

\* What an event leaves of the players is what its letter says.
LEMMA HandleRoster ==
  ASSUME Membership, Addressed, NEW ev \in Events, ev = inbox[1], 1 \in DOMAIN inbox, Handle(ev)
  PROVE  Playing' \in Outcomes(LetterOf(ev))
<1>1. /\ ev.from \in Clients /\ ev.id \in 0 .. IdSpace
      /\ ev.kind \in {"join", "leave", "leaveSpectator", "input"}
      /\ Players \cap Watchers = {} /\ Clients = Players \cup Watchers /\ None \notin Clients
  BY RoomAssumption DEF Events, Clients
<1>2. Signed(ev) /\ MapsNumbered
  BY DEF Addressed, MailSigned
<1>3. Cardinality(Playing) \in Nat /\ Cardinality(Playing) = Cardinality(Members) /\ MaxPlayers \in Nat
  BY PlayingCounted, RoomAssumption
<1>4. CASE ev.kind = "join" /\ ev.from \in Players
  <2>1. LetterOf(ev) = [kind |-> "join", who |-> ev.from]
    BY <1>4 DEF LetterOf
  <2>2. CASE Full(ev.from)
    <3>1. Cardinality(Playing) >= MaxPlayers
      BY <1>4, <2>2, IdsSuffice
    <3>2. Refuse(ev.from)
      BY <1>4, <2>2 DEF Handle
    <3>3. Playing' = Playing
      BY <3>2, SamePlaying DEF Refuse, mapVars
    <3>4. QED
      BY <1>3, <2>1, <3>1, <3>3 DEF Outcomes
  <2>3. CASE ~Full(ev.from)
    <3>1. HandleJoin(ev.from)
      BY <1>1, <1>4, <2>3 DEF Handle
    <3>2. Cardinality(Playing) < MaxPlayers
      BY <1>3, <1>4, <2>3 DEF Full
    <3>4. PICK i \in Ids \ world : sessions' = [sessions EXCEPT ![i] = ev.from]
      BY <3>1 DEF HandleJoin
    <3>5. sessions \in [Ids -> Clients \cup {None}] /\ Members = world
      BY DEF Membership, TypeOK, SessionsMatchWorld
    <3>6. \A j \in Ids : sessions'[j] = IF j = i THEN ev.from ELSE sessions[j]
      BY <3>4, <3>5
    <3>7. Members' = Members \cup {i} /\ i \notin Members
      BY <1>1, <3>5, <3>6 DEF Members
    <3>8. Playing' = {sessions'[j] : j \in Members'}
      BY DEF Playing
    <3>9. \A j \in Members : sessions'[j] = sessions[j]
      BY <3>6, <3>7 DEF Members
    <3>10. Playing' = Playing \cup {ev.from}
      BY <3>6, <3>7, <3>8, <3>9 DEF Playing
    <3>11. QED
      BY <2>1, <3>2, <3>10 DEF Outcomes
  <2>4. QED
    BY <2>2, <2>3
<1>5. CASE ev.kind = "leave"
  <2>1. ev.from \in Players /\ ev.id = myId[ev.from]
    BY <1>2, <1>5 DEF Signed
  <2>2. LetterOf(ev) = [kind |-> "leave", who |-> ev.from]
    BY <1>5, <2>1 DEF LetterOf
  <2>3. Release(Lookup(sessions, ev.id)) /\ None \notin Lookup(sessions, ev.id)
    BY <1>5 DEF Handle, HandleLeave, Lookup
  <2>4. Playing' = Playing \ Lookup(sessions, ev.id)
    BY <2>3, ReleasePlaying
  <2>5. ev.from \in Playing => Lookup(sessions, ev.id) = {ev.from}
    <3>1. SUFFICES ASSUME NEW i \in Members, sessions[i] = ev.from
                   PROVE  Lookup(sessions, ev.id) = {ev.from}
      BY DEF Playing
    <3>2. i \in Ids /\ sessions[i] # None /\ i = ev.id
      BY <1>2, <2>1, <3>1 DEF Members, MapsNumbered
    <3>3. QED
      BY <3>1, <3>2 DEF Lookup
  <2>6. CASE Lookup(sessions, ev.id) \subseteq {ev.from}
    <3>1. Playing \ Lookup(sessions, ev.id) = Playing \ {ev.from}
      BY <2>5, <2>6
    <3>2. QED
      BY <2>2, <2>4, <3>1 DEF Outcomes
  <2>7. CASE ~ (Lookup(sessions, ev.id) \subseteq {ev.from})
    <3>1. PICK g : g \in Lookup(sessions, ev.id) /\ g # ev.from
      BY <2>7
    <3>2. Lookup(sessions, ev.id) = {g} /\ g \in Playing /\ g = sessions[ev.id] /\ g # None
      BY <3>1 DEF Lookup, Playing, Members
    <3>3. ev.from \notin Playing
      BY <2>5, <3>1, <3>2
    <3>4. drawn[ev.from] = IdSpace
      <4>1. MailNamesItsSender
        BY SenderNamed
      <4>2. ~ (drawn[ev.from] < IdSpace)
        BY <1>5, <3>1, <3>2, <4>1 DEF MailNamesItsSender
      <4>3. drawn[ev.from] \in 0 .. IdSpace /\ IdSpace \in Nat
        BY <1>1, RoomAssumption DEF Membership, TypeOK
      <4>4. QED
        BY <4>2, <4>3
    <3>5. ev.from \in Stale \ Playing
      BY <2>1, <3>3, <3>4 DEF Stale
    <3>6. Playing' = Playing \ {g}
      BY <2>4, <3>2
    <3>7. QED
      BY <2>2, <3>2, <3>5, <3>6 DEF Outcomes
  <2>8. QED
    BY <2>6, <2>7
<1>6. CASE ev.kind = "leaveSpectator"
  <2>1. LetterOf(ev) = [kind |-> "other"]
    BY <1>6 DEF LetterOf
  <2>2. Release(Lookup(spectators, ev.id)) /\ None \notin Lookup(spectators, ev.id)
    BY <1>6 DEF Handle, HandleLeave, Lookup
  <2>3. Playing' = Playing \ Lookup(spectators, ev.id)
    BY <2>2, ReleasePlaying
  <2>4. \A i, j \in Ids : sessions[i] # None => sessions[i] # spectators[j]
    BY DEF Membership, SessionsMatchWorld
  <2>5. Playing \cap Lookup(spectators, ev.id) = {}
    BY <2>4 DEF Playing, Members, Lookup
  <2>6. QED
    BY <2>1, <2>3, <2>5 DEF Outcomes
<1>7. CASE (ev.kind = "join" /\ ev.from \in Watchers) \/ ev.kind = "input"
  <2>1. LetterOf(ev) = [kind |-> "other"]
    BY <1>1, <1>7 DEF LetterOf
  <2>2. UNCHANGED sessions
    BY <1>1, <1>7 DEF Handle, Refuse, HandleSpectatorJoin, mapVars
  <2>3. QED
    BY <2>1, <2>2, SamePlaying DEF Outcomes
<1>8. QED
  BY <1>1, <1>4, <1>5, <1>6, <1>7

\* The roster counts as the room does.
LEMMA SameCount == \A S : Public!Cardinality(S) = Cardinality(S)
BY DEF Public!Cardinality, Cardinality

LEMMA AfterIs ==
  ASSUME NEW letter
  PROVE  Public!After(letter) = Outcomes(letter)
<1>1. PICK P, Q : P = Playing /\ Q = Stale
  OBVIOUS
<1>2. PICK n : n = Cardinality(P) /\ n = Public!Cardinality(P)
  BY SameCount
<1>3. Public!After(letter)
        = CASE letter.kind = "join" -> {IF n < MaxPlayers THEN P \cup {letter.who} ELSE P}
            [] letter.kind = "leave" ->
                 {P \ {letter.who}} \cup (IF letter.who \in Q \ P THEN {P \ {g} : g \in P} ELSE {})
            [] OTHER -> {P}
  BY <1>1, <1>2 DEF Public!After, Playing, Stale
<1>4. Outcomes(letter)
        = IF letter.kind = "join" THEN {IF n < MaxPlayers THEN P \cup {letter.who} ELSE P}
          ELSE IF letter.kind = "leave"
            THEN {P \ {letter.who}} \cup (IF letter.who \in Q \ P THEN {P \ {g} : g \in P} ELSE {})
          ELSE {P}
  BY <1>1, <1>2 DEF Outcomes
<1>5. CASE letter.kind = "join"
  <2>1. letter.kind # "leave"
    BY <1>5
  <2>2. QED
    BY <1>3, <1>4, <1>5, <2>1
<1>6. CASE letter.kind = "leave"
  <2>1. letter.kind # "join"
    BY <1>6
  <2>2. QED
    BY <1>3, <1>4, <1>6, <2>1
<1>7. CASE letter.kind # "join" /\ letter.kind # "leave"
  BY <1>3, <1>4, <1>7
<1>8. QED
  BY <1>5, <1>6, <1>7

LEMMA PartsOfClients == Players \in SUBSET Clients /\ Watchers \in SUBSET Clients
  BY DEF Clients

\* A player once stale remains so: what a step draws is only added.
LEMMA StaleGrows ==
  ASSUME Membership, Membership', \/ UNCHANGED drawn
                                  \/ \E P \in SUBSET Clients, k \in Nat : drawn' = Older(P, k)
  PROVE  Public!Age
<1>1. \A c \in Players : /\ drawn[c] \in 0 .. IdSpace /\ drawn'[c] \in 0 .. IdSpace
                         /\ drawn[c] <= drawn'[c]
  <2>1. Players \subseteq Clients /\ IdSpace \in Nat
    BY RoomAssumption DEF Clients
  <2>2. \A c \in Clients : drawn[c] \in 0 .. IdSpace /\ drawn'[c] \in 0 .. IdSpace
    BY DEF Membership, TypeOK
  <2>3. CASE UNCHANGED drawn
    BY <2>1, <2>2, <2>3
  <2>4. CASE \E P \in SUBSET Clients, k \in Nat : drawn' = Older(P, k)
    <3>1. PICK P \in SUBSET Clients, k \in Nat : drawn' = Older(P, k)
      BY <2>4
    <3>2. \A c \in Clients : drawn[c] <= drawn'[c]
      BY <3>1, OlderType DEF Membership
    <3>3. QED
      BY <2>1, <2>2, <3>2
  <2>5. QED
    BY <2>3, <2>4
<1>2. Stale \subseteq Stale' /\ Stale' \subseteq Players
  BY <1>1, RoomAssumption DEF Stale
<1>3. QED
  BY <1>2 DEF Public!Age, Stale

\* What the room shows of its players after a step.
LEMMA BecomeIs ==
  ASSUME NEW S, Playing' = S, SessionsMatchWorld'
  PROVE  Public!Become(S)
<1>1. players' = Cardinality(Playing')
  BY PlayingCounted
<1>2. players' = Public!Cardinality(S)
  BY <1>1, SameCount
<1>3. QED
  BY <1>2 DEF Public!Become, Playing

\* A handled event is a letter taken.
LEMMA DrainRoster ==
  ASSUME Membership, Addressed, Membership', Drain
  PROVE  Public!Take
<1>1. /\ inbox \in Seq(Events) /\ inbox # <<>> /\ inbox' = Tail(inbox) /\ Handle(Head(inbox))
      /\ roomPc = "drain" /\ roomPc' = "drain"
  BY DEF Drain, Membership, TypeOK
<1>2. PICK ev \in Events : ev = Head(inbox) /\ ev = inbox[1] /\ 1 \in DOMAIN inbox
  BY <1>1
<1>3. /\ Letters(inbox) # <<>> /\ Head(Letters(inbox)) = LetterOf(ev)
      /\ Letters(inbox') = Tail(Letters(inbox))
  BY <1>1, <1>2, LettersTaken
<1>4. PICK letter : letter = LetterOf(ev)
  OBVIOUS
<1>5. PICK S : S = Playing' /\ S \in Public!After(letter)
  <2>1. Playing' \in Outcomes(letter)
    BY <1>1, <1>2, <1>4, HandleRoster
  <2>2. QED
    BY <2>1, AfterIs
<1>6. Public!Become(S) /\ S \in Public!After(Head(Letters(inbox)))
  <2>1. Public!Become(S)
    BY <1>5, BecomeIs DEF Membership
  <2>2. QED
    BY <1>3, <1>4, <1>5, <2>1
<1>7. Public!Age
  <2>1. ASSUME NEW P \in SUBSET Clients, NEW from \in Ids, NEW to \in Ids, drawn' = Older(P, Draws(from, to))
        PROVE  Public!Age
    <3>1. PICK k \in Nat : k = Draws(from, to)
      BY <2>1, DrawsCount
    <3>2. QED
      BY <2>1, <3>1, StaleGrows
  <2>2. CASE ~Full(ev.from) /\ ev.from \in Players /\ HandleJoin(ev.from)
    <3>1. nextId \in Ids
      BY DEF Membership, TypeOK
    <3>2. \E i \in Ids : drawn' = Older(Players, Draws(nextId, i))
      BY <2>2 DEF HandleJoin
    <3>3. PICK P \in SUBSET Clients, from \in Ids, i \in Ids : drawn' = Older(P, Draws(from, i))
      BY <3>1, <3>2, PartsOfClients
    <3>4. QED
      BY <2>1, <3>3
  <2>3. CASE ~Full(ev.from) /\ ev.from \in Watchers /\ HandleSpectatorJoin(ev.from)
    <3>1. nextSpecId \in Ids /\ FirstFree(nextSpecId, Viewers) \in Ids
      <4>1. ev.from \notin Players
        BY <2>3, RoomAssumption
      <4>2. Ids \ Viewers # {}
        BY <2>3, <4>1 DEF Full, Viewers
      <4>3. QED
        BY <4>2, FirstFreeIsFree DEF Membership, TypeOK
    <3>2. drawn' = Older(Watchers, Draws(nextSpecId, FirstFree(nextSpecId, Viewers)))
      BY <2>3 DEF HandleSpectatorJoin
    <3>3. PICK P \in SUBSET Clients, from \in Ids, i \in Ids : drawn' = Older(P, Draws(from, i))
      BY <3>1, <3>2, PartsOfClients
    <3>4. QED
      BY <2>1, <3>3
  <2>4. CASE UNCHANGED drawn
    BY <2>4, StaleGrows
  <2>5. QED
    BY <1>1, <1>2, <2>2, <2>3, <2>4 DEF Handle, Refuse, HandleLeave, historyVars
<1>8. Letters(inbox) # <<>> /\ Letters(inbox)' = Tail(Letters(inbox))
  BY <1>3 DEF Letters
<1>9. (roomPc \notin {"shutdown", "stopped"}) /\ UNCHANGED (roomPc \notin {"shutdown", "stopped"})
  BY <1>1
<1>10. QED
  BY <1>6, <1>7, <1>8, <1>9 DEF Public!Take, Letters

\* The end of a tick drops guests, the shutdown closes the room.
LEMMA ReleaseRoster ==
  ASSUME Membership, Membership', NEW S \in SUBSET Registered, Release(S), UNCHANGED <<inbox, drawn>>
  PROVE  /\ (roomPc = "laggards" /\ roomPc' = "select") => Public!Drop
         /\ (roomPc = "select" /\ roomPc' = "shutdown" /\ S = Registered) => Public!Close
<1>1. Playing' = Playing \ S
  <2>1. None \notin S
    BY DEF Registered, Members, Viewers
  <2>2. QED
    BY <2>1, ReleasePlaying
<1>2. Letters(inbox)' = Letters(inbox) /\ Stale' = Stale
  BY DEF Letters, Stale
<1>3. ASSUME roomPc = "laggards", roomPc' = "select" PROVE Public!Drop
  <2>1. PICK T \in SUBSET Playing : Playing' = T
    BY <1>1
  <2>2. Public!Become(T)
    BY <2>1, BecomeIs DEF Membership
  <2>3. \E U \in SUBSET Playing : Public!Become(U)
    BY <2>1, <2>2
  <2>4. (roomPc \notin {"shutdown", "stopped"}) /\ UNCHANGED (roomPc \notin {"shutdown", "stopped"})
    BY <1>3
  <2>5. QED
    BY <1>2, <2>3, <2>4 DEF Public!Drop, Letters, Playing, Stale
<1>4. ASSUME roomPc = "select", roomPc' = "shutdown", S = Registered PROVE Public!Close
  <2>1. Playing' = {}
    BY <1>1, <1>4 DEF Playing, Registered
  <2>2. Public!Become({})
    BY <2>1, BecomeIs DEF Membership
  <2>3. (roomPc \notin {"shutdown", "stopped"}) /\ (roomPc \notin {"shutdown", "stopped"})' = FALSE
    BY <1>4
  <2>4. QED
    BY <1>2, <2>2, <2>3 DEF Public!Close, Letters, Stale
<1>5. QED
  BY <1>3, <1>4

\* A queued event is a letter posted.
LEMMA PostRoster ==
  ASSUME Membership, NEW ev \in Events, Len(inbox) < InboxSize, inbox' = Append(inbox, ev),
         UNCHANGED <<sessions, players, drawn, roomPc>>
  PROVE  Public!Post
<1>1. Letters(inbox') = Append(Letters(inbox), LetterOf(ev))
  BY LettersPosted DEF Membership, TypeOK
<1>2. Len(Letters(inbox)) = Len(inbox)
  BY DEF Letters, Membership, TypeOK
<1>3. LetterOf(ev) \in Public!Letter
  BY LetterOfEvent
<1>4. Playing' = Playing /\ Stale' = Stale
  BY SamePlaying DEF Stale
<1>5. QED
  BY <1>1, <1>2, <1>3, <1>4 DEF Public!Post, Letters, Playing, Stale

LEMMA InitRoster == Init => Public!Init
<1>1. ASSUME Init PROVE Letters(inbox) = <<>>
  BY <1>1 DEF Init, Letters
<1>2. ASSUME Init PROVE Playing = {}
  BY <1>2 DEF Init, Playing, Members
<1>3. ASSUME Init PROVE players = 0 /\ (roomPc \notin {"shutdown", "stopped"}) = TRUE
  BY <1>3 DEF Init
<1>4. ASSUME Init PROVE Stale = {}
  BY <1>4, RoomAssumption DEF Init, Stale, Clients
<1>5. QED
  BY <1>1, <1>2, <1>3, <1>4 DEF Public!Init, Letters, Playing, Stale

\* Every step is one of the roster, or does not show.
LEMMA NextRoster ==
  ASSUME Membership, Addressed, Membership', [Next]_vars
  PROVE  [Public!Next]_(Public!vars)
<1>1. ASSUME UNCHANGED <<sessions, inbox, players, drawn>>,
             roomPc' \in {"shutdown", "stopped"} <=> roomPc \in {"shutdown", "stopped"}
      PROVE  UNCHANGED Public!vars
  <2>1. Letters(inbox)' = Letters(inbox) /\ Playing' = Playing /\ Stale' = Stale
    BY <1>1, SamePlaying DEF Letters, Stale
  <2>2. UNCHANGED players /\ UNCHANGED (roomPc \notin {"shutdown", "stopped"})
    BY <1>1
  <2>3. QED
    BY <2>1, <2>2 DEF Public!vars, Letters, Playing, Stale
<1>2. ASSUME NEW c \in Clients, HandlerNext(c) PROVE [Public!Next]_(Public!vars)
  <2>1. UNCHANGED <<sessions, players, drawn, roomPc>>
    BY <1>2 DEF HandlerNext, CallJoin, PostJoin, JoinAnswered, JoinAbandoned, SendInput, ReadEnds,
                PostLeave, WriterTakes, WriterEnds, WriterFails, RunReturns, roomVars, mapVars,
                historyVars
  <2>2. ASSUME NEW kind \in {"join", "leave", "leaveSpectator", "input"}, NEW i \in 0 .. IdSpace,
               Post(kind, i, c)
        PROVE  Public!Post
    <3>1. PICK ev \in Events : ev = [kind |-> kind, id |-> i, from |-> c]
      BY DEF Events
    <3>2. Len(inbox) < InboxSize /\ inbox' = Append(inbox, ev)
      BY <2>2, <3>1 DEF Post
    <3>3. QED
      BY <2>1, <3>2, PostRoster
  <2>3. myId[c] \in 0 .. IdSpace /\ 0 \in 0 .. IdSpace
    BY RoomAssumption DEF Membership, TypeOK
  <2>4. CASE PostJoin(c)
    BY <2>2, <2>3, <2>4 DEF PostJoin, Public!Next
  <2>5. CASE SendInput(c)
    BY <2>2, <2>3, <2>5 DEF SendInput, Public!Next
  <2>6. CASE PostLeave(c)
    <3>1. CASE UNCHANGED inbox
      BY <1>1, <2>1, <3>1
    <3>2. CASE Post(IF c \in Watchers THEN "leaveSpectator" ELSE "leave", myId[c], c)
      <4>1. CASE c \in Watchers
        BY <2>2, <2>3, <3>2, <4>1 DEF Public!Next
      <4>2. CASE c \notin Watchers
        BY <2>2, <2>3, <3>2, <4>2 DEF Public!Next
      <4>3. QED
        BY <4>1, <4>2
    <3>3. QED
      BY <2>6, <3>1, <3>2 DEF PostLeave
  <2>7. CASE UNCHANGED inbox
    BY <1>1, <2>1, <2>7
  <2>8. QED
    BY <1>2, <2>4, <2>5, <2>6, <2>7
    DEF HandlerNext, CallJoin, JoinAnswered, JoinAbandoned, ReadEnds, WriterTakes, WriterEnds,
        WriterFails, RunReturns
<1>3. CASE Tick \/ Stop \/ Cancel \/ UNCHANGED vars
  <2>1. /\ UNCHANGED <<sessions, inbox, players, drawn>>
        /\ roomPc' \in {"shutdown", "stopped"} <=> roomPc \in {"shutdown", "stopped"}
    BY <1>3 DEF Tick, Stop, Cancel, vars, roomVars, mapVars, historyVars
  <2>2. QED
    BY <1>1, <2>1
<1>4. CASE Dispatch \/ AnnounceTopics \/ Snapshot
  <2>1. /\ UNCHANGED <<sessions, inbox, players, drawn>>
        /\ roomPc' \in {"shutdown", "stopped"} <=> roomPc \in {"shutdown", "stopped"}
    BY <1>4 DEF Dispatch, AnnounceTopics, Announce, Snapshot, mapVars, historyVars
  <2>2. QED
    BY <1>1, <2>1
<1>5. CASE Drain
  BY <1>5, DrainRoster DEF Public!Next
<1>6. CASE Step
  <2>1. /\ roomPc = "drain" /\ roomPc' = "dispatch" /\ UNCHANGED <<sessions, inbox, players>>
        /\ \E n \in 0 .. MaxShots : drawn' = Older(Players, n)
    BY <1>6 DEF Step
  <2>2. PICK P \in SUBSET Clients, n \in Nat : drawn' = Older(P, n)
    BY <2>1, PartsOfClients, RoomAssumption
  <2>3. Public!Age
    BY <2>2, StaleGrows
  <2>4. Letters(inbox)' = Letters(inbox) /\ Playing' = Playing
    BY <2>1, SamePlaying DEF Letters
  <2>5. (roomPc \notin {"shutdown", "stopped"}) /\ UNCHANGED (roomPc \notin {"shutdown", "stopped"})
    BY <2>1
  <2>6. Public!Pass
    BY <2>1, <2>3, <2>4, <2>5 DEF Public!Pass, Letters, Playing
  <2>7. QED
    BY <2>6 DEF Public!Next
<1>7. CASE DropLaggards
  <2>1. roomPc = "laggards" /\ roomPc' = "select" /\ UNCHANGED <<inbox, drawn>>
    BY <1>7 DEF DropLaggards, HandleLeave
  <2>2. PICK S \in SUBSET Registered : Release(S)
    <3>1. Release(Laggards)
      BY <1>7 DEF DropLaggards, HandleLeave
    <3>2. Laggards \in SUBSET Registered
      BY DEF Laggards
    <3>3. QED
      BY <3>1, <3>2
  <2>3. QED
    BY <2>1, <2>2, ReleaseRoster DEF Public!Next
<1>8. CASE Shutdown
  <2>1. /\ roomPc = "select" /\ roomPc' = "shutdown" /\ UNCHANGED <<inbox, drawn>>
        /\ Release(Registered)
    BY <1>8 DEF Shutdown, HandleLeave
  <2>2. QED
    BY <2>1, ReleaseRoster DEF Public!Next
<1>9. QED
  BY <1>2, <1>3, <1>4, <1>5, <1>6, <1>7, <1>8 DEF Next, RoomNext

\* The room implements the roster: seen through its mail, its players, the count
\* it publishes and whether it is open, every step of the room, the sessions and
\* the handlers is a letter posted, a letter taken with exactly the effect that
\* it asks for (or, the late leave of a player whose id has been drawn round, an
\* effect on the one who has that id), a removal of laggards, the shutdown, or
\* nothing (drainInbox, handle, removeSession, shutdown).
THEOREM RoomKeepsRoster == Spec => KeepsRoster
<1>1. Init => Membership /\ Addressed /\ Public!Init
  BY InitMembership, InitAddressed, InitRoster
<1>2. Membership /\ Addressed /\ [Next]_vars => (Membership /\ Addressed)'
  BY NextMembership, NextAddressed
<1>3. Membership /\ Addressed /\ (Membership /\ Addressed)' /\ [Next]_vars
        => [Public!Next]_(Public!vars)
  BY NextRoster
<1>4. QED
  BY <1>1, <1>2, <1>3, PTL DEF Spec, KeepsRoster, Public!Spec
=============================================================================
