-------------------------------- MODULE Lobby --------------------------------
(***************************************************************************)
(* What surrounds the rooms: the gate and the gateway that let connections *)
(* in (cmd/server, internal/ratelimit), the hub that finds them a room     *)
(* (internal/hub), the filler that keeps inhabited rooms populated with    *)
(* bots (internal/botfill), the persister that is handed what happened     *)
(* (internal/persist), and the order in which all of it stops.             *)
(*                                                                         *)
(* A client is a human connection or a bot of the filler; both join a room *)
(* through its inbox and run a session there.  Room.tla is the detailed    *)
(* room: here it is its inbox, the set of its members, and whether it      *)
(* runs.  A session ends because the client goes, because the room drops   *)
(* it, or with the server; its Run posts a leave and may return before the *)
(* room has handled it (a failed write ends the write pump as well as the  *)
(* room's close of the queues does).  A connection is made once.           *)
(***************************************************************************)
EXTENDS Integers, FiniteSets, Sequences, SequencesExt

CONSTANTS
    Human,          \* game connections
    Bot,            \* bound of the model: bots alive at a time; a name is taken again
    Address,        \* the client addresses, as ClientKey sees them
    AddressOf,      \* the address of every human
    MaxPerIP,       \* ARENA_JOIN_MAX_PER_IP
    MaxRooms, MaxPlayers,
    InboxSize, PersistBuffer,
    Scenario        \* bound of the model: the humans that come, the filler's target and its
                    \* supply of bots, how many sessions are dropped, how many kills there
                    \* are, whether the server stops

ASSUME LobbyAssumption ==
    /\ IsFiniteSet(Human) /\ Human \intersect Bot = {} /\ Bot \subseteq Nat \ {0}
    /\ AddressOf \in [Human -> Address]
    /\ {MaxPerIP, MaxRooms, MaxPlayers, InboxSize, PersistBuffer} \subseteq Nat \ {0}

VARIABLES
    scenario,   \* bounds of this behaviour
    rooms,      \* Hub.rooms in order: "running" or "stopped"
    inbox,      \* what each room has been posted and has not handled
    members,    \* the clients a room counts as players
    pc,         \* where the goroutine of a client is
    room,       \* the room a client has been sent to; 0: none
    slots,      \* ConnLimiter.count
    fill,       \* the reconcile loop: its step, the room, and its locals
    tracked,    \* Filler.bots: the bots of a room, in the order they came
    stopping,   \* the bots the filler has asked to go
    main,       \* how far the shutdown has come; "serving" before the signal
    queue,      \* the number of messages in the persist channel
    persister,  \* "running" or "done"
    waited,     \* history: the rooms there were when main had waited for them
    panicked    \* history: the rooms that sent to the closed channel

clientVars == <<pc, room, slots>>
roomVars == <<rooms, inbox, members>>
fillVars == <<fill, tracked, stopping>>
stopVars == <<main, queue, persister, waited, panicked>>
vars == <<scenario, clientVars, roomVars, fillVars, stopVars>>

Client == Human \union Bot
RoomNumber == 1 .. MaxRooms
Started == DOMAIN rooms
Runs(r) == rooms[r] = "running"
Up == main \notin {"exit", "late"}     \* a process that has exited does nothing
Cancelled == main # "serving"   \* the base context is cancelled by the signal
Closed == main \in {"drain", "exit", "late"}   \* the persist channel is closed

Posted(r, kind, who) == [inbox EXCEPT ![r] = Append(@, [kind |-> kind, who |-> who])]
RoomForEvent(r) == Runs(r) /\ Len(inbox[r]) < InboxSize
GivesUp(r) == Cancelled \/ ~Runs(r)    \* post and Join return an error

-----------------------------------------------------------------------------
(* The gate and the gateway. *)

InProgress(h) == pc[h] \notin {"off", "gone"}

BadAcquire(h) ==   \* mutant: a refused connection takes a slot, too
    /\ slots' = [slots EXCEPT ![AddressOf[h]] = @ + 1]
    /\ pc' = [pc EXCEPT ![h] = IF slots[AddressOf[h]] < MaxPerIP THEN "handshake" ELSE "gone"]

(* joinGate up to the handler behind it.  The rate limit refuses a         *)
(* connection as the full address does; nothing else depends on it. *)
Acquire(h) ==
    IF slots[AddressOf[h]] < MaxPerIP
      THEN /\ slots' = [slots EXCEPT ![AddressOf[h]] = @ + 1]
           /\ pc' = [pc EXCEPT ![h] = "handshake"]
      ELSE /\ pc' = [pc EXCEPT ![h] = "gone"]
           /\ UNCHANGED slots

Connect(h) ==
    /\ Up /\ ~Cancelled
    /\ h \in scenario.humans /\ pc[h] = "off"
    /\ Acquire(h)
    /\ UNCHANGED <<scenario, room, roomVars, fillVars, stopVars>>

(* The Join does not come in time or at all, or the account is banned. *)
HandshakeFails(h) ==
    /\ Up /\ pc[h] = "handshake"
    /\ pc' = [pc EXCEPT ![h] = "refused"]
    /\ UNCHANGED <<scenario, room, slots, roomVars, fillVars, stopVars>>

(* Hub.Assign: the first room whose published count is below the limit, or *)
(* a new one; main never sets Hub.closed. *)
WithPlace == {r \in Started : Cardinality(members[r]) < MaxPlayers}
Assign(h) ==
    /\ Up /\ pc[h] = "handshake"
    /\ CASE WithPlace # {} ->
              /\ room' = [room EXCEPT ![h] = CHOOSE r \in WithPlace : \A s \in WithPlace : r <= s]
              /\ pc' = [pc EXCEPT ![h] = "assigned"]
              /\ UNCHANGED rooms
         [] WithPlace = {} /\ Len(rooms) < MaxRooms ->
              /\ rooms' = Append(rooms, "running")
              /\ room' = [room EXCEPT ![h] = Len(rooms) + 1]
              /\ pc' = [pc EXCEPT ![h] = "assigned"]
         [] OTHER ->
              /\ pc' = [pc EXCEPT ![h] = "refused"]
              /\ UNCHANGED <<room, rooms>>
    /\ UNCHANGED <<scenario, slots, inbox, members, fillVars, stopVars>>

PostJoin(h) ==
    /\ Up /\ pc[h] = "assigned"
    /\ \/ RoomForEvent(room[h])
          /\ inbox' = Posted(room[h], "join", h)
          /\ pc' = [pc EXCEPT ![h] = "joining"]
       \/ GivesUp(room[h])
          /\ pc' = [pc EXCEPT ![h] = "refused"]
          /\ UNCHANGED inbox
    /\ UNCHANGED <<scenario, room, slots, rooms, members, fillVars, stopVars>>

(* Join returns for the cancelled context or the stopped room, and leaves  *)
(* its event behind. *)
AbandonJoin(h) ==
    /\ Up /\ pc[h] = "joining" /\ GivesUp(room[h])
    /\ pc' = [pc EXCEPT ![h] = "refused"]
    /\ UNCHANGED <<scenario, room, slots, roomVars, fillVars, stopVars>>

(* ServeHTTP returns, whatever became of the connection, the Run of its    *)
(* session included. *)
Release(h) ==
    /\ Up /\ pc[h] \in {"refused", "left"}
    /\ pc' = [pc EXCEPT ![h] = "gone"]
    /\ slots' = [slots EXCEPT ![AddressOf[h]] = @ - 1]
    /\ UNCHANGED <<scenario, room, roomVars, fillVars, stopVars>>

-----------------------------------------------------------------------------
(* A session of either kind of client. *)

Disconnect(h) ==
    /\ Up /\ pc[h] = "running"
    /\ pc' = [pc EXCEPT ![h] = "leaving"]
    /\ UNCHANGED <<scenario, room, slots, roomVars, fillVars, stopVars>>

(* The room has closed its queues, the filler its end of the pipe, or the  *)
(* context is cancelled. *)
SessionEnds(c) ==
    /\ Up /\ pc[c] = "running"
    /\ c \notin members[room[c]] \/ c \in stopping \/ Cancelled
    /\ pc' = [pc EXCEPT ![c] = "leaving"]
    /\ UNCHANGED <<scenario, room, slots, roomVars, fillVars, stopVars>>

PostLeave(c) ==
    /\ Up /\ pc[c] = "leaving"
    /\ \/ RoomForEvent(room[c]) /\ inbox' = Posted(room[c], "leave", c)
       \/ GivesUp(room[c]) /\ UNCHANGED inbox
    /\ pc' = [pc EXCEPT ![c] = "left"]
    /\ UNCHANGED <<scenario, room, slots, rooms, members, fillVars, stopVars>>

(* A bot's Run returns and its done is closed. *)
RunReturns(b) ==
    /\ Up /\ pc[b] = "left"
    /\ pc' = [pc EXCEPT ![b] = "returned"]
    /\ UNCHANGED <<scenario, room, slots, roomVars, fillVars, stopVars>>

-----------------------------------------------------------------------------
(* A room.  Its select is a race once the context is cancelled. *)

BadAdmits(r, c) == Cardinality(members[r]) <= MaxPlayers   \* mutant: one too many
Admits(r, c) == Cardinality(members[r]) < MaxPlayers
Answer(c, result) == IF pc[c] = "joining" THEN [pc EXCEPT ![c] = result] ELSE pc

Handle(r) ==
    /\ Up /\ Runs(r) /\ inbox[r] # << >>
    /\ LET ev == Head(inbox[r]) IN
         \/ /\ ev.kind = "join" /\ Admits(r, ev.who)
            /\ members' = [members EXCEPT ![r] = @ \union {ev.who}]
            /\ pc' = Answer(ev.who, "running")
            /\ UNCHANGED fill
         \/ /\ ev.kind = "join" /\ ~Admits(r, ev.who)
            /\ pc' = Answer(ev.who, "refused")
            /\ UNCHANGED <<members, fill>>
         \/ /\ ev.kind = "leave"
            /\ members' = [members EXCEPT ![r] = @ \ {ev.who}]
            /\ UNCHANGED <<pc, fill>>
         \/ /\ ev.kind = "state"
            /\ fill' = IF fill.at = "state" THEN [fill EXCEPT !.at = "count"] ELSE fill
            /\ UNCHANGED <<pc, members>>
    /\ inbox' = [inbox EXCEPT ![r] = Tail(@)]
    /\ UNCHANGED <<scenario, room, slots, rooms, tracked, stopping, stopVars>>

(* dropLaggards. *)
Drop(r, c) ==
    /\ Up /\ Runs(r) /\ c \in members[r] /\ scenario.drops > 0
    /\ members' = [members EXCEPT ![r] = @ \ {c}]
    /\ scenario' = [scenario EXCEPT !.drops = @ - 1]
    /\ UNCHANGED <<rooms, inbox, clientVars, fillVars, stopVars>>

(* sendPersist, for a kill: it never waits, and a full channel loses it. *)
SendPersist(r) ==
    /\ Up /\ Runs(r) /\ scenario.kills > 0 /\ Cardinality(members[r]) > 1
    /\ members[r] \intersect Human # {}   \* bots are guests
    /\ scenario' = [scenario EXCEPT !.kills = @ - 1]
    /\ IF Closed
         THEN panicked' = panicked \union {r} /\ UNCHANGED queue
         ELSE queue' = Min({queue + 1, PersistBuffer}) /\ UNCHANGED panicked
    /\ UNCHANGED <<clientVars, roomVars, fillVars, main, persister, waited>>

StopRoom(r) ==
    /\ Up /\ Runs(r) /\ Cancelled
    /\ rooms' = [rooms EXCEPT ![r] = "stopped"]
    /\ members' = [members EXCEPT ![r] = {}]
    /\ UNCHANGED <<scenario, inbox, clientVars, fillVars, stopVars>>

-----------------------------------------------------------------------------
(* The filler. *)

(* How many bots a room is to have, of its players and the bots among them. *)
TargetBots(players, bots) ==
    LET humans == players - bots
    IN  IF humans <= 0 \/ scenario.target <= 0 THEN 0
        ELSE Max({Min({scenario.target - humans, MaxPlayers - humans}), 0})

Returned(b) == pc[b] = "returned"    \* botHandle.done is closed
Fill(at, r, last) == [at |-> at, room |-> r, last |-> last, keep |-> 0, want |-> 0, bot |-> 0]
Sleeping == Fill("sleep", 0, 0)
NextRoom == IF fill.room < fill.last THEN Fill("room", fill.room + 1, fill.last) ELSE Sleeping

(* reconcile, on a tick: the rooms are those of now. *)
Reconcile ==
    /\ Up /\ fill.at = "sleep" /\ scenario.target > 0 /\ rooms # << >>
    /\ fill' = Fill("room", 1, Len(rooms))
    /\ UNCHANGED <<scenario, clientVars, roomVars, tracked, stopping, stopVars>>

Live(r) ==   \* the bots that are still in the list once the returned are forgotten
    FoldLeft(LAMBDA live, b : IF Returned(b) THEN live ELSE Append(live, b), << >>, tracked[r])

BadForgetReturned(r) ==   \* mutant: without the State that waits for their leaves
    /\ tracked' = [tracked EXCEPT ![r] = Live(r)]
    /\ fill' = [fill EXCEPT !.at = "count"]

BadForgetDone(r) ==   \* mutant: the returned bots stay in the list
    /\ UNCHANGED tracked
    /\ fill' = [fill EXCEPT !.at = IF \E b \in Range(tracked[r]) : Returned(b)
                                     THEN "ask" ELSE "count"]

(* reconcileRoom forgets the bots whose sessions have returned, after a    *)
(* State if there are any: their leaves are in the inbox before it. *)
ForgetReturned(r) ==
    /\ tracked' = [tracked EXCEPT ![r] = Live(r)]
    /\ fill' = [fill EXCEPT !.at = IF \E b \in Range(tracked[r]) : Returned(b)
                                     THEN "ask" ELSE "count"]

VisitRoom ==
    /\ Up /\ fill.at = "room"
    /\ ForgetReturned(fill.room)
    /\ stopping' = {b \in stopping : ~Returned(b)}
    /\ UNCHANGED <<scenario, clientVars, roomVars, stopVars>>

(* Room.State: its error is not looked at. *)
AskState ==
    /\ Up
    /\ \/ fill.at = "ask" /\ RoomForEvent(fill.room)
          /\ inbox' = Posted(fill.room, "state", 0)
          /\ fill' = [fill EXCEPT !.at = "state"]
       \/ fill.at \in {"ask", "state"} /\ GivesUp(fill.room)
          /\ fill' = [fill EXCEPT !.at = "count"]
          /\ UNCHANGED inbox
    /\ UNCHANGED <<scenario, clientVars, rooms, members, tracked, stopping, stopVars>>

Count ==
    /\ Up /\ fill.at = "count"
    /\ LET bots == tracked[fill.room] IN
       fill' = [fill EXCEPT !.at = "adjust",
                            !.want = TargetBots(Cardinality(members[fill.room]), Len(bots)),
                            !.keep = Cardinality(Range(bots) \ stopping)]
    /\ UNCHANGED <<scenario, clientVars, roomVars, tracked, stopping, stopVars>>

(* addBot up to the posted join. *)
Unused(b) ==   \* bound of the model: when a name is free again
    /\ b <= scenario.bots /\ pc[b] \in {"off", "refused", "returned"}
    /\ \A r \in Started : /\ b \notin Range(tracked[r]) \union members[r]
                          /\ \A k \in DOMAIN inbox[r] : inbox[r][k].who # b
AddBot ==
    /\ Up /\ fill.at = "adjust" /\ fill.keep < fill.want
    /\ \/ /\ RoomForEvent(fill.room)
          /\ \E b \in Bot :
               /\ Unused(b) /\ \A a \in Bot : Unused(a) => b <= a
               /\ inbox' = Posted(fill.room, "join", b)
               /\ pc' = [pc EXCEPT ![b] = "joining"]
               /\ room' = [room EXCEPT ![b] = fill.room]
               /\ fill' = [fill EXCEPT !.at = "join", !.bot = b]
       \/ GivesUp(fill.room) /\ fill' = NextRoom /\ UNCHANGED <<inbox, pc, room>>
    /\ UNCHANGED <<scenario, slots, rooms, members, tracked, stopping, stopVars>>

(* Join and Attach of the bot return.  The JoinAck is the first message of *)
(* its queue (Session.tla).  Attach fails with the cancelled context or    *)
(* the stopped room, which end the session started for the bot too, and if *)
(* the room drops the bot so early that Attach meets the closed pipe: such *)
(* a bot is not among the filler's. *)
ClosedEarly(b) == pc[b] \in {"left", "returned"} /\ b \notin members[room[b]]
BotJoined ==
    /\ Up /\ fill.at = "join"
    /\ \/ /\ pc[fill.bot] \notin {"joining", "refused"}
          /\ tracked' = [tracked EXCEPT ![fill.room] = Append(@, fill.bot)]
          /\ fill' = [fill EXCEPT !.at = "adjust", !.keep = @ + 1, !.bot = 0]
          /\ UNCHANGED pc
       \/ /\ pc[fill.bot] = "refused" \/ GivesUp(fill.room) \/ ClosedEarly(fill.bot)
          /\ fill' = NextRoom
          /\ pc' = IF pc[fill.bot] = "joining" THEN [pc EXCEPT ![fill.bot] = "refused"] ELSE pc
          /\ UNCHANGED tracked
    /\ UNCHANGED <<scenario, room, slots, roomVars, stopping, stopVars>>

(* stopNewest closes the client's end of the pipe and no more: a context   *)
(* cancelled here could keep the leave from being posted. *)
StopNewest ==
    /\ Up /\ fill.at = "adjust" /\ fill.keep > fill.want
    /\ LET kept == SelectSeq(tracked[fill.room], LAMBDA b : b \notin stopping)
       IN stopping' = stopping \union {Last(kept)}
    /\ fill' = [fill EXCEPT !.keep = @ - 1]
    /\ UNCHANGED <<scenario, clientVars, roomVars, tracked, stopVars>>

Adjusted ==
    /\ Up /\ fill.at = "adjust" /\ fill.keep = fill.want
    /\ fill' = NextRoom
    /\ UNCHANGED <<scenario, clientVars, roomVars, tracked, stopping, stopVars>>

(* The loop of Run notices the cancelled context between two ticks; with   *)
(* no target it has not begun. *)
BadFillerStops ==   \* mutant: the loop waits for its room to empty before it looks at the context
    /\ Up /\ fill.at = "sleep" /\ ((Cancelled /\ rooms = << >>) \/ scenario.target = 0)
    /\ fill' = [Sleeping EXCEPT !.at = "stopped"]
    /\ UNCHANGED <<scenario, clientVars, roomVars, tracked, stopping, stopVars>>

FillerStops ==
    /\ Up /\ fill.at = "sleep" /\ (Cancelled \/ scenario.target = 0)
    /\ fill' = [Sleeping EXCEPT !.at = "stopped"]
    /\ UNCHANGED <<scenario, clientVars, roomVars, tracked, stopping, stopVars>>

-----------------------------------------------------------------------------
(* The persister and the shutdown. *)

BadPersist ==   \* mutant: the persister ends with the channel, not with its last message
    /\ Up /\ persister = "running"
    /\ \/ queue > 0 /\ queue' = queue - 1 /\ UNCHANGED persister
       \/ Closed /\ persister' = "done" /\ UNCHANGED queue
    /\ UNCHANGED <<scenario, clientVars, roomVars, fillVars, main, waited, panicked>>

Persist ==
    /\ Up /\ persister = "running"
    /\ \/ queue > 0 /\ queue' = queue - 1 /\ UNCHANGED persister
       \/ queue = 0 /\ Closed /\ persister' = "done" /\ UNCHANGED queue
    /\ UNCHANGED <<scenario, clientVars, roomVars, fillVars, main, waited, panicked>>

Goto(from, to) == main = from /\ main' = to

Signal ==
    /\ scenario.stops /\ Goto("serving", "http")
    /\ UNCHANGED <<scenario, clientVars, roomVars, fillVars, queue, persister, waited, panicked>>

(* Server.Shutdown knows nothing of the connections that were hijacked for *)
(* a WebSocket: it returns with their handlers where they are. *)
ShutHttp ==
    /\ Goto("http", "rooms")
    /\ UNCHANGED <<scenario, clientVars, roomVars, fillVars, queue, persister, waited, panicked>>

BadRoomsStopped == TRUE   \* mutant: main does not wait for the rooms
RoomsStopped == \A r \in Started : ~Runs(r)   \* Hub.Wait returns
WaitRooms ==
    /\ Goto("rooms", "filler") /\ RoomsStopped
    /\ waited' = Started
    /\ UNCHANGED <<scenario, clientVars, roomVars, fillVars, queue, persister, panicked>>

(* fillerDone, then Filler.Wait, then the channel is closed. *)
WaitFiller ==
    /\ Goto("filler", "drain")
    /\ fill.at = "stopped"
    /\ \A b \in Bot : pc[b] \in {"off", "refused", "returned"}
    /\ UNCHANGED <<scenario, clientVars, roomVars, fillVars, queue, persister, waited, panicked>>

Exit ==
    /\ Goto("drain", "exit") /\ persister = "done"
    /\ UNCHANGED <<scenario, clientVars, roomVars, fillVars, queue, persister, waited, panicked>>

(* The grace of the shutdown ends before the persister has. *)
ExitLate ==
    /\ Goto("drain", "late")
    /\ UNCHANGED <<scenario, clientVars, roomVars, fillVars, queue, persister, waited, panicked>>

-----------------------------------------------------------------------------
Init ==
    /\ scenario \in Scenario
    /\ rooms = << >>
    /\ inbox = [r \in RoomNumber |-> << >>]
    /\ members = [r \in RoomNumber |-> {}]
    /\ pc = [c \in Client |-> "off"]
    /\ room = [c \in Client |-> 0]
    /\ slots = [a \in Address |-> 0]
    /\ fill = Sleeping
    /\ tracked = [r \in RoomNumber |-> << >>]
    /\ stopping = {}
    /\ main = "serving" /\ persister = "running"
    /\ queue = 0
    /\ waited = {} /\ panicked = {}

Handler(h) == HandshakeFails(h) \/ Assign(h) \/ PostJoin(h) \/ AbandonJoin(h) \/ Release(h)
Session(c) == SessionEnds(c) \/ PostLeave(c) \/ (c \in Bot /\ RunReturns(c))
FillerStep ==
    Reconcile \/ VisitRoom \/ AskState \/ Count \/ AddBot \/ BotJoined \/ StopNewest
    \/ Adjusted \/ FillerStops
MainStep == ShutHttp \/ WaitRooms \/ WaitFiller \/ Exit

Next ==
    \/ \E h \in Human : Connect(h) \/ Handler(h) \/ Disconnect(h)
    \/ \E c \in Client : Session(c)
    \/ \E r \in Started :
         \/ Handle(r) \/ SendPersist(r) \/ StopRoom(r)
         \/ \E c \in Client : Drop(r, c)
    \/ FillerStep
    \/ Persist
    \/ Signal \/ MainStep \/ ExitLate

Spec == Init /\ [][Next]_vars

(* Goroutines that can go on do, a handshake ends (joinTimeout), a room's  *)
(* ticker fires and it notices the context, and the store answers or times *)
(* out; a select that finds the context cancelled again and again takes    *)
(* that case in the end (FillerStops).  A blocked channel send would be    *)
(* served in order; that much is not assumed.  Nobody has to connect, to   *)
(* leave or to send the signal. *)
Fairness ==
    /\ \A h \in Human : WF_vars(Handler(h))
    /\ \A c \in Client : WF_vars(Session(c))
    /\ \A r \in RoomNumber :
         WF_vars(r \in Started /\ Handle(r)) /\ WF_vars(r \in Started /\ StopRoom(r))
    /\ WF_vars(FillerStep) /\ SF_vars(FillerStops) /\ WF_vars(Persist) /\ WF_vars(MainStep)
FairSpec == Spec /\ Fairness

-----------------------------------------------------------------------------
Pc == {"off", "handshake", "assigned", "joining", "running", "leaving", "left",
       "returned", "refused", "gone"}

WithinLimits ==
    /\ Len(rooms) <= MaxRooms
    /\ \A r \in RoomNumber : /\ Len(inbox[r]) <= InboxSize
                            /\ Cardinality(members[r]) <= MaxPlayers

(* No room holds more players than MaxPlayers and no hub more rooms than   *)
(* MaxRooms, though Assign sends several clients to the same last place;   *)
(* a bot is in the list of one room once, and only the room it was sent to *)
(* counts a client. *)
TypeOK ==
    /\ WithinLimits
    /\ \A r \in RoomNumber :
         /\ members[r] \subseteq {c \in Client : room[c] = r}
         /\ Cardinality(Range(tracked[r])) = Len(tracked[r])
         /\ Range(tracked[r]) \subseteq {b \in Bot : room[b] = r}
    /\ pc \in [Client -> Pc]
    /\ queue <= PersistBuffer

(* The count of an address is the number of its connections that are being *)
(* served, and never above the limit: each way a handler ends gives the    *)
(* slot back once, and a refused connection takes none (joinGate). *)
SlotsMatchConnections ==
    \A a \in Address :
       /\ slots[a] = Cardinality({h \in Human : AddressOf[h] = a /\ InProgress(h)})
       /\ slots[a] <= MaxPerIP

(* The filler wants bots in a room only if a human is in it: bots whose    *)
(* sessions have returned and whose leaves the room has not handled are    *)
(* never taken for humans (the State of reconcileRoom). *)
NoPhantomHumans ==
    [][~Cancelled /\ fill.at = "count" /\ fill'.want > 0 =>
          members[fill.room] \intersect Human # {}]_fill

(* If in the end no tick of the filler comes while one of its bots is on   *)
(* its way out, every room has for good as many bots as its humans call    *)
(* for, even if bots were dropped as too slow, were counted while they     *)
(* left, or found the room full.  (Without OnTime the filler may go on     *)
(* adding and stopping bots: a bot that has left and not returned makes it *)
(* count too few humans.)  Here every human stays or leaves once, so in    *)
(* the end they are still. *)
Balanced(r) ==
    Cardinality(members[r] \intersect Bot)
      = TargetBots(Cardinality(members[r]), Cardinality(members[r] \intersect Bot))
OnTime ==
    fill.at = "sleep" /\ fill'.at = "room" =>
      \A b \in Bot : pc[b] \notin {"leaving", "left"} /\ (b \in stopping => Returned(b))
FillerConverges ==
    <>[][OnTime]_fill => <>[](Cancelled \/ \A r \in Started : Balanced(r))

(* When the server exits within its grace, all the persister was handed is *)
(* written, and no room that main has waited for sends to the closed       *)
(* channel (shutdown). *)
NothingLost ==
    /\ main = "exit" => queue = 0
    /\ panicked \intersect waited = {}

(* After the signal the server exits: no room, bot, join or State keeps    *)
(* main waiting (Hub.Wait, fillerDone, Filler.Wait). *)
ServerStops == Cancelled ~> ~Up

=============================================================================
