-------------------------------- MODULE Room --------------------------------
(***************************************************************************)
(* The room of internal/game/room.go: one goroutine that owns the world,   *)
(* an inbox through which every connection handler talks to it, and the    *)
(* outgoing queues of the sessions it has admitted.                        *)
(*                                                                         *)
(* Each member of Players and Watchers is one connection handler: it calls *)
(* Room.Join once, runs Session.Run on the session it gets and returns.    *)
(* A tick of the room is a sequence of steps: the events of the inbox, the *)
(* World.Step, each of the events it reports, each of the four topics, the *)
(* snapshots and dropLaggards.  Other goroutines run between any two.  One *)
(* step adds at most one message to a queue, so the order in which it goes *)
(* through the sessions does not show.                                     *)
(*                                                                         *)
(* Abstractions.  The world is the set of the ids of its players.  Its     *)
(* projectiles draw ids from the same counter.  A Step reports any events  *)
(* of StepEvents, MaxEvents at the most, changes the phase of the match or *)
(* not and marks some topics as changed (Arena.tla says how).  A queue is  *)
(* its length: the room never looks at what it has queued.  The four state *)
(* messages a client must be kept up to date with are the Topics.          *)
(*                                                                         *)
(* An operator Bad... is a faulty variant of the operator it stands before *)
(* that makes the property in parentheses fail; no action uses it.         *)
(***************************************************************************)
EXTENDS Integers, Sequences, FiniteSets

CONSTANTS
  Players,       \* handlers that join to play
  Watchers,      \* handlers that join as spectators
  None,          \* the nil session
  IdSpace,       \* the ids of the world, and of the spectators, are 1..IdSpace
  MaxPlayers,    \* Config.MaxPlayers
  InboxSize,     \* Config.InboxSize
  ReliableSize,  \* reliableQueueSize
  SessionQueue,  \* Config.SessionQueue
  MaxBacklog,    \* Config.MaxBacklog
  SnapshotRate,  \* Config.SnapshotRate
  TickRate,      \* Config.TickRate
  CtfMode,       \* Config.CtfMode
  MaxEvents,     \* how many events one World.Step may report in the model
  MaxShots,      \* how many ids its projectiles may draw in the model
  StepEvents,    \* the kinds of those events
  StepMarks      \* the sets of topics one World.Step may mark in the model

Clients == Players \cup Watchers
Ids == 1 .. IdSpace
Topics == {"match", "pickups", "weapons", "flags"}
EventKinds == {"hit", "death", "spawn", "killstreak", "capture"}

\* The configuration is one withDefaults leaves alone, and MaxPlayers (64) does
\* not exceed the ids there are (2^16 - 1, of which 128 projectiles hold some).
ASSUME RoomAssumption ==
  /\ None \notin Clients
  /\ Players \cap Watchers = {}
  /\ IsFiniteSet(Clients)
  /\ IdSpace \in Nat \ {0}
  /\ MaxPlayers \in 1 .. IdSpace
  /\ InboxSize \in Nat \ {0}
  /\ ReliableSize \in Nat \ {0}
  /\ SessionQueue \in Nat \ {0}
  /\ MaxBacklog \in Nat \ {0}
  /\ TickRate \in Nat \ {0} /\ SnapshotRate \in 1 .. TickRate
  /\ CtfMode \in BOOLEAN
  /\ MaxEvents \in Nat /\ MaxShots \in 0 .. IdSpace
  /\ StepEvents \subseteq EventKinds
  /\ StepMarks \subseteq SUBSET {"pickups", "weapons", "flags"}

VARIABLES
  \* --- the goroutine of the room
  roomPc,      \* what it does next: one of RoomPcs
  budget,      \* iterations left to drainInbox, events left to dispatchEvents
  sessions,    \* id -> the player's handler, or None
  spectators,  \* spectator key -> the watcher's handler, or None
  nextId,      \* World.nextID
  nextSpecId,  \* Room.nextSpecID
  world,       \* the ids in World.players
  dirty,       \* the topics whose ...Dirty flag of the room is set
  accum,       \* rateDivider.accum
  \* --- what other goroutines read
  inbox,       \* Room.inbox
  players,     \* the atomic player count
  closed,      \* Room.done is closed
  cancelled,   \* the server's base context is cancelled
  \* --- a session, by its handler
  reliable,    \* messages queued on the reliable channel
  snapshots,   \* messages queued on the snapshot channel
  queues,      \* "none" before Join, then "open", then "closed"
  backlog,     \* Session.backlog
  kick,        \* Session.kick
  \* --- the handler's goroutines
  handler,     \* where the handler is
  writer,      \* its write pump: "off", "on", "done"
  reply,       \* joinReq.reply
  myId,        \* Session.id
  \* --- history
  owed,        \* topics whose present value was not queued for this handler
  missed,      \* a reliable message for this handler was refused by its queue
  drawn        \* ids drawn since this handler's, up to the whole space

mapVars == <<sessions, spectators, nextId, nextSpecId, world, players>>
sessionVars == <<reliable, snapshots, queues, backlog, kick>>
handlerVars == <<handler, writer, reply, myId>>
historyVars == <<owed, missed, drawn>>
roomVars == <<roomPc, budget, mapVars, dirty, accum>>
vars == <<roomVars, inbox, closed, cancelled, sessionVars, handlerVars, historyVars>>

RoomPcs == {"select", "drain", "dispatch", "pickups", "weapons", "flags", "snapshot",
            "laggards", "shutdown", "stopped"}
HandlerPcs == {"start", "posting", "waiting", "running", "leaving",
               "draining", "gone"}
Events == [kind : {"join", "leave", "leaveSpectator", "input"},
           id : 0 .. IdSpace, from : Clients]

Members == {i \in Ids : sessions[i] # None}
Viewers == {i \in Ids : spectators[i] # None}
Registered == {sessions[i] : i \in Members} \cup {spectators[j] : j \in Viewers}

Init ==
  /\ roomPc = "select"
  /\ budget = 0
  /\ sessions = [i \in Ids |-> None]
  /\ spectators = [i \in Ids |-> None]
  /\ nextId = 1
  /\ nextSpecId = 1
  /\ world = {}
  /\ dirty = {}
  /\ accum = 0
  /\ inbox = <<>>
  /\ players = 0
  /\ closed = FALSE
  /\ cancelled = FALSE
  /\ reliable = [c \in Clients |-> 0]
  /\ snapshots = [c \in Clients |-> 0]
  /\ queues = [c \in Clients |-> "none"]
  /\ backlog = [c \in Clients |-> 0]
  /\ kick = [c \in Clients |-> FALSE]
  /\ handler = [c \in Clients |-> "start"]
  /\ writer = [c \in Clients |-> "off"]
  /\ reply = [c \in Clients |-> "none"]
  /\ myId = [c \in Clients |-> 0]
  /\ owed = [c \in Clients |-> {}]
  /\ missed = [c \in Clients |-> FALSE]
  /\ drawn = [c \in Clients |-> 0]

-----------------------------------------------------------------------------
(***************************************************************************)
(* Joining and leaving, on the room's goroutine.                           *)
(***************************************************************************)

BadNextId(i) == i  \* (KeepsRoster) the counter stays behind.
NextId(i) == IF i = IdSpace THEN 1 ELSE i + 1  \* the counter skips zero as it wraps

\* The ids a counter at from draws until it has given out to.
Draws(from, to) == IF to >= from THEN to - from + 1 ELSE to - from + 1 + IdSpace

\* The handlers of P that have an id see k more drawn from their space.
Older(P, k) ==
  [c \in Clients |-> IF c \notin P \/ myId[c] = 0 THEN drawn[c]
                     ELSE IF drawn[c] + k < IdSpace THEN drawn[c] + k ELSE IdSpace]

\* handleSpectatorJoin's search: the first id at or after from, in cyclic order, that is not in used.
FirstFree(from, used) ==
  LET free == Ids \ used
      later == {i \in free : i >= from}
      pool == IF later = {} THEN free ELSE later
  IN CHOOSE i \in pool : \A j \in pool : i <= j

\* (KeepsRoster) the newcomer is counted before it is in.
BadFull(c) == IF c \in Players
              THEN Cardinality(Members) + 1 >= MaxPlayers \/ world = Ids
              ELSE Cardinality(Viewers) >= MaxPlayers \/ Viewers = Ids

\* What both joins do to a new session: its queues open with the JoinAck in
\* the reliable one, the topics of T become dirty and the caller is answered.
Admit(c, i, T) ==
  /\ queues' = [queues EXCEPT ![c] = "open"]
  /\ reliable' = [reliable EXCEPT ![c] = 1]
  /\ reply' = [reply EXCEPT ![c] = "session"]
  /\ myId' = [myId EXCEPT ![c] = i]
  /\ dirty' = dirty \cup T
  /\ UNCHANGED <<snapshots, backlog, kick, missed>>

\* ErrRoomFull, or ErrWorldFull of allocID.
Full(c) == IF c \in Players
           THEN Cardinality(Members) >= MaxPlayers \/ world = Ids
           ELSE Cardinality(Viewers) >= MaxPlayers \/ Viewers = Ids

Refuse(c) ==
  /\ reply' = [reply EXCEPT ![c] = "full"]
  /\ UNCHANGED <<mapVars, dirty, sessionVars, myId, historyVars>>

\* The value of the topics of T is new to every registered session.
Owe(T) == [c \in Clients |-> IF c \in Registered THEN owed[c] \cup T ELSE owed[c]]

\* (StateReachesEveryone) the newcomer's weapons are forgotten.
BadHandleJoin(c) ==
  /\ \E i \in Ids \ world :
       /\ nextId' = NextId(i)
       /\ drawn' = Older(Players, Draws(nextId, i))
       /\ world' = world \cup {i}
       /\ sessions' = [sessions EXCEPT ![i] = c]
       /\ players' = Cardinality(Members \cup {i})
       /\ Admit(c, i, Topics \ {"weapons"})
  /\ owed' = [Owe({"match"}) EXCEPT ![c] = Topics]
  /\ UNCHANGED <<spectators, nextSpecId>>

\* handleJoin: the player gets an id of the world, and its row changes the
\* table everyone else has.  The search of allocID passes over the ids of the
\* projectiles in flight as well, so any free one may be the first it finds.
HandleJoin(c) ==
  /\ \E i \in Ids \ world :
       /\ nextId' = NextId(i)
       /\ drawn' = Older(Players, Draws(nextId, i))
       /\ world' = world \cup {i}
       /\ sessions' = [sessions EXCEPT ![i] = c]
       /\ players' = Cardinality(Members \cup {i})
       /\ Admit(c, i, Topics)
  /\ owed' = [Owe({"match"}) EXCEPT ![c] = Topics]
  /\ UNCHANGED <<spectators, nextSpecId>>

\* handleSpectatorJoin: the key is the room's own, the world knows nothing of
\* it, and the flags are not among the topics that become dirty.
HandleSpectatorJoin(c) ==
  LET j == FirstFree(nextSpecId, Viewers)
  IN /\ nextSpecId' = NextId(j)
     /\ drawn' = Older(Watchers, Draws(nextSpecId, j))
     /\ spectators' = [spectators EXCEPT ![j] = c]
     /\ Admit(c, j, Topics \ {"flags"})
     /\ owed' = [owed EXCEPT ![c] = Topics]
     /\ UNCHANGED <<sessions, nextId, world, players>>

\* The field f of the sessions, back at its first value v for those of S: the
\* room never looks again at a session it has dropped.
Reset(f, S, v) == [c \in Clients |-> IF c \in S THEN v ELSE f[c]]

\* (SessionsMatchWorld) the player stays in the world.
BadReleaseWorld(S) ==
  LET stay == {i \in Members : sessions[i] \notin S}
  IN /\ sessions' = [i \in Ids |-> IF sessions[i] \in S THEN None ELSE sessions[i]]
     /\ spectators' = [j \in Ids |-> IF spectators[j] \in S THEN None ELSE spectators[j]]
     /\ UNCHANGED world
     /\ players' = Cardinality(stay)
     /\ queues' = Reset(queues, S, "closed")

\* (QueuesOpenWhileRegistered) the queues stay open.
BadReleaseQueues(S) ==
  LET stay == {i \in Members : sessions[i] \notin S}
  IN /\ sessions' = [i \in Ids |-> IF sessions[i] \in S THEN None ELSE sessions[i]]
     /\ spectators' = [j \in Ids |-> IF spectators[j] \in S THEN None ELSE spectators[j]]
     /\ world' = world \ (Members \ stay)
     /\ players' = Cardinality(stay)
     /\ UNCHANGED queues

\* removeSession and removeSpectator for the handlers of S: the map entry, the
\* player of the world, the count and the two queues go together.
Release(S) ==
  LET stay == {i \in Members : sessions[i] \notin S}
  IN /\ sessions' = [i \in Ids |-> IF sessions[i] \in S THEN None ELSE sessions[i]]
     /\ spectators' = [j \in Ids |-> IF spectators[j] \in S THEN None ELSE spectators[j]]
     /\ world' = world \ (Members \ stay)
     /\ players' = IF stay = Members THEN players ELSE Cardinality(stay)
     /\ queues' = Reset(queues, S, "closed")

\* A player's row leaves the table; a spectator has none.
TableAfter(S) == IF \E i \in Members : sessions[i] \in S THEN {"match"} ELSE {}

\* The session a map has under the number i, if it has one.
Lookup(map, i) == {map[j] : j \in Ids \cap {i}} \ {None}

\* handle for the two leaves.  An id that is not registered is left alone.
HandleLeave(S) ==
  /\ Release(S)
  /\ dirty' = dirty \cup TableAfter(S)
  /\ owed' = Reset(Owe(TableAfter(S)), S, {})
  /\ backlog' = Reset(backlog, S, 0)
  /\ kick' = Reset(kick, S, FALSE)
  /\ missed' = Reset(missed, S, FALSE)
  /\ UNCHANGED <<nextId, nextSpecId, reliable, snapshots, reply, myId, drawn>>

\* handle: an input only reaches the player's queue in the world, and moves the
\* session's acknowledged tick (DeltaSync.tla).
Handle(ev) ==
  \/ /\ ev.kind = "join" /\ Full(ev.from)
     /\ Refuse(ev.from)
  \/ /\ ev.kind = "join" /\ ~Full(ev.from) /\ ev.from \in Players
     /\ HandleJoin(ev.from)
  \/ /\ ev.kind = "join" /\ ~Full(ev.from) /\ ev.from \in Watchers
     /\ HandleSpectatorJoin(ev.from)
  \/ /\ ev.kind = "leave"
     /\ HandleLeave(Lookup(sessions, ev.id))
  \/ /\ ev.kind = "leaveSpectator"
     /\ HandleLeave(Lookup(spectators, ev.id))
  \/ /\ ev.kind = "input"
     /\ UNCHANGED <<mapVars, dirty, sessionVars, reply, myId, historyVars>>

-----------------------------------------------------------------------------
(***************************************************************************)
(* Room.Run and Room.tick.                                                 *)
(***************************************************************************)

\* The select of Run: the ticker and the cancelled context race.
Tick ==
  /\ roomPc = "select"
  /\ roomPc' = "drain"
  /\ budget' = InboxSize
  /\ UNCHANGED <<mapVars, dirty, accum, inbox, closed, cancelled, sessionVars,
                 handlerVars, historyVars>>

\* One iteration of drainInbox.
Drain ==
  /\ roomPc = "drain" /\ budget > 0 /\ inbox # <<>>
  /\ Handle(Head(inbox))
  /\ inbox' = Tail(inbox)
  /\ budget' = budget - 1
  /\ UNCHANGED <<roomPc, accum, closed, cancelled, handler, writer>>

\* World.Step, once drainInbox returns (the inbox is empty, or cap of them were
\* applied): the events it reports are still to be dispatched, the topics it
\* marks and the table of a new phase are not yet sent, its shots draw ids.
Step ==
  /\ roomPc = "drain" /\ (budget = 0 \/ inbox = <<>>)
  /\ roomPc' = "dispatch"
  /\ \E events \in 0 .. MaxEvents, shots \in 0 .. MaxShots, T \in StepMarks, phase \in BOOLEAN :
       LET touched == T \cup (IF phase THEN {"match"} ELSE {})
           over == nextId + shots - IdSpace
       IN /\ events > 0 \/ shots > 0 \/ "weapons" \in T => world # {}
          /\ "flags" \in T => CtfMode
          /\ budget' = events
          /\ nextId' = IF over > 0 THEN over ELSE nextId + shots
          /\ drawn' = Older(Players, shots)
          /\ dirty' = dirty \cup touched
          /\ owed' = Owe(touched)
  /\ UNCHANGED <<sessions, spectators, nextSpecId, world, players, accum, inbox, closed,
                 cancelled, sessionVars, handlerVars, missed>>

\* (NobodyMissesReliable) the mark is taken back by the next message that fits.
BadDeliver(S) ==
  LET full == {c \in S : reliable[c] >= ReliableSize}
  IN /\ reliable' = [c \in Clients |-> IF c \in S \ full THEN reliable[c] + 1 ELSE reliable[c]]
     /\ kick' = [c \in Clients |-> IF c \in S THEN c \in full ELSE kick[c]]
     /\ missed' = [c \in Clients |-> missed[c] \/ c \in full]

\* enqueueReliable for each of S: a full queue refuses the message, and the mark
\* this leaves on the session stays.
Deliver(S) ==
  LET full == {c \in S : reliable[c] >= ReliableSize}
  IN /\ reliable' = [c \in Clients |-> IF c \in S \ full THEN reliable[c] + 1 ELSE reliable[c]]
     /\ kick' = [c \in Clients |-> kick[c] \/ c \in full]
     /\ missed' = [c \in Clients |-> missed[c] \/ c \in full]

\* One iteration of dispatchEvents.  A hit goes to the sessions, if any, of the
\* two ids it names, all else to everyone; a death or a capture changes the table.
Dispatch ==
  /\ roomPc = "dispatch" /\ budget > 0
  /\ budget' = budget - 1
  /\ \E e \in StepEvents :
       LET touched == IF e \in {"death", "capture"} THEN {"match"} ELSE {}
       IN /\ e = "capture" => CtfMode
          /\ \/ /\ e = "hit"
                /\ \E a, b \in Ids : Deliver(Lookup(sessions, a) \cup Lookup(sessions, b))
             \/ e # "hit" /\ Deliver(Registered)
          /\ dirty' = dirty \cup touched
          /\ owed' = Owe(touched)
  /\ UNCHANGED <<roomPc, mapVars, accum, inbox, closed, cancelled, snapshots, queues, backlog,
                 handlerVars, drawn>>

\* broadcastMatchState, broadcastPickups, broadcastWeapons or broadcastFlags, at
\* from in the tick and followed by to: a marked topic goes to everyone.  The
\* flags are sent, and their mark is looked at, in CTF only.
Announce(topic, from, to) ==
  /\ roomPc = from /\ budget = 0
  /\ roomPc' = to
  /\ \/ /\ topic \in dirty /\ (topic = "flags" => CtfMode)
        /\ Deliver(Registered)
        /\ dirty' = dirty \ {topic}
        /\ owed' = [c \in Clients |-> IF c \in Registered /\ reliable[c] < ReliableSize
                                      THEN owed[c] \ {topic} ELSE owed[c]]
     \/ /\ ~ (topic \in dirty /\ (topic = "flags" => CtfMode))
        /\ UNCHANGED <<dirty, owed, reliable, kick, missed>>
  /\ UNCHANGED <<budget, mapVars, accum, inbox, closed, cancelled, snapshots, queues, backlog,
                 handlerVars, drawn>>

AnnounceTopics ==
  \/ Announce("match", "dispatch", "pickups")
  \/ Announce("pickups", "pickups", "weapons")
  \/ Announce("weapons", "weapons", "flags")
  \/ Announce("flags", "flags", "snapshot")

SnapshotDue == accum + SnapshotRate >= TickRate  \* rateDivider.tick

\* broadcast: the players of the world that have a session, and the spectators.
SnapshotTo == {sessions[i] : i \in world \cap Members} \cup {spectators[j] : j \in Viewers}

\* enqueueSnapshot for everyone when a snapshot is due: a full queue loses its
\* oldest to the new one, and the backlog counts how often that happens in a row.
Snapshot ==
  /\ roomPc = "snapshot"
  /\ roomPc' = "laggards"
  /\ \/ /\ SnapshotDue
        /\ accum' = accum + SnapshotRate - TickRate
        /\ snapshots' = [c \in Clients |-> IF c \in SnapshotTo /\ snapshots[c] < SessionQueue
                                           THEN snapshots[c] + 1 ELSE snapshots[c]]
        /\ backlog' = [c \in Clients |-> IF c \notin SnapshotTo THEN backlog[c]
                                         ELSE IF snapshots[c] < SessionQueue THEN 0
                                         ELSE backlog[c] + 1]
     \/ /\ ~SnapshotDue
        /\ accum' = accum + SnapshotRate
        /\ UNCHANGED <<snapshots, backlog>>
  /\ UNCHANGED <<budget, mapVars, dirty, inbox, closed, cancelled, reliable, queues, kick,
                 handlerVars, historyVars>>

\* (NobodyMissesReliable) the spectators are not looked at.
BadLaggards == {c \in Registered \cap Players : kick[c] \/ backlog[c] > MaxBacklog}

Laggards == {c \in Registered : kick[c] \/ backlog[c] > MaxBacklog}  \* Session.lagging

\* dropLaggards: sessions and spectators alike.
DropLaggards ==
  /\ roomPc = "laggards"
  /\ roomPc' = "select"
  /\ HandleLeave(Laggards)
  /\ UNCHANGED <<budget, accum, inbox, closed, cancelled, handler, writer>>

\* (NoGhosts) the sessions are left alone.
BadShutdown ==
  /\ roomPc = "select" /\ cancelled
  /\ roomPc' = "shutdown"
  /\ HandleLeave({})
  /\ UNCHANGED <<budget, accum, inbox, closed, cancelled, handler, writer>>

\* The other arm of the select: shutdown releases everyone.
Shutdown ==
  /\ roomPc = "select" /\ cancelled
  /\ roomPc' = "shutdown"
  /\ HandleLeave(Registered)
  /\ UNCHANGED <<budget, accum, inbox, closed, cancelled, handler, writer>>

\* Run returns and its deferred close(done) runs.
Stop ==
  /\ roomPc = "shutdown"
  /\ roomPc' = "stopped"
  /\ closed' = TRUE
  /\ UNCHANGED <<budget, mapVars, dirty, accum, inbox, cancelled, sessionVars,
                 handlerVars, historyVars>>

RoomNext ==
  \/ Tick \/ Drain \/ Step \/ Dispatch \/ AnnounceTopics \/ Snapshot \/ DropLaggards
  \/ Shutdown \/ Stop

-----------------------------------------------------------------------------
(***************************************************************************)
(* A connection handler: Room.Join, then Session.Run with its two pumps.   *)
(***************************************************************************)

Move(c, from, to) ==
  /\ handler[c] = from
  /\ handler' = [handler EXCEPT ![c] = to]

\* (TypeOK) one event too many.
BadPost(kind, i, c) ==
  /\ Len(inbox) <= InboxSize
  /\ inbox' = Append(inbox, [kind |-> kind, id |-> i, from |-> c])

\* Room.post: the event is queued while the inbox has a slot.
Post(kind, i, c) ==
  /\ Len(inbox) < InboxSize
  /\ inbox' = Append(inbox, [kind |-> kind, id |-> i, from |-> c])

CallJoin(c) ==
  /\ Move(c, "start", "posting")
  /\ UNCHANGED <<roomVars, inbox, closed, cancelled, sessionVars, writer, reply, myId, historyVars>>

PostJoin(c) ==
  /\ Move(c, "posting", "waiting")
  /\ Post("join", 0, c)
  /\ UNCHANGED <<roomVars, closed, cancelled, sessionVars, writer, reply, myId,
                 historyVars>>

\* The reply arrives: Session.Run starts the write pump, or Join fails.
JoinAnswered(c) ==
  /\ \/ /\ reply[c] = "session"
        /\ Move(c, "waiting", "running")
        /\ writer' = [writer EXCEPT ![c] = "on"]
     \/ /\ reply[c] = "full"
        /\ Move(c, "waiting", "gone")
        /\ UNCHANGED writer
  /\ UNCHANGED <<roomVars, inbox, closed, cancelled, sessionVars, reply, myId, historyVars>>

\* (JoinReturns) Join waits for its reply and for nothing else.
BadJoinAbandoned(c) ==
  /\ closed \/ cancelled
  /\ Move(c, "posting", "gone")
  /\ UNCHANGED <<roomVars, inbox, closed, cancelled, sessionVars, writer, reply, myId, historyVars>>

\* Join gives up, in post or while it waits, on a closed room or on its
\* context: the room may still admit the session nobody will run.
JoinAbandoned(c) ==
  /\ closed \/ cancelled
  /\ Move(c, "posting", "gone") \/ Move(c, "waiting", "gone")
  /\ UNCHANGED <<roomVars, inbox, closed, cancelled, sessionVars, writer, reply, myId, historyVars>>

\* readPump passes a player's input on with Room.input, which drops it when the
\* inbox is full; a spectator's inputs are ignored.
SendInput(c) ==
  /\ handler[c] = "running" /\ c \in Players
  /\ Post("input", myId[c], c)
  /\ UNCHANGED <<roomVars, closed, cancelled, sessionVars, handlerVars,
                 historyVars>>

\* readPump returns: the client is gone or sends garbage, or the write pump's
\* end or the base context cancelled the session.
ReadEnds(c) ==
  /\ Move(c, "running", "leaving")
  /\ UNCHANGED <<roomVars, inbox, closed, cancelled, sessionVars, writer, reply, myId, historyVars>>

\* (RunReturnsEventually) a full inbox loses the leave, like an input.
BadLeaveLost(c) ==
  /\ Move(c, "leaving", "draining")
  /\ \/ Post(IF c \in Watchers THEN "leaveSpectator" ELSE "leave", myId[c], c)
     \/ Len(inbox) = InboxSize /\ UNCHANGED inbox
  /\ UNCHANGED <<roomVars, closed, cancelled, sessionVars, writer, reply, myId,
                 historyVars>>

\* (ShutdownCompletes) the leave waits for a slot in the inbox of a stopped room.
BadLeaveWaits(c) ==
  /\ Move(c, "leaving", "draining")
  /\ Post(IF c \in Watchers THEN "leaveSpectator" ELSE "leave", myId[c], c)
  /\ UNCHANGED <<roomVars, closed, cancelled, sessionVars, writer, reply, myId,
                 historyVars>>

\* (MailNamesItsSender) a spectator leaves like a player.
BadLeaveKind(c) ==
  /\ Move(c, "leaving", "draining")
  /\ \/ Post("leave", myId[c], c)
     \/ (closed \/ cancelled) /\ UNCHANGED inbox
  /\ UNCHANGED <<roomVars, closed, cancelled, sessionVars, writer, reply, myId,
                 historyVars>>

\* leave or leaveSpectator is posted, or gives up on a closed room or on the
\* base context.
PostLeave(c) ==
  /\ Move(c, "leaving", "draining")
  /\ \/ Post(IF c \in Watchers THEN "leaveSpectator" ELSE "leave", myId[c], c)
     \/ (closed \/ cancelled) /\ UNCHANGED inbox
  /\ UNCHANGED <<roomVars, closed, cancelled, sessionVars, writer, reply, myId,
                 historyVars>>

\* The write pump takes one message (Session.tla says in which order).
WriterTakes(c) ==
  /\ writer[c] = "on"
  /\ \/ /\ reliable[c] > 0
        /\ reliable' = [reliable EXCEPT ![c] = @ - 1]
        /\ UNCHANGED snapshots
     \/ /\ snapshots[c] > 0
        /\ snapshots' = [snapshots EXCEPT ![c] = @ - 1]
        /\ UNCHANGED reliable
  /\ UNCHANGED <<roomVars, inbox, closed, cancelled, queues, backlog, kick, handlerVars, historyVars>>

\* (RemovedSessionEnds) a closed queue is not noticed.
BadWriterEnds(c) ==
  /\ writer[c] = "on"
  /\ cancelled
  /\ writer' = [writer EXCEPT ![c] = "done"]
  /\ UNCHANGED <<roomVars, inbox, closed, cancelled, sessionVars, handler, reply, myId, historyVars>>

\* It ends with both queues closed and empty, or with the base context.
WriterEnds(c) ==
  /\ writer[c] = "on"
  /\ cancelled \/ (queues[c] = "closed" /\ reliable[c] = 0 /\ snapshots[c] = 0)
  /\ writer' = [writer EXCEPT ![c] = "done"]
  /\ UNCHANGED <<roomVars, inbox, closed, cancelled, sessionVars, handler, reply, myId, historyVars>>

\* Or with a write that fails on the broken connection.
WriterFails(c) ==
  /\ writer[c] = "on" /\ ~cancelled
  /\ \/ /\ reliable[c] > 0
        /\ reliable' = [reliable EXCEPT ![c] = @ - 1]
        /\ UNCHANGED snapshots
     \/ /\ snapshots[c] > 0
        /\ snapshots' = [snapshots EXCEPT ![c] = @ - 1]
        /\ UNCHANGED reliable
  /\ writer' = [writer EXCEPT ![c] = "done"]
  /\ UNCHANGED <<roomVars, inbox, closed, cancelled, queues, backlog, kick, handler, reply, myId,
                 historyVars>>

\* Run has waited for writeDone; it closes the connection and returns.
RunReturns(c) ==
  /\ writer[c] = "done"
  /\ Move(c, "draining", "gone")
  /\ UNCHANGED <<roomVars, inbox, closed, cancelled, sessionVars, writer, reply, myId, historyVars>>

HandlerNext(c) ==
  \/ CallJoin(c) \/ PostJoin(c) \/ JoinAnswered(c) \/ JoinAbandoned(c) \/ SendInput(c)
  \/ ReadEnds(c) \/ PostLeave(c) \/ WriterTakes(c) \/ WriterEnds(c) \/ WriterFails(c)
  \/ RunReturns(c)

\* SIGINT or SIGTERM.
Cancel ==
  /\ ~cancelled
  /\ cancelled' = TRUE
  /\ UNCHANGED <<roomVars, inbox, closed, sessionVars, handlerVars, historyVars>>

Next == RoomNext \/ (\E c \in Clients : HandlerNext(c)) \/ Cancel

(***************************************************************************)
(* Fairness.  The ticker keeps firing and the select of Run, like any Go   *)
(* select, picks at random among the arms that stay ready; a goroutine     *)
(* blocked on a full inbox is in the channel's FIFO of senders; a write    *)
(* either succeeds or times out; a cancelled session stops reading.        *)
(***************************************************************************)
HandlerFairness(c) ==
  /\ SF_vars(PostJoin(c))
  /\ WF_vars(JoinAnswered(c))
  /\ WF_vars(JoinAbandoned(c))
  /\ WF_vars(ReadEnds(c) /\ (writer[c] = "done" \/ cancelled))
  /\ SF_vars(PostLeave(c))
  /\ WF_vars(WriterTakes(c) \/ WriterEnds(c) \/ WriterFails(c))
  /\ WF_vars(RunReturns(c))

Spec == Init /\ [][Next]_vars
FairSpec == /\ Spec
            /\ WF_vars(RoomNext)
            /\ SF_vars(Shutdown)
            /\ \A c \in Clients : HandlerFairness(c)

-----------------------------------------------------------------------------
(***************************************************************************)
(* Properties.                                                             *)
(***************************************************************************)

\* Every variable of the room, the sessions and the handlers stays in its type,
\* the queues of a session and the inbox within their capacities.
TypeOK ==
  /\ roomPc \in RoomPcs
  /\ budget \in 0 .. (IF roomPc = "dispatch" THEN MaxEvents ELSE InboxSize)
  /\ sessions \in [Ids -> Clients \cup {None}]
  /\ spectators \in [Ids -> Clients \cup {None}]
  /\ nextId \in Ids /\ nextSpecId \in Ids
  /\ world \subseteq Ids
  /\ dirty \subseteq Topics
  /\ accum \in 0 .. TickRate - 1
  /\ inbox \in Seq(Events) /\ Len(inbox) <= InboxSize
  /\ players \in Nat
  /\ closed \in BOOLEAN /\ cancelled \in BOOLEAN
  /\ reliable \in [Clients -> 0 .. ReliableSize]
  /\ snapshots \in [Clients -> 0 .. SessionQueue]
  /\ queues \in [Clients -> {"none", "open", "closed"}]
  /\ backlog \in [Clients -> Nat]
  /\ kick \in [Clients -> BOOLEAN]
  /\ handler \in [Clients -> HandlerPcs]
  /\ writer \in [Clients -> {"off", "on", "done"}]
  /\ reply \in [Clients -> {"none", "session", "full"}]
  /\ myId \in [Clients -> 0 .. IdSpace]
  /\ owed \in [Clients -> SUBSET Topics]
  /\ missed \in [Clients -> BOOLEAN]
  /\ drawn \in [Clients -> 0 .. IdSpace]

\* The map of sessions, the players of the world and the published count agree
\* whenever another goroutine can look: nobody is simulated without a session,
\* no session is without its player, no handler is registered twice, and the
\* hub, which fills rooms by that count, never sees more than MaxPlayers.
SessionsMatchWorld ==
  /\ Members = world
  /\ players = Cardinality(Members) /\ players <= MaxPlayers
  /\ \A i, j \in Ids : sessions[i] # None /\ sessions[i] = sessions[j] => i = j
  /\ \A i, j \in Ids : spectators[i] # None /\ spectators[i] = spectators[j] => i = j
  /\ \A i, j \in Ids : sessions[i] # None => sessions[i] # spectators[j]

\* A session's queues are open exactly while it is registered: removeSession
\* closes them once (a second close panics) and nothing is enqueued to a closed
\* one, because every enqueue goes through the two maps.
QueuesOpenWhileRegistered ==
  \A c \in Clients : queues[c] = "open" <=> c \in Registered

\* Players and spectators are numbered from two spaces that overlap, and a
\* number is free for others once its session is gone, while a leave or an input
\* of that session may still be on its way.  Until all the ids of its space have
\* been drawn again, such an event finds under its number the one who sent it, or
\* nobody: never a player for a spectator, never a newcomer.
MailNamesItsSender ==
  \A n \in DOMAIN inbox :
    LET ev == inbox[n]
    IN drawn[ev.from] < IdSpace =>
         /\ ev.kind \in {"leave", "input"} => sessions[ev.id] \in {None, ev.from}
         /\ ev.kind = "leaveSpectator" => spectators[ev.id] \in {None, ev.from}

\* Reliable messages are not droppable: whatever a tick adds to a queue, and
\* whatever its pump takes meanwhile, between two ticks no registered session
\* has missed one, not even one before others that fitted again, or has fallen
\* too far behind (dropLaggards of the same tick removed it).
NobodyMissesReliable ==
  roomPc = "select" => \A c \in Registered : ~missed[c] /\ ~kick[c] /\ backlog[c] <= MaxBacklog

\* Between two ticks, a state topic whose present value a session was never
\* sent is still marked dirty, so the next tick sends it: no change and no
\* newcomer is forgotten.  Spectators and the flags are left to the next one.
Due(c) == owed[c] \ (IF CtfMode THEN {} ELSE {"flags"})
StateReachesEveryone ==
  roomPc = "select" =>
    \A c \in Registered : Due(c) \ (IF c \in Watchers THEN {"flags"} ELSE {}) \subseteq dirty

\* The same for the flags: docs/protocol.md:287-288 says MsgFlagState is sent
\* when a flag changes and to a newcomer at the join.
NewcomerLearnsFlags ==
  roomPc = "select" => \A c \in Registered : "flags" \in Due(c) => "flags" \in dirty

\* To the gateway, the hub and the filler the room is a Roster of its players:
\* the events of spectators, and inputs, change nothing they could see.
LetterOf(ev) ==
  IF ev.kind \in {"join", "leave"} /\ ev.from \in Players
  THEN [kind |-> ev.kind, who |-> ev.from]
  ELSE [kind |-> "other"]

Public == INSTANCE Roster WITH
  Guest <- Players,
  Size <- InboxSize,
  Places <- MaxPlayers,
  mail <- [n \in DOMAIN inbox |-> LetterOf(inbox[n])],
  guests <- {sessions[i] : i \in Members},
  count <- players,
  stale <- {c \in Players : drawn[c] = IdSpace},
  open <- roomPc \notin {"shutdown", "stopped"}

\* The events of the inbox take effect in the order in which they were queued, a
\* player is admitted exactly while the published count is below MaxPlayers
\* (the world never runs out of ids first), a leave removes the player that sent
\* it or nobody while the ids have not been drawn round since, a room that has
\* shut down admits no one, and the count is right after each of them
\* (drainInbox, handle, removeSession, shutdown).
KeepsRoster == Public!Spec

\* A call of Join returns: with a session, or with an error.
JoinReturns ==
  \A c \in Clients : handler[c] \in {"posting", "waiting"} ~> handler[c] \in {"running", "gone"}

\* A session whose reading ended, for whatever reason, is left by its handler:
\* the leave is posted, the room closes the queues, the write pump ends, Run
\* returns.
RunReturnsEventually ==
  \A c \in Clients : handler[c] = "leaving" ~> handler[c] = "gone"

\* A session the room removes as too slow takes its handler with it: the closed
\* queues end the write pump, which cancels the read pump.
RemovedSessionEnds ==
  \A c \in Clients : queues[c] = "closed" ~> handler[c] = "gone"

\* A handler that is gone leaves nothing behind for good, not even when its
\* Join was abandoned after the event was posted.
NoGhosts ==
  \A c \in Clients : handler[c] = "gone" ~> [](c \notin Registered)

\* Cancelling the base context stops the room and every handler.
ShutdownCompletes ==
  cancelled ~> closed /\ \A c \in Clients : handler[c] \in {"start", "gone"}
=============================================================================
