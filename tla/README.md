# A formal model of the arena server

TLA+ specifications of the multiplayer arena server of this repository (Go,
`internal/` and `cmd/server`), checked with TLC and, where it says so, proved
with TLAPS. Every definition is translated from the source; `PROJECT.json` names
the lines behind each one.

## The system

Everything below runs in one process. A client talks to the server over a
transport; a handler goroutine per connection joins a room; a room is one
goroutine that owns a world and steps it 30 times a second.

| Component | State it keeps | Operations | Talks to | Hard because |
|---|---|---|---|---|
| Room (`internal/game/room.go`) | maps of sessions and spectators, inbox, four dirty flags, rate divider, published player count | `Run`, `tick`, `Join`, `State`, `leave`, `input`, `dropLaggards`, `shutdown` | handlers post events to the inbox; the room sends to the queues of the sessions; hub and filler read the count | joins are abandoned, leaves come late, queues overflow in the middle of a tick, shutdown races all of it |
| Session (`session.go`) | two bounded queues, backlog, kick flag, delta bases | `Run`, `readPump`, `writePump`, `enqueue*` | room, transport | two goroutines that end each other by way of the room |
| World and systems (`world.go`, `combat.go`, `match.go`, `ctf.go`, `hill.go`, `domination.go`, `pickups.go`, `killstreak.go`, `weapon.go`) | players, projectiles, flags, match phase, timers | `Step`, `AddPlayer`, `RemovePlayer`, `EnqueueInput` | its room only | order of the systems in a step, effects on players that are dead or have left |
| Delta snapshots (`delta.go`, `bot/reconstruct.go`) | ring of 16 sent views per session, acknowledged tick; 32 views at the client | diff, apply | session queues, unreliable channel | lost, late and reordered snapshots and acks |
| Hub (`internal/hub`) | list of rooms, `closed` | `Assign`, `Shutdown`, `Wait` | starts rooms, reads their counts | counts are stale when used; assign races shutdown |
| Bot filler (`internal/botfill`) | bots per room | `reconcile`, `addBot`, `stopNewest` (`drainRoom` never runs: the hub removes no room) | hub, rooms (joins over a pipe) | humans are a difference of two counts |
| Transports (`internal/transport`) | frames in flight | `Read`, `Write`, `Close` | sessions | close against delivery, two channels of different reliability |
| Gateway, join gate, main (`cmd/server`) | open connections | `serve`, `handshake`, stop sequence | all of the above | order of the stop, limits held for a whole session |
| Accounts, store (`internal/account`, `internal/store`) | accounts, refresh families, one-time tokens, bans | `Login`, `Refresh`, `Logout`, `ResetPassword`, `VerifyEmail` | SQL | several transactions per operation, requests in parallel |
| Persister (`internal/persist`) | none but its channel | statistics, match results, autoban | rooms send to its channel, it writes the store | drops, order of the close, partial failure |
| Limits (`internal/ratelimit`) | token buckets, connection counts | `Allow`, `sweep`, `Acquire`, `Release` | gateway, API | release on every path, sweep against refill |

What makes each correct:

- Room: the map, the world and the count agree; each queue is closed once and
  never sent to again; nobody who missed a reliable message stays; every change
  of the table, pickups, weapons and flags reaches everyone, newcomers included;
  every join, leave and shutdown ends.
- Session: both pumps end together; the JoinAck is written first; reliable
  messages keep their order and none is lost while the session lives.
- World: damage, death, respawn and streak agree; a match has one winner; a flag
  is in one place; a carrier is a living member of the match.
- Delta: whatever the client applies is the view the server diffed.
- Hub, filler: no room over its limit; bots make room for humans; all goroutines
  are waited for.
- Accounts: a refresh token is spent once, reuse revokes its family, a reset or
  a ban leaves no older session behind.
- Limits: a bucket swept is a bucket refilled; counts never drift.

## The modules

| Group | Modules | What it is about |
|---|---|---|
| 1 | `Room`, `Roster`, `RoomProofs`, `MCRoom` | the goroutine of a room, the handlers and both pumps, with broken connections, abandoned joins and cancellation at any point; `Room` implements `Roster` |
| 2 | `Session`, `Mailbox`, `SessionProofs` | the order of messages over both queues and the transport; `Session` implements `Mailbox` |
| 3 | `Delta`, `DeltaSync`, `Mirror`, `DeltaProofs`, `MCDeltaSync` | the diff and its inverse; rings, acknowledgements, unreliable delivery; `DeltaSync` implements `Mirror` |
| 4 | `Arena`, `ArenaProofs`, `FoldProofs`, `MCArena` | one step of the world: combat, streaks, pickups, hill, domination, flags, match |
| 5 | `Accounts`, `AccountsProofs`, `MCAccounts` | tokens, passwords, bans and roles as the calls of the store they are made of |
| 6 | `Lobby`, `LobbyProofs`, `FoldProofs`, `MCLobby` | gate, gateway, hub, bot filler, persister and the order of the stop, composed; each of its rooms implements `Roster` |

They compose where they interact. `Room` leaves open what a step of the world
reports, so it holds for whatever `Arena` reports; it has of every session the
lengths of the queues, and `Session` has their contents; `DeltaSync` is the payload
of one session's snapshots; `Lobby` has of every room the inbox, the members and
whether it runs, and adds everything that feeds and stops it. That this is a fair
picture of a room is what `Roster` is for: it says how a room treats joins and leaves,
`Room` implements it, and so does each room of `Lobby`. `Accounts` shares
with the rest only the persister, whose loop is in `Lobby` and whose bans are in
`Accounts`.

What every constant is for is said where it is declared; the bounds that exist only
for TLC are marked there as bounds of the model. Proofs are of the same modules the
runs check, without the bounds. A definition whose name begins with `Bad` is a
plausible bug of the definition after it; nothing uses it.

## Room

`Room.tla` is the goroutine of a room (`roomPc`), its inbox and, for every
member of `Players` and `Watchers`, one connection handler with its write pump.

| TLA+ | Code |
|---|---|
| `roomPc`, `budget` | where `Run` is: the select, a part of `tick`, `shutdown`, returned; how many events `drainInbox` may still take (at most `cap(inbox)`) or `dispatchEvents` has left |
| `sessions`, `spectators` | the two maps of `Room`; functions from a number to a handler or `None` |
| `world`, `nextId`, `nextSpecId` | the keys of `World.players`, `World.nextID`, `Room.nextSpecID` |
| `dirty` | `matchDirty`, `pickupsDirty`, `weaponsDirty`, `flagsDirty` |
| `players`, `closed`, `cancelled` | the atomic count, `Room.done`, the server's base context |
| `reliable`, `snapshots`, `queues` | the length and state of the two channels of a session |
| `backlog`, `kick` | the fields of `Session` |
| `handler`, `writer`, `reply`, `myId` | the goroutine of the connection, its write pump, the answer to its join |
| `owed`, `missed`, `drawn` | history: topics whose present value the session was not sent; a reliable message was refused; how many ids of its space were drawn since its own, up to all of them |

A tick is the actions `Tick`, `Drain` (one iteration of `drainInbox`, with
`handleJoin`, `handleSpectatorJoin`, `removeSession`, `removeSpectator` under it),
`Step` (`World.Step`), `Dispatch` (one iteration of `dispatchEvents`),
`AnnounceTopics` (the four broadcasts of state, in turn), `Snapshot` and
`DropLaggards`, and every other goroutine may run between any two of them: a queue
that refuses a message may be emptied by its pump and accept the next one of the same
tick, and a tick with many events may overflow a queue that was empty. `Shutdown` and
`Stop` end the room; `CallJoin` to `RunReturns` are a handler; `Cancel` is the signal.

Abstractions, and why they are sound for what is checked:

- `World.Step` reports any events of `StepEvents`, `MaxEvents` at the most, any
  topics of `StepMarks` and may change the phase. The room's reaction depends on
  nothing else. What the world can really report is for `Arena`. `MaxEvents` is a
  bound for TLC; the theorems hold for every number, so for the 64 spawns a match
  with 64 living players begins with (`match.go:84-98`) and a queue of 32.
- One step adds one message to the queue of each of its receivers, so the order in
  which it goes through them does not show: each of them has a queue and a pump of
  its own. The same goes for the snapshots of one tick.
- Queues are lengths; the order within them is for `Session`.
- An input only moves the world's queue and the acknowledged tick, neither of
  which the room looks at here.
- The two number spaces have `IdSpace` numbers (65535 in the code) and wrap. The
  shots of a step draw any number of ids up to `MaxShots`, a bound for TLC. Which
  ids the projectiles in flight hold is not kept: instead the next player gets any
  id no player has, which covers whatever `allocID` passes over. That the 128
  projectiles leave no id for a player cannot happen and is not modelled.

`Roster.tla` is what the neighbours of a room rely on: mail is taken in the order in
which it was posted, a join is granted exactly while there is a place, a leave
removes its sender and nobody else, a room may drop guests at any time, a closed
room has none and takes no more mail, and the count is never behind. One thing
weakens it, because the code does: a guest is stale once all the ids have been given
out since its own, and if a stale guest that is no longer there has a leave in the
mail, that leave may remove the one guest who has its number now. `KeepsRoster` is
the refinement: the mail is the inbox, in which the events of spectators and inputs
are letters without effect; the guests are the players that have a session; the count
is the published one; the stale are those with `drawn` at the whole space. A drain
step is one letter, the world's step may make guests stale (`Pass`), the end of a tick
is a drop, the shutdown the close.

### Runs

| Run | Instance | Shows |
|---|---|---|
| `room` | a player and a spectator, both of number 1; inbox, snapshot queue and backlog of 1; up to two events (hits, deaths) and three topics a tick for a reliable queue of 2 | types and capacities; a leave or an input never reaches somebody else (`MailNamesItsSender`); a session that missed a reliable message is gone before the next tick, even if it got later ones (`NobodyMissesReliable`); every stale topic is marked (`StateReachesEveryone`) |
| `room_contention` | two interchangeable players, one place, two ids that are used again | map, world, count and limit agree (`SessionsMatchWorld`); queues are open exactly while registered (`QueuesOpenWhileRegistered`); the refinement of `Roster` (`KeepsRoster`) |
| `room_live` | one player, CTF, captures and shots, inbox of 2, a reliable queue of 1, 2 snapshots in 3 ticks | `JoinReturns`, `RunReturnsEventually`, `RemovedSessionEnds`, `NoGhosts`, `ShutdownCompletes` |
| `room_flags` | one spectator, CTF | violation: see Findings |

The bounds are small because the hazards are: an inbox of one is full after one
event, a snapshot queue of one drops at the second snapshot, a backlog above one
kicks. A reliable queue of two is overflowed within one tick, from empty and from any
other length, and has room for a message that is refused, a take and one that is
accepted. With two ids a player that joins after another has left has its number, or
the counter has gone round. Two handlers are enough for one to be confused with the
other; the theorems remove the bounds for the invariants. `room` has about 8.8 million
states and takes two to three minutes, the others less. Deadlock is not checked
because a stopped server is a deadlock of the model.

Fairness (`HandlerFairness`, `FairSpec`): the ticker fires for ever and Go's
select picks among ready arms at random, so the room's step is weakly fair and
its shutdown, ready again at each select, strongly fair. A goroutine blocked on
the full inbox is in the channel's FIFO of senders, so the two posts are strongly
fair. A write ends (the WebSocket has a timeout of 5 s; the pipe has none, and
with a peer that neither reads nor closes this assumption would fail). A read
ends when its context is cancelled; nothing is assumed of a client that stays.

### Finding

`room_flags`: a spectator that joins a CTF room is not told where the flags are
until one of them changes. `handleSpectatorJoin` marks three of the four topics;
`handleJoin` marks all; `docs/protocol.md:287-288` promises `MsgFlagState` to a
newcomer. `StateReachesEveryone` leaves the spectators' flags out for that
reason, and `NewcomerLearnsFlags` states them.

### Theorems (`RoomProofs`)

For all sets of handlers, capacities, rates, numbers of ids, of events and of shots
that satisfy `RoomAssumption` (which asks of the ids only that `MaxPlayers` does not
exceed them):

- `TypeCorrect`: `Spec => []TypeOK`. Inductive as it stands. The search for a
  free number terminates at one (`FirstFreeIsFree`), because a non-empty set of
  numbers has a least member (`LeastId`).
- `MapAndWorldAgree` and `OpenExactlyWhileRegistered`: `SessionsMatchWorld` and
  `QueuesOpenWhileRegistered` are inductive only together, and only with
  `JoinsOnce`: a handler whose join is still queued has no session and no other
  join queued. Without it a second join could register a handler twice or reopen
  its queues. `Membership` is the conjunction with `TypeOK`.
- `SlowSessionsAreDropped`: `NobodyMissesReliable`. Whatever a tick adds to a queue
  and whatever the pump takes between two messages, a refused message leaves a mark
  that no later message takes back, and only registered sessions carry the mark or a
  backlog past the limit, and only between `World.Step` and `dropLaggards`
  (`LateOnlyInTick`).
- `ChangesReachEveryone`: `StateReachesEveryone`. At every point of a tick what a
  session is owed is marked, or its queue has refused a message and it is marked to
  be dropped (`NothingForgotten`): a broadcast that clears a mark has queued the topic
  for every session but those.
- `MailFindsItsSender`: `MailNamesItsSender`. Ids are used again; the invariant says
  that a counter cannot come back to an id before it has passed all the others. While
  fewer ids than there are were drawn since a handler's, the counter stands exactly
  that far beyond its id, going round (`Past`), and under its id the map has the
  handler or nobody (`Counted`); and the maps and every queued leave and input carry
  the id of their own handler (`MapsNumbered`, `MailSigned`, all in `Addressed`).
- `RoomKeepsRoster`: `Spec => KeepsRoster`, from `Membership` and `Addressed`. Three
  facts carry the step that handles an event. A leave finds its sender or nobody
  (`SenderNamed`) while its sender is not stale, although the code removes whoever
  has the number, and one player at most after that. Sessions do not repeat in the
  map, so there are as many players as numbers in use (`PlayingCounted`). And
  `AddPlayer` never refuses a join for want of numbers before the room is full
  (`IdsSuffice`), because there are at least `MaxPlayers` of them.

Only model-checked: the liveness properties, which are out of the prover's reach.

## Session

`Session.tla` is the way out of one session: what is in its two queues, the three
selects of `enqueueSnapshot` and the two of `writePump` as steps of their own, the
transport, and the client's `Attach` and `ReadSnapshot` as far as the order of
messages goes. `Room` has every session but only the lengths of the queues; here
the room may close the queues between any two of its calls, which covers
everything `Room` does to a session.

| TLA+ | Code |
|---|---|
| `room` | where `enqueueSnapshot` is: outside, before its second select, before its third |
| `accepted`, `offered` | how many reliable messages found a place, how many snapshots were enqueued; they number the messages |
| `backlog`, `kick`, `reliable`, `snapshots`, `closed` | the fields of `Session`; both channels are closed together |
| `pump`, `live`, `hand` | where `writePump` is, which local copies of the channels are not nil, the message it writes |
| `game`, `state` | the ordered channel (a WebSocket and a pipe have only this one), and WebRTC's unordered one |
| `client`, `heard`, `shown` | waiting for the JoinAck, or playing; the last message of each kind it read |
| `taken`, `passed`, `drained` | history |

A write ends with the message on its channel or with the pump. Each channel keeps
what it has after the server is gone; a connection that breaks is a client that
receives no more. `rtcConn.recv`, where both channels meet at the client, holds
what has arrived, so it adds no order to the choice between the two.

`Mailbox.tla` is the promise on an ordered transport: reliable messages are heard
in order and without a gap, the JoinAck before everything else, snapshots in
order with gaps. `ClientHearsMailbox` is the refinement, by the identity on the
four counters.

| Run | Instance | Shows |
|---|---|---|
| `session_ordered` | queues of 2, 4 messages of each kind, one channel | the promise of `Mailbox`; `OvertakenOnce` (the pump's priority, up to the race between its two selects); `DrainedMeansDelivered`; `ClosedEndsPump` |
| `session_webrtc` | queues of 2, 4 reliable messages and 3 snapshots, two channels | types and capacities; `NewestSurvives`; `ReliableInOrder` |
| `session_attach` | 2 reliable messages, 1 snapshot, two channels | violation: see below |

Queues of two are the smallest in which evicting the oldest differs from losing
the newest, and twice as many messages as places fill each queue with another
waiting. `ClosedEndsPump` assumes that the pump's goroutine is scheduled and that
its writes end (`FairSpec`), as in `Room`. Deadlock is not checked because a
finished session is a deadlock of the model.

Finding (`session_attach`): over WebRTC the first snapshot can reach the client
before the JoinAck, because the two take different channels. `bot.Attach`, which
ends `DialWebRTC`, takes the first message it reads for the JoinAck
(`bot.go:91`) and fails on any other, so a join that succeeded at the server
fails at the client. `ReliableInOrder` is what still holds there.

Theorems (`SessionProofs`), for all capacities and both transports:
`SessionTypeCorrect` (inductive as it stands); `ReliableFirst`, from `Priority`,
which adds that once a reliable message was passed it is still queued and the pump
is not in its second select, so the next thing it takes is that message; `NewestIsKept`, inductive with the type invariant because
it speaks of the middle of `enqueueSnapshot` too: nobody but the room adds to
the queue, so the place it freed stays free. `DrainedSessionsDeliver`
(`DrainedMeansDelivered`) and `ReliableIsHeardInOrder` (`ReliableInOrder`) follow
from `Numbered`: what was heard, what is on the channel, in the pump's hand and in
the queue are, in that order, the numbers from 1 to `accepted` (`First`, `InOrder`,
`Written`). `SessionKeepsPromise` is the refinement: if the transport has one channel
(`~Unreliable`), `Spec => ClientHearsMailbox`. Its invariant (`Growing`) adds
that numbers grow along the queue and along the channel, and that the JoinAck is
before every snapshot there, for which `Priority` is needed again. Only
`ClosedEndsPump`, a liveness property, is left to the runs.

## Delta snapshots

`Delta.tla` has the algorithms as operators: `Quantize` (the wire's precision),
`Mask`, `Changed` and `Removed` (`EntityFieldMask` and `diffEntities`), `Patch`
(`reconstructor.apply`). A view is a function from ids to entities. The code walks
two slices sorted by kind and id; the result of that merge is what `Same` says,
an entity is the same one if kind and id agree. At the client ids alone are the
keys, and `RoundTrip` says that this is right although an id may pass from a
player to a projectile between two views: it is then in both lists, and the code
removes before it adds.

`DeltaSync.tla` is the stream of one session.

| TLA+ | Code |
|---|---|
| `tick`, `accum` | `World.Tick`, counted from the session's admission, and the rate divider |
| `ackTick`, `ring` | `Session.ackTick`, `Session.baseline.slots` |
| `shots`, `inputs` | snapshots and the `AckTick` of inputs on their way |
| `store`, `order`, `seen` | the reconstructor's maps; `Client.tick`, which is also `Client.ack` |
| `view` | what `ReadSnapshot` returned last |
| `sent` | history: the view coded at each tick |

`Quiet` and `Broadcast` are a tick without and with a snapshot, `HandleInput` the
acknowledgement, `SendInput`, `Skip` and `Apply` the client; `LoseSnapshot` and
`DropInput` are what the channel, a full queue and a full inbox do. A snapshot
evicted from the queue is one that was lost: the code makes it a base before it
knows. `enqueueSnapshot` always finds a place (`NewestIsKept`), so its failure is
left out. Positions are integers in units of `1/Step` of the wire's unit; halves
are rounded up, while `math.Round` rounds them away from zero, and no property
tells the two apart. Interest management only chooses which view is sent, which
here is any of `Views` at every tick. `AppendSnapshot` cannot fail: a view is cut
at `MaxEntities` and a delta is shorter than its view.

`Mirror.tla` is the promise: a client is shown published views, whole, the tick
with its view, newer each time. `ClientMirrorsServer` is the refinement; what was
published is the history `sent` at the wire's precision.

Run `delta_sync`: three views that between them have every case of the diff
(`MCDeltaSync`), a ring of 2, a store of 3, 2 snapshots in 3 ticks from any point
of that cycle, 5 ticks, one input on its way. Slots are overwritten from the third
tick on, the store evicts from the fourth view on, both directions lose, and
snapshots overtake one another. `BasesSuffice` is what the comments of
`reconstruct.go` (lines 18-23) rest the design on. It depends on the two sizes:
with a store of 2 it fails, because a slot whose turn falls on a quiet tick keeps
its view for a second round. Line 10 asks for a store no smaller than the ring; what
the design needs at these rates is one less than twice the ring, which 32 is for 16.

Theorems (`DeltaProofs`), for all views, sizes and rates:

- `RoundTrip`: `Patch(WireView(base), Changed(base, view), Removed(base, view))`
  is `WireView(view)`.
- `StreamTypeCorrect`: ring, store and order stay within their sizes.
- `StreamMirrorsServer`: `Spec => Server!Spec`. The invariant (`Faithful`) is that
  used slots and the client's store agree with `sent` and that each message on its
  way is the coding of the view sent at its tick, against the view sent at its base
  if it has one. `RoundTrip` carries the step that applies it.

- `BasesAreKept`: `BasesSuffice`, if `TurnsOver(Ring, SnapshotRate, TickRate)` (a slot
  passed over by a quiet tick is filled at its next turn) and `Keep >= 2 * Ring - 1`.
  `MCDeltaSync` has TLC evaluate both, for the instance and for the code's 16, 32 and
  20 in 30. The invariant (`Supplied`): the divider's past determines which ticks
  were sent (`Regular`), so a slot keeps its view for less than two rounds (`SlotsAge`)
  and a delta is at most two rounds from its base, with at least one quiet tick
  between if more than one (`Near`); a client that has dropped a tick it acknowledged
  has stored `Keep` later ones (`AcksAreOld`), in increasing order (`InOrder`). So many
  do not fit between a base and its delta: the last step counts them.

The rates come from the environment (`ARENA_SNAPSHOT_RATE`, `config.go:83`). At 17 in 30,
say, `TurnsOver` is false of a ring of 16, and a client whose acknowledgements are lost for
long enough may be sent deltas it has to skip until the slot is overwritten. It is
still never shown a wrong view: `StreamMirrorsServer` holds at all rates.

## Arena

`Arena.tla` is the world of one room (`internal/game` without the room itself). One
step of the world is one action, as it is one call in one goroutine; what is hard
about it is the order of its parts and what one part leaves for the next. Each part
is a function of the world, and `Step` composes them in the order of `World.Step`.

| TLA+ | Code |
|---|---|
| `world.players`, a record each | `World.players`, `Player`: health, death, respawn, cooldown, shield, buffs, streak, weapon and the four scores |
| `world.shots` | `World.projectiles`, in their order |
| `world.pickup`, `flags`, `phase`, `left`, `winner` | one pickup spot, the two flags, the match |
| `world.events` | the events of the step, which the room broadcasts |
| `Inputs`, `Command`, `TryFire` | `processInputs`, `tryFire`, `spawnProjectile` |
| `Fly`, `Flight`, `Vulnerable`, `Explode`, `ApplyDamage`, `RecordKill` | `stepProjectiles`, `findHit`, `explode`, `applyDamage`, `recordKill` |
| `Respawn`, `Pickups`, `Hill`, `Domination`, `Ctf`, `Match` | the systems of the same names |
| `AddPlayer`, `RemovePlayer` | the calls of the room between two steps |
| `fired`, `exposed` | history: who has fired in the last step; who has joined, fired or completed a streak since the match began |

Abstractions:

- Geometry is a choice. Each tick every player is at one of the places of the
  scenario, and a projectile reaches any set of the others and may meet a wall or
  the edge (`Fate`). Movement, collision and rewinding decide which of these
  happens; what the code does with it is not a choice. Who is served first among
  several is decided by the order of the ids, as in the code.
- A tick is kept as the time that remains (`respawnAt - Tick` and so on), so the
  clock does not grow.
- A player has one input per tick. `EnqueueInput` drops what is old or too much, and
  an input beyond the first would only move its player again or meet the cooldown.
- The anti-cheat counters, the sorting of the table and the choice of a spawn point
  decide nothing here.

Run `arena`: seven scenarios, each a mode with the players, inputs and places that
make it interesting (`MCArena`): a duel with a rocket and a player who leaves; three
players and two weapons, where one may be hit by several shots in one tick; pickups
and their buffs; teams with a late player; capture the flag with bases and the
ring of a base the flag cannot be touched from; the hill; two zones of domination. A
match of 4 ticks and an intermission of 2 fit one respawn each side of the
end of a match, and shots that live 2 ticks can outlive their shooter and their
match. Buffs of 2 ticks last into the shots of the next one. Health of 2, streaks of 2
and 2 shots at a time put every cap within reach.
`MaxDeaths` bounds the deaths of a match. Deadlock is checked: the world can always
be stepped.

| Property | What it would take to break it |
|---|---|
| `TypeOK` | a dead player is at no health, or at full health if a streak his shots completed after his death healed him; nobody alive is at none |
| `NoShotFromLastMatch` | a match that begins while shots are in the air: only the shield of the respawn keeps them from counting, and it must outlast them (`ShieldOutlastsShots`) |
| `HitsAreFair` | a shield gained or lost, a switch of weapons, or a death between two projectiles of one tick |
| `FlagsAreHeld`, `OneCapture` | carriers who die, respawn, leave, or go through an intermission; two captures in one tick |
| `WinnerIsBest` | draws, empty sides, and the score of another mode |
| `EveryoneReturns` | a death around the end of a match, or a reward after death |

Two observations that are no findings: kills in the intermission are counted
until the next match clears them, and the winner is the lowest id or team 0 in a draw,
even without a point. Nothing in the repository says otherwise.

Theorems (`ArenaProofs`), for any number of players and projectiles, all modes, weapons
and durations that satisfy `ArenaAssumption` and `ScenarioAssumption`; together they state
every property of the run, and one more:

- `TypeIsCorrect`: `TypeOK`.
- `FlagsStayHeld`: `FlagsAreHeld`. `CapturesAreSingle`: `OneCapture`; the two teams are
  served in order, and the first capture sends home the flag the second would need.
- `HitsStayFair`: `HitsAreFair`. `TheBestWins`: `WinnerIsBest`. `TheDeadReturn`:
  `EveryoneReturns`.
- `OneSideGetsPaid`: `OneSideIsPaid`, which no run checks: contested zones pay nobody, and
  nobody is paid outside an active match.
- `OldShotsAreHarmless`: `NoShotFromLastMatch`, if `ShieldOutlastsShots`. `MCArena` has TLC
  evaluate that for the instance; in the code the shield of a respawn and a projectile both
  last 60 ticks (`killstreak.go:25`, `combat.go:22`), a match 5400 and an intermission 300.

A `Step` is a chain of functions of the world. Each part has a relation that says what it may
change (`Commanded`, `Fought`, `Scored`, `Carried`, `Later`, and `GoesOn`, `Ends` or `Begins`
for the match), a lemma that the part stays within it, and `Stages` strings them together;
each theorem is then about the few stages that matter to it. Most parts are folds over
players or shots. The library's induction theorems cannot be instantiated here, so
`FoldProofs` proves once that a fold has a sequence of intermediate values (`FoldExists`)
and that what holds before the first and is kept from each to the next holds after the last,
and each fold of `Arena` has a lemma of its own that follows this pattern.

The inductive invariant (`Invariant`) adds to the types what they need of one another: a
shot carries the team of its owner while he is there (`Loyal`); a flag is carried exactly
if it has a carrier, and in an active match by a living enemy (`Held`), which an intermission
leaves open because nobody moves a flag in it and the match after it sends all flags home;
nobody who is still to join owns a shot or a flag (`Unknown`), which is where it matters that
ids are not used twice; and time is left in each phase between two steps.
For old shots (`Spent`): no shot of an earlier match is left when another begins, and who
has not been exposed has at least as much shield left as any such shot has life.

The first attempt at `OldShotsAreHarmless` failed for a reason in the code: the shield of a
completed streak (`killstreak.go:46`, 45 ticks) replaces whatever shield the player has, also
the longer one of a respawn. Whoever completes a streak in the first ticks of a match with
shots of his own from the last one can be hit by a shot as old, so `exposed` counts him.
Nothing in the repository says otherwise.

## Accounts

`Accounts.tla` has the operations of `internal/account` with the handlers of
`internal/api` that call them, the automatic ban of `internal/persist`, and the
statements of `internal/store` they run.

| TLA+ | Code |
|---|---|
| `accounts`, `refresh`, `mail`, `bans`, `cheats` | the tables, one record per row |
| `issued` | the autoincrement of `refresh_tokens` |
| `access` | until when a signed access token is valid; its role is the one in the table, as `requireRole` reads it there |
| `req` | for every handler, and for the persister, the call it makes next and what it has read |
| `condemned` | history: families a request has reported as revoked |

A request is a sequence of calls of the store. Each call is a step (but
`requireRole`, whose look at the role and at the ban is one, `Moderate`), so requests
interleave between their calls, and any call may fail (`Fail`), which ends the
request where it stands, as every `if err != nil` does, and covers a process that
dies there. Two calls are longer: the rotation of a refresh token (`Rotate`,
`RotateInsert`), a transaction, and the `UPDATE` that revokes many rows (`Revoke`,
`RevokeDone`). With SQLite the pool has one connection (`sqlite.go:19`,
`OneConnection`) and nothing runs between their halves. With PostgreSQL they run at
READ COMMITTED: the `UPDATE` takes the rows of its snapshot, waits for those that
are locked, and never sees rows inserted meanwhile. The databases are modelled by
what the store's statements rely on.

A token stands for its secret and its hash. Passwords are the number of their
changes. Reports, statistics and guests write nothing the rest reads.

| Run | Shows |
|---|---|
| `accounts` | on one connection: `OneLivePerFamily`, `CondemnedStaysDead`, `MailSpentOnce`, `OneSystemBan` |
| `accounts_postgres` | violation of `CondemnedStaysDead` |

Two accounts, two handlers, the persister and at most 4 rows, in six scenarios of
endpoints that touch the same rows (`MCAccounts`). Two handlers are enough for a
race over one row; four rows are a login, two refreshes and one more token, or two
mails and two bans. The clock goes from 0 to 1 and tokens live to the end of their
tick, so that everything can expire between any two calls. The handlers are
interchangeable, and no temporal property is checked. Deadlock is not checked because
a full bound stops everything.

Finding (`accounts_postgres`): a rotation that has revoked its row and not yet
committed lets a concurrent logout, reset or ban report success and then commits the
child token, which stays valid. `account.go:269` says that a logout revokes the whole
session; on PostgreSQL (`sql.go:355`) it need not.

Theorems (`AccountsProofs`), for all accounts, handlers, lifetimes and failures:

- `AccountsTypeCorrect`: `TypeOK`, on both databases.
- `RotationKeepsOneLive`: `OneLivePerFamily`, on both databases. The invariant
  (`Rows`) is that a row's id is not above `issued`, that ids are unique, and that a
  rotation between its halves has revoked the only live row of its family. The
  conditional `UPDATE` and its row lock are all it needs.
- `RevocationIsFinal`: `CondemnedStaysDead` if `OneConnection`. The invariant
  (`Dead`) is that no rotation is between its halves when a revocation is, and
  that a condemned family has no live row.
- `SystemBanIsSingle`: `OneSystemBan`. The invariant (`Single`) is that the
  persister, being the only one to write such bans, finds none in force from its
  look-up to its insert; bans of moderators and lifting them only help.
- `MailIsSpentOnce`: `MailSpentOnce`, on both databases. The invariant (`Mailed`): mails
  are numbered uniquely, and the changes of a password made, with the requests that have
  spent a reset token and are about to make one, are no more than the spent reset
  tokens of the account (`Backed`, `Confirming`). The conditional `UPDATE` that spends a
  token lets one of two racing requests through.

## Lobby

`Lobby.tla` is what surrounds the rooms: the gate and the gateway that let
connections in, the hub, the bot filler, the persister, and the order in which all
of it stops. A client is a human connection or a bot; both join through the inbox of
a room and run a session there.

| TLA+ | Code |
|---|---|
| `pc`, `room` | where the goroutine of a client is, and the room it was sent to |
| `slots` | `ConnLimiter.count` |
| `rooms`, `inbox`, `members` | `Hub.rooms`; of every room the channel and the published players |
| `fill`, `tracked`, `stopping` | the reconcile loop with its locals, `Filler.bots`, the bots asked to go |
| `main`, `queue`, `persister` | how far `shutdown` has come, the persist channel, the persister's loop |
| `waited`, `panicked` | history: the rooms main has waited for; those that sent on the closed channel |
| `Connect`, `HandshakeFails`, `Assign`, `PostJoin`, `AbandonJoin`, `Release` | the join gate, `serve`, `Hub.Assign`, `Room.Join`, the deferred release |
| `Disconnect`, `SessionEnds`, `PostLeave`, `RunReturns` | the end of a session, by its client, by the room or by the server |
| `Handle`, `Drop`, `SendPersist`, `StopRoom` | the room: an event, a session dropped as too slow, a kill to record, the end of `Run` |
| `Reconcile`, `VisitRoom`, `AskState`, `Count`, `AddBot`, `BotJoined`, `StopNewest`, `Adjusted`, `FillerStops` | `Filler.Run`, `reconcile`, `reconcileRoom`, `addBot`, `stopNewest` |
| `Signal`, `ShutHttp`, `WaitRooms`, `WaitFiller`, `Exit`, `ExitLate` | `main` and `shutdown` in their order; `Persist` is `Persister.Run` |

The room is `Room` reduced to what its neighbours see (`Roster`). A leave is posted by the
session's own goroutine and handled later, which is where the two counts of the
filler part. A join that its client abandons before the answer, and spectators, are
in `Room` only. A bot's name is free again once nobody refers to it.

Run `lobby`: six scenarios. One human and three bots at the target; two humans who
make bots yield while one session is dropped; a stop with bots; three connections of
one address against a limit of 2; four of two addresses against a room of 3 places;
a stop while the room has a kill to record. There is one room of 3 places, an inbox
of 2 and a persist channel of 1: each of the three is full at some point, and the
hub meets its limit. With one room, several handlers are sent to its last place.

| Property | Shows |
|---|---|
| `TypeOK` | rooms, inboxes and members stay within their limits, and the filler's list names bots of that room |
| `SlotsMatchConnections` | every path of a handler gives its slot back once |
| `NoPhantomHumans` | bots on their way out are never taken for humans |
| `FillerConverges` | for good as many bots as the humans call for, once no tick of the filler falls between a bot's leave and its return |
| `NothingLost` | an exit within the grace has written everything handed over; no room main waited for sends on the closed channel |
| `ServerStops` | the signal always ends in an exit |

Fairness: handlers, sessions, rooms, the filler, the persister and main are goroutines
that are scheduled when they can move, hence weakly fair; nothing is assumed of humans,
of the signal or of the grace. `FillerStops` is strongly fair because `Filler.Run`
selects at random between its ticker and the cancelled context.

Two things the run taught, neither of them a violation of something written down.
A bot that has left and not returned is subtracted from the humans, so for that tick
the filler sees too few of them and may stop a bot it will add again; if its
period kept meeting that moment it would never settle, hence `OnTime`. And bots can take
the last places of the last room: the hub then refuses a human for whom the filler
would make way once he is in.

`NothingLost` speaks of the rooms main has waited for. Main never sets `Hub.closed`,
and `Server.Shutdown` leaves hijacked connections alone, so a handler that has read
its Join before the signal may start a room after `Hub.Wait` has returned, while
`main.go:258` says nobody sends any more. The model has that room: it lives until a
select of its loop takes the arm of the cancelled context (while the ticker is ready too
the choice is random, so it may run some ticks), and `panicked` would record its send.

Theorems (`LobbyProofs`), for any number of connections, addresses, rooms and bots:

- `SlotsAreExact`: `SlotsMatchConnections`, inductive with the types of `pc` and
  `slots` (`Counted`).
- `NothingIsLost`: `NothingLost`. The invariant (`HandedOver`): rooms that main has
  waited for do not run and never run again; the persister is done only with the
  channel closed and empty, and nothing is added to a closed channel.
- `RoomsStayWithinLimits`: the first conjunct of `TypeOK` (`WithinLimits`), with the
  types of rooms, inboxes and members (`Housed`). The hub's look at the count is
  not part of the argument: only the room's own check in `handleJoin` is.

- `LobbyTypeCorrect`: all of `TypeOK`. Two parts join `Counted` and `Housed`. `Sent`:
  whoever has a letter in the inbox of a room or is counted by it was sent to that
  room, and a human before its assignment is known to none; so nobody who is sent
  somewhere is still a member elsewhere. `Listed`: a list names bots of its room, each
  once, the filler is in a room of its snapshot, and the bot it is adding is in no list
  yet. What `reconcileRoom` leaves of a list is a fold; `FoldExists` (`FoldProofs`)
  gives its intermediate lists, and each keeps the bots seen so far that have not
  returned, once each (`LiveEffect`).
- `BotsAreNoHumans`: `NoPhantomHumans`. The invariant (`Told`, until the signal) follows
  the letters under way. No room stops. A bot that is counted and has left has its
  leave in the inbox (`PostLeave` waits for its place). The only join of a bot is that
  of the bot the filler waits for, and no room counts it yet. The only State is the
  filler's, and the leave of every bot it has forgotten that is still counted stands
  before it (`Seen`, `Before`); an inbox is a queue, so when the State is answered
  those have left. Hence at `Count` every counted bot is in the list, once by `Listed`:
  without a human the members are no more than the list, and no bot is wanted. After
  the signal a leave may be lost (`GivesUp`) and the property says nothing.

- `LobbyRoomsKeepRosters`: each room of `Lobby` implements `Roster`
  (`RoomsKeepRosters`, one instance of `Roster` per room), from `Housed`. Handlers, bots
  and the filler only post letters; nothing but its own steps changes a room. A State
  is a letter without effect, and a room that was not started is an empty open one.
  Clients stand for their numbers here, so nobody is stale.
  With `RoomKeepsRoster` this is the link between the two modules: to whom admission,
  removal and the count are all that matters, the rooms of both are the same.

`FillerConverges` and `ServerStops` are liveness properties and stay with TLC.

## What is only model-checked

Liveness, which the prover has no rules for beyond propositional temporal logic:
`JoinReturns`, `RunReturnsEventually`, `RemovedSessionEnds`, `NoGhosts` and
`ShutdownCompletes` of `Room`, `ClosedEndsPump` of `Session`, `FillerConverges` and
`ServerStops` of `Lobby`. The invariants and action properties of all passing runs are
theorems; those of a run that expects a violation are false as the code stands
(`CondemnedStaysDead` is proved for one connection to the database).

## Not modelled

- Movement, collision, the interest grid, rewinding positions and bot steering are
  geometry over floats.
- The wire formats, the precision of a snapshot aside, are byte layouts without
  state, covered by golden files.
- Token buckets (`ratelimit/limiter.go`) are arithmetic over floats of seconds; a
  refusal by one is like a refusal by the limit of an address, which is in `Lobby`.
  The evenness of the rate divider over a second is arithmetic on one counter, for
  which the code has a unit test.
- WebRTC signalling and the close of a pipe: a connection may break at any time, and
  what was sent may be lost with it, in every module that has a connection.
- Reports, statistics and match results in the store: rows nobody decides on.
  Migrations run before anything else.
- Password hashing, mail, configuration, metrics, tracing, the load tool and the web
  client touch nothing the properties speak of.
- Replay promises a deterministic float simulation, which TLC cannot evaluate.
