-------------------------------- MODULE Arena --------------------------------
(***************************************************************************)
(* The rules of the game: one Step of the world (internal/game), with      *)
(* weapons, projectiles, deaths and respawns, killstreaks, pickups, the    *)
(* hill, domination, capture the flag and the phases of the match.         *)
(*                                                                         *)
(* Step is one action: its parts run in the order of the code, each a      *)
(* function of the world, and players are served in the order of their     *)
(* ids wherever that order decides.  Geometry is a choice: each tick every *)
(* player is at one of a few places, and every projectile reaches some     *)
(* players and perhaps a wall or the edge of the map; what the code does   *)
(* with that is not a choice.  A tick of the code is kept as the number of *)
(* ticks that remain (respawnAt - Tick and so on), so the clock does not   *)
(* grow.  The kind of a pickup stands for the world's rng.                 *)
(***************************************************************************)
EXTENDS Integers, FiniteSets, Sequences, SequencesExt, FiniteSetsExt, Functions

CONSTANTS
    MaxId,          \* bound of the model: ids of players are 1 .. MaxId
    MaxHP, MedkitHeal, RespawnDelay, SpawnShield,
    StreakStep, StreakShield,
    ProjectileLife, MaxProjectiles,
    Weapons,        \* weaponSpecs: pellets, damage, cooldown and splash of a weapon
    SpreadCount, BuffTime, PickupDelay,
    MatchTime, Intermission, FlagReturn,
    Scenario,       \* bound of the model: modes, players, inputs and places used together
    MaxDeaths       \* bound of the model: deaths per match

ASSUME ArenaAssumption ==
    /\ MaxId \in Nat
    /\ {RespawnDelay, SpawnShield, MedkitHeal, MaxDeaths, MaxProjectiles,
        BuffTime, PickupDelay, FlagReturn} \subseteq Nat
    /\ {MaxHP, MatchTime, Intermission, StreakStep, StreakShield, ProjectileLife, SpreadCount}
         \subseteq Nat \ {0}
    /\ "pistol" \in DOMAIN Weapons
    /\ \A weapon \in DOMAIN Weapons :
         Weapons[weapon] \in [pellets : Nat \ {0}, damage : Nat, cooldown : Nat, splash : Nat]

\* What the code tells apart of where a player is: on the pickup's spot, on the
\* hill or in a zone of domination, at the flag of a base, in its ring, elsewhere.
Place == {"field", "spot", "hill", "zoneA", "zoneB", "base0", "base1", "ring0", "ring1"}

\* A player is either there from the start or joins later, once.
ASSUME ScenarioAssumption ==
    /\ Scenario \subseteq
         [mode : [team : BOOLEAN, hill : BOOLEAN, dom : BOOLEAN, ctf : BOOLEAN],
          present : SUBSET (1 .. MaxId), late : SUBSET (1 .. MaxId), leaving : SUBSET (1 .. MaxId),
          inputs : [1 .. MaxId -> SUBSET [select : {"none"} \union DOMAIN Weapons, fire : BOOLEAN]],
          places : [{0, 1} -> SUBSET Place], stops : SUBSET {"no", "wall"},
          kinds : SUBSET {"medkit", "rapid", "spread"}]
    /\ \A s \in Scenario : s.present \cap s.late = {}

VARIABLES
    scenario,   \* constant: mode and bounds of this behaviour
    world,      \* the World: players, shots, pickup, flags, phase, left, winner, events
    fired,      \* history: who fired in the last Step
    exposed     \* history: who has joined, fired or had a streak since the match began

vars == <<scenario, world, fired, exposed>>

Id == 1 .. MaxId
Team == {0, 1}
Mode == scenario.mode      \* of FALSE and TRUE: team, hill, dom, ctf
Order == [id \in Id |-> id]     \* World.order, with the ids of nobody
Lower(a, b) == IF a < b THEN a ELSE b

NewPlayer(team) ==
    [team |-> team, hp |-> MaxHP, dead |-> FALSE, respawn |-> 0, wait |-> 0,
     rapid |-> 0, spread |-> 0, shield |-> 0, streak |-> 0, weapon |-> "pistol",
     kills |-> 0, deaths |-> 0, hill |-> 0, dom |-> 0, captures |-> 0]

AtBase == [status |-> "base", carrier |-> 0, place |-> "field", drop |-> 0]
Living(w) == {id \in DOMAIN w.players : ~w.players[id].dead}
InTeam(w, t) == {id \in DOMAIN w.players : w.players[id].team = t}
Event(w, e) == [w EXCEPT !.events = Append(@, e)]

-----------------------------------------------------------------------------
(* Inputs and shots. *)

(* tryFire and spawnProjectile: a shot takes its cooldown and ends the     *)
(* shield even if the cap leaves room for some of its pellets only. *)
TryFire(w, id) ==
    LET p == w.players[id]
        spec == Weapons[p.weapon]
        cooldown == IF p.rapid > 0 THEN Max({spec.cooldown \div 3, 1}) ELSE spec.cooldown
        pellets == IF p.spread > 0 /\ spec.pellets = 1 THEN SpreadCount ELSE spec.pellets
        shot == [owner |-> id, team |-> p.team, weapon |-> p.weapon,
                 life |-> ProjectileLife, old |-> FALSE]   \* old: history, fired before this match
    IN  IF p.wait > 0 \/ Len(w.shots) >= MaxProjectiles
          THEN w
          ELSE [w EXCEPT !.players[id].wait = cooldown,
                         !.players[id].shield = 0,
                         !.shots = @ \o [k \in 1 .. Lower(pellets, MaxProjectiles - Len(w.shots)) |-> shot]]

(* An input of a living player; the weapon it selects is the one it fires. *)
Command(w, id, input) ==
    LET armed == IF input.select = "none" THEN w ELSE [w EXCEPT !.players[id].weapon = input.select]
    IN  IF w.players[id].dead THEN w
        ELSE IF input.fire THEN TryFire(armed, id) ELSE armed

Inputs(w, input) ==
    FoldLeft(LAMBDA u, id : IF id \in DOMAIN w.players THEN Command(u, id, input[id]) ELSE u,
             w, Order)

-----------------------------------------------------------------------------
(* Projectiles and damage. *)

(* recordKill, for an attacker who is still in the world, dead or alive. *)
RecordKill(w, id) ==
    LET streak == w.players[id].streak + 1
        counted == [w EXCEPT !.players[id].kills = @ + 1, !.players[id].streak = streak]
    IN  IF streak % StreakStep # 0 THEN counted
        ELSE Event([counted EXCEPT !.players[id].hp = MaxHP, !.players[id].shield = StreakShield],
                   [kind |-> "killstreak", target |-> id])

ApplyDamage(w, victim, shot, damage) ==
    LET hp == Max({w.players[victim].hp - damage, 0})
        hit == Event([w EXCEPT !.players[victim].hp = hp],
                     [kind |-> "hit", attacker |-> shot.owner, target |-> victim, old |-> shot.old])
        dead == Event([hit EXCEPT !.players[victim].dead = TRUE,
                                  !.players[victim].respawn = RespawnDelay,
                                  !.players[victim].deaths = @ + 1,
                                  !.players[victim].streak = 0],
                      [kind |-> "death", attacker |-> shot.owner, target |-> victim])
    IN  IF w.players[victim].hp = 0 THEN w
        ELSE IF hp > 0 THEN hit
        ELSE IF shot.owner # victim /\ shot.owner \in DOMAIN w.players
               THEN RecordKill(dead, shot.owner)
               ELSE dead

BadVulnerable(w, id, shot) ==   \* mutant: the shield is forgotten
    /\ id # shot.owner
    /\ ~w.players[id].dead
    /\ ~(Mode.team /\ w.players[id].team = shot.team)

(* Who a projectile can hurt: the guards findHit and explode share. *)
Vulnerable(w, id, shot) ==
    /\ id # shot.owner
    /\ ~w.players[id].dead
    /\ w.players[id].shield = 0
    /\ ~(Mode.team /\ w.players[id].team = shot.team)

(* findHit: the lowest id among those on the way. *)
Victims(w, shot, fate) == {id \in fate.reach : Vulnerable(w, id, shot)}

(* explode: everyone within the radius, by the distance, in order. *)
Explode(w, shot, fate) ==
    FoldLeft(LAMBDA u, id : IF id \in DOMAIN w.players /\ Vulnerable(u, id, shot) /\ fate.splash[id] > 0
                              THEN ApplyDamage(u, id, shot, fate.splash[id]) ELSE u,
             w, Order)

(* One projectile of stepProjectiles. *)
Flight(w, shot, fate) ==
    LET victims == Victims(w, shot, fate)
        spec == Weapons[shot.weapon]
        hit == IF spec.splash > 0
                 THEN IF victims # {} \/ fate.stop = "wall" THEN Explode(w, shot, fate) ELSE w
                 ELSE IF victims # {} THEN ApplyDamage(w, Min(victims), shot, spec.damage) ELSE w
        gone == victims # {} \/ fate.stop # "no" \/ shot.life <= 1
    IN  IF gone THEN hit ELSE [hit EXCEPT !.shots = Append(@, [shot EXCEPT !.life = @ - 1])]

(* The ways a projectile may fly this tick. A rocket that touches a player *)
(* bursts close enough to hurt him. *)
Fate(w, shot) ==
    LET others == DOMAIN w.players \ {shot.owner}
        splash == Weapons[shot.weapon].splash
    IN  {f \in [reach : SUBSET others, stop : scenario.stops, splash : [DOMAIN w.players -> 0 .. splash]] :
            /\ f.reach # {} /\ splash > 0 => \A id \in f.reach : f.splash[id] > 0
            /\ f.reach = {} /\ f.stop # "wall" => \A id \in others : f.splash[id] = 0
            /\ shot.owner \in DOMAIN w.players => f.splash[shot.owner] = 0}

Fly(w, fates) ==
    FoldLeft(LAMBDA u, k : Flight(u, w.shots[k], fates[k]), [w EXCEPT !.shots = << >>],
             [k \in 1 .. Len(w.shots) |-> k])

(* respawn, of the dead whose time has come and, at the start of a match,  *)
(* of the living. *)
BadRespawned(p) ==   \* mutant: without health
    [p EXCEPT !.dead = FALSE, !.wait = 0, !.rapid = 0, !.spread = 0, !.shield = SpawnShield]
Respawned(p) ==
    [p EXCEPT !.hp = MaxHP, !.dead = FALSE, !.wait = 0, !.rapid = 0, !.spread = 0,
              !.shield = SpawnShield]
BadRespawn(w) ==   \* mutant: who was healed after his death is taken for alive
    [w EXCEPT !.players = [id \in DOMAIN w.players |->
        LET p == w.players[id] IN
        IF p.dead /\ p.respawn = 0 /\ p.hp = 0 THEN Respawned(p) ELSE p]]
Respawn(w) ==
    [w EXCEPT !.players = [id \in DOMAIN w.players |->
        LET p == w.players[id] IN IF p.dead /\ p.respawn = 0 THEN Respawned(p) ELSE p]]

-----------------------------------------------------------------------------
(* Pickups. *)

ApplyPickup(p, kind) ==
    CASE kind = "medkit" -> [p EXCEPT !.hp = Lower(@ + MedkitHeal, MaxHP)]
      [] kind = "rapid" -> [p EXCEPT !.rapid = BuffTime]
      [] kind = "spread" -> [p EXCEPT !.spread = BuffTime]

(* stepPickups, for the one spot of the model. *)
Pickups(w, place, kind) ==
    LET takers == {id \in Living(w) : place[id] = "spot"}
    IN  CASE ~w.pickup.active /\ w.pickup.ready = 0 ->
               [w EXCEPT !.pickup = [active |-> TRUE, kind |-> kind, ready |-> 0]]
          [] w.pickup.active /\ takers # {} ->
               [w EXCEPT !.players[Min(takers)] = ApplyPickup(@, w.pickup.kind),
                         !.pickup = [active |-> FALSE, kind |-> "none", ready |-> PickupDelay]]
          [] OTHER -> w

-----------------------------------------------------------------------------
(* The hill and domination. *)

Side(w, id) == IF Mode.team THEN w.players[id].team ELSE id
Inside(w, place, zone) == {id \in Living(w) : place[id] = zone}

(* Those a zone pays: all inside, if they are of one side. *)
Holders(w, place, zone) ==
    LET inside == Inside(w, place, zone)
    IN  IF Cardinality({Side(w, id) : id \in inside}) = 1 THEN inside ELSE {}

Hill(w, place) ==
    IF ~Mode.hill \/ w.phase # "active" THEN w
    ELSE [w EXCEPT !.players = [id \in DOMAIN w.players |->
             IF id \in Holders(w, place, "hill") THEN [w.players[id] EXCEPT !.hill = @ + 1]
                                                 ELSE w.players[id]]]

Zones == {"zoneA", "zoneB"}
Domination(w, place) ==
    IF ~Mode.dom \/ w.phase # "active" THEN w
    ELSE [w EXCEPT !.players = [id \in DOMAIN w.players |->
             IF \E zone \in Zones : id \in Holders(w, place, zone)
               THEN [w.players[id] EXCEPT !.dom = @ + 1] ELSE w.players[id]]]

-----------------------------------------------------------------------------
(* Capture the flag. *)

Base(t) == IF t = 0 THEN "base0" ELSE "base1"
Ring(t) == IF t = 0 THEN "ring0" ELSE "ring1"   \* inside the base, out of reach of the flag

BadCarry(w, place, t) ==   \* mutant: the flag stays with a carrier who dies
    LET f == w.flags[t] IN
    CASE f.status = "carried" /\ f.carrier \notin DOMAIN w.players -> AtBase
      [] f.status = "dropped" /\ f.drop = 0 -> AtBase
      [] OTHER -> f

(* Part 0 of stepCTF: carriers that are gone or dead, flags left too long. *)
Carry(w, place, t) ==
    LET f == w.flags[t] IN
    CASE f.status = "carried" /\ f.carrier \notin DOMAIN w.players -> AtBase
      [] f.status = "carried" /\ f.carrier \in DOMAIN w.players \ Living(w) ->
           [status |-> "dropped", carrier |-> 0, place |-> place[f.carrier], drop |-> FlagReturn]
      [] f.status = "dropped" /\ f.drop = 0 -> AtBase
      [] OTHER -> f

(* Part 1: a living player touches a flag that is not carried. *)
Touch(w, id, t, place) ==
    LET f == w.flags[t]
        near == place[id] = IF f.status = "base" THEN Base(t) ELSE f.place
    IN  CASE f.status = "carried" \/ ~near -> w
          [] w.players[id].team = t -> [w EXCEPT !.flags[t] = AtBase]
          [] OTHER -> [w EXCEPT !.flags[t] = [AtBase EXCEPT !.status = "carried", !.carrier = id]]

BadCapture(w, id, place) ==   \* mutant: the own flag need not be at home
    LET t == w.players[id].team
        f == w.flags[1 - t]
    IN  IF /\ f.status = "carried" /\ f.carrier = id
           /\ place[id] \in {Base(t), Ring(t)}
          THEN Event([w EXCEPT !.flags[1 - t] = AtBase, !.players[id].captures = @ + 1],
                     [kind |-> "capture", target |-> id])
          ELSE w

(* Part 2: the carrier of the enemy's flag is at his base, his own flag    *)
(* too. *)
Capture(w, id, place) ==
    LET t == w.players[id].team
        f == w.flags[1 - t]
    IN  IF /\ f.status = "carried" /\ f.carrier = id
           /\ w.flags[t].status = "base"
           /\ place[id] \in {Base(t), Ring(t)}
          THEN Event([w EXCEPT !.flags[1 - t] = AtBase, !.players[id].captures = @ + 1],
                     [kind |-> "capture", target |-> id])
          ELSE w

Touched(w, place) ==
    FoldLeft(LAMBDA u, id : IF id \in Living(w)
                              THEN Touch(Touch(u, id, 0, place), id, 1, place) ELSE u,
             [w EXCEPT !.flags = [t \in Team |-> Carry(w, place, t)]], Order)
Captured(w, place) ==
    FoldLeft(LAMBDA u, id : IF id \in Living(w) THEN Capture(u, id, place) ELSE u, w, Order)

Ctf(w, place) ==
    IF ~Mode.ctf \/ ~Mode.team \/ w.phase # "active" THEN w
    ELSE Captured(Touched(w, place), place)

-----------------------------------------------------------------------------
(* The match. *)

Score(w, id) ==
    LET p == w.players[id] IN
    CASE Mode.hill -> p.hill [] Mode.dom -> p.dom [] Mode.ctf -> p.captures [] OTHER -> p.kills
TeamScore(w, t) ==
    FoldLeft(LAMBDA sum, id : IF id \in InTeam(w, t) THEN sum + Score(w, id) ELSE sum, 0, Order)

BadWinner(w) ==   \* mutant: capture the flag is decided by kills
    LET kills(t) == MapThenSumSet(LAMBDA id : w.players[id].kills, InTeam(w, t))
        best == {id \in DOMAIN w.players : \A o \in DOMAIN w.players : Score(w, o) <= Score(w, id)}
    IN  IF Mode.team THEN IF kills(1) > kills(0) THEN 1 ELSE 0
        ELSE IF best = {} THEN 0 ELSE Min(best)

(* endMatch: the side with the highest score; team 0 or the lowest id in a *)
(* draw. *)
Winner(w) ==
    LET best == {id \in DOMAIN w.players : \A o \in DOMAIN w.players : Score(w, o) <= Score(w, id)}
    IN  IF Mode.team THEN IF TeamScore(w, 1) > TeamScore(w, 0) THEN 1 ELSE 0
        ELSE IF best = {} THEN 0 ELSE Min(best)

(* MatchResult, taken by the room at the end of the match. *)
Won(w) == {id \in DOMAIN w.players :
              IF Mode.team THEN w.players[id].team = w.winner ELSE id = w.winner}

BadFresh(p) ==   \* mutant: a new match does not respawn the living
    [p EXCEPT !.kills = 0, !.deaths = 0, !.hill = 0, !.dom = 0, !.captures = 0, !.streak = 0]

Fresh(p) ==
    LET cleared == [p EXCEPT !.kills = 0, !.deaths = 0, !.hill = 0, !.dom = 0,
                             !.captures = 0, !.streak = 0]
    IN  IF p.dead THEN cleared ELSE Respawned(cleared)

(* stepMatch, after the tick. *)
Match(w) ==
    CASE w.left = 0 /\ w.phase = "active" ->
           [w EXCEPT !.phase = "intermission", !.left = Intermission, !.winner = Winner(w)]
      [] w.left = 0 /\ w.phase = "intermission" ->
           [w EXCEPT !.phase = "active", !.left = MatchTime, !.winner = 0,
                     !.players = [id \in DOMAIN w.players |-> Fresh(w.players[id])],
                     !.flags = [t \in Team |-> AtBase],
                     !.shots = [k \in DOMAIN w.shots |-> [w.shots[k] EXCEPT !.old = TRUE]]]
      [] OTHER -> w

(* Tick++: one tick less until everything that is due. *)
Less(n) == Max({n - 1, 0})
Elapse(w) ==
    [w EXCEPT !.left = Less(@),
              !.pickup.ready = Less(@),
              !.flags = [t \in Team |-> [w.flags[t] EXCEPT !.drop = Less(@)]],
              !.players = [id \in DOMAIN w.players |->
                 [w.players[id] EXCEPT !.respawn = Less(@), !.wait = Less(@), !.rapid = Less(@),
                                       !.spread = Less(@), !.shield = Less(@)]]]

-----------------------------------------------------------------------------
(* World.Step, with the input of every player, the fate of every           *)
(* projectile, the place where every player then is, and the pickup drawn. *)
MayFire == MapThenSumSet(LAMBDA id : world.players[id].deaths, DOMAIN world.players) < MaxDeaths
Input(id) ==
    IF world.players[id].dead THEN {[select |-> "none", fire |-> FALSE]}
    ELSE {i \in scenario.inputs[id] : i.fire => MayFire}
PlaceOf(w, id) ==
    IF id \in Living(w) \/ \E t \in Team : w.flags[t].carrier = id
      THEN scenario.places[w.players[id].team] ELSE {"field"}

Rewarded(w) == {e.target : e \in {f \in Range(w.events) : f.kind = "killstreak"}}
OneOfEach(options) ==
    {f \in [DOMAIN options -> UNION Range(options)] : \A x \in DOMAIN options : f[x] \in options[x]}

Step ==
    \E input \in OneOfEach([id \in DOMAIN world.players |-> Input(id)]) :
    LET commanded == Inputs([world EXCEPT !.events = << >>], input)
        shots == commanded.shots
        shooters == {shots[k].owner : k \in Len(world.shots) + 1 .. Len(shots)}
    IN
    \E fates \in OneOfEach([k \in DOMAIN shots |-> Fate(commanded, shots[k])]) :
    LET respawned == Respawn(Fly(commanded, fates)) IN
    \E place \in OneOfEach([id \in DOMAIN world.players |-> PlaceOf(respawned, id)]),
       kind \in IF world.pickup.ready = 0 THEN scenario.kinds ELSE {"none"} :
    LET played == Ctf(Domination(Hill(Pickups(respawned, place, kind), place), place), place) IN
    /\ world' = Match(Elapse(played))
    /\ fired' = shooters
    /\ exposed' = IF world.phase = "intermission" /\ world'.phase = "active"
                    THEN {} ELSE exposed \union shooters \union Rewarded(played)
    /\ UNCHANGED scenario

(* AddPlayer: the smaller team, the lower in a draw. Ids are not reused    *)
(* within a behaviour. *)
SmallerTeam(w) ==
    IF Mode.team /\ Cardinality(InTeam(w, 1)) < Cardinality(InTeam(w, 0)) THEN 1 ELSE 0
Joined(w, id) ==
    [w EXCEPT !.players = [o \in DOMAIN w.players \union {id} |->
        IF o = id THEN NewPlayer(SmallerTeam(w)) ELSE w.players[o]]]

AddPlayer(id) ==
    /\ id \in scenario.late /\ id \notin DOMAIN world.players
    /\ world' = Joined(world, id)
    /\ scenario' = [scenario EXCEPT !.late = @ \ {id}]
    /\ exposed' = exposed \union {id}
    /\ UNCHANGED fired

RemovePlayer(id) ==
    /\ id \in scenario.leaving /\ id \in DOMAIN world.players
    /\ world' = [world EXCEPT !.players = Restrict(@, DOMAIN @ \ {id})]
    /\ UNCHANGED <<scenario, fired, exposed>>

(* NewWorld, and the players who are there from the start. *)
Empty ==
    [players |-> << >>, shots |-> << >>, flags |-> [t \in Team |-> AtBase],
     pickup |-> [active |-> FALSE, kind |-> "none", ready |-> 0],
     phase |-> "active", left |-> MatchTime, winner |-> 0, events |-> << >>]
Start ==
    FoldLeft(LAMBDA w, id : IF id \in scenario.present THEN Joined(w, id) ELSE w, Empty, Order)

Init ==
    /\ scenario \in Scenario
    /\ world = Start
    /\ fired = {} /\ exposed = scenario.present

Next ==
    \/ Step
    \/ \E id \in Id : AddPlayer(id) \/ RemovePlayer(id)

Spec == Init /\ [][Next]_vars

-----------------------------------------------------------------------------
Player ==
    [team : Team, hp : 0 .. MaxHP, dead : BOOLEAN, respawn : 0 .. RespawnDelay, wait : Nat,
     rapid : 0 .. BuffTime, spread : 0 .. BuffTime, shield : Nat, streak : Nat,
     weapon : DOMAIN Weapons, kills : Nat, deaths : Nat, hill : Nat, dom : Nat, captures : Nat]

(* The living have health, and the dead have none, or all of it: the       *)
(* reward of a streak that a shot of theirs completed after their death    *)
(* (applyDamage, recordKill and respawn). *)
TypeOK ==
    /\ DOMAIN world.players \subseteq Id
    /\ \A id \in DOMAIN world.players :
         LET p == world.players[id] IN
         /\ p \in Player
         /\ IF p.dead THEN p.hp \in {0, MaxHP} ELSE p.hp > 0
    /\ Len(world.shots) <= MaxProjectiles
    /\ \A k \in DOMAIN world.shots : world.shots[k].life \in 1 .. ProjectileLife

(* A hit of the last Step hurt somebody who was not shielded when it       *)
(* began, or gave his shield up by firing in it, and never a teammate of   *)
(* the shooter or the shooter himself: through weapon switches, streaks,   *)
(* shots of players who died or left (findHit, explode, tryFire). *)
Stepped == DOMAIN world'.players = DOMAIN world.players
Happened(kind) == {e \in Range(world.events) : e.kind = kind}
HitsAreFair ==
    [][Stepped => \A e \in Happened("hit")' :
          /\ e.attacker # e.target
          /\ world.players[e.target].shield > 0 => e.target \in fired'
          /\ Mode.team /\ e.attacker \in DOMAIN world.players =>
               world.players[e.attacker].team # world.players[e.target].team]_world

(* The shield of a respawn lasts as long as a projectile flies, and no      *)
(* projectile flies through a match and an intermission (spawnInvulnTicks  *)
(* and projectileLifeTicks are 60, the others 5400 and 300). *)
ShieldOutlastsShots == ProjectileLife <= SpawnShield /\ ProjectileLife <= MatchTime + Intermission

(* A projectile fired before the match began never hurts a player of it,   *)
(* unless he has fired since, joined, or completed a streak: the shield of *)
(* the respawn outlasts the projectiles in the air (startMatch does not    *)
(* remove them); the shield of a streak is shorter and replaces it.        *)
NoShotFromLastMatch ==
    \A e \in Happened("hit") : e.old => e.target \in exposed

(* While a match runs, a carried flag is in the hands of a living enemy of *)
(* its team, or its carrier has left since the last Step; players who die, *)
(* respawn, leave or go through an intermission with a flag never keep it  *)
(* (stepCTF runs in active matches only). *)
FlagsAreHeld ==
    world.phase = "active" =>
       \A t \in Team :
          LET f == world.flags[t] IN
          /\ (f.status = "carried") = (f.carrier # 0)
          /\ f.status = "carried" /\ f.carrier \in DOMAIN world.players =>
               ~world.players[f.carrier].dead /\ world.players[f.carrier].team # t

(* One capture at most in a Step, and then both flags are at home: two     *)
(* carriers who come home in the same tick do not both score. *)
OneCapture ==
    Cardinality(Happened("capture")) <= 1
    /\ (Happened("capture") # {} => \A t \in Team : world.flags[t].status = "base")

(* A Step pays the hill to one side, and a zone of domination to one side, *)
(* and pays nobody outside an active match. *)
Paid(field) ==
    {id \in DOMAIN world.players :
        id \in DOMAIN world'.players /\ world'.players[id][field] > world.players[id][field]}
OneSideIsPaid ==
    [][/\ Cardinality({Side(world, id) : id \in Paid("hill")}) <= 1
       /\ Cardinality({Side(world, id) : id \in Paid("dom")}) <= Cardinality(Zones)
       /\ world.phase # "active" => Paid("hill") \union Paid("dom") = {}]_world

(* A match is won by a side no other side beats in what the mode counts,   *)
(* and whoever MatchResult says has won is of that side. *)
WinnerIsBest ==
    [][world.phase = "active" /\ world'.phase = "intermission" =>
         LET w == world' IN
         IF Mode.team
           THEN \A t \in Team : TeamScore(w, t) <= TeamScore(w, w.winner)
           ELSE \A id \in DOMAIN w.players : \A o \in Won(w) : Score(w, id) <= Score(w, o)]_world

(* Whoever is dead is one tick closer to his return after every Step, or   *)
(* returns in it: no end of a match, no intermission and no reward earned  *)
(* after death makes him wait longer than RespawnDelay. *)
EveryoneReturns ==
    [][\A id \in DOMAIN world.players :
          Stepped /\ world.players[id].dead /\ world'.players[id].dead =>
             world'.players[id].respawn < world.players[id].respawn]_world

=============================================================================
