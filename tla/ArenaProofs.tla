----------------------------- MODULE ArenaProofs -----------------------------
(***************************************************************************)
(* Proofs about Arena.  A Step of the world is a chain of functions of the *)
(* world.  For each of them a relation says what it changes and what it    *)
(* leaves alone (Commanded, Flown, ...), and a lemma shows that it holds,  *)
(* by the fold over the players or the projectiles where the code loops    *)
(* over them.  The theorems at the end follow from the composition.        *)
(***************************************************************************)
EXTENDS Arena, FoldProofs

-----------------------------------------------------------------------------
(* What a world is made of, and the inductive invariant. *)

Shot == [owner : Id, team : Team, weapon : DOMAIN Weapons, life : 1 .. ProjectileLife, old : BOOLEAN]
Flag == [status : {"base", "carried", "dropped"}, carrier : 0 .. MaxId,
         place : Place, drop : 0 .. FlagReturn]
Pickup == [active : BOOLEAN, kind : {"none", "medkit", "rapid", "spread"}, ready : 0 .. PickupDelay]
Happening ==
    [kind : {"hit"}, attacker : Id, target : Id, old : BOOLEAN]
    \union [kind : {"death"}, attacker : Id, target : Id]
    \union [kind : {"killstreak", "capture"}, target : Id]
Players == UNION {[S -> Player] : S \in SUBSET Id}
World ==
    [players : Players, shots : Seq(Shot), pickup : Pickup,
     flags : [Team -> Flag], phase : {"active", "intermission"}, left : Nat, winner : Nat,
     events : Seq(Happening)]
Scenarios ==
    [mode : [team : BOOLEAN, hill : BOOLEAN, dom : BOOLEAN, ctf : BOOLEAN],
     present : SUBSET Id, late : SUBSET Id, leaving : SUBSET Id,
     inputs : [Id -> SUBSET [select : {"none"} \union DOMAIN Weapons, fire : BOOLEAN]],
     places : [Team -> SUBSET Place], stops : SUBSET {"no", "wall"},
     kinds : SUBSET {"medkit", "rapid", "spread"}]

\* The living have health; the dead have none, or all of it.
Consistent(w) ==
    \A id \in DOMAIN w.players :
       IF w.players[id].dead THEN w.players[id].hp \in {0, MaxHP} ELSE w.players[id].hp > 0

\* A pickup that lies there has a kind.
Stocked(w) == w.pickup.active => w.pickup.kind # "none"

\* Shots are of the team of the player who fired them, as long as he plays.
Loyal(w) ==
    \A k \in 1 .. Len(w.shots) :
       w.shots[k].owner \in DOMAIN w.players => w.shots[k].team = w.players[w.shots[k].owner].team

Held(w) ==
    \A t \in Team :
       /\ (w.flags[t].status = "carried") = (w.flags[t].carrier # 0)
       /\ w.phase = "active" /\ w.flags[t].carrier \in DOMAIN w.players =>
            ~w.players[w.flags[t].carrier].dead /\ w.players[w.flags[t].carrier].team # t
       /\ ~(Mode.ctf /\ Mode.team) => w.flags[t].status = "base"

\* Nobody who is still to join has left anything in the world.
Unknown(w) ==
    \A id \in scenario.late :
       /\ id \notin DOMAIN w.players
       /\ \A k \in 1 .. Len(w.shots) : w.shots[k].owner # id
       /\ \A t \in Team : w.flags[t].carrier # id

Typed(w) == w \in World /\ Consistent(w) /\ Len(w.shots) <= MaxProjectiles /\ Stocked(w)

Invariant ==
    /\ scenario \in Scenarios
    /\ Typed(world) /\ Loyal(world) /\ Held(world) /\ Unknown(world)
    /\ world.left > 0

\* The projectiles of earlier matches: they are gone before another match
\* begins, and who has not been exposed is shielded for longer than they fly.
Spent ==
    \A k \in 1 .. Len(world.shots) : world.shots[k].old =>
       /\ world.shots[k].life < world.left + (IF world.phase = "active" THEN Intermission ELSE 0)
       /\ \A id \in Living(world) \ exposed : world.shots[k].life <= world.players[id].shield

-----------------------------------------------------------------------------
(* Small facts. *)

\* The greater of two numbers.
LEMMA MaxOfTwo ==
  ASSUME NEW a \in Int, NEW b \in Int
  PROVE  Max({a, b}) = IF a >= b THEN a ELSE b
<1> DEFINE m == IF a >= b THEN a ELSE b
<1>1. m \in {a, b} /\ \A y \in {a, b} : m >= y
  OBVIOUS
<1>2. \A x \in {a, b} : (\A y \in {a, b} : x >= y) => x = m
  OBVIOUS
<1>3. (CHOOSE x \in {a, b} : \A y \in {a, b} : x >= y) = m
  <2> HIDE DEF m
  <2> QED BY <1>1, <1>2
<1> QED BY <1>3 DEF Max

\* A tick less, down to zero.
LEMMA LessOfNumber == ASSUME NEW n \in Nat PROVE Less(n) = IF n > 0 THEN n - 1 ELSE 0
<1>1. n - 1 \in Int /\ 0 \in Int
  OBVIOUS
<1> QED BY <1>1, MaxOfTwo DEF Less

\* The players of a world are a function on some of the ids.
LEMMA PlayersOf ==
  ASSUME NEW w \in World
  PROVE  w.players \in [DOMAIN w.players -> Player] /\ DOMAIN w.players \subseteq Id
BY DEF World, Players

\* The converse, for the players a step of the world computes.
LEMMA PlayersIn ==
  ASSUME NEW S \in SUBSET Id, NEW f \in [S -> Player]
  PROVE  f \in Players
BY DEF Players

\* One player changed.
LEMMA OnePlayer ==
  ASSUME NEW w \in World, NEW id \in DOMAIN w.players, NEW q \in Player
  PROVE  /\ [w EXCEPT !.players[id] = q] \in World
         /\ [w EXCEPT !.players[id] = q].players \in [DOMAIN w.players -> Player]
<1>1. w.players \in [DOMAIN w.players -> Player] /\ DOMAIN w.players \in SUBSET Id
  BY PlayersOf
<1>2. [w.players EXCEPT ![id] = q] \in [DOMAIN w.players -> Player]
  BY <1>1
<1>3. [w.players EXCEPT ![id] = q] \in Players
  BY <1>1, <1>2, PlayersIn
<1> QED BY <1>2, <1>3 DEF World

\* What is chosen for each of several is one of its options.
LEMMA ChosenFor ==
  ASSUME NEW options, NEW f \in OneOfEach(options)
  PROVE  DOMAIN f = DOMAIN options /\ \A x \in DOMAIN options : f[x] \in options[x]
BY DEF OneOfEach

-----------------------------------------------------------------------------
(* Inputs. *)

\* What the inputs change: weapons, cooldowns, and the shields of those whose
\* shots come after the shots that are there.
Commanded(w, u) ==
    /\ DOMAIN u.players = DOMAIN w.players
    /\ <<u.pickup, u.flags, u.phase, u.left, u.winner, u.events>>
         = <<w.pickup, w.flags, w.phase, w.left, w.winner, w.events>>
    /\ Len(w.shots) <= Len(u.shots) /\ Len(u.shots) <= MaxProjectiles
    /\ \A k \in 1 .. Len(w.shots) : u.shots[k] = w.shots[k]
    /\ \A k \in Len(w.shots) + 1 .. Len(u.shots) :
          /\ ~u.shots[k].old /\ u.shots[k].owner \in DOMAIN w.players
          /\ u.shots[k].team = w.players[u.shots[k].owner].team
    /\ \A id \in DOMAIN w.players :
          LET p == w.players[id]
              q == u.players[id]
          IN  /\ <<q.team, q.hp, q.dead, q.respawn, q.hill, q.dom>>
                   = <<p.team, p.hp, p.dead, p.respawn, p.hill, p.dom>>
              /\ \/ q.shield = p.shield
                 \/ \E k \in Len(w.shots) + 1 .. Len(u.shots) : u.shots[k].owner = id

\* Inputs one after the other change what one of them may change.
LEMMA CommandedAgain ==
  ASSUME NEW w \in World, NEW u \in World, NEW v \in World, Commanded(w, u), Commanded(u, v)
  PROVE  Commanded(w, v)
<1>1. Len(w.shots) \in Nat /\ Len(u.shots) \in Nat /\ Len(v.shots) \in Nat
  BY DEF World
<1>2. DOMAIN v.players = DOMAIN w.players /\ DOMAIN u.players = DOMAIN w.players
  BY DEF Commanded
<1>3. \A k \in 1 .. Len(w.shots) : v.shots[k] = w.shots[k]
  BY <1>1 DEF Commanded
<1>4. \A k \in Len(w.shots) + 1 .. Len(v.shots) :
        IF k <= Len(u.shots) THEN v.shots[k] = u.shots[k] /\ k \in Len(w.shots) + 1 .. Len(u.shots)
                             ELSE k \in Len(u.shots) + 1 .. Len(v.shots)
  BY <1>1 DEF Commanded
<1>5. \A k \in Len(w.shots) + 1 .. Len(v.shots) :
          /\ ~v.shots[k].old /\ v.shots[k].owner \in DOMAIN w.players
          /\ v.shots[k].team = w.players[v.shots[k].owner].team
  BY <1>2, <1>4 DEF Commanded
<1>6. ASSUME NEW id \in DOMAIN w.players
      PROVE  \/ v.players[id].shield = w.players[id].shield
             \/ \E k \in Len(w.shots) + 1 .. Len(v.shots) : v.shots[k].owner = id
  <2>1. CASE \E k \in Len(u.shots) + 1 .. Len(v.shots) : v.shots[k].owner = id
    BY <1>1, <2>1 DEF Commanded
  <2>2. CASE \E k \in Len(w.shots) + 1 .. Len(u.shots) : u.shots[k].owner = id
    <3>1. PICK k \in Len(w.shots) + 1 .. Len(u.shots) : u.shots[k].owner = id
      BY <2>2
    <3>2. k \in Len(w.shots) + 1 .. Len(v.shots) /\ v.shots[k] = u.shots[k]
      BY <1>1 DEF Commanded
    <3> QED BY <3>1, <3>2
  <2> QED BY <1>2, <2>1, <2>2 DEF Commanded
<1> QED BY <1>1, <1>2, <1>3, <1>5, <1>6 DEF Commanded

\* An input that does nothing is one.
LEMMA CommandedNot ==
  ASSUME NEW w \in World, Len(w.shots) <= MaxProjectiles
  PROVE  Commanded(w, w)
<1>1. Len(w.shots) \in Nat
  BY DEF World
<1> QED BY <1>1 DEF Commanded

\* tryFire: new projectiles of the shooter's team, within the cap, and no shield any more.
LEMMA TryFireEffect ==
  ASSUME NEW w \in World, Len(w.shots) <= MaxProjectiles, NEW id \in DOMAIN w.players
  PROVE  TryFire(w, id) \in World /\ Commanded(w, TryFire(w, id))
<1> DEFINE p == w.players[id]
           spec == Weapons[p.weapon]
           cooldown == IF p.rapid > 0 THEN Max({spec.cooldown \div 3, 1}) ELSE spec.cooldown
           pellets == IF p.spread > 0 /\ spec.pellets = 1 THEN SpreadCount ELSE spec.pellets
           shot == [owner |-> id, team |-> p.team, weapon |-> p.weapon,
                    life |-> ProjectileLife, old |-> FALSE]
           count == Lower(pellets, MaxProjectiles - Len(w.shots))
           volley == [k \in 1 .. count |-> shot]
           q == [p EXCEPT !.wait = cooldown, !.shield = 0]
           u == [w EXCEPT !.players[id] = q, !.shots = @ \o volley]
<1>1. CASE p.wait > 0 \/ Len(w.shots) >= MaxProjectiles
  <2>1. TryFire(w, id) = w
    BY <1>1 DEF TryFire
  <2> QED BY <2>1, CommandedNot
<1>2. CASE ~(p.wait > 0 \/ Len(w.shots) >= MaxProjectiles)
  <2>1. p \in Player /\ id \in Id /\ w.players \in [DOMAIN w.players -> Player]
    BY PlayersOf
  <2>2. TryFire(w, id) = u
    BY <1>2 DEF TryFire
  <2>3. /\ spec \in [pellets : Nat \ {0}, damage : Nat, cooldown : Nat, splash : Nat]
        /\ SpreadCount \in Nat \ {0} /\ MaxProjectiles \in Nat /\ ProjectileLife \in Nat \ {0}
    BY <2>1, ArenaAssumption DEF Player
  <2>4. cooldown \in Nat
    <3>1. spec.cooldown \div 3 \in Int /\ 1 \in Int
      BY <2>3
    <3> QED BY <2>3, <3>1, MaxOfTwo
  <2>5. q \in Player /\ <<q.team, q.hp, q.dead, q.respawn, q.hill, q.dom>>
                          = <<p.team, p.hp, p.dead, p.respawn, p.hill, p.dom>>
    <3> HIDE DEF cooldown
    <3> QED BY <2>1, <2>4 DEF Player
  <2>6. Len(w.shots) \in Nat /\ Len(w.shots) < MaxProjectiles /\ pellets \in Nat \ {0}
    BY <1>2, <2>3 DEF World
  <2>7. count \in Nat \ {0} /\ Len(w.shots) + count <= MaxProjectiles
    <3>1. PICK m \in Nat : m = Len(w.shots)
      BY <2>6
    <3>2. MaxProjectiles - m \in Nat \ {0} /\ m + (MaxProjectiles - m) <= MaxProjectiles
      BY <2>3, <2>6, <3>1
    <3>3. Lower(pellets, MaxProjectiles - m) \in {pellets, MaxProjectiles - m}
          /\ Lower(pellets, MaxProjectiles - m) <= MaxProjectiles - m
      <4> HIDE DEF pellets
      <4> QED BY <2>6, <3>2 DEF Lower
    <3> HIDE DEF pellets
    <3> QED BY <2>3, <2>6, <3>1, <3>2, <3>3
  <2>8. volley \in Seq(Shot) /\ Len(volley) = count
    <3>1. shot \in Shot
      BY <2>1, <2>3 DEF Shot, Player
    <3> HIDE DEF count, shot
    <3> QED BY <2>7, <3>1
  <2>9. /\ w.shots \o volley \in Seq(Shot)
        /\ Len(w.shots \o volley) = Len(w.shots) + count
        /\ \A k \in 1 .. Len(w.shots) : (w.shots \o volley)[k] = w.shots[k]
        /\ \A k \in Len(w.shots) + 1 .. Len(w.shots) + count : (w.shots \o volley)[k] = shot
    <3>1. w.shots \in Seq(Shot)
      BY DEF World
    <3>2. \A k \in Len(w.shots) + 1 .. Len(w.shots) + count :
             k - Len(w.shots) \in 1 .. count /\ k - Len(w.shots) \in Nat
      BY <2>6, <2>7
    <3>3. \A k \in 1 .. count : volley[k] = shot
      OBVIOUS
    <3> HIDE DEF volley, count, shot
    <3> QED BY <2>6, <2>7, <2>8, <3>1, <3>2, <3>3
  <2> DEFINE m == [w EXCEPT !.players[id] = q]
  <2>10. m \in World /\ u = [m EXCEPT !.shots = w.shots \o volley]
    <3>1. m \in World
      BY <2>5, OnePlayer
    <3>2. u = [m EXCEPT !.shots = w.shots \o volley]
      <4> HIDE DEF q, volley
      <4> QED BY DEF World
    <3> QED BY <3>1, <3>2
  <2>11. u \in World
    <3> HIDE DEF m, u, volley
    <3> QED BY <2>9, <2>10 DEF World
  <2>12. /\ u.shots = w.shots \o volley /\ u.players = [w.players EXCEPT ![id] = q]
         /\ <<u.pickup, u.flags, u.phase, u.left, u.winner, u.events>>
              = <<w.pickup, w.flags, w.phase, w.left, w.winner, w.events>>
    <3> HIDE DEF volley, q
    <3> QED BY DEF World
  <2>13. Len(w.shots) + 1 \in Len(w.shots) + 1 .. Len(w.shots) + count
    <3> HIDE DEF count
    <3> QED BY <2>6, <2>7
  <2>14. shot.owner = id /\ shot.team = p.team /\ ~shot.old
    OBVIOUS
  <2>15. Commanded(w, u)
    <3> HIDE DEF u, volley, q, p, count, shot
    <3>1. DOMAIN u.players = DOMAIN w.players /\ u.players[id] = q
          /\ \A o \in DOMAIN w.players : o # id => u.players[o] = w.players[o]
      BY <2>1, <2>12
    <3>2. \E k \in Len(w.shots) + 1 .. Len(w.shots) + count : u.shots[k].owner = id
      BY <2>9, <2>12, <2>13, <2>14
    <3>3. \A k \in Len(w.shots) + 1 .. Len(u.shots) :
             /\ ~u.shots[k].old /\ u.shots[k].owner \in DOMAIN w.players
             /\ u.shots[k].team = w.players[u.shots[k].owner].team
      BY <2>9, <2>12, <2>14 DEF p
    <3>4. Len(w.shots) <= Len(u.shots) /\ Len(u.shots) <= MaxProjectiles
      BY <2>6, <2>7, <2>9, <2>12
    <3>5. \A k \in 1 .. Len(w.shots) : u.shots[k] = w.shots[k]
      BY <2>9, <2>12
    <3>6. Len(u.shots) = Len(w.shots) + count
      BY <2>9, <2>12
    <3> QED BY <2>5, <2>12, <3>1, <3>2, <3>3, <3>4, <3>5, <3>6 DEF Commanded, p
  <2> QED BY <2>2, <2>11, <2>15
<1> QED BY <1>1, <1>2

\* One input, ignored if its player is dead.
LEMMA CommandEffect ==
  ASSUME NEW w \in World, Len(w.shots) <= MaxProjectiles, NEW id \in DOMAIN w.players,
         NEW input \in [select : {"none"} \union DOMAIN Weapons, fire : BOOLEAN]
  PROVE  Command(w, id, input) \in World /\ Commanded(w, Command(w, id, input))
<1> DEFINE armed == IF input.select = "none" THEN w ELSE [w EXCEPT !.players[id].weapon = input.select]
<1>1. armed \in World /\ Commanded(w, armed)
  <2>1. CASE input.select = "none"
    BY <2>1, CommandedNot
  <2>2. CASE input.select # "none"
    <3> DEFINE q == [w.players[id] EXCEPT !.weapon = input.select]
    <3>0. w.players \in [DOMAIN w.players -> Player] /\ input.select \in DOMAIN Weapons
      BY <2>2, PlayersOf
    <3>1. w.players \in [DOMAIN w.players -> Player] /\ q \in Player
      <4>1. w.players[id] \in Player
        BY <3>0
      <4> QED BY <3>0, <4>1 DEF Player
    <3>2. armed = [w EXCEPT !.players[id] = q]
      BY <2>2
    <3>3. armed \in World
      BY <3>1, <3>2, OnePlayer
    <3>4. /\ armed.players = [w.players EXCEPT ![id] = q]
          /\ <<armed.shots, armed.pickup, armed.flags, armed.phase, armed.left, armed.winner, armed.events>>
               = <<w.shots, w.pickup, w.flags, w.phase, w.left, w.winner, w.events>>
      <4> HIDE DEF q, armed
      <4> QED BY <3>2 DEF World
    <3>5. q.shield = w.players[id].shield /\
          <<q.team, q.hp, q.dead, q.respawn, q.hill, q.dom>>
            = <<w.players[id].team, w.players[id].hp, w.players[id].dead, w.players[id].respawn,
                w.players[id].hill, w.players[id].dom>>
      BY <3>1 DEF Player
    <3>6. Commanded(w, w)
      BY CommandedNot
    <3> HIDE DEF q, armed
    <3>7. Commanded(w, armed)
      BY <3>1, <3>4, <3>5, <3>6 DEF Commanded
    <3> QED BY <3>3, <3>7
  <2> QED BY <2>1, <2>2
<1>2. Len(armed.shots) <= MaxProjectiles /\ id \in DOMAIN armed.players
  <2> HIDE DEF armed
  <2> QED BY <1>1 DEF Commanded
<1>3. TryFire(armed, id) \in World /\ Commanded(armed, TryFire(armed, id))
  <2> HIDE DEF armed
  <2> QED BY <1>1, <1>2, TryFireEffect
<1>4. Commanded(w, TryFire(armed, id))
  <2> HIDE DEF armed
  <2> QED BY <1>1, <1>3, CommandedAgain
<1>5. Command(w, id, input) \in {w, armed, TryFire(armed, id)}
  BY DEF Command
<1>6. Commanded(w, w)
  BY CommandedNot
<1> HIDE DEF armed
<1> QED BY <1>1, <1>3, <1>4, <1>5, <1>6

\* The fold of Inputs keeps what every command keeps.
LEMMA InputsFold ==
  ASSUME NEW w, NEW input, NEW V, w \in V,
         \A id \in Id : \A u \in V : id \in DOMAIN w.players => Command(u, id, input[id]) \in V
  PROVE  Inputs(w, input) \in V
<1> DEFINE Op(u, id) == IF id \in DOMAIN w.players THEN Command(u, id, input[id]) ELSE u
           F == [k \in Id |-> [u \in V |-> Op(u, k)]]
           W == [k \in 0 .. MaxId |-> V]
           base == w
<1>0. MaxId \in Nat /\ DOMAIN Order = 1 .. MaxId /\ Id = 1 .. MaxId /\ \A k \in Id : Order[k] = k
  BY ArenaAssumption DEF Order, Id
<1>1. \A k \in 1 .. MaxId : \A u \in V : Op(u, k) \in V
  BY <1>0
<1>2. /\ \A k \in 1 .. MaxId : F[k] \in [W[k - 1] -> W[k]] /\ W[k - 1] = V
      /\ base \in W[0] /\ \A j, k \in 0 .. MaxId : j <= k => W[j] \subseteq W[k]
  <2> HIDE DEF Op
  <2> QED BY <1>0, <1>1
<1>3. PICK g : Taken(MaxId, base, F, g) /\ Kept(MaxId, W, g)
  <2> HIDE DEF F, W, base
  <2> QED BY <1>0, <1>2, FoldExists
<1>4. g = [s \in SUBSET DOMAIN Order |-> IF s = {} THEN base ELSE Op(g[s \ {Max(s)}], Order[Max(s)])]
  <2>1. \A s \in SUBSET (1 .. MaxId) : s # {} => Max(s) \in 1 .. MaxId /\ g[s \ {Max(s)}] \in W[Max(s) - 1]
    <3> HIDE DEF F, W, base
    <3> QED BY <1>0, <1>2, <1>3, BeforeLast
  <2>2. \A s \in SUBSET (1 .. MaxId) : s # {} =>
           F[Max(s)][g[s \ {Max(s)}]] = Op(g[s \ {Max(s)}], Order[Max(s)])
    <3>1. \A k \in 1 .. MaxId : \A u \in V : F[k][u] = Op(u, k)
      <4> HIDE DEF Op
      <4> QED BY <1>0
    <3>2. \A s \in SUBSET (1 .. MaxId) : s # {} => Max(s) \in 1 .. MaxId /\ g[s \ {Max(s)}] \in V
      BY <1>2, <2>1
    <3> HIDE DEF F, Op, base
    <3> QED BY <1>0, <3>1, <3>2
  <2> HIDE DEF F, Op, base
  <2> QED BY <1>0, <1>3, <2>2 DEF Taken
<1>5. PICK x : /\ x = [s \in SUBSET DOMAIN Order |->
                         IF s = {} THEN base ELSE Op(x[s \ {Max(s)}], Order[Max(s)])]
               /\ Inputs(w, input) = x[DOMAIN Order]
  BY <1>4 DEF Inputs, FoldLeft, MapThenFoldSet
<1>6. x[{}] = base /\ \A k \in 1 .. MaxId : x[1 .. k] = Op(x[1 .. (k - 1)], k)
  <2> HIDE DEF Op, base
  <2>1. x[{}] = base
    BY <1>5
  <2>2. \A k \in 1 .. MaxId : x[1 .. k] = Op(x[(1 .. k) \ {Max(1 .. k)}], Order[Max(1 .. k)])
    <3> TAKE k \in 1 .. MaxId
    <3>1. 1 .. k \in SUBSET DOMAIN Order /\ 1 .. k # {}
      BY <1>0, Segments
    <3> QED BY <1>5, <3>1
  <2>3. \A k \in 1 .. MaxId : (1 .. k) \ {Max(1 .. k)} = 1 .. (k - 1) /\ Order[Max(1 .. k)] = k
    BY <1>0, Segments
  <2> QED BY <2>1, <2>2, <2>3
<1>7. x[1 .. MaxId] \in W[MaxId]
  <2> HIDE DEF Op, base
  <2>1. x[{}] \in W[0] /\ \A k \in 1 .. MaxId : x[1 .. (k - 1)] \in W[k - 1] => x[1 .. k] \in W[k]
    BY <1>0, <1>1, <1>2, <1>6
  <2> HIDE DEF W
  <2> QED BY <1>0, <2>1, FoldClimbs
<1> HIDE DEF Op, base
<1> QED BY <1>0, <1>5, <1>7

-----------------------------------------------------------------------------
\* The fold of Explode keeps what every blow of it keeps. The folds of the
\* model differ in the step they take; lemmas cannot be parameterised by it.
LEMMA ExplodeFold ==
  ASSUME NEW w, NEW shot, NEW fate, NEW V, w \in V,
         \A id \in Id : \A u \in V : id \in DOMAIN w.players /\ Vulnerable(u, id, shot) =>
            ApplyDamage(u, id, shot, fate.splash[id]) \in V
  PROVE  Explode(w, shot, fate) \in V
<1> DEFINE Op(u, id) == IF id \in DOMAIN w.players /\ Vulnerable(u, id, shot) /\ fate.splash[id] > 0
                           THEN ApplyDamage(u, id, shot, fate.splash[id]) ELSE u
           F == [k \in Id |-> [u \in V |-> Op(u, k)]]
           W == [k \in 0 .. MaxId |-> V]
           base == w
<1>0. MaxId \in Nat /\ DOMAIN Order = 1 .. MaxId /\ Id = 1 .. MaxId /\ \A k \in Id : Order[k] = k
  BY ArenaAssumption DEF Order, Id
<1>1. \A k \in 1 .. MaxId : \A u \in V : Op(u, k) \in V
  BY <1>0
<1>2. /\ \A k \in 1 .. MaxId : F[k] \in [W[k - 1] -> W[k]] /\ W[k - 1] = V
      /\ base \in W[0] /\ \A j, k \in 0 .. MaxId : j <= k => W[j] \subseteq W[k]
  <2> HIDE DEF Op
  <2> QED BY <1>0, <1>1
<1>3. PICK g : Taken(MaxId, base, F, g) /\ Kept(MaxId, W, g)
  <2> HIDE DEF F, W, base
  <2> QED BY <1>0, <1>2, FoldExists
<1>4. g = [s \in SUBSET DOMAIN Order |-> IF s = {} THEN base ELSE Op(g[s \ {Max(s)}], Order[Max(s)])]
  <2>1. \A s \in SUBSET (1 .. MaxId) : s # {} => Max(s) \in 1 .. MaxId /\ g[s \ {Max(s)}] \in W[Max(s) - 1]
    <3> HIDE DEF F, W, base
    <3> QED BY <1>0, <1>2, <1>3, BeforeLast
  <2>2. \A s \in SUBSET (1 .. MaxId) : s # {} =>
           F[Max(s)][g[s \ {Max(s)}]] = Op(g[s \ {Max(s)}], Order[Max(s)])
    <3>1. \A k \in 1 .. MaxId : \A u \in V : F[k][u] = Op(u, k)
      <4> HIDE DEF Op
      <4> QED BY <1>0
    <3>2. \A s \in SUBSET (1 .. MaxId) : s # {} => Max(s) \in 1 .. MaxId /\ g[s \ {Max(s)}] \in V
      BY <1>2, <2>1
    <3> HIDE DEF F, Op, base
    <3> QED BY <1>0, <3>1, <3>2
  <2> HIDE DEF F, Op, base
  <2> QED BY <1>0, <1>3, <2>2 DEF Taken
<1>5. PICK x : /\ x = [s \in SUBSET DOMAIN Order |->
                         IF s = {} THEN base ELSE Op(x[s \ {Max(s)}], Order[Max(s)])]
               /\ Explode(w, shot, fate) = x[DOMAIN Order]
  BY <1>4 DEF Explode, FoldLeft, MapThenFoldSet
<1>6. x[{}] = base /\ \A k \in 1 .. MaxId : x[1 .. k] = Op(x[1 .. (k - 1)], k)
  <2> HIDE DEF Op, base
  <2>1. x[{}] = base
    BY <1>5
  <2>2. \A k \in 1 .. MaxId : x[1 .. k] = Op(x[(1 .. k) \ {Max(1 .. k)}], Order[Max(1 .. k)])
    <3> TAKE k \in 1 .. MaxId
    <3>1. 1 .. k \in SUBSET DOMAIN Order /\ 1 .. k # {}
      BY <1>0, Segments
    <3> QED BY <1>5, <3>1
  <2>3. \A k \in 1 .. MaxId : (1 .. k) \ {Max(1 .. k)} = 1 .. (k - 1) /\ Order[Max(1 .. k)] = k
    BY <1>0, Segments
  <2> QED BY <2>1, <2>2, <2>3
<1>7. x[1 .. MaxId] \in W[MaxId]
  <2> HIDE DEF Op, base
  <2>1. x[{}] \in W[0] /\ \A k \in 1 .. MaxId : x[1 .. (k - 1)] \in W[k - 1] => x[1 .. k] \in W[k]
    BY <1>0, <1>1, <1>2, <1>6
  <2> HIDE DEF W
  <2> QED BY <1>0, <2>1, FoldClimbs
<1> HIDE DEF Op, base
<1> QED BY <1>0, <1>5, <1>7

\* The fold of Touched keeps what Carry gives and every touch keeps.
LEMMA TouchedFold ==
  ASSUME NEW w, NEW place, NEW V, [w EXCEPT !.flags = [t \in Team |-> Carry(w, place, t)]] \in V,
         \A id \in Living(w) : \A u \in V : Touch(Touch(u, id, 0, place), id, 1, place) \in V
  PROVE  Touched(w, place) \in V
<1> DEFINE Op(u, id) == IF id \in Living(w) THEN Touch(Touch(u, id, 0, place), id, 1, place) ELSE u
           F == [k \in Id |-> [u \in V |-> Op(u, k)]]
           W == [k \in 0 .. MaxId |-> V]
           base == [w EXCEPT !.flags = [t \in Team |-> Carry(w, place, t)]]
<1>0. MaxId \in Nat /\ DOMAIN Order = 1 .. MaxId /\ Id = 1 .. MaxId /\ \A k \in Id : Order[k] = k
  BY ArenaAssumption DEF Order, Id
<1>1. \A k \in 1 .. MaxId : \A u \in V : Op(u, k) \in V
  BY <1>0
<1>2. /\ \A k \in 1 .. MaxId : F[k] \in [W[k - 1] -> W[k]] /\ W[k - 1] = V
      /\ base \in W[0] /\ \A j, k \in 0 .. MaxId : j <= k => W[j] \subseteq W[k]
  <2> HIDE DEF Op
  <2> QED BY <1>0, <1>1
<1>3. PICK g : Taken(MaxId, base, F, g) /\ Kept(MaxId, W, g)
  <2> HIDE DEF F, W, base
  <2> QED BY <1>0, <1>2, FoldExists
<1>4. g = [s \in SUBSET DOMAIN Order |-> IF s = {} THEN base ELSE Op(g[s \ {Max(s)}], Order[Max(s)])]
  <2>1. \A s \in SUBSET (1 .. MaxId) : s # {} => Max(s) \in 1 .. MaxId /\ g[s \ {Max(s)}] \in W[Max(s) - 1]
    <3> HIDE DEF F, W, base
    <3> QED BY <1>0, <1>2, <1>3, BeforeLast
  <2>2. \A s \in SUBSET (1 .. MaxId) : s # {} =>
           F[Max(s)][g[s \ {Max(s)}]] = Op(g[s \ {Max(s)}], Order[Max(s)])
    <3>1. \A k \in 1 .. MaxId : \A u \in V : F[k][u] = Op(u, k)
      <4> HIDE DEF Op
      <4> QED BY <1>0
    <3>2. \A s \in SUBSET (1 .. MaxId) : s # {} => Max(s) \in 1 .. MaxId /\ g[s \ {Max(s)}] \in V
      BY <1>2, <2>1
    <3> HIDE DEF F, Op, base
    <3> QED BY <1>0, <3>1, <3>2
  <2> HIDE DEF F, Op, base
  <2> QED BY <1>0, <1>3, <2>2 DEF Taken
<1>5. PICK x : /\ x = [s \in SUBSET DOMAIN Order |->
                         IF s = {} THEN base ELSE Op(x[s \ {Max(s)}], Order[Max(s)])]
               /\ Touched(w, place) = x[DOMAIN Order]
  BY <1>4 DEF Touched, FoldLeft, MapThenFoldSet
<1>6. x[{}] = base /\ \A k \in 1 .. MaxId : x[1 .. k] = Op(x[1 .. (k - 1)], k)
  <2> HIDE DEF Op, base
  <2>1. x[{}] = base
    BY <1>5
  <2>2. \A k \in 1 .. MaxId : x[1 .. k] = Op(x[(1 .. k) \ {Max(1 .. k)}], Order[Max(1 .. k)])
    <3> TAKE k \in 1 .. MaxId
    <3>1. 1 .. k \in SUBSET DOMAIN Order /\ 1 .. k # {}
      BY <1>0, Segments
    <3> QED BY <1>5, <3>1
  <2>3. \A k \in 1 .. MaxId : (1 .. k) \ {Max(1 .. k)} = 1 .. (k - 1) /\ Order[Max(1 .. k)] = k
    BY <1>0, Segments
  <2> QED BY <2>1, <2>2, <2>3
<1>7. x[1 .. MaxId] \in W[MaxId]
  <2> HIDE DEF Op, base
  <2>1. x[{}] \in W[0] /\ \A k \in 1 .. MaxId : x[1 .. (k - 1)] \in W[k - 1] => x[1 .. k] \in W[k]
    BY <1>0, <1>1, <1>2, <1>6
  <2> HIDE DEF W
  <2> QED BY <1>0, <2>1, FoldClimbs
<1> HIDE DEF Op, base
<1> QED BY <1>0, <1>5, <1>7

\* The fold of Captured keeps what every capture keeps.
LEMMA CapturedFold ==
  ASSUME NEW w, NEW place, NEW V, w \in V,
         \A id \in Living(w) : \A u \in V : Capture(u, id, place) \in V
  PROVE  Captured(w, place) \in V
<1> DEFINE Op(u, id) == IF id \in Living(w) THEN Capture(u, id, place) ELSE u
           F == [k \in Id |-> [u \in V |-> Op(u, k)]]
           W == [k \in 0 .. MaxId |-> V]
           base == w
<1>0. MaxId \in Nat /\ DOMAIN Order = 1 .. MaxId /\ Id = 1 .. MaxId /\ \A k \in Id : Order[k] = k
  BY ArenaAssumption DEF Order, Id
<1>1. \A k \in 1 .. MaxId : \A u \in V : Op(u, k) \in V
  BY <1>0
<1>2. /\ \A k \in 1 .. MaxId : F[k] \in [W[k - 1] -> W[k]] /\ W[k - 1] = V
      /\ base \in W[0] /\ \A j, k \in 0 .. MaxId : j <= k => W[j] \subseteq W[k]
  <2> HIDE DEF Op
  <2> QED BY <1>0, <1>1
<1>3. PICK g : Taken(MaxId, base, F, g) /\ Kept(MaxId, W, g)
  <2> HIDE DEF F, W, base
  <2> QED BY <1>0, <1>2, FoldExists
<1>4. g = [s \in SUBSET DOMAIN Order |-> IF s = {} THEN base ELSE Op(g[s \ {Max(s)}], Order[Max(s)])]
  <2>1. \A s \in SUBSET (1 .. MaxId) : s # {} => Max(s) \in 1 .. MaxId /\ g[s \ {Max(s)}] \in W[Max(s) - 1]
    <3> HIDE DEF F, W, base
    <3> QED BY <1>0, <1>2, <1>3, BeforeLast
  <2>2. \A s \in SUBSET (1 .. MaxId) : s # {} =>
           F[Max(s)][g[s \ {Max(s)}]] = Op(g[s \ {Max(s)}], Order[Max(s)])
    <3>1. \A k \in 1 .. MaxId : \A u \in V : F[k][u] = Op(u, k)
      <4> HIDE DEF Op
      <4> QED BY <1>0
    <3>2. \A s \in SUBSET (1 .. MaxId) : s # {} => Max(s) \in 1 .. MaxId /\ g[s \ {Max(s)}] \in V
      BY <1>2, <2>1
    <3> HIDE DEF F, Op, base
    <3> QED BY <1>0, <3>1, <3>2
  <2> HIDE DEF F, Op, base
  <2> QED BY <1>0, <1>3, <2>2 DEF Taken
<1>5. PICK x : /\ x = [s \in SUBSET DOMAIN Order |->
                         IF s = {} THEN base ELSE Op(x[s \ {Max(s)}], Order[Max(s)])]
               /\ Captured(w, place) = x[DOMAIN Order]
  BY <1>4 DEF Captured, FoldLeft, MapThenFoldSet
<1>6. x[{}] = base /\ \A k \in 1 .. MaxId : x[1 .. k] = Op(x[1 .. (k - 1)], k)
  <2> HIDE DEF Op, base
  <2>1. x[{}] = base
    BY <1>5
  <2>2. \A k \in 1 .. MaxId : x[1 .. k] = Op(x[(1 .. k) \ {Max(1 .. k)}], Order[Max(1 .. k)])
    <3> TAKE k \in 1 .. MaxId
    <3>1. 1 .. k \in SUBSET DOMAIN Order /\ 1 .. k # {}
      BY <1>0, Segments
    <3> QED BY <1>5, <3>1
  <2>3. \A k \in 1 .. MaxId : (1 .. k) \ {Max(1 .. k)} = 1 .. (k - 1) /\ Order[Max(1 .. k)] = k
    BY <1>0, Segments
  <2> QED BY <2>1, <2>2, <2>3
<1>7. x[1 .. MaxId] \in W[MaxId]
  <2> HIDE DEF Op, base
  <2>1. x[{}] \in W[0] /\ \A k \in 1 .. MaxId : x[1 .. (k - 1)] \in W[k - 1] => x[1 .. k] \in W[k]
    BY <1>0, <1>1, <1>2, <1>6
  <2> HIDE DEF W
  <2> QED BY <1>0, <2>1, FoldClimbs
<1> HIDE DEF Op, base
<1> QED BY <1>0, <1>5, <1>7

\* The fold of TeamScore stays among the numbers every term leads to.
LEMMA TeamScoreFold ==
  ASSUME NEW w, NEW t, NEW V, 0 \in V,
         \A id \in InTeam(w, t) : \A sum \in V : sum + Score(w, id) \in V
  PROVE  TeamScore(w, t) \in V
<1> DEFINE Op(u, id) == IF id \in InTeam(w, t) THEN u + Score(w, id) ELSE u
           F == [k \in Id |-> [u \in V |-> Op(u, k)]]
           W == [k \in 0 .. MaxId |-> V]
           base == 0
<1>0. MaxId \in Nat /\ DOMAIN Order = 1 .. MaxId /\ Id = 1 .. MaxId /\ \A k \in Id : Order[k] = k
  BY ArenaAssumption DEF Order, Id
<1>1. \A k \in 1 .. MaxId : \A u \in V : Op(u, k) \in V
  BY <1>0
<1>2. /\ \A k \in 1 .. MaxId : F[k] \in [W[k - 1] -> W[k]] /\ W[k - 1] = V
      /\ base \in W[0] /\ \A j, k \in 0 .. MaxId : j <= k => W[j] \subseteq W[k]
  <2> HIDE DEF Op
  <2> QED BY <1>0, <1>1
<1>3. PICK g : Taken(MaxId, base, F, g) /\ Kept(MaxId, W, g)
  <2> HIDE DEF F, W, base
  <2> QED BY <1>0, <1>2, FoldExists
<1>4. g = [s \in SUBSET DOMAIN Order |-> IF s = {} THEN base ELSE Op(g[s \ {Max(s)}], Order[Max(s)])]
  <2>1. \A s \in SUBSET (1 .. MaxId) : s # {} => Max(s) \in 1 .. MaxId /\ g[s \ {Max(s)}] \in W[Max(s) - 1]
    <3> HIDE DEF F, W, base
    <3> QED BY <1>0, <1>2, <1>3, BeforeLast
  <2>2. \A s \in SUBSET (1 .. MaxId) : s # {} =>
           F[Max(s)][g[s \ {Max(s)}]] = Op(g[s \ {Max(s)}], Order[Max(s)])
    <3>1. \A k \in 1 .. MaxId : \A u \in V : F[k][u] = Op(u, k)
      <4> HIDE DEF Op
      <4> QED BY <1>0
    <3>2. \A s \in SUBSET (1 .. MaxId) : s # {} => Max(s) \in 1 .. MaxId /\ g[s \ {Max(s)}] \in V
      BY <1>2, <2>1
    <3> HIDE DEF F, Op, base
    <3> QED BY <1>0, <3>1, <3>2
  <2> HIDE DEF F, Op, base
  <2> QED BY <1>0, <1>3, <2>2 DEF Taken
<1>5. PICK x : /\ x = [s \in SUBSET DOMAIN Order |->
                         IF s = {} THEN base ELSE Op(x[s \ {Max(s)}], Order[Max(s)])]
               /\ TeamScore(w, t) = x[DOMAIN Order]
  BY <1>4 DEF TeamScore, FoldLeft, MapThenFoldSet
<1>6. x[{}] = base /\ \A k \in 1 .. MaxId : x[1 .. k] = Op(x[1 .. (k - 1)], k)
  <2> HIDE DEF Op, base
  <2>1. x[{}] = base
    BY <1>5
  <2>2. \A k \in 1 .. MaxId : x[1 .. k] = Op(x[(1 .. k) \ {Max(1 .. k)}], Order[Max(1 .. k)])
    <3> TAKE k \in 1 .. MaxId
    <3>1. 1 .. k \in SUBSET DOMAIN Order /\ 1 .. k # {}
      BY <1>0, Segments
    <3> QED BY <1>5, <3>1
  <2>3. \A k \in 1 .. MaxId : (1 .. k) \ {Max(1 .. k)} = 1 .. (k - 1) /\ Order[Max(1 .. k)] = k
    BY <1>0, Segments
  <2> QED BY <2>1, <2>2, <2>3
<1>7. x[1 .. MaxId] \in W[MaxId]
  <2> HIDE DEF Op, base
  <2>1. x[{}] \in W[0] /\ \A k \in 1 .. MaxId : x[1 .. (k - 1)] \in W[k - 1] => x[1 .. k] \in W[k]
    BY <1>0, <1>1, <1>2, <1>6
  <2> HIDE DEF W
  <2> QED BY <1>0, <2>1, FoldClimbs
<1> HIDE DEF Op, base
<1> QED BY <1>0, <1>5, <1>7


-----------------------------------------------------------------------------
(* Projectiles and damage. *)

\* A hit, by a projectile of w, of a player who could be hurt in w.
HitBy(w, e) ==
    \E j \in 1 .. Len(w.shots) :
       /\ w.shots[j].owner = e.attacker /\ w.shots[j].old = e.old
       /\ e.attacker # e.target /\ e.target \in DOMAIN w.players
       /\ ~w.players[e.target].dead /\ w.players[e.target].shield = 0
       /\ ~(Mode.team /\ w.players[e.target].team = w.shots[j].team)

\* What the projectiles change: health, deaths, kills, streaks and their
\* reward.  The dead stay dead and wait no longer than they did.
Struck(w, u) ==
    /\ DOMAIN u.players = DOMAIN w.players
    /\ <<u.pickup, u.flags, u.phase, u.left, u.winner>>
         = <<w.pickup, w.flags, w.phase, w.left, w.winner>>
    /\ \A e \in Range(u.events) : e.kind # "capture" /\ (e.kind = "hit" => HitBy(w, e))
    /\ \A id \in DOMAIN w.players :
          LET p == w.players[id]
              q == u.players[id]
          IN  /\ <<q.team, q.hill, q.dom>> = <<p.team, p.hill, p.dom>>
              /\ p.dead => q.dead /\ q.respawn = p.respawn
              /\ q.shield = p.shield \/ (q.shield = StreakShield /\ id \in Rewarded(u))

\* An event is added to the others and nothing else changes.
LEMMA EventEffect ==
  ASSUME NEW w \in World, NEW e \in Happening
  PROVE  /\ Event(w, e) \in World
         /\ Range(Event(w, e).events) = Range(w.events) \union {e}
         /\ <<Event(w, e).players, Event(w, e).shots, Event(w, e).pickup, Event(w, e).flags,
              Event(w, e).phase, Event(w, e).left, Event(w, e).winner>>
              = <<w.players, w.shots, w.pickup, w.flags, w.phase, w.left, w.winner>>
<1> DEFINE s == Append(w.events, e)
<1>1. w.events \in Seq(Happening) /\ s \in Seq(Happening)
  BY DEF World
<1>2. Len(s) = Len(w.events) + 1 /\ Len(w.events) \in Nat /\ s[Len(w.events) + 1] = e
      /\ \A i \in 1 .. Len(w.events) : s[i] = w.events[i]
  BY <1>1
<1>3. DOMAIN s = 1 .. Len(w.events) + 1 /\ DOMAIN w.events = 1 .. Len(w.events)
  BY <1>1, <1>2
<1>4. Range(s) = Range(w.events) \union {e}
  <2> HIDE DEF s
  <2>1. \A i \in 1 .. Len(w.events) + 1 : i = Len(w.events) + 1 \/ i \in 1 .. Len(w.events)
    BY <1>2
  <2>2. \A i \in 1 .. Len(w.events) : i \in 1 .. Len(w.events) + 1
    BY <1>2
  <2>3. Len(w.events) + 1 \in 1 .. Len(w.events) + 1
    BY <1>2
  <2> QED BY <1>2, <1>3, <2>1, <2>2, <2>3 DEF Range
<1>5. Event(w, e) = [w EXCEPT !.events = s]
  BY DEF Event
<1> HIDE DEF s
<1> QED BY <1>1, <1>4, <1>5 DEF World

\* Blows one after the other change what one of them may change.
LEMMA StruckAgain ==
  ASSUME NEW w \in World, NEW u \in World, NEW v \in World, Struck(w, u),
         DOMAIN v.players = DOMAIN u.players, NEW id \in DOMAIN u.players,
         <<v.pickup, v.flags, v.phase, v.left, v.winner>>
           = <<u.pickup, u.flags, u.phase, u.left, u.winner>>,
         Range(u.events) \subseteq Range(v.events),
         \A e \in Range(v.events) \ Range(u.events) :
            e.kind # "capture" /\ (e.kind = "hit" => HitBy(w, e)),
         \A o \in DOMAIN u.players \ {id} : v.players[o] = u.players[o],
         <<v.players[id].team, v.players[id].hill, v.players[id].dom>>
           = <<u.players[id].team, u.players[id].hill, u.players[id].dom>>,
         u.players[id].dead => v.players[id].dead /\ v.players[id].respawn = u.players[id].respawn,
         \/ v.players[id].shield = u.players[id].shield
         \/ v.players[id].shield = StreakShield /\ id \in Rewarded(v)
  PROVE  Struck(w, v)
<1>1. Rewarded(u) \subseteq Rewarded(v)
  BY DEF Rewarded
<1> QED BY <1>1 DEF Struck

\* recordKill: the reward of a streak heals and shields, and is told.
LEMMA RecordKillEffect ==
  ASSUME NEW w \in World, NEW u \in World, Struck(w, u), NEW id \in DOMAIN u.players
  PROVE  LET v == RecordKill(u, id) IN
         /\ v \in World /\ Struck(w, v) /\ v.shots = u.shots
         /\ DOMAIN v.players = DOMAIN u.players
         /\ \A o \in DOMAIN u.players : v.players[o].dead = u.players[o].dead
         /\ \A o \in DOMAIN u.players : v.players[o].hp = u.players[o].hp \/ v.players[o].hp = MaxHP
<1> DEFINE p == u.players[id]
           q == [p EXCEPT !.kills = @ + 1, !.streak = p.streak + 1]
           r == [q EXCEPT !.hp = MaxHP, !.shield = StreakShield]
           reward == [kind |-> "killstreak", target |-> id]
           counted == [u EXCEPT !.players[id] = q]
           before == [u EXCEPT !.players[id] = r]
           rewarded == Event(before, reward)
<1>1. /\ u.players \in [DOMAIN u.players -> Player] /\ DOMAIN u.players \subseteq Id
      /\ p \in Player /\ id \in Id
  BY PlayersOf
<1>2. q \in Player /\ r \in Player /\ reward \in Happening
  <2>1. StreakShield \in Nat /\ MaxHP \in 0 .. MaxHP
    BY ArenaAssumption
  <2> HIDE DEF p
  <2>2. q \in Player
    <3>1. PICK kills \in Nat, streak \in Nat : kills = p.kills + 1 /\ streak = p.streak + 1
      BY <1>1 DEF Player
    <3>2. q = [p EXCEPT !.kills = kills, !.streak = streak]
      BY <3>1
    <3> HIDE DEF q
    <3> QED BY <1>1, <3>2 DEF Player
  <2>3. r \in Player
    <3> HIDE DEF q
    <3> QED BY <2>1, <2>2 DEF Player
  <2>4. reward \in Happening
    BY <1>1 DEF Happening
  <2> QED BY <2>2, <2>3, <2>4
<1>3. counted \in World /\ before \in World
  <2> HIDE DEF q, r
  <2> QED BY <1>2, OnePlayer
<1>4. /\ counted.players = [u.players EXCEPT ![id] = q]
      /\ before.players = [u.players EXCEPT ![id] = r]
      /\ <<counted.pickup, counted.flags, counted.phase, counted.left, counted.winner>>
           = <<u.pickup, u.flags, u.phase, u.left, u.winner>>
      /\ <<before.pickup, before.flags, before.phase, before.left, before.winner>>
           = <<u.pickup, u.flags, u.phase, u.left, u.winner>>
      /\ <<counted.shots, counted.events, before.shots, before.events>>
           = <<u.shots, u.events, u.shots, u.events>>
  <2> HIDE DEF q, r
  <2> QED BY DEF World
<1>5. RecordKill(u, id) \in {counted, rewarded}
  <2>1. counted = [u EXCEPT !.players[id].kills = @ + 1, !.players[id].streak = p.streak + 1]
    OBVIOUS
  <2>2. before = [counted EXCEPT !.players[id].hp = MaxHP, !.players[id].shield = StreakShield]
    BY <1>1 DEF World
  <2> HIDE DEF counted, before
  <2> QED BY <2>1, <2>2 DEF RecordKill
<1>6. /\ q.hp = p.hp /\ r.hp = MaxHP /\ r.shield = StreakShield /\ q.shield = p.shield
      /\ <<q.team, q.hill, q.dom, q.dead, q.respawn>> = <<p.team, p.hill, p.dom, p.dead, p.respawn>>
      /\ <<r.team, r.hill, r.dom, r.dead, r.respawn>> = <<p.team, p.hill, p.dom, p.dead, p.respawn>>
  BY <1>1 DEF Player
<1>7. /\ rewarded \in World /\ Range(rewarded.events) = Range(u.events) \union {reward}
      /\ rewarded.players = [u.players EXCEPT ![id] = r] /\ rewarded.shots = u.shots
      /\ <<rewarded.pickup, rewarded.flags, rewarded.phase, rewarded.left, rewarded.winner>>
           = <<u.pickup, u.flags, u.phase, u.left, u.winner>>
  <2> HIDE DEF before, reward, r
  <2>1. /\ rewarded \in World /\ Range(rewarded.events) = Range(before.events) \union {reward}
        /\ <<rewarded.players, rewarded.shots, rewarded.pickup, rewarded.flags,
             rewarded.phase, rewarded.left, rewarded.winner>>
             = <<before.players, before.shots, before.pickup, before.flags,
                 before.phase, before.left, before.winner>>
    BY <1>2, <1>3, EventEffect
  <2> HIDE DEF rewarded
  <2> QED BY <1>4, <2>1
<1>8. id \in Rewarded(rewarded)
  <2>1. reward.kind = "killstreak" /\ reward.target = id
    OBVIOUS
  <2> HIDE DEF reward, rewarded
  <2> QED BY <1>7, <2>1 DEF Rewarded
<1>9. Struck(w, counted)
  <2> HIDE DEF counted, q, before, rewarded, p
  <2>1. DOMAIN counted.players = DOMAIN u.players /\ counted.players[id] = q
        /\ \A o \in DOMAIN u.players \ {id} : counted.players[o] = u.players[o]
    BY <1>1, <1>4
  <2>2. Range(counted.events) = Range(u.events)
    BY <1>4
  <2>3. \A e \in Range(counted.events) \ Range(u.events) :
            e.kind # "capture" /\ (e.kind = "hit" => HitBy(w, e))
    BY <2>2
  <2>4. <<counted.pickup, counted.flags, counted.phase, counted.left, counted.winner>>
          = <<u.pickup, u.flags, u.phase, u.left, u.winner>>
    BY <1>4
  <2>5. /\ <<counted.players[id].team, counted.players[id].hill, counted.players[id].dom>>
             = <<u.players[id].team, u.players[id].hill, u.players[id].dom>>
        /\ counted.players[id].shield = u.players[id].shield
        /\ u.players[id].dead =>
              counted.players[id].dead /\ counted.players[id].respawn = u.players[id].respawn
    BY <1>6, <2>1 DEF p
  <2> QED BY <1>3, <2>1, <2>2, <2>3, <2>4, <2>5, StruckAgain
<1>10. Struck(w, rewarded)
  <2>1. reward.kind = "killstreak"
    OBVIOUS
  <2> HIDE DEF r, rewarded, reward, counted, before, p
  <2>2. DOMAIN rewarded.players = DOMAIN u.players /\ rewarded.players[id] = r
        /\ \A o \in DOMAIN u.players \ {id} : rewarded.players[o] = u.players[o]
    BY <1>1, <1>7
  <2>3. \A e \in Range(rewarded.events) \ Range(u.events) :
            e.kind # "capture" /\ (e.kind = "hit" => HitBy(w, e))
    BY <1>7, <2>1
  <2>4. Range(u.events) \subseteq Range(rewarded.events)
    BY <1>7
  <2>5. rewarded \in World
    BY <1>7
  <2>6. <<rewarded.pickup, rewarded.flags, rewarded.phase, rewarded.left, rewarded.winner>>
          = <<u.pickup, u.flags, u.phase, u.left, u.winner>>
    BY <1>7
  <2>7. /\ <<rewarded.players[id].team, rewarded.players[id].hill, rewarded.players[id].dom>>
             = <<u.players[id].team, u.players[id].hill, u.players[id].dom>>
        /\ rewarded.players[id].shield = StreakShield
        /\ u.players[id].dead =>
              rewarded.players[id].dead /\ rewarded.players[id].respawn = u.players[id].respawn
    BY <1>6, <2>2 DEF p
  <2> QED BY <1>8, <2>2, <2>3, <2>4, <2>5, <2>6, <2>7, StruckAgain
<1>11. /\ DOMAIN counted.players = DOMAIN u.players /\ DOMAIN rewarded.players = DOMAIN u.players
       /\ \A o \in DOMAIN u.players :
             /\ counted.players[o].dead = u.players[o].dead /\ rewarded.players[o].dead = u.players[o].dead
             /\ counted.players[o].hp = u.players[o].hp
             /\ rewarded.players[o].hp = u.players[o].hp \/ rewarded.players[o].hp = MaxHP
  <2> HIDE DEF q, r, counted, rewarded
  <2> QED BY <1>1, <1>4, <1>6, <1>7
<1> HIDE DEF counted, rewarded, q, r, before
<1> QED BY <1>3, <1>4, <1>5, <1>7, <1>9, <1>10, <1>11

\* applyDamage, to a player who is vulnerable: health, death, the kill of another.
LEMMA ApplyDamageEffect ==
  ASSUME NEW w \in World, NEW u \in World, Struck(w, u), Consistent(u),
         NEW j \in 1 .. Len(w.shots), NEW victim \in DOMAIN w.players, NEW damage \in Nat,
         Vulnerable(u, victim, w.shots[j])
  PROVE  LET v == ApplyDamage(u, victim, w.shots[j], damage) IN
         v \in World /\ Struck(w, v) /\ Consistent(v) /\ v.shots = u.shots
<1> DEFINE shot == w.shots[j]
           p == u.players[victim]
           hp == Max({p.hp - damage, 0})
           wound == [kind |-> "hit", attacker |-> shot.owner, target |-> victim, old |-> shot.old]
           loss == [kind |-> "death", attacker |-> shot.owner, target |-> victim]
           q == [p EXCEPT !.hp = hp]
           r == [p EXCEPT !.hp = hp, !.dead = TRUE, !.respawn = RespawnDelay,
                          !.deaths = @ + 1, !.streak = 0]
           hurt == [u EXCEPT !.players[victim] = q]
           hit == Event(hurt, wound)
           killed == [hit EXCEPT !.players[victim] = r]
           dead == Event(killed, loss)
<1>1. /\ DOMAIN u.players = DOMAIN w.players /\ w.players \in [DOMAIN w.players -> Player]
      /\ u.players \in [DOMAIN u.players -> Player] /\ DOMAIN u.players \subseteq Id
      /\ p \in Player /\ victim \in Id /\ victim \in DOMAIN u.players
      /\ shot \in Shot
  BY PlayersOf DEF Struck, World
<1>2. /\ victim # shot.owner /\ ~p.dead /\ p.shield = 0
      /\ ~(Mode.team /\ p.team = shot.team)
  BY DEF Vulnerable
<1>3. hp \in 0 .. MaxHP /\ p.hp > 0 /\ MaxHP \in Nat
  <2>1. p.hp \in 0 .. MaxHP /\ MaxHP \in Nat /\ p.hp - damage \in Int /\ 0 \in Int
    <3>1. p.hp \in 0 .. MaxHP
      BY <1>1 DEF Player
    <3>2. MaxHP \in Nat
      BY ArenaAssumption
    <3> HIDE DEF p
    <3> QED BY <3>1, <3>2
  <2>2. hp = IF p.hp - damage >= 0 THEN p.hp - damage ELSE 0
    BY <2>1, MaxOfTwo
  <2>3. p.hp > 0
    BY <1>1, <1>2 DEF Consistent
  <2> HIDE DEF hp, p
  <2> QED BY <2>1, <2>2, <2>3
<1>4. q \in Player /\ r \in Player
  <2> HIDE DEF p, hp
  <2>1. q \in Player
    BY <1>1, <1>3 DEF Player
  <2>2. PICK deaths \in Nat : deaths = p.deaths + 1
    BY <1>1 DEF Player
  <2>3. RespawnDelay \in 0 .. RespawnDelay
    BY ArenaAssumption
  <2>4. r = [p EXCEPT !.hp = hp, !.dead = TRUE, !.respawn = RespawnDelay,
                      !.deaths = deaths, !.streak = 0]
    BY <2>2
  <2>5. r \in Player
    <3> HIDE DEF r
    <3> QED BY <1>1, <1>3, <2>3, <2>4 DEF Player
  <2> QED BY <2>1, <2>5
<1>5. /\ q.hp = hp /\ r.hp = hp /\ r.dead /\ q.shield = p.shield /\ r.shield = p.shield
      /\ <<q.team, q.hill, q.dom, q.dead, q.respawn>> = <<p.team, p.hill, p.dom, p.dead, p.respawn>>
      /\ <<r.team, r.hill, r.dom>> = <<p.team, p.hill, p.dom>>
  <2> HIDE DEF p, hp
  <2> QED BY <1>1 DEF Player
<1>6. wound \in Happening /\ loss \in Happening /\ HitBy(w, wound)
  <2>1. /\ w.players[victim].team = p.team /\ ~w.players[victim].dead
        /\ w.players[victim].shield = 0
    <3>1. StreakShield # 0
      BY ArenaAssumption
    <3> QED BY <1>2, <3>1 DEF Struck
  <2>2. wound.attacker = shot.owner /\ wound.target = victim /\ wound.old = shot.old
    OBVIOUS
  <2>3. HitBy(w, wound)
    <3> HIDE DEF wound
    <3> QED BY <1>2, <2>1, <2>2 DEF HitBy
  <2> QED BY <1>1, <2>3 DEF Happening, Shot
<1>7. /\ hurt \in World /\ hurt.players = [u.players EXCEPT ![victim] = q]
      /\ <<hurt.shots, hurt.events, hurt.pickup, hurt.flags, hurt.phase, hurt.left, hurt.winner>>
           = <<u.shots, u.events, u.pickup, u.flags, u.phase, u.left, u.winner>>
  <2> HIDE DEF q
  <2> QED BY <1>1, <1>4, OnePlayer DEF World
<1>8. /\ hit \in World /\ hit.players = [u.players EXCEPT ![victim] = q]
      /\ <<hit.shots, hit.pickup, hit.flags, hit.phase, hit.left, hit.winner>>
           = <<u.shots, u.pickup, u.flags, u.phase, u.left, u.winner>>
      /\ Range(hit.events) = Range(u.events) \union {wound}
  <2> HIDE DEF hurt, q, wound
  <2>1. /\ hit \in World /\ Range(hit.events) = Range(hurt.events) \union {wound}
        /\ <<hit.players, hit.shots, hit.pickup, hit.flags, hit.phase, hit.left, hit.winner>>
             = <<hurt.players, hurt.shots, hurt.pickup, hurt.flags, hurt.phase, hurt.left, hurt.winner>>
    BY <1>6, <1>7, EventEffect
  <2> HIDE DEF hit
  <2> QED BY <1>7, <2>1
<1>9. /\ killed \in World /\ killed.players = [u.players EXCEPT ![victim] = r]
      /\ <<killed.shots, killed.events, killed.pickup, killed.flags, killed.phase, killed.left, killed.winner>>
           = <<u.shots, hit.events, u.pickup, u.flags, u.phase, u.left, u.winner>>
  <2> HIDE DEF hit, q, r
  <2>1. victim \in DOMAIN hit.players
    BY <1>1, <1>8
  <2>2. killed \in World
    BY <1>4, <1>8, <2>1, OnePlayer
  <2>3. killed.players = [hit.players EXCEPT ![victim] = r]
        /\ <<killed.shots, killed.events, killed.pickup, killed.flags, killed.phase, killed.left, killed.winner>>
             = <<hit.shots, hit.events, hit.pickup, hit.flags, hit.phase, hit.left, hit.winner>>
    BY <1>8 DEF World
  <2>4. [[u.players EXCEPT ![victim] = q] EXCEPT ![victim] = r] = [u.players EXCEPT ![victim] = r]
    BY <1>1
  <2> HIDE DEF killed
  <2> QED BY <1>8, <2>2, <2>3, <2>4
<1>10. /\ dead \in World /\ dead.players = [u.players EXCEPT ![victim] = r]
       /\ <<dead.shots, dead.pickup, dead.flags, dead.phase, dead.left, dead.winner>>
            = <<u.shots, u.pickup, u.flags, u.phase, u.left, u.winner>>
       /\ Range(dead.events) = Range(u.events) \union {wound, loss}
  <2> HIDE DEF killed, hit, r, wound, loss
  <2>1. /\ dead \in World /\ Range(dead.events) = Range(killed.events) \union {loss}
        /\ <<dead.players, dead.shots, dead.pickup, dead.flags, dead.phase, dead.left, dead.winner>>
             = <<killed.players, killed.shots, killed.pickup, killed.flags, killed.phase, killed.left,
                 killed.winner>>
    BY <1>6, <1>9, EventEffect
  <2> HIDE DEF dead
  <2> QED BY <1>8, <1>9, <2>1
<1>11. wound.kind = "hit" /\ loss.kind = "death"
  OBVIOUS
<1>12. Struck(w, hit)
  <2> HIDE DEF hit, hurt, q, p, wound
  <2>1. DOMAIN hit.players = DOMAIN u.players /\ hit.players[victim] = q
        /\ \A o \in DOMAIN u.players \ {victim} : hit.players[o] = u.players[o]
    BY <1>1, <1>8
  <2>2. \A e \in Range(hit.events) \ Range(u.events) :
            e.kind # "capture" /\ (e.kind = "hit" => HitBy(w, e))
    BY <1>6, <1>8, <1>11
  <2>3. <<hit.pickup, hit.flags, hit.phase, hit.left, hit.winner>>
          = <<u.pickup, u.flags, u.phase, u.left, u.winner>>
    BY <1>8
  <2>4. /\ <<hit.players[victim].team, hit.players[victim].hill, hit.players[victim].dom>>
             = <<u.players[victim].team, u.players[victim].hill, u.players[victim].dom>>
        /\ hit.players[victim].shield = u.players[victim].shield
        /\ ~u.players[victim].dead
    BY <1>2, <1>5, <2>1 DEF p
  <2>5. Range(u.events) \subseteq Range(hit.events)
    BY <1>8
  <2> QED BY <1>1, <1>8, <2>1, <2>2, <2>3, <2>4, <2>5, StruckAgain
<1>13. Struck(w, dead)
  <2> HIDE DEF dead, killed, hit, r, p, wound, loss
  <2>1. DOMAIN dead.players = DOMAIN u.players /\ dead.players[victim] = r
        /\ \A o \in DOMAIN u.players \ {victim} : dead.players[o] = u.players[o]
    BY <1>1, <1>10
  <2>2. \A e \in Range(dead.events) \ Range(u.events) :
            e.kind # "capture" /\ (e.kind = "hit" => HitBy(w, e))
    BY <1>6, <1>10, <1>11
  <2>3. <<dead.pickup, dead.flags, dead.phase, dead.left, dead.winner>>
          = <<u.pickup, u.flags, u.phase, u.left, u.winner>>
    BY <1>10
  <2>4. /\ <<dead.players[victim].team, dead.players[victim].hill, dead.players[victim].dom>>
             = <<u.players[victim].team, u.players[victim].hill, u.players[victim].dom>>
        /\ dead.players[victim].shield = u.players[victim].shield
        /\ ~u.players[victim].dead
    BY <1>2, <1>5, <2>1 DEF p
  <2>5. Range(u.events) \subseteq Range(dead.events)
    BY <1>10
  <2> QED BY <1>1, <1>10, <2>1, <2>2, <2>3, <2>4, <2>5, StruckAgain
<1>14. hp > 0 => Consistent(hit)
  <2> HIDE DEF hit, hp, p, q
  <2>1. DOMAIN hit.players = DOMAIN u.players /\ hit.players[victim] = q
        /\ \A o \in DOMAIN u.players \ {victim} : hit.players[o] = u.players[o]
    BY <1>1, <1>8
  <2> QED BY <1>2, <1>5, <2>1 DEF Consistent
<1>15. hp = 0 => Consistent(dead)
  <2> HIDE DEF dead, hp, p, r
  <2>1. DOMAIN dead.players = DOMAIN u.players /\ dead.players[victim] = r
        /\ \A o \in DOMAIN u.players \ {victim} : dead.players[o] = u.players[o]
    BY <1>1, <1>10
  <2> QED BY <1>5, <2>1 DEF Consistent
<1>16. ApplyDamage(u, victim, shot, damage) =
         IF hp > 0 THEN hit
         ELSE IF shot.owner \in DOMAIN u.players THEN RecordKill(dead, shot.owner) ELSE dead
  <2>1. hurt = [u EXCEPT !.players[victim].hp = hp]
    OBVIOUS
  <2>2. killed = [hit EXCEPT !.players[victim].dead = TRUE, !.players[victim].respawn = RespawnDelay,
                             !.players[victim].deaths = @ + 1, !.players[victim].streak = 0]
    <3>1. hit.players[victim] = q
      BY <1>1, <1>8
    <3>2. r = [q EXCEPT !.dead = TRUE, !.respawn = RespawnDelay, !.deaths = @ + 1, !.streak = 0]
      <4> HIDE DEF p, hp
      <4> QED BY <1>1 DEF Player
    <3>3. hit \in [players : Players, shots : Seq(Shot), pickup : Pickup,
     flags : [Team -> Flag], phase : {"active", "intermission"}, left : Nat, winner : Nat,
     events : Seq(Happening)]
      BY <1>8 DEF World
    <3>4. hit.players \in [DOMAIN u.players -> Player]
      BY <1>1, <1>4, <1>8
    <3> HIDE DEF hit, r, q
    <3> QED BY <1>1, <3>1, <3>2, <3>3, <3>4
  <2> DEFINE hit1 == Event([u EXCEPT !.players[victim].hp = hp], wound)
             dead1 == Event([hit1 EXCEPT !.players[victim].dead = TRUE,
                                         !.players[victim].respawn = RespawnDelay,
                                         !.players[victim].deaths = @ + 1,
                                         !.players[victim].streak = 0], loss)
  <2>3. ApplyDamage(u, victim, shot, damage) =
          IF u.players[victim].hp = 0 THEN u
          ELSE IF hp > 0 THEN hit1
          ELSE IF shot.owner # victim /\ shot.owner \in DOMAIN u.players
                 THEN RecordKill(dead1, shot.owner) ELSE dead1
    BY DEF ApplyDamage
  <2>4. u.players[victim].hp # 0 /\ victim # shot.owner
    BY <1>2, <1>3
  <2>5. hp > 0 \/ hp = 0
    <3> HIDE DEF hp
    <3> QED BY <1>3
  <2>6. hit1 = hit
    <3> HIDE DEF q, hp, wound, p
    <3> QED BY <2>1
  <2>7. dead1 = dead
    <3> HIDE DEF q, r, hp, hit, hit1
    <3> QED BY <2>2, <2>6
  <2> HIDE DEF hit, hit1, dead, dead1, hp
  <2> QED BY <2>3, <2>4, <2>5, <2>6, <2>7
<1>17. CASE hp > 0
  <2> HIDE DEF hit, hp
  <2> QED BY <1>8, <1>12, <1>14, <1>16, <1>17
<1>18. CASE hp = 0 /\ shot.owner \notin DOMAIN u.players
  <2> HIDE DEF dead, hp
  <2> QED BY <1>10, <1>13, <1>15, <1>16, <1>18
<1>19. CASE hp = 0 /\ shot.owner \in DOMAIN u.players
  <2> DEFINE v == RecordKill(dead, shot.owner)
  <2>1. shot.owner \in DOMAIN dead.players
    BY <1>1, <1>10, <1>19
  <2>2. /\ v \in World /\ Struck(w, v) /\ v.shots = dead.shots
        /\ DOMAIN v.players = DOMAIN dead.players
        /\ \A o \in DOMAIN dead.players : v.players[o].dead = dead.players[o].dead
        /\ \A o \in DOMAIN dead.players : v.players[o].hp = dead.players[o].hp \/ v.players[o].hp = MaxHP
    <3>1. dead \in World /\ Struck(w, dead)
      BY <1>10, <1>13
    <3> HIDE DEF dead, shot
    <3> QED BY <2>1, <3>1, RecordKillEffect
  <2>3. Consistent(v)
    <3>1. MaxHP > 0
      BY ArenaAssumption
    <3> HIDE DEF v, dead
    <3> QED BY <1>15, <1>19, <2>2, <3>1 DEF Consistent
  <2>4. ApplyDamage(u, victim, shot, damage) = v
    <3> HIDE DEF dead, hp, hit
    <3> QED BY <1>16, <1>19
  <2> HIDE DEF dead, v
  <2> QED BY <1>10, <2>2, <2>3, <2>4
<1> HIDE DEF hp
<1> QED BY <1>3, <1>17, <1>18, <1>19

\* What a projectile reaches are players, others than its owner.
LEMMA FateOf ==
  ASSUME NEW w \in World, NEW shot \in Shot, NEW fate \in Fate(w, shot)
  PROVE  /\ fate.reach \subseteq DOMAIN w.players
         /\ \A id \in DOMAIN w.players : fate.splash[id] \in Nat
<1>1. Weapons[shot.weapon].splash \in Nat
  BY ArenaAssumption DEF Shot
<1>2. /\ fate.reach \subseteq DOMAIN w.players \ {shot.owner}
      /\ fate.splash \in [DOMAIN w.players -> 0 .. Weapons[shot.weapon].splash]
  BY DEF Fate
<1>3. \A id \in DOMAIN w.players : fate.splash[id] \in 0 .. Weapons[shot.weapon].splash
  BY <1>2
<1> QED BY <1>1, <1>2, <1>3

\* explode: every player hurt was vulnerable when his turn came.
LEMMA ExplodeEffect ==
  ASSUME NEW w \in World, NEW u \in World, Struck(w, u), Consistent(u),
         NEW j \in 1 .. Len(w.shots), NEW fate \in Fate(w, w.shots[j])
  PROVE  LET v == Explode(u, w.shots[j], fate) IN
         v \in World /\ Struck(w, v) /\ Consistent(v) /\ v.shots = u.shots
<1> DEFINE V == {v \in World : Struck(w, v) /\ Consistent(v) /\ v.shots = u.shots}
           shot == w.shots[j]
<1>1. u \in V /\ shot \in Shot /\ DOMAIN u.players = DOMAIN w.players
  BY DEF World, Struck
<1>2. ASSUME NEW id \in Id, NEW v \in V, id \in DOMAIN u.players, Vulnerable(v, id, shot)
      PROVE  ApplyDamage(v, id, shot, fate.splash[id]) \in V
  <2>1. fate.splash[id] \in Nat /\ id \in DOMAIN w.players
    BY <1>1, <1>2, FateOf
  <2>2. v \in World /\ Struck(w, v) /\ Consistent(v) /\ v.shots = u.shots
    OBVIOUS
  <2> DEFINE x == ApplyDamage(v, id, w.shots[j], fate.splash[id])
  <2>3. x \in World /\ Struck(w, x) /\ Consistent(x) /\ x.shots = v.shots
    BY <1>2, <2>1, <2>2, ApplyDamageEffect
  <2> HIDE DEF x
  <2>4. x \in V
    BY <2>2, <2>3
  <2> QED BY <2>4 DEF x
<1>3. Explode(u, shot, fate) \in V
  <2> HIDE DEF V, shot
  <2> QED BY <1>1, <1>2, ExplodeFold
<1> QED BY <1>3

\* A projectile one tick later.
Aged(shot) == [shot EXCEPT !.life = @ - 1]

\* One projectile: it hurts whom it may, and is gone or has one tick less.
LEMMA FlightEffect ==
  ASSUME NEW w \in World, NEW u \in World, Struck(w, u), Consistent(u),
         NEW j \in 1 .. Len(w.shots), NEW fate \in Fate(w, w.shots[j])
  PROVE  LET v == Flight(u, w.shots[j], fate) IN
         /\ v \in World /\ Struck(w, v) /\ Consistent(v)
         /\ \/ v.shots = u.shots
            \/ /\ w.shots[j].life > 1
               /\ v.shots = Append(u.shots, Aged(w.shots[j]))
<1> DEFINE shot == w.shots[j]
           victims == Victims(u, shot, fate)
           spec == Weapons[shot.weapon]
           hit == IF spec.splash > 0
                    THEN IF victims # {} \/ fate.stop = "wall" THEN Explode(u, shot, fate) ELSE u
                    ELSE IF victims # {} THEN ApplyDamage(u, Min(victims), shot, spec.damage) ELSE u
           gone == victims # {} \/ fate.stop # "no" \/ shot.life <= 1
           onward == [shot EXCEPT !.life = @ - 1]
<1>1. shot \in Shot /\ DOMAIN u.players = DOMAIN w.players /\ DOMAIN w.players \subseteq Id
  <2>1. DOMAIN w.players \subseteq Id
    BY PlayersOf
  <2>2. shot \in Shot
    BY DEF World
  <2>3. DOMAIN u.players = DOMAIN w.players
    BY DEF Struck
  <2> QED BY <2>1, <2>2, <2>3
<1>2. hit \in World /\ Struck(w, hit) /\ Consistent(hit) /\ hit.shots = u.shots
  <2>1. CASE hit = u
    <3> HIDE DEF hit
    <3> QED BY <2>1
  <2>2. CASE hit = Explode(u, shot, fate)
    <3> DEFINE x == Explode(u, w.shots[j], fate)
    <3>1. x \in World /\ Struck(w, x) /\ Consistent(x) /\ x.shots = u.shots
      BY ExplodeEffect
    <3> HIDE DEF x, hit
    <3> QED BY <2>2, <3>1 DEF x
  <2>3. CASE victims # {} /\ hit = ApplyDamage(u, Min(victims), shot, spec.damage)
    <3>1. victims \subseteq DOMAIN w.players /\ \A id \in victims : Vulnerable(u, id, shot)
      BY <1>1, FateOf DEF Victims
    <3>2. victims \in SUBSET Nat
      <4>1. Id \subseteq Nat
        BY ArenaAssumption DEF Id
      <4> HIDE DEF victims
      <4> QED BY <1>1, <3>1, <4>1
    <3>3. Min(victims) \in victims
      <4> HIDE DEF victims
      <4> QED BY <2>3, <3>2, MinOfNumbers
    <3>4. spec.damage \in Nat
      BY <1>1, ArenaAssumption DEF Shot
    <3> DEFINE x == ApplyDamage(u, Min(victims), w.shots[j], spec.damage)
    <3>5. Min(victims) \in DOMAIN w.players /\ Vulnerable(u, Min(victims), w.shots[j])
      BY <3>1, <3>3
    <3>6. x \in World /\ Struck(w, x) /\ Consistent(x) /\ x.shots = u.shots
      <4> HIDE DEF victims, spec
      <4> QED BY <3>4, <3>5, ApplyDamageEffect
    <3> HIDE DEF x, hit
    <3> QED BY <2>3, <3>6 DEF x
  <2>4. hit = u \/ hit = Explode(u, shot, fate) \/
          (victims # {} /\ hit = ApplyDamage(u, Min(victims), shot, spec.damage))
    <3> HIDE DEF victims, shot, spec
    <3> QED OBVIOUS
  <2> HIDE DEF hit
  <2> QED BY <2>1, <2>2, <2>3, <2>4
<1>3. Flight(u, shot, fate) = IF gone THEN hit ELSE [hit EXCEPT !.shots = Append(@, onward)]
  BY DEF Flight
<1>4. CASE gone
  <2> HIDE DEF gone, hit
  <2> QED BY <1>2, <1>3, <1>4
<1>5. CASE ~gone
  <2> DEFINE v == [hit EXCEPT !.shots = Append(@, onward)]
  <2>1. shot.life > 1 /\ onward \in Shot
    <3>1. shot.life \in 1 .. ProjectileLife /\ ProjectileLife \in Nat
      BY <1>1, ArenaAssumption DEF Shot
    <3>2. shot.life > 1
      BY <1>5, <3>1
    <3>3. shot.life - 1 \in 1 .. ProjectileLife
      BY <3>1, <3>2
    <3> HIDE DEF shot
    <3> QED BY <1>1, <3>2, <3>3 DEF Shot
  <2> HIDE DEF hit, onward, gone
  <2>2. Append(hit.shots, onward) \in Seq(Shot)
    BY <1>2, <2>1 DEF World
  <2>3. /\ v \in World /\ v.shots = Append(u.shots, onward)
        /\ <<v.players, v.pickup, v.flags, v.phase, v.left, v.winner, v.events>>
             = <<hit.players, hit.pickup, hit.flags, hit.phase, hit.left, hit.winner, hit.events>>
    BY <1>2, <2>2 DEF World
  <2> HIDE DEF v
  <2>4. Struck(w, v) /\ Consistent(v)
    BY <1>2, <2>3 DEF Struck, Consistent, Rewarded
  <2>5. Flight(u, shot, fate) = v
    BY <1>3, <1>5 DEF v
  <2>6. onward = Aged(shot)
    BY DEF onward, Aged
  <2> QED BY <2>1, <2>3, <2>4, <2>5, <2>6
<1> QED BY <1>4, <1>5

\* The projectiles together: those that fly on are of those that flew, each
\* with one tick less.
FlyingOn(w, u) ==
    \A i \in 1 .. Len(u.shots) : \E j \in 1 .. Len(w.shots) :
       w.shots[j].life > 1 /\ u.shots[i] = Aged(w.shots[j])
Flown(w, u) == u \in World /\ Struck(w, u) /\ Consistent(u) /\ FlyingOn(w, u)

\* The fold of Fly: what holds after each of the projectiles in their order.
LEMMA FlyFold ==
  ASSUME NEW w \in World, NEW fates, NEW V,
         \A j, k \in 0 .. Len(w.shots) : j <= k => V[j] \subseteq V[k],
         [w EXCEPT !.shots = << >>] \in V[0],
         \A k \in 1 .. Len(w.shots) : \A u \in V[k - 1] : Flight(u, w.shots[k], fates[k]) \in V[k]
  PROVE  Fly(w, fates) \in V[Len(w.shots)]
<1> DEFINE n == Len(w.shots)
           Order1 == [k \in 1 .. n |-> k]
           Op(u, k) == Flight(u, w.shots[k], fates[k])
           F == [k \in 1 .. n |-> [u \in V[k - 1] |-> Op(u, k)]]
           base == [w EXCEPT !.shots = << >>]
<1>0. n \in Nat /\ DOMAIN Order1 = 1 .. n /\ \A k \in 1 .. n : Order1[k] = k
  BY DEF World
<1>1. \A k \in 1 .. n : \A u \in V[k - 1] : Op(u, k) \in V[k]
  OBVIOUS
<1>2. /\ \A k \in 1 .. n : F[k] \in [V[k - 1] -> V[k]]
      /\ base \in V[0] /\ \A j, k \in 0 .. n : j <= k => V[j] \subseteq V[k]
  <2>1. \A k \in 1 .. n : F[k] \in [V[k - 1] -> V[k]]
    <3> HIDE DEF Op, n
    <3> QED BY <1>0, <1>1
  <2> QED BY <2>1
<1>3. PICK g : Taken(n, base, F, g) /\ Kept(n, V, g)
  <2> HIDE DEF F, base, n
  <2> QED BY <1>0, <1>2, FoldExists
<1>4. g = [s \in SUBSET DOMAIN Order1 |-> IF s = {} THEN base ELSE Op(g[s \ {Max(s)}], Order1[Max(s)])]
  <2>1. \A s \in SUBSET (1 .. n) : s # {} => Max(s) \in 1 .. n /\ g[s \ {Max(s)}] \in V[Max(s) - 1]
    <3> HIDE DEF F, base, n
    <3> QED BY <1>0, <1>2, <1>3, BeforeLast
  <2>2. \A s \in SUBSET (1 .. n) : s # {} =>
           F[Max(s)][g[s \ {Max(s)}]] = Op(g[s \ {Max(s)}], Order1[Max(s)])
    <3>1. \A k \in 1 .. n : \A u \in V[k - 1] : F[k][u] = Op(u, k)
      <4> HIDE DEF Op, n
      <4> QED BY <1>0
    <3> HIDE DEF F, Op, base, n, Order1
    <3> QED BY <1>0, <2>1, <3>1
  <2> HIDE DEF F, Op, base, n, Order1
  <2> QED BY <1>0, <1>3, <2>2 DEF Taken
<1>5. PICK x : /\ x = [s \in SUBSET DOMAIN Order1 |->
                         IF s = {} THEN base ELSE Op(x[s \ {Max(s)}], Order1[Max(s)])]
               /\ Fly(w, fates) = x[DOMAIN Order1]
  BY <1>4 DEF Fly, FoldLeft, MapThenFoldSet
<1>6. x[{}] = base /\ \A k \in 1 .. n : x[1 .. k] = Op(x[1 .. (k - 1)], k)
  <2> HIDE DEF Op, base, n, Order1
  <2>1. x[{}] = base
    BY <1>5
  <2>2. \A k \in 1 .. n : x[1 .. k] = Op(x[(1 .. k) \ {Max(1 .. k)}], Order1[Max(1 .. k)])
    <3> TAKE k \in 1 .. n
    <3>1. 1 .. k \in SUBSET DOMAIN Order1 /\ 1 .. k # {}
      BY <1>0, Segments
    <3> QED BY <1>5, <3>1
  <2>3. \A k \in 1 .. n : (1 .. k) \ {Max(1 .. k)} = 1 .. (k - 1) /\ Order1[Max(1 .. k)] = k
    BY <1>0, Segments
  <2> QED BY <2>1, <2>2, <2>3
<1>7. x[1 .. n] \in V[n]
  <2> HIDE DEF Op, base, n, Order1
  <2>1. x[{}] \in V[0] /\ \A k \in 1 .. n : x[1 .. (k - 1)] \in V[k - 1] => x[1 .. k] \in V[k]
    BY <1>0, <1>1, <1>2, <1>6
  <2> QED BY <1>0, <2>1, FoldClimbs
<1> HIDE DEF Op, base, Order1
<1> QED BY <1>0, <1>5, <1>7

\* stepProjectiles: the hits of a tick are by its projectiles, and those that fly
\* on are no more than there were, each a tick older.
LEMMA FlyEffect ==
  ASSUME NEW w \in World, Consistent(w), w.events = << >>, NEW fates,
         \A k \in 1 .. Len(w.shots) : fates[k] \in Fate(w, w.shots[k])
  PROVE  Flown(w, Fly(w, fates)) /\ Len(Fly(w, fates).shots) <= Len(w.shots)
<1> DEFINE n == Len(w.shots)
           V == [k \in 0 .. n |-> {u \in World : Flown(w, u) /\ Len(u.shots) <= k}]
           base == [w EXCEPT !.shots = << >>]
<1>0. n \in Nat /\ w.shots \in Seq(Shot)
  BY DEF World
<1>1. \A j, k \in 0 .. n : j <= k => V[j] \subseteq V[k]
  <2>1. \A u \in World : Len(u.shots) \in Nat
    BY DEF World
  <2> QED BY <1>0, <2>1
<1>2. base \in V[0]
  <2>1. base \in World /\ base.shots = << >>
        /\ <<base.players, base.pickup, base.flags, base.phase, base.left, base.winner, base.events>>
             = <<w.players, w.pickup, w.flags, w.phase, w.left, w.winner, << >> >>
    <3>1. << >> \in Seq(Shot)
      OBVIOUS
    <3> QED BY <3>1 DEF World
  <2> HIDE DEF base
  <2>2. Range(base.events) = {}
    BY <2>1 DEF Range
  <2>3. Struck(w, base) /\ Consistent(base) /\ FlyingOn(w, base)
    BY <2>1, <2>2 DEF Struck, Consistent, FlyingOn
  <2> QED BY <1>0, <2>1, <2>3 DEF Flown
<1>3. ASSUME NEW k \in 1 .. n, NEW u \in V[k - 1]
      PROVE  Flight(u, w.shots[k], fates[k]) \in V[k]
  <2> DEFINE v == Flight(u, w.shots[k], fates[k])
             onward == Aged(w.shots[k])
  <2>0. k - 1 \in 0 .. n
    BY <1>0
  <2>1. u \in World /\ Struck(w, u) /\ Consistent(u) /\ FlyingOn(w, u) /\ Len(u.shots) <= k - 1
    BY <2>0 DEF Flown
  <2>2. /\ v \in World /\ Struck(w, v) /\ Consistent(v)
        /\ \/ v.shots = u.shots
           \/ w.shots[k].life > 1 /\ v.shots = Append(u.shots, onward)
    <3>1. fates[k] \in Fate(w, w.shots[k])
      OBVIOUS
    <3> QED BY <2>1, <3>1, FlightEffect
  <2>3. Len(u.shots) \in Nat /\ u.shots \in Seq(Shot)
    BY <2>1 DEF World
  <2> HIDE DEF v, onward
  <2>4. FlyingOn(w, v) /\ Len(v.shots) <= k
    <3>1. CASE v.shots = u.shots
      BY <1>0, <2>1, <2>3, <3>1 DEF FlyingOn
    <3>2. CASE w.shots[k].life > 1 /\ v.shots = Append(u.shots, onward)
      <4>1. Len(v.shots) = Len(u.shots) + 1 /\ v.shots[Len(u.shots) + 1] = onward
            /\ \A i \in 1 .. Len(u.shots) : v.shots[i] = u.shots[i]
        BY <2>3, <3>2
      <4>2. \A i \in 1 .. Len(v.shots) : i = Len(u.shots) + 1 \/ i \in 1 .. Len(u.shots)
        BY <2>3, <4>1
      <4>3. ASSUME NEW i \in 1 .. Len(v.shots)
            PROVE  \E j \in 1 .. n : w.shots[j].life > 1 /\ v.shots[i] = Aged(w.shots[j])
        BY <2>1, <3>2, <4>1, <4>2 DEF FlyingOn, onward
      <4>4. FlyingOn(w, v)
        BY <4>3 DEF FlyingOn
      <4>5. Len(v.shots) <= k
        BY <1>0, <2>1, <2>3, <4>1
      <4> QED BY <4>4, <4>5
    <3> QED BY <2>2, <3>1, <3>2
  <2>5. v \in World /\ Flown(w, v) /\ Len(v.shots) <= k
    BY <2>2, <2>4 DEF Flown
  <2>6. v \in V[k]
    <3>1. k \in 0 .. n
      BY <1>0
    <3> QED BY <2>5, <3>1
  <2> QED BY <2>6 DEF v
<1>4. Fly(w, fates) \in V[n]
  <2> HIDE DEF V
  <2> QED BY <1>1, <1>2, <1>3, FlyFold
<1> QED BY <1>0, <1>4


-----------------------------------------------------------------------------
(* Respawns, pickups, the hill and domination. *)

\* All players changed.
LEMMA AllPlayers ==
  ASSUME NEW w \in World, NEW f \in [DOMAIN w.players -> Player]
  PROVE  LET u == [w EXCEPT !.players = f] IN
         /\ u \in World /\ u.players = f /\ DOMAIN u.players = DOMAIN w.players
         /\ <<u.shots, u.pickup, u.flags, u.phase, u.left, u.winner, u.events>>
              = <<w.shots, w.pickup, w.flags, w.phase, w.left, w.winner, w.events>>
<1>1. f \in Players
  BY PlayersOf, PlayersIn
<1> QED BY <1>1 DEF World

\* respawn: full health, alive and shielded.
LEMMA RespawnedPlayer ==
  ASSUME NEW p \in Player
  PROVE  /\ Respawned(p) \in Player
         /\ Respawned(p).hp = MaxHP /\ ~Respawned(p).dead /\ Respawned(p).shield = SpawnShield
         /\ <<Respawned(p).team, Respawned(p).hill, Respawned(p).dom>> = <<p.team, p.hill, p.dom>>
<1>1. MaxHP \in 0 .. MaxHP /\ SpawnShield \in Nat /\ BuffTime \in Nat
  BY ArenaAssumption
<1>2. 0 \in 0 .. BuffTime /\ 0 \in Nat /\ FALSE \in BOOLEAN
  BY <1>1
<1> DEFINE q == Respawned(p)
<1>3. q = [p EXCEPT !.hp = MaxHP, !.dead = FALSE, !.wait = 0, !.rapid = 0, !.spread = 0,
                    !.shield = SpawnShield]
  BY DEF Respawned
<1> HIDE DEF q
<1>4. q \in Player
  BY <1>1, <1>2, <1>3 DEF Player
<1>5. q.hp = MaxHP /\ ~q.dead /\ q.shield = SpawnShield /\ <<q.team, q.hill, q.dom>> = <<p.team, p.hill, p.dom>>
  BY <1>3 DEF Player
<1> QED BY <1>4, <1>5 DEF q

\* Who is dead and has waited returns; the others stay as they are.
LEMMA RespawnEffect ==
  ASSUME NEW w \in World, Consistent(w)
  PROVE  LET u == Respawn(w) IN
         /\ u \in World /\ Consistent(u) /\ DOMAIN u.players = DOMAIN w.players
         /\ <<u.shots, u.pickup, u.flags, u.phase, u.left, u.winner, u.events>>
              = <<w.shots, w.pickup, w.flags, w.phase, w.left, w.winner, w.events>>
         /\ \A id \in DOMAIN w.players :
               u.players[id] = IF w.players[id].dead /\ w.players[id].respawn = 0
                                 THEN Respawned(w.players[id]) ELSE w.players[id]
<1> DEFINE after(p) == IF p.dead /\ p.respawn = 0 THEN Respawned(p) ELSE p
           f == [id \in DOMAIN w.players |-> after(w.players[id])]
           u == [w EXCEPT !.players = f]
<1>1. w.players \in [DOMAIN w.players -> Player] /\ MaxHP > 0
  BY PlayersOf, ArenaAssumption
<1>2. \A p \in Player : after(p) \in Player
  BY RespawnedPlayer
<1>3. f \in [DOMAIN w.players -> Player]
  <2> HIDE DEF after
  <2> QED BY <1>1, <1>2
<1>4. /\ u \in World /\ u.players = f /\ DOMAIN u.players = DOMAIN w.players
      /\ <<u.shots, u.pickup, u.flags, u.phase, u.left, u.winner, u.events>>
           = <<w.shots, w.pickup, w.flags, w.phase, w.left, w.winner, w.events>>
  <2> HIDE DEF f
  <2> QED BY <1>3, AllPlayers
<1>5. Consistent(u)
  <2>1. ASSUME NEW id \in DOMAIN w.players
        PROVE  /\ f[id].dead => f[id].hp \in {0, MaxHP}
               /\ ~f[id].dead => f[id].hp > 0
    <3>1. w.players[id] \in Player
      BY <1>1
    <3>2. IF w.players[id].dead THEN w.players[id].hp \in {0, MaxHP} ELSE w.players[id].hp > 0
      BY DEF Consistent
    <3> QED BY <1>1, <3>1, <3>2, RespawnedPlayer
  <2> HIDE DEF u, f
  <2> QED BY <1>4, <2>1 DEF Consistent
<1>6. Respawn(w) = u
  BY DEF Respawn
<1>7. \A id \in DOMAIN w.players :
         f[id] = IF w.players[id].dead /\ w.players[id].respawn = 0
                   THEN Respawned(w.players[id]) ELSE w.players[id]
  OBVIOUS
<1> HIDE DEF u, f
<1> QED BY <1>4, <1>5, <1>6, <1>7

\* Pickups, the hill and domination: nobody dies, moves to another team or
\* loses a shield, and nothing happens to the shots, the flags and the match.
Settled(w, u) ==
    /\ u \in World /\ Consistent(u) /\ Stocked(u) /\ DOMAIN u.players = DOMAIN w.players
    /\ <<u.shots, u.flags, u.phase, u.left, u.winner, u.events>>
         = <<w.shots, w.flags, w.phase, w.left, w.winner, w.events>>
    /\ \A id \in DOMAIN w.players :
          LET p == w.players[id]
              q == u.players[id]
          IN  <<q.team, q.dead, q.respawn, q.shield>> = <<p.team, p.dead, p.respawn, p.shield>>

\* stepPickups: at most one player takes what lies there.
LEMMA PickupsEffect ==
  ASSUME NEW w \in World, Consistent(w), Stocked(w), NEW place,
         NEW kind, w.pickup.ready = 0 => kind \in {"medkit", "rapid", "spread"}
  PROVE  LET u == Pickups(w, place, kind) IN
         /\ Settled(w, u)
         /\ \A id \in DOMAIN w.players : <<u.players[id].hill, u.players[id].dom>>
                                           = <<w.players[id].hill, w.players[id].dom>>
<1> DEFINE takers == {id \in Living(w) : place[id] = "spot"}
           u == Pickups(w, place, kind)
           there == [active |-> TRUE, kind |-> kind, ready |-> 0]
           taken == [active |-> FALSE, kind |-> "none", ready |-> PickupDelay]
<1>0. /\ w.players \in [DOMAIN w.players -> Player] /\ DOMAIN w.players \subseteq Id
      /\ w.pickup \in Pickup /\ PickupDelay \in Nat
  BY PlayersOf, ArenaAssumption DEF World
<1>1. CASE ~w.pickup.active /\ w.pickup.ready = 0
  <2>1. u = [w EXCEPT !.pickup = there]
    BY <1>1 DEF Pickups
  <2>2. there \in Pickup /\ there.kind # "none"
    BY <1>0, <1>1 DEF Pickup
  <2> HIDE DEF u, there
  <2>3. /\ u \in World /\ u.pickup = there
        /\ <<u.players, u.shots, u.flags, u.phase, u.left, u.winner, u.events>>
             = <<w.players, w.shots, w.flags, w.phase, w.left, w.winner, w.events>>
    BY <2>1, <2>2 DEF World
  <2> QED BY <2>2, <2>3 DEF Settled, Consistent, Stocked, u
<1>2. CASE w.pickup.active /\ takers # {}
  <2> DEFINE id == Min(takers)
             q == ApplyPickup(w.players[id], w.pickup.kind)
             v == [w EXCEPT !.players[id] = q]
  <2>1. id \in takers
    <3>1. takers \in SUBSET Nat
      <4>1. Id \subseteq Nat
        BY ArenaAssumption DEF Id
      <4> QED BY <1>0, <4>1 DEF Living
    <3> HIDE DEF takers
    <3> QED BY <1>2, <3>1, MinOfNumbers
  <2>2. id \in DOMAIN w.players /\ ~w.players[id].dead
    <3> HIDE DEF id
    <3> QED BY <2>1 DEF Living
  <2>3. u = [v EXCEPT !.pickup = taken]
    <3>1. u = [w EXCEPT !.players[id] = q, !.pickup = taken]
      BY <1>2 DEF Pickups
    <3> HIDE DEF u, id, q
    <3> QED BY <3>1 DEF World
  <2> HIDE DEF id
  <2>4. PICK p \in Player : p = w.players[id]
    BY <1>0, <2>2
  <2>5. /\ q \in Player /\ q.hp > 0 /\ ~q.dead
        /\ <<q.team, q.dead, q.respawn, q.shield, q.hill, q.dom>>
             = <<p.team, p.dead, p.respawn, p.shield, p.hill, p.dom>>
    <3>1. p.hp \in 0 .. MaxHP /\ p.hp > 0 /\ ~p.dead
      BY <2>2, <2>4 DEF Consistent, Player
    <3>2. MedkitHeal \in Nat /\ MaxHP \in Nat \ {0} /\ BuffTime \in 0 .. BuffTime
      BY ArenaAssumption
    <3>3. w.pickup.kind \in {"medkit", "rapid", "spread"}
      BY <1>0, <1>2 DEF Stocked, Pickup
    <3>4. CASE w.pickup.kind = "medkit"
      <4> DEFINE hp == Lower(p.hp + MedkitHeal, MaxHP)
      <4>1. hp \in 1 .. MaxHP
        BY <3>1, <3>2 DEF Lower
      <4>2. q = [p EXCEPT !.hp = hp]
        BY <2>4, <3>4 DEF ApplyPickup
      <4> HIDE DEF hp, q
      <4> QED BY <3>1, <3>2, <4>1, <4>2 DEF Player
    <3>5. CASE w.pickup.kind = "rapid"
      <4>1. q = [p EXCEPT !.rapid = BuffTime]
        BY <2>4, <3>5 DEF ApplyPickup
      <4> HIDE DEF q
      <4> QED BY <3>1, <3>2, <4>1 DEF Player
    <3>6. CASE w.pickup.kind = "spread"
      <4>1. q = [p EXCEPT !.spread = BuffTime]
        BY <2>4, <3>6 DEF ApplyPickup
      <4> HIDE DEF q
      <4> QED BY <3>1, <3>2, <4>1 DEF Player
    <3> QED BY <3>3, <3>4, <3>5, <3>6
  <2> HIDE DEF q
  <2>6. v \in World /\ v.players = [w.players EXCEPT ![id] = q]
        /\ <<v.shots, v.flags, v.phase, v.left, v.winner, v.events>>
             = <<w.shots, w.flags, w.phase, w.left, w.winner, w.events>>
    BY <2>2, <2>5, OnePlayer DEF World
  <2>7. taken \in Pickup /\ ~taken.active
    BY <1>0 DEF Pickup
  <2> HIDE DEF u, v, taken
  <2>8. /\ u \in World /\ u.pickup = taken /\ u.players = [w.players EXCEPT ![id] = q]
        /\ <<u.shots, u.flags, u.phase, u.left, u.winner, u.events>>
             = <<w.shots, w.flags, w.phase, w.left, w.winner, w.events>>
    BY <2>3, <2>6, <2>7 DEF World
  <2>9. /\ DOMAIN u.players = DOMAIN w.players /\ u.players[id] = q
        /\ \A o \in DOMAIN w.players \ {id} : u.players[o] = w.players[o]
    BY <1>0, <2>2, <2>8
  <2>10. Consistent(u) /\ Stocked(u)
    BY <2>5, <2>7, <2>8, <2>9 DEF Consistent, Stocked
  <2> QED BY <2>4, <2>5, <2>8, <2>9, <2>10 DEF Settled, u
<1>3. CASE /\ ~(~w.pickup.active /\ w.pickup.ready = 0)
           /\ ~(w.pickup.active /\ takers # {})
  <2>1. u = w
    BY <1>3 DEF Pickups
  <2> HIDE DEF u
  <2> QED BY <2>1 DEF Settled, u
<1> QED BY <1>1, <1>2, <1>3

\* Pickups, the hill and domination one after the other.
LEMMA SettledAgain ==
  ASSUME NEW w, NEW u, NEW v, Settled(w, u), Settled(u, v)
  PROVE  Settled(w, v)
BY DEF Settled

\* A zone pays one side.
LEMMA HoldersSide ==
  ASSUME NEW w \in World, NEW place, NEW zone
  PROVE  \E s : \A id \in Holders(w, place, zone) : Side(w, id) = s
<1> DEFINE inside == Inside(w, place, zone)
           sides == {Side(w, id) : id \in inside}
<1>1. CASE Cardinality(sides) = 1
  <2>1. IsFiniteSet(sides)
    <3>1. IsFiniteSet(Id)
      BY ArenaAssumption, FS_Interval DEF Id
    <3>2. inside \subseteq Id
      BY PlayersOf DEF Inside, Living
    <3>3. IsFiniteSet(inside)
      BY <3>1, <3>2, FS_Subset
    <3> DEFINE f == [id \in inside |-> Side(w, id)]
    <3>4. f \in Surjection(inside, sides)
      BY DEF Surjection
    <3> HIDE DEF f, inside, sides
    <3> QED BY <3>3, <3>4, FS_Surjection
  <2>2. PICK s : sides = {s}
    <3> HIDE DEF sides
    <3> QED BY <1>1, <2>1, FS_Singleton
  <2>3. \A id \in inside : Side(w, id) = s
    <3>1. \A id \in inside : Side(w, id) \in sides
      OBVIOUS
    <3> HIDE DEF inside, sides
    <3> QED BY <2>2, <3>1
  <2> QED BY <2>3 DEF Holders
<1>2. CASE Cardinality(sides) # 1
  BY <1>2 DEF Holders
<1> QED BY <1>1, <1>2

\* stepHill pays those who hold the hill, while the match is active.
LEMMA HillEffect ==
  ASSUME NEW w \in World, Consistent(w), Stocked(w), NEW place
  PROVE  LET u == Hill(w, place) IN
         /\ Settled(w, u)
         /\ \A id \in DOMAIN w.players :
               /\ u.players[id].dom = w.players[id].dom
               /\ u.players[id].hill # w.players[id].hill =>
                    Mode.hill /\ w.phase = "active" /\ id \in Holders(w, place, "hill")
<1> DEFINE more(p) == [p EXCEPT !.hill = @ + 1]
           paid(id) == id \in Holders(w, place, "hill")
           f == [id \in DOMAIN w.players |->
                   IF paid(id) THEN more(w.players[id]) ELSE w.players[id]]
           u == [w EXCEPT !.players = f]
<1>1. w.players \in [DOMAIN w.players -> Player]
  BY PlayersOf
<1>2. \A p \in Player :
         /\ more(p) \in Player /\ more(p).dom = p.dom
         /\ <<more(p).team, more(p).dead, more(p).respawn, more(p).shield, more(p).hp>>
              = <<p.team, p.dead, p.respawn, p.shield, p.hp>>
  BY DEF Player
<1>3. f \in [DOMAIN w.players -> Player]
  <2> HIDE DEF more, paid
  <2> QED BY <1>1, <1>2
<1>4. /\ u \in World /\ u.players = f /\ DOMAIN u.players = DOMAIN w.players
      /\ <<u.shots, u.pickup, u.flags, u.phase, u.left, u.winner, u.events>>
           = <<w.shots, w.pickup, w.flags, w.phase, w.left, w.winner, w.events>>
  <2> HIDE DEF f
  <2> QED BY <1>3, AllPlayers
<1>5. \A id \in DOMAIN w.players :
         /\ <<f[id].team, f[id].dead, f[id].respawn, f[id].shield, f[id].hp>>
              = <<w.players[id].team, w.players[id].dead, w.players[id].respawn, w.players[id].shield,
                  w.players[id].hp>>
         /\ f[id].dom = w.players[id].dom
         /\ f[id].hill # w.players[id].hill => paid(id)
  <2> HIDE DEF more, paid
  <2> QED BY <1>1, <1>2
<1>6. Settled(w, u)
  <2> HIDE DEF u, f
  <2> QED BY <1>4, <1>5 DEF Settled, Consistent, Stocked
<1>7. Settled(w, w)
  BY DEF Settled
<1>8. Hill(w, place) = IF ~Mode.hill \/ w.phase # "active" THEN w ELSE u
  BY DEF Hill
<1>9. CASE ~Mode.hill \/ w.phase # "active"
  BY <1>7, <1>8, <1>9
<1>10. CASE ~(~Mode.hill \/ w.phase # "active")
  <2> HIDE DEF u, f
  <2> QED BY <1>4, <1>5, <1>6, <1>8, <1>10
<1> QED BY <1>9, <1>10

\* stepDomination pays those who hold a zone, while the match is active.
LEMMA DominationEffect ==
  ASSUME NEW w \in World, Consistent(w), Stocked(w), NEW place
  PROVE  LET u == Domination(w, place) IN
         /\ Settled(w, u)
         /\ \A id \in DOMAIN w.players :
               /\ u.players[id].hill = w.players[id].hill
               /\ u.players[id].dom # w.players[id].dom =>
                    /\ Mode.dom /\ w.phase = "active"
                    /\ \E zone \in Zones : id \in Holders(w, place, zone)
<1> DEFINE more(p) == [p EXCEPT !.dom = @ + 1]
           paid(id) == \E zone \in Zones : id \in Holders(w, place, zone)
           f == [id \in DOMAIN w.players |->
                   IF paid(id) THEN more(w.players[id]) ELSE w.players[id]]
           u == [w EXCEPT !.players = f]
<1>1. w.players \in [DOMAIN w.players -> Player]
  BY PlayersOf
<1>2. \A p \in Player :
         /\ more(p) \in Player /\ more(p).hill = p.hill
         /\ <<more(p).team, more(p).dead, more(p).respawn, more(p).shield, more(p).hp>>
              = <<p.team, p.dead, p.respawn, p.shield, p.hp>>
  BY DEF Player
<1>3. f \in [DOMAIN w.players -> Player]
  <2> HIDE DEF more, paid
  <2> QED BY <1>1, <1>2
<1>4. /\ u \in World /\ u.players = f /\ DOMAIN u.players = DOMAIN w.players
      /\ <<u.shots, u.pickup, u.flags, u.phase, u.left, u.winner, u.events>>
           = <<w.shots, w.pickup, w.flags, w.phase, w.left, w.winner, w.events>>
  <2> HIDE DEF f
  <2> QED BY <1>3, AllPlayers
<1>5. \A id \in DOMAIN w.players :
         /\ <<f[id].team, f[id].dead, f[id].respawn, f[id].shield, f[id].hp>>
              = <<w.players[id].team, w.players[id].dead, w.players[id].respawn, w.players[id].shield,
                  w.players[id].hp>>
         /\ f[id].hill = w.players[id].hill
         /\ f[id].dom # w.players[id].dom => paid(id)
  <2> HIDE DEF more, paid
  <2> QED BY <1>1, <1>2
<1>6. Settled(w, u)
  <2> HIDE DEF u, f
  <2> QED BY <1>4, <1>5 DEF Settled, Consistent, Stocked
<1>7. Settled(w, w)
  BY DEF Settled
<1>8. Domination(w, place) = IF ~Mode.dom \/ w.phase # "active" THEN w ELSE u
  BY DEF Domination
<1>9. CASE ~Mode.dom \/ w.phase # "active"
  BY <1>7, <1>8, <1>9
<1>10. CASE ~(~Mode.dom \/ w.phase # "active")
  <2> HIDE DEF u, f
  <2> QED BY <1>4, <1>5, <1>6, <1>8, <1>10
<1> QED BY <1>9, <1>10

-----------------------------------------------------------------------------
(* Capture the flag. *)

\* A flag that is carried is in the hands of a living enemy.
Carried(w, f, t) ==
    /\ (f.status = "carried") = (f.carrier # 0)
    /\ f.carrier # 0 => f.carrier \in Living(w) /\ w.players[f.carrier].team # t

\* What the flags change besides themselves: captures, at most one, with both
\* flags at home after it.
Scored(w, u) ==
    /\ u \in World /\ Consistent(u) /\ Stocked(u) /\ DOMAIN u.players = DOMAIN w.players
    /\ <<u.shots, u.pickup, u.phase, u.left, u.winner>>
         = <<w.shots, w.pickup, w.phase, w.left, w.winner>>
    /\ \A id \in DOMAIN w.players :
          LET p == w.players[id]
              q == u.players[id]
          IN  <<q.team, q.hp, q.dead, q.respawn, q.shield, q.hill, q.dom>>
                = <<p.team, p.hp, p.dead, p.respawn, p.shield, p.hill, p.dom>>
    /\ \/ Range(u.events) = Range(w.events)
       \/ /\ \E id \in Id : Range(u.events) = Range(w.events) \union {[kind |-> "capture", target |-> id]}
          /\ \A t \in Team : u.flags[t].status = "base"

\* One flag changed.
LEMMA OneFlag ==
  ASSUME NEW w \in World, NEW t \in Team, NEW f \in Flag
  PROVE  LET u == [w EXCEPT !.flags[t] = f] IN
         /\ u \in World /\ u.flags[t] = f
         /\ \A o \in Team \ {t} : u.flags[o] = w.flags[o]
         /\ <<u.players, u.shots, u.pickup, u.phase, u.left, u.winner, u.events>>
              = <<w.players, w.shots, w.pickup, w.phase, w.left, w.winner, w.events>>
<1> DEFINE fs == [w.flags EXCEPT ![t] = f]
           u == [w EXCEPT !.flags[t] = f]
<1>1. w.flags \in [Team -> Flag]
  BY DEF World
<1>2. fs \in [Team -> Flag] /\ fs[t] = f /\ \A o \in Team \ {t} : fs[o] = w.flags[o]
  BY <1>1
<1>3. /\ u \in World /\ u.flags = fs
      /\ <<u.players, u.shots, u.pickup, u.phase, u.left, u.winner, u.events>>
           = <<w.players, w.shots, w.pickup, w.phase, w.left, w.winner, w.events>>
  <2>1. u = [w EXCEPT !.flags = fs]
    BY DEF World
  <2> HIDE DEF u, fs
  <2> QED BY <1>2, <2>1 DEF World
<1> HIDE DEF fs, u
<1> QED BY <1>2, <1>3 DEF u

\* A flag at its base is one, and nobody carries it.
LEMMA AtBaseIsFlag == AtBase \in Flag /\ AtBase.status = "base" /\ AtBase.carrier = 0 /\ AtBase.drop = 0
<1>1. 0 \in 0 .. MaxId /\ 0 \in 0 .. FlagReturn
  BY ArenaAssumption
<1>2. "field" \in Place
  BY DEF Place
<1> QED BY <1>1, <1>2 DEF AtBase, Flag

\* Part 0 of stepCTF: carriers who are gone or dead lose the flag.
LEMMA CarryEffect ==
  ASSUME NEW w \in World, NEW place, \A id \in DOMAIN w.players : place[id] \in Place,
         NEW t \in Team,
         (w.flags[t].status = "carried") = (w.flags[t].carrier # 0),
         w.flags[t].carrier \in DOMAIN w.players => w.players[w.flags[t].carrier].team # t
  PROVE  Carry(w, place, t) \in Flag /\ Carried(w, Carry(w, place, t), t)
<1> DEFINE f == w.flags[t]
           lost == [status |-> "dropped", carrier |-> 0, place |-> place[f.carrier], drop |-> FlagReturn]
<1>1. f \in Flag
  BY DEF World
<1>2. Carry(w, place, t) =
        IF f.status = "carried" /\ f.carrier \notin DOMAIN w.players THEN AtBase
        ELSE IF f.status = "carried" /\ f.carrier \in DOMAIN w.players \ Living(w) THEN lost
        ELSE IF f.status = "dropped" /\ f.drop = 0 THEN AtBase ELSE f
  BY DEF Carry
<1>3. Carried(w, AtBase, t)
  BY AtBaseIsFlag DEF Carried
<1>4. f.carrier \in DOMAIN w.players => lost \in Flag /\ Carried(w, lost, t)
  <2>1. FlagReturn \in 0 .. FlagReturn /\ 0 \in 0 .. MaxId
    BY ArenaAssumption
  <2> HIDE DEF f
  <2> QED BY <2>1 DEF Flag, Carried
<1>5. f.carrier # 0 /\ f.carrier \in Living(w) => Carried(w, f, t)
  BY DEF Carried, Living
<1>6. f.carrier = 0 => Carried(w, f, t)
  BY DEF Carried
<1> HIDE DEF f, lost
<1>7. f.status = "carried" <=> f.carrier # 0
  BY DEF f
<1> QED BY <1>1, <1>2, <1>3, <1>4, <1>5, <1>6, <1>7, AtBaseIsFlag

\* Part 1 of stepCTF, for one player and one flag.
LEMMA TouchEffect ==
  ASSUME NEW w \in World, NEW u \in World, u.players = w.players,
         \A o \in Team : Carried(w, u.flags[o], o),
         NEW id \in Living(w), NEW t \in Team, NEW place
  PROVE  LET v == Touch(u, id, t, place) IN
         /\ v \in World /\ \A o \in Team : Carried(w, v.flags[o], o)
         /\ <<v.players, v.shots, v.pickup, v.phase, v.left, v.winner, v.events>>
              = <<u.players, u.shots, u.pickup, u.phase, u.left, u.winner, u.events>>
<1> DEFINE taken == [AtBase EXCEPT !.status = "carried", !.carrier = id]
           v == Touch(u, id, t, place)
<1>1. id \in Id /\ id # 0 /\ id \in DOMAIN w.players
  BY PlayersOf, ArenaAssumption DEF Living, Id
<1>2. taken \in Flag /\ taken.status = "carried" /\ taken.carrier = id
  <2>1. id \in 0 .. MaxId
    BY <1>1, ArenaAssumption DEF Id
  <2> QED BY <2>1, AtBaseIsFlag DEF Flag
<1>3. \/ v = u
      \/ v = [u EXCEPT !.flags[t] = AtBase]
      \/ u.players[id].team # t /\ v = [u EXCEPT !.flags[t] = taken]
  BY DEF Touch
<1>4. Carried(w, AtBase, t) /\ (u.players[id].team # t => Carried(w, taken, t))
  <2> HIDE DEF taken
  <2> QED BY <1>1, <1>2, AtBaseIsFlag DEF Carried
<1>5. ASSUME NEW f \in Flag, v = [u EXCEPT !.flags[t] = f], Carried(w, f, t)
      PROVE  /\ v \in World /\ \A o \in Team : Carried(w, v.flags[o], o)
             /\ <<v.players, v.shots, v.pickup, v.phase, v.left, v.winner, v.events>>
                  = <<u.players, u.shots, u.pickup, u.phase, u.left, u.winner, u.events>>
  <2> DEFINE x == [u EXCEPT !.flags[t] = f]
  <2>1. /\ x \in World /\ x.flags[t] = f
        /\ \A o \in Team \ {t} : x.flags[o] = u.flags[o]
        /\ <<x.players, x.shots, x.pickup, x.phase, x.left, x.winner, x.events>>
             = <<u.players, u.shots, u.pickup, u.phase, u.left, u.winner, u.events>>
    BY OneFlag
  <2> HIDE DEF v, x
  <2> QED BY <1>5, <2>1 DEF x
<1> HIDE DEF v, taken
<1>6. /\ v \in World /\ \A o \in Team : Carried(w, v.flags[o], o)
      /\ <<v.players, v.shots, v.pickup, v.phase, v.left, v.winner, v.events>>
           = <<u.players, u.shots, u.pickup, u.phase, u.left, u.winner, u.events>>
  <2>1. CASE v = u
    BY <2>1
  <2>2. CASE v = [u EXCEPT !.flags[t] = AtBase]
    BY <1>4, <1>5, <2>2, AtBaseIsFlag
  <2>3. CASE u.players[id].team # t /\ v = [u EXCEPT !.flags[t] = taken]
    BY <1>2, <1>4, <1>5, <2>3
  <2> QED BY <1>3, <2>1, <2>2, <2>3
<1> QED BY <1>6 DEF v

\* Part 1 of stepCTF, for all players and both flags.
LEMMA TouchedEffect ==
  ASSUME NEW w \in World, NEW place, \A id \in DOMAIN w.players : place[id] \in Place,
         \A t \in Team :
            /\ (w.flags[t].status = "carried") = (w.flags[t].carrier # 0)
            /\ w.flags[t].carrier \in DOMAIN w.players => w.players[w.flags[t].carrier].team # t
  PROVE  LET u == Touched(w, place) IN
         /\ u \in World /\ \A t \in Team : Carried(w, u.flags[t], t)
         /\ <<u.players, u.shots, u.pickup, u.phase, u.left, u.winner, u.events>>
              = <<w.players, w.shots, w.pickup, w.phase, w.left, w.winner, w.events>>
<1> DEFINE V == {u \in World :
                   /\ \A t \in Team : Carried(w, u.flags[t], t)
                   /\ <<u.players, u.shots, u.pickup, u.phase, u.left, u.winner, u.events>>
                        = <<w.players, w.shots, w.pickup, w.phase, w.left, w.winner, w.events>>}
           carried == [t \in Team |-> Carry(w, place, t)]
           base == [w EXCEPT !.flags = carried]
<1>1. base \in V
  <2>1. carried \in [Team -> Flag] /\ \A t \in Team : Carried(w, carried[t], t)
    <3>1. \A t \in Team : Carry(w, place, t) \in Flag /\ Carried(w, Carry(w, place, t), t)
      BY CarryEffect
    <3> QED BY <3>1
  <2> HIDE DEF carried
  <2>2. /\ base \in World /\ base.flags = carried
        /\ <<base.players, base.shots, base.pickup, base.phase, base.left, base.winner, base.events>>
             = <<w.players, w.shots, w.pickup, w.phase, w.left, w.winner, w.events>>
    BY <2>1 DEF World
  <2> HIDE DEF base
  <2> QED BY <2>1, <2>2
<1>2. ASSUME NEW id \in Living(w), NEW u \in V, NEW t \in Team
      PROVE  Touch(u, id, t, place) \in V
  <2> DEFINE v == Touch(u, id, t, place)
  <2>1. /\ v \in World /\ \A o \in Team : Carried(w, v.flags[o], o)
        /\ <<v.players, v.shots, v.pickup, v.phase, v.left, v.winner, v.events>>
             = <<u.players, u.shots, u.pickup, u.phase, u.left, u.winner, u.events>>
    <3>1. u \in World /\ u.players = w.players /\ \A o \in Team : Carried(w, u.flags[o], o)
      OBVIOUS
    <3> QED BY <3>1, TouchEffect
  <2> HIDE DEF v
  <2>2. v \in V
    BY <2>1
  <2> QED BY <2>2 DEF v
<1>3. \A id \in Living(w) : \A u \in V : Touch(Touch(u, id, 0, place), id, 1, place) \in V
  <2>1. 0 \in Team /\ 1 \in Team
    BY DEF Team
  <2> HIDE DEF V
  <2> QED BY <1>2, <2>1
<1>4. Touched(w, place) \in V
  <2> HIDE DEF V
  <2> QED BY <1>1, <1>3, TouchedFold
<1> QED BY <1>4

\* No capture is a way to go through part 2.
LEMMA ScoredNot ==
  ASSUME NEW w \in World, Consistent(w), Stocked(w)
  PROVE  Scored(w, w)
BY DEF Scored

\* Part 2 of stepCTF for one player: after a capture both flags are at home, so
\* no other can follow.
LEMMA CaptureEffect ==
  ASSUME NEW w \in World, NEW u \in World, Scored(w, u),
         \A o \in Team : Carried(w, u.flags[o], o),
         NEW id \in Living(w), NEW place
  PROVE  LET v == Capture(u, id, place) IN
         Scored(w, v) /\ \A o \in Team : Carried(w, v.flags[o], o)
<1> DEFINE t == u.players[id].team
           q == [u.players[id] EXCEPT !.captures = @ + 1]
           e == [kind |-> "capture", target |-> id]
           home == [u EXCEPT !.flags[1 - t] = AtBase]
           counted == [home EXCEPT !.players[id] = q]
           v == Event(counted, e)
<1>1. /\ u.players \in [DOMAIN u.players -> Player] /\ DOMAIN u.players = DOMAIN w.players
      /\ id \in Id /\ id \in DOMAIN u.players /\ DOMAIN u.players \subseteq Id
      /\ Consistent(u) /\ Stocked(u)
  <2>1. DOMAIN u.players = DOMAIN w.players /\ Consistent(u) /\ Stocked(u)
    BY DEF Scored
  <2> QED BY <2>1, PlayersOf DEF Living
<1>2. t \in Team /\ 1 - t \in Team /\ t # 1 - t /\ Team = {t, 1 - t}
  <2>1. t \in Team
    BY <1>1 DEF Player
  <2> HIDE DEF t
  <2> QED BY <2>1 DEF Team
<1>3. /\ q \in Player
      /\ <<q.team, q.hp, q.dead, q.respawn, q.shield, q.hill, q.dom>>
           = <<u.players[id].team, u.players[id].hp, u.players[id].dead, u.players[id].respawn,
               u.players[id].shield, u.players[id].hill, u.players[id].dom>>
  <2>1. PICK p \in Player : p = u.players[id]
    BY <1>1
  <2>2. PICK captures \in Nat : captures = p.captures + 1
    BY DEF Player
  <2>3. q = [p EXCEPT !.captures = captures]
    BY <2>1, <2>2
  <2> HIDE DEF q
  <2> QED BY <2>1, <2>3 DEF Player
<1>4. /\ home \in World /\ home.flags[1 - t] = AtBase /\ home.flags[t] = u.flags[t]
      /\ <<home.players, home.shots, home.pickup, home.phase, home.left, home.winner, home.events>>
           = <<u.players, u.shots, u.pickup, u.phase, u.left, u.winner, u.events>>
  <2> HIDE DEF t
  <2> QED BY <1>2, AtBaseIsFlag, OneFlag
<1>5. /\ counted \in World /\ counted.players = [u.players EXCEPT ![id] = q]
      /\ <<counted.flags, counted.shots, counted.pickup, counted.phase, counted.left, counted.winner,
           counted.events>>
           = <<home.flags, u.shots, u.pickup, u.phase, u.left, u.winner, u.events>>
  <2> HIDE DEF home, q
  <2>1. id \in DOMAIN home.players
    BY <1>1, <1>4
  <2>2. counted \in World
    BY <1>3, <1>4, <2>1, OnePlayer
  <2>3. counted.players = [home.players EXCEPT ![id] = q]
      /\ <<counted.flags, counted.shots, counted.pickup, counted.phase, counted.left, counted.winner,
           counted.events>>
           = <<home.flags, home.shots, home.pickup, home.phase, home.left, home.winner, home.events>>
    BY <1>4 DEF World
  <2> HIDE DEF counted
  <2> QED BY <1>4, <2>2, <2>3
<1>6. e \in Happening
  BY <1>1 DEF Happening
<1>7. /\ v \in World /\ Range(v.events) = Range(u.events) \union {e}
      /\ v.players = [u.players EXCEPT ![id] = q] /\ v.flags = home.flags
      /\ <<v.shots, v.pickup, v.phase, v.left, v.winner>> = <<u.shots, u.pickup, u.phase, u.left, u.winner>>
  <2> HIDE DEF counted, e, home, q
  <2>1. /\ v \in World /\ Range(v.events) = Range(counted.events) \union {e}
        /\ <<v.players, v.shots, v.pickup, v.flags, v.phase, v.left, v.winner>>
             = <<counted.players, counted.shots, counted.pickup, counted.flags, counted.phase,
                 counted.left, counted.winner>>
    BY <1>5, <1>6, EventEffect
  <2> HIDE DEF v
  <2> QED BY <1>5, <2>1
<1>8. DOMAIN v.players = DOMAIN u.players /\ v.players[id] = q
      /\ \A o \in DOMAIN u.players \ {id} : v.players[o] = u.players[o]
  <2> HIDE DEF v, q
  <2> QED BY <1>1, <1>7
<1> DEFINE scores ==
      /\ u.flags[1 - t].status = "carried" /\ u.flags[1 - t].carrier = id
      /\ u.flags[t].status = "base"
      /\ place[id] \in {Base(t), Ring(t)}
<1>9. Capture(u, id, place) = IF scores THEN v ELSE u
  <2>1. counted = [u EXCEPT !.flags[1 - t] = AtBase, !.players[id].captures = @ + 1]
    BY <1>1 DEF World
  <2> HIDE DEF counted
  <2> QED BY <2>1 DEF Capture
<1>10. CASE ~scores
  <2> HIDE DEF scores
  <2> QED BY <1>9, <1>10
<1>11. CASE scores
  <2>1. \A o \in Team : v.flags[o].status = "base" /\ Carried(w, v.flags[o], o)
    <3>1. v.flags[1 - t] = AtBase /\ v.flags[t] = u.flags[t] /\ u.flags[t].status = "base"
      <4> HIDE DEF v, home
      <4> QED BY <1>4, <1>7, <1>11
    <3> HIDE DEF v, t
    <3> QED BY <1>2, <3>1, AtBaseIsFlag DEF Carried
  <2>2. Range(u.events) = Range(w.events)
    <3>1. u.flags[1 - t].status # "base"
      BY <1>11
    <3> QED BY <1>2, <3>1 DEF Scored
  <2>3. Consistent(v) /\ Stocked(v)
    <3> HIDE DEF v, q
    <3> QED BY <1>1, <1>3, <1>7, <1>8 DEF Consistent, Stocked
  <2>4. Scored(w, v)
    <3>1. ASSUME NEW o \in DOMAIN w.players
          PROVE  LET p == w.players[o]
                     r == v.players[o]
                 IN  <<r.team, r.hp, r.dead, r.respawn, r.shield, r.hill, r.dom>>
                       = <<p.team, p.hp, p.dead, p.respawn, p.shield, p.hill, p.dom>>
      <4> HIDE DEF v, q
      <4> QED BY <1>1, <1>3, <1>8 DEF Scored
    <3> HIDE DEF v
    <3> QED BY <1>1, <1>7, <1>8, <2>1, <2>2, <2>3, <3>1 DEF Scored
  <2>5. Capture(u, id, place) = v
    <3> HIDE DEF v, scores
    <3> QED BY <1>9, <1>11
  <2> HIDE DEF v
  <2> QED BY <2>1, <2>4, <2>5
<1> QED BY <1>10, <1>11

\* stepCTF.
LEMMA CtfEffect ==
  ASSUME NEW w \in World, Consistent(w), Stocked(w),
         NEW place, \A id \in DOMAIN w.players : place[id] \in Place,
         \A t \in Team :
            /\ (w.flags[t].status = "carried") = (w.flags[t].carrier # 0)
            /\ w.phase = "active" /\ w.flags[t].carrier \in DOMAIN w.players =>
                 w.players[w.flags[t].carrier].team # t
  PROVE  LET u == Ctf(w, place) IN
         /\ Scored(w, u)
         /\ IF Mode.ctf /\ Mode.team /\ w.phase = "active"
              THEN \A t \in Team : Carried(w, u.flags[t], t) ELSE u.flags = w.flags
<1>1. CASE ~(Mode.ctf /\ Mode.team /\ w.phase = "active")
  <2>1. Ctf(w, place) = w
    BY <1>1 DEF Ctf
  <2> QED BY <1>1, <2>1, ScoredNot
<1>2. CASE Mode.ctf /\ Mode.team /\ w.phase = "active"
  <2> DEFINE touched == Touched(w, place)
             V == {u \in World : Scored(w, u) /\ \A t \in Team : Carried(w, u.flags[t], t)}
  <2>1. /\ touched \in World /\ \A t \in Team : Carried(w, touched.flags[t], t)
        /\ <<touched.players, touched.shots, touched.pickup, touched.phase, touched.left,
             touched.winner, touched.events>>
             = <<w.players, w.shots, w.pickup, w.phase, w.left, w.winner, w.events>>
    BY <1>2, TouchedEffect
  <2> HIDE DEF touched
  <2>2. touched \in V
    BY <2>1 DEF Scored, Consistent, Stocked
  <2>3. Living(touched) = Living(w)
    BY <2>1 DEF Living
  <2>4. \A id \in Living(touched) : \A u \in V : Capture(u, id, place) \in V
    <3> TAKE id \in Living(touched)
    <3> TAKE u \in V
    <3> DEFINE v == Capture(u, id, place)
    <3>1. Scored(w, v) /\ \A t \in Team : Carried(w, v.flags[t], t)
      BY <2>3, CaptureEffect
    <3> HIDE DEF v
    <3>2. v \in V
      BY <3>1 DEF Scored
    <3> QED BY <3>2 DEF v
  <2>5. Captured(touched, place) \in V
    <3> HIDE DEF V
    <3> QED BY <2>2, <2>4, CapturedFold
  <2>6. Ctf(w, place) = Captured(touched, place)
    BY <1>2 DEF Ctf, touched
  <2> QED BY <1>2, <2>5, <2>6
<1> QED BY <1>1, <1>2

-----------------------------------------------------------------------------
(* The clock and the match. *)

\* A tick less stays within the bound.
LEMMA LessBound ==
  ASSUME NEW b \in Nat, NEW n \in 0 .. b
  PROVE  Less(n) \in 0 .. b /\ Less(n) = IF n > 0 THEN n - 1 ELSE 0
<1>1. n \in Nat
  OBVIOUS
<1>2. Less(n) = IF n > 0 THEN n - 1 ELSE 0
  BY <1>1, LessOfNumber
<1> QED BY <1>1, <1>2

Later(w, u) ==
    /\ u \in World /\ Consistent(u) /\ Stocked(u) /\ DOMAIN u.players = DOMAIN w.players
    /\ <<u.shots, u.phase, u.winner, u.events, u.left>>
         = <<w.shots, w.phase, w.winner, w.events, Less(w.left)>>
    /\ \A t \in Team : <<u.flags[t].status, u.flags[t].carrier>>
                         = <<w.flags[t].status, w.flags[t].carrier>>
    /\ \A id \in DOMAIN w.players :
          LET p == w.players[id]
              q == u.players[id]
          IN  <<q.team, q.dead, q.hp, q.hill, q.dom, q.respawn, q.shield>>
                = <<p.team, p.dead, p.hp, p.hill, p.dom, Less(p.respawn), Less(p.shield)>>

\* The clock takes a tick from everything that is due and changes nothing else.
LEMMA ElapseEffect ==
  ASSUME NEW w \in World, Consistent(w), Stocked(w)
  PROVE  Later(w, Elapse(w))
<1> DEFINE later(p) == [p EXCEPT !.respawn = Less(@), !.wait = Less(@), !.rapid = Less(@),
                                 !.spread = Less(@), !.shield = Less(@)]
           after(f) == [f EXCEPT !.drop = Less(@)]
           players == [id \in DOMAIN w.players |-> later(w.players[id])]
           flags == [t \in Team |-> after(w.flags[t])]
           pickup == [w.pickup EXCEPT !.ready = Less(@)]
           u == [w EXCEPT !.left = Less(w.left), !.pickup = pickup, !.flags = flags, !.players = players]
<1>1. /\ w.players \in [DOMAIN w.players -> Player] /\ w.pickup \in Pickup /\ w.left \in Nat
      /\ w.flags \in [Team -> Flag] /\ DOMAIN w.players \in SUBSET Id
  BY PlayersOf DEF World
<1>2. \A n \in Nat : Less(n) \in Nat
  BY LessOfNumber
<1>3. ASSUME NEW p \in Player
      PROVE  /\ later(p) \in Player
             /\ <<later(p).team, later(p).dead, later(p).hp, later(p).hill, later(p).dom,
                  later(p).respawn, later(p).shield>>
                  = <<p.team, p.dead, p.hp, p.hill, p.dom, Less(p.respawn), Less(p.shield)>>
  <2>1. PICK respawn \in 0 .. RespawnDelay, wait \in Nat, rapid \in 0 .. BuffTime,
             spread \in 0 .. BuffTime, shield \in Nat :
               <<respawn, wait, rapid, spread, shield>> =
                 <<Less(p.respawn), Less(p.wait), Less(p.rapid), Less(p.spread), Less(p.shield)>>
    <3>1. /\ p.respawn \in 0 .. RespawnDelay /\ p.wait \in Nat /\ p.rapid \in 0 .. BuffTime
          /\ p.spread \in 0 .. BuffTime /\ p.shield \in Nat
      BY DEF Player
    <3>2. RespawnDelay \in Nat /\ BuffTime \in Nat
      BY ArenaAssumption
    <3>3. Less(p.respawn) \in 0 .. RespawnDelay /\ Less(p.rapid) \in 0 .. BuffTime
          /\ Less(p.spread) \in 0 .. BuffTime
      BY <3>1, <3>2, LessBound
    <3> QED BY <1>2, <3>1, <3>3
  <2> DEFINE q == [p EXCEPT !.respawn = respawn, !.wait = wait, !.rapid = rapid,
                            !.spread = spread, !.shield = shield]
  <2>2. later(p) = q
    BY <2>1
  <2>3. q \in Player /\ <<q.team, q.dead, q.hp, q.hill, q.dom, q.respawn, q.shield>>
                          = <<p.team, p.dead, p.hp, p.hill, p.dom, respawn, shield>>
    BY DEF Player
  <2> HIDE DEF q, later
  <2> QED BY <2>1, <2>2, <2>3
<1>4. ASSUME NEW f \in Flag
      PROVE  after(f) \in Flag /\ after(f).status = f.status /\ after(f).carrier = f.carrier
  <2>1. f.drop \in 0 .. FlagReturn /\ FlagReturn \in Nat
    BY ArenaAssumption DEF Flag
  <2>2. Less(f.drop) \in 0 .. FlagReturn
    BY <2>1, LessBound
  <2> QED BY <2>2 DEF Flag
<1>5. pickup \in Pickup /\ pickup.active = w.pickup.active /\ pickup.kind = w.pickup.kind
  <2>1. w.pickup.ready \in 0 .. PickupDelay /\ PickupDelay \in Nat
    BY <1>1, ArenaAssumption DEF Pickup
  <2>2. Less(w.pickup.ready) \in 0 .. PickupDelay
    BY <2>1, LessBound
  <2> QED BY <1>1, <2>2 DEF Pickup
<1>6. /\ players \in [DOMAIN w.players -> Player] /\ players \in Players
      /\ \A id \in DOMAIN w.players :
            LET p == w.players[id]
                q == players[id]
            IN  <<q.team, q.dead, q.hp, q.hill, q.dom, q.respawn, q.shield>>
                  = <<p.team, p.dead, p.hp, p.hill, p.dom, Less(p.respawn), Less(p.shield)>>
  <2>1. \A id \in DOMAIN w.players : w.players[id] \in Player /\ players[id] = later(w.players[id])
    BY <1>1
  <2> HIDE DEF later
  <2>2. players \in [DOMAIN w.players -> Player]
    BY <1>3, <2>1
  <2>3. players \in Players
    <3> HIDE DEF players
    <3> QED BY <1>1, <2>2, PlayersIn
  <2> HIDE DEF players
  <2> QED BY <1>3, <2>1, <2>2, <2>3
<1>7. /\ flags \in [Team -> Flag]
      /\ \A t \in Team : flags[t].status = w.flags[t].status /\ flags[t].carrier = w.flags[t].carrier
  <2> HIDE DEF after
  <2> QED BY <1>1, <1>4
<1>8. Elapse(w) = u
  <2>1. u = [w EXCEPT !.left = Less(@), !.pickup.ready = Less(@), !.flags = flags, !.players = players]
    BY DEF World
  <2> QED BY <2>1 DEF Elapse
<1>9. /\ u \in World /\ u.players = players /\ u.flags = flags /\ u.pickup = pickup
      /\ <<u.shots, u.phase, u.winner, u.events, u.left>>
           = <<w.shots, w.phase, w.winner, w.events, Less(w.left)>>
  <2> HIDE DEF players, flags, pickup
  <2> QED BY <1>1, <1>2, <1>5, <1>6, <1>7 DEF World
<1>10. DOMAIN players = DOMAIN w.players
  OBVIOUS
<1> HIDE DEF u, players, flags, pickup
<1>11. Consistent(u) /\ Stocked(u)
  BY <1>5, <1>6, <1>9, <1>10 DEF Consistent, Stocked
<1> QED BY <1>6, <1>7, <1>8, <1>9, <1>10, <1>11 DEF Later

\* startMatch: the living return with a shield, the dead keep waiting.
LEMMA FreshPlayer ==
  ASSUME NEW p \in Player
  PROVE  /\ Fresh(p) \in Player
         /\ <<Fresh(p).team, Fresh(p).dead, Fresh(p).hill, Fresh(p).dom>> = <<p.team, p.dead, 0, 0>>
         /\ p.dead => Fresh(p).hp = p.hp /\ Fresh(p).respawn = p.respawn
         /\ ~p.dead => Fresh(p).hp = MaxHP /\ Fresh(p).shield = SpawnShield
<1> DEFINE q == [p EXCEPT !.kills = 0, !.deaths = 0, !.hill = 0, !.dom = 0, !.captures = 0, !.streak = 0]
<1>1. q \in Player /\ <<q.team, q.dead, q.hill, q.dom, q.hp, q.respawn>>
                        = <<p.team, p.dead, 0, 0, p.hp, p.respawn>>
  BY DEF Player
<1>2. Fresh(p) = IF p.dead THEN q ELSE Respawned(q)
  BY DEF Fresh
<1> HIDE DEF q
<1>3. CASE p.dead
  <2>1. Fresh(p) = q
    BY <1>2, <1>3
  <2> QED BY <1>1, <1>3, <2>1
<1>4. CASE ~p.dead
  <2>1. Fresh(p) = Respawned(q)
    BY <1>2, <1>4
  <2>2. /\ Respawned(q) \in Player
        /\ Respawned(q).hp = MaxHP /\ ~Respawned(q).dead /\ Respawned(q).shield = SpawnShield
        /\ <<Respawned(q).team, Respawned(q).hill, Respawned(q).dom>> = <<q.team, q.hill, q.dom>>
    BY <1>1, RespawnedPlayer
  <2>3. Respawned(q).dead = FALSE /\ p.dead = FALSE
    BY <1>4, <2>2 DEF Player
  <2> QED BY <1>1, <1>4, <2>1, <2>2, <2>3
<1> QED BY <1>3, <1>4

\* endMatch names a team, an id or nobody.
LEMMA WinnerIsNumber ==
  ASSUME NEW w \in World
  PROVE  Winner(w) \in Nat
<1> DEFINE best == {id \in DOMAIN w.players : \A o \in DOMAIN w.players : Score(w, o) <= Score(w, id)}
<1>1. best \in SUBSET Nat
  <2>1. Id \subseteq Nat
    BY ArenaAssumption DEF Id
  <2> QED BY <2>1, PlayersOf
<1>2. Winner(w) = IF Mode.team THEN IF TeamScore(w, 1) > TeamScore(w, 0) THEN 1 ELSE 0
                  ELSE IF best = {} THEN 0 ELSE Min(best)
  BY DEF Winner
<1>3. best # {} => Min(best) \in best
  <2> HIDE DEF best
  <2> QED BY <1>1, MinOfNumbers
<1>4. best # {} => Min(best) \in Nat
  <2> HIDE DEF best
  <2> QED BY <1>1, <1>3
<1>5. Winner(w) \in {0, 1} \/ (best # {} /\ Winner(w) = Min(best))
  <2> HIDE DEF best
  <2> QED BY <1>2
<1> HIDE DEF best
<1> QED BY <1>4, <1>5

\* The three things that can happen to the match at the end of a Step.
GoesOn(w, u) == w.left > 0 /\ u = w
Ends(w, u) ==
    /\ w.left = 0 /\ w.phase = "active"
    /\ <<u.phase, u.left, u.winner>> = <<"intermission", Intermission, Winner(w)>>
    /\ <<u.players, u.shots, u.pickup, u.flags, u.events>>
         = <<w.players, w.shots, w.pickup, w.flags, w.events>>
Begins(w, u) ==
    /\ w.left = 0 /\ w.phase = "intermission"
    /\ <<u.phase, u.left, u.winner, u.pickup, u.events>> = <<"active", MatchTime, 0, w.pickup, w.events>>
    /\ DOMAIN u.players = DOMAIN w.players
    /\ \A id \in DOMAIN w.players : u.players[id] = Fresh(w.players[id])
    /\ u.flags = [t \in Team |-> AtBase]
    /\ Len(u.shots) = Len(w.shots)
    /\ \A k \in 1 .. Len(w.shots) : u.shots[k] = [w.shots[k] EXCEPT !.old = TRUE]

\* stepMatch: the match goes on, ends or begins.
LEMMA MatchEffect ==
  ASSUME NEW w \in World, Consistent(w), Stocked(w)
  PROVE  LET u == Match(w) IN
         /\ u \in World /\ Consistent(u) /\ Stocked(u) /\ u.left > 0
         /\ GoesOn(w, u) \/ Ends(w, u) \/ Begins(w, u)
<1> DEFINE u == Match(w)
           ended == [w EXCEPT !.phase = "intermission", !.left = Intermission, !.winner = Winner(w)]
           players == [id \in DOMAIN w.players |-> Fresh(w.players[id])]
           flags == [t \in Team |-> AtBase]
           shots == [k \in DOMAIN w.shots |-> [w.shots[k] EXCEPT !.old = TRUE]]
           begun == [w EXCEPT !.phase = "active", !.left = MatchTime, !.winner = 0,
                              !.players = players, !.flags = flags, !.shots = shots]
<1>1. /\ w.players \in [DOMAIN w.players -> Player] /\ DOMAIN w.players \in SUBSET Id
      /\ w.left \in Nat /\ w.phase \in {"active", "intermission"} /\ w.shots \in Seq(Shot)
      /\ MatchTime \in Nat \ {0} /\ Intermission \in Nat \ {0} /\ MaxHP \in Nat \ {0}
  BY PlayersOf, ArenaAssumption DEF World
<1>2. u = IF w.left = 0 /\ w.phase = "active" THEN ended
          ELSE IF w.left = 0 /\ w.phase = "intermission" THEN begun ELSE w
  BY DEF Match
<1>3. CASE w.left = 0 /\ w.phase = "active"
  <2>1. /\ ended \in World /\ <<ended.phase, ended.left, ended.winner>>
                                = <<"intermission", Intermission, Winner(w)>>
        /\ <<ended.players, ended.shots, ended.pickup, ended.flags, ended.events>>
             = <<w.players, w.shots, w.pickup, w.flags, w.events>>
    BY <1>1, WinnerIsNumber DEF World
  <2>2. u = ended
    BY <1>2, <1>3
  <2> HIDE DEF ended, u
  <2>3. u \in World /\ Consistent(u) /\ Stocked(u) /\ u.left > 0 /\ Ends(w, u)
    BY <1>1, <1>3, <2>1, <2>2 DEF Consistent, Stocked, Ends
  <2> QED BY <2>3 DEF u
<1>4. CASE w.left = 0 /\ w.phase = "intermission"
  <2>1. players \in [DOMAIN w.players -> Player] /\ players \in Players
    <3>1. players \in [DOMAIN w.players -> Player]
      BY <1>1, FreshPlayer
    <3> HIDE DEF players
    <3> QED BY <1>1, <3>1, PlayersIn
  <2>2. flags \in [Team -> Flag]
    BY AtBaseIsFlag
  <2>3. /\ shots \in Seq(Shot) /\ Len(shots) = Len(w.shots)
        /\ \A k \in 1 .. Len(w.shots) : shots[k] = [w.shots[k] EXCEPT !.old = TRUE]
    <3>1. \A s \in Shot : [s EXCEPT !.old = TRUE] \in Shot
      BY DEF Shot
    <3>2. DOMAIN w.shots = 1 .. Len(w.shots) /\ Len(w.shots) \in Nat
          /\ \A k \in 1 .. Len(w.shots) : w.shots[k] \in Shot
      BY <1>1
    <3>3. shots \in [1 .. Len(w.shots) -> Shot]
      BY <3>1, <3>2
    <3>4. \A k \in 1 .. Len(w.shots) : shots[k] = [w.shots[k] EXCEPT !.old = TRUE]
      BY <3>2
    <3> HIDE DEF shots
    <3> QED BY <3>2, <3>3, <3>4
  <2>4. /\ DOMAIN players = DOMAIN w.players
        /\ \A id \in DOMAIN w.players : players[id] = Fresh(w.players[id])
    OBVIOUS
  <2>5. u = begun
    BY <1>2, <1>4
  <2> HIDE DEF players, shots
  <2>6. /\ begun \in World /\ begun.players = players /\ begun.flags = flags /\ begun.shots = shots
        /\ <<begun.phase, begun.left, begun.winner, begun.pickup, begun.events>>
             = <<"active", MatchTime, 0, w.pickup, w.events>>
    <3> HIDE DEF flags
    <3> QED BY <1>1, <2>1, <2>2, <2>3 DEF World
  <2> HIDE DEF begun, u
  <2>7. Begins(w, u)
    BY <1>4, <2>3, <2>4, <2>5, <2>6 DEF Begins
  <2>8. Consistent(u) /\ Stocked(u) /\ u.left > 0 /\ u \in World
    <3>1. \A id \in DOMAIN w.players : IF Fresh(w.players[id]).dead THEN Fresh(w.players[id]).hp \in {0, MaxHP}
                                                                 ELSE Fresh(w.players[id]).hp > 0
      <4> TAKE id \in DOMAIN w.players
      <4>1. w.players[id] \in Player
        BY <1>1
      <4> QED BY <1>1, <4>1, FreshPlayer DEF Consistent
    <3>2. Stocked(u)
      BY <2>5, <2>6 DEF Stocked
    <3> QED BY <1>1, <2>4, <2>5, <2>6, <3>1, <3>2 DEF Consistent
  <2> QED BY <2>7, <2>8 DEF u
<1>5. CASE w.left # 0
  <2>1. u = w /\ w.left > 0
    BY <1>1, <1>2, <1>5
  <2> HIDE DEF u
  <2>2. u \in World /\ Consistent(u) /\ Stocked(u) /\ u.left > 0 /\ GoesOn(w, u)
    BY <2>1 DEF GoesOn
  <2> QED BY <2>2 DEF u
<1> QED BY <1>1, <1>3, <1>4, <1>5

-----------------------------------------------------------------------------
(* A Step of the world. *)

\* From the inputs to the flags: the shots that fly on, the hits, who is alive
\* and shielded, and whom the hill and the zones pay.
Fought(w, u) ==
    /\ u \in World /\ Consistent(u) /\ Stocked(u) /\ DOMAIN u.players = DOMAIN w.players
    /\ <<u.flags, u.phase, u.left, u.winner>> = <<w.flags, w.phase, w.left, w.winner>>
    /\ Len(u.shots) <= Len(w.shots) /\ FlyingOn(w, u)
    /\ \A e \in Range(u.events) : e.kind # "capture" /\ (e.kind = "hit" => HitBy(w, e))
    /\ \A id \in DOMAIN w.players :
          LET p == w.players[id]
              q == u.players[id]
          IN  /\ q.team = p.team
              /\ p.dead /\ q.dead => q.respawn = p.respawn /\ q.respawn # 0
              /\ p.dead /\ ~q.dead => q.shield = SpawnShield
              /\ q.shield = p.shield \/ q.shield = SpawnShield \/ id \in Rewarded(u)
PaysOneSide(w, u) ==
    /\ \E s : \A id \in DOMAIN w.players :
          u.players[id].hill # w.players[id].hill => w.phase = "active" /\ Side(w, id) = s
    /\ \E a, b : \A id \in DOMAIN w.players :
          u.players[id].dom # w.players[id].dom => w.phase = "active" /\ Side(w, id) \in {a, b}

\* From the projectiles to the zones: the parts of a Step between the inputs and
\* the flags, composed.
LEMMA FoughtEffect ==
  ASSUME scenario \in Scenarios,
         NEW w \in World, Consistent(w), Stocked(w), w.events = << >>,
         NEW fates, \A k \in 1 .. Len(w.shots) : fates[k] \in Fate(w, w.shots[k]),
         NEW place, NEW kind, w.pickup.ready = 0 => kind \in {"medkit", "rapid", "spread"}
  PROVE  LET u == Domination(Hill(Pickups(Respawn(Fly(w, fates)), place, kind), place), place) IN
         Fought(w, u) /\ PaysOneSide(w, u)
<1> DEFINE f == Fly(w, fates)
           r == Respawn(f)
           p == Pickups(r, place, kind)
           h == Hill(p, place)
           d == Domination(h, place)
<1>1. Flown(w, f) /\ Len(f.shots) <= Len(w.shots)
  BY FlyEffect
<1> HIDE DEF f
<1>2. f \in World /\ Struck(w, f) /\ Consistent(f) /\ FlyingOn(w, f)
  BY <1>1 DEF Flown
<1>3. /\ r \in World /\ Consistent(r) /\ DOMAIN r.players = DOMAIN f.players
      /\ <<r.shots, r.pickup, r.flags, r.phase, r.left, r.winner, r.events>>
           = <<f.shots, f.pickup, f.flags, f.phase, f.left, f.winner, f.events>>
      /\ \A id \in DOMAIN f.players :
            r.players[id] = IF f.players[id].dead /\ f.players[id].respawn = 0
                              THEN Respawned(f.players[id]) ELSE f.players[id]
  BY <1>2, RespawnEffect
<1> HIDE DEF r
<1>4. r.pickup = w.pickup /\ Stocked(r)
  BY <1>2, <1>3 DEF Struck, Stocked
<1>5. /\ Settled(r, p)
      /\ \A id \in DOMAIN r.players : <<p.players[id].hill, p.players[id].dom>>
                                        = <<r.players[id].hill, r.players[id].dom>>
  BY <1>3, <1>4, PickupsEffect
<1> HIDE DEF p
<1>6. /\ Settled(p, h)
      /\ \A id \in DOMAIN p.players :
            /\ h.players[id].dom = p.players[id].dom
            /\ h.players[id].hill # p.players[id].hill =>
                 Mode.hill /\ p.phase = "active" /\ id \in Holders(p, place, "hill")
  <2>1. p \in World /\ Consistent(p) /\ Stocked(p)
    BY <1>5 DEF Settled
  <2> QED BY <2>1, HillEffect
<1> HIDE DEF h
<1>7. /\ Settled(h, d)
      /\ \A id \in DOMAIN h.players :
            /\ d.players[id].hill = h.players[id].hill
            /\ d.players[id].dom # h.players[id].dom =>
                 h.phase = "active" /\ \E zone \in Zones : id \in Holders(h, place, zone)
  <2>1. h \in World /\ Consistent(h) /\ Stocked(h)
    BY <1>6 DEF Settled
  <2> QED BY <2>1, DominationEffect
<1> HIDE DEF d
<1>8. Settled(r, d) /\ Settled(r, h)
  BY <1>5, <1>6, <1>7, SettledAgain
<1>9. \A id \in DOMAIN w.players : f.players[id] \in Player
  BY <1>2, PlayersOf DEF Struck
<1>10. ASSUME NEW id \in DOMAIN w.players
       PROVE  /\ <<r.players[id].team, r.players[id].hill, r.players[id].dom>>
                   = <<w.players[id].team, w.players[id].hill, w.players[id].dom>>
              /\ w.players[id].dead /\ r.players[id].dead =>
                   r.players[id].respawn = w.players[id].respawn /\ r.players[id].respawn # 0
              /\ w.players[id].dead /\ ~r.players[id].dead => r.players[id].shield = SpawnShield
              /\ \/ r.players[id].shield = w.players[id].shield
                 \/ r.players[id].shield = SpawnShield
                 \/ id \in Rewarded(r)
  <2>1. f.players[id] \in Player /\ id \in DOMAIN f.players
    BY <1>2, <1>9 DEF Struck
  <2>2. Rewarded(r) = Rewarded(f)
    BY <1>3 DEF Rewarded
  <2>3. CASE f.players[id].dead /\ f.players[id].respawn = 0
    <3>1. r.players[id] = Respawned(f.players[id])
      BY <1>3, <2>1, <2>3
    <3>2. /\ ~r.players[id].dead /\ r.players[id].shield = SpawnShield
          /\ <<r.players[id].team, r.players[id].hill, r.players[id].dom>>
               = <<f.players[id].team, f.players[id].hill, f.players[id].dom>>
      BY <2>1, <3>1, RespawnedPlayer
    <3> QED BY <1>2, <3>2 DEF Struck
  <2>4. CASE ~(f.players[id].dead /\ f.players[id].respawn = 0)
    <3>1. r.players[id] = f.players[id]
      BY <1>3, <2>1, <2>4
    <3> QED BY <1>2, <2>2, <2>4, <3>1 DEF Struck
  <2> QED BY <2>3, <2>4
<1>11. Fought(w, d)
  <2>1. DOMAIN d.players = DOMAIN w.players /\ DOMAIN r.players = DOMAIN w.players
    BY <1>2, <1>3, <1>8 DEF Struck, Settled
  <2>2. <<d.flags, d.phase, d.left, d.winner>> = <<w.flags, w.phase, w.left, w.winner>>
    BY <1>2, <1>3, <1>8 DEF Struck, Settled
  <2>3. d.shots = f.shots /\ d.events = f.events /\ r.events = f.events
    BY <1>3, <1>8 DEF Settled
  <2>4. Len(d.shots) <= Len(w.shots) /\ FlyingOn(w, d)
    BY <1>1, <1>2, <2>3 DEF FlyingOn
  <2>5. \A e \in Range(d.events) : e.kind # "capture" /\ (e.kind = "hit" => HitBy(w, e))
    BY <1>2, <2>3 DEF Struck
  <2>6. Rewarded(d) = Rewarded(r)
    BY <2>3 DEF Rewarded
  <2>7. ASSUME NEW id \in DOMAIN w.players
        PROVE  /\ d.players[id].team = w.players[id].team
               /\ w.players[id].dead /\ d.players[id].dead =>
                    d.players[id].respawn = w.players[id].respawn /\ d.players[id].respawn # 0
               /\ w.players[id].dead /\ ~d.players[id].dead => d.players[id].shield = SpawnShield
               /\ \/ d.players[id].shield = w.players[id].shield
                  \/ d.players[id].shield = SpawnShield
                  \/ id \in Rewarded(d)
    <3>1. <<d.players[id].team, d.players[id].dead, d.players[id].respawn, d.players[id].shield>>
            = <<r.players[id].team, r.players[id].dead, r.players[id].respawn, r.players[id].shield>>
      BY <1>8, <2>1 DEF Settled
    <3> QED BY <1>10, <2>6, <3>1
  <2>8. d \in World /\ Consistent(d) /\ Stocked(d)
    BY <1>8 DEF Settled
  <2> QED BY <2>1, <2>2, <2>4, <2>5, <2>7, <2>8 DEF Fought
<1>12. DOMAIN w.players = DOMAIN r.players /\ DOMAIN p.players = DOMAIN r.players
       /\ DOMAIN h.players = DOMAIN r.players /\ p.phase = w.phase /\ h.phase = w.phase
  BY <1>2, <1>3, <1>5, <1>8 DEF Struck, Settled
<1>13. \A id \in DOMAIN w.players : Side(p, id) = Side(w, id) /\ Side(h, id) = Side(w, id)
  <2>1. \A id \in DOMAIN w.players : p.players[id].team = w.players[id].team
                                     /\ h.players[id].team = w.players[id].team
    BY <1>5, <1>8, <1>10, <1>12 DEF Settled
  <2> QED BY <2>1 DEF Side
<1>14. \E s : \A id \in DOMAIN w.players :
          d.players[id].hill # w.players[id].hill => w.phase = "active" /\ Side(w, id) = s
  <2>1. PICK s : \A id \in Holders(p, place, "hill") : Side(p, id) = s
    BY <1>5, HoldersSide DEF Settled
  <2>2. \A id \in DOMAIN w.players :
          d.players[id].hill # w.players[id].hill => w.phase = "active" /\ Side(w, id) = s
    BY <1>5, <1>6, <1>7, <1>10, <1>12, <1>13, <2>1
  <2> QED BY <2>2
<1>15. \E a, b : \A id \in DOMAIN w.players :
          d.players[id].dom # w.players[id].dom => w.phase = "active" /\ Side(w, id) \in {a, b}
  <2>1. h \in World
    BY <1>8 DEF Settled
  <2>2. PICK a : \A id \in Holders(h, place, "zoneA") : Side(h, id) = a
    BY <2>1, HoldersSide
  <2>3. PICK b : \A id \in Holders(h, place, "zoneB") : Side(h, id) = b
    BY <2>1, HoldersSide
  <2>4. \A id \in DOMAIN w.players :
          d.players[id].dom # w.players[id].dom => w.phase = "active" /\ Side(w, id) \in {a, b}
    BY <1>5, <1>6, <1>7, <1>10, <1>12, <1>13, <2>2, <2>3 DEF Zones
  <2> QED BY <2>4
<1> QED BY <1>11, <1>14, <1>15 DEF PaysOneSide, d, h, p, r, f

\* Step, by the worlds it goes through: after the inputs, after everything but
\* the flags, after the flags, and a tick later.
Quiet(w) == [w EXCEPT !.events = << >>]
Stages(c, m, y, z) ==
    /\ c \in World /\ Consistent(c) /\ Commanded(Quiet(world), c)
    /\ fired' = {c.shots[k].owner : k \in Len(world.shots) + 1 .. Len(c.shots)}
    /\ Fought(c, m) /\ PaysOneSide(c, m)
    /\ Scored(m, y)
    /\ IF Mode.ctf /\ Mode.team /\ m.phase = "active"
         THEN \A t \in Team : Carried(m, y.flags[t], t) ELSE y.flags = m.flags
    /\ Later(y, z)
    /\ GoesOn(z, world') \/ Ends(z, world') \/ Begins(z, world')
    /\ world' \in World /\ Consistent(world') /\ Stocked(world') /\ world'.left > 0
    /\ exposed' = IF world.phase = "intermission" /\ world'.phase = "active"
                    THEN {} ELSE exposed \union fired' \union Rewarded(y)
    /\ scenario' = scenario

\* Every Step goes through the stages.
LEMMA StepStages ==
  ASSUME Invariant, Step
  PROVE  \E c, m, y, z : Stages(c, m, y, z)
<1>0. /\ world \in World /\ Consistent(world) /\ Stocked(world) /\ Len(world.shots) <= MaxProjectiles
      /\ scenario \in Scenarios /\ Held(world)
  BY DEF Invariant, Typed
<1> DEFINE start == [world EXCEPT !.events = << >>]
<1>1. /\ start \in World /\ start.events = << >>
      /\ <<start.players, start.shots, start.pickup, start.flags, start.phase, start.left, start.winner>>
           = <<world.players, world.shots, world.pickup, world.flags, world.phase, world.left, world.winner>>
  <2>1. << >> \in Seq(Happening)
    OBVIOUS
  <2> QED BY <1>0, <2>1 DEF World
<1>2. PICK input \in OneOfEach([id \in DOMAIN world.players |-> Input(id)]) :
        LET commanded == Inputs(start, input)
            shots == commanded.shots
            shooters == {shots[k].owner : k \in Len(world.shots) + 1 .. Len(shots)}
        IN
        \E fates \in OneOfEach([k \in DOMAIN shots |-> Fate(commanded, shots[k])]) :
        LET respawned == Respawn(Fly(commanded, fates)) IN
        \E place \in OneOfEach([id \in DOMAIN world.players |-> PlaceOf(respawned, id)]),
           kind \in IF world.pickup.ready = 0 THEN scenario.kinds ELSE {"none"} :
        LET played == Ctf(Domination(Hill(Pickups(respawned, place, kind), place), place), place) IN
        /\ world' = Match(Elapse(played))
        /\ fired' = shooters
        /\ exposed' = IF world.phase = "intermission" /\ world'.phase = "active"
                        THEN {} ELSE exposed \union shooters \union Rewarded(played)
        /\ UNCHANGED scenario
  BY DEF Step
<1> DEFINE c == Inputs(start, input)
<1>3. \A id \in DOMAIN world.players : input[id] \in [select : {"none"} \union DOMAIN Weapons, fire : BOOLEAN]
  <2> TAKE id \in DOMAIN world.players
  <2> DEFINE options == [i \in DOMAIN world.players |-> Input(i)]
  <2>0. /\ DOMAIN options = DOMAIN world.players /\ options[id] = Input(id)
        /\ input \in OneOfEach(options)
    BY <1>2
  <2> HIDE DEF options
  <2>1. input[id] \in Input(id) /\ id \in Id
    BY <1>0, <2>0, ChosenFor, PlayersOf
  <2>2. scenario.inputs[id] \subseteq [select : {"none"} \union DOMAIN Weapons, fire : BOOLEAN]
    BY <1>0, <2>1 DEF Scenarios
  <2>3. [select |-> "none", fire |-> FALSE] \in [select : {"none"} \union DOMAIN Weapons, fire : BOOLEAN]
    OBVIOUS
  <2>4. Input(id) \subseteq scenario.inputs[id] \union {[select |-> "none", fire |-> FALSE]}
    BY Zenon DEF Input
  <2> HIDE DEF c, start
  <2> QED BY <2>1, <2>2, <2>3, <2>4
<1>4. c \in World /\ Commanded(start, c)
  <2> DEFINE V == {u \in World : Commanded(start, u)}
  <2>1. start \in V
    BY <1>0, <1>1, CommandedNot
  <2>2. ASSUME NEW id \in Id, NEW u \in V, id \in DOMAIN start.players
        PROVE  Command(u, id, input[id]) \in V
    <3> HIDE DEF start
    <3> DEFINE v == Command(u, id, input[id])
    <3>1. u \in World /\ Commanded(start, u) /\ id \in DOMAIN u.players /\ Len(u.shots) <= MaxProjectiles
      BY <2>2 DEF Commanded
    <3>2. input[id] \in [select : {"none"} \union DOMAIN Weapons, fire : BOOLEAN]
      BY <1>1, <1>3, <2>2
    <3>3. v \in World /\ Commanded(u, v)
      BY <3>1, <3>2, CommandEffect
    <3> HIDE DEF v
    <3>4. v \in V
      BY <1>1, <3>1, <3>3, CommandedAgain
    <3> QED BY <3>4 DEF v
  <2>3. c \in V
    <3> HIDE DEF V, start
    <3> QED BY <2>1, <2>2, InputsFold
  <2> QED BY <2>3
<1>5. Consistent(c) /\ Stocked(c) /\ c.events = << >> /\ c.pickup = world.pickup
      /\ <<c.flags, c.phase, c.left, c.winner>> = <<world.flags, world.phase, world.left, world.winner>>
      /\ DOMAIN c.players = DOMAIN world.players
      /\ \A id \in DOMAIN world.players : c.players[id].team = world.players[id].team
  <2> HIDE DEF c, start
  <2> QED BY <1>0, <1>1, <1>4 DEF Commanded, Consistent, Stocked
<1>6. PICK fates \in OneOfEach([k \in DOMAIN c.shots |-> Fate(c, c.shots[k])]) :
        LET respawned == Respawn(Fly(c, fates)) IN
        \E place \in OneOfEach([id \in DOMAIN world.players |-> PlaceOf(respawned, id)]),
           kind \in IF world.pickup.ready = 0 THEN scenario.kinds ELSE {"none"} :
        LET played == Ctf(Domination(Hill(Pickups(respawned, place, kind), place), place), place) IN
        /\ world' = Match(Elapse(played))
        /\ fired' = {c.shots[k].owner : k \in Len(world.shots) + 1 .. Len(c.shots)}
        /\ exposed' = IF world.phase = "intermission" /\ world'.phase = "active"
                        THEN {} ELSE exposed \union {c.shots[k].owner : k \in Len(world.shots) + 1 .. Len(c.shots)}
                                       \union Rewarded(played)
        /\ UNCHANGED scenario
  BY <1>2
<1> HIDE DEF c
<1>7. \A k \in 1 .. Len(c.shots) : fates[k] \in Fate(c, c.shots[k])
  <2>1. DOMAIN c.shots = 1 .. Len(c.shots)
    BY <1>4 DEF World
  <2> QED BY <2>1, ChosenFor
<1> DEFINE respawned == Respawn(Fly(c, fates))
<1>8. PICK place \in OneOfEach([id \in DOMAIN world.players |-> PlaceOf(respawned, id)]),
           kind \in IF world.pickup.ready = 0 THEN scenario.kinds ELSE {"none"} :
        LET played == Ctf(Domination(Hill(Pickups(respawned, place, kind), place), place), place) IN
        /\ world' = Match(Elapse(played))
        /\ fired' = {c.shots[k].owner : k \in Len(world.shots) + 1 .. Len(c.shots)}
        /\ exposed' = IF world.phase = "intermission" /\ world'.phase = "active"
                        THEN {} ELSE exposed \union {c.shots[k].owner : k \in Len(world.shots) + 1 .. Len(c.shots)}
                                       \union Rewarded(played)
        /\ UNCHANGED scenario
  BY <1>6
<1> DEFINE m == Domination(Hill(Pickups(respawned, place, kind), place), place)
           y == Ctf(m, place)
           z == Elapse(y)
<1>9. Fought(c, m) /\ PaysOneSide(c, m)
  <2>1. c.pickup.ready = 0 => kind \in {"medkit", "rapid", "spread"}
    BY <1>0, <1>5 DEF Scenarios
  <2> QED BY <1>0, <1>4, <1>5, <1>7, <2>1, FoughtEffect
<1> HIDE DEF m
<1>10. \A id \in DOMAIN world.players : place[id] \in Place
  <2> TAKE id \in DOMAIN world.players
  <2>1. place[id] \in PlaceOf(respawned, id)
    <3> HIDE DEF respawned
    <3> QED BY ChosenFor
  <2>2. respawned.players[id].team \in Team
    <3>1. Flown(c, Fly(c, fates))
      BY <1>4, <1>5, <1>7, FlyEffect
    <3>2. Respawn(Fly(c, fates)) \in World /\ DOMAIN Respawn(Fly(c, fates)).players = DOMAIN Fly(c, fates).players
      BY <3>1, RespawnEffect DEF Flown
    <3>3. DOMAIN respawned.players = DOMAIN world.players /\ respawned \in World
      BY <1>5, <3>1, <3>2 DEF Flown, Struck
    <3> HIDE DEF respawned
    <3>4. respawned.players[id] \in Player
      BY <3>3, PlayersOf
    <3> QED BY <3>4 DEF Player
  <2>3. \A t \in Team : scenario.places[t] \subseteq Place
    BY <1>0 DEF Scenarios
  <2>4. "field" \in Place
    BY DEF Place
  <2> HIDE DEF respawned
  <2> QED BY <2>1, <2>2, <2>3, <2>4 DEF PlaceOf
<1>11. /\ Scored(m, y)
       /\ IF Mode.ctf /\ Mode.team /\ m.phase = "active"
            THEN \A t \in Team : Carried(m, y.flags[t], t) ELSE y.flags = m.flags
  <2>1. m \in World /\ Consistent(m) /\ Stocked(m) /\ DOMAIN m.players = DOMAIN world.players
        /\ m.flags = world.flags /\ m.phase = world.phase
        /\ \A id \in DOMAIN world.players : m.players[id].team = world.players[id].team
    BY <1>5, <1>9 DEF Fought
  <2>2. \A t \in Team :
            /\ (m.flags[t].status = "carried") = (m.flags[t].carrier # 0)
            /\ m.phase = "active" /\ m.flags[t].carrier \in DOMAIN m.players =>
                 m.players[m.flags[t].carrier].team # t
    BY <1>0, <2>1 DEF Held
  <2>3. \A id \in DOMAIN m.players : place[id] \in Place
    BY <1>10, <2>1
  <2> QED BY <2>1, <2>2, <2>3, CtfEffect
<1> HIDE DEF y
<1>12. y \in World /\ Consistent(y) /\ Stocked(y)
  BY <1>11 DEF Scored
<1>13. Later(y, z)
  BY <1>12, ElapseEffect
<1> HIDE DEF z
<1>14. world' = Match(z)
  BY <1>8 DEF z, y, m
<1>15. /\ world' \in World /\ Consistent(world') /\ Stocked(world') /\ world'.left > 0
       /\ GoesOn(z, world') \/ Ends(z, world') \/ Begins(z, world')
  <2>1. z \in World /\ Consistent(z) /\ Stocked(z)
    BY <1>13 DEF Later
  <2> DEFINE u == Match(z)
  <2>2. /\ u \in World /\ Consistent(u) /\ Stocked(u) /\ u.left > 0
        /\ GoesOn(z, u) \/ Ends(z, u) \/ Begins(z, u)
    BY <2>1, MatchEffect
  <2>3. world' = u
    BY <1>14
  <2> HIDE DEF u
  <2> QED BY <2>2, <2>3 DEF GoesOn, Ends, Begins, Consistent, Stocked
<1>16. /\ fired' = {c.shots[k].owner : k \in Len(world.shots) + 1 .. Len(c.shots)}
       /\ exposed' = IF world.phase = "intermission" /\ world'.phase = "active"
                       THEN {} ELSE exposed \union fired' \union Rewarded(y)
       /\ scenario' = scenario
  BY <1>8 DEF y, m
<1>17. Stages(c, m, y, z)
  BY <1>4, <1>5, <1>9, <1>11, <1>13, <1>15, <1>16 DEF Stages, Quiet
<1> QED BY <1>17

-----------------------------------------------------------------------------
(* The invariant. *)

\* What the stages of a Step are, and what the clock and the phase are in them.
LEMMA StagesAre ==
  ASSUME Invariant, NEW c, NEW m, NEW y, NEW z, Stages(c, m, y, z)
  PROVE  /\ world \in World /\ c \in World /\ m \in World /\ y \in World /\ z \in World /\ world' \in World
         /\ Commanded(Quiet(world), c) /\ Fought(c, m) /\ Scored(m, y) /\ Later(y, z)
         /\ GoesOn(z, world') \/ Ends(z, world') \/ Begins(z, world')
         /\ c.phase = world.phase /\ c.left = world.left
         /\ z.phase = world.phase /\ z.left = Less(world.left)
         /\ DOMAIN c.players = DOMAIN world.players /\ DOMAIN z.players = DOMAIN world.players
<1>1. c \in World /\ Commanded(Quiet(world), c) /\ Fought(c, m) /\ Scored(m, y) /\ Later(y, z)
  BY DEF Stages
<1>2. (GoesOn(z, world') \/ Ends(z, world') \/ Begins(z, world')) /\ world' \in World
  BY DEF Stages
<1>3. m \in World /\ y \in World /\ z \in World
  BY <1>1 DEF Fought, Scored, Later
<1>4. world \in World
  BY DEF Invariant, Typed
<1>5. /\ Quiet(world).phase = world.phase /\ Quiet(world).left = world.left
      /\ Quiet(world).players = world.players
  BY <1>4 DEF Quiet, World
<1>6. c.phase = world.phase /\ c.left = world.left /\ DOMAIN c.players = DOMAIN world.players
  BY <1>1, <1>5 DEF Commanded
<1>7. m.phase = c.phase /\ m.left = c.left /\ DOMAIN m.players = DOMAIN c.players
  BY <1>1 DEF Fought
<1>8. y.phase = m.phase /\ y.left = m.left /\ DOMAIN y.players = DOMAIN m.players
  BY <1>1 DEF Scored
<1>9. z.phase = y.phase /\ z.left = Less(y.left) /\ DOMAIN z.players = DOMAIN y.players
  BY <1>1 DEF Later
<1> QED BY <1>1, <1>2, <1>3, <1>4, <1>6, <1>7, <1>8, <1>9

\* A Step keeps who plays and their teams, and every projectile after it was
\* there before it or has been fired in it, and is a tick older.
LEMMA StepShots ==
  ASSUME Invariant, NEW c, NEW m, NEW y, NEW z, Stages(c, m, y, z)
  PROVE  /\ DOMAIN world'.players = DOMAIN world.players
         /\ \A id \in DOMAIN world.players : world'.players[id].team = world.players[id].team
         /\ Len(world'.shots) <= MaxProjectiles
         /\ \A i \in 1 .. Len(world'.shots) : \E j \in 1 .. Len(c.shots) :
               /\ world'.shots[i].owner = c.shots[j].owner /\ world'.shots[i].team = c.shots[j].team
               /\ c.shots[j].life > 1 /\ world'.shots[i].life = c.shots[j].life - 1
               /\ Begins(z, world') \/ world'.shots[i].old = c.shots[j].old
<1>1. /\ c \in World /\ m \in World /\ z \in World /\ world' \in World
      /\ Commanded(Quiet(world), c) /\ Fought(c, m) /\ Scored(m, y) /\ Later(y, z)
      /\ GoesOn(z, world') \/ Ends(z, world') \/ Begins(z, world')
  BY DEF Stages, Fought, Scored, Later
<1>2. z.shots = m.shots /\ Len(m.shots) <= Len(c.shots) /\ Len(c.shots) <= MaxProjectiles
      /\ FlyingOn(c, m) /\ DOMAIN c.players = DOMAIN world.players
      /\ DOMAIN z.players = DOMAIN world.players
  <2>1. Len(c.shots) <= MaxProjectiles /\ DOMAIN c.players = DOMAIN world.players
    BY <1>1 DEF Commanded, Quiet
  <2>2. FlyingOn(c, m) /\ Len(m.shots) <= Len(c.shots) /\ DOMAIN m.players = DOMAIN c.players
    BY <1>1 DEF Fought
  <2>3. y.shots = m.shots /\ DOMAIN y.players = DOMAIN m.players
    BY <1>1 DEF Scored
  <2>4. z.shots = y.shots /\ DOMAIN z.players = DOMAIN y.players
    BY <1>1 DEF Later
  <2> QED BY <2>1, <2>2, <2>3, <2>4
<1>3. \A id \in DOMAIN world.players :
         c.players[id].team = world.players[id].team /\ z.players[id].team = world.players[id].team
  <2>1. \A id \in DOMAIN world.players : c.players[id].team = world.players[id].team
    BY <1>1 DEF Commanded, Quiet
  <2>2. \A id \in DOMAIN world.players : m.players[id].team = c.players[id].team
    BY <1>1, <1>2 DEF Fought
  <2>3. \A id \in DOMAIN world.players : y.players[id].team = m.players[id].team
    BY <1>1, <1>2 DEF Fought, Scored
  <2>4. \A id \in DOMAIN world.players : z.players[id].team = y.players[id].team
    BY <1>1, <1>2 DEF Later
  <2> QED BY <2>1, <2>2, <2>3, <2>4
<1>4. /\ DOMAIN world'.players = DOMAIN world.players
      /\ \A id \in DOMAIN world.players : world'.players[id].team = world.players[id].team
      /\ Len(world'.shots) = Len(z.shots)
  <2>1. CASE ~Begins(z, world')
    BY <1>1, <1>2, <1>3, <2>1 DEF GoesOn, Ends
  <2>2. CASE Begins(z, world')
    <3>1. /\ DOMAIN world'.players = DOMAIN z.players /\ Len(world'.shots) = Len(z.shots)
          /\ \A id \in DOMAIN z.players : world'.players[id] = Fresh(z.players[id])
      BY <2>2 DEF Begins
    <3>2. \A id \in DOMAIN z.players : z.players[id] \in Player
      BY <1>1, PlayersOf
    <3>3. \A id \in DOMAIN z.players : Fresh(z.players[id]).team = z.players[id].team
      BY <3>2, FreshPlayer
    <3> QED BY <1>2, <1>3, <3>1, <3>3
  <2> QED BY <2>1, <2>2
<1>5. \A i \in 1 .. Len(m.shots) : m.shots[i] \in Shot
  <2>1. m \in World
    BY <1>1
  <2> QED BY <2>1 DEF World
<1>6. \A j \in 1 .. Len(c.shots) : /\ c.shots[j] \in Shot
                                   /\ Aged(c.shots[j]).owner = c.shots[j].owner
                                   /\ Aged(c.shots[j]).team = c.shots[j].team
                                   /\ Aged(c.shots[j]).old = c.shots[j].old
                                   /\ Aged(c.shots[j]).life = c.shots[j].life - 1
  <2> TAKE j \in 1 .. Len(c.shots)
  <2>1. c.shots[j] \in Shot
    <3>1. c \in World
      BY <1>1
    <3> QED BY <3>1 DEF World
  <2>2. /\ Aged(c.shots[j]).owner = c.shots[j].owner /\ Aged(c.shots[j]).team = c.shots[j].team
        /\ Aged(c.shots[j]).old = c.shots[j].old /\ Aged(c.shots[j]).life = c.shots[j].life - 1
    BY <2>1 DEF Aged, Shot
  <2> QED BY <2>1, <2>2
<1>7. ASSUME NEW i \in 1 .. Len(m.shots)
      PROVE  \E j \in 1 .. Len(c.shots) :
               /\ m.shots[i].owner = c.shots[j].owner /\ m.shots[i].team = c.shots[j].team
               /\ c.shots[j].life > 1 /\ m.shots[i].life = c.shots[j].life - 1
               /\ m.shots[i].old = c.shots[j].old
  <2>1. PICK j \in 1 .. Len(c.shots) : c.shots[j].life > 1 /\ m.shots[i] = Aged(c.shots[j])
    BY <1>2 DEF FlyingOn
  <2> QED BY <1>6, <2>1
<1>8. \A i \in 1 .. Len(world'.shots) :
         /\ i \in 1 .. Len(m.shots)
         /\ world'.shots[i].owner = m.shots[i].owner /\ world'.shots[i].team = m.shots[i].team
         /\ world'.shots[i].life = m.shots[i].life
         /\ Begins(z, world') \/ world'.shots[i].old = m.shots[i].old
  <2>1. CASE ~Begins(z, world')
    <3>1. world'.shots = m.shots
      BY <1>1, <1>2, <2>1 DEF GoesOn, Ends
    <3> QED BY <2>1, <3>1
  <2>2. CASE Begins(z, world')
    <3>1. \A i \in 1 .. Len(m.shots) : world'.shots[i] = [m.shots[i] EXCEPT !.old = TRUE]
      BY <1>2, <2>2 DEF Begins
    <3>2. Len(world'.shots) = Len(m.shots)
      BY <1>2, <1>4
    <3>3. \A i \in 1 .. Len(m.shots) :
            /\ world'.shots[i].owner = m.shots[i].owner /\ world'.shots[i].team = m.shots[i].team
            /\ world'.shots[i].life = m.shots[i].life
      <4> TAKE i \in 1 .. Len(m.shots)
      <4>1. m.shots[i] \in Shot /\ world'.shots[i] = [m.shots[i] EXCEPT !.old = TRUE]
        BY <1>5, <3>1
      <4> QED BY <4>1 DEF Shot
    <3> QED BY <2>2, <3>2, <3>3
  <2> QED BY <2>1, <2>2
<1>9. Len(world'.shots) <= MaxProjectiles
  <2>1. m.shots \in Seq(Shot) /\ c.shots \in Seq(Shot)
    BY <1>1 DEF World
  <2>2. Len(m.shots) \in Nat /\ Len(c.shots) \in Nat
    BY <2>1
  <2>3. MaxProjectiles \in Nat
    BY ArenaAssumption
  <2> QED BY <1>2, <1>4, <2>2, <2>3
<1> QED BY <1>4, <1>7, <1>8, <1>9

\* A Step keeps Held: in an active match stepCTF puts the flags of the dead
\* down, and between matches nobody can take one.
LEMMA StepHeld ==
  ASSUME Invariant, NEW c, NEW m, NEW y, NEW z, Stages(c, m, y, z)
  PROVE  /\ Held(world')
         /\ \A t \in Team : \/ world'.flags[t].carrier = world.flags[t].carrier
                            \/ world'.flags[t].carrier \in {0} \union DOMAIN world.players
<1>1. /\ m \in World /\ y \in World /\ z \in World /\ world' \in World
      /\ Commanded(Quiet(world), c) /\ Fought(c, m) /\ Scored(m, y) /\ Later(y, z)
      /\ GoesOn(z, world') \/ Ends(z, world') \/ Begins(z, world')
      /\ Held(world) /\ scenario' = scenario
      /\ IF Mode.ctf /\ Mode.team /\ m.phase = "active"
           THEN \A t \in Team : Carried(m, y.flags[t], t) ELSE y.flags = m.flags
  BY DEF Stages, Fought, Scored, Later, Invariant
<1>2. /\ m.flags = world.flags /\ m.phase = world.phase /\ z.phase = m.phase
      /\ DOMAIN z.players = DOMAIN m.players /\ DOMAIN m.players = DOMAIN world.players
      /\ \A id \in DOMAIN m.players :
           z.players[id].dead = m.players[id].dead /\ z.players[id].team = m.players[id].team
      /\ \A t \in Team : z.flags[t].status = y.flags[t].status /\ z.flags[t].carrier = y.flags[t].carrier
  <2>1. /\ m.flags = world.flags /\ m.phase = world.phase /\ z.phase = m.phase
        /\ DOMAIN z.players = DOMAIN m.players /\ DOMAIN y.players = DOMAIN m.players
        /\ DOMAIN m.players = DOMAIN world.players
    BY <1>1 DEF Commanded, Quiet, Fought, Scored, Later
  <2>2. \A id \in DOMAIN m.players :
           y.players[id].dead = m.players[id].dead /\ y.players[id].team = m.players[id].team
    BY <1>1 DEF Scored
  <2>3. \A id \in DOMAIN m.players :
           z.players[id].dead = y.players[id].dead /\ z.players[id].team = y.players[id].team
    BY <1>1, <2>1 DEF Later
  <2>4. \A t \in Team : z.flags[t].status = y.flags[t].status /\ z.flags[t].carrier = y.flags[t].carrier
    BY <1>1 DEF Later
  <2> QED BY <2>1, <2>2, <2>3, <2>4
<1>3. 0 \notin DOMAIN world.players
  <2>1. DOMAIN world.players \subseteq Id
    BY PlayersOf DEF Invariant, Typed
  <2>2. 0 \notin Id
    BY ArenaAssumption DEF Id
  <2> QED BY <2>1, <2>2
<1>4. CASE Begins(z, world')
  <2>1. \A t \in Team : world'.flags[t] = AtBase
    BY <1>4 DEF Begins
  <2>2. DOMAIN world'.players = DOMAIN world.players
    BY <1>2, <1>4 DEF Begins
  <2>3. \A t \in Team : world'.flags[t].status = "base" /\ world'.flags[t].carrier = 0
    BY <2>1, AtBaseIsFlag
  <2>4. Held(world')
    BY <1>3, <2>2, <2>3 DEF Held
  <2> QED BY <2>3, <2>4
<1>5. CASE ~Begins(z, world')
  <2>1. world'.flags = z.flags /\ world'.players = z.players
        /\ (world'.phase = "active" => m.phase = "active")
    BY <1>1, <1>2, <1>5 DEF GoesOn, Ends
  <2>2. CASE Mode.ctf /\ Mode.team /\ m.phase = "active"
    <3>1. ASSUME NEW t \in Team
          PROVE  /\ (world'.flags[t].status = "carried") = (world'.flags[t].carrier # 0)
                 /\ world'.flags[t].carrier # 0 =>
                      /\ world'.flags[t].carrier \in DOMAIN m.players
                      /\ ~m.players[world'.flags[t].carrier].dead
                      /\ m.players[world'.flags[t].carrier].team # t
      <4>1. Carried(m, y.flags[t], t)
        BY <1>1, <2>2
      <4>2. world'.flags[t].status = y.flags[t].status /\ world'.flags[t].carrier = y.flags[t].carrier
        BY <1>2, <2>1
      <4> QED BY <4>1, <4>2 DEF Carried, Living
    <3>2. ASSUME NEW t \in Team, world'.flags[t].carrier \in DOMAIN world'.players
          PROVE  /\ ~world'.players[world'.flags[t].carrier].dead
                 /\ world'.players[world'.flags[t].carrier].team # t
      <4>1. /\ world'.flags[t].carrier \in DOMAIN m.players /\ world'.flags[t].carrier # 0
            /\ world'.players = z.players
        BY <1>2, <1>3, <2>1, <3>2
      <4>2. \A id \in DOMAIN m.players : /\ z.players[id].dead = m.players[id].dead
                                        /\ z.players[id].team = m.players[id].team
        BY <1>2
      <4> QED BY <3>1, <4>1, <4>2
    <3>3. Held(world')
      BY <2>2, <3>1, <3>2 DEF Held
    <3>4. \A t \in Team : world'.flags[t].carrier \in {0} \union DOMAIN world.players
      BY <1>2, <3>1
    <3> QED BY <3>3, <3>4
  <2>3. CASE ~(Mode.ctf /\ Mode.team /\ m.phase = "active")
    <3>1. \A t \in Team : world'.flags[t].status = world.flags[t].status
                          /\ world'.flags[t].carrier = world.flags[t].carrier
      BY <1>1, <1>2, <2>1, <2>3
    <3>2. ASSUME NEW t \in Team, world'.phase = "active", world'.flags[t].carrier \in DOMAIN world'.players
          PROVE  FALSE
      <4>1. ~(Mode.ctf /\ Mode.team) /\ world.flags[t].carrier # 0
        BY <1>2, <1>3, <2>1, <2>3, <3>1, <3>2
      <4> QED BY <1>1, <4>1 DEF Held
    <3> QED BY <1>1, <3>1, <3>2 DEF Held, Mode
  <2> QED BY <2>2, <2>3
<1> QED BY <1>4, <1>5

\* A Step keeps the invariant.
LEMMA InvariantStep == Invariant /\ Step => Invariant'
<1> SUFFICES ASSUME Invariant, Step
             PROVE  Invariant'
  OBVIOUS
<1>1. PICK c, m, y, z : Stages(c, m, y, z)
  BY StepStages
<1>2. /\ scenario' = scenario /\ scenario \in Scenarios /\ Loyal(world) /\ Unknown(world)
      /\ world' \in World /\ Consistent(world') /\ Stocked(world') /\ world'.left > 0
      /\ c \in World /\ Commanded(Quiet(world), c) /\ world \in World
  BY <1>1 DEF Stages, Invariant, Typed
<1>3. /\ DOMAIN world'.players = DOMAIN world.players
      /\ \A id \in DOMAIN world.players : world'.players[id].team = world.players[id].team
      /\ Len(world'.shots) <= MaxProjectiles
      /\ \A i \in 1 .. Len(world'.shots) : \E j \in 1 .. Len(c.shots) :
            world'.shots[i].owner = c.shots[j].owner /\ world'.shots[i].team = c.shots[j].team
  BY <1>1, StepShots
<1>4. /\ Held(world')
      /\ \A t \in Team : \/ world'.flags[t].carrier = world.flags[t].carrier
                         \/ world'.flags[t].carrier \in {0} \union DOMAIN world.players
  BY <1>1, StepHeld
<1>5. \A j \in 1 .. Len(c.shots) :
         \/ j \in 1 .. Len(world.shots) /\ c.shots[j] = world.shots[j]
         \/ /\ c.shots[j].owner \in DOMAIN world.players
            /\ c.shots[j].team = world.players[c.shots[j].owner].team
  <2>1. Len(c.shots) \in Nat /\ Len(world.shots) \in Nat
    BY <1>2 DEF World
  <2> QED BY <1>2, <2>1 DEF Commanded, Quiet
<1>6. Loyal(world)'
  <2>1. ASSUME NEW i \in 1 .. Len(world'.shots), world'.shots[i].owner \in DOMAIN world'.players
        PROVE  world'.shots[i].team = world'.players[world'.shots[i].owner].team
    <3>1. PICK j \in 1 .. Len(c.shots) :
            world'.shots[i].owner = c.shots[j].owner /\ world'.shots[i].team = c.shots[j].team
      BY <1>3
    <3>2. c.shots[j].owner \in DOMAIN world.players =>
            c.shots[j].team = world.players[c.shots[j].owner].team
      BY <1>2, <1>5 DEF Loyal
    <3> QED BY <1>3, <2>1, <3>1, <3>2
  <2> QED BY <2>1 DEF Loyal
<1>7. Unknown(world)'
  <2>1. 0 \notin Id
    BY ArenaAssumption DEF Id
  <2>2. scenario.late \subseteq Id
    BY <1>2 DEF Scenarios
  <2>3. ASSUME NEW id \in scenario.late
        PROVE  /\ id \notin DOMAIN world'.players
               /\ \A k \in 1 .. Len(world'.shots) : world'.shots[k].owner # id
               /\ \A t \in Team : world'.flags[t].carrier # id
    <3>1. id \notin DOMAIN world'.players
      BY <1>2, <1>3, <2>3 DEF Unknown
    <3>2. \A j \in 1 .. Len(c.shots) : c.shots[j].owner # id
      BY <1>2, <1>5, <2>3 DEF Unknown
    <3>3. ASSUME NEW t \in Team
          PROVE  world'.flags[t].carrier # id
      BY <1>2, <1>4, <2>1, <2>2, <2>3, <3>3 DEF Unknown
    <3> QED BY <1>3, <3>1, <3>2, <3>3
  <2> QED BY <1>2, <2>3 DEF Unknown
<1>8. Typed(world)'
  BY <1>2, <1>3 DEF Typed, Consistent, Stocked
<1>9. Held(world)'
  BY <1>2, <1>4 DEF Held, Mode
<1> QED BY <1>2, <1>6, <1>7, <1>8, <1>9 DEF Invariant

-----------------------------------------------------------------------------
(* The first state, and players who come and go. *)

\* The fold of Start keeps what every player who is there from the start keeps.
LEMMA StartFold ==
  ASSUME NEW V, Empty \in V,
         \A id \in Id : \A u \in V : id \in scenario.present => Joined(u, id) \in V
  PROVE  Start \in V
<1> DEFINE Op(u, id) == IF id \in scenario.present THEN Joined(u, id) ELSE u
           F == [k \in Id |-> [u \in V |-> Op(u, k)]]
           W == [k \in 0 .. MaxId |-> V]
           base == Empty
<1>0. MaxId \in Nat /\ DOMAIN Order = 1 .. MaxId /\ Id = 1 .. MaxId /\ \A k \in Id : Order[k] = k
  BY ArenaAssumption DEF Order, Id
<1>1. \A k \in 1 .. MaxId : \A u \in V : Op(u, k) \in V
  BY <1>0
<1>2. /\ \A k \in 1 .. MaxId : F[k] \in [W[k - 1] -> W[k]] /\ W[k - 1] = V
      /\ base \in W[0] /\ \A j, k \in 0 .. MaxId : j <= k => W[j] \subseteq W[k]
  <2> HIDE DEF Op
  <2> QED BY <1>0, <1>1
<1>3. PICK g : Taken(MaxId, base, F, g) /\ Kept(MaxId, W, g)
  <2> HIDE DEF F, W, base
  <2> QED BY <1>0, <1>2, FoldExists
<1>4. g = [s \in SUBSET DOMAIN Order |-> IF s = {} THEN base ELSE Op(g[s \ {Max(s)}], Order[Max(s)])]
  <2>1. \A s \in SUBSET (1 .. MaxId) : s # {} => Max(s) \in 1 .. MaxId /\ g[s \ {Max(s)}] \in W[Max(s) - 1]
    <3> HIDE DEF F, W, base
    <3> QED BY <1>0, <1>2, <1>3, BeforeLast
  <2>2. \A s \in SUBSET (1 .. MaxId) : s # {} =>
           F[Max(s)][g[s \ {Max(s)}]] = Op(g[s \ {Max(s)}], Order[Max(s)])
    <3>1. \A k \in 1 .. MaxId : \A u \in V : F[k][u] = Op(u, k)
      <4> HIDE DEF Op
      <4> QED BY <1>0
    <3>2. \A s \in SUBSET (1 .. MaxId) : s # {} => Max(s) \in 1 .. MaxId /\ g[s \ {Max(s)}] \in V
      BY <1>2, <2>1
    <3> HIDE DEF F, Op, base
    <3> QED BY <1>0, <3>1, <3>2
  <2> HIDE DEF F, Op, base
  <2> QED BY <1>0, <1>3, <2>2 DEF Taken
<1>5. PICK x : /\ x = [s \in SUBSET DOMAIN Order |->
                         IF s = {} THEN base ELSE Op(x[s \ {Max(s)}], Order[Max(s)])]
               /\ Start = x[DOMAIN Order]
  BY <1>4 DEF Start, FoldLeft, MapThenFoldSet
<1>6. x[{}] = base /\ \A k \in 1 .. MaxId : x[1 .. k] = Op(x[1 .. (k - 1)], k)
  <2> HIDE DEF Op, base
  <2>1. x[{}] = base
    BY <1>5
  <2>2. \A k \in 1 .. MaxId : x[1 .. k] = Op(x[(1 .. k) \ {Max(1 .. k)}], Order[Max(1 .. k)])
    <3> TAKE k \in 1 .. MaxId
    <3>1. 1 .. k \in SUBSET DOMAIN Order /\ 1 .. k # {}
      BY <1>0, Segments
    <3> QED BY <1>5, <3>1
  <2>3. \A k \in 1 .. MaxId : (1 .. k) \ {Max(1 .. k)} = 1 .. (k - 1) /\ Order[Max(1 .. k)] = k
    BY <1>0, Segments
  <2> QED BY <2>1, <2>2, <2>3
<1>7. x[1 .. MaxId] \in W[MaxId]
  <2> HIDE DEF Op, base
  <2>1. x[{}] \in W[0] /\ \A k \in 1 .. MaxId : x[1 .. (k - 1)] \in W[k - 1] => x[1 .. k] \in W[k]
    BY <1>0, <1>1, <1>2, <1>6
  <2> HIDE DEF W
  <2> QED BY <1>0, <2>1, FoldClimbs
<1> HIDE DEF Op, base
<1> QED BY <1>0, <1>5, <1>7

\* A new player is alive, healthy and not shielded.
LEMMA NewcomerIsPlayer ==
  ASSUME NEW t \in Team
  PROVE  /\ NewPlayer(t) \in Player
         /\ NewPlayer(t).hp > 0 /\ ~NewPlayer(t).dead /\ NewPlayer(t).shield = 0
<1>1. /\ MaxHP \in Nat \ {0} /\ RespawnDelay \in Nat /\ BuffTime \in Nat
      /\ "pistol" \in DOMAIN Weapons
  BY ArenaAssumption
<1>2. MaxHP \in 0 .. MaxHP /\ 0 \in 0 .. RespawnDelay /\ 0 \in 0 .. BuffTime /\ MaxHP > 0
  BY <1>1
<1> QED BY <1>1, <1>2 DEF NewPlayer, Player

\* A player who joins changes nothing but the players, and is not shielded.
LEMMA JoinedEffect ==
  ASSUME NEW w \in World, NEW id \in Id
  PROVE  LET u == Joined(w, id) IN
         /\ u \in World /\ DOMAIN u.players = DOMAIN w.players \union {id}
         /\ <<u.shots, u.pickup, u.flags, u.phase, u.left, u.winner, u.events>>
              = <<w.shots, w.pickup, w.flags, w.phase, w.left, w.winner, w.events>>
         /\ \A o \in DOMAIN w.players \ {id} : u.players[o] = w.players[o]
         /\ u.players[id].hp > 0 /\ ~u.players[id].dead
         /\ Consistent(w) => Consistent(u)
<1> DEFINE t == SmallerTeam(w)
           S == DOMAIN w.players \union {id}
           f == [o \in S |-> IF o = id THEN NewPlayer(t) ELSE w.players[o]]
           u == Joined(w, id)
<1>1. t \in Team
  BY DEF SmallerTeam, Team
<1> HIDE DEF t
<1>2. w.players \in [DOMAIN w.players -> Player] /\ S \in SUBSET Id
  BY PlayersOf
<1>3. NewPlayer(t) \in Player /\ NewPlayer(t).hp > 0 /\ ~NewPlayer(t).dead
  BY <1>1, NewcomerIsPlayer
<1>4. f \in [S -> Player] /\ f[id] = NewPlayer(t) /\ \A o \in DOMAIN w.players \ {id} : f[o] = w.players[o]
  BY <1>2, <1>3
<1>5. f \in Players
  BY <1>2, <1>4, PlayersIn
<1>6. u = [w EXCEPT !.players = f]
  BY DEF Joined, t
<1> HIDE DEF f, u
<1>7. /\ u \in World /\ u.players = f
      /\ <<u.shots, u.pickup, u.flags, u.phase, u.left, u.winner, u.events>>
           = <<w.shots, w.pickup, w.flags, w.phase, w.left, w.winner, w.events>>
  BY <1>5, <1>6 DEF World
<1>8. DOMAIN u.players = DOMAIN w.players \union {id}
  BY <1>4, <1>7
<1>9. ASSUME Consistent(w)
      PROVE  Consistent(u)
  <2>1. ASSUME NEW o \in DOMAIN u.players
        PROVE  IF u.players[o].dead THEN u.players[o].hp \in {0, MaxHP} ELSE u.players[o].hp > 0
    <3>1. CASE o = id
      BY <1>3, <1>4, <1>7, <3>1
    <3>2. CASE o # id
      BY <1>4, <1>7, <1>8, <1>9, <3>2 DEF Consistent
    <3> QED BY <3>1, <3>2
  <2> QED BY <2>1 DEF Consistent
<1>10. /\ \A o \in DOMAIN w.players \ {id} : u.players[o] = w.players[o]
       /\ u.players[id].hp > 0 /\ ~u.players[id].dead
  BY <1>3, <1>4, <1>7
<1> QED BY <1>7, <1>8, <1>9, <1>10 DEF u

\* NewWorld: nobody, nothing in the air, both flags at home.
LEMMA EmptyIsWorld ==
  /\ Empty \in World /\ Empty.players = << >> /\ Empty.shots = << >> /\ Empty.events = << >>
  /\ Empty.flags = [t \in Team |-> AtBase] /\ Empty.left = MatchTime /\ Empty.phase = "active"
  /\ Consistent(Empty) /\ Stocked(Empty) /\ DOMAIN Empty.players = {}
<1> DEFINE none == << >>
           rest == [active |-> FALSE, kind |-> "none", ready |-> 0]
           flags == [t \in Team |-> AtBase]
<1>1. none \in Players /\ DOMAIN none = {}
  <2>1. none \in [{} -> Player] /\ DOMAIN none = {}
    OBVIOUS
  <2>2. {} \in SUBSET Id
    OBVIOUS
  <2> HIDE DEF none
  <2> QED BY <2>1, <2>2, PlayersIn
<1>2. << >> \in Seq(Shot) /\ << >> \in Seq(Happening)
  OBVIOUS
<1>3. rest \in Pickup /\ ~rest.active
  <2>1. 0 \in 0 .. PickupDelay
    BY ArenaAssumption
  <2> QED BY <2>1 DEF Pickup
<1>4. flags \in [Team -> Flag]
  BY AtBaseIsFlag
<1>5. MatchTime \in Nat /\ 0 \in Nat
  BY ArenaAssumption
<1>6. Empty = [players |-> none, shots |-> << >>, flags |-> flags, pickup |-> rest,
               phase |-> "active", left |-> MatchTime, winner |-> 0, events |-> << >>]
  BY DEF Empty
<1> HIDE DEF none, rest, flags
<1>7. /\ Empty \in World /\ Empty.players = none /\ Empty.shots = << >> /\ Empty.events = << >>
      /\ Empty.flags = flags /\ Empty.left = MatchTime /\ Empty.phase = "active" /\ Empty.pickup = rest
  BY <1>1, <1>2, <1>3, <1>4, <1>5, <1>6 DEF World
<1>8. Consistent(Empty) /\ Stocked(Empty) /\ DOMAIN Empty.players = {}
  BY <1>1, <1>3, <1>7 DEF Consistent, Stocked
<1> QED BY <1>7, <1>8 DEF none, flags

\* The world before the first Step.
LEMMA StartEffect ==
  ASSUME scenario \in Scenarios
  PROVE  /\ Start \in World /\ Consistent(Start) /\ Stocked(Start)
         /\ DOMAIN Start.players \subseteq scenario.present
         /\ Start.shots = << >> /\ Start.events = << >> /\ Start.left = MatchTime
         /\ Start.flags = [t \in Team |-> AtBase]
<1> DEFINE V == {u \in World :
                   /\ Consistent(u) /\ Stocked(u) /\ DOMAIN u.players \subseteq scenario.present
                   /\ u.shots = << >> /\ u.events = << >> /\ u.left = MatchTime
                   /\ u.flags = [t \in Team |-> AtBase]}
<1>1. Empty \in V
  BY EmptyIsWorld
<1>2. ASSUME NEW id \in Id, NEW u \in V, id \in scenario.present
      PROVE  Joined(u, id) \in V
  <2> DEFINE v == Joined(u, id)
  <2>1. /\ v \in World /\ DOMAIN v.players = DOMAIN u.players \union {id}
        /\ <<v.shots, v.pickup, v.flags, v.phase, v.left, v.winner, v.events>>
             = <<u.shots, u.pickup, u.flags, u.phase, u.left, u.winner, u.events>>
        /\ Consistent(v)
    BY <1>2, JoinedEffect
  <2> HIDE DEF v
  <2>2. v \in V
    BY <1>2, <2>1 DEF Stocked
  <2> QED BY <2>2 DEF v
<1>3. Start \in V
  <2> HIDE DEF V
  <2> QED BY <1>1, <1>2, StartFold
<1> QED BY <1>3

\* The invariant holds of it.
LEMMA InvariantInit == Init => Invariant
<1> SUFFICES ASSUME Init
             PROVE  Invariant
  OBVIOUS
<1>1. scenario \in Scenarios /\ world = Start /\ scenario.present \cap scenario.late = {}
  BY ScenarioAssumption DEF Init, Scenarios, Id, Team
<1>2. /\ world \in World /\ Consistent(world) /\ Stocked(world)
      /\ DOMAIN world.players \subseteq scenario.present
      /\ world.shots = << >> /\ world.left = MatchTime
      /\ world.flags = [t \in Team |-> AtBase]
  BY <1>1, StartEffect
<1>3. Len(world.shots) = 0 /\ MaxProjectiles \in Nat /\ MatchTime > 0
  BY <1>2, ArenaAssumption
<1>4. \A t \in Team : world.flags[t].status = "base" /\ world.flags[t].carrier = 0
  BY <1>2, AtBaseIsFlag
<1>5. 0 \notin Id /\ scenario.late \subseteq Id /\ DOMAIN world.players \subseteq Id
  <2>1. 0 \notin Id
    BY ArenaAssumption DEF Id
  <2>2. scenario.late \subseteq Id
    BY <1>1 DEF Scenarios
  <2>3. DOMAIN world.players \subseteq Id
    BY <1>2, PlayersOf
  <2> QED BY <2>1, <2>2, <2>3
<1>6. Typed(world) /\ Loyal(world)
  BY <1>2, <1>3 DEF Typed, Loyal
<1>7. Held(world)
  BY <1>4, <1>5 DEF Held
<1>8. Unknown(world)
  BY <1>1, <1>2, <1>3, <1>4, <1>5 DEF Unknown
<1> QED BY <1>1, <1>2, <1>3, <1>6, <1>7, <1>8 DEF Invariant

\* AddPlayer keeps the invariant: nothing in the world is of a player with the
\* new id.
LEMMA InvariantJoin ==
  ASSUME Invariant, NEW id \in Id, AddPlayer(id)
  PROVE  Invariant'
<1>0. PICK u : u = Joined(world, id)
  OBVIOUS
<1>1. /\ world \in World /\ Consistent(world) /\ Stocked(world) /\ Len(world.shots) <= MaxProjectiles
      /\ Loyal(world) /\ Held(world) /\ Unknown(world) /\ world.left > 0 /\ scenario \in Scenarios
      /\ id \in scenario.late /\ world' = u /\ scenario' = [scenario EXCEPT !.late = @ \ {id}]
  BY <1>0 DEF Invariant, Typed, AddPlayer
<1>2. /\ u \in World /\ DOMAIN u.players = DOMAIN world.players \union {id}
      /\ <<u.shots, u.pickup, u.flags, u.phase, u.left, u.winner, u.events>>
           = <<world.shots, world.pickup, world.flags, world.phase, world.left, world.winner, world.events>>
      /\ \A o \in DOMAIN world.players \ {id} : u.players[o] = world.players[o]
      /\ u.players[id].hp > 0 /\ ~u.players[id].dead /\ Consistent(u)
  BY <1>0, <1>1, JoinedEffect
<1>3. scenario' \in Scenarios /\ scenario'.mode = scenario.mode /\ scenario'.late = scenario.late \ {id}
  BY <1>1 DEF Scenarios
<1>4. Typed(u)
  BY <1>1, <1>2 DEF Typed, Stocked
<1>5. Loyal(u)
  BY <1>1, <1>2 DEF Loyal, Unknown
<1>6. \A t \in Team : world.flags[t].carrier # id
  BY <1>1 DEF Unknown
<1>7. Held(u)
  BY <1>1, <1>2, <1>6 DEF Held
<1>8. \A o \in scenario'.late :
        /\ o \notin DOMAIN u.players
        /\ \A k \in 1 .. Len(u.shots) : u.shots[k].owner # o
        /\ \A t \in Team : u.flags[t].carrier # o
  BY <1>1, <1>2, <1>3 DEF Unknown
<1>9. Held(world)'
  BY <1>1, <1>3, <1>7 DEF Held, Mode
<1>10. Unknown(world)'
  BY <1>1, <1>8 DEF Unknown
<1>11. Typed(world)' /\ Loyal(world)'
  BY <1>1, <1>4, <1>5 DEF Typed, Consistent, Stocked, Loyal
<1> QED BY <1>1, <1>2, <1>3, <1>9, <1>10, <1>11 DEF Invariant

\* RemovePlayer keeps the invariant: shots and flags of who has left speak of
\* nobody.
LEMMA InvariantLeave ==
  ASSUME Invariant, NEW id \in Id, RemovePlayer(id)
  PROVE  Invariant'
<1> DEFINE S == DOMAIN world.players \ {id}
           f == [o \in S |-> world.players[o]]
<1>1. /\ world \in World /\ Consistent(world) /\ Stocked(world) /\ Len(world.shots) <= MaxProjectiles
      /\ Loyal(world) /\ Held(world) /\ Unknown(world) /\ world.left > 0 /\ scenario \in Scenarios
      /\ scenario' = scenario
  BY DEF Invariant, Typed, RemovePlayer
<1>2. world' = [world EXCEPT !.players = f]
  BY DEF RemovePlayer, Restrict
<1>3. f \in Players /\ DOMAIN f = S /\ S \subseteq DOMAIN world.players
      /\ \A o \in S : f[o] = world.players[o]
  <2>1. f \in [S -> Player] /\ S \in SUBSET Id
    BY <1>1, PlayersOf
  <2> HIDE DEF f
  <2>2. f \in Players
    BY <2>1, PlayersIn
  <2> QED BY <2>1, <2>2 DEF f
<1> HIDE DEF f, S
<1>4. /\ world' \in World /\ world'.players = f
      /\ <<world'.shots, world'.pickup, world'.flags, world'.phase, world'.left>>
           = <<world.shots, world.pickup, world.flags, world.phase, world.left>>
  BY <1>1, <1>2, <1>3 DEF World
<1>5. Typed(world)'
  BY <1>1, <1>3, <1>4 DEF Typed, Consistent, Stocked
<1>6. Loyal(world)' /\ Unknown(world)'
  BY <1>1, <1>3, <1>4 DEF Loyal, Unknown
<1>7. Held(world)'
  BY <1>1, <1>3, <1>4 DEF Held, Mode
<1> QED BY <1>1, <1>4, <1>5, <1>6, <1>7 DEF Invariant

\* Every action keeps the invariant.
LEMMA InvariantNext == Invariant /\ [Next]_vars => Invariant'
<1> SUFFICES ASSUME Invariant, [Next]_vars
             PROVE  Invariant'
  OBVIOUS
<1>1. CASE Step
  BY <1>1, InvariantStep
<1>2. ASSUME NEW id \in Id, AddPlayer(id)
      PROVE  Invariant'
  BY <1>2, InvariantJoin
<1>3. ASSUME NEW id \in Id, RemovePlayer(id)
      PROVE  Invariant'
  BY <1>3, InvariantLeave
<1>4. CASE UNCHANGED vars
  BY <1>4 DEF vars, Invariant, Typed, Consistent, Stocked, Loyal, Held, Unknown, Mode
<1> QED BY <1>1, <1>2, <1>3, <1>4 DEF Next

\* The invariant: a typed world whose shots are of their owners' teams, whose
\* flags are held by living enemies while a match runs, in which nothing is of a
\* player who is still to join, and whose clock has not run out between Steps.
THEOREM InvariantHolds == Spec => []Invariant
<1> QED BY InvariantInit, InvariantNext, PTL DEF Spec

-----------------------------------------------------------------------------
(* What the invariant and the stages of a Step give. *)

\* Every player of a reachable world is one of the game: health, buffs and
\* timers within their bounds, the living with health and the dead with none or
\* all of it; and no more projectiles fly than the cap allows (internal/game).
THEOREM TypeIsCorrect == Spec => []TypeOK
<1>1. Invariant => TypeOK
  <2> SUFFICES ASSUME Invariant
               PROVE  TypeOK
    OBVIOUS
  <2>1. world \in World /\ Consistent(world) /\ Len(world.shots) <= MaxProjectiles
    BY DEF Invariant, Typed
  <2>2. DOMAIN world.players \subseteq Id /\ \A id \in DOMAIN world.players : world.players[id] \in Player
    BY <2>1, PlayersOf
  <2>3. \A k \in DOMAIN world.shots : world.shots[k].life \in 1 .. ProjectileLife
    <3>1. world.shots \in Seq(Shot)
      BY <2>1 DEF World
    <3>2. \A k \in DOMAIN world.shots : world.shots[k] \in Shot
      BY <3>1
    <3> QED BY <3>2 DEF Shot
  <2> QED BY <2>1, <2>2, <2>3 DEF TypeOK, Consistent
<1> QED BY <1>1, InvariantHolds, PTL

\* While a match runs, a carried flag is in the hands of a living enemy of its
\* team, or of somebody who has left since the last Step (stepCTF).
THEOREM FlagsStayHeld == Spec => []FlagsAreHeld
<1>1. Invariant => FlagsAreHeld
  BY DEF Invariant, Held, FlagsAreHeld
<1> QED BY <1>1, InvariantHolds, PTL

\* The events of a Step are those of its fights and captures, and who it
\* rewards is known before the flags are looked at.
LEMMA StepEvents ==
  ASSUME Invariant, NEW c, NEW m, NEW y, NEW z, Stages(c, m, y, z)
  PROVE  /\ \A e \in Range(world'.events) : e.kind = "hit" => HitBy(c, e)
         /\ Rewarded(y) = Rewarded(m)
         /\ \/ Happened("capture")' = {}
            \/ /\ \E e : Happened("capture")' = {e}
               /\ \A t \in Team : world'.flags[t].status = "base"
<1>1. /\ m \in World /\ y \in World /\ Fought(c, m) /\ Scored(m, y) /\ Later(y, z)
      /\ GoesOn(z, world') \/ Ends(z, world') \/ Begins(z, world')
  BY DEF Stages, Fought, Scored
<1>2. world'.events = y.events
  BY <1>1 DEF GoesOn, Ends, Begins, Later
<1>3. \A e \in Range(m.events) : e.kind # "capture" /\ (e.kind = "hit" => HitBy(c, e))
  BY <1>1 DEF Fought
<1>4. CASE Range(y.events) = Range(m.events)
  <2>1. Happened("capture")' = {}
    BY <1>2, <1>3, <1>4 DEF Happened
  <2> QED BY <1>2, <1>3, <1>4, <2>1 DEF Rewarded
<1>5. CASE /\ \E id \in Id : Range(y.events) = Range(m.events) \union {[kind |-> "capture", target |-> id]}
           /\ \A t \in Team : y.flags[t].status = "base"
  <2>1. PICK id \in Id : Range(y.events) = Range(m.events) \union {[kind |-> "capture", target |-> id]}
    BY <1>5
  <2> DEFINE e == [kind |-> "capture", target |-> id]
  <2>2. e.kind = "capture"
    OBVIOUS
  <2>3. Range(y.events) = Range(m.events) \union {e}
    BY <2>1
  <2> HIDE DEF e
  <2>4. Happened("capture")' = {e}
    BY <1>2, <1>3, <2>2, <2>3 DEF Happened
  <2>5. \A t \in Team : world'.flags[t].status = "base"
    <3>1. \A t \in Team : z.flags[t].status = "base"
      BY <1>1, <1>5 DEF Later
    <3> QED BY <1>1, <3>1, AtBaseIsFlag DEF GoesOn, Ends, Begins
  <2>6. Rewarded(y) = Rewarded(m)
    BY <2>2, <2>3 DEF Rewarded
  <2>7. \A o \in Range(world'.events) : o.kind = "hit" => HitBy(c, o)
    BY <1>2, <1>3, <2>2, <2>3
  <2> QED BY <2>4, <2>5, <2>6, <2>7
<1> QED BY <1>1, <1>4, <1>5 DEF Scored

\* The captures of the last Step: one at most, and then both flags are home.
CapturedOnce ==
    \/ Happened("capture") = {}
    \/ /\ \E e : Happened("capture") = {e}
       /\ \A t \in Team : world.flags[t].status = "base"

\* One capture at most in a Step, and then both flags are at home: two carriers
\* who come home in the same tick do not both score (part 2 of stepCTF).
THEOREM CapturesAreSingle == Spec => []OneCapture
<1>1. Init => CapturedOnce
  <2> SUFFICES ASSUME Init
               PROVE  CapturedOnce
    OBVIOUS
  <2>1. world.events = << >>
    BY InvariantInit, StartEffect DEF Invariant, Init
  <2>2. Range(<< >>) = {}
    BY DEF Range
  <2> QED BY <2>1, <2>2 DEF CapturedOnce, Happened
<1>2. Invariant /\ CapturedOnce /\ [Next]_vars => CapturedOnce'
  <2> SUFFICES ASSUME Invariant, CapturedOnce, [Next]_vars
               PROVE  CapturedOnce'
    OBVIOUS
  <2>1. CASE Step
    <3>1. PICK c, m, y, z : Stages(c, m, y, z)
      BY <2>1, StepStages
    <3> QED BY <3>1, StepEvents DEF CapturedOnce
  <2>2. ASSUME world'.events = world.events, world'.flags = world.flags
        PROVE  CapturedOnce'
    BY <2>2 DEF CapturedOnce, Happened
  <2>3. ASSUME NEW id \in Id, AddPlayer(id)
        PROVE  world'.events = world.events /\ world'.flags = world.flags
    <3>1. world \in World /\ world' = Joined(world, id)
      BY <2>3 DEF Invariant, Typed, AddPlayer
    <3> QED BY <3>1, JoinedEffect
  <2>4. ASSUME NEW id \in Id, RemovePlayer(id)
        PROVE  world'.events = world.events /\ world'.flags = world.flags
    BY <2>4 DEF RemovePlayer, Invariant, Typed, World
  <2>5. CASE UNCHANGED vars
    BY <2>2, <2>5 DEF vars
  <2> QED BY <2>1, <2>2, <2>3, <2>4, <2>5 DEF Next
<1>3. CapturedOnce => OneCapture
  <2>1. Happened("capture") = {} => Cardinality(Happened("capture")) = 0
    BY FS_EmptySet
  <2>2. ASSUME NEW e, Happened("capture") = {e}
        PROVE  Cardinality(Happened("capture")) = 1
    BY <2>2, FS_Singleton
  <2> QED BY <2>1, <2>2 DEF CapturedOnce, OneCapture
<1> QED BY <1>1, <1>2, <1>3, InvariantHolds, PTL DEF Spec

\* Outside a Step nobody is hurt, paid or revived: players come and go.
LEMMA ComeAndGo ==
  ASSUME Invariant, NEW id \in Id, AddPlayer(id) \/ RemovePlayer(id)
  PROVE  /\ ~Stepped
         /\ \A o \in DOMAIN world.players : o \in DOMAIN world'.players => world'.players[o] = world.players[o]
         /\ world'.phase = world.phase /\ world'.events = world.events
         /\ world'.shots = world.shots /\ world'.left = world.left
         /\ exposed \subseteq exposed'
         /\ \A o \in DOMAIN world'.players : o \in DOMAIN world.players \/ o \in exposed'
<1>1. world \in World /\ Unknown(world)
  BY DEF Invariant, Typed
<1>2. CASE AddPlayer(id)
  <2> DEFINE u == Joined(world, id)
  <2>1. /\ DOMAIN u.players = DOMAIN world.players \union {id}
        /\ <<u.shots, u.pickup, u.flags, u.phase, u.left, u.winner, u.events>>
           = <<world.shots, world.pickup, world.flags, world.phase, world.left, world.winner, world.events>>
        /\ \A o \in DOMAIN world.players \ {id} : u.players[o] = world.players[o]
    BY <1>1, JoinedEffect
  <2>2. world' = u /\ id \notin DOMAIN world.players /\ exposed' = exposed \union {id}
    BY <1>2 DEF AddPlayer
  <2> HIDE DEF u
  <2> QED BY <2>1, <2>2 DEF Stepped
<1>3. CASE RemovePlayer(id)
  <2> DEFINE f == [o \in DOMAIN world.players \ {id} |-> world.players[o]]
  <2>1. world' = [world EXCEPT !.players = f] /\ id \in DOMAIN world.players /\ exposed' = exposed
    BY <1>3 DEF RemovePlayer, Restrict
  <2>2. DOMAIN f = DOMAIN world.players \ {id} /\ \A o \in DOMAIN f : f[o] = world.players[o]
    OBVIOUS
  <2> HIDE DEF f
  <2>3. /\ world'.players = f
        /\ <<world'.shots, world'.phase, world'.left, world'.events>>
             = <<world.shots, world.phase, world.left, world.events>>
    BY <1>1, <2>1 DEF World
  <2> QED BY <2>1, <2>2, <2>3 DEF Stepped
<1> QED BY <1>2, <1>3

\* Who is dead, and who is alive, from one Step to the next.
LEMMA StepLives ==
  ASSUME Invariant, NEW c, NEW m, NEW y, NEW z, Stages(c, m, y, z),
         NEW id \in DOMAIN world.players
  PROVE  /\ world'.players[id].dead = m.players[id].dead
         /\ c.players[id].dead = world.players[id].dead
         /\ c.players[id].respawn = world.players[id].respawn
         /\ c.players[id] \in Player /\ m.players[id] \in Player /\ z.players[id] \in Player
         /\ z.players[id].dead => world'.players[id].respawn = Less(m.players[id].respawn)
         /\ z.players[id].dead = m.players[id].dead
         /\ z.players[id].shield = Less(m.players[id].shield)
         /\ \/ ~Begins(z, world') /\ world'.players[id] = z.players[id]
            \/ Begins(z, world') /\ world'.players[id] = Fresh(z.players[id])
<1>1. /\ c \in World /\ m \in World /\ y \in World /\ z \in World
      /\ Commanded(Quiet(world), c) /\ Fought(c, m) /\ Scored(m, y) /\ Later(y, z)
      /\ GoesOn(z, world') \/ Ends(z, world') \/ Begins(z, world')
  BY DEF Stages, Fought, Scored, Later
<1>2. /\ DOMAIN c.players = DOMAIN world.players /\ DOMAIN m.players = DOMAIN world.players
      /\ DOMAIN y.players = DOMAIN world.players /\ DOMAIN z.players = DOMAIN world.players
  BY <1>1 DEF Commanded, Quiet, Fought, Scored, Later
<1>3. c.players[id].dead = world.players[id].dead /\ c.players[id].respawn = world.players[id].respawn
  BY <1>1 DEF Commanded, Quiet
<1>4. c.players[id] \in Player /\ m.players[id] \in Player /\ z.players[id] \in Player
  BY <1>1, <1>2, PlayersOf
<1>5. <<y.players[id].dead, y.players[id].respawn, y.players[id].shield>>
        = <<m.players[id].dead, m.players[id].respawn, m.players[id].shield>>
  BY <1>1, <1>2 DEF Scored
<1>6. <<z.players[id].dead, z.players[id].respawn, z.players[id].shield>>
        = <<y.players[id].dead, Less(y.players[id].respawn), Less(y.players[id].shield)>>
  BY <1>1, <1>2 DEF Later
<1>7. CASE ~Begins(z, world')
  <2>1. world'.players[id] = z.players[id]
    BY <1>1, <1>7 DEF GoesOn, Ends
  <2> QED BY <1>3, <1>4, <1>5, <1>6, <1>7, <2>1
<1>8. CASE Begins(z, world')
  <2>1. world'.players[id] = Fresh(z.players[id])
    BY <1>2, <1>8 DEF Begins
  <2>2. Fresh(z.players[id]).dead = z.players[id].dead
        /\ (z.players[id].dead => Fresh(z.players[id]).respawn = z.players[id].respawn)
    BY <1>4, FreshPlayer
  <2> QED BY <1>3, <1>4, <1>5, <1>6, <1>8, <2>1, <2>2
<1> QED BY <1>7, <1>8

\* Whoever is dead is a tick closer to his return after every Step, or returns
\* in it, also over the end and the beginning of a match (respawn, startMatch).
THEOREM TheDeadReturn == Spec => EveryoneReturns
<1> DEFINE Sooner == \A id \in DOMAIN world.players :
              Stepped /\ world.players[id].dead /\ world'.players[id].dead =>
                 world'.players[id].respawn < world.players[id].respawn
<1>1. Invariant /\ [Next]_vars => [Sooner]_world
  <2> SUFFICES ASSUME Invariant, Next
               PROVE  Sooner
    BY DEF vars
  <2>1. CASE Step
    <3>1. PICK c, m, y, z : Stages(c, m, y, z)
      BY <2>1, StepStages
    <3>2. Fought(c, m) /\ DOMAIN c.players = DOMAIN world.players
      BY <3>1 DEF Stages, Commanded, Quiet
    <3>3. ASSUME NEW id \in DOMAIN world.players, world.players[id].dead, world'.players[id].dead
          PROVE  world'.players[id].respawn < world.players[id].respawn
      <4>1. /\ m.players[id].dead /\ c.players[id].dead /\ z.players[id].dead
            /\ world'.players[id].respawn = Less(m.players[id].respawn)
            /\ m.players[id] \in Player /\ c.players[id].respawn = world.players[id].respawn
        BY <3>1, <3>3, StepLives
      <4>2. m.players[id].respawn = world.players[id].respawn /\ m.players[id].respawn # 0
        BY <3>2, <4>1 DEF Fought
      <4>3. m.players[id].respawn \in Nat
        BY <4>1, ArenaAssumption DEF Player
      <4>4. Less(m.players[id].respawn) = m.players[id].respawn - 1
        BY <4>2, <4>3, LessOfNumber
      <4> QED BY <4>1, <4>2, <4>3, <4>4
    <3> QED BY <3>3
  <2>2. ASSUME NEW id \in Id, AddPlayer(id) \/ RemovePlayer(id)
        PROVE  ~Stepped
    BY <2>2, ComeAndGo
  <2> QED BY <2>1, <2>2 DEF Next
<1> QED BY <1>1, InvariantHolds, PTL DEF Spec, EveryoneReturns

\* A hit hurts nobody who is shielded when the Step begins and does not give his
\* shield up in it, no teammate of the shooter and not the shooter (findHit,
\* explode, tryFire).
THEOREM HitsStayFair == Spec => HitsAreFair
<1> DEFINE Fair == Stepped => \A e \in Happened("hit")' :
          /\ e.attacker # e.target
          /\ world.players[e.target].shield > 0 => e.target \in fired'
          /\ Mode.team /\ e.attacker \in DOMAIN world.players =>
               world.players[e.attacker].team # world.players[e.target].team
<1>1. Invariant /\ [Next]_vars => [Fair]_world
  <2> SUFFICES ASSUME Invariant, Next
               PROVE  Fair
    BY DEF vars
  <2>1. CASE Step
    <3>1. PICK c, m, y, z : Stages(c, m, y, z)
      BY <2>1, StepStages
    <3>2. /\ Commanded(Quiet(world), c) /\ Loyal(world) /\ c \in World /\ world \in World
          /\ fired' = {c.shots[k].owner : k \in Len(world.shots) + 1 .. Len(c.shots)}
      BY <3>1 DEF Stages, Invariant, Typed
    <3>3. ASSUME NEW e \in Happened("hit")'
          PROVE  /\ e.attacker # e.target
                 /\ world.players[e.target].shield > 0 => e.target \in fired'
                 /\ Mode.team /\ e.attacker \in DOMAIN world.players =>
                      world.players[e.attacker].team # world.players[e.target].team
      <4>1. e \in Range(world'.events) /\ e.kind = "hit"
        BY <3>3 DEF Happened
      <4>2. HitBy(c, e)
        BY <3>1, <4>1, StepEvents
      <4>3. PICK j \in 1 .. Len(c.shots) :
              /\ c.shots[j].owner = e.attacker
              /\ e.attacker # e.target /\ e.target \in DOMAIN c.players
              /\ c.players[e.target].shield = 0
              /\ ~(Mode.team /\ c.players[e.target].team = c.shots[j].team)
        BY <4>2 DEF HitBy
      <4>4. /\ e.target \in DOMAIN world.players
            /\ c.players[e.target].team = world.players[e.target].team
            /\ \/ c.players[e.target].shield = world.players[e.target].shield
               \/ \E k \in Len(world.shots) + 1 .. Len(c.shots) : c.shots[k].owner = e.target
        BY <3>2, <4>3 DEF Commanded, Quiet
      <4>5. world.players[e.target].shield > 0 => e.target \in fired'
        BY <3>2, <4>3, <4>4
      <4>6. e.attacker \in DOMAIN world.players => c.shots[j].team = world.players[e.attacker].team
        <5>1. Len(c.shots) \in Nat /\ Len(world.shots) \in Nat
          BY <3>2 DEF World
        <5>2. CASE j \in 1 .. Len(world.shots)
          BY <3>2, <4>3, <5>2 DEF Commanded, Quiet, Loyal
        <5>3. CASE j \in Len(world.shots) + 1 .. Len(c.shots)
          BY <3>2, <4>3, <5>3 DEF Commanded, Quiet
        <5> QED BY <4>3, <5>1, <5>2, <5>3
      <4> QED BY <4>3, <4>4, <4>5, <4>6
    <3> QED BY <3>3
  <2>2. ASSUME NEW id \in Id, AddPlayer(id) \/ RemovePlayer(id)
        PROVE  ~Stepped
    BY <2>2, ComeAndGo
  <2> QED BY <2>1, <2>2 DEF Next
<1> QED BY <1>1, InvariantHolds, PTL DEF Spec, HitsAreFair

\* A set that somebody's sides lie in has no more members than it.
LEMMA AtMostTwo ==
  ASSUME NEW S, NEW a, NEW b, S \subseteq {a, b}
  PROVE  Cardinality(S) <= 2
<1>1. IsFiniteSet({a, b}) /\ Cardinality({a, b}) <= 2
  <2>1. IsFiniteSet({a}) /\ Cardinality({a}) = 1
    BY FS_Singleton
  <2>2. {a, b} = {a} \union {b}
    OBVIOUS
  <2>3. IsFiniteSet({a} \union {b})
        /\ Cardinality({a} \union {b}) = IF b \in {a} THEN 1 ELSE 2
    <3>1. IsFiniteSet({a} \union {b})
          /\ (b \in {a} \/ Cardinality({a} \union {b}) = Cardinality({a}) + 1)
          /\ (b \in {a} => Cardinality({a} \union {b}) = Cardinality({a}))
      BY <2>1, FS_AddElement
    <3> QED BY <2>1, <3>1
  <2> QED BY <2>2, <2>3
<1> QED BY <1>1, FS_Subset, FS_CardinalityType

\* A set within a singleton.
LEMMA AtMostOne ==
  ASSUME NEW S, NEW a, S \subseteq {a}
  PROVE  Cardinality(S) <= 1
<1>1. S = {} \/ S = {a}
  OBVIOUS
<1>2. Cardinality({}) = 0 /\ Cardinality({a}) = 1
  BY FS_EmptySet, FS_Singleton
<1> QED BY <1>1, <1>2

\* A Step pays the hill to one side, each zone of domination to one side, and
\* nobody outside an active match, whoever else joins or leaves (stepKOTH,
\* stepDomination).
THEOREM OneSideGetsPaid == Spec => OneSideIsPaid
<1> DEFINE Paying ==
       /\ Cardinality({Side(world, id) : id \in Paid("hill")}) <= 1
       /\ Cardinality({Side(world, id) : id \in Paid("dom")}) <= Cardinality(Zones)
       /\ world.phase # "active" => Paid("hill") \union Paid("dom") = {}
<1>0. Cardinality(Zones) = 2 /\ Cardinality({}) = 0
  <2>1. Cardinality({"zoneA"}) = 1 /\ IsFiniteSet({"zoneA"}) /\ Cardinality({}) = 0
    BY FS_Singleton, FS_EmptySet
  <2>2. "zoneB" \notin {"zoneA"} /\ Zones = {"zoneA"} \union {"zoneB"}
    BY DEF Zones
  <2>3. Cardinality({"zoneA"} \union {"zoneB"}) = Cardinality({"zoneA"}) + 1
    BY <2>1, <2>2, FS_AddElement
  <2> QED BY <2>1, <2>2, <2>3
<1>1. Invariant /\ [Next]_vars => [Paying]_world
  <2> SUFFICES ASSUME Invariant, Next
               PROVE  Paying
    BY DEF vars
  <2>1. CASE Step
    <3>1. PICK c, m, y, z : Stages(c, m, y, z)
      BY <2>1, StepStages
    <3>2. /\ m \in World /\ y \in World /\ z \in World /\ DOMAIN c.players = DOMAIN world.players
          /\ DOMAIN m.players = DOMAIN world.players /\ DOMAIN y.players = DOMAIN world.players
          /\ DOMAIN z.players = DOMAIN world.players
          /\ c.phase = world.phase
          /\ \A id \in DOMAIN world.players :
               /\ c.players[id].hill = world.players[id].hill /\ c.players[id].dom = world.players[id].dom
               /\ c.players[id].team = world.players[id].team
      <4>1. /\ m \in World /\ y \in World /\ z \in World /\ Commanded(Quiet(world), c)
            /\ Fought(c, m) /\ Scored(m, y) /\ c.phase = world.phase
            /\ DOMAIN c.players = DOMAIN world.players /\ DOMAIN z.players = DOMAIN world.players
        BY <3>1, StagesAre
      <4>2. DOMAIN m.players = DOMAIN c.players /\ DOMAIN y.players = DOMAIN m.players
        BY <4>1 DEF Fought, Scored
      <4>3. Quiet(world).players = world.players
        BY DEF Quiet, Invariant, Typed, World
      <4>4. \A id \in DOMAIN world.players :
               /\ c.players[id].hill = world.players[id].hill /\ c.players[id].dom = world.players[id].dom
               /\ c.players[id].team = world.players[id].team
        BY <4>1, <4>3 DEF Commanded
      <4> QED BY <4>1, <4>2, <4>4
    <3>3. \A id \in DOMAIN world.players :
             z.players[id].hill = m.players[id].hill /\ z.players[id].dom = m.players[id].dom
      <4>1. \A id \in DOMAIN m.players :
               y.players[id].hill = m.players[id].hill /\ y.players[id].dom = m.players[id].dom
        BY <3>1 DEF Stages, Scored
      <4>2. \A id \in DOMAIN y.players :
               z.players[id].hill = y.players[id].hill /\ z.players[id].dom = y.players[id].dom
        BY <3>1 DEF Stages, Later
      <4> QED BY <3>2, <4>1, <4>2
    <3>4. ASSUME NEW id \in DOMAIN world.players
          PROVE  /\ id \in Paid("hill") => m.players[id].hill # c.players[id].hill
                 /\ id \in Paid("dom") => m.players[id].dom # c.players[id].dom
      <4>1. /\ z.players[id] \in Player
            /\ world'.players[id] = z.players[id] \/ world'.players[id] = Fresh(z.players[id])
        BY <3>1, StepLives
      <4>2. Fresh(z.players[id]).hill = 0 /\ Fresh(z.players[id]).dom = 0
        BY <4>1, FreshPlayer
      <4>3. world.players[id] \in Player
        BY PlayersOf DEF Invariant, Typed
      <4>4. world.players[id].hill \in Nat /\ world.players[id].dom \in Nat
        BY <4>3 DEF Player
      <4> QED BY <3>2, <3>3, <4>1, <4>2, <4>4 DEF Paid
    <3>5. PICK s : \A id \in DOMAIN c.players :
             m.players[id].hill # c.players[id].hill => c.phase = "active" /\ Side(c, id) = s
      BY <3>1 DEF Stages, PaysOneSide
    <3>6. PICK a, b : \A id \in DOMAIN c.players :
             m.players[id].dom # c.players[id].dom => c.phase = "active" /\ Side(c, id) \in {a, b}
      BY <3>1 DEF Stages, PaysOneSide
    <3>7. \A id \in DOMAIN world.players : Side(c, id) = Side(world, id)
      BY <3>2 DEF Side
    <3>8. Paid("hill") \subseteq DOMAIN world.players /\ Paid("dom") \subseteq DOMAIN world.players
      BY DEF Paid
    <3>9. {Side(world, id) : id \in Paid("hill")} \subseteq {s}
      BY <3>2, <3>4, <3>5, <3>7, <3>8
    <3>10. {Side(world, id) : id \in Paid("dom")} \subseteq {a, b}
      BY <3>2, <3>4, <3>6, <3>7, <3>8
    <3>11. world.phase # "active" => Paid("hill") \union Paid("dom") = {}
      BY <3>2, <3>4, <3>5, <3>6, <3>8
    <3> QED BY <1>0, <3>9, <3>10, <3>11, AtMostOne, AtMostTwo
  <2>2. ASSUME NEW id \in Id, AddPlayer(id) \/ RemovePlayer(id)
        PROVE  Paying
    <3>1. Paid("hill") = {} /\ Paid("dom") = {}
      <4>1. \A o \in DOMAIN world.players : o \in DOMAIN world'.players =>
               world'.players[o] = world.players[o]
        BY <2>2, ComeAndGo
      <4>2. \A o \in DOMAIN world.players : world.players[o] \in Player
        BY PlayersOf DEF Invariant, Typed
      <4>3. \A o \in DOMAIN world.players : world.players[o].hill \in Nat /\ world.players[o].dom \in Nat
        BY <4>2 DEF Player
      <4> QED BY <4>1, <4>3 DEF Paid
    <3>2. {Side(world, o) : o \in Paid("hill")} = {} /\ {Side(world, o) : o \in Paid("dom")} = {}
      BY <3>1
    <3> QED BY <1>0, <3>1, <3>2
  <2> QED BY <2>1, <2>2 DEF Next
<1> QED BY <1>1, InvariantHolds, PTL DEF Spec, OneSideIsPaid

-----------------------------------------------------------------------------
(* Who wins. *)

\* The score of a team depends on the players only.
ScoreOf(P, id) ==
    CASE Mode.hill -> P[id].hill [] Mode.dom -> P[id].dom [] Mode.ctf -> P[id].captures
      [] OTHER -> P[id].kills
SumOf(P, t) ==
    FoldLeft(LAMBDA sum, id : IF id \in {i \in DOMAIN P : P[i].team = t} THEN sum + ScoreOf(P, id) ELSE sum,
             0, Order)
\* Worlds with the same players have the same scores.
LEMMA TeamScoreOf ==
  ASSUME NEW w, NEW t
  PROVE  TeamScore(w, t) = SumOf(w.players, t)
BY DEF TeamScore, SumOf, InTeam, Score, ScoreOf

\* The score of a player is a number, in every mode.
LEMMA ScoreIsNumber ==
  ASSUME NEW w \in World, NEW id \in DOMAIN w.players
  PROVE  Score(w, id) \in Nat
<1>1. w.players[id] \in Player
  BY PlayersOf
<1> QED BY <1>1 DEF Score, Player

\* So is the score of a team.
LEMMA TeamScoreIsNumber ==
  ASSUME NEW w \in World, NEW t
  PROVE  TeamScore(w, t) \in Nat
<1>1. \A id \in InTeam(w, t) : \A sum \in Nat : sum + Score(w, id) \in Nat
  BY ScoreIsNumber DEF InTeam
<1>2. 0 \in Nat
  OBVIOUS
<1> DEFINE V == Nat
<1>3. 0 \in V /\ \A id \in InTeam(w, t) : \A sum \in V : sum + Score(w, id) \in V
  BY <1>1, <1>2
<1> HIDE DEF V
<1>4. TeamScore(w, t) \in V
  BY <1>3, TeamScoreFold
<1> QED BY <1>4 DEF V

\* A match is won by a side that no other side beats in what the mode counts,
\* and whoever MatchResult says has won is of that side (endMatch).
THEOREM TheBestWins == Spec => WinnerIsBest
<1> DEFINE Best ==
       world.phase = "active" /\ world'.phase = "intermission" =>
         LET w == world' IN
         IF Mode.team
           THEN \A t \in Team : TeamScore(w, t) <= TeamScore(w, w.winner)
           ELSE \A id \in DOMAIN w.players : \A o \in Won(w) : Score(w, id) <= Score(w, o)
<1>1. Invariant /\ [Next]_vars => [Best]_world
  <2> SUFFICES ASSUME Invariant, Next, world.phase = "active", world'.phase = "intermission"
               PROVE  LET w == world' IN
                      IF Mode.team
                        THEN \A t \in Team : TeamScore(w, t) <= TeamScore(w, w.winner)
                        ELSE \A id \in DOMAIN w.players : \A o \in Won(w) : Score(w, id) <= Score(w, o)
    BY DEF vars
  <2>1. Step
    <3>1. ASSUME NEW id \in Id, AddPlayer(id) \/ RemovePlayer(id)
          PROVE  world'.phase = world.phase
      BY <3>1, ComeAndGo
    <3> QED BY <3>1 DEF Next
  <2>2. PICK c, m, y, z : Stages(c, m, y, z)
    BY <2>1, StepStages
  <2>3. PICK w : w = world'
    OBVIOUS
  <2>4. z \in World /\ Ends(z, w) /\ w \in World
    <3>1. /\ z \in World /\ w \in World /\ z.phase = world.phase
          /\ GoesOn(z, w) \/ Ends(z, w) \/ Begins(z, w)
      BY <2>2, <2>3, StagesAre
    <3> QED BY <2>3, <3>1 DEF GoesOn, Begins
  <2>5. w.winner = Winner(z) /\ w.players = z.players
    BY <2>4 DEF Ends
  <2>6. CASE Mode.team
    <3>1. \A t \in Team : TeamScore(w, t) = TeamScore(z, t)
      BY <2>5, TeamScoreOf
    <3>2. TeamScore(z, 0) \in Nat /\ TeamScore(z, 1) \in Nat
      BY <2>4, TeamScoreIsNumber
    <3>3. w.winner = IF TeamScore(z, 1) > TeamScore(z, 0) THEN 1 ELSE 0
      BY <2>5, <2>6 DEF Winner
    <3>4. \A t \in Team : TeamScore(w, t) <= TeamScore(w, w.winner)
      BY <3>1, <3>2, <3>3 DEF Team
    <3> QED BY <2>3, <2>6, <3>4
  <2>7. CASE ~Mode.team
    <3> DEFINE best == {id \in DOMAIN z.players : \A o \in DOMAIN z.players : Score(z, o) <= Score(z, id)}
    <3>1. w.winner = IF best = {} THEN 0 ELSE Min(best)
      BY <2>5, <2>7 DEF Winner
    <3>2. best \in SUBSET Nat /\ best \subseteq DOMAIN z.players /\ 0 \notin DOMAIN z.players
      BY <2>4, PlayersOf, ArenaAssumption DEF Id
    <3>3. best # {} => Min(best) \in best
      <4> HIDE DEF best
      <4> QED BY <3>2, MinOfNumbers
    <3>4. ASSUME NEW o \in Won(w)
          PROVE  o \in best
      <4>1. o \in DOMAIN z.players /\ o = w.winner
        BY <2>5, <2>7, <3>4 DEF Won
      <4> HIDE DEF best
      <4> QED BY <3>1, <3>2, <3>3, <4>1
    <3>5. \A id \in DOMAIN z.players : Score(w, id) = Score(z, id)
      BY <2>5 DEF Score
    <3>6. \A id \in DOMAIN w.players : \A o \in Won(w) : Score(w, id) <= Score(w, o)
      BY <2>5, <3>4, <3>5
    <3> QED BY <2>3, <2>7, <3>6
  <2> QED BY <2>6, <2>7
<1> QED BY <1>1, InvariantHolds, PTL DEF Spec, WinnerIsBest

-----------------------------------------------------------------------------
(* The projectiles of the last match. *)

\* No projectile flies in the first state.
LEMMA SpentInit == Init => Spent
<1> SUFFICES ASSUME Init
             PROVE  Spent
  OBVIOUS
<1>1. world.shots = << >>
  BY InvariantInit, StartEffect DEF Init, Invariant
<1> QED BY <1>1 DEF Spent

\* A player who is alive after a Step and has not been exposed by then was so
\* before it, or has just respawned, and his shield outlasts what he has not met.
LEMMA StepShields ==
  ASSUME ShieldOutlastsShots, Invariant, NEW c, NEW m, NEW y, NEW z, Stages(c, m, y, z), ~Begins(z, world'),
         NEW id \in Living(world') \ exposed'
  PROVE  \/ id \in Living(world) \ exposed /\ world'.players[id].shield = Less(world.players[id].shield)
         \/ world'.players[id].shield = Less(SpawnShield)
<1>1. /\ id \in DOMAIN world.players /\ ~world'.players[id].dead /\ id \notin exposed'
      /\ DOMAIN c.players = DOMAIN world.players
  <2>1. DOMAIN world'.players = DOMAIN world.players
    BY StepShots
  <2>2. DOMAIN c.players = DOMAIN world.players
    BY DEF Stages, Commanded, Quiet
  <2> QED BY <2>1, <2>2 DEF Living
<1>2. /\ world'.players[id].dead = m.players[id].dead /\ c.players[id].dead = world.players[id].dead
      /\ world'.players[id].shield = Less(m.players[id].shield)
  BY <1>1, StepLives
<1>3. exposed' = exposed \union fired' \union Rewarded(m)
  <2>1. ~(world.phase = "intermission" /\ world'.phase = "active")
    <3>1. (GoesOn(z, world') \/ Ends(z, world')) /\ z.phase = world.phase
      BY StagesAre
    <3> QED BY <3>1 DEF GoesOn, Ends
  <2>2. Rewarded(y) = Rewarded(m)
    BY StepEvents
  <2> QED BY <2>1, <2>2 DEF Stages
<1>4. /\ c.players[id].dead /\ ~m.players[id].dead => m.players[id].shield = SpawnShield
      /\ \/ m.players[id].shield = c.players[id].shield
         \/ m.players[id].shield = SpawnShield
         \/ id \in Rewarded(m)
  BY <1>1 DEF Stages, Fought
<1>5. c.players[id].shield = world.players[id].shield
  <2>1. \/ c.players[id].shield = world.players[id].shield
        \/ \E k \in Len(world.shots) + 1 .. Len(c.shots) : c.shots[k].owner = id
    BY <1>1 DEF Stages, Commanded, Quiet
  <2>2. fired' = {c.shots[k].owner : k \in Len(world.shots) + 1 .. Len(c.shots)}
    BY DEF Stages
  <2> QED BY <1>1, <1>3, <2>1, <2>2
<1> QED BY <1>1, <1>2, <1>3, <1>4, <1>5 DEF Living

\* A Step keeps Spent: old projectiles and shields age together, a respawn gives
\* a shield that outlasts every projectile, and what flies when a match begins
\* flies among players who have just been shielded.
LEMMA SpentStep == ShieldOutlastsShots /\ Invariant /\ Spent /\ Step => Spent'
<1> SUFFICES ASSUME ShieldOutlastsShots, Invariant, Spent, Step
             PROVE  Spent'
  OBVIOUS
<1>1. PICK c, m, y, z : Stages(c, m, y, z)
  BY StepStages
<1>2. /\ c \in World /\ world \in World /\ world' \in World /\ world.left > 0
      /\ Commanded(Quiet(world), c) /\ c.left = world.left /\ c.phase = world.phase
      /\ z.left = Less(world.left) /\ z.phase = world.phase
      /\ GoesOn(z, world') \/ Ends(z, world') \/ Begins(z, world')
      /\ DOMAIN z.players = DOMAIN world.players
  <2>1. world.left > 0
    BY DEF Invariant, Typed, Consistent
  <2> QED BY <1>1, <2>1, StagesAre
<1>3. /\ world.left \in Nat /\ z.left = world.left - 1
      /\ ProjectileLife \in Nat /\ SpawnShield \in Nat /\ MatchTime \in Nat /\ Intermission \in Nat
      /\ ProjectileLife <= SpawnShield /\ ProjectileLife <= MatchTime + Intermission
      /\ ProjectileLife > 0
  <2>1. world.left \in Nat
    BY <1>2 DEF World
  <2>2. z.left = world.left - 1
    BY <1>2, <2>1, LessOfNumber
  <2> QED BY <2>1, <2>2, ArenaAssumption DEF ShieldOutlastsShots
<1>4. \A j \in 1 .. Len(c.shots) : c.shots[j].life \in 1 .. ProjectileLife
  <2>1. \A j \in 1 .. Len(c.shots) : c.shots[j] \in Shot
    BY <1>2 DEF World
  <2> QED BY <2>1 DEF Shot
<1>5. \A i \in 1 .. Len(world'.shots) : \E j \in 1 .. Len(c.shots) :
         /\ c.shots[j].life > 1 /\ world'.shots[i].life = c.shots[j].life - 1
         /\ Begins(z, world') \/ world'.shots[i].old = c.shots[j].old
  BY <1>1, StepShots
<1>6. ASSUME NEW i \in 1 .. Len(world'.shots), world'.shots[i].old
      PROVE  /\ world'.shots[i].life <
                  world'.left + (IF world'.phase = "active" THEN Intermission ELSE 0)
             /\ \A id \in Living(world') \ exposed' : world'.shots[i].life <= world'.players[id].shield
  <2>1. PICK j \in 1 .. Len(c.shots) :
           /\ c.shots[j].life > 1 /\ world'.shots[i].life = c.shots[j].life - 1
           /\ Begins(z, world') \/ world'.shots[i].old = c.shots[j].old
    BY <1>5
  <2> DEFINE life == c.shots[j].life
  <2>2. life \in 1 .. ProjectileLife /\ world'.shots[i].life = life - 1 /\ life > 1
    BY <1>4, <2>1
  <2>3. CASE Begins(z, world')
    <3>1. world'.left = MatchTime /\ world'.phase = "active"
      BY <2>3 DEF Begins
    <3>2. ASSUME NEW id \in Living(world')
          PROVE  world'.players[id].shield = SpawnShield
      <4>1. id \in DOMAIN world.players /\ z.players[id] \in Player
            /\ world'.players[id] = Fresh(z.players[id])
        BY <1>1, <1>2, <2>3, <3>2, StepLives DEF Living, Begins
      <4>2. ~Fresh(z.players[id]).dead
        BY <3>2, <4>1 DEF Living
      <4> QED BY <4>1, <4>2, FreshPlayer
    <3> HIDE DEF life
    <3> QED BY <1>3, <2>2, <3>1, <3>2
  <2>4. CASE ~Begins(z, world')
    <3>1. c.shots[j].old
      BY <1>6, <2>1, <2>4
    <3>2. j \in 1 .. Len(world.shots) /\ c.shots[j] = world.shots[j]
      <4>1. Len(c.shots) \in Nat /\ Len(world.shots) \in Nat
        BY <1>2 DEF World
      <4>2. j \in 1 .. Len(world.shots) \/ j \in Len(world.shots) + 1 .. Len(c.shots)
        BY <4>1
      <4> QED BY <1>2, <3>1, <4>2 DEF Commanded, Quiet
    <3>3. /\ life < world.left + (IF world.phase = "active" THEN Intermission ELSE 0)
          /\ \A id \in Living(world) \ exposed : life <= world.players[id].shield
      BY <3>1, <3>2 DEF Spent
    <3>4. world'.shots[i].life < world'.left + (IF world'.phase = "active" THEN Intermission ELSE 0)
      <4>1. CASE GoesOn(z, world')
        <5>1. world'.left = world.left - 1 /\ world'.phase = world.phase
          BY <1>2, <1>3, <4>1 DEF GoesOn
        <5> HIDE DEF life
        <5> QED BY <1>3, <2>2, <3>3, <5>1
      <4>2. CASE Ends(z, world')
        <5>1. world'.left = Intermission /\ world'.phase = "intermission" /\ world.left = 1
              /\ world.phase = "active"
          BY <1>2, <1>3, <4>2 DEF Ends
        <5> HIDE DEF life
        <5> QED BY <1>3, <2>2, <3>3, <5>1
      <4> QED BY <1>2, <2>4, <4>1, <4>2
    <3>5. ASSUME NEW id \in Living(world') \ exposed'
          PROVE  world'.shots[i].life <= world'.players[id].shield
      <4> HIDE DEF life
      <4>1. CASE world'.players[id].shield = Less(SpawnShield)
        <5>1. Less(SpawnShield) = SpawnShield - 1
          BY <1>3, LessOfNumber
        <5> QED BY <1>3, <2>2, <4>1, <5>1
      <4>2. CASE id \in Living(world) \ exposed /\ world'.players[id].shield = Less(world.players[id].shield)
        <5>1. world.players[id].shield \in Nat
          <6>1. world.players[id] \in Player
            BY <1>2, <4>2, PlayersOf DEF Living
          <6> QED BY <6>1 DEF Player
        <5>2. Less(world.players[id].shield) = IF world.players[id].shield > 0 THEN world.players[id].shield - 1 ELSE 0
          BY <5>1, LessOfNumber
        <5> QED BY <2>2, <3>3, <4>2, <5>1, <5>2
      <4> QED BY <1>1, <2>4, <3>5, <4>1, <4>2, StepShields
    <3> QED BY <3>4, <3>5
  <2> QED BY <2>3, <2>4
<1> QED BY <1>6 DEF Spent, Living

\* Every action keeps Spent: who joins is exposed.
LEMMA SpentNext == ShieldOutlastsShots /\ Invariant /\ Spent /\ [Next]_vars => Spent'
<1> SUFFICES ASSUME ShieldOutlastsShots, Invariant, Spent, [Next]_vars
             PROVE  Spent'
  OBVIOUS
<1>1. CASE Step
  BY <1>1, SpentStep
<1>2. ASSUME NEW id \in Id, AddPlayer(id) \/ RemovePlayer(id)
      PROVE  Spent'
  <2>1. /\ \A o \in DOMAIN world.players : o \in DOMAIN world'.players => world'.players[o] = world.players[o]
        /\ world'.phase = world.phase /\ world'.shots = world.shots /\ world'.left = world.left
        /\ exposed \subseteq exposed'
        /\ \A o \in DOMAIN world'.players : o \in DOMAIN world.players \/ o \in exposed'
    BY <1>2, ComeAndGo
  <2>2. \A o \in Living(world') \ exposed' :
           o \in Living(world) \ exposed /\ world'.players[o] = world.players[o]
    BY <2>1 DEF Living
  <2> QED BY <2>1, <2>2 DEF Spent, Living
<1>3. CASE UNCHANGED vars
  BY <1>3 DEF vars, Spent, Living
<1> QED BY <1>1, <1>2, <1>3 DEF Next

\* A hit by a projectile of an earlier match finds its target exposed: the
\* target has joined or fired or earned a streak since this match began.
LEMMA OldShotsStep ==
  Invariant /\ Spent /\ Step => NoShotFromLastMatch'
<1> SUFFICES ASSUME Invariant, Spent, Step, NEW e \in Range(world'.events), e.kind = "hit", e.old
             PROVE  e.target \in exposed'
  BY DEF NoShotFromLastMatch, Happened
<1>1. PICK c, m, y, z : Stages(c, m, y, z)
  BY StepStages
<1>2. PICK j \in 1 .. Len(c.shots) :
         /\ c.shots[j].old
         /\ e.target \in DOMAIN c.players /\ ~c.players[e.target].dead /\ c.players[e.target].shield = 0
  BY <1>1, StepEvents DEF HitBy
<1>3. c \in World /\ world \in World /\ Commanded(Quiet(world), c) /\ world.left > 0
      /\ fired' = {c.shots[k].owner : k \in Len(world.shots) + 1 .. Len(c.shots)}
  BY <1>1 DEF Stages, Invariant, Typed
<1>4. Len(c.shots) \in Nat /\ Len(world.shots) \in Nat /\ world.left \in Nat
  BY <1>3 DEF World
<1>5. j \in 1 .. Len(world.shots) /\ world.shots[j].old
  <2>1. j \in 1 .. Len(world.shots) \/ j \in Len(world.shots) + 1 .. Len(c.shots)
    BY <1>4
  <2> QED BY <1>2, <1>3, <2>1 DEF Commanded, Quiet
<1>6. world.shots[j].life \in Nat /\ world.shots[j].life > 0
  <2>1. world.shots[j] \in Shot
    <3>1. world.shots \in Seq(Shot)
      BY <1>3 DEF World
    <3> QED BY <1>5, <3>1
  <2>2. world.shots[j].life \in 1 .. ProjectileLife /\ ProjectileLife \in Nat
    BY <2>1, ArenaAssumption DEF Shot
  <2> QED BY <2>2
<1>7. ~(world.phase = "intermission" /\ world'.phase = "active")
  <2> SUFFICES ASSUME world.phase = "intermission", world'.phase = "active"
               PROVE  FALSE
    OBVIOUS
  <2>1. z.left = Less(world.left) /\ z.phase = world.phase
    BY <1>1, StagesAre
  <2>2. z.left = 0
    <3>1. GoesOn(z, world') \/ Ends(z, world') \/ Begins(z, world')
      BY <1>1 DEF Stages
    <3>2. CASE GoesOn(z, world')
      BY <2>1, <3>2 DEF GoesOn
    <3> QED BY <3>1, <3>2 DEF Ends, Begins
  <2>3. world.left = 1
    <3>1. Less(world.left) = world.left - 1
      BY <1>3, <1>4, LessOfNumber
    <3>2. world.left - 1 = 0
      BY <2>1, <2>2, <3>1
    <3> QED BY <1>4, <3>2
  <2>4. world.shots[j].life < world.left + 0
    <3>1. world.phase # "active"
      OBVIOUS
    <3> QED BY <1>5, <3>1 DEF Spent
  <2> QED BY <1>6, <2>3, <2>4
<1>8. exposed \union fired' \subseteq exposed'
  BY <1>1, <1>7 DEF Stages
<1>9. e.target \notin exposed => e.target \in fired'
  <2> SUFFICES ASSUME e.target \notin exposed
               PROVE  e.target \in fired'
    OBVIOUS
  <2>1. e.target \in DOMAIN world.players /\ ~world.players[e.target].dead
        /\ \/ c.players[e.target].shield = world.players[e.target].shield
           \/ \E k \in Len(world.shots) + 1 .. Len(c.shots) : c.shots[k].owner = e.target
    BY <1>2, <1>3 DEF Commanded, Quiet
  <2>2. world.shots[j].life <= world.players[e.target].shield
    BY <1>5, <2>1 DEF Spent, Living
  <2>3. c.players[e.target].shield # world.players[e.target].shield
    BY <1>2, <1>6, <2>2
  <2> QED BY <1>3, <2>1, <2>3
<1> QED BY <1>8, <1>9

\* A projectile fired before the match began never hurts a player of it, unless
\* he has fired since, joined, or completed a streak, as long as the shield of
\* a respawn lasts for the life of a projectile: in the code both are 60 ticks
\* (startMatch, respawn, projectileLifeTicks, spawnShieldTicks).
THEOREM OldShotsAreHarmless == ShieldOutlastsShots => (Spec => []NoShotFromLastMatch)
<1> SUFFICES ASSUME ShieldOutlastsShots
             PROVE  Spec => []NoShotFromLastMatch
  OBVIOUS
<1>1. Init => NoShotFromLastMatch
  <2> SUFFICES ASSUME Init
               PROVE  NoShotFromLastMatch
    OBVIOUS
  <2>1. world.events = << >>
    BY InvariantInit, StartEffect DEF Init, Invariant
  <2>2. Range(<< >>) = {}
    BY DEF Range
  <2> QED BY <2>1, <2>2 DEF NoShotFromLastMatch, Happened
<1>2. Invariant /\ Spent /\ NoShotFromLastMatch /\ [Next]_vars => NoShotFromLastMatch'
  <2> SUFFICES ASSUME Invariant, Spent, NoShotFromLastMatch, [Next]_vars
               PROVE  NoShotFromLastMatch'
    OBVIOUS
  <2>1. ASSUME NEW id \in Id, AddPlayer(id) \/ RemovePlayer(id)
        PROVE  NoShotFromLastMatch'
    BY <2>1, ComeAndGo DEF NoShotFromLastMatch, Happened
  <2>2. CASE UNCHANGED vars
    BY <2>2 DEF vars, NoShotFromLastMatch, Happened
  <2> QED BY <2>1, <2>2, OldShotsStep DEF Next
<1>3. Invariant /\ Spent /\ [Next]_vars => Spent'
  BY SpentNext
<1> QED BY <1>1, <1>2, <1>3, SpentInit, InvariantHolds, PTL DEF Spec
====
