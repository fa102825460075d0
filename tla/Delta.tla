------------------------------- MODULE Delta -------------------------------
(***************************************************************************)
(* The delta coding of snapshots: diffEntities on the server's side and    *)
(* the reconstructor of the bot, which web/game.js mirrors, on the         *)
(* client's.                                                               *)
(*                                                                         *)
(* A view is the set of entities one client is shown, as a function from   *)
(* ids to entities: players and projectiles draw their ids from one space, *)
(* so no two entities of a view share one (though an id may pass from a    *)
(* player to a projectile between two views).  The server sorts a view by  *)
(* kind and id only to walk two of them at once.                           *)
(***************************************************************************)
EXTENDS Integers, FiniteSets, Functions

CONSTANTS
  Step,     \* units of the simulation in one unit of the wire
  MaxWire   \* the largest of the wire's signed integers (math.MaxInt16)

ASSUME WireAssumption == Step \in Nat \ {0} /\ MaxWire \in Nat

Fields == {"kind", "x", "y", "vx", "vy", "hp"}  \* the field mask of the wire
Entity == [Fields -> Int]
IsView(v) == v \in [DOMAIN v -> Entity]
Blank == [f \in Fields |-> 0]  \* the zero protocol.Entity

-----------------------------------------------------------------------------
(***************************************************************************)
(* What the wire does to a value: positions and velocities are rounded to  *)
(* its unit and clamped, kinds and health go as they are.                  *)
(***************************************************************************)
Clamp(v, low, high) == IF v < low THEN low ELSE IF v > high THEN high ELSE v
Round(v) == (v + Step \div 2) \div Step

Quantize(f, v) ==
  CASE f \in {"x", "y"} -> Clamp(Round(v), 0, 2 * MaxWire + 1)
    [] f \in {"vx", "vy"} -> Clamp(Round(v), -MaxWire - 1, MaxWire)
    [] OTHER -> v

Wire(e) == [f \in Fields |-> Quantize(f, e[f])]
WireView(view) == [i \in DOMAIN view |-> Wire(view[i])]

-----------------------------------------------------------------------------
(***************************************************************************)
(* diffEntities.  An entity is the same one if kind and id agree.          *)
(***************************************************************************)
Same(base, view, i) ==
  i \in DOMAIN base /\ i \in DOMAIN view /\ base[i]["kind"] = view[i]["kind"]

\* EntityFieldMask, on wire values: jitter below the unit of the wire is no
\* change.  A new entity goes with all of its fields.
Mask(base, view, i) ==
  IF Same(base, view, i)
  THEN {f \in Fields : Quantize(f, base[i][f]) # Quantize(f, view[i][f])}
  ELSE Fields

Removed(base, view) == {i \in DOMAIN base : ~Same(base, view, i)}

\* The entities a delta carries, each with the fields of its mask.
Changed(base, view) ==
  [i \in {j \in DOMAIN view : Mask(base, view, j) # {}} |->
     Restrict(Wire(view[i]), Mask(base, view, i))]

-----------------------------------------------------------------------------
(***************************************************************************)
(* reconstructor.apply.                                                    *)
(***************************************************************************)

\* The fields that came replace those of the entity the client has.
Merge(e, fields) == [f \in Fields |-> IF f \in DOMAIN fields THEN fields[f] ELSE e[f]]

\* (ClientMirrorsServer) what has left is taken away last.
BadPatch(base, entities, removed) ==
  [i \in (DOMAIN base \cup DOMAIN entities) \ removed |->
     IF i \notin DOMAIN entities THEN base[i]
     ELSE Merge(IF i \in DOMAIN base THEN base[i] ELSE Blank, entities[i])]

\* First what has left is taken away, then what came is merged in: an id may
\* be in both, when it passed from one kind to the other.
Patch(base, entities, removed) ==
  LET kept == DOMAIN base \ removed
  IN [i \in kept \cup DOMAIN entities |->
        IF i \notin DOMAIN entities THEN base[i]
        ELSE Merge(IF i \in kept THEN base[i] ELSE Blank, entities[i])]
=============================================================================
