---------------------------- MODULE MCDeltaSync ----------------------------
(***************************************************************************)
(* Worlds small enough to enumerate, and rich enough for each case of the  *)
(* diff: nothing changed, moved by less and by more than the wire's unit,  *)
(* hurt, gone, come, and an id that passed from a player to a projectile.  *)
(***************************************************************************)
EXTENDS DeltaSync

Player(x, hp) == [f \in Fields |-> CASE f = "x" -> x [] f = "hp" -> hp [] OTHER -> 0]
Projectile(x) == [f \in Fields |-> CASE f = "kind" -> 1 [] f \in {"x", "vx"} -> x [] OTHER -> 0]

Start == [i \in {1, 2, 3} |-> Player(0, 1)]

\* From Start: 1 moved, 2 was hurt, 4 came.
Moved == [i \in {1, 2, 3, 4} |-> CASE i = 1 -> Player(2, 1) [] i = 2 -> Player(0, 0)
                                     [] i = 3 -> Player(0, 1) [] i = 4 -> Projectile(2)]

\* From Start: 1 moved by less than the wire tells apart, 2 left and a
\* projectile has its id.
Reused == [i \in {1, 2, 3} |-> CASE i = 1 -> Player(1, 1) [] i = 2 -> Projectile(2)
                                  [] i = 3 -> Player(0, 1)]

SomeViews == {Start, Moved, Reused}

\* What BasesSuffice rests on (DeltaProofs!BasesAreKept) is true of the sizes and
\* the rates here and of the code's: baselineRingLen and reconKeep, with 20
\* snapshots in 30 ticks.
ASSUME SizesFit ==
  /\ TurnsOver(Ring, SnapshotRate, TickRate) /\ Keep >= 2 * Ring - 1
  /\ TurnsOver(16, 20, 30) /\ 32 >= 2 * 16 - 1
=============================================================================
