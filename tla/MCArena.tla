------------------------------ MODULE MCArena ------------------------------
(* The rules of the game on small instances: one scenario for each mode.   *)
EXTENDS Arena, TLC


Weapon(pellets, damage, cooldown, splash) ==
    [pellets |-> pellets, damage |-> damage, cooldown |-> cooldown, splash |-> splash]
MCWeapons ==
    [pistol |-> Weapon(1, 1, 1, 0), shotgun |-> Weapon(2, 1, 2, 0),
     sniper |-> Weapon(1, 2, 2, 0), rocket |-> Weapon(1, 0, 2, 2)]

Rest == [select |-> "none", fire |-> FALSE]
Fire == [select |-> "none", fire |-> TRUE]
Shoot(weapon) == [select |-> weapon, fire |-> TRUE]
Modes(team, hill, dom, ctf) == [team |-> team, hill |-> hill, dom |-> dom, ctf |-> ctf]

Players(mode, present, late, leaving) ==
    [mode |-> mode, present |-> present, late |-> late, leaving |-> leaving]
Play(inputs, places, stops, kinds) ==
    [inputs |-> inputs, places |-> places, stops |-> stops, kinds |-> kinds]
Everywhere(places) == [t \in Team |-> places]

Duel ==
    Players(Modes(FALSE, FALSE, FALSE, FALSE), {1, 2}, {}, {2}) @@
    Play(<<{Rest, Fire, Shoot("rocket")}, {Rest, Shoot("shotgun")}, {Rest}>>,
         Everywhere({"field"}), {"no", "wall"}, {"medkit"})
Melee ==
    Players(Modes(FALSE, FALSE, FALSE, FALSE), {1, 2, 3}, {}, {}) @@
    Play(<<{Rest, Shoot("rocket")}, {Rest, Shoot("sniper")}, {Rest}>>,
         Everywhere({"field"}), {"no"}, {"medkit"})
Bonus ==
    Players(Modes(FALSE, FALSE, FALSE, FALSE), {1, 2}, {}, {}) @@
    Play(<<{Rest, Fire}, {Rest, Shoot("sniper")}, {Rest}>>,
         Everywhere({"field", "spot"}), {"wall"}, {"medkit", "rapid", "spread"})
Teams ==
    Players(Modes(TRUE, FALSE, FALSE, FALSE), {1, 2}, {3}, {1}) @@
    Play(<<{Rest, Shoot("rocket")}, {Rest}, {Rest}>>,
         Everywhere({"field"}), {"no", "wall"}, {"medkit"})
Flags ==
    Players(Modes(TRUE, FALSE, FALSE, TRUE), {1, 2}, {}, {1}) @@
    Play(<<{Rest, Shoot("sniper")}, {Rest, Shoot("sniper")}, {Rest}>>,
         0 :> {"base0", "ring0", "base1", "field"} @@ 1 :> {"base1", "ring1", "base0", "field"},
         {"wall"}, {"medkit"})
Kings ==
    Players(Modes(TRUE, TRUE, FALSE, FALSE), {1, 2, 3}, {}, {}) @@
    Play(<<{Rest}, {Rest, Fire}, {Rest}>>, Everywhere({"hill", "field"}), {"wall"}, {"medkit"})
Domains ==
    Players(Modes(FALSE, FALSE, TRUE, FALSE), {1, 2, 3}, {}, {}) @@
    Play(<<{Rest}, {Rest}, {Rest}>>, Everywhere({"zoneA", "zoneB", "field"}), {"wall"}, {"medkit"})

MCScenario == {Duel, Melee, Bonus, Teams, Flags, Kings, Domains}

\* The hypothesis under which NoShotFromLastMatch is proved holds here, as it
\* does for the constants of the code.
ASSUME MCShieldOutlastsShots == ShieldOutlastsShots
=============================================================================
