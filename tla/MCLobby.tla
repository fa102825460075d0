------------------------------ MODULE MCLobby ------------------------------
(* The lobby on small instances: the gate, the filler, and the shutdown    *)
(* with and without bots. *)
EXTENDS Lobby

CONSTANTS h1, h2, h3, h4, h5

MCHuman == {h1, h2, h3, h4, h5}

Case(humans, target, bots, drops, kills, stops) ==
    [humans |-> humans, target |-> target, bots |-> bots, drops |-> drops, kills |-> kills,
     stops |-> stops]
MCAddressOf == [h \in MCHuman |-> IF h \in {h3, h4} THEN "other" ELSE "home"]
Lone == Case({h1}, 3, 3, 0, 0, FALSE)
Yield == Case({h1, h2}, 2, 3, 1, 0, FALSE)
LoneStop == Case({h1}, 2, 2, 0, 0, TRUE)
SameAddress == Case({h1, h2, h5}, 0, 0, 0, 0, FALSE)
Gate == Case({h1, h2, h3, h4}, 0, 0, 0, 0, FALSE)
Stop == Case({h1, h2}, 0, 0, 0, 1, TRUE)
MCScenario == {Lone, Yield, LoneStop, SameAddress, Gate, Stop}
=============================================================================
