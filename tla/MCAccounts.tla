----------------------------- MODULE MCAccounts -----------------------------
(* The account service on a small instance: two accounts, two handlers and *)
(* the persister.                                                          *)
EXTENDS Accounts, TLC

CONSTANTS ann, bob, r1, r2, persister, nobody

MCAccount == {ann, bob}
MCRequest == {r1, r2}

(* Players and their mail; sessions against bans; moderators among         *)
(* themselves.                                                             *)
Using(endpoints, known) == [endpoints |-> endpoints, known |-> known]
MCScenario ==
    {Using({"login", "refresh", "logout"}, {bob}),
     Using({"login", "refresh", "forgot", "reset"}, {bob}),
     Using({"register", "verify", "forgot", "reset"}, {ann}),
     Using({"login", "refresh", "ban", "unban"}, {ann, bob}),
     Using({"login", "refresh", "cheat"}, {bob}),
     Using({"login", "ban", "role"}, {ann, bob})}

(* Handlers are interchangeable, and no run of this module checks a        *)
(* temporal property.                                                      *)
Symmetry == Permutations(MCRequest)
=============================================================================
