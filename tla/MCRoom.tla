------------------------------- MODULE MCRoom -------------------------------
(***************************************************************************)
(* Room.tla on small sets.  MCRoom.cfg: a player and a spectator, whose    *)
(* numbers are both 1, and up to five messages a tick (two events, three   *)
(* topics) for a queue of two.  MCRoomContention.cfg: two players for one  *)
(* place and two ids, given out again and again.  MCRoomLive.cfg: one      *)
(* player, an inbox of two and uneven rates, in CTF.  MCRoomFlags.cfg: a   *)
(* spectator comes to a CTF room.                                          *)
(***************************************************************************)
EXTENDS Room, TLC

CONSTANTS p1, p2, w1

OnePlayer == {p1}
TwoPlayers == {p1, p2}
OneWatcher == {w1}
NoClients == {}
NoEvents == {}
HitsAndDeaths == {"hit", "death"}
CapturesOnly == {"capture"}
NoMarks == {{}}
WeaponMarks == {{}, {"weapons"}}
Interchangeable == Permutations(TwoPlayers)
FlagMarks == {{}, {"flags"}}
=============================================================================
