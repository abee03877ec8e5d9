------------------------------ MODULE MCFreeze ------------------------------
(* Small instances of FreezeManager for TLC. *)
EXTENDS FreezeManager
CONSTANTS a1, i1, i2, c1, c2, game, cheat

OneClient  == {c1}
TwoClients == {c1, c2}
TwoIds     == {i1, i2}
OneId      == {i1}
OneAddr    == {a1}
Game       == {game}
Cheat      == {cheat}
=============================================================================
