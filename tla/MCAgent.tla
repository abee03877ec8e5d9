------------------------------- MODULE MCAgent -------------------------------
(* Small instances of Agent for TLC. *)
EXTENDS Agent, TLC
CONSTANTS server, direct, op1, op2, game, tool

TwoHandlers == {server, direct}
OneHandler  == {server}
TwoIds      == {op1, op2}
OneId       == {op1}
TwoAliases  == {game, tool}
OneAlias    == {game}

\* Handlers differ in nothing but their name.
HandlerSymmetry == Permutations(TwoHandlers)
=============================================================================
