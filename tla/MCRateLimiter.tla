---------------------------- MODULE MCRateLimiter ----------------------------
(* Small instances of RateLimiter for TLC. *)
EXTENDS RateLimiter
CONSTANTS game, tool

TwoAliases == {game, tool}
=============================================================================
