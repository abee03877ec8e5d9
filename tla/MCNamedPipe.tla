---------------------------- MODULE MCNamedPipe ----------------------------
(* Two clients of the library and a foreign one; for the replies a single one. *)
EXTENDS NamedPipe

CONSTANTS agent, tool, stranger

TwoAndAStranger == {agent, tool, stranger}
TheStranger     == {stranger}
OneClient       == {agent}
NoStranger      == {}
=============================================================================
