-------------------------- MODULE MCCommandExchange --------------------------
(* Instances of CommandExchange: two commands, of which the store keeps one. *)
EXTENDS CommandExchange
=============================================================================
