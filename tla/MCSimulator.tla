----------------------------- MODULE MCSimulator -----------------------------
(* Instances of Simulator: start-up, two resets that overlap, and shutdown. *)
EXTENDS Simulator
=============================================================================
