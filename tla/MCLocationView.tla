---------------------------- MODULE MCLocationView ----------------------------
(* Instances of LocationView: two chargers that come and go at two sites, a queue of one. *)
EXTENDS LocationView, TLC

Symmetry == Permutations(SiteIDs) \cup Permutations(ChargerIDs)
=============================================================================
