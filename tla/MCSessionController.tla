------------------------ MODULE MCSessionController ------------------------
(***************************************************************************)
(* The session controller, with an eMSP that pulls its sessions in pages   *)
(* of one.  Three sessions and room for the history of one: sessions       *)
(* complete in another order than they start, a completing session is      *)
(* itself the one that retention drops, and progress falls on both sides   *)
(* of the update interval.  The price rounds up.                           *)
(***************************************************************************)
EXTENDS PageWalk

MCChargerIDs == {1}
MCPrices == {7}
MCEnergySteps == {1}
MCReasons == {"REMOTE"}

\* What the last handler published is of no consequence: the next one starts with no publications.
MCView == <<now, Fresh(ledger), walk, missing, changed, slipped>>
=============================================================================
