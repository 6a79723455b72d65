----------------------------- MODULE MCEventPush -----------------------------
(***************************************************************************)
(* Instances of EventPush with what the pushes say (RecordView): a queue   *)
(* of two and more events than fit in it, two sessions and a store for one *)
(* of them.                                                                *)
(***************************************************************************)
EXTENDS RecordView

MCChargerIDs == {1}
MCPrices == {7}
MCEnergySteps == {1}
MCReasons == {"REMOTE"}
=============================================================================
