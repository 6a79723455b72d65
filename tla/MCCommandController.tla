----------------------- MODULE MCCommandController -----------------------
(***************************************************************************)
(* Instances of CommandController: commands of every kind, with and        *)
(* without the interference of behaviors, racing with the people at one    *)
(* charger.  Sessions never fill the battery of the one vehicle within     *)
(* the horizon: how sessions end by themselves is MCChargerController's.   *)
(***************************************************************************)
EXTENDS CommandController

MCEquipment == {[maxPower |-> 1, pricePerUnit |-> 7]}
MCVehicles == {[capacity |-> 100, maxPower |-> 4, level |-> 3]}
Reliable == {<< >>}
Mixed == {<<RealisticReliabilitySpec(1, 0)>>, <<StartTimeoutSpec(1), RejectStartSpec>>}
OneRoll == {1}
TwoRolls == {0, 1}
NoIDs == {}
=============================================================================
