------------------------ MODULE MCChargerController ------------------------
(***************************************************************************)
(* Instances of ChargerController.  One kind of charger delivers 3 units a *)
(* step; a battery of 10 units tapers when it holds 9, and the vehicle     *)
(* comes with 3: metered step by step it tapers for the last unit, and     *)
(* three steps at once fill it.  Its charger faults in its fourth step,    *)
(* or earlier when a tick spans two steps and the die falls on 1.          *)
(***************************************************************************)
EXTENDS ChargerController

MCEquipment == {[maxPower |-> 3, pricePerUnit |-> 7]}
MCVehicle(level) == [capacity |-> 10, maxPower |-> 4, level |-> level]
MCVehicles == {MCVehicle(3)}
Reliable == {<< >>}
Unreliable == {<<FaultMidSessionSpec(4), RealisticReliabilitySpec(0, 1)>>}
MCRolls == {1, 3}
NoIDs == {}
OtherIDs == {-1}
ClashingIDs == {1}
=============================================================================
