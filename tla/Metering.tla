------------------------------ MODULE Metering ------------------------------
(***************************************************************************)
(* What a charger delivers to a vehicle (controller/charger: metering.go,  *)
(* and StateOfChargeAfter in charging.go).                                 *)
(*                                                                         *)
(* The code's floats are whole numbers of units here.  A battery holds     *)
(* "capacity" units and its state of charge is its level out of them; a    *)
(* power is a number of units for one clock step.  The tapered power is    *)
(* rounded down to a unit, but not to zero: the code's never is, a tenth   *)
(* of full power being its floor.                                          *)
(***************************************************************************)
EXTENDS Integers

Smaller(a, b) == IF a <= b THEN a ELSE b

Vehicle == [capacity: Nat \ {0}, maxPower: Nat \ {0}, level: Nat]

\* What validateVehicle accepts at plug-in: a battery that is not full.
PluggableVehicle(vehicle) == vehicle \in Vehicle /\ vehicle.level < vehicle.capacity

\* The battery level once energy has been delivered: StateOfChargeAfter.
LevelAfter(vehicle, energy) == Smaller(vehicle.capacity, vehicle.level + energy)

\* Above 80% the vehicle tapers.
Tapers(vehicle, level) == 10 * level > 8 * vehicle.capacity

\* From full power at 80%, in a line, to a tenth of it at 100%.
TaperedPower(power, vehicle, level) ==
  LET tapered == (power * (92 * vehicle.capacity - 90 * level)) \div (20 * vehicle.capacity)
  IN  IF tapered < 1 THEN 1 ELSE tapered

DeliveredPower(maxPower, vehicle, level) ==
  LET power == Smaller(maxPower, vehicle.maxPower)
  IN  IF Tapers(vehicle, level) THEN TaperedPower(power, vehicle, level) ELSE power

\* Mutant: a session that started during the tick is billed for the whole of it.
ChargingElapsedWholeTick(elapsed, chargingDuration) == elapsed

\* A session that started part-way through the tick has only been charging since it started.
ChargingElapsed(elapsed, chargingDuration) == Smaller(elapsed, chargingDuration)

\* Mutant: the last reading is not cut down to what the battery has room for.
ReadingOverfills(maxPower, vehicle, energy, elapsed, chargingDuration) ==
  LET level == LevelAfter(vehicle, energy)
      drawn == DeliveredPower(maxPower, vehicle, level)
                 * ChargingElapsed(elapsed, chargingDuration)
  IN  [energy |-> drawn, vehicleFull |-> drawn >= vehicle.capacity - level]

\* What the meter reads over elapsed for a session that has delivered energy so far: no more
\* than the battery has room for, and whether that fills it.
Reading(maxPower, vehicle, energy, elapsed, chargingDuration) ==
  LET level     == LevelAfter(vehicle, energy)
      drawn     == DeliveredPower(maxPower, vehicle, level)
                     * ChargingElapsed(elapsed, chargingDuration)
      remaining == vehicle.capacity - level
  IN  [energy |-> Smaller(drawn, remaining), vehicleFull |-> drawn >= remaining]
=============================================================================
