----------------------------- MODULE Behaviors -----------------------------
(***************************************************************************)
(* What a charger's behaviors decide (controller/behavior).  A behavior is *)
(* a registered kind with its parameters; a charger has a list of them and *)
(* they intercept, in list order, every remote start and every tick of a   *)
(* session.                                                                *)
(*                                                                         *)
(* This module states the verdict of a whole list.  InterceptorLoop is the *)
(* loop of ApplyStartInterceptors and ApplyTickInterceptors, one           *)
(* interceptor at a time, and shows that it arrives at these verdicts.     *)
(*                                                                         *)
(* Durations are in clock steps.  A roll of the die and the rates compared *)
(* with it are whole numbers out of a common scale; a fault rate is for    *)
(* one clock step.  Lists hold what Build accepts: known kinds, parameters *)
(* in range, at most MaxBehaviorsPerCharger of them.                       *)
(***************************************************************************)
EXTENDS Naturals, Sequences

RejectStartSpec == [kind |-> "reject_start"]
StartFailsSpec(delay) == [kind |-> "start_fails", delay |-> delay]
StartTimeoutSpec(timeout) == [kind |-> "start_timeout", timeout |-> timeout]
FaultMidSessionSpec(after) == [kind |-> "fault_mid_session", after |-> after]
RealisticReliabilitySpec(startFailureRate, faultRate) ==
  [kind |-> "realistic_reliability", startFailureRate |-> startFailureRate,
   faultRate |-> faultRate]

\* The specs Build accepts.
BehaviorSpec ==
  {RejectStartSpec} \cup [kind: {"start_fails"}, delay: Nat]
    \cup [kind: {"start_timeout"}, timeout: Nat] \cup [kind: {"fault_mid_session"}, after: Nat]
    \cup [kind: {"realistic_reliability"}, startFailureRate: Nat, faultRate: Nat]

NoResult == ""  \* the empty ForcedResult

LastOf(positions) == CHOOSE i \in positions : \A j \in positions : j <= i

(***************************************************************************)
(* A remote start.                                                         *)
(***************************************************************************)

\* The start is refused on the spot.
Rejects(specs) == \E i \in DOMAIN specs : specs[i].kind = "reject_start"

\* The behavior fixes the result the start will have.
Forces(spec, roll) ==
  \/ spec.kind \in {"start_fails", "start_timeout"}
  \/ spec.kind = "realistic_reliability" /\ roll < spec.startFailureRate

ForcingPositions(specs, roll) == {i \in DOMAIN specs : Forces(specs[i], roll)}

ResultForcedBy(spec) == IF spec.kind = "start_timeout" THEN "TIMEOUT" ELSE "FAILED"

\* The last behavior that fixes a result has its way.
ForcedResult(specs, roll) ==
  IF ForcingPositions(specs, roll) = {} THEN NoResult
  ELSE ResultForcedBy(specs[LastOf(ForcingPositions(specs, roll))])

DelayingPositions(specs) ==
  {i \in DOMAIN specs : specs[i].kind \in {"start_fails", "start_timeout"}}

DelayOf(spec) == IF spec.kind = "start_timeout" THEN spec.timeout ELSE spec.delay

\* The last behavior that sets a delay has its way: not always the one that fixes the result.
ResultDelay(specs, commandLatency) ==
  IF DelayingPositions(specs) = {} THEN commandLatency
  ELSE DelayOf(specs[LastOf(DelayingPositions(specs))])

(***************************************************************************)
(* A tick of a session.                                                    *)
(***************************************************************************)

\* The behavior faults the charger at this tick.
FaultsAt(spec, chargingDuration, elapsed, roll) ==
  \/ spec.kind = "fault_mid_session" /\ chargingDuration >= spec.after
  \/ spec.kind = "realistic_reliability" /\ roll < spec.faultRate * elapsed

\* Any behavior's fault is the charger's fault.
TickFault(specs, chargingDuration, elapsed, roll) ==
  \E i \in DOMAIN specs : FaultsAt(specs[i], chargingDuration, elapsed, roll)
=============================================================================
