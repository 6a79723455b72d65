--------------------------- MODULE InterceptorLoop ---------------------------
(***************************************************************************)
(* The loop of ApplyStartInterceptors and ApplyTickInterceptors: each      *)
(* behavior of the list in turn changes the attempt, and the tick, that    *)
(* the one before it left.  The two loops are run side by side over one    *)
(* list; a behavior that does not implement an interceptor leaves that     *)
(* side alone.                                                             *)
(*                                                                         *)
(* The list is any list, so that the module is for proofs and not for TLC: *)
(* CommandController_proofs.                                               *)
(***************************************************************************)
EXTENDS Behaviors

CONSTANTS
  RolledNumbers,  \* rolls of the die
  Latency,        \* the delay an attempt has before any behavior sees it
  ChargingDuration, Elapsed  \* of the tick

VARIABLES
  list,     \* the list
  rolled,   \* attempt.Roll and tick.Roll
  next,     \* position of the behavior whose turn it is
  attempt,  \* the StartAttempt
  fault     \* tick.Fault

loopVars == <<list, rolled, next, attempt, fault>>

LoopInit ==
  /\ list \in Seq(BehaviorSpec) /\ rolled \in RolledNumbers /\ next = 1
  /\ attempt = [reject |-> FALSE, forcedResult |-> NoResult, resultDelay |-> Latency]
  /\ fault = FALSE

Behavior == list[next]

\* realisticReliability intercepts both; it leaves the delay as it is.
InterceptRealistic ==
  /\ Behavior.kind = "realistic_reliability"
  /\ attempt' = IF rolled < Behavior.startFailureRate
                THEN [attempt EXCEPT !.forcedResult = "FAILED"] ELSE attempt
  /\ fault' = (fault \/ rolled < Behavior.faultRate * Elapsed)

InterceptFaultMidSession ==
  /\ Behavior.kind = "fault_mid_session"
  /\ fault' = (fault \/ ChargingDuration >= Behavior.after)
  /\ UNCHANGED attempt

InterceptReject ==
  /\ Behavior.kind = "reject_start"
  /\ attempt' = [attempt EXCEPT !.reject = TRUE]
  /\ UNCHANGED fault

InterceptFails ==
  /\ Behavior.kind = "start_fails"
  /\ attempt' = [attempt EXCEPT !.forcedResult = "FAILED", !.resultDelay = Behavior.delay]
  /\ UNCHANGED fault

InterceptTimeout ==
  /\ Behavior.kind = "start_timeout"
  /\ attempt' = [attempt EXCEPT !.forcedResult = "TIMEOUT", !.resultDelay = Behavior.timeout]
  /\ UNCHANGED fault

LoopNext ==
  /\ next <= Len(list)
  /\ next' = next + 1
  /\ \/ InterceptRealistic \/ InterceptFaultMidSession
     \/ InterceptReject \/ InterceptFails \/ InterceptTimeout
  /\ UNCHANGED <<list, rolled>>

LoopSpec == LoopInit /\ [][LoopNext]_loopVars

-----------------------------------------------------------------------------
Seen == SubSeq(list, 1, next - 1)

\* After each interceptor the attempt is the verdict of the behaviors seen so far: refusals
\* stick, and for the result and for the delay, each by itself, the last behavior to speak wins.
AttemptIsTheVerdict ==
  attempt = [reject |-> Rejects(Seen), forcedResult |-> ForcedResult(Seen, rolled),
             resultDelay |-> ResultDelay(Seen, Latency)]

\* After each interceptor the tick is faulted exactly if some behavior seen so far faults it.
FaultIsTheVerdict == fault <=> TickFault(Seen, ChargingDuration, Elapsed, rolled)
=============================================================================
