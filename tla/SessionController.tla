-------------------------- MODULE SessionController --------------------------
(***************************************************************************)
(* The session controller on its own: any caller, in any order, at any     *)
(* time.  The program is more restrained (ChargerController says how); the *)
(* properties below do not need it to be.                                  *)
(*                                                                         *)
(* A call that returns an error (a session that does not exist or is not   *)
(* active, getActiveSession) changes nothing and is a stuttering step.     *)
(***************************************************************************)
EXTENDS Sessions

CONSTANTS
  ChargerIDs, Prices, EnergySteps, Reasons,  \* what the callers pass
  Horizon,                          \* bound: the clock stops here
  SessionLimit,                     \* bound: how many sessions are started
  EnergyLimit                       \* bound: how much energy one session is given

ASSUME CallerInputs == /\ ChargerIDs \subseteq Int
                       /\ Prices \subseteq Nat
                       /\ EnergySteps \subseteq Nat
                       /\ Reasons \subseteq StopReasons

VARIABLES
  now,     \* clockGateway.Now()
  ledger   \* the controller's state

vars == <<now, ledger>>

Init == now = 0 /\ ledger = EmptyLedger

Start(chargerID, pricePerUnit) ==
  /\ ledger.lastSessionID < SessionLimit
  /\ ledger' = StartSession(Fresh(ledger), chargerID, pricePerUnit, now)
  /\ UNCHANGED now

\* Mutant: the session is not checked to be active.
RecordInAnyState(id, energyDelivered) ==
  /\ ledger.sessions[id].energy + energyDelivered <= EnergyLimit
  /\ ledger' = RecordSessionProgress(Fresh(ledger), id, energyDelivered, now)
  /\ UNCHANGED now

Record(id, energyDelivered) ==
  /\ id \in ActiveSessions(ledger)
  /\ ledger.sessions[id].energy + energyDelivered <= EnergyLimit
  /\ ledger' = RecordSessionProgress(Fresh(ledger), id, energyDelivered, now)
  /\ UNCHANGED now

Stop(id, reason) ==
  /\ id \in ActiveSessions(ledger)
  /\ ledger' = StopSession(Fresh(ledger), id, reason, now)
  /\ UNCHANGED now

TimePasses ==
  /\ now < Horizon
  /\ now' = now + 1
  /\ ledger' = Fresh(ledger)

Next ==
  \/ \E c \in ChargerIDs, p \in Prices : Start(c, p)
  \/ \E s \in DOMAIN ledger.sessions, e \in EnergySteps : Record(s, e)
  \/ \E s \in DOMAIN ledger.sessions, r \in Reasons : Stop(s, r)
  \/ TimePasses

Spec == Init /\ [][Next]_vars

-----------------------------------------------------------------------------
TypeOK == now \in Nat /\ IsLedger(ledger)

\* Every completed session has exactly one CDR, for the energy and the cost it ended with, and
\* there is no other CDR (StopSession, createCDR, forgetOldestCompleted).
CDRsAreTheBills == CDRsBillSessions(ledger)

\* The throttle map neither leaks the sessions that ended nor loses one that has not
\* (updateSession and the delete in StopSession).
ThrottleIsExact == ThrottleCoversActive(ledger)

\* Progress is held back, but never so long that a listener is an update interval behind what is
\* stored (RecordSessionProgress).
ListenersAreNearlyCurrent == ListenersKeepUp(ledger)

\* When a session stops being active, its last session event shows it completed, a CDR event
\* with the same bill follows it, and nothing else is said: also when retention drops the
\* session in the same call (StopSession).
CompletionIsAnnounced ==
  [][\A s \in ActiveSessions(ledger) \ ActiveSessions(ledger') :
       LET said == ledger'.events
       IN  /\ Len(said) = 2
           /\ said[1].topic = "session" /\ said[1].id = s
           /\ said[1].session.state = CompletedState
           /\ said[2].topic = "cdr" /\ said[2].cdr = CDROf(s, said[1].session)]_vars

\* A completed session and its bill are settled: nothing changes them while they are kept, and
\* what was dropped does not come back (getActiveSession, forgetOldestCompleted).
HistoryIsSettled ==
  [][/\ \A s \in CompletedSessions(ledger) \cap DOMAIN ledger'.sessions :
          ledger'.sessions[s] = ledger.sessions[s]
     /\ \A d \in 1..ledger.lastCDRID \cap DOMAIN ledger'.cdrs :
          d \in DOMAIN ledger.cdrs /\ ledger'.cdrs[d] = ledger.cdrs[d]]_vars

\* "The last 500 completed sessions (with their CDRs) ... are kept and older ones forgotten"
\* (docs/REFERENCE.md).  The code drops by session ID, the order in which sessions started.
LastCompletedAreKept == LastBillsAreKept(ledger)
=============================================================================
