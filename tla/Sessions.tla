------------------------------ MODULE Sessions ------------------------------
(***************************************************************************)
(* The session controller (controller/session): charging sessions, what    *)
(* they cost, the charge detail records (CDRs) they end in, how often      *)
(* listeners hear of them, and how much history is kept.                   *)
(*                                                                         *)
(* The controller's whole state is one record, the ledger, and each        *)
(* handler is an operator from a ledger to the ledger the handler leaves.  *)
(* The handlers run under session.mu and, in this program, only from the   *)
(* charger controller and under its lock; a charger operation calls        *)
(* several of them, and composes the operators.  SessionController checks  *)
(* the handlers alone, under any caller; ChargerController uses them as    *)
(* the program does.                                                       *)
(*                                                                         *)
(* IDs.  "SES-000001", "SES-000002", ... is the number 1, 2, ...: the ID's *)
(* text matters here only through its order, which is that of the numbers  *)
(* for the first million IDs.                                              *)
(* Energy is a number of units, a price a number of tenths of a cent for a *)
(* unit, a cost a number of cents, and time a number of ticks of the       *)
(* simulated clock.                                                        *)
(***************************************************************************)
EXTENDS Integers, FiniteSets, Sequences, Repository

CONSTANTS
  SessionUpdateInterval,  \* config.SessionUpdateInterval, in clock ticks
  MaxCompletedSessions    \* config.MaxCompletedSessions

\* What NewController refuses to start without.
ASSUME SessionConfig == /\ SessionUpdateInterval \in Nat \ {0}
                        /\ MaxCompletedSessions \in Nat \ {0}

ActiveState == "ACTIVE"
CompletedState == "COMPLETED"
NoReason == "NONE"
StopReasons == {"FAULT", "REMOTE", "STOP_BUTTON", "VEHICLE_FULL"}

NoSession == 0  \* the empty session ID
NotEnded == -1  \* the nil EndedAt of a session that has not ended

(***************************************************************************)
(* The ledger: the session and the CDR repository, the throttle map        *)
(* lastPublishedAtBySessionID, and the last number issued for each kind of *)
(* ID.  "events" is no state of the controller: it is the calls that the   *)
(* operation in progress has made to the events gateway, in order.         *)
(***************************************************************************)
EmptyLedger ==
  [sessions |-> EmptyRepository, cdrs |-> EmptyRepository,
   lastPublishedAt |-> EmptyRepository,
   lastSessionID |-> 0, lastCDRID |-> 0, events |-> << >>]

\* The ledger as the next operation finds it, no call made yet.
Fresh(l) == [l EXCEPT !.events = << >>]

Publish(l, event) == [l EXCEPT !.events = Append(@, event)]

SessionEvent(id, session) == [topic |-> "session", id |-> id, session |-> session]
CDREvent(id, cdr) == [topic |-> "cdr", id |-> id, cdr |-> cdr]

InState(l, state) == {s \in DOMAIN l.sessions : l.sessions[s].state = state}
ActiveSessions(l) == InState(l, ActiveState)
CompletedSessions(l) == InState(l, CompletedState)

(***************************************************************************)
(* Pricing.                                                                *)
(***************************************************************************)

\* An amount in tenths of a cent, to the nearest cent and a half away from zero.
RoundToCents(amount) == (amount + 5) \div 10

Cost(session) == RoundToCents(session.energy * session.pricePerUnit)

(***************************************************************************)
(* The handlers.                                                           *)
(***************************************************************************)

\* Store a session, publish it, and remember when.
UpdateSession(l, id, session) ==
  Publish([l EXCEPT !.sessions = Upsert(@, id, session),
                    !.lastPublishedAt = Upsert(@, id, session.updatedAt)],
          SessionEvent(id, session))

NewSession(chargerID, pricePerUnit, at) ==
  [chargerID |-> chargerID, pricePerUnit |-> pricePerUnit,
   startedAt |-> at, updatedAt |-> at, endedAt |-> NotEnded,
   energy |-> 0, totalCost |-> 0,
   state |-> ActiveState, stopReason |-> NoReason]

\* Mutant: the number of the ID is not counted up.
StartSessionReusesID(l, chargerID, pricePerUnit, at) ==
  UpdateSession(l, l.lastSessionID + 1, NewSession(chargerID, pricePerUnit, at))

\* Open a session on a charger at the charger's price.
StartSession(l, chargerID, pricePerUnit, at) ==
  UpdateSession([l EXCEPT !.lastSessionID = @ + 1], l.lastSessionID + 1,
                NewSession(chargerID, pricePerUnit, at))

\* Mutant: < has become <=, and the update that is due at the interval itself is held back.
HeldBackAtInterval(l, id, at) ==
  id \in DOMAIN l.lastPublishedAt /\ at - l.lastPublishedAt[id] <= SessionUpdateInterval

\* Listeners have heard of the session less than an interval ago.  An entry the map does not
\* have reads as the zero time, which is long ago.
ProgressIsHeldBack(l, id, at) ==
  id \in DOMAIN l.lastPublishedAt /\ at - l.lastPublishedAt[id] < SessionUpdateInterval

\* The session with its bill brought up to date.
WithCost(session) == [session EXCEPT !.totalCost = Cost(session)]

Progressed(session, energyDelivered, at) ==
  WithCost([session EXCEPT !.energy = @ + energyDelivered, !.updatedAt = at])

\* Bill more energy to an active session; tell listeners only when it is time.
RecordSessionProgress(l, id, energyDelivered, at) ==
  LET session == Progressed(l.sessions[id], energyDelivered, at)
  IN  IF ProgressIsHeldBack(l, id, at)
      THEN [l EXCEPT !.sessions = Upsert(@, id, session)]
      ELSE UpdateSession(l, id, session)

\* The CDR of a session that has ended.
CDROf(id, session) ==
  [sessionID |-> id, chargerID |-> session.chargerID, pricePerUnit |-> session.pricePerUnit,
   startedAt |-> session.startedAt, endedAt |-> session.endedAt,
   energy |-> session.energy, totalCost |-> session.totalCost]

\* Mutant: the CDR is stored but nobody is told.
CreateCDRUnpublished(l, id, session) ==
  [l EXCEPT !.lastCDRID = @ + 1, !.cdrs = Upsert(@, l.lastCDRID + 1, CDROf(id, session))]

CreateCDR(l, id, session) ==
  LET cdrID == l.lastCDRID + 1
      cdr   == CDROf(id, session)
  IN  Publish([l EXCEPT !.lastCDRID = cdrID, !.cdrs = Upsert(@, cdrID, cdr)],
              CDREvent(cdrID, cdr))

\* The completed sessions to drop: those that at least MaxCompletedSessions completed sessions
\* follow in ID order, that is, the first of the list down to the limit.
ExcessSessions(l) ==
  {s \in CompletedSessions(l) :
     Cardinality({t \in CompletedSessions(l) : t > s}) >= MaxCompletedSessions}

\* Mutant: the CDRs of the dropped sessions stay behind.
ForgetSessionsOnly(l) == [l EXCEPT !.sessions = DeleteAll(@, ExcessSessions(l))]

\* Drop the excess sessions, and the CDRs that bill them.
ForgetOldestCompleted(l) ==
  LET isForgotten(cdrID) == l.cdrs[cdrID].sessionID \in ExcessSessions(l)
  IN  [l EXCEPT !.sessions = DeleteAll(@, ExcessSessions(l)),
                !.cdrs = DeleteAll(@, {d \in DOMAIN @ : isForgotten(d)})]

Ended(session, reason, at) ==
  WithCost([session EXCEPT !.endedAt = at, !.state = CompletedState,
                           !.stopReason = reason, !.updatedAt = at])

\* Mutant: the throttle keeps the entry of a session that has ended.
StopSessionKeepsThrottle(l, id, reason, at) ==
  LET session == Ended(l.sessions[id], reason, at)
  IN  ForgetOldestCompleted(CreateCDR(UpdateSession(l, id, session), id, session))

\* Complete an active session: publish it, bill it, and drop what is now too old to keep.
StopSession(l, id, reason, at) ==
  LET session == Ended(l.sessions[id], reason, at)
      updated == UpdateSession(l, id, session)
      closed  == [updated EXCEPT !.lastPublishedAt = DeleteAll(@, {id})]
  IN  ForgetOldestCompleted(CreateCDR(closed, id, session))

(***************************************************************************)
(* What makes a ledger correct.                                            *)
(***************************************************************************)

SessionRecord ==
  [chargerID: Int, pricePerUnit: Nat, startedAt: Nat, updatedAt: Nat, endedAt: Int,
   energy: Nat, totalCost: Int, state: {ActiveState, CompletedState},
   stopReason: StopReasons \cup {NoReason}]

CDRRecord ==
  [sessionID: Nat, chargerID: Int, pricePerUnit: Nat, startedAt: Nat, endedAt: Int,
   energy: Nat, totalCost: Int]

IsLedger(l) ==
  /\ l = [sessions |-> l.sessions, cdrs |-> l.cdrs, lastPublishedAt |-> l.lastPublishedAt,
          lastSessionID |-> l.lastSessionID, lastCDRID |-> l.lastCDRID, events |-> l.events]
  /\ l.lastSessionID \in Nat /\ l.lastCDRID \in Nat
  /\ IsRepository(l.sessions, 1..l.lastSessionID, SessionRecord)
  /\ IsRepository(l.cdrs, 1..l.lastCDRID, CDRRecord)
  /\ IsRepository(l.lastPublishedAt, 1..l.lastSessionID, Nat)

\* The completed sessions and the CDRs correspond one to one, and a CDR is its session's bill.
CDRsBillSessions(l) ==
  /\ \A d \in DOMAIN l.cdrs :
       LET s == l.cdrs[d].sessionID
       IN  s \in CompletedSessions(l) /\ l.cdrs[d] = CDROf(s, l.sessions[s])
  /\ \A s \in CompletedSessions(l) : \E d \in DOMAIN l.cdrs : l.cdrs[d].sessionID = s
  /\ \A d, e \in DOMAIN l.cdrs : l.cdrs[d].sessionID = l.cdrs[e].sessionID => d = e

\* The throttle has an entry for each active session and no other.
ThrottleCoversActive(l) == DOMAIN l.lastPublishedAt = ActiveSessions(l)

\* What a listener last heard of an active session is less than an interval older than what is
\* stored of it.
ListenersKeepUp(l) ==
  \A s \in ActiveSessions(l) :
    l.sessions[s].updatedAt - l.lastPublishedAt[s] < SessionUpdateInterval

\* The bills of the last MaxCompletedSessions sessions to complete are still there.  CDR numbers
\* are given out as sessions complete.
LastBillsAreKept(l) ==
  \A d \in 1..l.lastCDRID : l.lastCDRID - d < MaxCompletedSessions => d \in DOMAIN l.cdrs
=============================================================================
