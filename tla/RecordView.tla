------------------------------ MODULE RecordView ------------------------------
(***************************************************************************)
(* Sessions and CDRs from the session controller to the eMSP's store: what *)
(* the numbered pushes of EventPush say, and what the mock eMSP            *)
(* (app/mockemsp) makes of those it processes.                             *)
(*                                                                         *)
(* A handler publishes one event after another while the delivery          *)
(* goroutine goes on, so that the queue may have room for the one and not  *)
(* for the other: the calls that the handler in progress has still to make *)
(* are ledger.events.  The pushes of sites, chargers and command results   *)
(* go the same way (LocationView, CommandExchange) and are left out, and   *)
(* so is how a bill describes its charger and its site.                    *)
(***************************************************************************)
EXTENDS EventPush, SessionController

CONSTANTS MaxStoredSessions, MaxStoredCDRs  \* what the mock eMSP keeps

ASSUME StoreConfig == MaxStoredSessions \in Nat \ {0} /\ MaxStoredCDRs \in Nat \ {0}

VARIABLES
  log,   \* the events published so far, the body of each push
  store  \* the sessions and CDRs of the mock eMSP

recordVars == <<pushVars, vars, log, store>>

-----------------------------------------------------------------------------
(* Publishing. *)

\* Mapper.Session: the price and why the session ended are left out.
Mapped(session) ==
  [chargerID |-> session.chargerID, startedAt |-> session.startedAt,
   updatedAt |-> session.updatedAt, endedAt |-> session.endedAt, energy |-> session.energy,
   totalCost |-> session.totalCost, state |-> session.state]

\* Mapper.CDR
MappedCDR(cdr) ==
  [sessionID |-> cdr.sessionID, chargerID |-> cdr.chargerID, startedAt |-> cdr.startedAt,
   endedAt |-> cdr.endedAt, energy |-> cdr.energy, totalCost |-> cdr.totalCost]

\* PublishSessionEvent and PublishCDREvent: the push, with what it says.
Body(event) ==
  IF event.topic = "session"
  THEN [topic |-> "session", session |-> event.id, body |-> Mapped(event.session)]
  ELSE [topic |-> "cdr", session |-> event.cdr.sessionID, body |-> MappedCDR(event.cdr)]

HandlerIsDone == ledger.events = << >>

\* A handler of the session controller, which takes the controller's lock, or time passes.
Handle(action) ==
  /\ HandlerIsDone /\ published < PublishLimit
  /\ action
  /\ UNCHANGED <<pushVars, log, store>>

\* The handler makes the next call that it has to make.
PublishNext ==
  /\ ~HandlerIsDone
  /\ PublishEvent
  /\ log' = Append(log, Body(Head(ledger.events)))
  /\ ledger' = [ledger EXCEPT !.events = Tail(@)]
  /\ UNCHANGED <<now, store>>

-----------------------------------------------------------------------------
(* The store of the mock eMSP. *)

EmptyStore == [sessions |-> EmptyRepository, cdrs |-> << >>]

\* Mutant: a session that is known is not replaced.
PutNewSessionOnly(old, id, session) ==
  IF id \in DOMAIN old.sessions THEN old
  ELSE [old EXCEPT !.sessions = Upsert(@, id, session)]

\* store.putSession: of too many sessions those with the lowest IDs go.
PutSession(old, id, session) ==
  LET known == Upsert(old.sessions, id, session)
      kept  == {s \in DOMAIN known :
                  Cardinality({t \in DOMAIN known : t > s}) < MaxStoredSessions}
  IN  [old EXCEPT !.sessions = Restrict(known, kept)]

\* store.addCDR: a bill is added whether or not it is known.
AddCDR(old, cdr) ==
  LET cdrs == Append(old.cdrs, cdr)
  IN  [old EXCEPT !.cdrs = IF Len(cdrs) > MaxStoredCDRs THEN Tail(cdrs) ELSE cdrs]

\* The receiver endpoints putSession and postCDR, for a push that is processed.
Process(old, push) ==
  IF log[push].topic = "session" THEN PutSession(old, log[push].session, log[push].body)
  ELSE AddCDR(old, log[push].body)

\* What is processed is stored.
Stored ==
  store' = IF received' = received THEN store ELSE Process(store, received'[Len(received')].push)

-----------------------------------------------------------------------------
RecordInit == PushInit /\ Init /\ log = << >> /\ store = EmptyStore

Gateway(action) == action /\ Stored /\ UNCHANGED <<now, ledger, log>>

DeliveryStep == Gateway(TakeNext \/ Deliver \/ Fail \/ ProcessLate \/ StopCall \/ RunEnds)

HandlerStep == Handle(Next)

RecordNext == HandlerStep \/ PublishNext \/ DeliveryStep

RecordSpec == RecordInit /\ [][RecordNext]_recordVars

\* The goroutine runs; Send ends, at the latest by its timeout.
FairRecordSpec ==
  /\ RecordSpec
  /\ WF_recordVars(Gateway(TakeNext \/ RunEnds)) /\ WF_recordVars(Gateway(Deliver \/ Fail))

-----------------------------------------------------------------------------
NewsOf(s) == {p \in DOMAIN log : log[p].topic = "session" /\ log[p].session = s}

Answered(push) == \E i \in DOMAIN received : received[i] = [push |-> push, known |-> TRUE]
Underway(push) == \E i \in DOMAIN OnTheirWay : OnTheirWay[i] = push

\* Of a session that is not in the store although it was pushed, enough newer ones are known.
CrowdedOut(s) ==
  Cardinality({log[received[i].push].session : i \in DOMAIN received} \cap {t \in Nat : t > s})
    >= MaxStoredSessions

\* If every push about a session was answered and no other is coming, the eMSP has the session as it
\* is at the CPO, a completed one to the last unit, an active one up to the progress that is held
\* back (updateSession, run, putSession).
RecordIsNearlyTrue ==
  \A s \in DOMAIN ledger.sessions :
    HandlerIsDone /\ NewsOf(s) # {} /\ (\A p \in NewsOf(s) : Answered(p)) =>
      IF s \notin DOMAIN store.sessions THEN CrowdedOut(s)
      ELSE LET record  == store.sessions[s]
               session == ledger.sessions[s]
           IN  /\ record.state = session.state
               /\ record.state = CompletedState => record = Mapped(session)
               /\ session.updatedAt - record.updatedAt < SessionUpdateInterval

\* The eMSP is never sent two bills for a session, and it shows a session that it has a bill for as
\* completed, with the totals of that bill, unless a push about the session was dropped, failed
\* or late (StopSession publishes the session before the CDR; run).
BilledAsShown ==
  \A i \in DOMAIN store.cdrs :
    LET bill == store.cdrs[i]
        s    == bill.sessionID
    IN  /\ \A j \in DOMAIN store.cdrs : store.cdrs[j].sessionID = s => i = j
        /\ (\A p \in NewsOf(s) : Answered(p) \/ Underway(p)) =>
             IF s \notin DOMAIN store.sessions THEN CrowdedOut(s)
             ELSE /\ store.sessions[s].state = CompletedState
                  /\ store.sessions[s].energy = bill.energy
                  /\ store.sessions[s].totalCost = bill.totalCost
                  /\ store.sessions[s].endedAt = bill.endedAt
=============================================================================
