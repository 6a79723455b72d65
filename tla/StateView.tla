------------------------------ MODULE StateView ------------------------------
(***************************************************************************)
(* The operator API's view of the world (handler/api), which the web page  *)
(* and scripts poll, and the clock that the same API sets.                 *)
(*                                                                         *)
(* The handlers of the API take no lock of a controller: stateView reads   *)
(* one repository after another, and in between, and between two writes    *)
(* of one handler of a controller, anything may happen.  So here the       *)
(* repositories have a present state of their own: an action of            *)
(* ChargerController says what its handler does, and the repositories then *)
(* go through the states its writes leave them in, one by one, until the   *)
(* handler is done.                                                        *)
(*                                                                         *)
(* Simulated time is Clock's.  Commands, sites and trace are read between  *)
(* these reads and left out: nothing here is compared with them.           *)
(***************************************************************************)
EXTENDS ChargerController, Clock

CONSTANTS
  NoLevel,     \* no live_state_of_charge: nothing is plugged in
  BusyHorizon  \* bound: as soon as there has been a charger, the monotonic clock stops here

VARIABLES
  stores,  \* the states that the repositories go through: the present one, and those to come
  poll     \* the request being handled: what it reads next, and what it has read

viewVars == <<vars, clockVars, stores, poll>>

Store == stores[1]
HandlerIsDone == Len(stores) = 1

-----------------------------------------------------------------------------
(* The writes of a handler. *)

\* The last of some states of the repositories, and these states with one more write, unless it
\* changes nothing.
Latest(states) == states[Len(states)]
Then(states, store) == IF store = Latest(states) THEN states ELSE Append(states, store)

\* A session that is stored before it is completed: with what it has been given, still active.
MeteredBefore(session) ==
  [session EXCEPT !.state = ActiveState, !.endedAt = NotEnded, !.stopReason = NoReason]

\* Mutant: a session that ends is billed before it is stored as completed.
EndingBilledFirst(store, ended, bill) ==
  LET progressed == [store EXCEPT !.sessions = Upsert(@, ended.id, MeteredBefore(ended.session))]
      billed     == [progressed EXCEPT !.cdrs = Upsert(@, bill.id, bill.cdr)]
      completed  == [billed EXCEPT !.sessions = Upsert(@, ended.id, ended.session)]
  IN  Then(Then(Then(<<store>>, progressed), billed), completed)

\* A session that ends is metered first, then stored as completed, then billed; ended and bill are
\* what is published of it.
Ending(store, ended, bill) ==
  LET progressed == [store EXCEPT !.sessions = Upsert(@, ended.id, MeteredBefore(ended.session))]
      completed  == [progressed EXCEPT !.sessions = Upsert(@, ended.id, ended.session)]
      billed     == [completed EXCEPT !.cdrs = Upsert(@, bill.id, bill.cdr)]
  IN  Then(Then(Then(<<store>>, progressed), completed), billed)

\* The calls a handler made about a session that it ended: its completion, and after it its CDR.
EndsAt(said) ==
  {i \in DOMAIN said : said[i].topic = "session" /\ said[i].session.state = CompletedState}

\* The states of the repositories from store to those of the ledger l and the chargers cs, where a
\* handler leaves them: what ends a session, then the sessions, their CDRs (retention drops both,
\* in that order) and the charger, which is always written last.
WrittenInTurn(store, l, cs) ==
  LET ending   == IF EndsAt(l.events) = {} THEN <<store>>
                  ELSE LET i == CHOOSE i \in EndsAt(l.events) : TRUE
                       IN  Ending(store, l.events[i], l.events[i + 1])
      sessions == [Latest(ending) EXCEPT !.sessions = l.sessions]
      cdrs     == [sessions EXCEPT !.cdrs = l.cdrs]
  IN  Then(Then(Then(ending, sessions), cdrs), [cdrs EXCEPT !.chargers = cs])

-----------------------------------------------------------------------------
(* Reading: stateView. *)

\* Mutant: the clock is read first.
ClockFirst == <<"clock", "cdrs", "chargers", "sessions">>

\* What is read, in this order; after the chargers, the session of each.
ReadingOrder == <<"cdrs", "chargers", "sessions", "clock">>

After(what) ==
  LET i == CHOOSE i \in DOMAIN ReadingOrder : ReadingOrder[i] = what
  IN  IF i = Len(ReadingOrder) THEN "sent" ELSE ReadingOrder[i + 1]

\* The level of the vehicle at a charger as a store has it.
StoredLevel(store, charger) ==
  LevelAfter(charger.vehicle,
             IF charger.session \in DOMAIN store.sessions
             THEN store.sessions[charger.session].energy ELSE 0)

\* todo: the chargers whose session is still to be looked up; low: history, the level of each vehicle
\* when the chargers were listed.
NewPoll ==
  [at |-> Head(ReadingOrder), cdrs |-> EmptyRepository, chargers |-> EmptyRepository,
   todo |-> {}, levels |-> EmptyRepository, sessions |-> EmptyRepository, clock |-> 0,
   low |-> EmptyRepository]

Read(what, newPoll) ==
  /\ poll.at = what
  /\ poll' = newPoll
  /\ UNCHANGED <<vars, clockVars, stores>>

ReadCDRs == Read("cdrs", [poll EXCEPT !.cdrs = Store.cdrs, !.at = After("cdrs")])

\* chargerViews lists the chargers; the level of a vehicle that has no session is known.
ListChargers ==
  LET listed  == Store.chargers
      plugged == {id \in DOMAIN listed : listed[id].vehicle # NoVehicle}
      todo    == {id \in plugged : listed[id].session # NoSession}
  IN  Read("chargers",
        [poll EXCEPT !.chargers = listed, !.todo = todo,
           !.levels = [id \in DOMAIN listed \ todo |->
                         IF id \in plugged THEN StoredLevel(Store, listed[id]) ELSE NoLevel],
           !.low = [id \in plugged |-> StoredLevel(Store, listed[id])],
           !.at = IF todo = {} THEN After("chargers") ELSE "levels"])

\* The level is looked up, and chargerView goes on to the next charger.
Viewed(id, level) ==
  Read("levels",
    [poll EXCEPT !.todo = @ \ {id}, !.levels = Upsert(@, id, level),
                 !.at = IF poll.todo = {id} THEN After("chargers") ELSE @])

\* Mutant: the session that is looked up is the one the charger has by now.
ViewChargerAsItIs(id) ==
  /\ id \in poll.todo
  /\ LET session == IF id \in DOMAIN Store.chargers THEN Store.chargers[id].session ELSE NoSession
     IN  Viewed(id, StoredLevel(Store, [poll.chargers[id] EXCEPT !.session = session]))

\* chargerView: the level that the vehicle, as listed, has with what its session, as it is now, has
\* delivered; a session that is gone has delivered nothing.
ViewCharger(id) ==
  /\ id \in poll.todo
  /\ Viewed(id, StoredLevel(Store, poll.chargers[id]))

ListSessions ==
  Read("sessions", [poll EXCEPT !.sessions = Store.sessions, !.low = EmptyRepository,
                                !.at = After("sessions")])

ReadClock == Read("clock", [poll EXCEPT !.clock = SimulatedNow, !.at = After("clock")])

\* The answer is sent; another request may come.
PollAgain == Read("sent", NewPoll)

StateViewStep ==
  \/ ReadCDRs \/ ListChargers \/ ListSessions \/ ReadClock \/ PollAgain
  \/ \E id \in poll.todo : ViewCharger(id)

-----------------------------------------------------------------------------
(* What happens meanwhile. *)

\* A handler of the controllers begins: it takes charger.mu, and what it leaves is decided.
Handle(action) ==
  /\ HandlerIsDone
  /\ action
  /\ stores' = WrittenInTurn(Store, ledger', chargers')
  /\ UNCHANGED <<clockVars, poll>>

\* The requests of the API that change something: addCharger, removeCharger, updateBehaviors and
\* performAction, which find the charger before they call the controller, and answer with an error
\* if the controller refuses.
Request == Handle(Manage) \/ Handle(PersonActs)

\* What the eMSP's commands and the scheduled tick do.
Background == Handle(Remote) \/ Handle(TickLoop)

\* The handler's next write.
Write ==
  /\ ~HandlerIsDone
  /\ stores' = Tail(stores)
  /\ UNCHANGED <<vars, clockVars, poll>>

\* The clock moves, or updateClock sets its speed.  Sessions are metered by it, so it is assumed here
\* not to be taken back: nobody sets the machine's clock back before the first change of speed.
ClockStep ==
  /\ ClockNext /\ (OnWallClock => wall' >= wall)
  /\ lastChargerID # 0 => steady' <= BusyHorizon
  /\ now' = SimulatedNow'
  /\ ledger' = Fresh(ledger)
  /\ UNCHANGED <<chargers, lastChargerID, lastTickAt, tick, stores, poll>>

ViewInit ==
  /\ Init /\ ClockInit
  /\ stores = <<[sessions |-> ledger.sessions, cdrs |-> ledger.cdrs, chargers |-> chargers]>>
  /\ poll = NewPoll

\* Nothing happens to an answer any more: it is looked at as it is sent.
ViewNext ==
  \/ StateViewStep
  \/ poll.at # "sent" /\ (Request \/ Background \/ Write \/ ClockStep)

ViewSpec == ViewInit /\ [][ViewNext]_viewVars

-----------------------------------------------------------------------------
\* A session that is not in the answer although it belongs to it has been forgotten by retention.
Forgotten(s) == s \notin DOMAIN Store.sessions

\* What is in one answer fits together although it was never true together: a session that is
\* billed in it is completed in it, with that bill, and one that a charger has in it is that
\* charger's, and at least as far on as the charger's battery level says (stateView's order of
\* reading, StopSession's order of writing).
AnswerHangsTogether ==
  poll.at = "sent" =>
    /\ \A d \in DOMAIN poll.cdrs :
         LET s == poll.cdrs[d].sessionID
         IN  IF s \in DOMAIN poll.sessions
             THEN /\ poll.sessions[s].state = CompletedState
                  /\ poll.cdrs[d] = CDROf(s, poll.sessions[s])
             ELSE Forgotten(s)
    /\ \A id \in {i \in DOMAIN poll.chargers : poll.chargers[i].session # NoSession} :
         LET s == poll.chargers[id].session
         IN  IF s \in DOMAIN poll.sessions
             THEN /\ poll.sessions[s].chargerID = id
                  /\ poll.levels[id] <= StoredLevel(poll, poll.chargers[id])
             ELSE Forgotten(s)

\* The battery level in the answer is not below what it was when the chargers were listed, although
\* the session may have ended in between and its energy moved to the vehicle.  Only if retention
\* has forgotten the session in between is the level that of its start (chargerView).
LevelWasReal ==
  \A id \in DOMAIN poll.levels \cap DOMAIN poll.low :
    LET s == poll.chargers[id].session
    IN  s = NoSession \/ ~Forgotten(s) => poll.levels[id] >= poll.low[id]

\* Nothing in an answer is later than the clock in it, whatever speed the clock is set to meanwhile
\* (stateView reads the clock last; SetSpeed keeps the time there is).
NothingIsFromTheFuture ==
  poll.at = "sent" =>
    /\ \A s \in DOMAIN poll.sessions : poll.sessions[s].updatedAt <= poll.clock
    /\ \A d \in DOMAIN poll.cdrs : poll.cdrs[d].endedAt <= poll.clock
=============================================================================
