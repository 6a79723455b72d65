----------------------- MODULE ChargerController_proofs -----------------------
(***************************************************************************)
(* Chargers and sessions belong together, and every moment of a session is *)
(* metered once and into a battery that has room for it, whatever persons, *)
(* commands, ticks and the clock do and in whatever order, for every value *)
(* of the constants: provided only that no caller chooses a charger ID     *)
(* that is spelt like one the controller issues.                           *)
(*                                                                         *)
(* The inductive invariant IInv is the conjunction of the properties about *)
(* chargers and sessions with what they rest on: the ledger is right, the  *)
(* numbers of charger IDs are counted, and no session starts later than    *)
(* the moment it is metered at. MeterInv, which holds on top of it, adds   *)
(* that every battery has room for the energy of the session in progress,  *)
(* and that the tick in progress is the last that began.                   *)
(***************************************************************************)
EXTENDS ChargerController, Sessions_proofs

NoIDLooksIssued == ExplicitIDs \cap Nat = {}

\* What ChargerShape says of one charger.
Shape(charger) ==
  LET plugged == charger.vehicle # NoVehicle
  IN  /\ charger.state = "AVAILABLE" => ~plugged
      /\ charger.state \in {"PREPARING", "CHARGING", "FINISHING"} => plugged
      /\ charger.session # NoSession <=> charger.state = "CHARGING"
      /\ charger.state = "CHARGING" => charger.locked
      /\ charger.locked => plugged /\ charger.state \in {"CHARGING", "FAULTED"}

\* A charger's ID is one a caller chose or one that was issued.
IDsAreCounted == \A id \in DOMAIN chargers : id \in ExplicitIDs \/ id <= lastChargerID

\* The clock is not behind what was read from it, nor is a tick behind the start of a session it
\* meters.
TimesAreInOrder ==
  /\ lastTickAt <= now /\ tick.at <= now
  /\ \A s \in ActiveSessions(ledger) : ledger.sessions[s].startedAt <= now
  /\ \A id \in tick.todo : ledger.sessions[chargers[id].session].startedAt <= tick.at

IInv ==
  /\ TypeOK
  /\ LedgerIsRight(ledger)
  /\ ChargerShape
  /\ SessionsMatchChargers
  /\ TickListIsCurrent
  /\ IDsAreCounted
  /\ TimesAreInOrder

\* A session that is over does not become active again: what is active after a step was active
\* before it, or has a number that had not been given out.
SessionsGoOn ==
  /\ ledger.lastSessionID \in Nat /\ ledger.lastSessionID <= ledger'.lastSessionID
  /\ \A s \in ActiveSessions(ledger') :
       s \in ActiveSessions(ledger) \/ s > ledger.lastSessionID

\* ChargerShape, one charger at a time.
LEMMA ShapeIsChargerShape == ChargerShape <=> \A id \in DOMAIN chargers : Shape(chargers[id])
  BY DEF ChargerShape, Shape

\* Nothing is stored and nothing has happened when the program starts.
LEMMA InitIsRight == Init => IInv
<1> SUFFICES ASSUME Init PROVE IInv
  OBVIOUS
<1>1. LedgerIsRight(ledger) /\ ActiveSessions(ledger) = {}
  BY EmptyLedgerIsRight DEF Init, ActiveSessions, InState, EmptyRepository
<1>2. chargers = EmptyRepository /\ DOMAIN chargers = {}
  BY DEF Init, EmptyRepository
<1>3. TypeOK
  BY <1>1, <1>2 DEF Init, TypeOK, LedgerIsRight, IsRepository, EmptyRepository, NoTick
<1>4. QED
  BY <1>1, <1>2, <1>3 DEF Init, IInv, ChargerShape, SessionsMatchChargers, TickListIsCurrent,
                         IDsAreCounted, TimesAreInOrder, NoTick

(***************************************************************************)
(* The meter.                                                              *)
(***************************************************************************)

\* What a meter reads is a whole number of units that the battery has room for.
LEMMA ReadingType ==
  ASSUME NEW maxPower \in Nat \ {0}, NEW vehicle \in Vehicle, NEW energy \in Nat,
         NEW elapsed \in Nat, NEW duration \in Nat
  PROVE  Reading(maxPower, vehicle, energy, elapsed, duration).energy \in Nat
<1> DEFINE level == LevelAfter(vehicle, energy)
           power == Smaller(maxPower, vehicle.maxPower)
           time  == ChargingElapsed(elapsed, duration)
<1>1. vehicle.capacity \in Nat \ {0} /\ vehicle.maxPower \in Nat \ {0} /\ vehicle.level \in Nat
  BY DEF Vehicle
<1>2. level \in Nat /\ vehicle.capacity - level \in Nat
  BY <1>1 DEF LevelAfter, Smaller
<1>3. power \in Nat /\ time \in Nat
  BY <1>1 DEF Smaller, ChargingElapsed
<1> HIDE DEF level, power, time
<1>4. TaperedPower(power, vehicle, level) \in Nat
  <2> DEFINE a == power * (92 * vehicle.capacity - 90 * level)
             b == 20 * vehicle.capacity
  <2>1. a \in Int /\ b \in Nat \ {0}
    BY <1>1, <1>2, <1>3
  <2> HIDE DEF a, b
  <2>2. a \div b \in Int
    BY <2>1
  <2>3. QED
    BY <2>2 DEF TaperedPower, a, b
<1>5. DeliveredPower(maxPower, vehicle, level) \in Nat
  BY <1>3, <1>4 DEF DeliveredPower, power
<1>6. DeliveredPower(maxPower, vehicle, level) * time \in Nat
  BY <1>3, <1>5
<1>7. QED
  BY <1>2, <1>6 DEF Reading, Smaller, level, time

\* What a charging charger and its session are.
LEMMA ChargingCharger ==
  ASSUME IInv, NEW id \in DOMAIN chargers, chargers[id].session # NoSession
  PROVE  LET charger == chargers[id]
             session == ledger.sessions[charger.session]
         IN  /\ id \in Int /\ charger \in ChargerRecord /\ charger.vehicle \in Vehicle
             /\ charger.state = "CHARGING"
             /\ charger.session \in ActiveSessions(ledger) /\ session \in SessionRecord
             /\ session.chargerID = id /\ session.startedAt <= now
<1>1. id \in Int /\ chargers[id] \in ChargerRecord
  BY DEF IInv, TypeOK, IsRepository
<1>2. chargers[id].state = "CHARGING" /\ chargers[id].vehicle \in Vehicle
  BY <1>1, ShapeIsChargerShape DEF IInv, Shape, ChargerRecord
<1>3. chargers[id].session \in ActiveSessions(ledger)
      /\ ledger.sessions[chargers[id].session].chargerID = id
  BY DEF IInv, SessionsMatchChargers
<1>4. ledger.sessions[chargers[id].session] \in SessionRecord
  BY <1>3 DEF IInv, TypeOK, IsLedger, IsRepository, ActiveSessions, InState
<1>5. ledger.sessions[chargers[id].session].startedAt <= now
  BY <1>3 DEF IInv, TimesAreInOrder
<1>6. QED
  BY <1>1, <1>2, <1>3, <1>4, <1>5

\* The ledger l has the active sessions of the current one, on the same chargers, since the same
\* moments.
SameSessions(l) == LedgerIsRight(l) /\ NoneStartsOrStops(l, ledger)

\* Forgetting what was published changes nothing that is kept.
LEMMA FreshSame ==
  ASSUME IInv
  PROVE  SameSessions(Fresh(ledger)) /\ Fresh(ledger).sessions = ledger.sessions
         /\ Fresh(ledger).lastSessionID = ledger.lastSessionID
<1>1. LedgerIsRight(Fresh(ledger)) /\ Fresh(ledger).sessions = ledger.sessions
      /\ Fresh(ledger).lastSessionID = ledger.lastSessionID
  BY EventsDoNotMatter DEF IInv
<1>2. QED
  BY <1>1 DEF SameSessions, NoneStartsOrStops, ActiveSessions, InState

\* Nor does publishing.
LEMMA PublishSame ==
  ASSUME NEW l, NEW event, SameSessions(l)
  PROVE  SameSessions(Publish(l, event))
<1>1. /\ LedgerIsRight(Publish(l, event)) /\ Publish(l, event).sessions = l.sessions
      /\ Publish(l, event).lastSessionID = l.lastSessionID
  BY EventsDoNotMatter DEF SameSessions, NoneStartsOrStops
<1>2. QED
  BY <1>1 DEF SameSessions, NoneStartsOrStops, ActiveSessions, InState

\* Metering leaves the active sessions as they are, but for their energy.
LEMMA MeteredSame ==
  ASSUME IInv, NEW id \in DOMAIN chargers, chargers[id].session # NoSession,
         NEW elapsed \in Nat, NEW at \in Nat,
         ledger.sessions[chargers[id].session].startedAt <= at
  PROVE  SameSessions(Metered(chargers[id], elapsed, at))
<1> DEFINE charger == chargers[id]
           session == ledger.sessions[charger.session]
           l       == Fresh(ledger)
           energy  == ReadMeter(charger, elapsed, at).energy
<1>1. /\ charger \in ChargerRecord /\ charger.vehicle \in Vehicle
      /\ charger.session \in ActiveSessions(ledger) /\ session \in SessionRecord
  BY ChargingCharger
<1>2. charger.maxPower \in Nat \ {0} /\ session.energy \in Nat /\ session.startedAt \in Nat
  BY <1>1 DEF ChargerRecord, SessionRecord
<1>3. energy \in Nat
  <2> HIDE DEF charger, session
  <2>1. at - session.startedAt \in Nat
    BY <1>2 DEF session, charger
  <2>2. Reading(charger.maxPower, charger.vehicle, session.energy, elapsed,
                at - session.startedAt).energy \in Nat
    BY <1>1, <1>2, <2>1, ReadingType
  <2>3. QED
    BY <2>2 DEF ReadMeter, session
<1>4. /\ LedgerIsRight(l) /\ ActiveSessions(l) = ActiveSessions(ledger)
      /\ l.sessions = ledger.sessions /\ l.lastSessionID = ledger.lastSessionID
  BY FreshSame DEF SameSessions, NoneStartsOrStops
<1>5. now \in Nat
  BY DEF IInv, TypeOK
<1> HIDE DEF energy, l, session
<1>6. LET n == RecordSessionProgress(l, charger.session, energy, now)
      IN  LedgerIsRight(n) /\ NoneStartsOrStops(n, l)
  <2> DEFINE sid == charger.session
  <2>1. sid \in ActiveSessions(l)
    BY <1>1, <1>4
  <2> HIDE DEF charger, sid
  <2>2. QED
    BY <1>3, <1>4, <1>5, <2>1, RecordSessionProgressKeeps DEF sid
<1>7. Metered(charger, elapsed, at) = RecordSessionProgress(l, charger.session, energy, now)
  BY DEF Metered, l, energy
<1>8. QED
  BY <1>4, <1>6, <1>7 DEF SameSessions, NoneStartsOrStops

\* So do their numbers.
LEMMA SameGoOn ==
  ASSUME IInv, SameSessions(ledger')
  PROVE  SessionsGoOn
  BY DEF IInv, TypeOK, IsLedger, SameSessions, NoneStartsOrStops, SessionsGoOn

(***************************************************************************)
(* The shapes of a step.                                                   *)
(***************************************************************************)

\* A handler that stores one charger and touches no session.
LEMMA ChargerStep ==
  ASSUME IInv, LockIsFree, UNCHANGED <<now, lastTickAt, tick>>,
         NEW id \in Int, NEW charger \in ChargerRecord, Shape(charger),
         UpdateCharger(Fresh(ledger), id, charger),
         \/ id \in DOMAIN chargers /\ charger.session = chargers[id].session
         \/ id \notin DOMAIN chargers /\ charger.session = NoSession,
         lastChargerID' \in Nat, lastChargerID <= lastChargerID',
         id \in DOMAIN chargers \/ id \in ExplicitIDs \/ id <= lastChargerID'
  PROVE  IInv' /\ SessionsGoOn
<1>1. /\ SameSessions(ledger')
      /\ ledger'.sessions = ledger.sessions
  <2>1. SameSessions(Fresh(ledger)) /\ Fresh(ledger).sessions = ledger.sessions
    BY FreshSame
  <2>2. QED
    BY <2>1, PublishSame, EventsDoNotMatter DEF UpdateCharger, SameSessions, NoneStartsOrStops
<1>2. /\ DOMAIN chargers' = DOMAIN chargers \cup {id} /\ chargers'[id] = charger
      /\ \A x \in DOMAIN chargers : x # id => chargers'[x] = chargers[x]
  BY DEF UpdateCharger, Upsert
<1>3. IsRepository(chargers', Int, ChargerRecord)
  BY DEF IInv, TypeOK, UpdateCharger, IsRepository, Upsert
<1>4. tick.todo = {} /\ tick'.todo = {}
  BY DEF LockIsFree
<1>5. TypeOK'
  BY <1>1, <1>3, <1>4 DEF IInv, TypeOK, SameSessions, NoneStartsOrStops, LedgerIsRight
<1>6. ChargerShape'
  BY <1>2, ShapeIsChargerShape DEF IInv, ChargerShape, Shape
<1>7. SessionsMatchChargers'
  BY <1>1, <1>2 DEF IInv, SessionsMatchChargers, SameSessions, NoneStartsOrStops
<1>8. IDsAreCounted'
  <2> SUFFICES ASSUME NEW x \in DOMAIN chargers' PROVE x \in ExplicitIDs \/ x <= lastChargerID'
    BY DEF IDsAreCounted
  <2>1. CASE x \in DOMAIN chargers
    BY <2>1 DEF IInv, IDsAreCounted, TypeOK, IsRepository
  <2>2. QED
    BY <1>2, <2>1
<1>9. TimesAreInOrder'
  BY <1>1, <1>4 DEF IInv, TimesAreInOrder, SameSessions, NoneStartsOrStops
<1>10. QED
  BY <1>1, <1>4, <1>5, <1>6, <1>7, <1>8, <1>9, SameGoOn DEF IInv, SameSessions, TickListIsCurrent

\* A handler that ends a charger's session.
LEMMA EndSessionStep ==
  ASSUME IInv, UNCHANGED <<now, lastTickAt, lastChargerID>>,
         NEW id \in DOMAIN chargers, chargers[id].session # NoSession,
         NEW l, SameSessions(l), NEW reason \in StopReasons,
         NEW nextState \in {"FINISHING", "FAULTED"},
         EndSession(l, id, reason, nextState),
         tick' = NoTick \/ tick' = [tick EXCEPT !.todo = @ \ {id}],
         tick'.todo \subseteq tick.todo \ {id}
  PROVE  IInv' /\ SessionsGoOn /\ chargers[id].session \notin ActiveSessions(ledger')
<1> DEFINE charger == chargers[id]
           sid     == charger.session
           n       == StopSession(l, sid, reason, now)
<1>1. /\ id \in Int /\ charger \in ChargerRecord /\ charger.vehicle \in Vehicle
      /\ charger.state = "CHARGING"
      /\ sid \in ActiveSessions(ledger) /\ ledger.sessions[sid].chargerID = id
  BY ChargingCharger
<1>2. now \in Nat /\ lastChargerID \in Nat /\ lastTickAt \in Nat
  BY DEF IInv, TypeOK
<1>3. sid \in ActiveSessions(l) /\ LedgerIsRight(l) /\ ActiveSessions(l) = ActiveSessions(ledger)
  BY <1>1 DEF SameSessions, NoneStartsOrStops
<1>4. LedgerIsRight(n) /\ OneStops(n, l, sid)
  <2> HIDE DEF sid
  <2>1. QED
    BY <1>2, <1>3, StopSessionKeeps
<1>5. LedgerIsRight(ledger') /\ ledger'.sessions = n.sessions
  <2>1. \E event : ledger' = Publish(n, event)
    BY DEF EndSession, UpdateCharger
  <2> HIDE DEF n
  <2>2. QED
    BY <1>4, <2>1, EventsDoNotMatter
<1>6. /\ ActiveSessions(ledger') = ActiveSessions(ledger) \ {sid}
      /\ \A s \in ActiveSessions(ledger') :
           /\ ledger'.sessions[s].chargerID = ledger.sessions[s].chargerID
           /\ ledger'.sessions[s].startedAt = ledger.sessions[s].startedAt
  <2> HIDE DEF n, sid
  <2>1. ActiveSessions(ledger') = ActiveSessions(n)
    BY <1>5 DEF ActiveSessions, InState
  <2>2. QED
    BY <1>3, <1>4, <1>5, <2>1 DEF SameSessions, NoneStartsOrStops, OneStops
<1>7. l.sessions[sid] \in SessionRecord
  BY <1>3 DEF LedgerIsRight, IsLedger, IsRepository, ActiveSessions, InState
<1> DEFINE vehicle == Charged(charger.vehicle, l.sessions[sid].energy)
           new == [charger EXCEPT !.vehicle = vehicle, !.locked = (nextState = "FAULTED"),
                                  !.session = NoSession, !.state = nextState]
<1>8. vehicle \in Vehicle
  <2>1. l.sessions[sid].energy \in Nat
    BY <1>7 DEF SessionRecord
  <2> DEFINE energy == l.sessions[sid].energy
  <2> HIDE DEF energy
  <2>2. LevelAfter(charger.vehicle, energy) \in Nat
    BY <1>1, <2>1 DEF LevelAfter, Smaller, Vehicle, energy
  <2>3. QED
    BY <1>1, <2>2 DEF Charged, Vehicle, energy
<1>9. chargers' = Upsert(chargers, id, new)
  <2>1. charger.vehicle # NoVehicle
    BY <1>1, ChargerConfig
  <2>2. QED
    BY <2>1 DEF EndSession, UpdateCharger
<1>10. /\ new \in ChargerRecord
       /\ new.vehicle = vehicle /\ new.locked = (nextState = "FAULTED")
       /\ new.session = NoSession /\ new.state = nextState
  <2> HIDE DEF vehicle
  <2>1. (nextState = "FAULTED") \in BOOLEAN /\ NoSession \in Nat /\ nextState \in States
    BY DEF NoSession, States
  <2> DEFINE locked == (nextState = "FAULTED")
  <2> HIDE DEF locked
  <2>2. QED
    BY <1>1, <1>8, <2>1 DEF ChargerRecord, locked
<1> HIDE DEF new, vehicle, n
<1>11. Shape(new)
  BY <1>8, <1>10, ChargerConfig DEF Shape
<1>12. /\ DOMAIN chargers' = DOMAIN chargers /\ chargers'[id] = new
       /\ \A x \in DOMAIN chargers : x # id => chargers'[x] = chargers[x]
  BY <1>9 DEF Upsert
<1>13. IsRepository(chargers', Int, ChargerRecord)
  BY <1>1, <1>9, <1>10 DEF IInv, TypeOK, IsRepository, Upsert
<1>14. tick'.todo \subseteq tick.todo \ {id} /\ tick.todo \subseteq DOMAIN chargers
  BY DEF IInv, TypeOK
<1>15. TypeOK'
  <2>1. /\ tick' = [at |-> tick'.at, elapsed |-> tick'.elapsed, todo |-> tick'.todo]
        /\ tick'.at \in Nat /\ tick'.elapsed \in Nat
    BY DEF NoTick, IInv, TypeOK
  <2>2. QED
    BY <1>2, <1>5, <1>12, <1>13, <1>14, <2>1 DEF TypeOK, LedgerIsRight
<1>16. ChargerShape'
  BY <1>11, <1>12, ShapeIsChargerShape DEF IInv, ChargerShape, Shape
<1>17. SessionsMatchChargers'
  <2>1. ASSUME NEW x \in DOMAIN chargers', chargers'[x].session # NoSession
        PROVE  /\ chargers'[x].session \in ActiveSessions(ledger')
               /\ ledger'.sessions[chargers'[x].session].chargerID = x
    <3>1. x # id /\ x \in DOMAIN chargers /\ chargers'[x] = chargers[x]
      BY <1>10, <1>12, <2>1
    <3>2. /\ chargers[x].session \in ActiveSessions(ledger)
          /\ ledger.sessions[chargers[x].session].chargerID = x
      BY <2>1, <3>1 DEF IInv, SessionsMatchChargers
    <3>3. chargers[x].session # sid
      BY <1>1, <3>1, <3>2
    <3>4. QED
      BY <1>6, <3>1, <3>2, <3>3
  <2>2. ASSUME NEW s \in ActiveSessions(ledger')
        PROVE  /\ ledger'.sessions[s].chargerID \in DOMAIN chargers'
               /\ chargers'[ledger'.sessions[s].chargerID].session = s
    <3>1. /\ s \in ActiveSessions(ledger) /\ s # sid
          /\ ledger'.sessions[s].chargerID = ledger.sessions[s].chargerID
      BY <1>6
    <3>2. /\ ledger.sessions[s].chargerID \in DOMAIN chargers
          /\ chargers[ledger.sessions[s].chargerID].session = s
      BY <3>1 DEF IInv, SessionsMatchChargers
    <3>3. ledger.sessions[s].chargerID # id
      BY <3>1, <3>2
    <3>4. QED
      BY <1>12, <3>1, <3>2, <3>3
  <2>3. QED
    BY <2>1, <2>2 DEF SessionsMatchChargers
<1>18. TickListIsCurrent'
  BY <1>12, <1>14 DEF IInv, TickListIsCurrent
<1>19. IDsAreCounted'
  BY <1>12 DEF IInv, IDsAreCounted
<1>20. TimesAreInOrder'
  <2>1. tick' = NoTick \/ tick'.at = tick.at
    <3>1. tick = [at |-> tick.at, elapsed |-> tick.elapsed, todo |-> tick.todo]
      BY DEF IInv, TypeOK
    <3>2. [tick EXCEPT !.todo = @ \ {id}].at = tick.at
      BY <3>1
    <3>3. QED
      BY <3>2
  <2>2. tick'.at <= now'
    BY <1>2, <2>1 DEF NoTick, IInv, TimesAreInOrder
  <2>3. \A s \in ActiveSessions(ledger') : ledger'.sessions[s].startedAt <= now'
    BY <1>6 DEF IInv, TimesAreInOrder
  <2>4. ASSUME NEW x \in tick'.todo
        PROVE  ledger'.sessions[chargers'[x].session].startedAt <= tick'.at
    <3>1. x \in tick.todo /\ x # id /\ chargers'[x] = chargers[x] /\ tick'.at = tick.at
      BY <1>12, <1>14, <2>1, <2>4 DEF NoTick
    <3>2. chargers[x].session # NoSession /\ x \in DOMAIN chargers
      BY <1>14, <3>1, ShapeIsChargerShape DEF IInv, TickListIsCurrent, Shape
    <3>3. /\ chargers'[x].session \in ActiveSessions(ledger')
          /\ ledger.sessions[chargers[x].session].startedAt <= tick.at
      BY <1>12, <1>17, <3>1, <3>2 DEF SessionsMatchChargers, IInv, TimesAreInOrder
    <3>4. QED
      BY <1>6, <3>1, <3>3
  <2>5. QED
    BY <2>2, <2>3, <2>4 DEF IInv, TimesAreInOrder
<1>21. SessionsGoOn /\ sid \notin ActiveSessions(ledger')
  <2>1. ledger'.lastSessionID = ledger.lastSessionID
    <3>1. n.lastSessionID = ledger.lastSessionID
      BY <1>4 DEF OneStops, SameSessions, NoneStartsOrStops
    <3>2. \E event : ledger' = Publish(n, event)
      BY DEF EndSession, UpdateCharger, n
    <3>3. QED
      BY <1>4, <3>1, <3>2, EventsDoNotMatter
  <2>2. QED
    BY <1>6, <2>1 DEF SessionsGoOn, IInv, TypeOK, IsLedger
<1>22. QED
  BY <1>5, <1>15, <1>16, <1>17, <1>18, <1>19, <1>20, <1>21 DEF IInv

(***************************************************************************)
(* The actions that are not of these shapes.                               *)
(***************************************************************************)

\* A charger that is removed holds no session, so no session loses its charger.
LEMMA RemoveChargerStep ==
  ASSUME IInv, NEW id \in DOMAIN chargers, RemoveCharger(id)
  PROVE  IInv' /\ SessionsGoOn
<1>1. /\ LockIsFree /\ chargers[id].session = NoSession
      /\ chargers' = DeleteAll(chargers, {id})
      /\ UNCHANGED <<now, lastChargerID, lastTickAt, tick>>
      /\ \E event : ledger' = Publish(Fresh(ledger), event)
  BY DEF RemoveCharger
<1>2. SameSessions(ledger') /\ ledger'.sessions = ledger.sessions
  <2>1. SameSessions(Fresh(ledger)) /\ Fresh(ledger).sessions = ledger.sessions
    BY FreshSame
  <2>2. QED
    BY <1>1, <2>1, PublishSame, EventsDoNotMatter DEF SameSessions, NoneStartsOrStops
<1>3. /\ DOMAIN chargers' = DOMAIN chargers \ {id}
      /\ \A x \in DOMAIN chargers \ {id} : chargers'[x] = chargers[x]
  BY <1>1 DEF DeleteAll, Restrict
<1>4. IsRepository(chargers', Int, ChargerRecord)
  BY <1>1 DEF IInv, TypeOK, IsRepository, DeleteAll, Restrict
<1>5. tick.todo = {} /\ tick'.todo = {}
  BY <1>1 DEF LockIsFree
<1>6. TypeOK'
  BY <1>1, <1>2, <1>4, <1>5 DEF IInv, TypeOK, SameSessions, NoneStartsOrStops, LedgerIsRight
<1>7. ChargerShape'
  BY <1>3, ShapeIsChargerShape DEF IInv, ChargerShape, Shape
<1>8. \A s \in ActiveSessions(ledger) : ledger.sessions[s].chargerID # id
  BY <1>1 DEF IInv, SessionsMatchChargers, ActiveSessions, InState, TypeOK, IsLedger,
              IsRepository, NoSession
<1>9. SessionsMatchChargers'
  BY <1>2, <1>3, <1>8 DEF IInv, SessionsMatchChargers, SameSessions, NoneStartsOrStops
<1>10. IDsAreCounted'
  BY <1>1, <1>3 DEF IInv, IDsAreCounted
<1>11. TimesAreInOrder'
  BY <1>1, <1>2, <1>5 DEF IInv, TimesAreInOrder, SameSessions, NoneStartsOrStops
<1>12. QED
  BY <1>2, <1>5, <1>6, <1>7, <1>9, <1>10, <1>11, SameGoOn
     DEF IInv, SameSessions, TickListIsCurrent

\* A session that starts is the first on its charger, which becomes its only one.
LEMMA StartChargingStep ==
  ASSUME IInv, NEW id \in DOMAIN chargers, StartCharging(id)
  PROVE  IInv' /\ SessionsGoOn /\ ledger'.lastSessionID = ledger.lastSessionID + 1
<1> DEFINE l   == Fresh(ledger)
           sid == ledger.lastSessionID + 1
           new == [chargers[id] EXCEPT !.locked = TRUE, !.session = sid, !.state = "CHARGING"]
           n   == StartSession(l, id, chargers[id].pricePerUnit, now)
<1>1. /\ LockIsFree /\ CanStart(chargers[id])
      /\ chargers' = Upsert(chargers, id, new)
      /\ UNCHANGED <<now, lastChargerID, lastTickAt, tick>>
      /\ \E event : ledger' = Publish(n, event)
  BY DEF StartCharging, UpdateCharger
<1>2. id \in Int /\ chargers[id] \in ChargerRecord /\ now \in Nat
  BY DEF IInv, TypeOK, IsRepository
<1>3. /\ chargers[id].pricePerUnit \in Nat /\ chargers[id].session = NoSession
      /\ chargers[id].vehicle # NoVehicle
  BY <1>1, <1>2, ShapeIsChargerShape DEF ChargerRecord, CanStart, IInv, Shape
<1>4. /\ LedgerIsRight(l) /\ ActiveSessions(l) = ActiveSessions(ledger)
      /\ l.sessions = ledger.sessions /\ l.lastSessionID = ledger.lastSessionID
  BY FreshSame DEF SameSessions, NoneStartsOrStops
<1>5. /\ LedgerIsRight(n) /\ n.lastSessionID = sid
      /\ sid \in Nat \ {0} /\ sid \notin DOMAIN l.sessions
      /\ ActiveSessions(n) = ActiveSessions(l) \cup {sid}
      /\ n.sessions[sid].chargerID = id /\ n.sessions[sid].startedAt = now
      /\ \A s \in DOMAIN l.sessions : n.sessions[s] = l.sessions[s]
  <2> DEFINE price == chargers[id].pricePerUnit
  <2>1. price \in Nat
    BY <1>3
  <2> HIDE DEF l, price
  <2>2. LET m == StartSession(l, id, price, now)
        IN  LedgerIsRight(m) /\ OneStarts(m, l, id, now)
    BY <1>2, <1>4, <2>1, StartSessionKeeps
  <2>3. QED
    BY <1>4, <2>2 DEF price, OneStarts
<1> HIDE DEF n, l, sid
<1>6. /\ LedgerIsRight(ledger') /\ ledger'.sessions = n.sessions
      /\ ActiveSessions(ledger') = ActiveSessions(ledger) \cup {sid}
  <2>1. LedgerIsRight(ledger') /\ ledger'.sessions = n.sessions
    BY <1>1, <1>5, EventsDoNotMatter
  <2>2. QED
    BY <1>4, <1>5, <2>1 DEF ActiveSessions, InState
<1>7. \A s \in ActiveSessions(ledger) : s # sid /\ ledger'.sessions[s] = ledger.sessions[s]
  BY <1>4, <1>5, <1>6 DEF ActiveSessions, InState
<1>8. ledger'.sessions[sid].chargerID = id /\ ledger'.sessions[sid].startedAt = now
  BY <1>5, <1>6
<1>9. /\ new \in ChargerRecord /\ new.session = sid /\ new.state = "CHARGING"
      /\ new.locked /\ new.vehicle = chargers[id].vehicle
  BY <1>2, <1>5 DEF ChargerRecord, States
<1> HIDE DEF new
<1>10. Shape(new)
  BY <1>3, <1>5, <1>9 DEF Shape, NoSession
<1>11. /\ DOMAIN chargers' = DOMAIN chargers /\ chargers'[id] = new
       /\ \A x \in DOMAIN chargers : x # id => chargers'[x] = chargers[x]
  BY <1>1 DEF Upsert
<1>12. IsRepository(chargers', Int, ChargerRecord)
  BY <1>1, <1>2, <1>9 DEF IInv, TypeOK, IsRepository, Upsert
<1>13. tick.todo = {} /\ tick'.todo = {}
  BY <1>1 DEF LockIsFree
<1>14. TypeOK'
  BY <1>1, <1>6, <1>12, <1>13 DEF IInv, TypeOK, LedgerIsRight
<1>15. ChargerShape'
  BY <1>10, <1>11, ShapeIsChargerShape DEF IInv, ChargerShape, Shape
<1>16. SessionsMatchChargers'
  <2>1. ASSUME NEW x \in DOMAIN chargers', chargers'[x].session # NoSession
        PROVE  /\ chargers'[x].session \in ActiveSessions(ledger')
               /\ ledger'.sessions[chargers'[x].session].chargerID = x
    BY <1>6, <1>7, <1>8, <1>9, <1>11, <2>1 DEF IInv, SessionsMatchChargers
  <2>2. ASSUME NEW s \in ActiveSessions(ledger')
        PROVE  /\ ledger'.sessions[s].chargerID \in DOMAIN chargers'
               /\ chargers'[ledger'.sessions[s].chargerID].session = s
    <3>1. CASE s = sid
      BY <1>8, <1>9, <1>11, <3>1
    <3>2. CASE s \in ActiveSessions(ledger)
      <4>1. s \in Nat \ {0}
        BY <3>2 DEF IInv, TypeOK, IsLedger, IsRepository, ActiveSessions, InState
      <4>2. ledger.sessions[s].chargerID # id
        BY <1>3, <3>2, <4>1 DEF IInv, SessionsMatchChargers, NoSession
      <4>3. QED
        BY <1>7, <1>11, <3>2, <4>2 DEF IInv, SessionsMatchChargers
    <3>3. QED
      BY <1>6, <3>1, <3>2
  <2>3. QED
    BY <2>1, <2>2 DEF SessionsMatchChargers
<1>17. IDsAreCounted'
  BY <1>1, <1>11 DEF IInv, IDsAreCounted
<1>18. TimesAreInOrder'
  BY <1>1, <1>2, <1>6, <1>7, <1>8, <1>13 DEF IInv, TimesAreInOrder
<1>19. SessionsGoOn /\ ledger'.lastSessionID = ledger.lastSessionID + 1
  <2>1. ledger'.lastSessionID = sid
    BY <1>1, <1>5, EventsDoNotMatter
  <2>2. ledger.lastSessionID \in Nat
    BY DEF IInv, TypeOK, IsLedger
  <2>3. QED
    BY <1>6, <2>1, <2>2 DEF SessionsGoOn, sid
<1>20. QED
  BY <1>6, <1>13, <1>14, <1>15, <1>16, <1>17, <1>18, <1>19 DEF IInv, TickListIsCurrent

\* A tick lists the charging chargers, each of whose sessions has started by then.
LEMMA TickBeginsStep ==
  ASSUME IInv, TickBegins
  PROVE  IInv' /\ SessionsGoOn
<1> DEFINE charging == {id \in DOMAIN chargers : chargers[id].state = "CHARGING"}
           begun    == [at |-> now, elapsed |-> now - lastTickAt, todo |-> charging]
<1>1. /\ LockIsFree /\ lastTickAt' = now /\ tick' = IF charging = {} THEN NoTick ELSE begun
      /\ ledger' = Fresh(ledger) /\ UNCHANGED <<now, chargers, lastChargerID>>
  BY DEF TickBegins
<1>2. SameSessions(ledger') /\ ledger'.sessions = ledger.sessions
  BY <1>1, FreshSame
<1>3. now \in Nat /\ lastTickAt \in Nat /\ now - lastTickAt \in Nat
  BY DEF IInv, TypeOK, TimesAreInOrder
<1>4. /\ tick'.todo = charging
      /\ tick' = [at |-> tick'.at, elapsed |-> tick'.elapsed, todo |-> tick'.todo]
      /\ tick'.at \in Nat /\ tick'.elapsed \in Nat
      /\ tick'.at = now \/ (tick'.at = 0 /\ charging = {})
  <2>1. CASE charging = {}
    BY <1>1, <2>1 DEF NoTick
  <2>2. CASE charging # {}
    <3> HIDE DEF charging
    <3>1. QED
      BY <1>1, <1>3, <2>2
  <2>3. QED
    BY <2>1, <2>2
<1>5. charging \subseteq DOMAIN chargers /\ \A id \in charging : chargers[id].state = "CHARGING"
  OBVIOUS
<1> HIDE DEF charging
<1>6. TypeOK'
  BY <1>1, <1>2, <1>3, <1>4, <1>5 DEF IInv, TypeOK, SameSessions, LedgerIsRight
<1>7. ChargerShape' /\ IDsAreCounted'
  BY <1>1 DEF IInv, ChargerShape, IDsAreCounted
<1>8. SessionsMatchChargers'
  BY <1>1, <1>2 DEF IInv, SessionsMatchChargers, SameSessions, NoneStartsOrStops
<1>9. TickListIsCurrent'
  BY <1>1, <1>4, <1>5 DEF TickListIsCurrent
<1>10. TimesAreInOrder'
  <2>1. lastTickAt' <= now' /\ tick'.at <= now'
    BY <1>1, <1>3, <1>4
  <2>2. \A s \in ActiveSessions(ledger') : ledger'.sessions[s].startedAt <= now'
    BY <1>1, <1>2 DEF IInv, TimesAreInOrder, SameSessions, NoneStartsOrStops
  <2>3. ASSUME NEW id \in tick'.todo
        PROVE  ledger'.sessions[chargers'[id].session].startedAt <= tick'.at
    <3>1. id \in DOMAIN chargers /\ chargers[id].session # NoSession /\ tick'.at = now
      BY <1>4, <1>5, <2>3, ShapeIsChargerShape DEF IInv, Shape
    <3>2. ledger.sessions[chargers[id].session].startedAt <= now
      BY <3>1, ChargingCharger
    <3>3. QED
      BY <1>1, <1>2, <3>1, <3>2
  <2>4. QED
    BY <2>1, <2>2, <2>3 DEF TimesAreInOrder
<1>11. QED
  BY <1>2, <1>6, <1>7, <1>8, <1>9, <1>10, SameGoOn DEF IInv, SameSessions

\* A charger's turn meters it, and may end its session.
LEMMA AdvanceChargingStep ==
  ASSUME IInv, NEW id \in tick.todo, NEW roll \in Rolls, AdvanceCharging(id, roll)
  PROVE  IInv' /\ SessionsGoOn
<1> DEFINE metered == Metered(chargers[id], tick.elapsed, tick.at)
<1>1. id \in DOMAIN chargers /\ chargers[id].session # NoSession
  BY ShapeIsChargerShape DEF IInv, TypeOK, TickListIsCurrent, Shape
<1>2. SameSessions(metered)
  <2>1. /\ tick.elapsed \in Nat /\ tick.at \in Nat
        /\ ledger.sessions[chargers[id].session].startedAt <= tick.at
    BY DEF IInv, TypeOK, TimesAreInOrder
  <2>2. QED
    BY <1>1, <2>1, MeteredSame
<1>3. UNCHANGED <<now, lastChargerID, lastTickAt>> /\ TurnIsOver(id)
  BY DEF AdvanceCharging
<1>4. /\ tick = [at |-> tick.at, elapsed |-> tick.elapsed, todo |-> tick.todo]
      /\ tick.at \in Nat /\ tick.elapsed \in Nat /\ tick.todo \subseteq DOMAIN chargers
  BY DEF IInv, TypeOK
<1>5. /\ tick' = NoTick \/ tick' = [tick EXCEPT !.todo = @ \ {id}]
      /\ tick'.todo \subseteq tick.todo \ {id}
      /\ tick'.at = tick.at \/ tick' = NoTick
  BY <1>3, <1>4 DEF TurnIsOver, NoTick
<1>6. \/ EndSession(metered, id, "VEHICLE_FULL", "FINISHING")
      \/ EndSession(metered, id, "FAULT", "FAULTED")
      \/ ledger' = metered /\ UNCHANGED chargers
  BY DEF AdvanceCharging
<1> HIDE DEF metered
<1>7. CASE EndSession(metered, id, "VEHICLE_FULL", "FINISHING")
  BY <1>1, <1>2, <1>3, <1>5, <1>7, EndSessionStep DEF StopReasons
<1>8. CASE EndSession(metered, id, "FAULT", "FAULTED")
  BY <1>1, <1>2, <1>3, <1>5, <1>8, EndSessionStep DEF StopReasons
<1>9. CASE ledger' = metered /\ UNCHANGED chargers
  <2>1. SameSessions(ledger') /\ chargers' = chargers
    BY <1>2, <1>9
  <2>2. TypeOK'
    <3>1. /\ tick' = [at |-> tick'.at, elapsed |-> tick'.elapsed, todo |-> tick'.todo]
          /\ tick'.at \in Nat /\ tick'.elapsed \in Nat
      BY <1>4, <1>5 DEF NoTick
    <3>2. QED
      BY <1>3, <1>4, <1>5, <2>1, <3>1 DEF IInv, TypeOK, SameSessions, LedgerIsRight
  <2>3. ChargerShape' /\ IDsAreCounted'
    BY <1>3, <2>1 DEF IInv, ChargerShape, IDsAreCounted
  <2>4. SessionsMatchChargers'
    BY <2>1 DEF IInv, SessionsMatchChargers, SameSessions, NoneStartsOrStops
  <2>5. TickListIsCurrent'
    BY <1>5, <2>1 DEF IInv, TickListIsCurrent
  <2>6. TimesAreInOrder'
    <3>1. lastTickAt' <= now' /\ tick'.at <= now'
      BY <1>3, <1>5 DEF NoTick, IInv, TypeOK, TimesAreInOrder
    <3>2. \A s \in ActiveSessions(ledger') : ledger'.sessions[s].startedAt <= now'
      BY <1>3, <2>1 DEF IInv, TimesAreInOrder, SameSessions, NoneStartsOrStops
    <3>3. ASSUME NEW x \in tick'.todo
          PROVE  ledger'.sessions[chargers'[x].session].startedAt <= tick'.at
      <4>1. x \in tick.todo /\ tick'.at = tick.at
        BY <1>5, <3>3 DEF NoTick
      <4>2. x \in DOMAIN chargers /\ chargers[x].session # NoSession
        BY <1>4, <4>1, ShapeIsChargerShape DEF IInv, TickListIsCurrent, Shape
      <4>3. chargers[x].session \in ActiveSessions(ledger)
        BY <4>2 DEF IInv, SessionsMatchChargers
      <4>4. QED
        BY <2>1, <4>1, <4>3 DEF IInv, TimesAreInOrder, SameSessions, NoneStartsOrStops
    <3>4. QED
      BY <3>1, <3>2, <3>3 DEF TimesAreInOrder
  <2>7. QED
    BY <2>1, <2>2, <2>3, <2>4, <2>5, <2>6, SameGoOn DEF IInv, SameSessions
<1>10. QED
  BY <1>6, <1>7, <1>8, <1>9

\* The clock moves on, whatever is in progress and however far.
LEMMA LaterStep ==
  ASSUME IInv, now' \in Nat, now <= now', ledger' = Fresh(ledger),
         UNCHANGED <<chargers, lastChargerID, lastTickAt, tick>>
  PROVE  IInv' /\ SessionsGoOn
<1>1. SameSessions(ledger') /\ ledger'.sessions = ledger.sessions
  BY FreshSame
<1>2. /\ now \in Nat /\ lastTickAt \in Nat /\ tick.at \in Nat
      /\ \A s \in ActiveSessions(ledger) : ledger.sessions[s].startedAt \in Nat
  BY DEF IInv, TypeOK, IsLedger, IsRepository, ActiveSessions, InState, SessionRecord
<1>3. TypeOK'
  BY <1>1, <1>2 DEF IInv, TypeOK, SameSessions, LedgerIsRight
<1>4. ChargerShape' /\ IDsAreCounted' /\ TickListIsCurrent'
  BY DEF IInv, ChargerShape, IDsAreCounted, TickListIsCurrent
<1>5. SessionsMatchChargers'
  BY <1>1 DEF IInv, SessionsMatchChargers, SameSessions, NoneStartsOrStops
<1>6. TimesAreInOrder'
  BY <1>1, <1>2 DEF IInv, TimesAreInOrder, SameSessions, NoneStartsOrStops
<1>7. QED
  BY <1>1, <1>3, <1>4, <1>5, <1>6, SameGoOn DEF IInv, SameSessions

\* So it does when it ticks.
LEMMA TimePassesStep ==
  ASSUME IInv, TimePasses
  PROVE  IInv' /\ SessionsGoOn
<1>1. now \in Nat /\ now' = now + 1
  BY DEF TimePasses, IInv, TypeOK
<1>2. QED
  BY <1>1, LaterStep DEF TimePasses

(***************************************************************************)
(* The actions that store one charger and touch no session.                *)
(***************************************************************************)

\* What an existing charger is, when no session is in question.
LEMMA ChargerIs ==
  ASSUME IInv, NEW id \in DOMAIN chargers
  PROVE  id \in Int /\ chargers[id] \in ChargerRecord /\ Shape(chargers[id])
  BY ShapeIsChargerShape DEF IInv, TypeOK, IsRepository

\* A charger that is added is empty; its ID is not taken.
LEMMA AddStep ==
  ASSUME IInv, NEW equipment \in Equipment, NEW behaviors \in BehaviorLists,
         LockIsFree, UNCHANGED <<now, lastTickAt, tick>>,
         NEW id \in Int, id \notin DOMAIN chargers,
         UpdateCharger(Fresh(ledger), id, NewCharger(equipment, behaviors)),
         lastChargerID' \in Nat, lastChargerID <= lastChargerID',
         id \in ExplicitIDs \/ id <= lastChargerID'
  PROVE  IInv' /\ SessionsGoOn
<1> DEFINE charger == NewCharger(equipment, behaviors)
<1>1. /\ charger \in ChargerRecord /\ Shape(charger) /\ charger.session = NoSession
  BY ChargerConfig DEF NewCharger, ChargerRecord, States, Shape, NoSession
<1> HIDE DEF charger
<1>2. QED
  BY <1>1, ChargerStep DEF charger

\* A caller's ID is checked, an issued one is taken to be new: which it is, as no caller chose it
\* and no smaller number is given out again.
LEMMA AddIssuedStep ==
  ASSUME NoIDLooksIssued, IInv, NEW equipment \in Equipment, NEW behaviors \in BehaviorLists,
         AddCharger(equipment, behaviors)
  PROVE  IInv' /\ SessionsGoOn
<1>1. lastChargerID \in Nat /\ lastChargerID' = lastChargerID + 1
  BY DEF IInv, TypeOK, AddCharger
<1>2. lastChargerID + 1 \notin DOMAIN chargers
  BY <1>1 DEF IInv, IDsAreCounted, NoIDLooksIssued
<1>3. QED
  BY <1>1, <1>2, AddStep DEF AddCharger

\* The steps, one handler after the other. A charger that is added is available and has no session.
LEMMA AddNamedStep ==
  ASSUME IInv, NEW equipment \in Equipment, NEW behaviors \in BehaviorLists,
         NEW id \in ExplicitIDs, AddNamedCharger(id, equipment, behaviors)
  PROVE  IInv' /\ SessionsGoOn
<1>1. id \in Int /\ lastChargerID \in Nat
  BY ChargerConfig DEF IInv, TypeOK
<1>2. QED
  BY <1>1, AddStep DEF AddNamedCharger

\* A charger that keeps its session and its shape.
LEMMA UpdateStep ==
  ASSUME IInv, LockIsFree, UNCHANGED <<now, lastChargerID, lastTickAt, tick>>,
         NEW id \in DOMAIN chargers, NEW charger \in ChargerRecord, Shape(charger),
         charger.session = chargers[id].session,
         UpdateCharger(Fresh(ledger), id, charger)
  PROVE  IInv' /\ SessionsGoOn
<1>1. id \in Int /\ lastChargerID \in Nat
  BY DEF IInv, TypeOK, IsRepository
<1>2. QED
  BY <1>1, ChargerStep

\* New behaviors change neither state nor session.
LEMMA UpdateBehaviorsStep ==
  ASSUME IInv, NEW id \in DOMAIN chargers, NEW behaviors \in BehaviorLists,
         UpdateBehaviors(id, behaviors)
  PROVE  IInv' /\ SessionsGoOn
<1> DEFINE new == [chargers[id] EXCEPT !.behaviors = behaviors]
<1>1. new \in ChargerRecord /\ Shape(new) /\ new.session = chargers[id].session
  BY ChargerIs DEF ChargerRecord, Shape
<1>2. QED
  <2> HIDE DEF new
  <2>1. QED
    BY <1>1, UpdateStep DEF UpdateBehaviors, new

\* A vehicle comes to a charger that has none.
LEMMA PlugInStep ==
  ASSUME IInv, NEW id \in DOMAIN chargers, NEW vehicle \in Vehicles, PlugIn(id, vehicle)
  PROVE  IInv' /\ SessionsGoOn
<1> DEFINE state == IF chargers[id].state = "AVAILABLE" THEN "PREPARING" ELSE chargers[id].state
           new   == [chargers[id] EXCEPT !.vehicle = vehicle, !.state = state]
<1>1. vehicle \in Vehicle /\ vehicle # NoVehicle
  BY ChargerConfig DEF PluggableVehicle
<1>2. chargers[id].vehicle = NoVehicle /\ chargers[id] \in ChargerRecord /\ Shape(chargers[id])
  BY ChargerIs DEF PlugIn
<1>3. chargers[id].state \in {"AVAILABLE", "FAULTED"} /\ ~chargers[id].locked
      /\ chargers[id].session = NoSession
  BY <1>2 DEF ChargerRecord, Shape, States
<1>4. state \in {"PREPARING", "FAULTED"} /\ state \in States
  BY <1>3 DEF States
<1> HIDE DEF state
<1>5. /\ new \in ChargerRecord /\ new.vehicle = vehicle /\ new.state = state
      /\ new.session = chargers[id].session /\ new.locked = chargers[id].locked
  BY <1>1, <1>2, <1>4 DEF ChargerRecord
<1> HIDE DEF new
<1>6. Shape(new)
  BY <1>1, <1>3, <1>4, <1>5 DEF Shape
<1>7. UpdateCharger(Fresh(ledger), id, new) /\ LockIsFree
      /\ UNCHANGED <<now, lastChargerID, lastTickAt, tick>>
  BY DEF PlugIn, new, state
<1>8. QED
  BY <1>5, <1>6, <1>7, UpdateStep

\* A vehicle leaves only when the connector is not locked, and then no session is left behind.
LEMMA UnplugStep ==
  ASSUME IInv, NEW id \in DOMAIN chargers, Unplug(id)
  PROVE  IInv' /\ SessionsGoOn
<1> DEFINE state == IF chargers[id].state = "FAULTED" THEN chargers[id].state ELSE "AVAILABLE"
           new   == [chargers[id] EXCEPT !.vehicle = NoVehicle, !.state = state]
<1>1. ~chargers[id].locked /\ chargers[id] \in ChargerRecord /\ Shape(chargers[id])
  BY ChargerIs DEF Unplug
<1>2. chargers[id].session = NoSession
  BY <1>1 DEF Shape
<1>3. state \in {"AVAILABLE", "FAULTED"} /\ state \in States
  BY DEF States
<1> HIDE DEF state
<1>4. /\ new \in ChargerRecord /\ new.vehicle = NoVehicle /\ new.state = state
      /\ new.session = chargers[id].session /\ new.locked = chargers[id].locked
  BY <1>1, <1>3 DEF ChargerRecord
<1> HIDE DEF new
<1>5. Shape(new)
  BY <1>1, <1>2, <1>3, <1>4 DEF Shape
<1>6. UpdateCharger(Fresh(ledger), id, new) /\ LockIsFree
      /\ UNCHANGED <<now, lastChargerID, lastTickAt, tick>>
  BY DEF Unplug, new, state
<1>7. QED
  BY <1>4, <1>5, <1>6, UpdateStep

\* Clearing a fault frees the cable; with a vehicle the charger is ready for a session.
LEMMA ClearFaultStep ==
  ASSUME IInv, NEW id \in DOMAIN chargers, ClearFault(id)
  PROVE  IInv' /\ SessionsGoOn
<1> DEFINE state == IF chargers[id].vehicle = NoVehicle THEN "AVAILABLE" ELSE "PREPARING"
           new   == [chargers[id] EXCEPT !.locked = FALSE, !.state = state]
<1>1. chargers[id].state = "FAULTED" /\ chargers[id] \in ChargerRecord /\ Shape(chargers[id])
  BY ChargerIs DEF ClearFault
<1>2. chargers[id].session = NoSession
  BY <1>1 DEF Shape
<1>3. /\ state \in {"AVAILABLE", "PREPARING"} /\ state \in States
      /\ state = "AVAILABLE" <=> chargers[id].vehicle = NoVehicle
  BY DEF States
<1> HIDE DEF state
<1>4. /\ new \in ChargerRecord /\ new.vehicle = chargers[id].vehicle /\ new.state = state
      /\ new.session = chargers[id].session /\ ~new.locked
  BY <1>1, <1>3 DEF ChargerRecord
<1> HIDE DEF new
<1>5. Shape(new)
  BY <1>1, <1>2, <1>3, <1>4 DEF Shape
<1>6. UpdateCharger(Fresh(ledger), id, new) /\ LockIsFree
      /\ UNCHANGED <<now, lastChargerID, lastTickAt, tick>>
  BY DEF ClearFault, new, state
<1>7. QED
  BY <1>4, <1>5, <1>6, UpdateStep

\* Unlocking is for chargers without a session, and frees the cable.
LEMMA UnlockConnectorStep ==
  ASSUME IInv, NEW id \in DOMAIN chargers, UnlockConnector(id)
  PROVE  IInv' /\ SessionsGoOn
<1> DEFINE new == [chargers[id] EXCEPT !.locked = FALSE]
<1>1. /\ chargers[id].session = NoSession
      /\ chargers[id] \in ChargerRecord /\ Shape(chargers[id])
  BY ChargerIs DEF UnlockConnector
<1>2. /\ new \in ChargerRecord /\ new.vehicle = chargers[id].vehicle
      /\ new.state = chargers[id].state /\ new.session = chargers[id].session /\ ~new.locked
  BY <1>1 DEF ChargerRecord
<1> HIDE DEF new
<1>3. Shape(new)
  BY <1>1, <1>2 DEF Shape
<1>4. UpdateCharger(Fresh(ledger), id, new) /\ LockIsFree
      /\ UNCHANGED <<now, lastChargerID, lastTickAt, tick>>
  BY DEF UnlockConnector, new
<1>5. QED
  BY <1>2, <1>3, <1>4, UpdateStep

(***************************************************************************)
(* The actions that end a session outside a tick.                          *)
(***************************************************************************)
LEMMA StopStep ==
  ASSUME IInv, LockIsFree, UNCHANGED <<now, lastChargerID, lastTickAt, tick>>,
         NEW id \in DOMAIN chargers, chargers[id].session # NoSession,
         NEW reason \in StopReasons, NEW nextState \in {"FINISHING", "FAULTED"},
         EndSession(MeteredSinceLastTick(chargers[id]), id, reason, nextState)
  PROVE  IInv' /\ SessionsGoOn /\ chargers[id].session \notin ActiveSessions(ledger')
<1> DEFINE metered == MeteredSinceLastTick(chargers[id])
<1>1. SameSessions(metered)
  <2>1. now - lastTickAt \in Nat /\ now \in Nat
    BY DEF IInv, TypeOK, TimesAreInOrder
  <2>2. ledger.sessions[chargers[id].session].startedAt <= now
    BY ChargingCharger
  <2>3. QED
    BY <2>1, <2>2, MeteredSame DEF MeteredSinceLastTick
<1>2. /\ tick' = [tick EXCEPT !.todo = @ \ {id}]
      /\ tick'.todo \subseteq tick.todo \ {id}
  <2>1. /\ tick = [at |-> tick.at, elapsed |-> tick.elapsed, todo |-> tick.todo]
        /\ tick.todo = {}
    BY DEF IInv, TypeOK, LockIsFree
  <2>2. [tick EXCEPT !.todo = @ \ {id}] = tick
    BY <2>1
  <2>3. QED
    BY <2>1, <2>2
<1> HIDE DEF metered
<1>3. EndSession(metered, id, reason, nextState)
  BY DEF metered
<1>4. QED
  BY <1>1, <1>2, <1>3, EndSessionStep

\* A remote stop ends the session at the charger that has it.
LEMMA StopChargingStep ==
  ASSUME IInv, NEW s \in DOMAIN ledger.sessions, StopCharging(s)
  PROVE  IInv' /\ SessionsGoOn /\ s \notin ActiveSessions(ledger')
<1> DEFINE id == ledger.sessions[s].chargerID
<1>1. s # NoSession
  BY DEF IInv, TypeOK, IsLedger, IsRepository, NoSession
<1>2. id \in DOMAIN chargers /\ chargers[id].session = s /\ chargers[id].session # NoSession
  BY <1>1 DEF StopCharging, CanStop
<1>3. /\ LockIsFree /\ UNCHANGED <<now, lastChargerID, lastTickAt, tick>>
      /\ EndSession(MeteredSinceLastTick(chargers[id]), id, "REMOTE", "FINISHING")
  BY DEF StopCharging
<1>4. "REMOTE" \in StopReasons
  BY DEF StopReasons
<1> HIDE DEF id
<1>5. QED
  BY <1>2, <1>3, <1>4, StopStep

\* The stop button does the same from the other end.
LEMMA PressStopButtonStep ==
  ASSUME IInv, NEW id \in DOMAIN chargers, PressStopButton(id)
  PROVE  IInv' /\ SessionsGoOn
  BY StopStep DEF PressStopButton, StopReasons

\* A fault ends the session, if there is one.
LEMMA InjectFaultStep ==
  ASSUME IInv, NEW id \in DOMAIN chargers, InjectFault(id)
  PROVE  IInv' /\ SessionsGoOn
<1>1. CASE chargers[id].session # NoSession
  BY <1>1, StopStep DEF InjectFault, StopReasons
<1>2. CASE chargers[id].session = NoSession
  <2> DEFINE new == [chargers[id] EXCEPT !.state = "FAULTED"]
  <2>1. chargers[id] \in ChargerRecord /\ Shape(chargers[id])
    BY ChargerIs
  <2>2. /\ new \in ChargerRecord /\ new.vehicle = chargers[id].vehicle /\ new.state = "FAULTED"
        /\ new.session = chargers[id].session /\ new.locked = chargers[id].locked
    BY <2>1 DEF ChargerRecord, States
  <2> HIDE DEF new
  <2>3. Shape(new)
    BY <1>2, <2>1, <2>2 DEF Shape
  <2>4. UpdateCharger(Fresh(ledger), id, new) /\ LockIsFree
        /\ UNCHANGED <<now, lastChargerID, lastTickAt, tick>>
    BY <1>2 DEF InjectFault, new
  <2>5. QED
    BY <2>2, <2>3, <2>4, UpdateStep
<1>3. QED
  BY <1>1, <1>2

(***************************************************************************)
(* The theorems.                                                           *)
(***************************************************************************)
LEMMA StutteringStep ==
  ASSUME IInv, UNCHANGED vars
  PROVE  IInv' /\ SessionsGoOn
<1>1. UNCHANGED <<now, ledger, chargers, lastChargerID, lastTickAt, tick>>
  BY DEF vars
<1>2. QED
  BY <1>1 DEF IInv, TypeOK, ChargerShape, SessionsMatchChargers, TickListIsCurrent,
              IDsAreCounted, TimesAreInOrder, IsLedger, SessionsGoOn

\* Every step keeps the invariant.
LEMMA NextIsRight ==
  ASSUME NoIDLooksIssued, IInv, Next
  PROVE  IInv' /\ SessionsGoOn
<1>1. CASE Manage
  BY <1>1, AddIssuedStep, AddNamedStep, RemoveChargerStep, UpdateBehaviorsStep DEF Manage
<1>2. CASE PersonActs
  BY <1>2, PlugInStep, UnplugStep, PressStopButtonStep, InjectFaultStep, ClearFaultStep
     DEF PersonActs
<1>3. CASE Remote
  BY <1>3, StartChargingStep, UnlockConnectorStep, StopChargingStep DEF Remote
<1>4. CASE TickLoop
  BY <1>4, TickBeginsStep, AdvanceChargingStep DEF TickLoop
<1>5. CASE TimePasses
  BY <1>5, TimePassesStep
<1>6. QED
  BY <1>1, <1>2, <1>3, <1>4, <1>5 DEF Next

\* The invariant holds throughout.
LEMMA IInvHolds == ASSUME NoIDLooksIssued PROVE Spec => []IInv
<1>1. Init => IInv
  BY InitIsRight
<1>2. IInv /\ [Next]_vars => IInv'
  BY NoIDLooksIssued, NextIsRight, StutteringStep
<1>3. QED
  BY <1>1, <1>2, PTL DEF Spec

\* Everything the controllers store is well formed.
THEOREM TypeCorrect == ASSUME NoIDLooksIssued PROVE Spec => []TypeOK
<1>1. IInv => TypeOK
  BY DEF IInv
<1>2. QED
  BY <1>1, IInvHolds, PTL

\* A charger's session is active and the charger's, and an active session has its charger, which
\* holds it: no handler, and no interleaving of handlers with the tick loop and the clock,
\* orphans a session or shares one (StartCharging, endSession, RemoveCharger, AddCharger).
THEOREM NoSessionIsOrphaned == ASSUME NoIDLooksIssued PROVE Spec => []SessionsMatchChargers
<1>1. IInv => SessionsMatchChargers
  BY DEF IInv
<1>2. QED
  BY <1>1, IInvHolds, PTL

\* A charger's state says whether a vehicle is plugged in, the connector is locked and a session
\* is in progress (actions.go, charging.go).
THEOREM StatesMeanWhatTheySay == ASSUME NoIDLooksIssued PROVE Spec => []ChargerShape
<1>1. IInv => ChargerShape
  BY DEF IInv
<1>2. QED
  BY <1>1, IInvHolds, PTL

\* No iteration of the tick loop finds a charger that is not charging any more (Tick,
\* advanceCharging), so no iteration fails and cuts the loop short.
THEOREM TickLoopNeverFails == ASSUME NoIDLooksIssued PROVE Spec => []TickListIsCurrent
<1>1. IInv => TickListIsCurrent
  BY DEF IInv
<1>2. QED
  BY <1>1, IInvHolds, PTL
(***************************************************************************)
(* What a step does to the meters.                                         *)
(***************************************************************************)

\* In ledger l the session of a charger is as it was, but for e more energy, and no bill has been
\* published.
IsMeteredIn(l, charger, e) ==
  /\ SameSessions(l)
  /\ IsSequence(l.events) /\ Bills(l.events) = {}
  /\ \A s \in ActiveSessions(ledger) :
       l.sessions[s].energy = ledger.sessions[s].energy + (IF s = charger.session THEN e ELSE 0)

\* Starting over publishes no bill.
LEMMA FreshIsSilent ==
  ASSUME IInv
  PROVE  Fresh(ledger).events = << >> /\ IsSequence(Fresh(ledger).events)
         /\ Bills(Fresh(ledger).events) = {}
<1>1. IsLedgerRecord(ledger)
  BY DEF IInv, LedgerIsRight, IsLedger, IsLedgerRecord, LedgerOf
<1>2. Fresh(ledger).events = << >>
  BY <1>1, FreshIs, LedgerParts
<1>3. QED
  BY <1>2, NoCallNoBill

\* A call adds itself to the calls.
LEMMA PublishAdds ==
  ASSUME NEW l, NEW event, LedgerIsRight(l)
  PROVE  Publish(l, event).sessions = l.sessions
         /\ IsLongerBy(Publish(l, event).events, l.events, event)
<1> DEFINE said == Append(l.events, event)
           n    == Publish(l, event)
<1>1. IsLedgerRecord(l)
  BY DEF LedgerIsRight, IsLedger, IsLedgerRecord, LedgerOf
<1>2. n = LedgerOf(l.sessions, l.cdrs, l.lastPublishedAt, l.lastSessionID, l.lastCDRID, said)
  BY <1>1, PublishIs
<1>3. n.sessions = l.sessions /\ n.events = said
  <2> HIDE DEF n, said
  <2>1. QED
    BY <1>2, LedgerParts
<1>4. QED
  BY <1>3 DEF IsLongerBy

\* The charger is published last.
LEMMA ChargerIsPublished ==
  ASSUME NEW l, NEW id, NEW charger, LedgerIsRight(l), IsSequence(l.events),
         UpdateCharger(l, id, charger)
  PROVE  /\ ledger'.sessions = l.sessions /\ Bills(ledger'.events) = Bills(l.events)
         /\ DOMAIN chargers' = DOMAIN chargers \cup {id} /\ chargers'[id] = charger
         /\ \A x \in DOMAIN chargers : x # id => chargers'[x] = chargers[x]
<1> DEFINE event == ChargerEvent(id, charger.state)
<1>1. event.topic # "cdr"
  BY DEF ChargerEvent
<1>2. ledger' = Publish(l, event) /\ chargers' = Upsert(chargers, id, charger)
  BY DEF UpdateCharger
<1> HIDE DEF event
<1>3. ledger'.sessions = l.sessions /\ IsLongerBy(ledger'.events, l.events, event)
  BY <1>2, PublishAdds
<1>4. QED
  BY <1>1, <1>2, <1>3, OneMoreCall DEF Upsert

\* The meter adds its reading to the session, and to no other.
LEMMA MeteredAdds ==
  ASSUME IInv, NEW id \in DOMAIN chargers, chargers[id].session # NoSession,
         NEW elapsed \in Nat, NEW at \in Nat,
         ledger.sessions[chargers[id].session].startedAt <= at
  PROVE  /\ ReadMeter(chargers[id], elapsed, at).energy \in Nat
         /\ IsMeteredIn(Metered(chargers[id], elapsed, at), chargers[id],
                        ReadMeter(chargers[id], elapsed, at).energy)
<1> DEFINE charger == chargers[id]
           sid     == charger.session
           session == ledger.sessions[sid]
           l       == Fresh(ledger)
           e       == ReadMeter(charger, elapsed, at).energy
           n       == RecordSessionProgress(l, sid, e, now)
<1>1. /\ charger \in ChargerRecord /\ charger.vehicle \in Vehicle
      /\ sid \in ActiveSessions(ledger) /\ session \in SessionRecord
  BY ChargingCharger
<1>2. charger.maxPower \in Nat \ {0} /\ session.energy \in Nat /\ session.startedAt \in Nat
  BY <1>1 DEF ChargerRecord, SessionRecord
<1>3. e \in Nat
  <2> HIDE DEF charger, session
  <2>1. at - session.startedAt \in Nat
    BY <1>2 DEF session, charger
  <2>2. Reading(charger.maxPower, charger.vehicle, session.energy, elapsed,
                at - session.startedAt).energy \in Nat
    BY <1>1, <1>2, <2>1, ReadingType
  <2>3. QED
    BY <2>2 DEF ReadMeter, session
<1>4. /\ LedgerIsRight(l) /\ ActiveSessions(l) = ActiveSessions(ledger)
      /\ l.sessions = ledger.sessions
      /\ IsSequence(l.events) /\ Bills(l.events) = {}
  BY FreshSame, FreshIsSilent DEF SameSessions, NoneStartsOrStops
<1>5. now \in Nat
  BY DEF IInv, TypeOK
<1>6. n = Metered(charger, elapsed, at)
  BY DEF Metered
<1>7. SameSessions(n)
  BY <1>6, MeteredSame
<1> HIDE DEF e, l, session
<1>8. /\ OnlyOneChanges(n, l, sid)
      /\ ItIsSaid(n, l, sid) \/ n.events = l.events
      /\ n.sessions[sid].energy = l.sessions[sid].energy + e
  <2>1. sid \in ActiveSessions(l)
    BY <1>1, <1>4
  <2> HIDE DEF charger, sid
  <2>2. QED
    BY <1>3, <1>4, <1>5, <2>1, RecordSessionProgressSays, RecordSessionProgressAdds
<1> HIDE DEF n
<1>9. IsSequence(n.events) /\ Bills(n.events) = {}
  <2> DEFINE event == SessionEvent(sid, n.sessions[sid])
  <2>1. event.topic # "cdr"
    BY DEF SessionEvent
  <2>2. n.events = Append(l.events, event) \/ n.events = l.events
    BY <1>8 DEF ItIsSaid
  <2> HIDE DEF event
  <2>3. QED
    BY <1>4, <2>1, <2>2, OneMoreCall DEF IsLongerBy
<1>10. ASSUME NEW s \in ActiveSessions(ledger)
       PROVE  n.sessions[s].energy = ledger.sessions[s].energy + (IF s = sid THEN e ELSE 0)
  <2>1. CASE s = sid
    BY <1>4, <1>8, <2>1
  <2>2. CASE s # sid
    <3>1. s \in DOMAIN n.sessions
      BY <1>7 DEF SameSessions, NoneStartsOrStops, ActiveSessions, InState
    <3>2. n.sessions[s] = ledger.sessions[s]
      BY <1>4, <1>8, <2>2, <3>1 DEF OnlyOneChanges
    <3>3. ledger.sessions[s].energy \in Nat
      BY DEF IInv, TypeOK, IsLedger, IsRepository, ActiveSessions, InState, SessionRecord
    <3>4. QED
      BY <2>2, <3>2, <3>3
  <2>3. QED
    BY <2>1, <2>2
<1>11. QED
  BY <1>3, <1>6, <1>7, <1>9, <1>10 DEF IsMeteredIn, e

\* What a charger's session has delivered so far.
Given(l, charger) ==
  IF charger.session = NoSession THEN 0 ELSE l.sessions[charger.session].energy

\* A charger whose session goes on, if it has one, with e more energy.
GoesOn(id, e) ==
  /\ id \in DOMAIN chargers /\ id \in DOMAIN chargers'
  /\ chargers'[id].session = chargers[id].session
  /\ chargers'[id].vehicle = chargers[id].vehicle
  /\ chargers'[id].maxPower = chargers[id].maxPower
  /\ chargers[id].session # NoSession =>
       LET s == chargers[id].session
       IN  /\ ledger'.sessions[s].energy = ledger.sessions[s].energy + e
           /\ ledger'.sessions[s].startedAt = ledger.sessions[s].startedAt

\* A charger without a session that a vehicle comes to or leaves, or that is added.
ChangesVehicle(id) ==
  /\ id \in DOMAIN chargers' /\ chargers'[id].session = NoSession
  /\ chargers'[id].vehicle = NoVehicle \/ PluggableVehicle(chargers'[id].vehicle)
  /\ id \in DOMAIN chargers =>
       /\ chargers[id].session = NoSession
       /\ chargers[id].vehicle = NoVehicle \/ chargers'[id].vehicle = NoVehicle

\* A charger whose session starts.
StartsASession(id) ==
  /\ LockIsFree
  /\ id \in DOMAIN chargers /\ id \in DOMAIN chargers'
  /\ chargers[id].session = NoSession /\ chargers'[id].session # NoSession
  /\ chargers'[id].vehicle = chargers[id].vehicle
  /\ ledger'.sessions[chargers'[id].session].energy = 0
  /\ ledger'.sessions[chargers'[id].session].startedAt = now

\* A charger whose session ends, with e more energy, which its vehicle has then and its bill says.
EndsItsSession(id, e) ==
  /\ id \in DOMAIN chargers /\ id \in DOMAIN chargers'
  /\ chargers[id].session # NoSession /\ chargers'[id].session = NoSession
  /\ chargers[id].session \notin ActiveSessions(ledger')
  /\ chargers'[id].vehicle = Charged(chargers[id].vehicle, Given(ledger, chargers[id]) + e)
  /\ \E cdr : /\ Bills(ledger'.events) = {cdr} /\ cdr.chargerID = id
              /\ cdr.energy = Given(ledger, chargers[id]) + e
              /\ cdr.startedAt = ledger.sessions[chargers[id].session].startedAt

\* A step between ticks that ends no session, or a step of the clock.
NothingIsMetered ==
  /\ Bills(ledger'.events) = {}
  /\ UNCHANGED <<lastTickAt, tick>>
  /\ \A id \in DOMAIN chargers' : GoesOn(id, 0) \/ ChangesVehicle(id) \/ StartsASession(id)

\* A tick lists the chargers that have a session.
ATickBegins ==
  /\ Bills(ledger'.events) = {}
  /\ LockIsFree /\ lastTickAt' = now /\ UNCHANGED <<now, chargers>>
  /\ tick'.todo = {id \in DOMAIN chargers : chargers[id].session # NoSession}
  /\ tick'.todo # {} => tick'.at = now /\ tick'.elapsed = now - lastTickAt
  /\ \A id \in DOMAIN chargers' : GoesOn(id, 0)

\* What the meter of a charger reads at its turn in a tick, and when it is stopped.
ReadInTick(id) == ReadMeter(chargers[id], tick.elapsed, tick.at)
ReadAtEnd(id) == ReadMeter(chargers[id], now - lastTickAt, now)

\* A charger's turn in the tick.
ATurn(id) ==
  /\ id \in tick.todo /\ TurnIsOver(id) /\ UNCHANGED lastTickAt
  /\ ReadInTick(id).energy \in Nat
  /\ \/ /\ Bills(ledger'.events) = {} /\ ~ReadInTick(id).vehicleFull
        /\ GoesOn(id, ReadInTick(id).energy)
     \/ EndsItsSession(id, ReadInTick(id).energy)
  /\ \A x \in DOMAIN chargers' \ {id} : GoesOn(x, 0)

\* A session that is ended between ticks.
AnEnd(id) ==
  /\ LockIsFree /\ UNCHANGED <<now, lastTickAt, tick>>
  /\ ReadAtEnd(id).energy \in Nat
  /\ EndsItsSession(id, ReadAtEnd(id).energy)
  /\ \A x \in DOMAIN chargers' \ {id} : GoesOn(x, 0)

MeterStep ==
  \/ NothingIsMetered \/ ATickBegins
  \/ \E id \in DOMAIN chargers : ATurn(id) \/ AnEnd(id)
\* A charger whose session is stored as it was goes on as it was.
LEMMA ItGoesOn ==
  ASSUME IInv, NEW id \in DOMAIN chargers, id \in DOMAIN chargers',
         chargers'[id].session = chargers[id].session,
         chargers'[id].vehicle = chargers[id].vehicle,
         chargers'[id].maxPower = chargers[id].maxPower,
         chargers[id].session # NoSession =>
           LET s == chargers[id].session
           IN  /\ ledger'.sessions[s].energy = ledger.sessions[s].energy
               /\ ledger'.sessions[s].startedAt = ledger.sessions[s].startedAt
  PROVE  GoesOn(id, 0)
<1>1. chargers[id].session # NoSession => ledger.sessions[chargers[id].session].energy \in Nat
  BY ChargingCharger DEF SessionRecord
<1>2. QED
  BY <1>1 DEF GoesOn

\* A handler that stores a charger under an ID and touches no session meters nothing.
LEMMA StoringIsQuiet ==
  ASSUME IInv, UNCHANGED <<lastTickAt, tick>>,
         NEW id, NEW charger, UpdateCharger(Fresh(ledger), id, charger),
         id \in DOMAIN chargers => charger.session = chargers[id].session,
         \/ /\ id \in DOMAIN chargers
            /\ charger.maxPower = chargers[id].maxPower
            /\ charger.vehicle = chargers[id].vehicle
         \/ /\ charger.session = NoSession
            /\ charger.vehicle = NoVehicle \/ PluggableVehicle(charger.vehicle)
            /\ id \in DOMAIN chargers => \/ chargers[id].vehicle = NoVehicle
                                         \/ charger.vehicle = NoVehicle
  PROVE  NothingIsMetered
<1>1. /\ LedgerIsRight(Fresh(ledger)) /\ Fresh(ledger).sessions = ledger.sessions
      /\ IsSequence(Fresh(ledger).events) /\ Bills(Fresh(ledger).events) = {}
  BY FreshSame, FreshIsSilent DEF SameSessions
<1>2. /\ ledger'.sessions = ledger.sessions /\ Bills(ledger'.events) = {}
      /\ DOMAIN chargers' = DOMAIN chargers \cup {id} /\ chargers'[id] = charger
      /\ \A x \in DOMAIN chargers : x # id => chargers'[x] = chargers[x]
  BY <1>1, ChargerIsPublished
<1>3. ASSUME NEW x \in DOMAIN chargers' PROVE GoesOn(x, 0) \/ ChangesVehicle(x)
  <2>1. CASE x # id
    BY <1>2, <2>1, ItGoesOn
  <2>2. CASE x = id
    <3>1. CASE /\ id \in DOMAIN chargers
               /\ charger.maxPower = chargers[id].maxPower
               /\ charger.vehicle = chargers[id].vehicle
      BY <1>2, <2>2, <3>1, ItGoesOn
    <3>2. CASE /\ charger.session = NoSession
               /\ charger.vehicle = NoVehicle \/ PluggableVehicle(charger.vehicle)
               /\ id \in DOMAIN chargers => \/ chargers[id].vehicle = NoVehicle
                                            \/ charger.vehicle = NoVehicle
      BY <1>2, <2>2, <3>2 DEF ChangesVehicle
    <3>3. QED
      BY <3>1, <3>2
  <2>3. QED
    BY <2>1, <2>2
<1>4. QED
  BY <1>2, <1>3 DEF NothingIsMetered

\* What manages chargers meters nothing.
LEMMA ManageIsQuiet ==
  ASSUME NoIDLooksIssued, IInv, Manage
  PROVE  NothingIsMetered
<1>1. ASSUME NEW e \in Equipment, NEW b \in BehaviorLists, AddCharger(e, b)
      PROVE  NothingIsMetered
  <2>1. lastChargerID + 1 \notin DOMAIN chargers
    <3>1. lastChargerID \in Nat
      BY DEF IInv, TypeOK
    <3>2. QED
      BY <3>1 DEF IInv, IDsAreCounted, NoIDLooksIssued
  <2> DEFINE charger == NewCharger(e, b)
  <2>2. charger.session = NoSession /\ charger.vehicle = NoVehicle
    BY DEF NewCharger
  <2> HIDE DEF charger
  <2>3. UpdateCharger(Fresh(ledger), lastChargerID + 1, charger) /\ UNCHANGED <<lastTickAt, tick>>
    BY <1>1 DEF AddCharger, charger
  <2>4. QED
    BY <2>1, <2>2, <2>3, StoringIsQuiet
<1>2. ASSUME NEW e \in Equipment, NEW b \in BehaviorLists, NEW id \in ExplicitIDs,
             AddNamedCharger(id, e, b)
      PROVE  NothingIsMetered
  <2> DEFINE charger == NewCharger(e, b)
  <2>1. charger.session = NoSession /\ charger.vehicle = NoVehicle
    BY DEF NewCharger
  <2> HIDE DEF charger
  <2>2. /\ UpdateCharger(Fresh(ledger), id, charger) /\ UNCHANGED <<lastTickAt, tick>>
        /\ id \notin DOMAIN chargers
    BY <1>2 DEF AddNamedCharger, charger
  <2>3. QED
    BY <2>1, <2>2, StoringIsQuiet
<1>3. ASSUME NEW id \in DOMAIN chargers, RemoveCharger(id)
      PROVE  NothingIsMetered
  <2> DEFINE event == ChargerEvent(id, "REMOVED")
             l     == Fresh(ledger)
  <2>1. event.topic # "cdr"
    BY DEF ChargerEvent
  <2>2. /\ chargers' = DeleteAll(chargers, {id}) /\ ledger' = Publish(l, event)
        /\ UNCHANGED <<lastTickAt, tick>>
    BY <1>3 DEF RemoveCharger
  <2>3. /\ LedgerIsRight(l) /\ l.sessions = ledger.sessions
        /\ IsSequence(l.events) /\ Bills(l.events) = {}
    BY FreshSame, FreshIsSilent DEF SameSessions
  <2> HIDE DEF event, l
  <2>4. ledger'.sessions = ledger.sessions /\ IsLongerBy(ledger'.events, l.events, event)
    BY <2>2, <2>3, PublishAdds
  <2>5. Bills(ledger'.events) = {}
    BY <2>1, <2>3, <2>4, OneMoreCall
  <2>6. /\ DOMAIN chargers' = DOMAIN chargers \ {id}
        /\ \A x \in DOMAIN chargers \ {id} : chargers'[x] = chargers[x]
    BY <2>2 DEF DeleteAll, Restrict
  <2>7. \A x \in DOMAIN chargers' : GoesOn(x, 0)
    BY <2>4, <2>6, ItGoesOn
  <2>8. QED
    BY <2>2, <2>5, <2>7 DEF NothingIsMetered
<1>4. ASSUME NEW id \in DOMAIN chargers, NEW b \in BehaviorLists, UpdateBehaviors(id, b)
      PROVE  NothingIsMetered
  <2> DEFINE charger == [chargers[id] EXCEPT !.behaviors = b]
  <2>1. /\ charger.session = chargers[id].session /\ charger.vehicle = chargers[id].vehicle
        /\ charger.maxPower = chargers[id].maxPower
    BY ChargerIs DEF ChargerRecord
  <2> HIDE DEF charger
  <2>2. UpdateCharger(Fresh(ledger), id, charger) /\ UNCHANGED <<lastTickAt, tick>>
    BY <1>4 DEF UpdateBehaviors, charger
  <2>3. QED
    BY <2>1, <2>2, StoringIsQuiet
<1>5. QED
  BY <1>1, <1>2, <1>3, <1>4 DEF Manage
\* A stop publishes one bill.
LEMMA StopBillsOnce ==
  ASSUME NEW l, NEW id, NEW session, NEW t, t = StopEvents(l, id, session),
         IsSequence(l.events), Bills(l.events) = {}
  PROVE  IsSequence(t) /\ Bills(t) = {CDROf(id, session)}
<1> DEFINE e == SessionEvent(id, session)
           f == CDREvent(l.lastCDRID + 1, CDROf(id, session))
           s == Append(l.events, e)
<1>1. e.topic # "cdr" /\ f.topic = "cdr" /\ f.cdr = CDROf(id, session)
  BY DEF SessionEvent, CDREvent
<1>2. IsLongerBy(s, l.events, e) /\ IsLongerBy(t, s, f)
  BY DEF IsLongerBy, StopEvents
<1> HIDE DEF e, f, s
<1>3. IsSequence(s) /\ Bills(s) = {}
  BY <1>1, <1>2, OneMoreCall
<1>4. QED
  BY <1>1, <1>2, <1>3, OneMoreCall

\* The end of a session bills it, and leaves the others alone.
LEMMA EndIsMetered ==
  ASSUME IInv, NEW id \in DOMAIN chargers, chargers[id].session # NoSession,
         NEW l, NEW e \in Nat, IsMeteredIn(l, chargers[id], e),
         NEW reason \in StopReasons, NEW nextState, EndSession(l, id, reason, nextState)
  PROVE  EndsItsSession(id, e) /\ \A x \in DOMAIN chargers' \ {id} : GoesOn(x, 0)
<1> DEFINE charger == chargers[id]
           sid     == charger.session
           n       == StopSession(l, sid, reason, now)
           cdr     == CDROf(sid, Ended(l.sessions[sid], reason, now))
           vehicle == Charged(charger.vehicle, l.sessions[sid].energy)
           new     == [charger EXCEPT !.vehicle = IF @ = NoVehicle THEN @ ELSE vehicle,
                                      !.locked = (nextState = "FAULTED"),
                                      !.session = NoSession, !.state = nextState]
<1>1. /\ charger \in ChargerRecord /\ charger.vehicle \in Vehicle
      /\ sid \in ActiveSessions(ledger) /\ ledger.sessions[sid].chargerID = id
  BY ChargingCharger
<1>2. /\ sid \in ActiveSessions(l) /\ LedgerIsRight(l)
      /\ IsSequence(l.events) /\ Bills(l.events) = {}
      /\ l.sessions[sid].chargerID = id
      /\ l.sessions[sid].startedAt = ledger.sessions[sid].startedAt
      /\ l.sessions[sid].energy = ledger.sessions[sid].energy + e
  BY <1>1 DEF IsMeteredIn, SameSessions, NoneStartsOrStops
<1>3. l.sessions[sid] \in SessionRecord
  BY <1>2 DEF LedgerIsRight, IsLedger, IsRepository, ActiveSessions, InState
<1>4. /\ LedgerIsRight(n) /\ OneStops(n, l, sid)
      /\ IsSequence(n.events) /\ Bills(n.events) = {cdr}
  <2>1. now \in Nat
    BY DEF IInv, TypeOK
  <2> DEFINE ended == Ended(l.sessions[sid], reason, now)
  <2> HIDE DEF sid
  <2>2. LedgerIsRight(n) /\ OneStops(n, l, sid) /\ n.events = StopEvents(l, sid, ended)
    BY <1>2, <2>1, StopSessionKeeps
  <2> HIDE DEF ended, n
  <2>3. QED
    BY <1>2, <2>2, StopBillsOnce DEF ended
<1>5. cdr.chargerID = id /\ cdr.energy = ledger.sessions[sid].energy + e
      /\ cdr.startedAt = ledger.sessions[sid].startedAt
  <2> DEFINE session == l.sessions[sid]
  <2>1. session \in SessionRecord
    BY <1>3
  <2> HIDE DEF session
  <2>2. LET c == CDROf(sid, Ended(session, reason, now))
        IN  /\ c.chargerID = session.chargerID /\ c.energy = session.energy
            /\ c.startedAt = session.startedAt
    BY <2>1, EndedIsBilled
  <2>3. QED
    BY <1>2, <2>2 DEF session
<1>6. UpdateCharger(n, id, new)
  BY DEF EndSession
<1>7. new.session = NoSession /\ new.vehicle = vehicle
  <2>1. charger.vehicle # NoVehicle
    BY <1>1, ChargerConfig
  <2> HIDE DEF vehicle, charger
  <2>2. QED
    BY <1>1, <2>1 DEF ChargerRecord
<1> HIDE DEF n, new, cdr
<1>8. /\ ledger'.sessions = n.sessions /\ Bills(ledger'.events) = {cdr}
      /\ DOMAIN chargers' = DOMAIN chargers \cup {id} /\ chargers'[id] = new
      /\ \A x \in DOMAIN chargers : x # id => chargers'[x] = chargers[x]
  BY <1>4, <1>6, ChargerIsPublished
<1>9. sid \notin ActiveSessions(ledger')
  BY <1>4, <1>8 DEF OneStops, ActiveSessions, InState
<1>10. Given(ledger, charger) = ledger.sessions[sid].energy
  BY DEF Given
<1>11. EndsItsSession(id, e)
  <2>1. l.sessions[sid].energy = Given(ledger, charger) + e
    BY <1>2, <1>10
  <2> DEFINE energy == Given(ledger, charger) + e
  <2>2. chargers'[id].session = NoSession /\ chargers'[id].vehicle = Charged(charger.vehicle, energy)
    BY <1>7, <1>8, <2>1
  <2>3. cdr.energy = energy
    BY <1>5, <1>10
  <2>4. QED
    BY <1>5, <1>8, <1>9, <2>2, <2>3 DEF EndsItsSession
<1>12. ASSUME NEW x \in DOMAIN chargers' \ {id} PROVE GoesOn(x, 0)
  <2>1. x \in DOMAIN chargers /\ chargers'[x] = chargers[x]
    BY <1>8
  <2>2. ASSUME chargers[x].session # NoSession
        PROVE  LET s == chargers[x].session
               IN  /\ ledger'.sessions[s].energy = ledger.sessions[s].energy
                   /\ ledger'.sessions[s].startedAt = ledger.sessions[s].startedAt
    <3> DEFINE s == chargers[x].session
    <3>1. s \in ActiveSessions(ledger) /\ s # sid /\ ledger.sessions[s].energy \in Nat
      BY <1>1, <2>1, <2>2, ChargingCharger DEF SessionRecord
    <3>2. /\ s \in ActiveSessions(n) /\ n.sessions[s] = l.sessions[s]
          /\ l.sessions[s].energy = ledger.sessions[s].energy
          /\ l.sessions[s].startedAt = ledger.sessions[s].startedAt
      BY <1>4, <3>1 DEF OneStops, IsMeteredIn, SameSessions, NoneStartsOrStops
    <3>3. QED
      BY <1>8, <3>2
  <2>3. QED
    BY <2>1, <2>2, ItGoesOn
<1>13. QED
  BY <1>11, <1>12

\* Whoever ends a session between ticks has it metered first.
LEMMA EndsBetweenTicks ==
  ASSUME IInv, LockIsFree, UNCHANGED <<now, lastTickAt, tick>>,
         NEW id \in DOMAIN chargers, chargers[id].session # NoSession,
         NEW reason \in StopReasons, NEW nextState,
         EndSession(MeteredSinceLastTick(chargers[id]), id, reason, nextState)
  PROVE  AnEnd(id)
<1> DEFINE l == MeteredSinceLastTick(chargers[id])
           e == ReadAtEnd(id).energy
<1>1. e \in Nat /\ IsMeteredIn(l, chargers[id], e)
  <2>1. now - lastTickAt \in Nat /\ now \in Nat
    BY DEF IInv, TypeOK, TimesAreInOrder
  <2>2. ledger.sessions[chargers[id].session].startedAt <= now
    BY ChargingCharger
  <2>3. QED
    BY <2>1, <2>2, MeteredAdds DEF MeteredSinceLastTick, ReadAtEnd
<1>2. EndSession(l, id, reason, nextState)
  OBVIOUS
<1> HIDE DEF l, e
<1>3. EndsItsSession(id, e) /\ \A x \in DOMAIN chargers' \ {id} : GoesOn(x, 0)
  BY <1>1, <1>2, EndIsMetered
<1>4. QED
  BY <1>1, <1>3 DEF AnEnd, e
\* What a person does meters nothing, or ends one session.
LEMMA PersonIsMetered ==
  ASSUME IInv, PersonActs
  PROVE  MeterStep
<1>1. ASSUME NEW id \in DOMAIN chargers, NEW v \in Vehicles, PlugIn(id, v)
      PROVE  NothingIsMetered
  <2> DEFINE state == IF chargers[id].state = "AVAILABLE" THEN "PREPARING" ELSE chargers[id].state
             new   == [chargers[id] EXCEPT !.vehicle = v, !.state = state]
  <2>1. PluggableVehicle(v)
    BY ChargerConfig
  <2>2. chargers[id].vehicle = NoVehicle /\ chargers[id] \in ChargerRecord /\ Shape(chargers[id])
    BY <1>1, ChargerIs DEF PlugIn
  <2>3. chargers[id].session = NoSession
    BY <2>2 DEF Shape
  <2> HIDE DEF state
  <2>4. new.session = NoSession /\ new.vehicle = v
    BY <2>2, <2>3 DEF ChargerRecord
  <2> HIDE DEF new
  <2>5. UpdateCharger(Fresh(ledger), id, new) /\ UNCHANGED <<lastTickAt, tick>>
    BY <1>1 DEF PlugIn, new, state
  <2>6. QED
    BY <2>1, <2>2, <2>3, <2>4, <2>5, StoringIsQuiet
<1>2. ASSUME NEW id \in DOMAIN chargers, Unplug(id)
      PROVE  NothingIsMetered
  <2> DEFINE state == IF chargers[id].state = "FAULTED" THEN chargers[id].state ELSE "AVAILABLE"
             new   == [chargers[id] EXCEPT !.vehicle = NoVehicle, !.state = state]
  <2>1. ~chargers[id].locked /\ chargers[id] \in ChargerRecord /\ Shape(chargers[id])
    BY <1>2, ChargerIs DEF Unplug
  <2>2. chargers[id].session = NoSession
    BY <2>1 DEF Shape
  <2> HIDE DEF state
  <2>3. new.session = NoSession /\ new.vehicle = NoVehicle
    BY <2>1, <2>2 DEF ChargerRecord
  <2> HIDE DEF new
  <2>4. UpdateCharger(Fresh(ledger), id, new) /\ UNCHANGED <<lastTickAt, tick>>
    BY <1>2 DEF Unplug, new, state
  <2>5. QED
    BY <2>2, <2>3, <2>4, StoringIsQuiet
<1>3. ASSUME NEW id \in DOMAIN chargers, PressStopButton(id)
      PROVE  AnEnd(id)
  BY <1>3, EndsBetweenTicks DEF PressStopButton, StopReasons
<1>4. ASSUME NEW id \in DOMAIN chargers, InjectFault(id)
      PROVE  NothingIsMetered \/ AnEnd(id)
  <2>1. CASE chargers[id].session # NoSession
    BY <1>4, <2>1, EndsBetweenTicks DEF InjectFault, StopReasons
  <2>2. CASE chargers[id].session = NoSession
    <3> DEFINE new == [chargers[id] EXCEPT !.state = "FAULTED"]
    <3>1. /\ new.session = chargers[id].session /\ new.vehicle = chargers[id].vehicle
          /\ new.maxPower = chargers[id].maxPower
      BY ChargerIs DEF ChargerRecord
    <3> HIDE DEF new
    <3>2. UpdateCharger(Fresh(ledger), id, new) /\ UNCHANGED <<lastTickAt, tick>>
      BY <1>4, <2>2 DEF InjectFault, new
    <3>3. QED
      BY <3>1, <3>2, StoringIsQuiet
  <2>3. QED
    BY <2>1, <2>2
<1>5. ASSUME NEW id \in DOMAIN chargers, ClearFault(id)
      PROVE  NothingIsMetered
  <2> DEFINE state == IF chargers[id].vehicle = NoVehicle THEN "AVAILABLE" ELSE "PREPARING"
             new   == [chargers[id] EXCEPT !.locked = FALSE, !.state = state]
  <2> HIDE DEF state
  <2>1. /\ new.session = chargers[id].session /\ new.vehicle = chargers[id].vehicle
        /\ new.maxPower = chargers[id].maxPower
    BY ChargerIs DEF ChargerRecord
  <2> HIDE DEF new
  <2>2. UpdateCharger(Fresh(ledger), id, new) /\ UNCHANGED <<lastTickAt, tick>>
    BY <1>5 DEF ClearFault, new, state
  <2>3. QED
    BY <2>1, <2>2, StoringIsQuiet
<1>6. QED
  BY <1>1, <1>2, <1>3, <1>4, <1>5 DEF PersonActs, MeterStep

\* A session that starts has been given nothing.
LEMMA StartIsQuiet ==
  ASSUME IInv, NEW id \in DOMAIN chargers, StartCharging(id)
  PROVE  NothingIsMetered
<1> DEFINE l     == Fresh(ledger)
           sid   == ledger.lastSessionID + 1
           price == chargers[id].pricePerUnit
           new   == [chargers[id] EXCEPT !.locked = TRUE, !.session = sid, !.state = "CHARGING"]
           n     == StartSession(l, id, price, now)
<1>1. /\ LockIsFree /\ CanStart(chargers[id]) /\ UpdateCharger(n, id, new)
      /\ UNCHANGED <<now, lastTickAt, tick>>
  BY DEF StartCharging
<1>2. id \in Int /\ chargers[id] \in ChargerRecord /\ now \in Nat /\ price \in Nat
  BY DEF IInv, TypeOK, IsRepository, ChargerRecord
<1>3. chargers[id].session = NoSession
  BY <1>1, <1>2, ShapeIsChargerShape DEF CanStart, IInv, Shape
<1>4. /\ LedgerIsRight(l) /\ l.sessions = ledger.sessions
      /\ l.lastSessionID = ledger.lastSessionID
      /\ IsSequence(l.events) /\ Bills(l.events) = {}
  BY FreshSame, FreshIsSilent DEF SameSessions
<1> HIDE DEF l, price, n
<1>5. /\ LedgerIsRight(n)
      /\ sid \in Nat \ {0} /\ sid \notin DOMAIN l.sessions
      /\ n.sessions[sid].startedAt = now /\ n.sessions[sid].energy = 0
      /\ \A s \in DOMAIN l.sessions : n.sessions[s] = l.sessions[s]
      /\ ItIsSaid(n, l, sid)
  <2>1. LedgerIsRight(n) /\ OneStarts(n, l, id, now) /\ ItIsSaid(n, l, l.lastSessionID + 1)
    BY <1>2, <1>4, StartSessionKeeps, StartSessionSays DEF n
  <2>2. n.sessions[l.lastSessionID + 1].energy = 0
    BY <1>4, StartSessionStartsAtZero DEF n
  <2>3. QED
    BY <1>4, <2>1, <2>2 DEF OneStarts
<1>6. IsSequence(n.events) /\ Bills(n.events) = {}
  <2> DEFINE event == SessionEvent(sid, n.sessions[sid])
  <2>1. event.topic # "cdr"
    BY DEF SessionEvent
  <2>2. IsLongerBy(n.events, l.events, event)
    BY <1>5 DEF ItIsSaid, IsLongerBy
  <2> HIDE DEF event
  <2>3. QED
    BY <1>4, <2>1, <2>2, OneMoreCall
<1> HIDE DEF sid
<1>7. new.session = sid /\ new.vehicle = chargers[id].vehicle
  BY <1>2 DEF ChargerRecord
<1> HIDE DEF new
<1>8. /\ ledger'.sessions = n.sessions /\ Bills(ledger'.events) = {}
      /\ DOMAIN chargers' = DOMAIN chargers \cup {id} /\ chargers'[id] = new
      /\ \A x \in DOMAIN chargers : x # id => chargers'[x] = chargers[x]
  <2>1. LedgerIsRight(n) /\ IsSequence(n.events) /\ UpdateCharger(n, id, new)
    BY <1>1, <1>5, <1>6
  <2>2. /\ ledger'.sessions = n.sessions /\ Bills(ledger'.events) = Bills(n.events)
        /\ DOMAIN chargers' = DOMAIN chargers \cup {id} /\ chargers'[id] = new
        /\ \A x \in DOMAIN chargers : x # id => chargers'[x] = chargers[x]
    BY <2>1, ChargerIsPublished, Zenon
  <2>3. QED
    BY <1>6, <2>2
<1>9. StartsASession(id)
  BY <1>1, <1>3, <1>5, <1>7, <1>8 DEF StartsASession, NoSession
<1>10. ASSUME NEW x \in DOMAIN chargers', x # id PROVE GoesOn(x, 0)
  <2>1. chargers[x].session # NoSession => chargers[x].session \in DOMAIN ledger.sessions
    BY <1>8, <1>10, ChargingCharger DEF ActiveSessions, InState
  <2>2. QED
    BY <1>4, <1>5, <1>8, <1>10, <2>1, ItGoesOn
<1>11. QED
  BY <1>1, <1>8, <1>9, <1>10 DEF NothingIsMetered

\* Remote calls start a session, end one, or meter nothing.
LEMMA RemoteIsMetered ==
  ASSUME IInv, Remote
  PROVE  MeterStep
<1>1. ASSUME NEW id \in DOMAIN chargers, UnlockConnector(id)
      PROVE  NothingIsMetered
  <2> DEFINE new == [chargers[id] EXCEPT !.locked = FALSE]
  <2>1. /\ new.session = chargers[id].session /\ new.vehicle = chargers[id].vehicle
        /\ new.maxPower = chargers[id].maxPower
    BY ChargerIs DEF ChargerRecord
  <2> HIDE DEF new
  <2>2. UpdateCharger(Fresh(ledger), id, new) /\ UNCHANGED <<lastTickAt, tick>>
    BY <1>1 DEF UnlockConnector, new
  <2>3. QED
    BY <2>1, <2>2, StoringIsQuiet
<1>2. ASSUME NEW s \in DOMAIN ledger.sessions, StopCharging(s)
      PROVE  \E id \in DOMAIN chargers : AnEnd(id)
  <2> DEFINE id == ledger.sessions[s].chargerID
  <2>1. s # NoSession
    BY DEF IInv, TypeOK, IsLedger, IsRepository, NoSession
  <2>2. id \in DOMAIN chargers /\ chargers[id].session # NoSession
    BY <1>2, <2>1 DEF StopCharging, CanStop
  <2>3. /\ LockIsFree /\ UNCHANGED <<now, lastTickAt, tick>>
        /\ EndSession(MeteredSinceLastTick(chargers[id]), id, "REMOTE", "FINISHING")
    BY <1>2 DEF StopCharging
  <2> HIDE DEF id
  <2>4. AnEnd(id)
    BY <2>2, <2>3, EndsBetweenTicks DEF StopReasons
  <2>5. QED
    BY <2>2, <2>4
<1>3. QED
  BY <1>1, <1>2, StartIsQuiet DEF Remote, MeterStep

\* The tick lists the charging chargers, and meters one after another.
LEMMA TickIsMetered ==
  ASSUME IInv, TickLoop
  PROVE  MeterStep
<1>1. CASE TickBegins
  <2> DEFINE charging == {id \in DOMAIN chargers : chargers[id].state = "CHARGING"}
             begun    == [at |-> now, elapsed |-> now - lastTickAt, todo |-> charging]
  <2>1. /\ LockIsFree /\ lastTickAt' = now /\ tick' = IF charging = {} THEN NoTick ELSE begun
        /\ ledger' = Fresh(ledger) /\ UNCHANGED <<now, chargers>>
    BY <1>1 DEF TickBegins
  <2>2. /\ tick'.todo = charging
        /\ charging # {} => tick'.at = now /\ tick'.elapsed = now - lastTickAt
    <3>1. CASE charging = {}
      BY <2>1, <3>1 DEF NoTick
    <3>2. CASE charging # {}
      <4> HIDE DEF charging
      <4>1. QED
        BY <2>1, <3>2
    <3>3. QED
      BY <3>1, <3>2
  <2>3. charging = {id \in DOMAIN chargers : chargers[id].session # NoSession}
    BY ShapeIsChargerShape DEF IInv, Shape
  <2>4. Bills(ledger'.events) = {} /\ ledger'.sessions = ledger.sessions
    BY <2>1, FreshSame, FreshIsSilent
  <2>5. \A id \in DOMAIN chargers' : GoesOn(id, 0)
    BY <2>1, <2>4, ItGoesOn
  <2> HIDE DEF charging
  <2>6. ATickBegins
    BY <2>1, <2>2, <2>3, <2>4, <2>5 DEF ATickBegins
  <2>7. QED
    BY <2>6 DEF MeterStep
<1>2. ASSUME NEW id \in tick.todo, NEW roll \in Rolls, AdvanceCharging(id, roll)
      PROVE  id \in DOMAIN chargers /\ ATurn(id)
  <2> DEFINE l == Metered(chargers[id], tick.elapsed, tick.at)
             e == ReadInTick(id).energy
  <2>1. id \in DOMAIN chargers /\ chargers[id].session # NoSession
    BY ShapeIsChargerShape DEF IInv, TypeOK, TickListIsCurrent, Shape
  <2>2. e \in Nat /\ IsMeteredIn(l, chargers[id], e)
    <3>1. /\ tick.elapsed \in Nat /\ tick.at \in Nat
          /\ ledger.sessions[chargers[id].session].startedAt <= tick.at
      BY DEF IInv, TypeOK, TimesAreInOrder
    <3>2. QED
      BY <2>1, <3>1, MeteredAdds DEF ReadInTick
  <2>3. /\ UNCHANGED <<now, lastTickAt>> /\ TurnIsOver(id)
        /\ \/ EndSession(l, id, "VEHICLE_FULL", "FINISHING")
           \/ EndSession(l, id, "FAULT", "FAULTED")
           \/ ~ReadInTick(id).vehicleFull /\ ledger' = l /\ UNCHANGED chargers
    BY <1>2 DEF AdvanceCharging, ReadInTick
  <2> HIDE DEF l, e
  <2>4. CASE EndSession(l, id, "VEHICLE_FULL", "FINISHING") \/ EndSession(l, id, "FAULT", "FAULTED")
    <3>1. EndsItsSession(id, e) /\ \A x \in DOMAIN chargers' \ {id} : GoesOn(x, 0)
      BY <2>1, <2>2, <2>4, EndIsMetered DEF StopReasons
    <3>2. QED
      BY <2>1, <2>2, <2>3, <3>1 DEF ATurn, e
  <2>5. CASE ~ReadInTick(id).vehicleFull /\ ledger' = l /\ UNCHANGED chargers
    <3>1. Bills(ledger'.events) = {}
      BY <2>2, <2>5 DEF IsMeteredIn
    <3>2. ASSUME NEW x \in DOMAIN chargers' PROVE GoesOn(x, IF x = id THEN e ELSE 0)
      <4> DEFINE s == chargers[x].session
      <4>1. x \in DOMAIN chargers /\ chargers'[x] = chargers[x]
        BY <2>5
      <4>2. ASSUME s # NoSession
            PROVE  /\ ledger'.sessions[s].energy =
                        ledger.sessions[s].energy + (IF x = id THEN e ELSE 0)
                   /\ ledger'.sessions[s].startedAt = ledger.sessions[s].startedAt
        <5>1. /\ s \in ActiveSessions(ledger) /\ ledger.sessions[s].chargerID = x
              /\ ledger.sessions[chargers[id].session].chargerID = id
          BY <2>1, <4>1, <4>2, ChargingCharger
        <5>2. s = chargers[id].session <=> x = id
          BY <5>1
        <5>3. QED
          BY <2>2, <2>5, <5>1, <5>2 DEF IsMeteredIn, SameSessions, NoneStartsOrStops
      <4>3. QED
        BY <4>1, <4>2 DEF GoesOn
    <3>3. GoesOn(id, e) /\ \A x \in DOMAIN chargers' \ {id} : GoesOn(x, 0)
      BY <2>1, <2>5, <3>2
    <3>4. QED
      BY <2>1, <2>2, <2>3, <2>5, <3>1, <3>3 DEF ATurn, e
  <2>6. QED
    BY <2>3, <2>4, <2>5
<1>3. QED
  BY <1>1, <1>2 DEF TickLoop, MeterStep

\* What any step does to the meters.
LEMMA StepIsMetered ==
  ASSUME NoIDLooksIssued, IInv, Next
  PROVE  MeterStep
<1>1. CASE Manage
  BY <1>1, ManageIsQuiet DEF MeterStep
<1>2. CASE PersonActs
  BY <1>2, PersonIsMetered
<1>3. CASE Remote
  BY <1>3, RemoteIsMetered
<1>4. CASE TickLoop
  BY <1>4, TickIsMetered
<1>5. CASE TimePasses
  <2>1. /\ Bills(ledger'.events) = {} /\ ledger'.sessions = ledger.sessions
        /\ UNCHANGED <<lastTickAt, tick, chargers>>
    BY <1>5, FreshSame, FreshIsSilent DEF TimePasses
  <2>2. \A id \in DOMAIN chargers' : GoesOn(id, 0)
    BY <2>1, ItGoesOn
  <2>3. QED
    BY <2>1, <2>2 DEF NothingIsMetered, MeterStep
<1>6. QED
  BY <1>1, <1>2, <1>3, <1>4, <1>5 DEF Next
(***************************************************************************)
(* What the readings add up to.                                            *)
(***************************************************************************)

\* The battery has room for what the meter reads, and the vehicle is not yet full unless it is.
LEMMA ReadingFits ==
  ASSUME NEW maxPower \in Nat \ {0}, NEW vehicle \in Vehicle, NEW energy \in Nat,
         NEW elapsed \in Nat, NEW duration \in Nat,
         vehicle.level + energy <= vehicle.capacity
  PROVE  LET reading == Reading(maxPower, vehicle, energy, elapsed, duration)
         IN  /\ reading.energy \in Nat
             /\ vehicle.level + (energy + reading.energy) <= vehicle.capacity
             /\ ~Tapers(vehicle, LevelAfter(vehicle, energy + reading.energy)) =>
                  reading.energy = Smaller(maxPower, vehicle.maxPower) * Smaller(elapsed, duration)
             /\ elapsed > 0 /\ duration > 0 /\ ~reading.vehicleFull => reading.energy > 0
<1> DEFINE reading == Reading(maxPower, vehicle, energy, elapsed, duration)
           level   == vehicle.level + energy
           power   == Smaller(maxPower, vehicle.maxPower)
           time    == Smaller(elapsed, duration)
           rate    == DeliveredPower(maxPower, vehicle, level)
           drawn   == rate * time
           left    == vehicle.capacity - level
<1>1. vehicle.capacity \in Nat \ {0} /\ vehicle.maxPower \in Nat \ {0} /\ vehicle.level \in Nat
  BY DEF Vehicle
<1>2. LevelAfter(vehicle, energy) = level /\ level \in Nat /\ left \in Nat
  BY <1>1 DEF LevelAfter, Smaller
<1>3. /\ power \in Nat \ {0} /\ time \in Nat
      /\ elapsed > 0 /\ duration > 0 => time > 0
  BY <1>1 DEF Smaller
<1>4. reading.energy = Smaller(drawn, left) /\ reading.vehicleFull = (drawn >= left)
  BY <1>2 DEF Reading, ChargingElapsed
<1> HIDE DEF reading, level, power, time
<1>5. TaperedPower(power, vehicle, level) \in Nat \ {0}
  <2> DEFINE a == power * (92 * vehicle.capacity - 90 * level)
             b == 20 * vehicle.capacity
  <2>1. a \in Int /\ b \in Nat \ {0}
    BY <1>1, <1>2, <1>3
  <2> HIDE DEF a, b
  <2>2. a \div b \in Int
    BY <2>1
  <2>3. QED
    BY <2>2 DEF TaperedPower, a, b
<1>6. /\ rate \in Nat \ {0}
      /\ ~Tapers(vehicle, level) => rate = power
  BY <1>3, <1>5 DEF DeliveredPower, power
<1> HIDE DEF rate
<1>7. drawn \in Nat /\ (time > 0 => drawn > 0)
  BY <1>3, <1>6
<1> HIDE DEF drawn, left
<1>8. /\ reading.energy \in Nat /\ reading.energy <= left
      /\ reading.energy = drawn \/ reading.energy = left
      /\ ~reading.vehicleFull => reading.energy = drawn
  <2>1. drawn >= left => reading.vehicleFull
    BY <1>4
  <2>2. QED
    BY <1>2, <1>4, <1>7, <2>1 DEF Smaller
<1>9. vehicle.level + (energy + reading.energy) = level + reading.energy
  BY <1>1, <1>8 DEF level
<1>10. level + reading.energy <= vehicle.capacity
  BY <1>1, <1>2, <1>8 DEF left
<1>11. LevelAfter(vehicle, energy + reading.energy) = level + reading.energy
  <2>1. level + reading.energy \in Nat
    BY <1>2, <1>8
  <2>2. QED
    BY <1>1, <1>9, <1>10, <2>1 DEF LevelAfter, Smaller
<1>12. ASSUME ~Tapers(vehicle, level + reading.energy)
       PROVE  reading.energy = power * time
  <2>1. 10 * (level + reading.energy) <= 8 * vehicle.capacity
    BY <1>1, <1>2, <1>8, <1>12 DEF Tapers
  <2>2. ~Tapers(vehicle, level)
    BY <1>1, <1>2, <1>8, <2>1 DEF Tapers
  <2>3. reading.energy # left
    BY <1>1, <1>2, <1>8, <2>1 DEF left
  <2>4. QED
    BY <1>6, <1>8, <2>2, <2>3 DEF drawn
<1>13. QED
  BY <1>3, <1>7, <1>8, <1>9, <1>10, <1>11, <1>12 DEF reading, power, time

\* No battery is overfilled, also by what a session in progress has delivered on top.
BatteriesHold ==
  \A id \in DOMAIN chargers : chargers[id].vehicle # NoVehicle =>
    chargers[id].vehicle.level + Given(ledger, chargers[id]) <= chargers[id].vehicle.capacity

\* The tick in progress is the last that began.
TickIsTheLast == LockIsFree \/ tick.at = lastTickAt

MeterInv == BatteriesHold /\ TickIsTheLast /\ EveryMomentMeteredOnce

\* A reading e that reaches to the moment at leaves the session of a charger within what the
\* battery holds, and, unless the battery tapers by then, metered at full power from its start.
AddsUp(id, e, at) ==
  LET vehicle == chargers[id].vehicle
      given   == Given(ledger, chargers[id]) + e
  IN  /\ given \in Nat
      /\ vehicle.level + given <= vehicle.capacity
      /\ ~Tapers(vehicle, LevelAfter(vehicle, given)) =>
           given = FullPower(chargers[id])
                     * (at - ledger.sessions[chargers[id].session].startedAt)

\* A reading that begins where the last one ended does.
LEMMA ReadingsAddUp ==
  ASSUME IInv, MeterInv, NEW id \in DOMAIN chargers, chargers[id].session # NoSession,
         NEW elapsed \in Nat, NEW at \in Nat, at - elapsed = MeteredUntil(id),
         ledger.sessions[chargers[id].session].startedAt <= at
  PROVE  LET reading == ReadMeter(chargers[id], elapsed, at)
         IN  /\ AddsUp(id, reading.energy, at)
             /\ /\ elapsed > 0 /\ at > ledger.sessions[chargers[id].session].startedAt
                /\ ~reading.vehicleFull
                => reading.energy > 0
<1> DEFINE charger == chargers[id]
           vehicle == charger.vehicle
           session == ledger.sessions[charger.session]
           start   == session.startedAt
           given   == session.energy
           reading == ReadMeter(charger, elapsed, at)
           e       == reading.energy
           power   == FullPower(charger)
           time    == Smaller(elapsed, at - start)
<1>1. /\ charger \in ChargerRecord /\ vehicle \in Vehicle /\ session \in SessionRecord
      /\ vehicle # NoVehicle
  BY ChargingCharger, ChargerConfig
<1>2. /\ charger.maxPower \in Nat \ {0} /\ given \in Nat /\ start \in Nat /\ start <= at
      /\ vehicle.maxPower \in Nat \ {0} /\ vehicle.level \in Nat /\ vehicle.capacity \in Nat
  BY <1>1 DEF ChargerRecord, SessionRecord, Vehicle
<1>3. Given(ledger, charger) = given
  BY DEF Given
<1>4. vehicle.level + given <= vehicle.capacity
  BY <1>1, <1>3 DEF MeterInv, BatteriesHold
<1>5. power = Smaller(charger.maxPower, vehicle.maxPower) /\ power \in Nat
  BY <1>2 DEF FullPower, Smaller
<1>6. reading = Reading(charger.maxPower, vehicle, given, elapsed, at - start)
  BY DEF ReadMeter
<1>7. LET t    == MeteredUntil(id) - start
          full == IF t < 0 THEN 0 ELSE t
      IN  ~Tapers(vehicle, LevelAfter(vehicle, given)) => given = power * full
  BY DEF MeterInv, EveryMomentMeteredOnce
<1> HIDE DEF charger, session, reading, power
<1>8. /\ e \in Nat
      /\ vehicle.level + (given + e) <= vehicle.capacity
      /\ ~Tapers(vehicle, LevelAfter(vehicle, given + e)) => e = power * time
      /\ elapsed > 0 /\ at - start > 0 /\ ~reading.vehicleFull => e > 0
  <2>1. at - start \in Nat
    BY <1>2
  <2> DEFINE duration == at - start
  <2> HIDE DEF vehicle, given, duration
  <2>2. LET r == Reading(charger.maxPower, vehicle, given, elapsed, duration)
        IN  /\ r.energy \in Nat
            /\ vehicle.level + (given + r.energy) <= vehicle.capacity
            /\ ~Tapers(vehicle, LevelAfter(vehicle, given + r.energy)) =>
                 r.energy = Smaller(charger.maxPower, vehicle.maxPower) * Smaller(elapsed, duration)
            /\ elapsed > 0 /\ duration > 0 /\ ~r.vehicleFull => r.energy > 0
    BY <1>1, <1>2, <1>4, <2>1, ReadingFits DEF duration
  <2>3. QED
    BY <1>5, <1>6, <2>2 DEF duration
<1> HIDE DEF vehicle, given, start
<1>9. ASSUME ~Tapers(vehicle, LevelAfter(vehicle, given + e))
      PROVE  given + e = power * (at - start)
  <2>1. /\ LevelAfter(vehicle, given + e) = vehicle.level + (given + e)
        /\ LevelAfter(vehicle, given) = vehicle.level + given
    BY <1>2, <1>4, <1>8 DEF LevelAfter, Smaller
  <2>2. ~Tapers(vehicle, LevelAfter(vehicle, given))
    BY <1>2, <1>8, <1>9, <2>1 DEF Tapers
  <2> DEFINE t    == MeteredUntil(id) - start
             full == IF t < 0 THEN 0 ELSE t
  <2>3. given = power * full /\ e = power * time
    BY <1>7, <1>8, <1>9, <2>2
  <2>4. full + time = at - start /\ full \in Nat /\ time \in Nat
    BY <1>2 DEF Smaller
  <2> HIDE DEF full, time
  <2>5. power * full + power * time = power * (full + time)
    BY <1>5, <2>4
  <2>6. QED
    BY <2>3, <2>4, <2>5
<1>10. AddsUp(id, e, at)
  <2>1. given + e \in Nat
    BY <1>2, <1>8
  <2>2. QED
    BY <1>3, <1>8, <1>9, <2>1 DEF AddsUp, charger, vehicle, start, session, power, given
<1>11. QED
  BY <1>2, <1>8, <1>10 DEF charger, session, reading, start
\* So does a turn in the tick.
LEMMA TurnAddsUp ==
  ASSUME IInv, MeterInv, NEW id \in tick.todo
  PROVE  /\ id \in DOMAIN chargers /\ chargers[id].session # NoSession
         /\ AddsUp(id, ReadInTick(id).energy, tick.at)
         /\ /\ tick.elapsed > 0
            /\ tick.at > ledger.sessions[chargers[id].session].startedAt
            /\ ~ReadInTick(id).vehicleFull
            => ReadInTick(id).energy > 0
         /\ ledger.sessions[chargers[id].session].startedAt <= tick.at
         /\ lastTickAt = tick.at
<1>1. id \in DOMAIN chargers /\ chargers[id].session # NoSession
  BY ShapeIsChargerShape DEF IInv, TypeOK, TickListIsCurrent, Shape
<1>2. /\ tick.elapsed \in Nat /\ tick.at \in Nat
      /\ ledger.sessions[chargers[id].session].startedAt <= tick.at
  BY DEF IInv, TypeOK, TimesAreInOrder
<1>3. tick.at - tick.elapsed = MeteredUntil(id)
  BY DEF MeteredUntil
<1>4. lastTickAt = tick.at
  BY DEF MeterInv, TickIsTheLast, LockIsFree
<1>5. QED
  BY <1>1, <1>2, <1>3, <1>4, ReadingsAddUp DEF ReadInTick

\* So does the reading at the end of a session between ticks.
LEMMA EndAddsUp ==
  ASSUME IInv, MeterInv, LockIsFree, NEW id \in DOMAIN chargers, chargers[id].session # NoSession
  PROVE  AddsUp(id, ReadAtEnd(id).energy, now)
<1>1. now \in Nat /\ lastTickAt \in Nat /\ now - lastTickAt \in Nat
  BY DEF IInv, TypeOK, TimesAreInOrder
<1>2. ledger.sessions[chargers[id].session].startedAt <= now
  BY ChargingCharger
<1>3. now - (now - lastTickAt) = MeteredUntil(id)
  BY <1>1 DEF MeteredUntil, LockIsFree
<1>4. QED
  BY <1>1, <1>2, <1>3, ReadingsAddUp DEF ReadAtEnd

\* What BatteriesHold and EveryMomentMeteredOnce say of one charger.
BatteryHolds(id) ==
  chargers[id].vehicle # NoVehicle =>
    chargers[id].vehicle.level + Given(ledger, chargers[id]) <= chargers[id].vehicle.capacity

MeteredOnce(id) ==
  chargers[id].session # NoSession =>
    LET charger == chargers[id]
        session == ledger.sessions[charger.session]
        time    == MeteredUntil(id) - session.startedAt
    IN  ~Tapers(charger.vehicle, LevelAfter(charger.vehicle, session.energy)) =>
          session.energy = FullPower(charger) * (IF time < 0 THEN 0 ELSE time)

\* A charger that goes on as it was is still right.
LEMMA GoingOnIsRight ==
  ASSUME IInv, NEW id, GoesOn(id, 0), BatteryHolds(id), MeteredOnce(id),
         chargers[id].session # NoSession => MeteredUntil(id)' = MeteredUntil(id)
  PROVE  BatteryHolds(id)' /\ MeteredOnce(id)'
<1> DEFINE charger == chargers[id]
           s       == charger.session
<1>1. /\ id \in DOMAIN chargers /\ chargers'[id].session = s
      /\ chargers'[id].vehicle = charger.vehicle
      /\ chargers'[id].maxPower = charger.maxPower
  BY DEF GoesOn
<1>2. ASSUME s # NoSession
      PROVE  /\ ledger'.sessions[s].energy = ledger.sessions[s].energy
             /\ ledger'.sessions[s].startedAt = ledger.sessions[s].startedAt
  <2>1. ledger.sessions[s].energy \in Nat
    BY <1>1, <1>2, ChargingCharger DEF SessionRecord
  <2>2. QED
    BY <1>2, <2>1 DEF GoesOn
<1>3. Given(ledger, charger)' = Given(ledger, charger)
  BY <1>1, <1>2 DEF Given
<1>4. BatteryHolds(id)'
  BY <1>1, <1>3 DEF BatteryHolds
<1>5. FullPower(charger)' = FullPower(charger)
  BY <1>1 DEF FullPower
<1>6. MeteredOnce(id)'
  <2> SUFFICES ASSUME s # NoSession PROVE MeteredOnce(id)'
    BY <1>1 DEF MeteredOnce
  <2>1. MeteredUntil(id)' = MeteredUntil(id)
    OBVIOUS
  <2> DEFINE until == MeteredUntil(id)
             power == FullPower(charger)
  <2>2. until' = until /\ power' = power
    BY <1>5, <2>1
  <2>3. LET session == ledger.sessions[s]
            time    == until - session.startedAt
        IN  ~Tapers(charger.vehicle, LevelAfter(charger.vehicle, session.energy)) =>
              session.energy = power * (IF time < 0 THEN 0 ELSE time)
    BY DEF MeteredOnce
  <2> HIDE DEF until, power
  <2>4. LET session == ledger'.sessions[s]
            time    == until' - session.startedAt
        IN  ~Tapers(charger.vehicle, LevelAfter(charger.vehicle, session.energy)) =>
              session.energy = power' * (IF time < 0 THEN 0 ELSE time)
    BY <1>2, <2>2, <2>3
  <2>5. QED
    BY <1>1, <2>4 DEF MeteredOnce, until, power
<1>7. QED
  BY <1>4, <1>6

\* A charger that has no session any more has credited its vehicle with what there was room for.
LEMMA EndedIsRight ==
  ASSUME IInv, NEW id, NEW e, NEW at, EndsItsSession(id, e), AddsUp(id, e, at)
  PROVE  BatteryHolds(id)' /\ MeteredOnce(id)'
<1> DEFINE vehicle == chargers[id].vehicle
           given   == Given(ledger, chargers[id]) + e
<1>1. /\ id \in DOMAIN chargers /\ chargers[id].session # NoSession
      /\ chargers'[id].session = NoSession /\ chargers'[id].vehicle = Charged(vehicle, given)
  BY DEF EndsItsSession
<1>2. vehicle \in Vehicle
  BY <1>1, ChargingCharger
<1>3. given \in Nat /\ vehicle.level + given <= vehicle.capacity
  BY DEF AddsUp
<1> HIDE DEF vehicle, given
<1>4. LevelAfter(vehicle, given) = vehicle.level + given
  BY <1>2, <1>3 DEF LevelAfter, Smaller, Vehicle
<1>5. /\ Charged(vehicle, given).level = vehicle.level + given
      /\ Charged(vehicle, given).capacity = vehicle.capacity
  BY <1>2, <1>4 DEF Charged, Vehicle
<1>6. Given(ledger, chargers[id])' = 0
  BY <1>1 DEF Given
<1>7. vehicle.level + given + 0 <= vehicle.capacity
  BY <1>2, <1>3 DEF Vehicle
<1>8. QED
  BY <1>1, <1>3, <1>5, <1>6, <1>7 DEF BatteryHolds, MeteredOnce

\* A charger that starts a session has been given nothing, for no time.
LEMMA StartedIsRight ==
  ASSUME IInv, IInv', NEW id, StartsASession(id), BatteryHolds(id), UNCHANGED <<lastTickAt, tick>>
  PROVE  BatteryHolds(id)' /\ MeteredOnce(id)'
<1> DEFINE new == chargers'[id]
<1>1. /\ LockIsFree /\ chargers[id].session = NoSession /\ new.session # NoSession
      /\ id \in DOMAIN chargers' /\ new.vehicle = chargers[id].vehicle
      /\ ledger'.sessions[new.session].energy = 0
      /\ ledger'.sessions[new.session].startedAt = now
  BY DEF StartsASession
<1>2. Given(ledger, chargers[id]) = 0 /\ Given(ledger, chargers[id])' = 0
  BY <1>1 DEF Given
<1>3. BatteryHolds(id)'
  BY <1>1, <1>2 DEF BatteryHolds
<1>4. MeteredUntil(id)' = lastTickAt /\ lastTickAt \in Nat /\ now \in Nat /\ lastTickAt <= now
  BY <1>1 DEF MeteredUntil, LockIsFree, IInv, TypeOK, TimesAreInOrder
<1>5. FullPower(new) \in Int
  <2>1. new \in ChargerRecord /\ new.vehicle # NoVehicle
    BY <1>1 DEF IInv, TypeOK, IsRepository, ChargerShape
  <2>2. QED
    BY <2>1 DEF ChargerRecord, FullPower, Vehicle
<1> DEFINE time == lastTickAt - now
           full == IF time < 0 THEN 0 ELSE time
           power == FullPower(new)
<1>6. full = 0
  BY <1>4
<1> HIDE DEF full, power
<1>7. 0 = power * full
  BY <1>5, <1>6 DEF power
<1>8. MeteredOnce(id)'
  BY <1>1, <1>4, <1>7 DEF MeteredOnce, full, power
<1>9. QED
  BY <1>3, <1>8

\* The meters stay right.
LEMMA MeterStepIsRight ==
  ASSUME IInv, IInv', MeterInv, MeterStep
  PROVE  MeterInv'
<1>1. \A id \in DOMAIN chargers : BatteryHolds(id) /\ MeteredOnce(id)
  BY DEF MeterInv, BatteriesHold, EveryMomentMeteredOnce, BatteryHolds, MeteredOnce
<1>2. CASE NothingIsMetered
  <2>1. ASSUME NEW id \in DOMAIN chargers' PROVE BatteryHolds(id)' /\ MeteredOnce(id)'
    <3>1. CASE GoesOn(id, 0)
      <4>1. MeteredUntil(id)' = MeteredUntil(id)
        BY <1>2 DEF NothingIsMetered, MeteredUntil
      <4>2. QED
        BY <1>1, <3>1, <4>1, GoingOnIsRight DEF GoesOn
    <3>2. CASE ChangesVehicle(id)
      <4>1. Given(ledger, chargers[id])' = 0 /\ chargers'[id].session = NoSession
        BY <3>2 DEF ChangesVehicle, Given
      <4>2. QED
        BY <3>2, <4>1 DEF ChangesVehicle, BatteryHolds, MeteredOnce, PluggableVehicle, Vehicle
    <3>3. CASE StartsASession(id)
      BY <1>1, <1>2, <3>3, StartedIsRight DEF NothingIsMetered, StartsASession
    <3>4. QED
      BY <1>2, <3>1, <3>2, <3>3 DEF NothingIsMetered
  <2>2. TickIsTheLast'
    BY <1>2 DEF NothingIsMetered, MeterInv, TickIsTheLast, LockIsFree
  <2>3. QED
    BY <2>1, <2>2 DEF MeterInv, BatteriesHold, EveryMomentMeteredOnce, BatteryHolds, MeteredOnce
<1>3. CASE ATickBegins
  <2>1. now \in Nat /\ lastTickAt \in Nat
    BY DEF IInv, TypeOK
  <2>2. ASSUME NEW id \in DOMAIN chargers' PROVE BatteryHolds(id)' /\ MeteredOnce(id)'
    <3>1. ASSUME chargers[id].session # NoSession PROVE MeteredUntil(id)' = MeteredUntil(id)
      <4>1. id \in tick'.todo /\ MeteredUntil(id) = lastTickAt
        BY <1>3, <3>1 DEF ATickBegins, MeteredUntil, LockIsFree
      <4>2. tick'.at - tick'.elapsed = lastTickAt
        BY <1>3, <2>1, <4>1 DEF ATickBegins
      <4>3. QED
        BY <4>1, <4>2 DEF MeteredUntil
    <3>2. QED
      BY <1>1, <1>3, <3>1, GoingOnIsRight DEF ATickBegins, GoesOn
  <2>3. TickIsTheLast'
    BY <1>3 DEF ATickBegins, TickIsTheLast, LockIsFree
  <2>4. QED
    BY <2>2, <2>3 DEF MeterInv, BatteriesHold, EveryMomentMeteredOnce, BatteryHolds, MeteredOnce
<1>4. ASSUME NEW id \in DOMAIN chargers, ATurn(id) PROVE MeterInv'
  <2> DEFINE e == ReadInTick(id).energy
  <2>1. /\ id \in tick.todo /\ lastTickAt' = lastTickAt
        /\ tick' = IF tick.todo = {id} THEN NoTick ELSE [tick EXCEPT !.todo = @ \ {id}]
    BY <1>4 DEF ATurn, TurnIsOver
  <2>2. /\ chargers[id].session # NoSession /\ AddsUp(id, e, tick.at)
        /\ ledger.sessions[chargers[id].session].startedAt <= tick.at
        /\ lastTickAt = tick.at
    BY <2>1, TurnAddsUp
  <2>3. tick = [at |-> tick.at, elapsed |-> tick.elapsed, todo |-> tick.todo]
    BY DEF IInv, TypeOK
  <2>4. \/ tick'.todo = {} /\ tick.todo = {id}
        \/ tick'.todo = tick.todo \ {id} /\ tick'.at = tick.at /\ tick'.elapsed = tick.elapsed
    BY <2>1, <2>3 DEF NoTick
  <2>5. TickIsTheLast'
    BY <2>1, <2>2, <2>4 DEF TickIsTheLast, LockIsFree
  <2>6. ASSUME NEW x \in DOMAIN chargers', x # id PROVE BatteryHolds(x)' /\ MeteredOnce(x)'
    <3>1. MeteredUntil(x)' = MeteredUntil(x)
      BY <2>1, <2>4, <2>6 DEF MeteredUntil
    <3>2. GoesOn(x, 0)
      BY <1>4, <2>6 DEF ATurn
    <3>3. QED
      BY <1>1, <3>1, <3>2, GoingOnIsRight DEF GoesOn
  <2> HIDE DEF e
  <2>7. CASE EndsItsSession(id, e)
    <3>1. BatteryHolds(id)' /\ MeteredOnce(id)'
      BY <2>2, <2>7, EndedIsRight
    <3>2. QED
      BY <2>5, <2>6, <3>1
         DEF MeterInv, BatteriesHold, EveryMomentMeteredOnce, BatteryHolds, MeteredOnce
  <2>8. CASE GoesOn(id, e)
    <3> DEFINE s       == chargers[id].session
               vehicle == chargers[id].vehicle
               start   == ledger.sessions[s].startedAt
               given   == Given(ledger, chargers[id]) + e
    <3>1. /\ s # NoSession /\ chargers'[id].session = s
          /\ chargers'[id].vehicle = vehicle /\ chargers'[id].maxPower = chargers[id].maxPower
          /\ ledger'.sessions[s].energy = given /\ ledger'.sessions[s].startedAt = start
      BY <2>2, <2>8 DEF GoesOn, Given
    <3>2. Given(ledger, chargers[id])' = given
      BY <3>1 DEF Given
    <3>3. FullPower(chargers[id])' = FullPower(chargers[id])
      BY <3>1 DEF FullPower
    <3>4. MeteredUntil(id)' = tick.at
      BY <2>1, <2>2, <2>4 DEF MeteredUntil
    <3>5. /\ vehicle.level + given <= vehicle.capacity
          /\ ~Tapers(vehicle, LevelAfter(vehicle, given)) =>
               given = FullPower(chargers[id]) * (tick.at - start)
      BY <2>2 DEF AddsUp
    <3>6. BatteryHolds(id)'
      BY <3>1, <3>2, <3>5 DEF BatteryHolds
    <3>7. MeteredOnce(id)'
      <4> DEFINE time  == tick.at - start
                 full  == IF time < 0 THEN 0 ELSE time
                 power == FullPower(chargers[id])
      <4>1. tick.at \in Nat /\ start \in Nat /\ start <= tick.at
        BY <2>2, <3>1, ChargingCharger DEF IInv, TypeOK, SessionRecord
      <4>2. full = tick.at - start
        BY <4>1
      <4> HIDE DEF full, power, given, vehicle, s
      <4>3. ~Tapers(vehicle, LevelAfter(vehicle, given)) => given = power * full
        BY <3>5, <4>2 DEF power
      <4>4. power' = power
        BY <3>3 DEF power
      <4>5. LET charger == chargers'[id]
                session == ledger'.sessions[charger.session]
            IN  ~Tapers(charger.vehicle, LevelAfter(charger.vehicle, session.energy)) =>
                  session.energy = power' * full
        BY <3>1, <4>3, <4>4
      <4>6. full = IF MeteredUntil(id)' - ledger'.sessions[chargers'[id].session].startedAt < 0
                   THEN 0
                   ELSE MeteredUntil(id)' - ledger'.sessions[chargers'[id].session].startedAt
        BY <3>1, <3>4 DEF full
      <4>7. QED
        BY <4>5, <4>6 DEF MeteredOnce, power
    <3>8. QED
      BY <2>5, <2>6, <3>6, <3>7
         DEF MeterInv, BatteriesHold, EveryMomentMeteredOnce, BatteryHolds, MeteredOnce
  <2>9. QED
    BY <1>4, <2>7, <2>8 DEF ATurn, e
<1>5. ASSUME NEW id \in DOMAIN chargers, AnEnd(id) PROVE MeterInv'
  <2> DEFINE e == ReadAtEnd(id).energy
  <2>1. LockIsFree /\ UNCHANGED <<lastTickAt, tick>> /\ EndsItsSession(id, e)
    BY <1>5 DEF AnEnd
  <2>2. AddsUp(id, e, now)
    BY <2>1, EndAddsUp DEF EndsItsSession
  <2> HIDE DEF e
  <2>3. BatteryHolds(id)' /\ MeteredOnce(id)'
    BY <2>1, <2>2, EndedIsRight
  <2>4. ASSUME NEW x \in DOMAIN chargers', x # id PROVE BatteryHolds(x)' /\ MeteredOnce(x)'
    <3>1. MeteredUntil(x)' = MeteredUntil(x)
      BY <2>1 DEF MeteredUntil
    <3>2. GoesOn(x, 0)
      BY <1>5, <2>4 DEF AnEnd
    <3>3. QED
      BY <1>1, <3>1, <3>2, GoingOnIsRight DEF GoesOn
  <2>5. TickIsTheLast'
    BY <2>1 DEF TickIsTheLast, LockIsFree
  <2>6. QED
    BY <2>3, <2>4, <2>5
       DEF MeterInv, BatteriesHold, EveryMomentMeteredOnce, BatteryHolds, MeteredOnce
<1>6. QED
  BY <1>2, <1>3, <1>4, <1>5 DEF MeterStep
\* At the start there is no charger.
LEMMA MeterInvInit == Init => MeterInv
BY DEF Init, EmptyRepository, MeterInv, BatteriesHold, TickIsTheLast, EveryMomentMeteredOnce,
       LockIsFree, NoTick

\* Metering is right throughout.
LEMMA MeterInvHolds == ASSUME NoIDLooksIssued PROVE Spec => [](IInv /\ MeterInv)
<1>1. IInv /\ MeterInv /\ [Next]_vars => IInv' /\ MeterInv'
  <2> SUFFICES ASSUME IInv, MeterInv, [Next]_vars PROVE IInv' /\ MeterInv'
    OBVIOUS
  <2>1. CASE Next
    BY NoIDLooksIssued, <2>1, NextIsRight, StepIsMetered, MeterStepIsRight
  <2>2. CASE UNCHANGED vars
    <3>1. UNCHANGED <<now, ledger, chargers, lastChargerID, lastTickAt, tick>>
      BY <2>2 DEF vars
    <3>2. MeterInv'
      BY <3>1 DEF MeterInv, BatteriesHold, TickIsTheLast, EveryMomentMeteredOnce, Given,
                  MeteredUntil, LockIsFree
    <3>3. QED
      BY <2>2, <3>2, StutteringStep
  <2>3. QED
    BY <2>1, <2>2
<1>2. QED
  BY <1>1, InitIsRight, MeterInvInit, PTL DEF Spec

\* A bill is one of a session that ends, for what was left to read.
LEMMA BillsAddUp ==
  ASSUME IInv, MeterInv, MeterStep, NEW cdr \in JustBilled'
  PROVE  /\ cdr.chargerID \in DOMAIN chargers /\ chargers[cdr.chargerID].vehicle \in Vehicle
         /\ \E e : /\ cdr.energy = Given(ledger, chargers[cdr.chargerID]) + e
                   /\ AddsUp(cdr.chargerID, e, IF LockIsFree THEN now ELSE tick.at)
         /\ cdr.startedAt = ledger.sessions[chargers[cdr.chargerID].session].startedAt
<1>1. cdr \in Bills(ledger'.events)
  BY DEF JustBilled, Bills
<1>2. PICK id \in DOMAIN chargers :
        \/ ATurn(id) /\ EndsItsSession(id, ReadInTick(id).energy)
        \/ AnEnd(id) /\ EndsItsSession(id, ReadAtEnd(id).energy)
  BY <1>1 DEF MeterStep, NothingIsMetered, ATickBegins, ATurn, AnEnd
<1>3. ASSUME NEW e, NEW at, EndsItsSession(id, e), AddsUp(id, e, at),
             at = IF LockIsFree THEN now ELSE tick.at
      PROVE  /\ cdr.chargerID \in DOMAIN chargers /\ chargers[cdr.chargerID].vehicle \in Vehicle
             /\ \E f : /\ cdr.energy = Given(ledger, chargers[cdr.chargerID]) + f
                       /\ AddsUp(cdr.chargerID, f, IF LockIsFree THEN now ELSE tick.at)
             /\ cdr.startedAt = ledger.sessions[chargers[cdr.chargerID].session].startedAt
  <2>1. /\ cdr.chargerID = id /\ cdr.energy = Given(ledger, chargers[id]) + e
        /\ cdr.startedAt = ledger.sessions[chargers[id].session].startedAt
    BY <1>1, <1>3 DEF EndsItsSession
  <2>2. chargers[id].vehicle \in Vehicle
    BY <1>3, ChargingCharger DEF EndsItsSession
  <2>3. QED
    BY <1>3, <2>1, <2>2
<1>4. CASE ATurn(id) /\ EndsItsSession(id, ReadInTick(id).energy)
  <2> DEFINE e == ReadInTick(id).energy
  <2>1. id \in tick.todo
    BY <1>4 DEF ATurn
  <2>2. AddsUp(id, e, tick.at)
    BY <2>1, TurnAddsUp
  <2>3. EndsItsSession(id, e)
    BY <1>4
  <2> HIDE DEF e
  <2>4. QED
    BY <1>3, <2>1, <2>2, <2>3 DEF LockIsFree
<1>5. CASE AnEnd(id) /\ EndsItsSession(id, ReadAtEnd(id).energy)
  <2> DEFINE e == ReadAtEnd(id).energy
  <2>1. LockIsFree
    BY <1>5 DEF AnEnd
  <2>2. AddsUp(id, e, now)
    BY <1>5, <2>1, EndAddsUp DEF EndsItsSession
  <2>3. EndsItsSession(id, e)
    BY <1>5
  <2> HIDE DEF e
  <2>4. QED
    BY <1>3, <2>1, <2>2, <2>3
<1>6. QED
  BY <1>2, <1>4, <1>5

\* Every moment of a session is metered once, whatever ticks, starts and stops of other chargers
\* fall in between (Tick, meter).
THEOREM EveryMomentIsMetered == ASSUME NoIDLooksIssued PROVE Spec => []EveryMomentMeteredOnce
<1>1. IInv /\ MeterInv => EveryMomentMeteredOnce
  BY DEF MeterInv
<1>2. QED
  BY <1>1, MeterInvHolds, PTL

\* No session is billed for more than its vehicle had room for (meter, endSession).
THEOREM NoBatteryIsOverfilled == ASSUME NoIDLooksIssued PROVE Spec => BatteryHasRoom
<1> DEFINE HasRoomFor ==
             \A cdr \in JustBilled' :
               LET vehicle == chargers[cdr.chargerID].vehicle
               IN  vehicle.level + cdr.energy <= vehicle.capacity
<1>1. IInv /\ MeterInv /\ [Next]_vars => [HasRoomFor]_vars
  <2> SUFFICES ASSUME IInv, MeterInv, Next PROVE HasRoomFor
    OBVIOUS
  <2>1. MeterStep
    BY NoIDLooksIssued, StepIsMetered
  <2>2. ASSUME NEW cdr \in JustBilled'
        PROVE  LET vehicle == chargers[cdr.chargerID].vehicle
               IN  vehicle.level + cdr.energy <= vehicle.capacity
    BY <2>1, BillsAddUp DEF AddsUp
  <2>3. QED
    BY <2>2
<1>2. QED
  BY <1>1, MeterInvHolds, PTL DEF Spec, BatteryHasRoom

\* A session that ends before the taper is billed at full power up to the moment its end was
\* decided, wherever in the tick interval that was (MeteredSinceLastTick, Tick).
THEOREM BillsAreForTheWholeSession == ASSUME NoIDLooksIssued PROVE Spec => BillCoversWholeSession
<1> DEFINE IsBilled ==
             \A cdr \in JustBilled' :
               LET charger == chargers[cdr.chargerID]
                   until   == IF LockIsFree THEN now ELSE tick.at
               IN  ~Tapers(charger.vehicle, LevelAfter(charger.vehicle, cdr.energy)) =>
                     cdr.energy = FullPower(charger) * (until - cdr.startedAt)
<1>1. IInv /\ MeterInv /\ [Next]_vars => [IsBilled]_vars
  <2> SUFFICES ASSUME IInv, MeterInv, Next PROVE IsBilled
    OBVIOUS
  <2>1. MeterStep
    BY NoIDLooksIssued, StepIsMetered
  <2>2. ASSUME NEW cdr \in JustBilled'
        PROVE  LET charger == chargers[cdr.chargerID]
                   until   == IF LockIsFree THEN now ELSE tick.at
               IN  ~Tapers(charger.vehicle, LevelAfter(charger.vehicle, cdr.energy)) =>
                     cdr.energy = FullPower(charger) * (until - cdr.startedAt)
    BY <2>1, BillsAddUp DEF AddsUp
  <2>3. QED
    BY <2>2
<1>2. QED
  BY <1>1, MeterInvHolds, PTL DEF Spec, BillCoversWholeSession

\* Ticking ends every session: a charger that has been charging since before the tick delivers
\* something, or its session is over (advanceCharging, deliveredPowerKW).
THEOREM NoTickIsWasted == ASSUME NoIDLooksIssued PROVE Spec => TicksMakeProgress
<1> DEFINE Progresses ==
             \A id \in tick.todo \ tick.todo' :
               LET s == chargers[id].session
               IN  tick.elapsed > 0 /\ tick.at > ledger.sessions[s].startedAt =>
                     \/ s \notin ActiveSessions(ledger')
                     \/ ledger'.sessions[s].energy > ledger.sessions[s].energy
<1>1. IInv /\ MeterInv /\ [Next]_vars => [Progresses]_vars
  <2> SUFFICES ASSUME IInv, MeterInv, Next PROVE Progresses
    OBVIOUS
  <2>1. MeterStep
    BY NoIDLooksIssued, StepIsMetered
  <2> SUFFICES ASSUME NEW id \in tick.todo \ tick.todo',
                      tick.elapsed > 0, tick.at > ledger.sessions[chargers[id].session].startedAt
               PROVE  LET s == chargers[id].session
                      IN  \/ s \notin ActiveSessions(ledger')
                          \/ ledger'.sessions[s].energy > ledger.sessions[s].energy
    OBVIOUS
  <2>2. ATurn(id)
    <3>1. ~NothingIsMetered /\ ~ATickBegins /\ \A x \in DOMAIN chargers : ~AnEnd(x)
      BY DEF NothingIsMetered, ATickBegins, AnEnd, LockIsFree
    <3>2. PICK x \in DOMAIN chargers : ATurn(x)
      BY <2>1, <3>1 DEF MeterStep
    <3>3. (tick'.todo = {} /\ tick.todo = {x}) \/ tick'.todo = tick.todo \ {x}
      BY <3>2 DEF ATurn, TurnIsOver, NoTick, IInv, TypeOK
    <3>4. QED
      BY <3>2, <3>3
  <2>3. /\ id \in DOMAIN chargers /\ chargers[id].session # NoSession
        /\ ~ReadInTick(id).vehicleFull => ReadInTick(id).energy > 0
    BY TurnAddsUp
  <2>4. CASE EndsItsSession(id, ReadInTick(id).energy)
    BY <2>4 DEF EndsItsSession
  <2>5. CASE ~ReadInTick(id).vehicleFull /\ GoesOn(id, ReadInTick(id).energy)
    <3>1. ledger.sessions[chargers[id].session].energy \in Nat
      BY <2>3, ChargingCharger DEF SessionRecord
    <3>2. ReadInTick(id).energy > 0 /\ ReadInTick(id).energy \in Nat
      BY <2>2, <2>3, <2>5 DEF ATurn
    <3>3. QED
      BY <2>3, <2>5, <3>1, <3>2 DEF GoesOn
  <2>6. QED
    BY <2>2, <2>4, <2>5 DEF ATurn
<1>2. QED
  BY <1>1, MeterInvHolds, PTL DEF Spec, TicksMakeProgress
\* The level shown is what the battery came with and what it has been given.
LEMMA LevelShown ==
  ASSUME IInv, MeterInv, NEW id \in DOMAIN chargers, chargers[id].vehicle # NoVehicle
  PROVE  /\ LiveLevel(id) = chargers[id].vehicle.level + Given(ledger, chargers[id])
         /\ chargers[id].vehicle \in Vehicle /\ Given(ledger, chargers[id]) \in Nat
<1> DEFINE vehicle == chargers[id].vehicle
           given   == Given(ledger, chargers[id])
<1>1. vehicle \in Vehicle
  BY ChargerIs DEF ChargerRecord
<1>2. given \in Nat
  BY ChargingCharger DEF Given, SessionRecord
<1>3. vehicle.level + given <= vehicle.capacity
  BY DEF MeterInv, BatteriesHold
<1>4. CASE chargers[id].session = NoSession
  <2>1. given = 0 /\ LiveLevel(id) = vehicle.level
    BY <1>4 DEF Given, LiveLevel
  <2>2. QED
    BY <1>1, <1>2, <2>1 DEF Vehicle
<1>5. CASE chargers[id].session # NoSession
  <2>1. LiveLevel(id) = LevelAfter(vehicle, given)
    BY <1>5 DEF Given, LiveLevel
  <2> HIDE DEF vehicle, given
  <2>2. LevelAfter(vehicle, given) = vehicle.level + given
    BY <1>1, <1>2, <1>3 DEF LevelAfter, Smaller, Vehicle
  <2>3. QED
    BY <1>1, <1>2, <2>1, <2>2 DEF vehicle, given
<1>6. QED
  BY <1>4, <1>5, <1>1, <1>2

\* The same of the next state.
LEMMA LevelThatWillBeShown ==
  ASSUME IInv', MeterInv', NEW id \in DOMAIN chargers', chargers'[id].vehicle # NoVehicle
  PROVE  LiveLevel(id)' = chargers'[id].vehicle.level + Given(ledger, chargers[id])'
<1> DEFINE vehicle == chargers[id].vehicle
           given   == Given(ledger, chargers[id])
<1>1. vehicle' \in Vehicle /\ chargers'[id].session \in Nat
  BY DEF IInv, TypeOK, IsRepository, ChargerRecord
<1>2. given' \in Nat
  BY DEF IInv, TypeOK, IsLedger, IsRepository, SessionsMatchChargers, ActiveSessions, InState,
         Given, SessionRecord
<1>3. vehicle'.level + given' <= vehicle'.capacity
  BY DEF MeterInv, BatteriesHold
<1>4. CASE chargers'[id].session = NoSession
  <2>1. given' = 0 /\ LiveLevel(id)' = vehicle'.level
    BY <1>4 DEF Given, LiveLevel
  <2>2. QED
    BY <1>1, <1>2, <2>1 DEF Vehicle
<1>5. CASE chargers'[id].session # NoSession
  <2>1. LiveLevel(id)' = LevelAfter(vehicle', given')
    BY <1>5 DEF Given, LiveLevel
  <2> HIDE DEF vehicle, given
  <2>2. LevelAfter(vehicle', given') = vehicle'.level + given'
    BY <1>1, <1>2, <1>3 DEF LevelAfter, Smaller, Vehicle
  <2>3. QED
    BY <2>1, <2>2 DEF vehicle, given
<1>6. QED
  BY <1>4, <1>5

\* The level shown for a vehicle never drops as long as it stays plugged in, neither when a session
\* ends and its energy is credited to the vehicle nor when one starts (endSession, StartCharging).
THEOREM NoLevelDrops == ASSUME NoIDLooksIssued PROVE Spec => LevelNeverDrops
<1> DEFINE Rises ==
             \A id \in DOMAIN chargers \cap DOMAIN chargers' :
               chargers[id].vehicle # NoVehicle /\ chargers'[id].vehicle # NoVehicle =>
                 LiveLevel(id)' >= LiveLevel(id)
<1>1. IInv /\ MeterInv /\ [Next]_vars => [Rises]_vars
  <2> SUFFICES ASSUME IInv, MeterInv, Next PROVE Rises
    OBVIOUS
  <2>1. MeterStep /\ IInv' /\ MeterInv'
    BY NoIDLooksIssued, StepIsMetered, NextIsRight, MeterStepIsRight
  <2> SUFFICES ASSUME NEW id \in DOMAIN chargers \cap DOMAIN chargers',
                      chargers[id].vehicle # NoVehicle, chargers'[id].vehicle # NoVehicle
               PROVE  LiveLevel(id)' >= LiveLevel(id)
    OBVIOUS
  <2> DEFINE vehicle == chargers[id].vehicle
             given   == Given(ledger, chargers[id])
  <2>2. /\ LiveLevel(id) = vehicle.level + given /\ vehicle \in Vehicle /\ given \in Nat
        /\ LiveLevel(id)' = vehicle'.level + given'
    BY <2>1, LevelShown, LevelThatWillBeShown
  <2>3. ASSUME NEW e \in Nat, GoesOn(id, e) PROVE LiveLevel(id)' >= LiveLevel(id)
    <3>1. vehicle' = vehicle /\ chargers'[id].session = chargers[id].session
      BY <2>3 DEF GoesOn
    <3>2. given' = given \/ given' = given + e
      BY <2>3, <3>1 DEF GoesOn, Given
    <3> HIDE DEF vehicle, given
    <3>3. QED
      BY <2>2, <3>1, <3>2 DEF Vehicle
  <2>4. ASSUME NEW e \in Nat, NEW at, EndsItsSession(id, e), AddsUp(id, e, at)
        PROVE  LiveLevel(id)' >= LiveLevel(id)
    <3>1. vehicle' = Charged(vehicle, given + e) /\ given' = 0
      BY <2>4 DEF EndsItsSession, Given
    <3>2. vehicle.level + (given + e) <= vehicle.capacity
      BY <2>4 DEF AddsUp
    <3> HIDE DEF vehicle, given
    <3>3. LevelAfter(vehicle, given + e) = vehicle.level + (given + e)
      BY <2>2, <3>2 DEF LevelAfter, Smaller, Vehicle
    <3>4. vehicle'.level = vehicle.level + (given + e)
      BY <2>2, <3>1, <3>3 DEF Charged, Vehicle
    <3>5. QED
      BY <2>2, <3>1, <3>4 DEF Vehicle
  <2>5. CASE NothingIsMetered
    <3>1. CASE GoesOn(id, 0)
      BY <2>3, <3>1
    <3>2. CASE ChangesVehicle(id)
      BY <3>2 DEF ChangesVehicle
    <3>3. CASE StartsASession(id)
      <4>1. vehicle' = vehicle /\ given = 0 /\ given' = 0
        BY <3>3 DEF StartsASession, Given
      <4> HIDE DEF vehicle, given
      <4>2. QED
        BY <2>2, <4>1 DEF Vehicle
    <3>4. QED
      BY <2>5, <3>1, <3>2, <3>3 DEF NothingIsMetered
  <2>6. CASE ATickBegins
    BY <2>3, <2>6 DEF ATickBegins
  <2>7. ASSUME NEW x \in DOMAIN chargers, ATurn(x) PROVE LiveLevel(id)' >= LiveLevel(id)
    <3>1. CASE x # id
      BY <2>3, <2>7, <3>1 DEF ATurn
    <3>2. CASE x = id
      <4> DEFINE e == ReadInTick(id).energy
      <4>1. e \in Nat /\ AddsUp(id, e, tick.at)
        BY <2>7, <3>2, TurnAddsUp DEF ATurn
      <4>2. GoesOn(id, e) \/ EndsItsSession(id, e)
        BY <2>7, <3>2 DEF ATurn
      <4> HIDE DEF e
      <4>3. QED
        BY <2>3, <2>4, <4>1, <4>2
    <3>3. QED
      BY <3>1, <3>2
  <2>8. ASSUME NEW x \in DOMAIN chargers, AnEnd(x) PROVE LiveLevel(id)' >= LiveLevel(id)
    <3>1. CASE x # id
      BY <2>3, <2>8, <3>1 DEF AnEnd
    <3>2. CASE x = id
      <4> DEFINE e == ReadAtEnd(id).energy
      <4>1. e \in Nat /\ EndsItsSession(id, e) /\ LockIsFree
        BY <2>8, <3>2 DEF AnEnd
      <4>2. AddsUp(id, e, now)
        BY <4>1, EndAddsUp DEF EndsItsSession
      <4> HIDE DEF e
      <4>3. QED
        BY <2>4, <4>1, <4>2
    <3>3. QED
      BY <3>1, <3>2
  <2>9. QED
    BY <2>1, <2>5, <2>6, <2>7, <2>8 DEF MeterStep
<1>2. QED
  BY <1>1, MeterInvHolds, PTL DEF Spec, LevelNeverDrops
=============================================================================
