-------------------------- MODULE ChargerController --------------------------
(***************************************************************************)
(* The charger controller (controller/charger) with the session controller *)
(* it drives: chargers and the vehicles plugged into them, the physical    *)
(* actions a person performs at a charger, remote starts and stops, and    *)
(* the tick that meters every charging session.                            *)
(*                                                                         *)
(* Every handler runs under charger.mu from beginning to end, so each is   *)
(* one action; its guard is what the handler refuses (a call it refuses    *)
(* returns an error, changes nothing and is a stuttering step), except     *)
(* Tick, whose loop advances one charger after another: TickBegins takes   *)
(* the lock and reads the clock, AdvanceCharging is one iteration, and the *)
(* lock is held (LockIsFree is false) as long as the loop has chargers     *)
(* left.  The clock does not wait for the loop.                            *)
(*                                                                         *)
(* Charger IDs.  An ID the controller issues, "EVSE-000001", is its        *)
(* number; an ID the caller chooses is an integer too, a positive one if   *)
(* it is spelt like an issued ID and a negative one if it is not.          *)
(***************************************************************************)
EXTENDS Sessions, Metering, Behaviors

CONSTANTS
  MaxChargers,    \* config.MaxChargers
  ExplicitIDs,    \* charger IDs that callers choose
  Equipment,      \* [maxPower, pricePerUnit] of a charger that is added
  BehaviorLists,  \* lists of behaviors a charger is given
  Vehicles,       \* vehicles that are plugged in
  Rolls,          \* rolls of the die
  NoVehicle,      \* the nil vehicle
  Horizon,        \* bound: the clock stops here
  ChargerLimit,   \* bound: how many charger IDs are issued
  SessionLimit,   \* bound: how many sessions are started
  LastStart       \* bound: no session starts after this moment

ASSUME ChargerConfig == /\ MaxChargers \in Nat \ {0}
                        /\ ExplicitIDs \subseteq Int \ {0}
                        /\ Equipment \subseteq [maxPower: Nat \ {0}, pricePerUnit: Nat]
                        /\ \A v \in Vehicles : PluggableVehicle(v)
                        /\ NoVehicle \notin Vehicle

\* What Build accepts, and no other list is stored on a charger.
ASSUME ListsAreBuilt == BehaviorLists \subseteq Seq(BehaviorSpec)

VARIABLES
  now,            \* clockGateway.Now()
  ledger,         \* the session controller
  chargers,       \* the charger repository
  lastChargerID,  \* the last number issued for a charger ID
  lastTickAt,     \* when the last tick began
  tick            \* the tick in progress: its clock reading, what it bills, whom it has left

vars == <<now, ledger, chargers, lastChargerID, lastTickAt, tick>>

States == {"AVAILABLE", "PREPARING", "CHARGING", "FINISHING", "FAULTED"}

NoTick == [at |-> 0, elapsed |-> 0, todo |-> {}]
LockIsFree == tick.todo = {}

ChargerEvent(id, state) == [topic |-> "charger", id |-> id, state |-> state]

Init ==
  /\ now = 0 /\ lastTickAt = 0
  /\ ledger = EmptyLedger
  /\ chargers = EmptyRepository /\ lastChargerID = 0
  /\ tick = NoTick

\* Store and publish a charger, as the last thing the handler in progress does; l is the ledger
\* it leaves.
UpdateCharger(l, id, charger) ==
  /\ chargers' = Upsert(chargers, id, charger)
  /\ ledger' = Publish(l, ChargerEvent(id, charger.state))

-----------------------------------------------------------------------------
(* Managing chargers: chargers.go. *)

NewCharger(equipment, behaviors) ==
  [state |-> "AVAILABLE", locked |-> FALSE, session |-> NoSession, vehicle |-> NoVehicle,
   behaviors |-> behaviors,
   maxPower |-> equipment.maxPower, pricePerUnit |-> equipment.pricePerUnit]

HasRoom == Cardinality(DOMAIN chargers) < MaxChargers

\* Mutant: a charger that exists is replaced.
AddNamedOverExisting(id, equipment, behaviors) ==
  /\ LockIsFree /\ HasRoom
  /\ UpdateCharger(Fresh(ledger), id, NewCharger(equipment, behaviors))
  /\ UNCHANGED <<now, lastChargerID, lastTickAt, tick>>

\* AddCharger with the caller's ID, which must not be taken.
AddNamedCharger(id, equipment, behaviors) ==
  /\ LockIsFree /\ HasRoom
  /\ id \notin DOMAIN chargers
  /\ UpdateCharger(Fresh(ledger), id, NewCharger(equipment, behaviors))
  /\ UNCHANGED <<now, lastChargerID, lastTickAt, tick>>

\* AddCharger with an ID the controller issues, which it takes to be new.
AddCharger(equipment, behaviors) ==
  /\ LockIsFree /\ HasRoom
  /\ lastChargerID < ChargerLimit
  /\ lastChargerID' = lastChargerID + 1
  /\ UpdateCharger(Fresh(ledger), lastChargerID + 1, NewCharger(equipment, behaviors))
  /\ UNCHANGED <<now, lastTickAt, tick>>

\* Mutant: removing a charger does not take the lock.
RemoveChargerUnlocked(id) ==
  /\ chargers' = DeleteAll(chargers, {id})
  /\ ledger' = Publish(Fresh(ledger), ChargerEvent(id, "REMOVED"))
  /\ UNCHANGED <<now, lastChargerID, lastTickAt, tick>>

RemoveCharger(id) ==
  /\ LockIsFree
  /\ chargers[id].session = NoSession
  /\ chargers' = DeleteAll(chargers, {id})
  /\ ledger' = Publish(Fresh(ledger), ChargerEvent(id, "REMOVED"))
  /\ UNCHANGED <<now, lastChargerID, lastTickAt, tick>>

UpdateBehaviors(id, behaviors) ==
  /\ LockIsFree
  /\ UpdateCharger(Fresh(ledger), id, [chargers[id] EXCEPT !.behaviors = behaviors])
  /\ UNCHANGED <<now, lastChargerID, lastTickAt, tick>>

-----------------------------------------------------------------------------
(* Sessions on a charger: charging.go and metering.go. *)

\* meter, up to what it records: what the charger has delivered over elapsed, as of the clock
\* reading at.
ReadMeter(charger, elapsed, at) ==
  LET session == ledger.sessions[charger.session]
  IN  Reading(charger.maxPower, charger.vehicle, session.energy, elapsed, at - session.startedAt)

\* meter: the ledger with that energy recorded.
Metered(charger, elapsed, at) ==
  RecordSessionProgress(Fresh(ledger), charger.session,
                        ReadMeter(charger, elapsed, at).energy, now)

\* Mutant: whatever ends a session outside a tick leaves the energy since the last one unbilled.
NotMeteredSinceLastTick(charger) == Metered(charger, 0, now)

\* Whatever ends a session outside a tick bills the energy since the last one first.
MeteredSinceLastTick(charger) == Metered(charger, now - lastTickAt, now)

Charged(vehicle, energy) == [vehicle EXCEPT !.level = LevelAfter(vehicle, energy)]

\* Mutant: the vehicle leaves with the battery level it came with.
EndSessionForgetsVehicle(l, id, reason, nextState) ==
  LET charger == chargers[id]
  IN  UpdateCharger(StopSession(l, charger.session, reason, now), id,
        [charger EXCEPT !.locked = (nextState = "FAULTED"), !.session = NoSession,
                        !.state = nextState])

\* Stop the charger's session, credit the vehicle with what it was given, and move on.  A
\* charger that faults keeps its connector locked.
EndSession(l, id, reason, nextState) ==
  LET charger == chargers[id]
      stopped == l.sessions[charger.session]
  IN  UpdateCharger(StopSession(l, charger.session, reason, now), id,
        [charger EXCEPT !.vehicle = IF @ = NoVehicle THEN @ ELSE Charged(@, stopped.energy),
                        !.locked = (nextState = "FAULTED"),
                        !.session = NoSession, !.state = nextState])

CanStart(charger) ==
  charger.vehicle # NoVehicle /\ charger.state \in {"PREPARING", "FINISHING"}

StartCharging(id) ==
  /\ LockIsFree
  /\ ledger.lastSessionID < SessionLimit /\ now <= LastStart
  /\ CanStart(chargers[id])
  /\ UpdateCharger(StartSession(Fresh(ledger), id, chargers[id].pricePerUnit, now), id,
       [chargers[id] EXCEPT !.locked = TRUE, !.session = ledger.lastSessionID + 1,
                            !.state = "CHARGING"])
  /\ UNCHANGED <<now, lastChargerID, lastTickAt, tick>>

\* The session exists and is the one on its charger.
CanStop(sessionID) ==
  /\ sessionID \in DOMAIN ledger.sessions
  /\ ledger.sessions[sessionID].chargerID \in DOMAIN chargers
  /\ chargers[ledger.sessions[sessionID].chargerID].session = sessionID

StopCharging(sessionID) ==
  LET id == ledger.sessions[sessionID].chargerID
  IN  /\ LockIsFree
      /\ CanStop(sessionID)
      /\ EndSession(MeteredSinceLastTick(chargers[id]), id, "REMOTE", "FINISHING")
      /\ UNCHANGED <<now, lastChargerID, lastTickAt, tick>>

\* Tick takes the lock, reads the clock and lists the charging chargers.  Nothing but the loop
\* changes a charger before the loop is done, so the state it checks is the listed one.
TickBegins ==
  LET charging == {id \in DOMAIN chargers : chargers[id].state = "CHARGING"}
  IN  /\ LockIsFree
      /\ lastTickAt' = now
      /\ tick' = IF charging = {} THEN NoTick
                 ELSE [at |-> now, elapsed |-> now - lastTickAt, todo |-> charging]
      /\ ledger' = Fresh(ledger)
      /\ UNCHANGED <<now, chargers, lastChargerID>>

\* One charger's turn in the loop is over; after the last the lock is released.
TurnIsOver(id) ==
  tick' = IF tick.todo = {id} THEN NoTick ELSE [tick EXCEPT !.todo = @ \ {id}]

\* Mutant: the session of a full vehicle goes on.
AdvanceThoughFull(id, roll) ==
  LET charger == chargers[id]
      session == ledger.sessions[charger.session]
      metered == Metered(charger, tick.elapsed, tick.at)
  IN  /\ id \in tick.todo
      /\ IF TickFault(charger.behaviors, tick.at - session.startedAt, tick.elapsed, roll)
         THEN EndSession(metered, id, "FAULT", "FAULTED")
         ELSE ledger' = metered /\ UNCHANGED chargers
      /\ TurnIsOver(id)
      /\ UNCHANGED <<now, lastChargerID, lastTickAt>>

\* advanceCharging: meter one charger, and end its session if the vehicle is full or else if a
\* behavior faults the charger.  The loop goes in list order; which charger's turn it is, is
\* left open here.
AdvanceCharging(id, roll) ==
  LET charger == chargers[id]
      session == ledger.sessions[charger.session]
      metered == Metered(charger, tick.elapsed, tick.at)
  IN  /\ id \in tick.todo
      /\ IF ReadMeter(charger, tick.elapsed, tick.at).vehicleFull
         THEN EndSession(metered, id, "VEHICLE_FULL", "FINISHING")
         ELSE IF TickFault(charger.behaviors, tick.at - session.startedAt, tick.elapsed, roll)
         THEN EndSession(metered, id, "FAULT", "FAULTED")
         ELSE ledger' = metered /\ UNCHANGED chargers
      /\ TurnIsOver(id)
      /\ UNCHANGED <<now, lastChargerID, lastTickAt>>

-----------------------------------------------------------------------------
(* What a person does at a charger: actions.go. *)

PlugIn(id, vehicle) ==
  /\ LockIsFree
  /\ chargers[id].vehicle = NoVehicle
  /\ UpdateCharger(Fresh(ledger), id,
       [chargers[id] EXCEPT !.vehicle = vehicle,
                            !.state = IF @ = "AVAILABLE" THEN "PREPARING" ELSE @])
  /\ UNCHANGED <<now, lastChargerID, lastTickAt, tick>>

\* Mutant: a locked connector can be pulled.
UnplugLockedToo(id) ==
  /\ LockIsFree
  /\ chargers[id].vehicle # NoVehicle
  /\ UpdateCharger(Fresh(ledger), id,
       [chargers[id] EXCEPT !.vehicle = NoVehicle,
                            !.state = IF @ = "FAULTED" THEN @ ELSE "AVAILABLE"])
  /\ UNCHANGED <<now, lastChargerID, lastTickAt, tick>>

Unplug(id) ==
  /\ LockIsFree
  /\ chargers[id].vehicle # NoVehicle
  /\ ~chargers[id].locked
  /\ UpdateCharger(Fresh(ledger), id,
       [chargers[id] EXCEPT !.vehicle = NoVehicle,
                            !.state = IF @ = "FAULTED" THEN @ ELSE "AVAILABLE"])
  /\ UNCHANGED <<now, lastChargerID, lastTickAt, tick>>

\* Mutant: the stop button does not take the lock.
PressStopButtonUnlocked(id) ==
  /\ chargers[id].session # NoSession
  /\ EndSession(MeteredSinceLastTick(chargers[id]), id, "STOP_BUTTON", "FINISHING")
  /\ UNCHANGED <<now, lastChargerID, lastTickAt, tick>>

PressStopButton(id) ==
  /\ LockIsFree
  /\ chargers[id].session # NoSession
  /\ EndSession(MeteredSinceLastTick(chargers[id]), id, "STOP_BUTTON", "FINISHING")
  /\ UNCHANGED <<now, lastChargerID, lastTickAt, tick>>

InjectFault(id) ==
  /\ LockIsFree
  /\ chargers[id].state # "FAULTED"
  /\ IF chargers[id].session # NoSession
     THEN EndSession(MeteredSinceLastTick(chargers[id]), id, "FAULT", "FAULTED")
     ELSE UpdateCharger(Fresh(ledger), id, [chargers[id] EXCEPT !.state = "FAULTED"])
  /\ UNCHANGED <<now, lastChargerID, lastTickAt, tick>>

ClearFault(id) ==
  /\ LockIsFree
  /\ chargers[id].state = "FAULTED"
  /\ UpdateCharger(Fresh(ledger), id,
       [chargers[id] EXCEPT !.locked = FALSE,
          !.state = IF chargers[id].vehicle = NoVehicle THEN "AVAILABLE" ELSE "PREPARING"])
  /\ UNCHANGED <<now, lastChargerID, lastTickAt, tick>>

UnlockConnector(id) ==
  /\ LockIsFree
  /\ chargers[id].session = NoSession
  /\ UpdateCharger(Fresh(ledger), id, [chargers[id] EXCEPT !.locked = FALSE])
  /\ UNCHANGED <<now, lastChargerID, lastTickAt, tick>>

TimePasses ==
  /\ now < Horizon
  /\ now' = now + 1
  /\ ledger' = Fresh(ledger)
  /\ UNCHANGED <<chargers, lastChargerID, lastTickAt, tick>>

-----------------------------------------------------------------------------
Manage ==
  \/ \E e \in Equipment, b \in BehaviorLists :
       AddCharger(e, b) \/ \E id \in ExplicitIDs : AddNamedCharger(id, e, b)
  \/ \E id \in DOMAIN chargers :
       RemoveCharger(id) \/ \E b \in BehaviorLists : UpdateBehaviors(id, b)

PersonActs ==
  \E id \in DOMAIN chargers :
    \/ \E v \in Vehicles : PlugIn(id, v)
    \/ Unplug(id) \/ PressStopButton(id) \/ InjectFault(id) \/ ClearFault(id)

Remote ==
  \/ \E id \in DOMAIN chargers : StartCharging(id) \/ UnlockConnector(id)
  \/ \E s \in DOMAIN ledger.sessions : StopCharging(s)

TickLoop == TickBegins \/ \E id \in tick.todo, roll \in Rolls : AdvanceCharging(id, roll)

Next == Manage \/ PersonActs \/ Remote \/ TickLoop \/ TimePasses

Spec == Init /\ [][Next]_vars

-----------------------------------------------------------------------------
ChargerRecord ==
  [state: States, locked: BOOLEAN, session: Nat, vehicle: Vehicle \cup {NoVehicle},
   behaviors: BehaviorLists, maxPower: Nat \ {0}, pricePerUnit: Nat]

TypeOK ==
  /\ now \in Nat /\ lastTickAt \in Nat /\ lastChargerID \in Nat
  /\ IsLedger(ledger)
  /\ IsRepository(chargers, Int, ChargerRecord)
  /\ tick = [at |-> tick.at, elapsed |-> tick.elapsed, todo |-> tick.todo]
  /\ tick.at \in Nat /\ tick.elapsed \in Nat /\ tick.todo \subseteq DOMAIN chargers

\* Plugged, locked and charging go together as the charger's state says
\* (docs/REFERENCE.md and app/invariants_test.go list what each state means): in particular no
\* connector stays locked once its session is over, except in a fault.
ChargerShape ==
  \A id \in DOMAIN chargers :
    LET charger == chargers[id]
        plugged == charger.vehicle # NoVehicle
    IN  /\ charger.state = "AVAILABLE" => ~plugged
        /\ charger.state \in {"PREPARING", "CHARGING", "FINISHING"} => plugged
        /\ charger.session # NoSession <=> charger.state = "CHARGING"
        /\ charger.state = "CHARGING" => charger.locked
        /\ charger.locked => plugged /\ charger.state \in {"CHARGING", "FAULTED"}

\* Every charger's session is active and is that charger's, and every active session is held by
\* its charger: whatever adds, removes, faults or stops a charger, no session is orphaned and
\* none is shared.
SessionsMatchChargers ==
  /\ \A id \in DOMAIN chargers : chargers[id].session # NoSession =>
       /\ chargers[id].session \in ActiveSessions(ledger)
       /\ ledger.sessions[chargers[id].session].chargerID = id
  /\ \A s \in ActiveSessions(ledger) :
       /\ ledger.sessions[s].chargerID \in DOMAIN chargers
       /\ chargers[ledger.sessions[s].chargerID].session = s

\* The chargers a tick has left to advance are still charging when their turn comes, so that no
\* iteration fails and cuts the loop short for the chargers after it.
TickListIsCurrent == \A id \in tick.todo : chargers[id].state = "CHARGING"

\* Below the taper a charger delivers this in one clock step.
FullPower(charger) ==
  IF charger.maxPower <= charger.vehicle.maxPower THEN charger.maxPower
  ELSE charger.vehicle.maxPower

\* The moment up to which a charging charger has been metered.
MeteredUntil(id) == IF id \in tick.todo THEN tick.at - tick.elapsed ELSE lastTickAt

\* Every moment of a session is metered once: as long as the vehicle draws full power, the energy
\* is the full power for the time from the session's start to the last tick, whatever ticks and
\* starts fell in between (Tick, meter).
EveryMomentMeteredOnce ==
  \A id \in DOMAIN chargers : chargers[id].session # NoSession =>
    LET charger == chargers[id]
        session == ledger.sessions[charger.session]
        time    == MeteredUntil(id) - session.startedAt
    IN  ~Tapers(charger.vehicle, LevelAfter(charger.vehicle, session.energy)) =>
          session.energy = FullPower(charger) * (IF time < 0 THEN 0 ELSE time)

\* The session whose CDR the last step published, if it published one.
JustBilled == {ledger.events[i].cdr : i \in {j \in DOMAIN ledger.events :
                                               ledger.events[j].topic = "cdr"}}

\* What a session is billed for fitted in the battery: its readings never add up to more than the
\* vehicle had room for when it started, whichever of them filled it (meter, endSession).
BatteryHasRoom ==
  [][\A cdr \in JustBilled' :
       LET vehicle == chargers[cdr.chargerID].vehicle
       IN  vehicle.level + cdr.energy <= vehicle.capacity]_vars

\* "The bill does not depend on where in the tick interval the session happened to stop"
\* (metering.go): a session that ends before the taper is billed at full power from its start to
\* the moment its end was decided.
BillCoversWholeSession ==
  [][\A cdr \in JustBilled' :
       LET charger == chargers[cdr.chargerID]
           until   == IF LockIsFree THEN now ELSE tick.at
       IN  ~Tapers(charger.vehicle, LevelAfter(charger.vehicle, cdr.energy)) =>
             cdr.energy = FullPower(charger) * (until - cdr.startedAt)]_vars

\* The battery level the user interface shows: as stored, and during a session what the session
\* has delivered on top.
LiveLevel(id) ==
  IF chargers[id].session = NoSession THEN chargers[id].vehicle.level
  ELSE LevelAfter(chargers[id].vehicle, ledger.sessions[chargers[id].session].energy)

\* As long as a vehicle stays plugged in, the level shown for it never drops: not when its
\* session ends and the level moves from the session to the vehicle, nor when another starts.
LevelNeverDrops ==
  [][\A id \in DOMAIN chargers \cap DOMAIN chargers' :
       chargers[id].vehicle # NoVehicle /\ chargers'[id].vehicle # NoVehicle =>
         LiveLevel(id)' >= LiveLevel(id)]_vars

\* Every tick brings a session nearer to its end: a charger that has been charging since before the
\* tick delivers something more or its session is over, so that ticking ends every session (meter, advanceCharging).
\* That power tapers to a tenth and not to nothing is a constant of the code, and not in question here.
TicksMakeProgress ==
  [][\A id \in tick.todo \ tick.todo' :
       LET s == chargers[id].session
       IN  tick.elapsed > 0 /\ tick.at > ledger.sessions[s].startedAt =>
             \/ s \notin ActiveSessions(ledger')
             \/ ledger'.sessions[s].energy > ledger.sessions[s].energy]_vars
=============================================================================
