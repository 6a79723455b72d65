# Formal models of the EV charger simulator

`src/` is a charge point operator (CPO) in one Go process: chargers with vehicles plugged into
them, charging sessions that are metered by a simulated clock, bills, remote commands from an
e-mobility service provider (eMSP) over OCPI, and a mock eMSP to talk to. This directory holds TLA+
modules of its core, the TLC configurations that check them, and proofs that TLAPS checks.
`PROJECT.json` lists the components, the runs, the line of source each definition stands for, the
hazards and the theorems.

## The system

| Component | State | Operations | Hard part |
|---|---|---|---|
| Session controller (`controller/session`) | sessions, CDRs, the throttle map | StartSession, RecordSessionProgress, StopSession | rounding, throttling, retention that drops sessions and CDRs together |
| Charger controller (`controller/charger`) | chargers with their vehicle, lock, session and behaviors; time of the last tick; sites | AddCharger, RemoveCharger, UpdateBehaviors, PlugIn, Unplug, PressStopButton, InjectFault, ClearFault, StartCharging, StopCharging, UnlockConnector, AddSite, Tick | ticks, people and remote calls interleave; metering between ticks |
| Command controller (`controller/command`) | commands | StartSession, StopSession, UnlockConnector, Tick | a command is carried out later, against a charger that has changed since |
| Behaviors (`controller/behavior`) | none | intercept a remote start, intercept a tick | lists of them compose |
| Repositories (`repository`) | maps from ID to record | Upsert, Get, List, Delete | none: a mutex and a map |
| Push gateway (`gateway/ocpipush`) | a bounded queue, a delivery goroutine | Publish..., run, Stop | drops, failures, shutdown |
| Mock eMSP (`app/mockemsp`) | locations, sessions, CDRs and commands as it believes them to be | receive a push, send a command, pull locations | pushes, pulls and answers in any order |
| Simulator (`app`) | the current world, the scheduled job | Start, Seed, Reset, tick, Stop | resets race with ticks, requests and start-up |
| Scheduler, clock, identifiers, random numbers, trace, metrics (`gateway`) | a goroutine per job; two anchors and a speed; counters | | restart during stop; changes of speed |
| Handlers (`handler`) | none | OCPI and operator HTTP endpoints | check, then act, without a lock between |

Locks are taken in the order command, charger, session: `command.Tick` calls the charger controller,
which calls the session controller, and nothing calls back. All three publish events to the push
gateway, which never blocks them. One scheduled job runs `world.tick`: the command tick, then the
charger tick. HTTP requests run beside it, each in a goroutine of its own.

What makes each part correct: completed sessions and CDRs correspond one to one and the bill is the
price of the energy; a charging charger has a vehicle, a locked cable and exactly one active
session, and an active session exactly one charger; each moment of a session is metered once; the
battery is never overfilled and its level never jumps; a command is answered exactly once, in
time, and truthfully; history is settled; an eMSP that received the last push about something believes
what is true of it; a world is seeded once, and a world that was replaced falls silent.

## The modules

| Module | Models | How |
|---|---|---|
| `Repository` | `repository/*` | a repository is a function from IDs to records |
| `Sessions` | `controller/session` | the controller's state is one record, the *ledger*; each handler is an operator from a ledger to a ledger, so that a charger operation that makes several calls composes them |
| `SessionController` | the same, as a state machine | one action per handler, any caller, any time |
| `Metering` | `deliveredPowerKW`, `StateOfChargeAfter`, `meter` | operators on whole numbers |
| `Behaviors` | `controller/behavior` | the verdict of a whole list on a start and on a tick |
| `InterceptorLoop` | `ApplyStartInterceptors`, `ApplyTickInterceptors` | one interceptor per step; shown to arrive at the verdicts of `Behaviors` (in `CommandController_proofs`) |
| `PageWalk` | `handler/ocpi/pagination.go` and `records.go`, and an eMSP that pulls the sessions page by page, on `SessionController` | the handler is a step for the page and one for the time in the answer; the client follows the Link and asks, next time, for what changed since it is safe |
| `ChargerController` | `controller/charger` with the session controller it drives | one action per handler; the tick is a step that takes the lock and one step per charger |
| `Clock` | `gateway/clock` on Go's `time.Now` | wall and monotonic clock, the gateway's two anchors and its speed; one action for `SetSpeed`, one for time, one for somebody setting the machine's clock |
| `StateView` | the operator API (`handler/api`) on `ChargerController` and `Clock` | one step per repository that a poll reads, one per write of the handler in progress |
| `CommandController` | `controller/command` and `world.tick`, on top of `ChargerController` | one action per accepted command; the command tick is one step per command and two for a start |
| `CommandPromise` | what the command controller amounts to for an eMSP | an abstract specification: accepted or refused at once, answered at most once. `CommandController` implements it (`KeepsPromise`, a refinement mapping), `CommandExchange` is built on it |
| `PushQueue` | `enqueue`, `run` and `Stop` of `gateway/ocpipush` | the bounded queue, the goroutine and its stop channel; what a push does is for the modules that extend it |
| `EventPush` | the push gateway with its counters and a receiver | pushes are numbers: sites, chargers, sessions, CDRs and results all go this way |
| `RecordView` | sessions and CDRs from `SessionController` through `EventPush` to the mock eMSP's store | a handler publishes one event per step; a push is stored when it is processed |
| `LocationView` | sites and chargers, their pushes, and the mock eMSP's locations under pushes and pulls | on `PushQueue`; one action per change at the CPO, two for the handler of a pull, one per location applied |
| `CommandExchange` | a command from the app's button to its outcome in the mock eMSP's store | on `PushQueue` and `CommandPromise` |
| `Simulator` | `app/simulator.go`, `main.go`, the scheduler: start-up, reset, tick, shutdown | main, each reset, the job and each world's gateway are processes; a world is its number |
| `MC...` | | instances for TLC |
| `..._proofs` | | theorems |

Each handler of a controller holds its mutex from its first read to its last write, so it is one action
whose guard is what the handler refuses; a refused call returns an error and changes nothing, a
stuttering step. Some things are finer than a handler, because other threads do see between their
parts:

- the charger tick holds `charger.mu` over its loop. Nobody else can enter, but the clock goes on, and
  what the iterations record is dated by when each happens and metered up to when the tick began;
- the command tick holds `command.mu` over its loop, but `charger.mu` only inside each call. Between
  two commands, and between the command tick and the charger tick, people act at the chargers;
- a remote start is `GetCharger` and then `StartCharging`;
- requests that only read take no controller's lock. `StateView` has them see the repositories between
  any two writes of a handler (`stores` holds the states that the handler in progress takes them through),
  and `PageWalk` and `LocationView` between two pages, and between the sites and the chargers;
- an event goes into the push queue as it is published, so in `RecordView` the delivery goroutine may take
  a push between the two events of a handler.

A command handler writes nothing that a charger operation reads, so the two commute and accepting a
command stays one action.

In the modules of the eMSP's side the network is part of the model. A push may arrive and be answered; it
may be refused, or processed without the sender learning of it; or it may time out at the sender and be
processed later, after newer pushes. A command's request, and the answer to it, may be lost or slow;
the two are independent, so a result can overtake the answer.

Data is abstracted so: an ID that was issued ("SES-000001") is its number; a charger ID a caller
chose is a positive number if it is spelt like an issued one and a negative one if it is not; energy is
counted in units, prices in tenths of a cent for a unit, and time in clock steps. A handler reads the
clock once. Names, addresses, tokens and messages are left out, and so are the error paths of the
in-memory repositories and of the event gateway, which never return an error. Repositories list in
ID order, which is the order of numbers here; beyond 999,999 issued IDs the program's textual
order is another, which the models do not have. In `LocationView` a charger is its site and state, the
limits on sites and chargers are left out (`ChangeLimit` bounds both), and a pull is answered in one
page, as those of this mock are up to the page size. In `Simulator` seeding is `SeedSize` additions, what a
tick does is to publish, and the one timeout of `main.go` (requests that are still handled 5 s
after the interrupt) does not expire. These variables are history, read by properties only:

- `lost` in `LocationView` holds the sites and EVSEs whose last push was dropped, failed or overtaken, or
  that a pull overlapped by changes may have put back, and the EVSEs that have changed without any push (`Overwritten`:
  a charger whose ID was issued again for another site); a later push that is delivered, or a pull that nothing
  disturbs (`calm`), takes them out. `SettledIsRight` says that the eMSP is right about all the others;
- `missing`, `changed` and `slipped` in `PageWalk` hold the sessions that the eMSP does not have as they are
  stored, those that have changed since its walk began, and whether retention has dropped sessions behind
  an offset in use; `low` in `StateView` the battery levels when the chargers were listed; `due` and `moved`
  in `Clock` the simulated time there should be, and whether the machine's clock has ever moved it;
- `verdicts` and `lost` in `CommandExchange` hold what the CPO decided and which results went missing.

## The runs

TLC checks each of these exhaustively. Every property has a mutant in `PROJECT.json`: an alternative
of one definition, kept beside it in the module and marked "Mutant", under which TLC finds the
property violated.

| Run | Question | Distinct states |
|---|---|---|
| `session_controller` | Whatever the order and times of the calls, do bills, throttle and announcements stay right, and history settled? Does an eMSP that pulls page by page meanwhile, and then what changed since, have every session? | 884,142 |
| `session_retention` | Are the sessions that completed last the ones that are kept? **No** (see Findings) | |
| `operator_api` | A state view read one repository after another, while charges start, end and are forgotten write by write, and the clock is speeded up and slowed down: does what it shows fit together, is its battery level real, is nothing in it from the future, and does the clock keep the time that has elapsed? | 3,291,960 |
| `charger_controller` | Two chargers, added with issued and chosen IDs, removed and added again, one session after another; vehicles of which one tapers and one is filled at once; faults by hand and by behavior; ticks anywhere. Is every session held by one charger, every lock justified, every moment billed once, no battery overfilled? | 853,680 |
| `charger_id_clash` | The same with a chosen ID spelt like an issued one. **No** (see Findings) | |
| `command_races` | Three commands of any kind racing with each other, with people and with the ticks: one answer each, a true one, in time? | 823,936 |
| `command_liveness` | With starts that behaviors reject, fail or time out among others: is every accepted command answered, and as the behavior says? | 199,117 |
| `event_push` | The sessions and CDRs of two charges, a queue of two, an unreliable receiver, a stop at any moment: is every push accounted for, processed once and in order, does the eMSP end up with the session and the bill that the CPO has, and does Stop end? | 215,390 |
| `location_view` | Changes, pushes and pulls in any order: is the eMSP right about everything whose last news has reached it? | 2,135,624 |
| `command_exchange` | Two commands, a store of one, everything lost or late: does each get an outcome, and the right one? | 6,978 |
| `simulator` | Two resets, start-up, ticks, shutdown: is each world of a reset seeded once, only the current one pushing, and nothing left running after shutdown? Does everything end? | 76,682 |
| `simulator_seed` | Is each world seeded once? **No** (see Findings) | |

Bounds. `Horizon` stops the clock, `SessionLimit`, `ChargerLimit` and `CommandLimit` the issuing of
IDs, and `LastStart` and `LastCommand` keep starts and commands early enough for what they lead to
to happen before the horizon; `PublishLimit`, `ChangeLimit`, `PressLimit` and `TickLimit` bound the
events of the other modules. They are conjuncts of the actions they bound. Why they are enough:

- sessions: the retention limit is 1 and three sessions may be started, so sessions are dropped while
  others are active; the update interval is 2 clock steps of 2 (3 in `session_retention`), so updates are
  both held back and published. Pages hold one session although two are asked for, and a second is two
  clock steps, so a walk has up to three pages and timestamps are cut off. All but `PulledIsCurrent`
  is proved for every value of the constants, so these bounds are those of the pages;
- the operator API: one charger, two sessions and retention of one make every combination of a session that
  is active, ends, is billed and is forgotten fall between any two of the reads. The clock runs for five steps, with two changes of speed (up and down,
  with a pause in each) and two settings of the machine's clock at any moment, so that time passes before,
  between and after the changes. Once there has been a charger it only runs for two (`BusyHorizon`), which leaves room
  between the reads for time at the first speed, time at a changed one, or a change of speed after it. A
  poll that has been answered ends the behavior until the next poll: later steps would not change it;
- chargers: the battery of 10 units with 3 units a step reaches the taper, the full battery and the cut
  last reading within the 4 steps of the horizon, and a behavior's fault needs 4; two chargers are enough
  for a tick to be half-way through its loop, and two sessions for one to follow another at a charger;
- commands: two that contend for a charger and a third that makes retention, which keeps two, drop
  one; the start timeout is twice the latency, so that a start waits over several ticks;
- pushes: a queue of two with one push being sent holds three of four events, two sessions and a store of one
  let a newer session crowd out an older one, and the progress of a session is both held back and
  published; in `location_view` four changes add a site, add a charger to it, change it and
  remove it or add another, or add two sites and a charger to each, the second with an issued ID that
  the first has; in `command_exchange` the second command
  pushes the first out of the store; in `simulator` two resets wait for each other while main starts up, and
  the one push of a world's seed and the two of ticks can be at any stage of delivery, or find the queue of
  one full.

The runs `session_controller` and `operator_api` have a VIEW that leaves out what the last handler
published (`Fresh`): the next handler starts with no publications, whatever they were, so states that differ in
them only have the same future. No invariant of these runs depends on them, and action properties are
evaluated on every step. That of `operator_api` also leaves out when a session was last published, where the clock's
anchor is (what the clock shows and its speed are in), how the machine's clock stands once it no longer counts, and of
the chargers that a poll has read all but session and vehicle: no step that the properties see depends on these.

The models stop when the clock does and nothing is left to do, so deadlock is not checked; that
nothing gets stuck before is what the liveness properties show.

Fairness, module by module, is weak unless said otherwise and is never assumed of people, behaviors,
remote commands, resets or interrupts:

- `CommandController`: time passes (up to the horizon) and the scheduled job takes its next step.
  `gateway/scheduler` runs the job from a ticker for as long as the process lives, catches its errors and
  panics, and its callbacks only wait for mutexes that every handler releases.
- `RecordView`: the goroutine runs and a send ends, at the latest by the HTTP client's timeout. Noticing the stop
  channel and taking the next push are one fair action, since select may prefer either.
- `CommandExchange`: the app's request is handled and ends (timeout), the CPO answers accepted commands
  (`CommandsAreAnswered` of `command_liveness`), pushes are delivered or fail.
- `Simulator`: main's and the resets' steps, sends and ticks end. Strong fairness for the job and for a gateway
  noticing that they were stopped: the ticker, or the queue, may be ready as well each time, but select
  chooses at random among what is ready, and does not prefer one for ever.

What the models show along the way and no property forbids:

- a push that timed out can be processed after a newer one, and then the eMSP believes the older state
  until the next change or pull; a session that was pushed late comes back into the mock's store;
- between the swap of the worlds and the stop of the old gateway the old world's pushes reach the new
  world's mock, and Stop may deliver more pushes before it ends;
- an empty list of EVSEs does not replace a longer one, so the missed removal of a site's last charger
  survives every pull; a command whose answer was lost shows ERROR until its result arrives;
- an eMSP that asks for what changed since the time in its last answer misses what changed between the
  cutting of that page and the reading of the clock (handler/ocpi/handler.go:84 comes after the page): under
  `PulledIsCurrent` with that `date_from` TLC finds the session that is missed. It is safe to go back to an
  answer from before the previous walk, which is what the eMSP of `PageWalk` does. When retention drops a
  session in the middle of a walk, the sessions after it slip to pages that were already asked for, and are
  skipped; without `slipped` the property is violated;
- while a session ends, a poll of the operator API may show its charger still charging beside the completed
  session, and if retention has forgotten the session, the battery level at which it started;
- before the first change of speed the simulated clock follows the machine's (`UTC()` strips the monotonic
  reading of the first anchor), also when that is set back. `ClockIsMonotone` names that exception, and
  `StateView` assumes that it does not happen: a charger tick would then subtract energy;
- `SetSpeed` reads the clock twice, and what passes between the two readings is not simulated.

## Findings

- `session_retention`: docs/REFERENCE.md promises that the last 500 completed sessions are kept. The
  code (retention.go:31) drops by session ID, the order of *starting*. A session that outlasts 500
  later ones is forgotten, bill included, in the very call that completes it.
- `charger_id_clash`: `AddCharger` (chargers.go:57) does not check an ID it issues itself. If a caller
  has added "EVSE-000001" by name, the first charger added without a name replaces it. If that charger
  was charging, its session stays ACTIVE for ever and no charger has it: what app/invariants_test.go
  rules out. The test's random walk never chooses such an ID. If the two are at different sites, the eMSP
  also goes on showing the EVSE at the first: only the new one is pushed (`Overwritten` in `LocationView`). Sites
  have the same flaw, with less to lose.
- `simulator_seed`: `Reset` promises a freshly seeded world and takes `resetMu` so that no world is seeded
  twice, but main's own `Seed` (simulator.go:147) runs after the server has begun to listen and takes no
  lock: a reset that comes first gets its world seeded by main as well.

## The proofs

Eight modules hold theorems; all obligations are checked with the SMT solver, Zenon and LS4. All
35 invariants and action properties that the passing runs check are proved for every value of
the constants; `PROJECT.json` lists them.

- `Sessions_proofs`: lemmas about the handlers as operators on ledgers. `LedgerIsRight` gathers
  what they preserve together: well-formedness, the one-to-one correspondence of CDRs and completed
  sessions, the throttle map and the throttle interval. None is inductive alone: that retention
  drops the right CDRs needs that each CDR's session is completed, and that a new session has no CDR
  needs that CDRs only bill sessions that were issued. Then what each handler leaves of the other sessions,
  what it publishes and what it adds to a session, which the modules below cite. And the lemma behind both
  retention limits, `LastOnesAreFew`: of those that fewer than a limit follow, there are no more than the limit.
- `ChargerController_proofs`: everything that `charger_controller` checks, for any numbers of chargers,
  sessions, vehicles and behaviors. The inductive invariant `IInv` adds to the properties about chargers and
  sessions `LedgerIsRight`, that every charger's and session's ID has been issued
  (`IDsAreCounted`: a new one is new) and that no session starts after the clock nor the
  last tick (`TimesAreInOrder`: a metered time is not negative). `MeterInv`, on top of it, is what metering
  needs: the energy of a session in progress fits into its battery on top of the level it started at
  (`BatteriesHold`; a reading is cut to the room that is left), the tick in progress is the last that began, and
  `EveryMomentMeteredOnce` itself. That a session's end is billed as it should be follows from what each handler
  calls, which is shown handler by handler.
  One assumption is needed, `NoIDLooksIssued`: no caller chooses an ID that is spelt like an issued one.
  `charger_id_clash` shows that it cannot be dropped.
- `CommandController_proofs`: `CommandController` implements `CommandPromise` (`PromiseIsKept`), whatever IDs
  callers choose: what the job has left to do is pending and numbered (`JobInv`), so that the step that ends
  a command answers it for the first time. `AnswersAreTrue` and `NothingOverdue` need the chargers' invariant and
  `CommandInv` as well: a start has a session exactly if it was accepted, no command names a session that was
  not issued yet (so that a new one is nobody else's), between the two calls of a start the current command is
  that start, and of the commands that were due when the job read the clock those it has passed over still wait
  for their driver (`DueHaveHadTheirTurn`). The charger steps are those of `ChargerController` (`IInv` is kept by a command's
  calls as by a person's), so that `SessionsMatchChargers` holds under commands too.
  No more finished commands are kept than the limit (`FinishedCommandsAreBounded`, from `JobInv` alone). Last, the
  loops of `InterceptorLoop` compute the verdicts of `Behaviors` for lists of any length. There is no run of that
  module: TLC could only repeat it for short lists.
- `RecordView_proofs`: first the session controller: under any caller, `TypeOK`, `CDRsAreTheBills`,
  `ThrottleIsExact` and `ListenersAreNearlyCurrent` are invariants, for every update interval and retention limit;
  and the two action properties, `HistoryIsSettled` and `CompletionIsAnnounced`; and no more completed sessions and
  no more bills are kept than the limit (`HistoryIsBounded`). Then the pages, `PulledIsCurrent`: `WalkInv` says that
  a session the eMSP is missing, and that has not changed since the walk began, is still ahead, which between walks is to be
  dated no earlier than the next walk asks for, and during one is to match and to have a position behind the offset. A
  handler dates what it changes with the present (`StepDates`), so the list that is cut into pages only grows unless
  retention shortens it, and in a longer list nothing comes earlier (`PositionOnlyGrows`). Then the push gateway for every queue and any number of events. `PushInv` says that the queue
  is in the order of publication, behind the push that is being sent, that what was processed or is late is
  older, and that the counters add up. `RecordView` implements `EventPush`, which carries it over. Then the store:
  `RecordInv` relates the log, with the calls that the handler in progress has still to make (`Said`), to the
  ledger (the last that was said of a session is how it is, up to the throttle, and a bill comes right after
  the completion it agrees with, once), and the store to what was processed (a session is there as it was processed
  last, or newer ones have crowded it out; a bill as it was processed). `RecordIsNearlyTrue` and `BilledAsShown` follow from both.
- `CommandExchange_proofs`: a result finds its command, the store tells the truth and outcomes are final, for any number
  of commands and every size of store and queue. `ExchangeInv` follows a command across the wire: it is in the store
  from when it is sent, once, until newer ones push it out (`StoreInv`); a request has one answer (`WireInv`); an accepted
  command of the app is one command of the CPO, which has a result only once it is no longer pending (`CPOInv`); and
  what is under way is such a result (`PushInv`). `OutcomesStay` needs all of it: two results of one command would
  have to be the same verdict.
- `LocationView_proofs`: `SettledIsRight`, for any number of sites, chargers, changes and overlapping pulls, every queue, and
  whatever becomes of the pushes. `ViewInv` says that the last push about a subject that is not lost tells
  what the CPO has (`PushInv`), that where none is under way the store shows it (`AgreeInv`), and of every pull
  how far it can be trusted: as long as nothing has changed since it began, what it has read is what there is, and
  if no push and no other pull has come in between either, the sites it has already applied are right
  (`PullInv`). That makes a pull that was left alone a repair, and keeps a disturbed one harmless: what it may have set
  back counts as lost. Nothing is assumed of the IDs that callers choose: an EVSE that is gone from its site because its ID
  was issued again at another is not pushed, and the theorem says nothing of it until a later push or such a
  pull (`AddChargerKeeps`). Two assumptions on the constants, that a charger's ID is not empty (`ChargersHaveIDs`:
  `AddCharger` issues one) and that the value for no push is none (`NoPushIsNone`).
- `Simulator_proofs`: the four invariants of `simulator`, for any number of resets, worlds, ticks and pushes. `Inv`
  says for each place of a reset and of main where the others can be: `resetMu` is with the one reset that is on its
  way, the current world is the newest, every older world is quiet but the last, which the reset that replaced it
  has still to see stop (`PreviousInv`), each world has been seeded by one reset except the first and the one that
  the reset on its way has still to seed (`SeedInv`), and after draining no reset is left, then no tick, then no
  push (`ShutdownInv`).
- `StateView_proofs`: first the clock, `TimeKeepsItsSpeed` and `ClockNeverGoesBack`, for any speeds, pauses,
  adjustments of the machine's clock and numbers of changes. Both are inductive on top of `ClockTypeOK`, by three
  lemmas: time that passes is simulated time at the present speed, a change of speed leaves the simulated time
  where it was, and setting the machine's clock is not noticed once the speed has been changed. Then the
  operator API. `ViewInv` says that the states a handler takes the repositories through form a chain, in which a
  session that is gone stays gone, one that is over does not change and no energy is lost (`Chain`, of which `HandlerWrites`
  shows that every handler makes one), and that what a poll has read fits every state of that chain (`PollIsRight`).
  A poll that has read of a session numbered up to `n` relies on nothing that a handler does to later ones. It needs `NoIDLooksIssued`.

TLC has checked `IInv`, `MeterInv`, `JobInv`, `CommandInv`, `RecordInv`, `WalkInv`, `ExchangeInv`, `Inv` and the `ViewInv` of
`StateView_proofs` and of `LocationView_proofs` on the instances of the runs before they were proved, the last also with two
pulls at a time, and the two limits on what is kept (`HistoryIsShort`, `FinishedAreFew`), which are stated beside their proofs
and no run repeats. The assumptions of the modules say what the program's own configuration does: limits,
intervals and sizes are positive, and the lists of behaviors are lists (`ListsAreBuilt`: `Build` makes them). Others say that
a name for nothing is not something (`PushesAreNumbered`, `NoPushIsNone`; `Nobody` is no reset).

Model-checked only: liveness and everything else under fairness (`CommandsAreAnswered`, `EveryPushIsSettled`,
`EveryCommandHasAnOutcome`, `ResetsEnd`, `ShutdownEnds`), which is out of the prover's reach; and the three violations, of
which an instance is all there is to show.

## Plan

Done: the controllers, behaviors, clock, push gateway, the operator API's view, the pages of the OCPI
interface, the eMSP's view of locations, sessions, bills and commands, and the simulator; and every safety
property of theirs is proved. What could come next, in the order in which it would say most:

1. Liveness beyond small instances. It needs a prover with fairness and ENABLED; until then the
   bounds of the liveness runs are the ones to raise.
2. What a bill says of the place (the charger and the site of a CDR), once a document says what is promised.
3. `date_to`, and the walk of an eMSP that sets it.

## Not modelled

- Parsing, formatting, HTTP, the web interface, the log, metrics (other than the push counters) and trace:
  no property here is about them, and none keeps state that the modelled parts read.
- Floating-point error: quantities are whole numbers, so what the models say of bills and batteries
  holds up to rounding in the last place.
- The OCPI objects beyond what the properties tell apart, among them the charger and the site that a CDR
  describes: they are looked up when the CDR is delivered or pulled (gateway.go:114-115, records.go:42-43), so
  they are those of a charger that was removed (a zero one, described as an AC socket) or added again under the
  same ID since. And the registration handshake before a pull.
- Of the pages, `date_to`, the CDRs' pages (the same code) and offsets near the largest integer.
- Single reads (Get..., List...): they change nothing. The ones that combine several reads without a lock are
  in `StateView`, `PageWalk` and `LocationView`. In `StateView` the commands, sites and trace are left out, which
  nothing compares with the rest.
- The timeout of `Shutdown`: when it expires `main` returns an error without stopping the simulator, and
  the process ends.
