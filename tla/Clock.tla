-------------------------------- MODULE Clock --------------------------------
(***************************************************************************)
(* The simulated clock (gateway/clock): it runs at a multiple of real time *)
(* from an anchor, and a change of speed moves the anchor.                 *)
(*                                                                         *)
(* What it runs on is Go's time.Now, whose readings carry two times: the   *)
(* wall clock, which can be set, and a monotonic clock, which cannot.  The *)
(* difference of two readings is monotonic if both still have that time,   *)
(* and else that of the wall clock.  The anchor of a new gateway has lost  *)
(* it (UTC() strips it); the anchor that SetSpeed takes has not.           *)
(*                                                                         *)
(* A speed is a whole number here, so that the fraction of a nanosecond    *)
(* that now() cuts off is left out.                                        *)
(***************************************************************************)
EXTENDS Integers

CONSTANTS
  MaxSpeed,      \* maxSpeed
  InitialSpeed,  \* the speed of a new gateway
  Speeds,        \* the speeds that callers ask for
  Pauses,        \* how long SetSpeed may take between its two readings of the clock
  Adjustments,   \* by how much the wall clock is set, ahead or back
  Stripped,      \* the monotonic time of a reading that has none
  WallHorizon,   \* bound: the monotonic clock stops here
  ChangeLimit    \* bound: how often the speed is changed, and how often the wall clock is set

\* validateSpeed
IsSpeed(speed) == speed > 0 /\ speed <= MaxSpeed

ASSUME ClockConfig == /\ MaxSpeed \in Nat /\ InitialSpeed \in Nat /\ IsSpeed(InitialSpeed)
                      /\ Speeds \subseteq Int /\ Pauses \subseteq Nat
                      /\ Adjustments \subseteq Int /\ Stripped \notin Int

VARIABLES
  wall,     \* the wall clock
  steady,   \* the monotonic clock
  clock,    \* the gateway
  changes,  \* how often the speed was changed, and how often the wall clock was set
  moved,    \* history: whether setting the wall clock has moved the simulated one
  due       \* history: the simulated time there should be

clockVars == <<wall, steady, clock, changes, moved, due>>

\* time.Now()
WallNow == [wall |-> wall, steady |-> steady]

\* reading.Sub(anchor)
Since(reading, anchor) ==
  IF anchor.steady = Stripped THEN reading.wall - anchor.wall ELSE reading.steady - anchor.steady

\* The simulated time at a reading of the clock: now().
SimulatedAt(gateway, reading) ==
  gateway.simulatedAnchor + Since(reading, gateway.wallAnchor) * gateway.speed

SimulatedNow == SimulatedAt(clock, WallNow)

\* NewScaledGateway
ClockInit ==
  /\ wall = 0 /\ steady = 0 /\ due = 0
  /\ clock = [simulatedAnchor |-> 0, speed |-> InitialSpeed,
              wallAnchor |-> [wall |-> 0, steady |-> Stripped]]
  /\ changes = [speed |-> 0, wall |-> 0] /\ moved = FALSE

\* Real time passes.
WallPasses ==
  /\ steady < WallHorizon
  /\ wall' = wall + 1 /\ steady' = steady + 1
  /\ due' = due + clock.speed
  /\ UNCHANGED <<clock, changes, moved>>

\* The machine's clock still moves the simulated one: the anchor is that of NewScaledGateway.
OnWallClock == clock.wallAnchor.steady = Stripped

\* Someone sets the clock of the machine.
WallIsSet(by) ==
  /\ changes.wall < ChangeLimit
  /\ changes' = [changes EXCEPT !.wall = @ + 1]
  /\ moved' = (moved \/ OnWallClock)
  /\ wall' = wall + by
  /\ UNCHANGED <<steady, clock, due>>

\* Mutant: the new speed applies to the time that has elapsed as well.
SetSpeedOnly(speed, pause) ==
  /\ IsSpeed(speed) /\ changes.speed < ChangeLimit
  /\ changes' = [changes EXCEPT !.speed = @ + 1]
  /\ wall' = wall + pause /\ steady' = steady + pause
  /\ clock' = [clock EXCEPT !.speed = speed]
  /\ UNCHANGED <<moved, due>>

\* SetSpeed reads the clock for the simulated time to keep, and again for the anchor; the gateway's
\* lock is held all the while, so nobody reads the simulated time in the pause, which it skips.
SetSpeed(speed, pause) ==
  /\ IsSpeed(speed) /\ changes.speed < ChangeLimit
  /\ changes' = [changes EXCEPT !.speed = @ + 1]
  /\ wall' = wall + pause /\ steady' = steady + pause
  /\ clock' = [simulatedAnchor |-> SimulatedNow, speed |-> speed, wallAnchor |-> WallNow']
  /\ UNCHANGED <<moved, due>>

ClockNext ==
  \/ WallPasses
  \/ \E by \in Adjustments : WallIsSet(by)
  \/ \E speed \in Speeds, pause \in Pauses : SetSpeed(speed, pause)

ClockSpec == ClockInit /\ [][ClockNext]_clockVars

-----------------------------------------------------------------------------
ClockTypeOK ==
  /\ wall \in Int /\ steady \in Nat /\ due \in Int
  /\ clock \in [simulatedAnchor: Int, speed: 1..MaxSpeed,
                wallAnchor: [wall: Int, steady: Nat \cup {Stripped}]]
  /\ changes \in [speed: Nat, wall: Nat] /\ moved \in BOOLEAN

\* The simulated clock never goes back, whatever speeds it is set to and however the machine's
\* clock is set, except that it follows a wall clock that is set back before the first change of
\* speed (NewScaledGateway's anchor; now, SetSpeed).  Controllers subtract its readings.
ClockNeverGoesBack ==
  [][SimulatedNow' >= SimulatedNow \/ (OnWallClock /\ wall' < wall)]_clockVars

\* Time that has elapsed keeps the speed it elapsed at: the simulated time is what each stretch of
\* real time amounts to at the speed it had, also after several changes, unless the wall clock was
\* set before the first of them.  What passes while a change is made counts for nothing (SetSpeed).
TimeKeepsItsSpeed == ~moved => SimulatedNow = due
=============================================================================
