-------------------------- MODULE CommandController --------------------------
(***************************************************************************)
(* The command controller (controller/command) on top of the charger       *)
(* controller, and the scheduled job that runs both ticks (app/world.go):  *)
(* remote commands of an eMSP, answered at once (PENDING or REJECTED) and  *)
(* resolved later with a result.                                           *)
(*                                                                         *)
(* Locks.  A command handler holds command.mu from beginning to end.  It   *)
(* calls GetCharger, which takes no lock of the charger controller, and    *)
(* writes nothing but commands, which no charger operation reads: it       *)
(* commutes with those, and is one action.                                 *)
(* The command tick also holds command.mu from beginning to end, but takes *)
(* charger.mu only inside the calls it makes, so people go on acting at    *)
(* the chargers between its steps.  It resolves one command in one action, *)
(* except for a remote start whose vehicle is there: GetCharger and        *)
(* StartCharging are two calls, and the charger may have changed between.  *)
(*                                                                         *)
(* Command IDs are numbers, in the order of issue, as session IDs are.     *)
(***************************************************************************)
EXTENDS ChargerController

CONSTANTS
  CommandLatency,       \* config.CommandLatency, in clock steps
  StartTimeout,         \* config.StartTimeout, in clock steps
  MaxFinishedCommands,  \* config.MaxFinishedCommands
  CommandLimit,         \* bound: how many commands are accepted
  LastCommand           \* bound: no command arrives after this moment

ASSUME CommandConfig == /\ CommandLatency \in Nat
                        /\ StartTimeout \in Nat \ {0}
                        /\ MaxFinishedCommands \in Nat \ {0}

VARIABLES
  commands,       \* the command repository
  lastCommandID,  \* the last number issued for a command ID
  job,            \* where the scheduled job is: phase, clock reading, commands it has left
  answers         \* the command events of the last step, published after those of the ledger

commandVars == <<commands, lastCommandID, job, answers>>
allVars == <<vars, commandVars>>

(***************************************************************************)
(* The job's phases.  "commands": the command tick is about to take up the *)
(* first command it has left.  "starting": it has found that command's     *)
(* charger ready, and is about to call StartCharging.  "chargers": the     *)
(* command tick is over, the charger tick is next.  "ticked": the charger  *)
(* tick has begun; when it ends the job is over until the scheduler runs   *)
(* it again.                                                               *)
(***************************************************************************)
Phases == {"commands", "starting", "chargers", "ticked"}
CommandLockIsFree == job.phase \in {"chargers", "ticked"}

CommandInit ==
  /\ Init
  /\ commands = EmptyRepository /\ lastCommandID = 0
  /\ job = [phase |-> "ticked", at |-> 0, todo |-> {}]
  /\ answers = << >>

\* A step in which the command controller does nothing.
NoCommandStep == answers' = << >> /\ UNCHANGED <<commands, lastCommandID, job>>

\* A step in which no charger operation is called.
NoChargerStep ==
  /\ ledger' = Fresh(ledger)
  /\ UNCHANGED <<now, chargers, lastChargerID, lastTickAt, tick>>

CommandEvent(id, command) == [topic |-> "command", id |-> id, command |-> command]

PendingIn(repository) == {c \in DOMAIN repository : repository[c].state = "PENDING"}
FinishedIn(repository) == DOMAIN repository \ PendingIn(repository)

\* Mutant: pending commands are dropped as well.
ExcessCommandsOfAnyState(repository) ==
  {c \in DOMAIN repository :
     Cardinality({d \in DOMAIN repository : d > c}) >= MaxFinishedCommands}

\* The finished commands to drop: the first of the list down to the limit.
ExcessCommands(repository) ==
  {c \in FinishedIn(repository) :
     Cardinality({d \in FinishedIn(repository) : d > c}) >= MaxFinishedCommands}

\* Store and publish a command; forget the oldest finished ones if this one is finished.
UpdateCommand(id, command) ==
  LET stored == Upsert(commands, id, command)
  IN  /\ commands' = IF command.state = "PENDING" THEN stored
                     ELSE DeleteAll(stored, ExcessCommands(stored))
      /\ answers' = <<CommandEvent(id, command)>>

-----------------------------------------------------------------------------
(* Accepting commands: commands.go. *)

NewCommand(kind, chargerID, sessionID, forcedResult, state, resultDelay) ==
  [kind |-> kind, chargerID |-> chargerID, sessionID |-> sessionID,
   forcedResult |-> forcedResult, state |-> state, result |-> NoResult,
   readyAt |-> now + resultDelay, deadlineAt |-> now + StartTimeout]

Accept(command) ==
  /\ CommandLockIsFree
  /\ lastCommandID < CommandLimit /\ now <= LastCommand
  /\ lastCommandID' = lastCommandID + 1
  /\ UpdateCommand(lastCommandID + 1, command)
  /\ NoChargerStep /\ UNCHANGED job

\* StartSession: the charger's behaviors may refuse the start, which is final, or fix the
\* result it will have.
AcceptStart(chargerID, roll) ==
  LET specs == chargers[chargerID].behaviors
  IN  Accept(NewCommand("START_SESSION", chargerID, NoSession,
               IF Rejects(specs) THEN NoResult ELSE ForcedResult(specs, roll),
               IF Rejects(specs) THEN "REJECTED" ELSE "PENDING",
               ResultDelay(specs, CommandLatency)))

\* StopSession: the OCPI handler has looked the session up; whether it still charges is found
\* out when the command is carried out.
AcceptStop(sessionID) ==
  Accept(NewCommand("STOP_SESSION", 0, sessionID, NoResult, "PENDING", CommandLatency))

AcceptUnlock(chargerID) ==
  Accept(NewCommand("UNLOCK_CONNECTOR", chargerID, NoSession, NoResult, "PENDING",
                    CommandLatency))

-----------------------------------------------------------------------------
(* Carrying commands out: resolution.go. *)

\* Mutant: a command is taken up again although it is finished.
DueWhateverState == {c \in DOMAIN commands : now >= commands[c].readyAt}

Due == {c \in PendingIn(commands) : now >= commands[c].readyAt}

\* The scheduler runs the job; the command tick takes its lock, lists the commands and reads
\* the clock.
JobBegins ==
  /\ job.phase = "ticked" /\ LockIsFree
  /\ job' = [phase |-> IF Due = {} THEN "chargers" ELSE "commands", at |-> now, todo |-> Due]
  /\ answers' = << >>
  /\ NoChargerStep /\ UNCHANGED <<commands, lastCommandID>>

Current == CHOOSE c \in job.todo : \A d \in job.todo : c <= d

\* The current command has had its turn; after the last, the command tick is over.
CommandTurnIsOver ==
  job' = [phase |-> IF job.todo = {Current} THEN "chargers" ELSE "commands",
          at |-> job.at, todo |-> job.todo \ {Current}]

\* The current command is resolved: result, and the session if it is a start that got one.
Resolve(result, sessionID) ==
  /\ UpdateCommand(Current, [commands[Current] EXCEPT !.result = result, !.state = "RESOLVED",
                                                      !.sessionID = sessionID])
  /\ CommandTurnIsOver
  /\ UNCHANGED lastCommandID

\* The current command is resolved without any effect on a charger.
ResolveOnly(result) == Resolve(result, commands[Current].sessionID) /\ NoChargerStep

\* It is the turn of a command of this kind, and no behavior has fixed its result.
Attempting(kind) ==
  /\ job.phase = "commands"
  /\ commands[Current].forcedResult = NoResult
  /\ commands[Current].kind = kind

AttemptForced ==
  /\ job.phase = "commands"
  /\ commands[Current].forcedResult # NoResult
  /\ ResolveOnly(commands[Current].forcedResult)

AttemptStop ==
  LET sessionID == commands[Current].sessionID
  IN  /\ Attempting("STOP_SESSION")
      /\ IF CanStop(sessionID)
         THEN StopCharging(sessionID) /\ Resolve("ACCEPTED", sessionID)
         ELSE ResolveOnly("FAILED")

AttemptUnlock ==
  LET id == commands[Current].chargerID
  IN  /\ Attempting("UNLOCK_CONNECTOR")
      /\ IF id \in DOMAIN chargers /\ chargers[id].session = NoSession
         THEN UnlockConnector(id) /\ Resolve("ACCEPTED", NoSession)
         ELSE ResolveOnly("FAILED")

\* Why attemptStart turns a start down after GetCharger; NoResult if it does not.
StartRefusal(id) ==
  IF id \notin DOMAIN chargers THEN "FAILED"
  ELSE IF chargers[id].state = "FAULTED" THEN "EVSE_INOPERATIVE"
  ELSE IF chargers[id].session # NoSession THEN "EVSE_OCCUPIED"
  ELSE NoResult

\* Mutant: the clock has to be past the deadline, and the command waits for one tick more.
WaitsAtDeadlineToo(id) ==
  chargers[id].vehicle = NoVehicle /\ job.at <= commands[Current].deadlineAt

\* Mutant: there is no deadline.
WaitsForEver(id) == chargers[id].vehicle = NoVehicle

\* The driver has not plugged in yet and still has time.
WaitsForDriver(id) ==
  chargers[id].vehicle = NoVehicle /\ job.at < commands[Current].deadlineAt

\* attemptStart up to the call of StartCharging.
AttemptStart ==
  LET id == commands[Current].chargerID
  IN  /\ Attempting("START_SESSION")
      /\ IF StartRefusal(id) # NoResult THEN ResolveOnly(StartRefusal(id))
         ELSE IF WaitsForDriver(id)
         THEN CommandTurnIsOver /\ NoChargerStep /\ answers' = << >>
              /\ UNCHANGED <<commands, lastCommandID>>
         ELSE IF chargers[id].vehicle = NoVehicle THEN ResolveOnly("TIMEOUT")
         ELSE job' = [job EXCEPT !.phase = "starting"] /\ NoChargerStep /\ answers' = << >>
              /\ UNCHANGED <<commands, lastCommandID>>

\* The call of StartCharging, which looks at the charger again.
CallStartCharging ==
  LET id == commands[Current].chargerID
  IN  /\ job.phase = "starting"
      /\ IF id \in DOMAIN chargers /\ CanStart(chargers[id])
         THEN StartCharging(id) /\ Resolve("ACCEPTED", ledger.lastSessionID + 1)
         ELSE ResolveOnly("FAILED")

\* The command tick is over: the charger tick.
ChargerTickBegins ==
  /\ job.phase = "chargers"
  /\ TickBegins
  /\ job' = [job EXCEPT !.phase = "ticked"]
  /\ answers' = << >> /\ UNCHANGED <<commands, lastCommandID>>

-----------------------------------------------------------------------------
AcceptCommand ==
  \/ \E id \in DOMAIN chargers : AcceptUnlock(id) \/ \E roll \in Rolls : AcceptStart(id, roll)
  \/ \E s \in DOMAIN ledger.sessions : AcceptStop(s)

JobSteps ==
  \/ JobBegins
  \/ AttemptForced \/ AttemptStop \/ AttemptUnlock \/ AttemptStart \/ CallStartCharging
  \/ ChargerTickBegins
  \/ NoCommandStep /\ \E id \in tick.todo, roll \in Rolls : AdvanceCharging(id, roll)

CommandNext ==
  \/ AcceptCommand
  \/ JobSteps
  \/ NoCommandStep /\ (Manage \/ PersonActs \/ TimePasses)

CommandSpec == CommandInit /\ [][CommandNext]_allVars

\* Time goes on, and the scheduler runs the job again and again to its end.
FairCommandSpec ==
  CommandSpec /\ WF_allVars(TimePasses /\ NoCommandStep) /\ WF_allVars(JobSteps)

-----------------------------------------------------------------------------
Results == {"ACCEPTED", "EVSE_INOPERATIVE", "EVSE_OCCUPIED", "FAILED", "TIMEOUT"}

\* What the eMSP may conclude from an answer stays true: a stop that was accepted leaves no
\* session running, an accepted start has a session of its own that no other start claims, and
\* a command without an ACCEPTED result has started none.
AnswersAreTrue ==
  \A c \in FinishedIn(commands) :
    LET command == commands[c]
    IN  /\ command.kind = "STOP_SESSION" /\ command.result = "ACCEPTED" =>
             command.sessionID \notin ActiveSessions(ledger)
        /\ command.kind = "START_SESSION" =>
             (command.result = "ACCEPTED" <=> command.sessionID # NoSession)
        /\ command.kind = "START_SESSION" /\ command.result = "ACCEPTED" =>
             \A d \in FinishedIn(commands) \ {c} :
               commands[d].kind = "START_SESSION" => commands[d].sessionID # command.sessionID

\* A tick leaves behind no command that was due when it read the clock, except starts that
\* still wait for a driver: none waits past its deadline.
NothingOverdue ==
  CommandLockIsFree =>
    \A c \in PendingIn(commands) :
      commands[c].readyAt < job.at =>
        /\ commands[c].kind = "START_SESSION"
        /\ commands[c].forcedResult = NoResult
        /\ commands[c].deadlineAt > job.at

Promise ==
  INSTANCE CommandPromise WITH
    CommandResults <- Results, NoAnswer <- << >>,
    issued <- lastCommandID, pending <- PendingIn(commands),
    said <- IF answers # << >> /\ answers[1].command.state = "RESOLVED"
            THEN [command |-> answers[1].id, result |-> answers[1].command.result] ELSE << >>

\* The command controller implements what CommandExchange expects of the CPO: a command is
\* accepted or rejected when it comes, and an accepted one gets one result, once.
KeepsPromise == Promise!PromiseSpec

\* Every command that was accepted is answered in the end, whatever people do at the chargers; and
\* if a behavior has fixed the result of a start, then with that result as long as the command is
\* kept, so that it never becomes a session (attempt).
CommandsAreAnswered ==
  \A c \in 1..CommandLimit :
    c \in PendingIn(commands)
      ~> /\ c \notin PendingIn(commands)
         /\ c \in DOMAIN commands /\ commands[c].forcedResult # NoResult =>
              commands[c].result = commands[c].forcedResult
=============================================================================
