----------------------- MODULE CommandController_proofs -----------------------
(***************************************************************************)
(* The command controller on top of the charger controller, for every      *)
(* value of the constants: it keeps its promise to the eMSP, what it has   *)
(* answered stays true, and no tick leaves behind a command that was due,  *)
(* whatever people do at the chargers between the steps of the job.        *)
(*                                                                         *)
(* Two invariants.  JobInv is about the commands and the job alone: what   *)
(* the job has left to do is pending.  The promise needs no more, and so   *)
(* holds whatever callers do to the chargers.  CommandInv adds to it the   *)
(* chargers' invariant IInv and what ties commands to sessions and to the  *)
(* clock; it needs, as IInv does, that no caller chooses a charger ID that *)
(* is spelt like one the controller issues.                                *)
(* That finished commands are few needs JobInv only.                       *)
(*                                                                         *)
(* Last, the loops over a charger's behaviors, from which a command has    *)
(* its forced result and its delay.                                        *)
(***************************************************************************)
EXTENDS CommandController, InterceptorLoop, ChargerController_proofs

Kinds == {"START_SESSION", "STOP_SESSION", "UNLOCK_CONNECTOR"}

CommandFields == {"kind", "chargerID", "sessionID", "forcedResult", "state", "result", "readyAt",
                  "deadlineAt"}

IsCommand(command) ==
  DOMAIN command = CommandFields /\ command.forcedResult \in {NoResult, "FAILED", "TIMEOUT"}

\* The commands are numbered, and what the job has left to do is pending.
JobInv ==
  /\ lastCommandID \in Nat
  /\ DOMAIN commands \subseteq 1..lastCommandID
  /\ \A c \in DOMAIN commands : IsCommand(commands[c])
  /\ job = [phase |-> job.phase, at |-> job.at, todo |-> job.todo]
  /\ job.phase \in Phases
  /\ job.todo \subseteq PendingIn(commands)
  /\ CommandLockIsFree <=> job.todo = {}

\* A command that is not resolved has no result, a start has a session if and only if it was
\* accepted, and a command's session is one that has been started.
CommandsAreRight ==
  \A c \in DOMAIN commands :
    LET command == commands[c]
    IN  /\ command.sessionID \in Nat /\ command.sessionID <= ledger.lastSessionID
        /\ command.readyAt \in Nat /\ command.deadlineAt \in Nat
        /\ command.state # "RESOLVED" => command.result = NoResult
        /\ command.kind = "START_SESSION" =>
             (command.result = "ACCEPTED" <=> command.sessionID # NoSession)

\* The driver still has time.
StillWaits(command) ==
  /\ command.kind = "START_SESSION"
  /\ command.forcedResult = NoResult
  /\ command.deadlineAt > job.at

\* Of the commands that were due when the job read the clock, those it has left alone still wait.
DueHaveHadTheirTurn ==
  /\ job.at \in Nat /\ job.at <= now
  /\ \A c \in PendingIn(commands) \ job.todo :
       commands[c].readyAt < job.at => StillWaits(commands[c])

\* Between the two calls of a remote start, the current command is that start.
StartingIsAStart == job.phase = "starting" => commands[Current].kind = "START_SESSION"

CommandInv ==
  /\ IInv
  /\ JobInv
  /\ CommandsAreRight
  /\ AnswersAreTrue
  /\ DueHaveHadTheirTurn
  /\ StartingIsAStart

(***************************************************************************)
(* The job's list, and what a command that is stored leaves behind.        *)
(***************************************************************************)

\* During a command tick there is a current command, and it is pending.
LEMMA CurrentIsPending ==
  ASSUME JobInv, job.phase \in {"commands", "starting"}
  PROVE  /\ Current \in job.todo /\ Current \in PendingIn(commands)
         /\ Current \in DOMAIN commands /\ Current \in 1..lastCommandID
         /\ IsCommand(commands[Current]) /\ commands[Current].state = "PENDING"
<1>1. job.todo # {} /\ job.todo \subseteq Nat
  BY DEF JobInv, CommandLockIsFree, PendingIn
<1>2. Current \in job.todo
  <2>1. \E c \in job.todo : \A d \in job.todo : c <= d
    BY <1>1, LeastOf
  <2>2. QED
    BY <2>1 DEF Current
<1>3. QED
  BY <1>2 DEF JobInv, PendingIn

\* Only finished commands are forgotten.
LEMMA UpdateLeaves ==
  ASSUME NEW id, NEW command, UpdateCommand(id, command)
  PROVE  /\ answers' = <<CommandEvent(id, command)>>
         /\ DOMAIN commands' \subseteq DOMAIN commands \cup {id}
         /\ \A c \in DOMAIN commands' : commands'[c] = IF c = id THEN command ELSE commands[c]
         /\ PendingIn(commands') = IF command.state = "PENDING" THEN PendingIn(commands) \cup {id}
                                   ELSE PendingIn(commands) \ {id}
<1> DEFINE stored == Upsert(commands, id, command)
           excess == ExcessCommands(stored)
<1>1. /\ DOMAIN stored = DOMAIN commands \cup {id}
      /\ \A c \in DOMAIN stored : stored[c] = IF c = id THEN command ELSE commands[c]
  BY DEF Upsert
<1>2. excess \subseteq DOMAIN stored /\ excess \cap PendingIn(stored) = {}
  BY DEF ExcessCommands, FinishedIn
<1>3. /\ answers' = <<CommandEvent(id, command)>>
      /\ commands' = IF command.state = "PENDING" THEN stored ELSE DeleteAll(stored, excess)
  BY DEF UpdateCommand
<1> HIDE DEF stored, excess
<1>4. /\ DOMAIN DeleteAll(stored, excess) = DOMAIN stored \ excess
      /\ \A c \in DOMAIN stored \ excess : DeleteAll(stored, excess)[c] = stored[c]
  BY DEF DeleteAll, Restrict
<1>5. PendingIn(commands') = PendingIn(stored)
  BY <1>2, <1>3, <1>4 DEF PendingIn
<1>6. PendingIn(stored) = IF command.state = "PENDING" THEN PendingIn(commands) \cup {id}
                          ELSE PendingIn(commands) \ {id}
  BY <1>1 DEF PendingIn
<1>7. QED
  BY <1>1, <1>3, <1>4, <1>5, <1>6

(***************************************************************************)
(* The shapes of a step, as the commands and the eMSP see it.              *)
(***************************************************************************)

\* A command that comes is accepted, or refused and finished.
LEMMA AcceptStep ==
  ASSUME JobInv, NEW command, IsCommand(command), command.state \in {"PENDING", "REJECTED"},
         Accept(command)
  PROVE  JobInv' /\ (Promise!AcceptNew \/ Promise!RejectNew)
<1> DEFINE id == lastCommandID + 1
<1>1. /\ UpdateCommand(id, command) /\ lastCommandID' = id /\ UNCHANGED job
      /\ CommandLockIsFree
  BY DEF Accept
<1>2. lastCommandID \in Nat /\ id \in Nat /\ id \notin DOMAIN commands /\ job.todo = {}
  BY <1>1 DEF JobInv
<1> HIDE DEF id
<1>3. /\ answers' = <<CommandEvent(id, command)>>
      /\ DOMAIN commands' \subseteq DOMAIN commands \cup {id}
      /\ \A c \in DOMAIN commands' : commands'[c] = IF c = id THEN command ELSE commands[c]
      /\ PendingIn(commands') = IF command.state = "PENDING" THEN PendingIn(commands) \cup {id}
                                ELSE PendingIn(commands) \ {id}
  BY <1>1, UpdateLeaves
<1>4. JobInv'
  <2>1. DOMAIN commands' \subseteq 1..lastCommandID'
    BY <1>1, <1>2, <1>3 DEF JobInv, id
  <2>2. \A c \in DOMAIN commands' : IsCommand(commands'[c])
    BY <1>2, <1>3 DEF JobInv
  <2>3. QED
    BY <1>1, <1>2, <2>1, <2>2 DEF JobInv, CommandLockIsFree
<1>5. answers'[1].command.state # "RESOLVED"
  BY <1>3 DEF CommandEvent
<1>6. CASE command.state = "PENDING"
  BY <1>1, <1>3, <1>4, <1>5, <1>6 DEF Promise!AcceptNew, id
<1>7. CASE command.state = "REJECTED"
  <2>1. PendingIn(commands') = PendingIn(commands)
    BY <1>2, <1>3, <1>7 DEF PendingIn
  <2>2. QED
    BY <1>1, <1>4, <1>5, <2>1 DEF Promise!RejectNew, id
<1>8. QED
  BY <1>4, <1>6, <1>7

\* A step that answers nothing.
LEMMA SilentStep ==
  ASSUME JobInv, answers' = << >>, UNCHANGED <<commands, lastCommandID>>,
         \/ UNCHANGED job
         \/ /\ job' = [phase |-> job'.phase, at |-> job'.at, todo |-> job'.todo]
            /\ job'.phase \in Phases /\ job'.todo \subseteq PendingIn(commands)
            /\ job'.phase \in {"chargers", "ticked"} <=> job'.todo = {}
  PROVE  JobInv' /\ Promise!SayNothing
<1>1. JobInv'
  BY DEF JobInv, CommandLockIsFree
<1>2. QED
  BY <1>1 DEF Promise!SayNothing

\* The turn of the current command ends, and with it the command tick if it was the last.
LEMMA TurnPasses ==
  ASSUME JobInv, job.phase \in {"commands", "starting"}, CommandTurnIsOver
  PROVE  /\ job' = [phase |-> job'.phase, at |-> job.at, todo |-> job.todo \ {Current}]
         /\ job'.phase \in Phases
         /\ job'.phase \in {"chargers", "ticked"} <=> job'.todo = {}
<1>1. Current \in job.todo
  BY CurrentIsPending
<1> DEFINE c == Current
<1> HIDE DEF c
<1>2. job' = [phase |-> IF job.todo = {c} THEN "chargers" ELSE "commands",
              at |-> job.at, todo |-> job.todo \ {c}]
  BY DEF CommandTurnIsOver, c
<1>3. /\ job'.phase = IF job.todo = {c} THEN "chargers" ELSE "commands"
      /\ job'.todo = job.todo \ {c}
  BY <1>2
<1>4. job.todo = {c} <=> job.todo \ {c} = {}
  BY <1>1 DEF c
<1>5. QED
  BY <1>2, <1>3, <1>4 DEF Phases, c

\* Resolving a command changes three of its fields.
Resolved(command, result, sessionID) ==
  [command EXCEPT !.result = result, !.state = "RESOLVED", !.sessionID = sessionID]

\* A command that is resolved has the result, and nothing but it has changed.
LEMMA ResolvedIs ==
  ASSUME NEW command, IsCommand(command), NEW result, NEW sessionID
  PROVE  LET new == Resolved(command, result, sessionID)
         IN  /\ IsCommand(new)
             /\ new.result = result /\ new.state = "RESOLVED" /\ new.sessionID = sessionID
             /\ new.kind = command.kind /\ new.forcedResult = command.forcedResult
             /\ new.readyAt = command.readyAt /\ new.deadlineAt = command.deadlineAt
  BY DEF IsCommand, CommandFields, Resolved

\* The current command gets its one result.
LEMMA ResolveStep ==
  ASSUME JobInv, job.phase \in {"commands", "starting"}, NEW result \in Results,
         NEW sessionID, Resolve(result, sessionID)
  PROVE  JobInv' /\ Promise!Answer(Current, result) /\ Current \in PendingIn(commands)
<1> DEFINE c   == Current
           new == Resolved(commands[c], result, sessionID)
<1>1. /\ UpdateCommand(c, new) /\ CommandTurnIsOver /\ UNCHANGED lastCommandID
  BY DEF Resolve, Resolved
<1>2. /\ c \in job.todo /\ c \in PendingIn(commands) /\ c \in DOMAIN commands
      /\ IsCommand(commands[c])
  BY CurrentIsPending
<1>3. /\ job' = [phase |-> job'.phase, at |-> job.at, todo |-> job.todo \ {c}]
      /\ job'.phase \in Phases
      /\ job'.phase \in {"chargers", "ticked"} <=> job'.todo = {}
  BY <1>1, TurnPasses
<1>4. IsCommand(new) /\ new.state = "RESOLVED" /\ new.result = result
  BY <1>2, ResolvedIs
<1> HIDE DEF c, new
<1>5. /\ answers' = <<CommandEvent(c, new)>>
      /\ DOMAIN commands' \subseteq DOMAIN commands \cup {c}
      /\ \A d \in DOMAIN commands' : commands'[d] = IF d = c THEN new ELSE commands[d]
      /\ PendingIn(commands') = PendingIn(commands) \ {c}
  BY <1>1, <1>4, UpdateLeaves
<1>6. JobInv'
  <2>1. job'.todo = job.todo \ {c}
    BY <1>3
  <2>2. job'.todo \subseteq PendingIn(commands')
    BY <1>5, <2>1 DEF JobInv
  <2>3. DOMAIN commands' \subseteq 1..lastCommandID'
    BY <1>1, <1>2, <1>5 DEF JobInv
  <2>4. \A d \in DOMAIN commands' : IsCommand(commands'[d])
    BY <1>2, <1>4, <1>5 DEF JobInv
  <2>5. QED
    BY <1>1, <1>3, <2>2, <2>3, <2>4 DEF JobInv, CommandLockIsFree
<1>7. /\ answers' # << >> /\ answers'[1].id = c /\ answers'[1].command.state = "RESOLVED"
      /\ answers'[1].command.result = result
  BY <1>4, <1>5 DEF CommandEvent
<1>8. Promise!Answer(c, result)
  BY <1>1, <1>2, <1>5, <1>7 DEF Promise!Answer
<1>9. QED
  BY <1>2, <1>6, <1>8 DEF c

(***************************************************************************)
(* The actions, as the commands and the eMSP see them.                     *)
(***************************************************************************)
LEMMA NewCommandIs ==
  ASSUME NEW kind, NEW chargerID, NEW sessionID, NEW state, NEW resultDelay,
         NEW forcedResult \in {NoResult, "FAILED", "TIMEOUT"}
  PROVE  LET new == NewCommand(kind, chargerID, sessionID, forcedResult, state, resultDelay)
         IN  IsCommand(new) /\ new.state = state
  BY DEF NewCommand, IsCommand, CommandFields

\* What a behavior forces is a result.
LEMMA ForcedResultIs ==
  ASSUME NEW specs, NEW roll
  PROVE  ForcedResult(specs, roll) \in {NoResult, "FAILED", "TIMEOUT"}
  BY DEF ForcedResult, ResultForcedBy

\* The steps, one after the other: a command that is accepted is a new one.
LEMMA AcceptCommandKeeps ==
  ASSUME JobInv, AcceptCommand
  PROVE  JobInv' /\ Promise!PromiseNext
<1>1. ASSUME NEW id, AcceptUnlock(id) PROVE JobInv' /\ Promise!PromiseNext
  BY <1>1, NewCommandIs, AcceptStep DEF AcceptUnlock, Promise!PromiseNext
<1>2. ASSUME NEW id, NEW roll, AcceptStart(id, roll) PROVE JobInv' /\ Promise!PromiseNext
  <2> DEFINE specs  == chargers[id].behaviors
             forced == IF Rejects(specs) THEN NoResult ELSE ForcedResult(specs, roll)
             state  == IF Rejects(specs) THEN "REJECTED" ELSE "PENDING"
             delay  == ResultDelay(specs, CommandLatency)
             new    == NewCommand("START_SESSION", id, NoSession, forced, state, delay)
  <2>1. forced \in {NoResult, "FAILED", "TIMEOUT"} /\ state \in {"PENDING", "REJECTED"}
    BY ForcedResultIs
  <2>2. Accept(new)
    BY <1>2 DEF AcceptStart
  <2> HIDE DEF forced, state, delay
  <2>3. IsCommand(new) /\ new.state = state
    BY <2>1, NewCommandIs
  <2> HIDE DEF new
  <2>4. QED
    BY <2>1, <2>2, <2>3, AcceptStep DEF Promise!PromiseNext
<1>3. ASSUME NEW s, AcceptStop(s) PROVE JobInv' /\ Promise!PromiseNext
  BY <1>3, NewCommandIs, AcceptStep DEF AcceptStop, Promise!PromiseNext
<1>4. QED
  BY <1>1, <1>2, <1>3 DEF AcceptCommand

\* The job lists the commands that are due.
LEMMA JobBeginsKeeps ==
  ASSUME JobInv, JobBegins
  PROVE  JobInv' /\ Promise!PromiseNext
<1> DEFINE due   == Due
           phase == IF due = {} THEN "chargers" ELSE "commands"
<1>1. /\ job' = [phase |-> phase, at |-> now, todo |-> due]
      /\ answers' = << >> /\ UNCHANGED <<commands, lastCommandID>>
  BY DEF JobBegins
<1>2. due \subseteq PendingIn(commands)
  BY DEF Due
<1> HIDE DEF due
<1>3. /\ job' = [phase |-> job'.phase, at |-> job'.at, todo |-> job'.todo]
      /\ job'.todo = due /\ job'.phase \in Phases
      /\ job'.phase \in {"chargers", "ticked"} <=> due = {}
  BY <1>1 DEF Phases
<1>4. QED
  BY <1>1, <1>2, <1>3, SilentStep DEF Promise!PromiseNext

\* The current command is resolved, whatever happens at the chargers.
LEMMA ResolveKeeps ==
  ASSUME JobInv, job.phase \in {"commands", "starting"}, NEW result \in Results,
         NEW sessionID, Resolve(result, sessionID)
  PROVE  JobInv' /\ Promise!PromiseNext
  BY ResolveStep DEF Promise!PromiseNext

\* The attempts answer the command at hand, if any, and no other.
LEMMA AttemptForcedKeeps ==
  ASSUME JobInv, AttemptForced
  PROVE  JobInv' /\ Promise!PromiseNext
<1>1. commands[Current].forcedResult \in Results
  BY CurrentIsPending DEF AttemptForced, IsCommand, Results, NoResult
<1>2. QED
  BY <1>1, ResolveKeeps DEF AttemptForced, ResolveOnly

LEMMA AttemptStopKeeps ==
  ASSUME JobInv, AttemptStop
  PROVE  JobInv' /\ Promise!PromiseNext
  BY ResolveKeeps DEF AttemptStop, Attempting, ResolveOnly, Results

LEMMA AttemptUnlockKeeps ==
  ASSUME JobInv, AttemptUnlock
  PROVE  JobInv' /\ Promise!PromiseNext
  BY ResolveKeeps DEF AttemptUnlock, Attempting, ResolveOnly, Results

\* A remote start is refused, waits, times out or goes on to the call of StartCharging.
LEMMA AttemptStartKeeps ==
  ASSUME JobInv, AttemptStart
  PROVE  JobInv' /\ Promise!PromiseNext
<1> DEFINE id == commands[Current].chargerID
<1>1. job.phase = "commands" /\ StartRefusal(id) \in Results \cup {NoResult}
  BY DEF AttemptStart, Attempting, StartRefusal, Results
<1>2. ASSUME NEW result \in Results, ResolveOnly(result)
      PROVE  JobInv' /\ Promise!PromiseNext
  BY <1>1, <1>2, ResolveKeeps DEF ResolveOnly
<1>3. ASSUME CommandTurnIsOver, answers' = << >>, UNCHANGED <<commands, lastCommandID>>
      PROVE  JobInv' /\ Promise!PromiseNext
  <2>1. /\ job' = [phase |-> job'.phase, at |-> job.at, todo |-> job.todo \ {Current}]
        /\ job'.phase \in Phases
        /\ job'.phase \in {"chargers", "ticked"} <=> job'.todo = {}
    BY <1>1, <1>3, TurnPasses
  <2> DEFINE rest == job.todo \ {Current}
  <2>2. rest \subseteq PendingIn(commands)
    BY DEF JobInv
  <2> HIDE DEF rest
  <2>3. QED
    BY <1>3, <2>1, <2>2, SilentStep DEF rest, Promise!PromiseNext
<1>4. ASSUME job' = [job EXCEPT !.phase = "starting"], answers' = << >>,
             UNCHANGED <<commands, lastCommandID>>
      PROVE  JobInv' /\ Promise!PromiseNext
  <2>1. /\ job' = [phase |-> "starting", at |-> job.at, todo |-> job.todo]
        /\ job.todo # {} /\ job.todo \subseteq PendingIn(commands)
    BY <1>1, <1>4 DEF JobInv, CommandLockIsFree
  <2>2. QED
    BY <1>4, <2>1, SilentStep DEF Phases, Promise!PromiseNext
<1>5. "TIMEOUT" \in Results
  BY DEF Results
<1>6. QED
  BY <1>1, <1>2, <1>3, <1>4, <1>5 DEF AttemptStart

\* The second half of a start answers it.
LEMMA CallStartChargingKeeps ==
  ASSUME JobInv, CallStartCharging
  PROVE  JobInv' /\ Promise!PromiseNext
  BY ResolveKeeps DEF CallStartCharging, ResolveOnly, Results

\* When the charger tick begins no command is at hand.
LEMMA ChargerTickBeginsKeeps ==
  ASSUME JobInv, ChargerTickBegins
  PROVE  JobInv' /\ Promise!PromiseNext
<1>1. /\ job.phase = "chargers" /\ job' = [job EXCEPT !.phase = "ticked"]
      /\ answers' = << >> /\ UNCHANGED <<commands, lastCommandID>>
  BY DEF ChargerTickBegins
<1>2. job' = [phase |-> "ticked", at |-> job.at, todo |-> job.todo] /\ job.todo = {}
  BY <1>1 DEF JobInv, CommandLockIsFree
<1>3. QED
  BY <1>1, <1>2, SilentStep DEF Phases, Promise!PromiseNext

\* What is done at the chargers, and the clock, leave commands and job alone.
LEMMA NoCommandStepKeeps ==
  ASSUME JobInv, NoCommandStep
  PROVE  JobInv' /\ Promise!PromiseNext
  BY SilentStep DEF NoCommandStep, Promise!PromiseNext

\* So every step keeps the commands in order, and keeps the promise.
LEMMA CommandStepKeeps ==
  ASSUME JobInv, [CommandNext]_allVars
  PROVE  JobInv' /\ [Promise!PromiseNext]_(Promise!promiseVars)
<1>1. CASE CommandNext
  <2>1. CASE JobSteps
    BY <2>1, JobBeginsKeeps, AttemptForcedKeeps, AttemptStopKeeps, AttemptUnlockKeeps,
       AttemptStartKeeps, CallStartChargingKeeps, ChargerTickBeginsKeeps, NoCommandStepKeeps
       DEF JobSteps
  <2>2. QED
    BY <1>1, <2>1, AcceptCommandKeeps, NoCommandStepKeeps DEF CommandNext
<1>2. CASE UNCHANGED allVars
  BY <1>2 DEF allVars, commandVars, JobInv, CommandLockIsFree, Promise!promiseVars
<1>3. QED
  BY <1>1, <1>2

\* There are no commands when the program starts.
LEMMA CommandInitKeeps == CommandInit => JobInv /\ Promise!PromiseInit
  BY DEF CommandInit, JobInv, EmptyRepository, PendingIn, Phases, CommandLockIsFree,
         Promise!PromiseInit

\* The command controller implements the promise: a command is accepted or refused when it comes,
\* and an accepted one gets one result, once, whatever callers and persons do at the chargers in
\* between (Tick, resolve, update).
THEOREM PromiseIsKept == CommandSpec => KeepsPromise
<1>1. CommandInit => JobInv /\ Promise!PromiseInit
  BY CommandInitKeeps
<1>2. JobInv /\ [CommandNext]_allVars => JobInv' /\ [Promise!PromiseNext]_(Promise!promiseVars)
  BY CommandStepKeeps
<1>3. QED
  BY <1>1, <1>2, PTL DEF CommandSpec, KeepsPromise, Promise!PromiseSpec

(***************************************************************************)
(* The commands that are kept.                                             *)
(***************************************************************************)

\* At most MaxFinishedCommands commands that are over are kept.
FinishedAreFew ==
  /\ IsFiniteSet(FinishedIn(commands))
  /\ Cardinality(FinishedIn(commands)) <= MaxFinishedCommands

\* Storing a command that is over makes room for it.
LEMMA UpdateMakesRoom ==
  ASSUME JobInv, FinishedAreFew, NEW id \in Nat, NEW command, UpdateCommand(id, command)
  PROVE  FinishedAreFew'
<1> DEFINE stored == Upsert(commands, id, command)
           over   == FinishedIn(stored)
           was    == FinishedIn(commands)
           kept   == FinishedIn(commands')
<1>1. /\ DOMAIN stored = DOMAIN commands \cup {id}
      /\ \A c \in DOMAIN stored : stored[c] = IF c = id THEN command ELSE commands[c]
  BY DEF Upsert
<1>2. MaxFinishedCommands \in Nat
  BY CommandConfig
<1>3. /\ commands' = IF command.state = "PENDING" THEN stored
                     ELSE DeleteAll(stored, ExcessCommands(stored))
  BY DEF UpdateCommand
<1> HIDE DEF stored
<1>4. CASE command.state = "PENDING"
  <2>1. kept \in SUBSET was
    BY <1>1, <1>3, <1>4 DEF FinishedIn, PendingIn
  <2> HIDE DEF kept, was
  <2>2. IsFiniteSet(was) /\ Cardinality(was) <= MaxFinishedCommands
    BY DEF FinishedAreFew, was
  <2>3. IsFiniteSet(kept) /\ Cardinality(kept) <= Cardinality(was)
    BY <2>1, <2>2, FS_Subset
  <2>4. Cardinality(kept) \in Nat /\ Cardinality(was) \in Nat
    BY <2>2, <2>3, FS_CardinalityType
  <2>5. Cardinality(kept) <= MaxFinishedCommands
    BY <1>2, <2>2, <2>3, <2>4
  <2>6. QED
    BY <2>3, <2>5 DEF FinishedAreFew, kept
<1>5. CASE command.state # "PENDING"
  <2>1. over \in SUBSET (was \cup {id})
    BY <1>1 DEF FinishedIn, PendingIn
  <2>2. was \subseteq Nat
    BY DEF JobInv, FinishedIn
  <2>3. kept = over \ ExcessCommands(stored)
    BY <1>3, <1>5 DEF DeleteAll, Restrict, FinishedIn, PendingIn
  <2>4. \A c \in kept : ~(Cardinality({d \in over : d > c}) >= MaxFinishedCommands)
    BY <2>3 DEF ExcessCommands
  <2>5. IsFiniteSet(was)
    BY DEF FinishedAreFew
  <2> HIDE DEF kept, over, was
  <2>6. IsFiniteSet(over) /\ over \in SUBSET Nat /\ kept \in SUBSET over
    BY <2>1, <2>2, <2>3, <2>5, FS_AddElement, FS_Subset
  <2>7. IsFiniteSet(kept) /\ Cardinality(kept) <= MaxFinishedCommands
    BY <1>2, <2>4, <2>6, LastOnesAreFew
  <2>8. QED
    BY <2>7 DEF FinishedAreFew, kept
<1>6. QED
  BY <1>4, <1>5

\* A step stores one command, which has a number, or none.
LEMMA StepStoresOne ==
  ASSUME JobInv, CommandNext
  PROVE  \/ UNCHANGED commands
         \/ \E id \in Nat : \E command : UpdateCommand(id, command)
<1> DEFINE StoresOne == \E id \in Nat : \E command : UpdateCommand(id, command)
<1>1. ASSUME NEW command, Accept(command) PROVE StoresOne
  <2>1. lastCommandID + 1 \in Nat
    BY DEF JobInv
  <2>2. QED
    BY <1>1, <2>1 DEF Accept
<1>2. ASSUME job.phase \in {"commands", "starting"}, NEW result, NEW sessionID,
             Resolve(result, sessionID)
      PROVE  StoresOne
  <2>1. Current \in Nat
    BY <1>2, CurrentIsPending DEF JobInv
  <2>2. QED
    BY <1>2, <2>1 DEF Resolve
<1> HIDE DEF StoresOne
<1>3. CASE AcceptCommand
  BY <1>1, <1>3 DEF AcceptCommand, AcceptStart, AcceptStop, AcceptUnlock, StoresOne
<1>4. CASE AttemptForced \/ AttemptStop \/ AttemptUnlock
  BY <1>2, <1>4 DEF AttemptForced, AttemptStop, AttemptUnlock, Attempting, ResolveOnly, StoresOne
<1>5. CASE AttemptStart \/ CallStartCharging
  BY <1>2, <1>5 DEF AttemptStart, CallStartCharging, Attempting, ResolveOnly, StoresOne
<1>6. CASE JobBegins \/ ChargerTickBegins \/ NoCommandStep
  BY <1>6 DEF JobBegins, ChargerTickBegins, NoCommandStep
<1>7. QED
  BY <1>3, <1>4, <1>5, <1>6 DEF CommandNext, JobSteps

\* However many commands come, and in whatever order they are finished, no more finished ones are
\* kept than there is room for, whatever IDs callers choose (updateCommand,
\* forgetOldestFinished).
THEOREM FinishedCommandsAreBounded == CommandSpec => []FinishedAreFew
<1>1. CommandInit => JobInv /\ FinishedAreFew
  <2> SUFFICES ASSUME CommandInit PROVE FinishedAreFew
    BY CommandInitKeeps
  <2>1. FinishedIn(commands) = {}
    BY DEF CommandInit, EmptyRepository, FinishedIn
  <2>2. QED
    BY <2>1, FS_EmptySet, CommandConfig DEF FinishedAreFew
<1>2. JobInv /\ FinishedAreFew /\ [CommandNext]_allVars => JobInv' /\ FinishedAreFew'
  <2> SUFFICES ASSUME JobInv, FinishedAreFew, [CommandNext]_allVars PROVE FinishedAreFew'
    BY CommandStepKeeps
  <2>1. CASE UNCHANGED commands
    BY <2>1 DEF FinishedAreFew
  <2>2. CASE CommandNext
    BY <2>1, <2>2, StepStoresOne, UpdateMakesRoom
  <2>3. QED
    BY <2>1, <2>2 DEF allVars, commandVars
<1>3. QED
  BY <1>1, <1>2, PTL DEF CommandSpec

(***************************************************************************)
(* What a step at the chargers leaves true of the answers.                 *)
(***************************************************************************)

\* The clock and the sessions when no charger operation is called.
LEMMA NoChargerStepKeeps ==
  ASSUME IInv, NoChargerStep
  PROVE  IInv' /\ SessionsGoOn /\ now' = now /\ ledger'.lastSessionID = ledger.lastSessionID
<1>1. /\ ledger' = Fresh(ledger)
      /\ UNCHANGED <<now, chargers, lastChargerID, lastTickAt, tick>>
  BY DEF NoChargerStep
<1>2. /\ SameSessions(ledger') /\ ledger'.sessions = ledger.sessions
      /\ ledger'.lastSessionID = ledger.lastSessionID
  BY <1>1, FreshSame
<1>3. TypeOK'
  BY <1>1, <1>2 DEF IInv, TypeOK, SameSessions, LedgerIsRight
<1>4. ChargerShape' /\ IDsAreCounted' /\ TickListIsCurrent'
  BY <1>1 DEF IInv, ChargerShape, IDsAreCounted, TickListIsCurrent
<1>5. SessionsMatchChargers'
  BY <1>1, <1>2 DEF IInv, SessionsMatchChargers, SameSessions, NoneStartsOrStops
<1>6. TimesAreInOrder'
  BY <1>1, <1>2 DEF IInv, TimesAreInOrder, SameSessions, NoneStartsOrStops
<1>7. QED
  BY <1>1, <1>2, <1>3, <1>4, <1>5, <1>6, SameGoOn DEF IInv, SameSessions

\* No step of the chargers takes an answer back: a session that has been stopped stays so.
LEMMA AnswersStay ==
  ASSUME CommandInv, IInv', SessionsGoOn, UNCHANGED commands
  PROVE  CommandsAreRight' /\ AnswersAreTrue'
<1>1. ledger.lastSessionID \in Nat /\ ledger.lastSessionID <= ledger'.lastSessionID
      /\ ledger'.lastSessionID \in Nat
  BY DEF SessionsGoOn, CommandInv, IInv, TypeOK, IsLedger
<1>2. CommandsAreRight'
  BY <1>1 DEF CommandInv, CommandsAreRight
<1>3. \A c \in FinishedIn(commands) :
        commands[c].sessionID \in Nat /\ commands[c].sessionID <= ledger.lastSessionID
  BY DEF CommandInv, CommandsAreRight, FinishedIn
<1>4. AnswersAreTrue'
  BY <1>1, <1>3 DEF CommandInv, AnswersAreTrue, SessionsGoOn
<1>5. QED
  BY <1>2, <1>4

\* Nor does a command that is stored, if what it says of itself is right.
LEMMA AnswerIsAdded ==
  ASSUME CommandInv, IInv', SessionsGoOn, NEW id, NEW new, UpdateCommand(id, new),
         new.readyAt \in Nat, new.deadlineAt \in Nat,
         new.sessionID \in Nat, new.sessionID <= ledger'.lastSessionID,
         new.state # "RESOLVED" => new.result = NoResult,
         new.kind = "START_SESSION" => (new.result = "ACCEPTED" <=> new.sessionID # NoSession),
         new.kind = "START_SESSION" /\ new.result = "ACCEPTED" =>
           new.sessionID > ledger.lastSessionID,
         new.kind = "STOP_SESSION" /\ new.result = "ACCEPTED" =>
           new.sessionID \notin ActiveSessions(ledger')
  PROVE  CommandsAreRight' /\ AnswersAreTrue'
<1>1. /\ DOMAIN commands' \subseteq DOMAIN commands \cup {id}
      /\ \A c \in DOMAIN commands' : commands'[c] = IF c = id THEN new ELSE commands[c]
      /\ PendingIn(commands') = IF new.state = "PENDING" THEN PendingIn(commands) \cup {id}
                                ELSE PendingIn(commands) \ {id}
  BY UpdateLeaves
<1>2. /\ ledger.lastSessionID \in Nat /\ ledger.lastSessionID <= ledger'.lastSessionID
      /\ ledger'.lastSessionID \in Nat
  BY DEF SessionsGoOn, IInv, TypeOK, IsLedger
<1>3. CommandsAreRight'
  <2> SUFFICES ASSUME NEW c \in DOMAIN commands'
               PROVE  /\ commands'[c].sessionID \in Nat
                      /\ commands'[c].sessionID <= ledger'.lastSessionID
                      /\ commands'[c].readyAt \in Nat /\ commands'[c].deadlineAt \in Nat
                      /\ commands'[c].state # "RESOLVED" => commands'[c].result = NoResult
                      /\ commands'[c].kind = "START_SESSION" =>
                           (commands'[c].result = "ACCEPTED" <=>
                              commands'[c].sessionID # NoSession)
    BY DEF CommandsAreRight
  <2>1. CASE c = id
    BY <1>1, <2>1
  <2>2. CASE c # id
    <3>1. c \in DOMAIN commands /\ commands'[c] = commands[c]
      BY <1>1, <2>2
    <3>2. QED
      BY <1>2, <3>1 DEF CommandInv, CommandsAreRight
  <2>3. QED
    BY <2>1, <2>2
<1>4. ASSUME NEW c \in FinishedIn(commands'), c # id
      PROVE  /\ c \in FinishedIn(commands) /\ commands'[c] = commands[c]
             /\ commands[c].sessionID \in Nat
             /\ commands[c].sessionID <= ledger.lastSessionID
  <2>1. c \in DOMAIN commands' /\ c \notin PendingIn(commands')
    BY DEF FinishedIn
  <2>2. c \in DOMAIN commands /\ c \notin PendingIn(commands) /\ commands'[c] = commands[c]
    BY <1>1, <1>4, <2>1
  <2>3. QED
    BY <2>2 DEF FinishedIn, CommandInv, CommandsAreRight
<1>5. ASSUME id \in FinishedIn(commands')
      PROVE  commands'[id] = new
  BY <1>1, <1>5 DEF FinishedIn
<1>6. AnswersAreTrue'
  <2>1. ASSUME NEW c \in FinishedIn(commands'), commands'[c].kind = "STOP_SESSION",
               commands'[c].result = "ACCEPTED"
        PROVE  commands'[c].sessionID \notin ActiveSessions(ledger')
    <3>1. CASE c = id
      BY <1>5, <2>1, <3>1
    <3>2. CASE c # id
      <4>1. commands[c].sessionID \notin ActiveSessions(ledger)
        BY <1>4, <2>1, <3>2 DEF CommandInv, AnswersAreTrue
      <4>2. QED
        BY <1>2, <1>4, <2>1, <3>2, <4>1 DEF SessionsGoOn
    <3>3. QED
      BY <3>1, <3>2
  <2>2. ASSUME NEW c \in FinishedIn(commands'), commands'[c].kind = "START_SESSION"
        PROVE  commands'[c].result = "ACCEPTED" <=> commands'[c].sessionID # NoSession
    BY <1>3, <2>2 DEF CommandsAreRight, FinishedIn
  <2>3. ASSUME NEW c \in FinishedIn(commands'), commands'[c].kind = "START_SESSION",
               commands'[c].result = "ACCEPTED",
               NEW d \in FinishedIn(commands') \ {c}, commands'[d].kind = "START_SESSION"
        PROVE  commands'[d].sessionID # commands'[c].sessionID
    <3>1. CASE c = id
      <4>1. d # id
        BY <3>1
      <4>2. new.sessionID > ledger.lastSessionID /\ commands'[c] = new
        BY <1>5, <2>3, <3>1
      <4>3. QED
        BY <1>2, <1>4, <4>1, <4>2
    <3>2. CASE d = id
      <4>1. commands'[c].sessionID # NoSession
        BY <2>2, <2>3
      <4>2. CASE new.result = "ACCEPTED"
        <5>1. new.sessionID > ledger.lastSessionID /\ commands'[d] = new /\ c # id
          BY <1>5, <2>3, <3>2, <4>2
        <5>2. QED
          BY <1>2, <1>4, <5>1
      <4>3. CASE new.result # "ACCEPTED"
        BY <1>5, <2>3, <3>2, <4>1, <4>3
      <4>4. QED
        BY <4>2, <4>3
    <3>3. CASE c # id /\ d # id
      BY <1>4, <2>3, <3>3 DEF CommandInv, AnswersAreTrue
    <3>4. QED
      BY <3>1, <3>2, <3>3
  <2>4. QED
    BY <2>1, <2>2, <2>3 DEF AnswersAreTrue
<1>7. QED
  BY <1>3, <1>6

(***************************************************************************)
(* The actions, and the whole invariant.                                   *)
(***************************************************************************)

\* The current command is resolved, with an answer that is right.
LEMMA ResolveIsRight ==
  ASSUME CommandInv, IInv', SessionsGoOn, now' = now, job.phase \in {"commands", "starting"},
         NEW result \in Results, NEW sessionID \in Nat, sessionID <= ledger'.lastSessionID,
         Resolve(result, sessionID),
         commands[Current].kind = "START_SESSION" =>
           /\ result = "ACCEPTED" <=> sessionID # NoSession
           /\ result = "ACCEPTED" => sessionID > ledger.lastSessionID,
         commands[Current].kind = "STOP_SESSION" /\ result = "ACCEPTED" =>
           sessionID \notin ActiveSessions(ledger')
  PROVE  CommandInv'
<1> DEFINE c   == Current
           old == commands[c]
           new == Resolved(old, result, sessionID)
<1>1. JobInv' /\ c \in DOMAIN commands /\ c \in job.todo /\ IsCommand(old)
      /\ c \in PendingIn(commands)
  BY ResolveStep, CurrentIsPending DEF CommandInv
<1>2. UpdateCommand(c, new) /\ CommandTurnIsOver
  BY DEF Resolve, Resolved
<1>3. old.readyAt \in Nat /\ old.deadlineAt \in Nat
  BY <1>1 DEF CommandInv, CommandsAreRight
<1>4. /\ new.result = result /\ new.state = "RESOLVED" /\ new.sessionID = sessionID
      /\ new.kind = old.kind /\ new.readyAt = old.readyAt /\ new.deadlineAt = old.deadlineAt
  <2> HIDE DEF old
  <2>1. QED
    BY <1>1, ResolvedIs
<1> HIDE DEF new
<1>5. CommandsAreRight' /\ AnswersAreTrue'
  BY <1>2, <1>3, <1>4, AnswerIsAdded
<1>6. DueHaveHadTheirTurn'
  <2> HIDE DEF c, old
  <2>1. /\ DOMAIN commands' \subseteq DOMAIN commands \cup {c}
        /\ \A d \in DOMAIN commands' : commands'[d] = IF d = c THEN new ELSE commands[d]
        /\ PendingIn(commands') = PendingIn(commands) \ {c}
    BY <1>2, <1>4, UpdateLeaves
  <2>2. job'.at = job.at /\ job'.todo = job.todo \ {c}
    BY <1>2 DEF CommandTurnIsOver, c
  <2>3. ASSUME NEW d \in PendingIn(commands') \ job'.todo
        PROVE  /\ d \in PendingIn(commands) \ job.todo /\ commands'[d] = commands[d]
    BY <1>1, <2>1, <2>2 DEF PendingIn
  <2>4. QED
    BY <2>2, <2>3 DEF CommandInv, DueHaveHadTheirTurn, StillWaits
<1>7. StartingIsAStart'
  <2>1. job'.phase # "starting"
    BY <1>2 DEF CommandTurnIsOver
  <2>2. QED
    BY <2>1 DEF StartingIsAStart
<1>8. QED
  BY <1>1, <1>5, <1>6, <1>7 DEF CommandInv

\* A step that stores no command and leaves every other command its turn.
LEMMA TurnsStay ==
  ASSUME CommandInv, IInv', JobInv', SessionsGoOn, UNCHANGED commands, now \in Nat,
         now' \in {now, now + 1}, job'.at = job.at,
         \A c \in job.todo \ job'.todo : StillWaits(commands[c]), StartingIsAStart'
  PROVE  CommandInv'
<1>1. CommandsAreRight' /\ AnswersAreTrue'
  BY AnswersStay
<1>2. DueHaveHadTheirTurn'
  <2>1. ASSUME NEW c \in PendingIn(commands) \ job'.todo, commands[c].readyAt < job.at
        PROVE  StillWaits(commands[c])
    BY <2>1 DEF CommandInv, DueHaveHadTheirTurn
  <2>2. job.at \in Nat /\ job.at <= now'
    BY DEF CommandInv, DueHaveHadTheirTurn
  <2>3. QED
    BY <2>1, <2>2 DEF DueHaveHadTheirTurn, StillWaits
<1>3. QED
  BY <1>1, <1>2 DEF CommandInv

\* The delay a list of behaviors sets is that of one of them, and a whole number.
LEMMA ResultDelayType ==
  ASSUME NEW specs \in Seq(BehaviorSpec), NEW latency \in Nat
  PROVE  ResultDelay(specs, latency) \in Nat
<1> DEFINE positions == DelayingPositions(specs)
<1>1. CASE positions = {}
  BY <1>1 DEF ResultDelay
<1>2. CASE positions # {}
  <2>1. positions \subseteq 1..Len(specs) /\ Len(specs) \in Nat
    BY DEF DelayingPositions
  <2> HIDE DEF positions
  <2>2. \E i \in positions : \A j \in positions : j <= i
    <3> DEFINE fromEnd == {Len(specs) - i : i \in positions}
    <3>1. fromEnd \subseteq Nat /\ fromEnd # {}
      <4>1. \A i \in positions : Len(specs) - i \in Nat
        BY <2>1
      <4>2. PICK i \in positions : TRUE
        BY <1>2 DEF positions
      <4>3. Len(specs) - i \in fromEnd
        BY <4>2
      <4>4. QED
        BY <4>1, <4>3
    <3> HIDE DEF fromEnd
    <3>2. PICK x \in fromEnd : \A y \in fromEnd : x <= y
      BY <3>1, LeastOf
    <3>3. PICK i \in positions : x = Len(specs) - i
      BY <3>2 DEF fromEnd
    <3>4. ASSUME NEW j \in positions PROVE j <= i
      <4>1. Len(specs) - i <= Len(specs) - j
        BY <3>2, <3>3 DEF fromEnd
      <4>2. QED
        BY <2>1, <4>1
    <3>5. QED
      BY <3>4
  <2>3. LastOf(positions) \in positions
    BY <2>2 DEF LastOf
  <2> DEFINE spec == specs[LastOf(positions)]
  <2>4. spec \in BehaviorSpec /\ spec.kind \in {"start_fails", "start_timeout"}
    BY <2>1, <2>3 DEF positions, DelayingPositions
  <2> HIDE DEF spec
  <2>5. DelayOf(spec) \in Nat
    BY <2>4 DEF DelayOf, BehaviorSpec, RejectStartSpec
  <2>6. QED
    BY <1>2, <2>5 DEF ResultDelay, positions, spec
<1>3. QED
  BY <1>1, <1>2

\* A new command is due no earlier than it came.
LEMMA AcceptIsRight ==
  ASSUME CommandInv, NEW kind, NEW chargerID, NEW sessionID \in Nat,
         sessionID <= ledger.lastSessionID, kind = "START_SESSION" => sessionID = NoSession,
         NEW forcedResult \in {NoResult, "FAILED", "TIMEOUT"},
         NEW state \in {"PENDING", "REJECTED"}, NEW resultDelay \in Nat,
         Accept(NewCommand(kind, chargerID, sessionID, forcedResult, state, resultDelay))
  PROVE  CommandInv'
<1> DEFINE id  == lastCommandID + 1
           new == NewCommand(kind, chargerID, sessionID, forcedResult, state, resultDelay)
<1>1. UpdateCommand(id, new) /\ NoChargerStep /\ UNCHANGED job /\ CommandLockIsFree
  BY DEF Accept
<1>2. IInv' /\ SessionsGoOn /\ now' = now /\ ledger'.lastSessionID = ledger.lastSessionID
  BY <1>1, NoChargerStepKeeps DEF CommandInv
<1>3. JobInv'
  <2>1. IsCommand(new) /\ new.state = state
    BY NewCommandIs
  <2> HIDE DEF new
  <2>2. Accept(new)
    BY DEF new
  <2>3. QED
    BY <2>1, <2>2, AcceptStep DEF CommandInv
<1>4. /\ new.kind = kind /\ new.sessionID = sessionID /\ new.state = state
      /\ new.result = NoResult /\ new.readyAt = now + resultDelay
      /\ new.deadlineAt = now + StartTimeout
  BY DEF NewCommand
<1>5. now \in Nat /\ new.readyAt \in Nat /\ new.deadlineAt \in Nat /\ now <= new.readyAt
  BY <1>4, CommandConfig DEF CommandInv, IInv, TypeOK
<1>6. NoResult # "ACCEPTED"
  BY DEF NoResult
<1> HIDE DEF new, id
<1>7. CommandsAreRight' /\ AnswersAreTrue'
  BY <1>1, <1>2, <1>4, <1>5, <1>6, AnswerIsAdded
<1>8. DueHaveHadTheirTurn'
  <2>1. /\ DOMAIN commands' \subseteq DOMAIN commands \cup {id}
        /\ \A c \in DOMAIN commands' : commands'[c] = IF c = id THEN new ELSE commands[c]
        /\ PendingIn(commands') = IF new.state = "PENDING" THEN PendingIn(commands) \cup {id}
                                  ELSE PendingIn(commands) \ {id}
    BY <1>1, UpdateLeaves
  <2>2. ASSUME NEW c \in PendingIn(commands') \ job'.todo, commands'[c].readyAt < job'.at
        PROVE  /\ commands'[c].kind = "START_SESSION" /\ commands'[c].forcedResult = NoResult
               /\ commands'[c].deadlineAt > job'.at
    <3>1. c # id
      <4>1. job.at \in Nat /\ job.at <= now
        BY DEF CommandInv, DueHaveHadTheirTurn
      <4>2. ASSUME c = id PROVE FALSE
        <5>1. commands'[c] = new
          BY <2>1, <2>2, <4>2 DEF PendingIn
        <5>2. QED
          BY <1>1, <1>5, <2>2, <4>1, <5>1
      <4>3. QED
        BY <4>2
    <3>2. c \in PendingIn(commands) \ job.todo /\ commands'[c] = commands[c]
      BY <1>1, <2>1, <2>2, <3>1 DEF PendingIn
    <3>3. QED
      BY <1>1, <2>2, <3>2 DEF CommandInv, DueHaveHadTheirTurn, StillWaits
  <2>3. QED
    BY <1>1, <1>2, <2>2 DEF CommandInv, DueHaveHadTheirTurn, StillWaits
<1>9. StartingIsAStart'
  BY <1>1 DEF StartingIsAStart, CommandLockIsFree
<1>10. QED
  BY <1>2, <1>3, <1>7, <1>8, <1>9 DEF CommandInv

\* The steps again, with what the answers say. A new command has no answer yet.
LEMMA AcceptCommandIsRight ==
  ASSUME CommandInv, AcceptCommand
  PROVE  CommandInv'
<1>1. ledger.lastSessionID \in Nat /\ NoSession \in Nat /\ NoSession <= ledger.lastSessionID
  BY DEF CommandInv, IInv, TypeOK, IsLedger, NoSession
<1>2. CommandLatency \in Nat /\ NoResult \in {NoResult, "FAILED", "TIMEOUT"}
      /\ "PENDING" \in {"PENDING", "REJECTED"}
  BY CommandConfig
<1>3. ASSUME NEW id, AcceptUnlock(id) PROVE CommandInv'
  BY <1>1, <1>2, <1>3, AcceptIsRight DEF AcceptUnlock
<1>4. ASSUME NEW id \in DOMAIN chargers, NEW roll, AcceptStart(id, roll) PROVE CommandInv'
  <2> DEFINE specs  == chargers[id].behaviors
             forced == IF Rejects(specs) THEN NoResult ELSE ForcedResult(specs, roll)
             state  == IF Rejects(specs) THEN "REJECTED" ELSE "PENDING"
             delay  == ResultDelay(specs, CommandLatency)
  <2>1. forced \in {NoResult, "FAILED", "TIMEOUT"} /\ state \in {"PENDING", "REJECTED"}
    BY ForcedResultIs
  <2>2. specs \in Seq(BehaviorSpec)
    BY ListsAreBuilt DEF CommandInv, IInv, TypeOK, IsRepository, ChargerRecord
  <2>3. delay \in Nat
    BY <1>2, <2>2, ResultDelayType
  <2>4. Accept(NewCommand("START_SESSION", id, NoSession, forced, state, delay))
    BY <1>4 DEF AcceptStart
  <2> HIDE DEF forced, state, delay
  <2>5. QED
    BY <1>1, <2>1, <2>3, <2>4, AcceptIsRight
<1>5. ASSUME NEW s \in DOMAIN ledger.sessions, AcceptStop(s) PROVE CommandInv'
  <2>1. s \in Nat /\ s <= ledger.lastSessionID
    BY <1>1 DEF CommandInv, IInv, TypeOK, IsLedger, IsRepository
  <2>2. QED
    BY <1>2, <1>5, <2>1, AcceptIsRight DEF AcceptStop
<1>6. QED
  BY <1>3, <1>4, <1>5 DEF AcceptCommand

\* What was due when the job read the clock is what it has to do.
LEMMA JobBeginsIsRight ==
  ASSUME CommandInv, JobBegins
  PROVE  CommandInv'
<1>1. NoChargerStep /\ UNCHANGED commands /\ job'.at = now /\ job'.todo = Due
  BY DEF JobBegins
<1>2. IInv' /\ SessionsGoOn /\ now' = now /\ JobInv'
  BY <1>1, NoChargerStepKeeps, JobBeginsKeeps DEF CommandInv
<1>3. CommandsAreRight' /\ AnswersAreTrue'
  BY <1>1, <1>2, AnswersStay
<1>4. now \in Nat /\ \A c \in PendingIn(commands) \ Due : ~(commands[c].readyAt < now)
  BY DEF CommandInv, IInv, TypeOK, Due, PendingIn, CommandsAreRight
<1>5. DueHaveHadTheirTurn'
  BY <1>1, <1>2, <1>4 DEF DueHaveHadTheirTurn
<1>6. StartingIsAStart'
  <2>1. job'.phase # "starting"
    BY DEF JobBegins
  <2>2. QED
    BY <2>1 DEF StartingIsAStart
<1>7. QED
  BY <1>2, <1>3, <1>5, <1>6 DEF CommandInv

\* A resolution that does nothing at a charger and is no acceptance.
LEMMA ResolveOnlyIsRight ==
  ASSUME CommandInv, job.phase \in {"commands", "starting"},
         NEW result \in Results \ {"ACCEPTED"}, ResolveOnly(result)
  PROVE  CommandInv'
<1> DEFINE sid == commands[Current].sessionID
<1>1. NoChargerStep /\ Resolve(result, sid)
  BY DEF ResolveOnly
<1>2. IInv' /\ SessionsGoOn /\ now' = now /\ ledger'.lastSessionID = ledger.lastSessionID
  BY <1>1, NoChargerStepKeeps DEF CommandInv
<1>3. Current \in DOMAIN commands /\ commands[Current].state = "PENDING"
  BY CurrentIsPending DEF CommandInv
<1>4. /\ sid \in Nat /\ sid <= ledger.lastSessionID
      /\ commands[Current].kind = "START_SESSION" => sid = NoSession
  BY <1>3 DEF CommandInv, CommandsAreRight, NoResult
<1> HIDE DEF sid
<1>5. QED
  BY <1>1, <1>2, <1>4, ResolveIsRight

\* A forced result is not an acceptance.
LEMMA AttemptForcedIsRight ==
  ASSUME CommandInv, AttemptForced
  PROVE  CommandInv'
<1>1. commands[Current].forcedResult \in Results \ {"ACCEPTED"}
  BY CurrentIsPending DEF CommandInv, AttemptForced, IsCommand, Results, NoResult
<1>2. QED
  BY <1>1, ResolveOnlyIsRight DEF AttemptForced

\* A stop that is accepted has ended its session.
LEMMA AttemptStopIsRight ==
  ASSUME CommandInv, AttemptStop
  PROVE  CommandInv'
<1> DEFINE sid == commands[Current].sessionID
<1>1. job.phase \in {"commands", "starting"} /\ commands[Current].kind = "STOP_SESSION"
  BY DEF AttemptStop, Attempting
<1>2. CASE CanStop(sid)
  <2>1. StopCharging(sid) /\ Resolve("ACCEPTED", sid) /\ sid \in DOMAIN ledger.sessions
    BY <1>2 DEF AttemptStop, CanStop
  <2>2. IInv' /\ SessionsGoOn /\ sid \notin ActiveSessions(ledger') /\ now' = now
    <3>1. IInv
      BY DEF CommandInv
    <3> HIDE DEF sid
    <3>2. QED
      BY <2>1, <3>1, StopChargingStep DEF StopCharging
  <2>3. sid \in Nat /\ sid <= ledger.lastSessionID
    BY <1>1, CurrentIsPending DEF CommandInv, CommandsAreRight
  <2>4. sid <= ledger'.lastSessionID
    BY <2>2, <2>3 DEF SessionsGoOn, IInv, TypeOK, IsLedger
  <2>5. "ACCEPTED" \in Results
    BY DEF Results
  <2> HIDE DEF sid
  <2>6. QED
    BY <1>1, <2>1, <2>2, <2>3, <2>4, <2>5, ResolveIsRight
<1>3. CASE ~CanStop(sid)
  BY <1>1, <1>3, ResolveOnlyIsRight DEF AttemptStop, Results
<1>4. QED
  BY <1>2, <1>3

\* Unlocking is for chargers without a session, and its answer names none.
LEMMA AttemptUnlockIsRight ==
  ASSUME CommandInv, AttemptUnlock
  PROVE  CommandInv'
<1> DEFINE id == commands[Current].chargerID
           ok == id \in DOMAIN chargers /\ chargers[id].session = NoSession
<1>1. job.phase \in {"commands", "starting"} /\ commands[Current].kind = "UNLOCK_CONNECTOR"
  BY DEF AttemptUnlock, Attempting
<1>2. CASE ok
  <2>1. UnlockConnector(id) /\ Resolve("ACCEPTED", NoSession)
    BY <1>2 DEF AttemptUnlock
  <2>2. IInv' /\ SessionsGoOn /\ now' = now
    <3>1. IInv /\ id \in DOMAIN chargers
      BY <1>2 DEF CommandInv
    <3> HIDE DEF id
    <3>2. QED
      BY <2>1, <3>1, UnlockConnectorStep DEF UnlockConnector
  <2>3. NoSession \in Nat /\ NoSession <= ledger'.lastSessionID
    BY <2>2 DEF NoSession, IInv, TypeOK, IsLedger
  <2>4. "ACCEPTED" \in Results
    BY DEF Results
  <2>5. QED
    BY <1>1, <2>1, <2>2, <2>3, <2>4, ResolveIsRight
<1>3. CASE ~ok
  BY <1>1, <1>3, ResolveOnlyIsRight DEF AttemptUnlock, Results
<1>4. QED
  BY <1>2, <1>3

\* A start that is answered before its call was not accepted.
LEMMA AttemptStartIsRight ==
  ASSUME CommandInv, AttemptStart
  PROVE  CommandInv'
<1> DEFINE id == commands[Current].chargerID
<1>1. /\ job.phase = "commands" /\ commands[Current].kind = "START_SESSION"
      /\ commands[Current].forcedResult = NoResult
      /\ StartRefusal(id) \in (Results \ {"ACCEPTED"}) \cup {NoResult}
  BY DEF AttemptStart, Attempting, StartRefusal, Results
<1>2. "TIMEOUT" \in Results \ {"ACCEPTED"} /\ now \in Nat /\ JobInv'
  BY AttemptStartKeeps DEF Results, CommandInv, IInv, TypeOK
<1>3. CASE ResolveOnly(StartRefusal(id)) /\ StartRefusal(id) # NoResult
  BY <1>1, <1>3, ResolveOnlyIsRight
<1>4. CASE ResolveOnly("TIMEOUT")
  BY <1>1, <1>2, <1>4, ResolveOnlyIsRight
<1>5. ASSUME NoChargerStep, UNCHANGED commands, job'.at = job.at,
             \A c \in job.todo \ job'.todo : StillWaits(commands[c]), StartingIsAStart'
      PROVE  CommandInv'
  BY <1>2, <1>5, NoChargerStepKeeps, TurnsStay DEF CommandInv
<1>6. CASE WaitsForDriver(id) /\ CommandTurnIsOver /\ NoChargerStep /\ UNCHANGED commands
  <2>1. job'.at = job.at /\ job'.todo = job.todo \ {Current}
    BY <1>6 DEF CommandTurnIsOver
  <2>2. job.at < commands[Current].deadlineAt
    BY <1>6 DEF WaitsForDriver
  <2>3. StillWaits(commands[Current])
    BY <1>1, <2>2, CurrentIsPending DEF StillWaits, CommandInv, CommandsAreRight,
                                        DueHaveHadTheirTurn
  <2>4. StartingIsAStart'
    <3>1. job'.phase # "starting"
      BY <1>6 DEF CommandTurnIsOver
    <3>2. QED
      BY <3>1 DEF StartingIsAStart
  <2>5. QED
    BY <1>5, <1>6, <2>1, <2>3, <2>4
<1>7. CASE job' = [job EXCEPT !.phase = "starting"] /\ NoChargerStep /\ UNCHANGED commands
  <2>1. job = [phase |-> job.phase, at |-> job.at, todo |-> job.todo]
    BY DEF CommandInv, JobInv
  <2>2. job'.at = job.at /\ job'.todo = job.todo
    BY <1>7, <2>1
  <2>3. StartingIsAStart'
    BY <1>1, <1>7, <2>2 DEF StartingIsAStart, Current
  <2>4. QED
    BY <1>5, <1>7, <2>2, <2>3
<1>8. QED
  BY <1>3, <1>4, <1>6, <1>7 DEF AttemptStart

\* A start that is accepted has a session that no earlier command has heard of.
LEMMA CallStartChargingIsRight ==
  ASSUME CommandInv, CallStartCharging
  PROVE  CommandInv'
<1> DEFINE id == commands[Current].chargerID
           ok == id \in DOMAIN chargers /\ CanStart(chargers[id])
           sid == ledger.lastSessionID + 1
<1>1. job.phase \in {"commands", "starting"} /\ commands[Current].kind = "START_SESSION"
  BY DEF CallStartCharging, CommandInv, StartingIsAStart
<1>2. CASE ok
  <2>1. StartCharging(id) /\ Resolve("ACCEPTED", sid)
    BY <1>2 DEF CallStartCharging
  <2>2. IInv' /\ SessionsGoOn /\ ledger'.lastSessionID = ledger.lastSessionID + 1 /\ now' = now
    <3>1. IInv /\ id \in DOMAIN chargers
      BY <1>2 DEF CommandInv
    <3> HIDE DEF id
    <3>2. QED
      BY <2>1, <3>1, StartChargingStep DEF StartCharging
  <2>3. /\ sid \in Nat /\ sid # NoSession /\ sid <= ledger'.lastSessionID
        /\ sid > ledger.lastSessionID
    BY <2>2 DEF NoSession, CommandInv, IInv, TypeOK, IsLedger
  <2>4. "ACCEPTED" \in Results
    BY DEF Results
  <2> HIDE DEF sid
  <2>5. QED
    BY <1>1, <2>1, <2>2, <2>3, <2>4, ResolveIsRight
<1>3. CASE ~ok
  BY <1>1, <1>3, ResolveOnlyIsRight DEF CallStartCharging, Results
<1>4. QED
  BY <1>2, <1>3

\* A step of the chargers while the command controller does nothing.
LEMMA ChargersGoOn ==
  ASSUME NoIDLooksIssued, CommandInv, NoCommandStep, Next
  PROVE  CommandInv'
<1>1. IInv' /\ SessionsGoOn
  BY NextIsRight DEF CommandInv
<1>2. now \in Nat /\ now' \in {now, now + 1}
  BY DEF CommandInv, IInv, TypeOK, Next, Manage, PersonActs, Remote, TickLoop, TimePasses,
         AddCharger, AddNamedCharger, RemoveCharger, UpdateBehaviors, PlugIn, Unplug,
         PressStopButton, InjectFault, ClearFault, StartCharging, UnlockConnector, StopCharging,
         TickBegins, AdvanceCharging
<1>3. UNCHANGED <<commands, job>> /\ JobInv'
  BY NoCommandStepKeeps DEF CommandInv, NoCommandStep
<1>4. StartingIsAStart'
  BY <1>3 DEF CommandInv, StartingIsAStart, Current
<1>5. QED
  BY <1>1, <1>2, <1>3, <1>4, TurnsStay

\* When the charger tick begins, every command that was due has been seen to.
LEMMA ChargerTickBeginsIsRight ==
  ASSUME CommandInv, ChargerTickBegins
  PROVE  CommandInv'
<1>1. TickBegins /\ UNCHANGED commands /\ job' = [job EXCEPT !.phase = "ticked"] /\ JobInv'
  BY ChargerTickBeginsKeeps DEF CommandInv, ChargerTickBegins
<1>2. IInv' /\ SessionsGoOn /\ now' = now /\ now \in Nat
  BY <1>1, TickBeginsStep DEF CommandInv, IInv, TypeOK, TickBegins
<1>3. job'.at = job.at /\ job'.todo = job.todo
  <2>1. job = [phase |-> job.phase, at |-> job.at, todo |-> job.todo]
    BY DEF CommandInv, JobInv
  <2>2. QED
    BY <1>1, <2>1
<1>4. StartingIsAStart'
  <2>1. job'.phase # "starting"
    BY <1>1 DEF CommandInv, JobInv
  <2>2. QED
    BY <2>1 DEF StartingIsAStart
<1>5. QED
  BY <1>1, <1>2, <1>3, <1>4, TurnsStay

\* Every step keeps the invariant.
LEMMA CommandNextIsRight ==
  ASSUME NoIDLooksIssued, CommandInv, CommandNext
  PROVE  CommandInv'
<1>1. CASE AcceptCommand
  BY <1>1, AcceptCommandIsRight
<1>2. CASE NoCommandStep /\ \E id \in tick.todo, roll \in Rolls : AdvanceCharging(id, roll)
  BY <1>2, ChargersGoOn DEF Next, TickLoop
<1>3. CASE JobSteps
  BY <1>2, <1>3, JobBeginsIsRight, AttemptForcedIsRight, AttemptStopIsRight,
     AttemptUnlockIsRight, AttemptStartIsRight, CallStartChargingIsRight,
     ChargerTickBeginsIsRight DEF JobSteps
<1>4. CASE NoCommandStep /\ (Manage \/ PersonActs \/ TimePasses)
  BY <1>4, ChargersGoOn DEF Next
<1>5. QED
  BY <1>1, <1>3, <1>4 DEF CommandNext

\* And so does a step in which nothing happens.
LEMMA CommandStutters ==
  ASSUME CommandInv, UNCHANGED allVars
  PROVE  CommandInv'
<1>1. UNCHANGED vars /\ UNCHANGED <<commands, lastCommandID, job, answers>>
  BY DEF allVars, commandVars
<1>2. IInv' /\ SessionsGoOn /\ now' = now /\ now \in Nat
  BY <1>1, StutteringStep DEF CommandInv, IInv, TypeOK, vars
<1>3. JobInv' /\ StartingIsAStart'
  BY <1>1 DEF CommandInv, JobInv, CommandLockIsFree, StartingIsAStart, Current
<1>4. QED
  BY <1>1, <1>2, <1>3, TurnsStay

\* The invariant holds at the start.
LEMMA CommandInitIsRight == CommandInit => CommandInv
<1> SUFFICES ASSUME CommandInit PROVE CommandInv
  OBVIOUS
<1>1. IInv /\ JobInv
  BY InitIsRight, CommandInitKeeps DEF CommandInit
<1>2. /\ DOMAIN commands = {} /\ job.at = 0 /\ now \in Nat
      /\ PendingIn(commands) = {} /\ FinishedIn(commands) = {}
  BY <1>1 DEF CommandInit, EmptyRepository, IInv, TypeOK, PendingIn, FinishedIn
<1>3. QED
  BY <1>1, <1>2 DEF CommandInit, CommandInv, CommandsAreRight, AnswersAreTrue,
                    DueHaveHadTheirTurn, StartingIsAStart

\* The invariant holds throughout.
LEMMA CommandInvHolds == ASSUME NoIDLooksIssued PROVE CommandSpec => []CommandInv
<1>1. CommandInit => CommandInv
  BY CommandInitIsRight
<1>2. CommandInv /\ [CommandNext]_allVars => CommandInv'
  BY NoIDLooksIssued, CommandNextIsRight, CommandStutters
<1>3. QED
  BY <1>1, <1>2, PTL DEF CommandSpec

\* What an eMSP may conclude from an answer stays true, whatever happens afterwards: a session whose
\* stop was accepted does not charge again, and no two starts claim one session (attemptStop,
\* attemptStart).
THEOREM AnswersStayTrue == ASSUME NoIDLooksIssued PROVE CommandSpec => []AnswersAreTrue
<1>1. CommandInv => AnswersAreTrue
  BY DEF CommandInv
<1>2. QED
  BY <1>1, CommandInvHolds, PTL

\* A tick leaves behind no command that was due when it read the clock, except starts that wait for
\* a driver who still has time (Tick, isDue, attemptStart).
THEOREM NothingStaysOverdue == ASSUME NoIDLooksIssued PROVE CommandSpec => []NothingOverdue
<1>1. CommandInv => NothingOverdue
  BY DEF CommandInv, JobInv, DueHaveHadTheirTurn, NothingOverdue, StillWaits
<1>2. QED
  BY <1>1, CommandInvHolds, PTL

\* Remote commands, which act between two looks at a charger, orphan no session and share none
\* (attemptStart, StartCharging).
THEOREM CommandsOrphanNoSession ==
  ASSUME NoIDLooksIssued PROVE CommandSpec => []SessionsMatchChargers
<1>1. CommandInv => SessionsMatchChargers
  BY DEF CommandInv, IInv
<1>2. QED
  BY <1>1, CommandInvHolds, PTL

(***************************************************************************)
(* The interceptor loops arrive at the verdicts of Behaviors, for lists of *)
(* any length.  A verdict is about the last behavior to speak, so the      *)
(* inductive invariant LoopInv adds that there is a last one: a fact about *)
(* finite sets of positions that the loop itself establishes step by step. *)
(***************************************************************************)

\* The positions up to n of the behaviors that fix a result, and of those that set a delay.
Forcing(n) == {i \in 1..n : Forces(list[i], rolled)}
Delaying(n) == {i \in 1..n : list[i].kind \in {"start_fails", "start_timeout"}}

HasLast(positions) == \E i \in positions : \A j \in positions : j <= i

\* The verdicts on the first n behaviors, in terms of their positions.
ForcedUpTo(n) ==
  IF Forcing(n) = {} THEN NoResult ELSE ResultForcedBy(list[LastOf(Forcing(n))])
DelayUpTo(n) ==
  IF Delaying(n) = {} THEN Latency ELSE DelayOf(list[LastOf(Delaying(n))])
VerdictUpTo(n) ==
  [reject |-> \E i \in 1..n : list[i].kind = "reject_start",
   forcedResult |-> ForcedUpTo(n), resultDelay |-> DelayUpTo(n)]
FaultUpTo(n) == \E i \in 1..n : FaultsAt(list[i], ChargingDuration, Elapsed, rolled)

LoopInv ==
  /\ list \in Seq(BehaviorSpec) /\ next \in 1..Len(list) + 1
  /\ Forcing(next - 1) # {} => HasLast(Forcing(next - 1))
  /\ Delaying(next - 1) # {} => HasLast(Delaying(next - 1))
  /\ attempt = VerdictUpTo(next - 1)
  /\ fault <=> FaultUpTo(next - 1)

\* There is one last position at most.
LEMMA LastIs ==
  ASSUME NEW positions \in SUBSET Nat, NEW i \in positions, \A j \in positions : j <= i
  PROVE  LastOf(positions) = i
<1>1. \A k \in positions : (\A j \in positions : j <= k) => k = i
  OBVIOUS
<1>2. LastOf(positions) \in positions /\ \A j \in positions : j <= LastOf(positions)
  BY DEF LastOf
<1>3. QED
  BY <1>1, <1>2

\* One behavior more: either it is the last that speaks, or nothing changes.
LEMMA OneMore ==
  ASSUME NEW n \in Nat, NEW before \in SUBSET (1..n), before # {} => HasLast(before),
         NEW speaks \in BOOLEAN,
         NEW after, after = before \cup (IF speaks THEN {n + 1} ELSE {})
  PROVE  /\ after # {} => HasLast(after)
         /\ speaks => after # {} /\ LastOf(after) = n + 1
         /\ ~speaks => after = before
<1>1. CASE speaks
  <2>1. after \in SUBSET Nat /\ n + 1 \in after /\ \A j \in after : j <= n + 1
    BY <1>1
  <2>2. QED
    BY <1>1, <2>1, LastIs DEF HasLast
<1>2. CASE ~speaks
  BY <1>2
<1>3. QED
  BY <1>1, <1>2

Delays(spec) == spec.kind \in {"start_fails", "start_timeout"}

\* What one behavior more makes of the verdicts.
LEMMA VerdictGrows ==
  ASSUME LoopInv, next <= Len(list)
  PROVE  /\ Forcing(next) # {} => HasLast(Forcing(next))
         /\ Delaying(next) # {} => HasLast(Delaying(next))
         /\ VerdictUpTo(next) =
              [reject |-> attempt.reject \/ Behavior.kind = "reject_start",
               forcedResult |-> IF Forces(Behavior, rolled) THEN ResultForcedBy(Behavior)
                                ELSE attempt.forcedResult,
               resultDelay |-> IF Delays(Behavior) THEN DelayOf(Behavior)
                               ELSE attempt.resultDelay]
         /\ FaultUpTo(next) <=>
              fault \/ FaultsAt(Behavior, ChargingDuration, Elapsed, rolled)
<1> DEFINE n == next - 1
<1>1. next \in Nat \ {0} /\ n \in Nat /\ n + 1 = next /\ 1..next = 1..n \cup {next}
  BY DEF LoopInv
<1>2. /\ Forcing(n) \in SUBSET (1..n) /\ Delaying(n) \in SUBSET (1..n)
      /\ Forcing(n) # {} => HasLast(Forcing(n))
      /\ Delaying(n) # {} => HasLast(Delaying(n))
  BY DEF LoopInv, Forcing, Delaying
<1>3. /\ Forcing(next) = Forcing(n) \cup (IF Forces(Behavior, rolled) THEN {next} ELSE {})
      /\ Delaying(next) = Delaying(n) \cup (IF Delays(Behavior) THEN {next} ELSE {})
  BY <1>1 DEF Forcing, Delaying, Delays, Behavior
<1>4. Forces(Behavior, rolled) \in BOOLEAN /\ Delays(Behavior) \in BOOLEAN
  BY DEF Forces, Delays
<1> HIDE DEF n
<1>5. /\ Forcing(next) # {} => HasLast(Forcing(next))
      /\ Forces(Behavior, rolled) => Forcing(next) # {} /\ LastOf(Forcing(next)) = next
      /\ ~Forces(Behavior, rolled) => Forcing(next) = Forcing(n)
  BY <1>1, <1>2, <1>3, <1>4, OneMore
<1>6. /\ Delaying(next) # {} => HasLast(Delaying(next))
      /\ Delays(Behavior) => Delaying(next) # {} /\ LastOf(Delaying(next)) = next
      /\ ~Delays(Behavior) => Delaying(next) = Delaying(n)
  BY <1>1, <1>2, <1>3, <1>4, OneMore
<1>7. /\ attempt.reject = (\E i \in 1..n : list[i].kind = "reject_start")
      /\ attempt.forcedResult = ForcedUpTo(n) /\ attempt.resultDelay = DelayUpTo(n)
      /\ fault <=> FaultUpTo(n)
  BY DEF LoopInv, VerdictUpTo, n
<1>8. ForcedUpTo(next) = IF Forces(Behavior, rolled) THEN ResultForcedBy(Behavior)
                         ELSE attempt.forcedResult
  BY <1>5, <1>7 DEF ForcedUpTo, Behavior
<1>9. DelayUpTo(next) = IF Delays(Behavior) THEN DelayOf(Behavior) ELSE attempt.resultDelay
  BY <1>6, <1>7 DEF DelayUpTo, Behavior
<1>10. (\E i \in 1..next : list[i].kind = "reject_start")
         = (attempt.reject \/ Behavior.kind = "reject_start")
  BY <1>1, <1>7 DEF Behavior
<1>11. FaultUpTo(next) <=> fault \/ FaultsAt(Behavior, ChargingDuration, Elapsed, rolled)
  BY <1>1, <1>7 DEF FaultUpTo, Behavior
<1>12. QED
  BY <1>5, <1>6, <1>8, <1>9, <1>10, <1>11 DEF VerdictUpTo

\* The invariant of the loop holds before and after every interceptor.
LEMMA LoopInvHolds == LoopSpec => []LoopInv
<1>1. LoopInit => LoopInv
  <2> SUFFICES ASSUME LoopInit PROVE LoopInv
    OBVIOUS
  <2>1. list \in Seq(BehaviorSpec) /\ next = 1 /\ 1 \in 1..Len(list) + 1
    BY DEF LoopInit
  <2>2. next - 1 = 0 /\ 1..0 = {}
    BY <2>1
  <2>3. Forcing(0) = {} /\ Delaying(0) = {}
    BY <2>2 DEF Forcing, Delaying
  <2>4. VerdictUpTo(0) = attempt /\ ~FaultUpTo(0)
    BY <2>2, <2>3 DEF LoopInit, VerdictUpTo, ForcedUpTo, DelayUpTo, FaultUpTo
  <2>5. QED
    BY <2>1, <2>2, <2>3, <2>4 DEF LoopInit, LoopInv
<1>2. LoopInv /\ [LoopNext]_loopVars => LoopInv'
  <2> SUFFICES ASSUME LoopInv, [LoopNext]_loopVars
               PROVE  LoopInv'
    OBVIOUS
  <2>1. CASE LoopNext
    <3>1. next <= Len(list) /\ next' = next + 1 /\ list' = list /\ rolled' = rolled
      BY <2>1 DEF LoopNext
    <3>2. /\ attempt' = VerdictUpTo(next)
          /\ fault' <=> FaultUpTo(next)
      <4>1. attempt = [reject |-> attempt.reject, forcedResult |-> attempt.forcedResult,
                       resultDelay |-> attempt.resultDelay]
            /\ attempt.reject \in BOOLEAN
        BY DEF LoopInv, VerdictUpTo
      <4>2. CASE InterceptRealistic
        <5>1. /\ Behavior.kind # "reject_start" /\ ~Delays(Behavior)
              /\ Forces(Behavior, rolled) <=> rolled < Behavior.startFailureRate
              /\ ResultForcedBy(Behavior) = "FAILED"
          BY <4>2 DEF InterceptRealistic, Forces, Delays, FaultsAt, ResultForcedBy, DelayOf
        <5>2. attempt' = [reject |-> attempt.reject,
                          forcedResult |-> IF Forces(Behavior, rolled) THEN "FAILED"
                                           ELSE attempt.forcedResult,
                          resultDelay |-> attempt.resultDelay]
          BY <4>1, <4>2, <5>1 DEF InterceptRealistic
        <5>3. fault' <=> fault \/ FaultsAt(Behavior, ChargingDuration, Elapsed, rolled)
          BY <4>2, <5>1 DEF InterceptRealistic, FaultsAt
        <5>4. QED
          BY <3>1, <4>1, <5>1, <5>2, <5>3, VerdictGrows
      <4>3. CASE InterceptFaultMidSession
        <5>1. Behavior.kind # "reject_start" /\ ~Delays(Behavior) /\ ~Forces(Behavior, rolled)
          BY <4>3 DEF InterceptFaultMidSession, Forces, Delays, FaultsAt, ResultForcedBy, DelayOf
        <5>2. attempt' = [reject |-> attempt.reject, forcedResult |-> attempt.forcedResult,
                          resultDelay |-> attempt.resultDelay]
          BY <4>1, <4>3, <5>1 DEF InterceptFaultMidSession
        <5>3. fault' <=> fault \/ FaultsAt(Behavior, ChargingDuration, Elapsed, rolled)
          BY <4>3, <5>1 DEF InterceptFaultMidSession, FaultsAt
        <5>4. QED
          BY <3>1, <4>1, <5>1, <5>2, <5>3, VerdictGrows
      <4>4. CASE InterceptReject
        <5>1. /\ Behavior.kind = "reject_start" /\ ~Delays(Behavior) /\ ~Forces(Behavior, rolled)
              /\ ~FaultsAt(Behavior, ChargingDuration, Elapsed, rolled)
          BY <4>4 DEF InterceptReject, Forces, Delays, FaultsAt, ResultForcedBy, DelayOf
        <5>2. attempt' = [reject |-> TRUE, forcedResult |-> attempt.forcedResult,
                          resultDelay |-> attempt.resultDelay]
          BY <4>1, <4>4, <5>1 DEF InterceptReject
        <5>3. fault' <=> fault \/ FaultsAt(Behavior, ChargingDuration, Elapsed, rolled)
          BY <4>4, <5>1 DEF InterceptReject, FaultsAt
        <5>4. QED
          BY <3>1, <4>1, <5>1, <5>2, <5>3, VerdictGrows
      <4>5. CASE InterceptFails
        <5>1. /\ Behavior.kind # "reject_start" /\ Delays(Behavior) /\ Forces(Behavior, rolled)
              /\ ResultForcedBy(Behavior) = "FAILED" /\ DelayOf(Behavior) = Behavior.delay
              /\ ~FaultsAt(Behavior, ChargingDuration, Elapsed, rolled)
          BY <4>5 DEF InterceptFails, Forces, Delays, FaultsAt, ResultForcedBy, DelayOf
        <5>2. attempt' = [reject |-> attempt.reject, forcedResult |-> "FAILED",
                          resultDelay |-> Behavior.delay]
          BY <4>1, <4>5, <5>1 DEF InterceptFails
        <5>3. fault' <=> fault \/ FaultsAt(Behavior, ChargingDuration, Elapsed, rolled)
          BY <4>5, <5>1 DEF InterceptFails, FaultsAt
        <5>4. QED
          BY <3>1, <4>1, <5>1, <5>2, <5>3, VerdictGrows
      <4>6. CASE InterceptTimeout
        <5>1. /\ Behavior.kind # "reject_start" /\ Delays(Behavior) /\ Forces(Behavior, rolled)
              /\ ResultForcedBy(Behavior) = "TIMEOUT" /\ DelayOf(Behavior) = Behavior.timeout
              /\ ~FaultsAt(Behavior, ChargingDuration, Elapsed, rolled)
          BY <4>6 DEF InterceptTimeout, Forces, Delays, FaultsAt, ResultForcedBy, DelayOf
        <5>2. attempt' = [reject |-> attempt.reject, forcedResult |-> "TIMEOUT",
                          resultDelay |-> Behavior.timeout]
          BY <4>1, <4>6, <5>1 DEF InterceptTimeout
        <5>3. fault' <=> fault \/ FaultsAt(Behavior, ChargingDuration, Elapsed, rolled)
          BY <4>6, <5>1 DEF InterceptTimeout, FaultsAt
        <5>4. QED
          BY <3>1, <4>1, <5>1, <5>2, <5>3, VerdictGrows
      <4>7. QED
        BY <2>1, <4>2, <4>3, <4>4, <4>5, <4>6 DEF LoopNext
    <3>3. next' \in 1..Len(list) + 1 /\ next' - 1 = next
      BY <3>1 DEF LoopInv
    <3>4. Forcing(next - 1)' = Forcing(next) /\ Delaying(next - 1)' = Delaying(next)
      BY <3>1, <3>3 DEF Forcing, Delaying
    <3>5. /\ VerdictUpTo(next - 1)' = VerdictUpTo(next)
          /\ FaultUpTo(next - 1)' <=> FaultUpTo(next)
      BY <3>1, <3>3, <3>4 DEF VerdictUpTo, ForcedUpTo, DelayUpTo, FaultUpTo
    <3>6. QED
      BY <3>1, <3>2, <3>3, <3>4, <3>5, VerdictGrows DEF LoopInv
  <2>2. CASE UNCHANGED loopVars
    BY <2>2 DEF loopVars, LoopInv, Forcing, Delaying, VerdictUpTo, ForcedUpTo, DelayUpTo, FaultUpTo
  <2>3. QED
    BY <2>1, <2>2
<1>3. QED
  BY <1>1, <1>2, PTL DEF LoopSpec

\* What the properties call Seen is the list up to the position before next.
LEMMA SeenIs ==
  ASSUME LoopInv
  PROVE  /\ DOMAIN Seen = 1..next - 1 /\ \A i \in 1..next - 1 : Seen[i] = list[i]
         /\ ForcingPositions(Seen, rolled) = Forcing(next - 1)
         /\ DelayingPositions(Seen) = Delaying(next - 1)
<1>1. /\ DOMAIN Seen = 1..next - 1
      /\ \A i \in 1..next - 1 : Seen[i] = list[i]
  BY DEF LoopInv, Seen
<1>2. QED
  BY <1>1 DEF ForcingPositions, DelayingPositions, Forcing, Delaying

\* The last of a set of positions is one of them.
LEMMA LastIsOne ==
  ASSUME NEW positions \in SUBSET Nat, HasLast(positions)
  PROVE  LastOf(positions) \in positions
  BY LastIs DEF HasLast

\* Whatever the list, after each interceptor the attempt is the verdict of the behaviors seen so
\* far (ApplyStartInterceptors): after the loop, the verdict Behaviors states for the list.
THEOREM LoopReachesTheVerdict == LoopSpec => []AttemptIsTheVerdict
<1>1. LoopInv => AttemptIsTheVerdict
  <2> SUFFICES ASSUME LoopInv PROVE AttemptIsTheVerdict
    OBVIOUS
  <2> DEFINE n == next - 1
  <2>1. Forcing(n) \in SUBSET Nat /\ Delaying(n) \in SUBSET Nat
    BY DEF Forcing, Delaying
  <2>2. /\ Forcing(n) # {} => LastOf(Forcing(n)) \in 1..n
        /\ Delaying(n) # {} => LastOf(Delaying(n)) \in 1..n
    <3>1. /\ Forcing(n) # {} => LastOf(Forcing(n)) \in Forcing(n)
          /\ Delaying(n) # {} => LastOf(Delaying(n)) \in Delaying(n)
      BY <2>1, LastIsOne DEF LoopInv
    <3>2. QED
      BY <3>1 DEF Forcing, Delaying
  <2>3. ForcedResult(Seen, rolled) = ForcedUpTo(n)
    BY <2>2, SeenIs DEF ForcedResult, ForcedUpTo
  <2>4. ResultDelay(Seen, Latency) = DelayUpTo(n)
    BY <2>2, SeenIs DEF ResultDelay, DelayUpTo
  <2>5. Rejects(Seen) = (\E i \in 1..n : list[i].kind = "reject_start")
    BY SeenIs DEF Rejects
  <2>6. QED
    BY <2>3, <2>4, <2>5 DEF LoopInv, VerdictUpTo, AttemptIsTheVerdict
<1>2. QED
  BY <1>1, LoopInvHolds, PTL

\* And the tick is faulted exactly if some behavior faults it (ApplyTickInterceptors).
THEOREM LoopFaultsAsTheVerdict == LoopSpec => []FaultIsTheVerdict
<1>1. LoopInv => FaultIsTheVerdict
  BY SeenIs DEF LoopInv, FaultUpTo, FaultIsTheVerdict, TickFault
<1>2. QED
  BY <1>1, LoopInvHolds, PTL
=============================================================================
