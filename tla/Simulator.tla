------------------------------ MODULE Simulator ------------------------------
(***************************************************************************)
(* What outlives any one world (app/simulator.go, main.go): start-up,      *)
(* resets that replace the world, the scheduled tick, and shutdown.  A     *)
(* world is its number; of what happens in it there is only that seeding   *)
(* and ticks publish, and that its delivery goroutine pushes to the eMSP,  *)
(* which is the mock of whichever world is current when the push arrives.  *)
(***************************************************************************)
EXTENDS Naturals, Sequences, FiniteSets

CONSTANTS
  Main,       \* the goroutine of main
  Resets,     \* requests to reset
  SeedSize,   \* how many sites and chargers a world is seeded with
  QueueSize,  \* pushQueueSize
  TickLimit   \* bound: how many events there are in ticks

Nobody == "nobody"

ASSUME SimulatorConfig ==
  /\ SeedSize \in Nat /\ QueueSize \in Nat \ {0} /\ TickLimit \in Nat
  /\ Main \notin Resets /\ Nobody \notin Resets

VARIABLES
  worlds,    \* every world there has been, each with its push gateway and its mock eMSP
  current,   \* s.currentWorld
  resetMu,   \* who holds it
  actors,    \* main and the resets: where each is, the world it has loaded, and what it still adds
  job,       \* the scheduled job: "off", "on", "stopping"
  ticking,   \* the world whose tick runs; 0 if none
  events,    \* how many events ticks have published
  listening  \* whether the server takes requests

vars == <<worlds, current, resetMu, actors, job, ticking, events, listening>>

\* seeders: who has seeded it
NewWorld == [queued |-> 0, sending |-> FALSE, gateway |-> "running", seeders |-> << >>]

Init ==
  /\ worlds = <<NewWorld>> /\ current = 1
  /\ resetMu = Nobody
  /\ actors = [a \in Resets \cup {Main} |->
                 [at |-> IF a = Main THEN "starting" ELSE "absent", world |-> 0, todo |-> 0]]
  /\ job = "off" /\ ticking = 0 /\ events = 0
  /\ listening = TRUE

GoTo(a, place) == actors' = [actors EXCEPT ![a].at = place]

-----------------------------------------------------------------------------
(* The worlds. *)

\* enqueue, in the world w
Published(w) ==
  [worlds EXCEPT ![w].queued = IF @ < QueueSize THEN @ + 1 ELSE @]

\* The delivery goroutine takes a push.
TakePush(w) ==
  /\ worlds[w].gateway # "stopped" /\ ~worlds[w].sending /\ worlds[w].queued > 0
  /\ worlds' = [worlds EXCEPT ![w].queued = @ - 1, ![w].sending = TRUE]
  /\ UNCHANGED <<current, resetMu, actors, job, ticking, events, listening>>

\* The push arrives at the current world's mock, or it is lost.
PushEnds(w) ==
  /\ worlds[w].sending
  /\ worlds' = [worlds EXCEPT ![w].sending = FALSE]
  /\ UNCHANGED <<current, resetMu, actors, job, ticking, events, listening>>

\* The delivery goroutine notices that it has been stopped.
GatewayEnds(w) ==
  /\ worlds[w].gateway = "stopping" /\ ~worlds[w].sending
  /\ worlds' = [worlds EXCEPT ![w].gateway = "stopped"]
  /\ UNCHANGED <<current, resetMu, actors, job, ticking, events, listening>>

\* a calls Stop of w's gateway, and will wait for it at that place.
StopGateway(a, w, place) ==
  /\ worlds' = [worlds EXCEPT ![w].gateway = IF @ = "running" THEN "stopping" ELSE @]
  /\ actors' = [actors EXCEPT ![a].at = place, ![a].world = w]

-----------------------------------------------------------------------------
(* Start-up, and what it shares with a reset: main's run, Seed, ConnectMockEMSP. *)

StartJob ==
  /\ actors[Main].at = "starting"
  /\ job' = "on"
  /\ GoTo(Main, "seed")
  /\ UNCHANGED <<worlds, current, resetMu, ticking, events, listening>>

\* Seed: whichever world is current now is seeded.
SeedBegins(a) ==
  /\ actors[a].at = "seed"
  /\ actors' = [actors EXCEPT ![a] = [at |-> "seeding", world |-> current, todo |-> SeedSize]]
  /\ worlds' = [worlds EXCEPT ![current].seeders = Append(@, a)]
  /\ UNCHANGED <<current, resetMu, job, ticking, events, listening>>

\* A site or a charger is added and published.
SeedAdds(a) ==
  /\ actors[a].at = "seeding" /\ actors[a].todo > 0
  /\ actors' = [actors EXCEPT ![a].todo = @ - 1]
  /\ worlds' = Published(actors[a].world)
  /\ UNCHANGED <<current, resetMu, job, ticking, events, listening>>

SeedEnds(a) ==
  /\ actors[a].at = "seeding" /\ actors[a].todo = 0
  /\ GoTo(a, "connect")
  /\ UNCHANGED <<worlds, current, resetMu, job, ticking, events, listening>>

\* Mutant: a reset ends without giving the lock back.
ConnectAndKeep(a) ==
  /\ actors[a].at = "connect"
  /\ GoTo(a, IF a = Main THEN "serving" ELSE "done")
  /\ UNCHANGED <<worlds, current, resetMu, job, ticking, events, listening>>

\* ConnectMockEMSP; the locations it pulls are in LocationView.  It is the last thing a reset does.
Connect(a) ==
  /\ actors[a].at = "connect"
  /\ GoTo(a, IF a = Main THEN "serving" ELSE "done")
  /\ resetMu' = IF a = Main THEN resetMu ELSE Nobody
  /\ UNCHANGED <<worlds, current, job, ticking, events, listening>>

-----------------------------------------------------------------------------
(* Reset. *)

ResetArrives(r) ==
  /\ listening /\ actors[r].at = "absent"
  /\ GoTo(r, "locking")
  /\ UNCHANGED <<worlds, current, resetMu, job, ticking, events, listening>>

\* Mutant: resets do not wait for each other.
LockNothing(r) ==
  /\ actors[r].at = "locking"
  /\ GoTo(r, "replace")
  /\ UNCHANGED <<worlds, current, resetMu, job, ticking, events, listening>>

Lock(r) ==
  /\ actors[r].at = "locking" /\ resetMu = Nobody
  /\ resetMu' = r
  /\ GoTo(r, "replace")
  /\ UNCHANGED <<worlds, current, job, ticking, events, listening>>

\* Mutant: the new world is seeded before it becomes current.
SeedBeforeReplacing(r) ==
  /\ actors[r].at = "replace"
  /\ worlds' = Append(worlds, [NewWorld EXCEPT !.seeders = <<r>>])
  /\ actors' = [actors EXCEPT ![r] = [at |-> "seeding", world |-> Len(worlds'), todo |-> SeedSize]]
  /\ UNCHANGED <<current, resetMu, job, ticking, events, listening>>

\* replaceWorld
ReplaceWorld(r) ==
  /\ actors[r].at = "replace"
  /\ worlds' = Append(worlds, NewWorld)
  /\ current' = Len(worlds')
  /\ actors' = [actors EXCEPT ![r].at = "stop", ![r].world = current]
  /\ UNCHANGED <<resetMu, job, ticking, events, listening>>

\* Mutant: the old world is left to itself.
LetPreviousRun(r) ==
  /\ actors[r].at = "stop"
  /\ GoTo(r, "seed")
  /\ UNCHANGED <<worlds, current, resetMu, job, ticking, events, listening>>

\* The previous world's push gateway is stopped.
StopPrevious(r) ==
  /\ actors[r].at = "stop"
  /\ StopGateway(r, actors[r].world, "stopping")
  /\ UNCHANGED <<current, resetMu, job, ticking, events, listening>>

PreviousHasStopped(r) ==
  /\ actors[r].at = "stopping" /\ worlds[actors[r].world].gateway = "stopped"
  /\ GoTo(r, "seed")
  /\ UNCHANGED <<worlds, current, resetMu, job, ticking, events, listening>>

-----------------------------------------------------------------------------
(* The scheduled job: tick. *)

\* A tick may begin although the job has been told to stop: select takes either.
TickBegins ==
  /\ job # "off" /\ ticking = 0
  /\ ticking' = current
  /\ UNCHANGED <<worlds, current, resetMu, actors, job, events, listening>>

TickPublishes ==
  /\ ticking # 0 /\ events < TickLimit
  /\ events' = events + 1
  /\ worlds' = Published(ticking)
  /\ UNCHANGED <<current, resetMu, actors, job, ticking, listening>>

\* The tick is over, whether it has succeeded, failed or panicked (runCallback).
TickEnds ==
  /\ ticking # 0 /\ ticking' = 0
  /\ UNCHANGED <<worlds, current, resetMu, actors, job, events, listening>>

JobEnds ==
  /\ job = "stopping" /\ ticking = 0
  /\ job' = "off"
  /\ UNCHANGED <<worlds, current, resetMu, actors, ticking, events, listening>>

-----------------------------------------------------------------------------
(* Shutdown: the end of main's run, and Stop. *)

Interrupted ==
  /\ actors[Main].at = "serving"
  /\ listening' = FALSE
  /\ GoTo(Main, "draining")
  /\ UNCHANGED <<worlds, current, resetMu, job, ticking, events>>

\* Mutant: nobody waits for requests that are being handled.
DrainNothing ==
  /\ actors[Main].at = "draining"
  /\ job' = "stopping"
  /\ GoTo(Main, "stopping job")
  /\ UNCHANGED <<worlds, current, resetMu, ticking, events, listening>>

\* Shutdown returns when the requests have been handled; then StopScheduledJob.
Drained ==
  /\ actors[Main].at = "draining"
  /\ \A r \in Resets : actors[r].at \in {"absent", "done"}
  /\ job' = "stopping"
  /\ GoTo(Main, "stopping job")
  /\ UNCHANGED <<worlds, current, resetMu, ticking, events, listening>>

\* StopScheduledJob returns; then the current world's push gateway is stopped.
JobHasStopped ==
  /\ actors[Main].at = "stopping job" /\ job = "off"
  /\ StopGateway(Main, current, "stopping gateway")
  /\ UNCHANGED <<current, resetMu, job, ticking, events, listening>>

Stopped ==
  /\ actors[Main].at = "stopping gateway" /\ worlds[actors[Main].world].gateway = "stopped"
  /\ GoTo(Main, "stopped")
  /\ UNCHANGED <<worlds, current, resetMu, job, ticking, events, listening>>

-----------------------------------------------------------------------------
PushSteps == \E w \in DOMAIN worlds : TakePush(w) \/ PushEnds(w) \/ GatewayEnds(w)

MainSteps ==
  \/ StartJob \/ SeedBegins(Main) \/ SeedAdds(Main) \/ SeedEnds(Main) \/ Connect(Main)
  \/ Drained \/ JobHasStopped \/ Stopped

ResetSteps(r) ==
  \/ Lock(r) \/ ReplaceWorld(r) \/ StopPrevious(r) \/ PreviousHasStopped(r)
  \/ SeedBegins(r) \/ SeedAdds(r) \/ SeedEnds(r) \/ Connect(r)

TickSteps == TickBegins \/ TickPublishes \/ TickEnds \/ JobEnds

Next ==
  \/ PushSteps \/ MainSteps \/ TickSteps \/ Interrupted
  \/ \E r \in Resets : ResetArrives(r) \/ ResetSteps(r)

Spec == Init /\ [][Next]_vars

\* Goroutines run, sends and ticks end, and the stop channel of the job is noticed in the end
\* although select is free to prefer the ticker each time.
FairSpec ==
  /\ Spec
  /\ WF_vars(MainSteps) /\ WF_vars(TickEnds) /\ SF_vars(JobEnds)
  /\ \A r \in Resets : WF_vars(ResetSteps(r))
  /\ \A w \in 1..Cardinality(Resets) + 1 :
       WF_vars(w \in DOMAIN worlds /\ PushEnds(w)) /\ SF_vars(w \in DOMAIN worlds /\ GatewayEnds(w))

-----------------------------------------------------------------------------
Resetting(r) == actors[r].at \notin {"absent", "locking", "done"}

\* "The pushes must land in the new world's mock, not the old one's" (Reset): no push of a world
\* can arrive at the mock eMSP of an older one, that is, while an older one is current.
NoPushToAnOlderWorld == \A w \in DOMAIN worlds : worlds[w].sending => w <= current

SeedersOf(w, who) == Cardinality({i \in DOMAIN worlds[w].seeders : worlds[w].seeders[i] \in who})

\* "Two interleaved resets would seed the same world twice" (Reset): no world is seeded by two
\* resets, and none that a reset has made and finished is left empty.
ResetsSeedOnce ==
  /\ \A w \in DOMAIN worlds : SeedersOf(w, Resets) <= 1
  /\ (\A r \in Resets : ~Resetting(r)) =>
       \A w \in DOMAIN worlds \ {1} : SeedersOf(w, Resets) = 1

\* Unless a reset is on the way, no world but the current one still pushes.
OnlyTheCurrentWorldPushes ==
  (\A r \in Resets : ~Resetting(r)) =>
    \A w \in DOMAIN worlds \ {current} : worlds[w].gateway = "stopped" /\ ~worlds[w].sending

\* When main has stopped the simulator nothing runs behind its back: no tick, no reset, no push.
StoppedMeansQuiet ==
  actors[Main].at = "stopped" =>
    /\ ticking = 0 /\ job = "off"
    /\ \A r \in Resets : ~Resetting(r)
    /\ \A w \in DOMAIN worlds : worlds[w].gateway = "stopped" /\ ~worlds[w].sending

\* "Reset replaces the world with a freshly seeded one": main's own Seed is not behind resetMu,
\* and a reset that comes before it gets its world seeded a second time.
SeededOnce == \A w \in DOMAIN worlds : Len(worlds[w].seeders) <= 1

\* A reset that has arrived ends, also if others wait with it and the eMSP does not answer.
ResetsEnd == \A r \in Resets : actors[r].at = "locking" ~> actors[r].at = "done"

\* Shutdown ends, whatever is going on when it begins.
ShutdownEnds == actors[Main].at = "draining" ~> actors[Main].at = "stopped"
=============================================================================
