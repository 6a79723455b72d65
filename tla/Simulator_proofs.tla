--------------------------- MODULE Simulator_proofs ---------------------------
(***************************************************************************)
(* What the simulator's runs check of resets and of shutdown, for any      *)
(* number of resets, worlds and ticks.                                     *)
(***************************************************************************)
EXTENDS Simulator, FiniteSetTheorems, TLAPS

Actors == Resets \cup {Main}
Resetters == {"replace", "stop", "stopping", "seed", "seeding", "connect"}
ResetPlaces == Resetters \cup {"absent", "locking", "done"}
MainPlaces ==
  {"starting", "seed", "seeding", "connect", "serving", "draining", "stopping job",
   "stopping gateway", "stopped"}

World ==
  [queued : Nat, sending : BOOLEAN, gateway : {"running", "stopping", "stopped"},
   seeders : Seq(Actors)]

Actor == [at : ResetPlaces \cup MainPlaces, world : Nat, todo : Nat]

TypeOK ==
  /\ worlds \in Seq(World)
  /\ current \in Nat \ {0}
  /\ resetMu \in Resets \cup {Nobody}
  /\ actors \in [Actors -> Actor]
  /\ job \in {"off", "on", "stopping"}
  /\ ticking \in Nat /\ events \in Nat
  /\ listening \in BOOLEAN

-----------------------------------------------------------------------------
(* The invariant. *)

Quiet(w) == worlds[w].gateway = "stopped" /\ ~worlds[w].sending

\* The newest world is the current one, and a gateway that has stopped sends nothing.
WorldsHangTogether ==
  /\ current = Len(worlds)
  /\ ticking \in 0..current
  /\ \A a \in Actors : actors[a].at = "seeding" => actors[a].world \in 1..current
  /\ \A w \in 1..current : worlds[w].gateway = "stopped" => ~worlds[w].sending

\* resetMu is with the one reset that is on the way.
LockInv ==
  /\ \A r \in Resets : actors[r].at \in ResetPlaces /\ (actors[r].at \in Resetters <=> resetMu = r)
  /\ actors[Main].at \in MainPlaces

\* A reset has replaced the previous world and has not seen it stop yet.
PreviousIsDue == \E r \in Resets : actors[r].at \in {"stop", "stopping"}

PreviousInv ==
  /\ \A r \in Resets : actors[r].at \in {"stop", "stopping"} => actors[r].world = current - 1
  /\ \A w \in 1..current - 1 : Quiet(w) \/ (w = current - 1 /\ PreviousIsDue)

\* The reset on the way has still to seed the current world.
SeedIsDue == \E r \in Resets : actors[r].at \in {"stop", "stopping", "seed"}

SeedInv ==
  /\ SeedIsDue => current > 1
  /\ \A w \in 1..current :
       SeedersOf(w, Resets) = IF w = 1 \/ (w = current /\ SeedIsDue) THEN 0 ELSE 1

AfterDraining == {"stopping job", "stopping gateway", "stopped"}

ShutdownInv ==
  /\ listening <=> actors[Main].at \notin AfterDraining \cup {"draining"}
  /\ actors[Main].at \in AfterDraining => \A r \in Resets : actors[r].at \in {"absent", "done"}
  /\ job = "off" => ticking = 0
  /\ actors[Main].at \in {"stopping gateway", "stopped"} => job = "off" /\ actors[Main].world = current
  /\ actors[Main].at = "stopped" => worlds[current].gateway = "stopped"

Inv == TypeOK /\ WorldsHangTogether /\ LockInv /\ PreviousInv /\ SeedInv /\ ShutdownInv

-----------------------------------------------------------------------------
(* What the actions do to worlds. *)

\* Of the worlds only w changes.
OnlyChanges(w) ==
  /\ worlds' \in Seq(World) /\ Len(worlds') = Len(worlds)
  /\ \A v \in 1..Len(worlds) \ {w} : worlds'[v] = worlds[v]

\* Updating one world leaves the others alone.
LEMMA OneWorldChanges ==
  ASSUME worlds \in Seq(World), NEW w \in 1..Len(worlds), NEW world \in World,
         worlds' = [worlds EXCEPT ![w] = world]
  PROVE  OnlyChanges(w) /\ worlds'[w] = world
BY DEF OnlyChanges

LEMMA WorldsAreWorlds ==
  ASSUME TypeOK, NEW w \in 1..Len(worlds)
  PROVE  /\ worlds[w] \in World
         /\ worlds[w].queued \in Nat /\ worlds[w].sending \in BOOLEAN
         /\ worlds[w].gateway \in {"running", "stopping", "stopped"}
         /\ worlds[w].seeders \in Seq(Actors)
PROOF
  <1>1. worlds[w] \in World
    BY DEF TypeOK
  <1> QED BY <1>1 DEF World

\* Adding to the queue of a world changes nothing else of it (enqueue).
LEMMA PublishingOnlyQueues ==
  ASSUME TypeOK, NEW w \in 1..Len(worlds), worlds' = Published(w)
  PROVE  /\ OnlyChanges(w)
         /\ worlds'[w].sending = worlds[w].sending
         /\ worlds'[w].gateway = worlds[w].gateway
         /\ worlds'[w].seeders = worlds[w].seeders
PROOF
  <1> DEFINE queued == IF worlds[w].queued < QueueSize THEN worlds[w].queued + 1
                       ELSE worlds[w].queued
             world  == [worlds[w] EXCEPT !.queued = queued]
  <1>1. worlds[w] \in World /\ queued \in Nat
    BY WorldsAreWorlds
  <1>2. /\ world \in World
        /\ world.sending = worlds[w].sending /\ world.gateway = worlds[w].gateway
        /\ world.seeders = worlds[w].seeders
    <2> HIDE DEF queued
    <2> QED BY <1>1 DEF World
  <1>3. worlds' = [worlds EXCEPT ![w] = world]
    BY DEF TypeOK, Published
  <1> HIDE DEF world
  <1> QED BY <1>2, <1>3, OneWorldChanges DEF TypeOK

\* The delivery goroutine changes nothing but the queue and what is being sent, and a gateway
\* that has stopped takes nothing (run).
LEMMA TakingAPush ==
  ASSUME TypeOK, NEW w \in 1..Len(worlds), TakePush(w)
  PROVE  /\ OnlyChanges(w)
         /\ worlds[w].gateway # "stopped"
         /\ worlds'[w].gateway = worlds[w].gateway
         /\ worlds'[w].seeders = worlds[w].seeders
PROOF
  <1> DEFINE world == [worlds[w] EXCEPT !.queued = @ - 1, !.sending = TRUE]
  <1>1. worlds[w] \in World /\ worlds[w].queued - 1 \in Nat
    BY WorldsAreWorlds DEF TakePush
  <1>2. world \in World /\ world.gateway = worlds[w].gateway /\ world.seeders = worlds[w].seeders
    BY <1>1 DEF World
  <1>3. worlds' = [worlds EXCEPT ![w] = world] /\ worlds[w].gateway # "stopped"
    BY DEF TypeOK, TakePush
  <1> HIDE DEF world
  <1> QED BY <1>2, <1>3, OneWorldChanges DEF TypeOK

\* The steps of the worlds, one field at a time. A push that ends leaves nothing being sent.
LEMMA EndingAPush ==
  ASSUME TypeOK, NEW w \in 1..Len(worlds), PushEnds(w)
  PROVE  /\ OnlyChanges(w)
         /\ ~worlds'[w].sending
         /\ worlds'[w].gateway = worlds[w].gateway
         /\ worlds'[w].seeders = worlds[w].seeders
PROOF
  <1> DEFINE world == [worlds[w] EXCEPT !.sending = FALSE]
  <1>1. worlds[w] \in World
    BY DEF TypeOK
  <1>2. /\ world \in World /\ ~world.sending
        /\ world.gateway = worlds[w].gateway /\ world.seeders = worlds[w].seeders
    BY <1>1 DEF World
  <1>3. worlds' = [worlds EXCEPT ![w] = world]
    BY DEF TypeOK, PushEnds
  <1> HIDE DEF world
  <1> QED BY <1>2, <1>3, OneWorldChanges DEF TypeOK

\* A gateway that ends has nothing to send any more.
LEMMA EndingAGateway ==
  ASSUME TypeOK, NEW w \in 1..Len(worlds), GatewayEnds(w)
  PROVE  /\ OnlyChanges(w)
         /\ ~worlds'[w].sending
         /\ worlds'[w].gateway = "stopped"
         /\ worlds'[w].seeders = worlds[w].seeders
PROOF
  <1> DEFINE world == [worlds[w] EXCEPT !.gateway = "stopped"]
  <1>1. worlds[w] \in World /\ ~worlds[w].sending
    BY DEF TypeOK, GatewayEnds
  <1>2. /\ world \in World /\ world.sending = worlds[w].sending
        /\ world.gateway = "stopped" /\ world.seeders = worlds[w].seeders
    BY <1>1 DEF World
  <1>3. worlds' = [worlds EXCEPT ![w] = world]
    BY DEF TypeOK, GatewayEnds
  <1> HIDE DEF world
  <1> QED BY <1>1, <1>2, <1>3, OneWorldChanges DEF TypeOK

\* Stop does not stop a gateway by itself, and starts none that has stopped.
LEMMA StoppingAGateway ==
  ASSUME TypeOK, NEW a \in Actors, NEW w \in 1..Len(worlds), NEW place,
         StopGateway(a, w, place)
  PROVE  /\ OnlyChanges(w)
         /\ worlds'[w].sending = worlds[w].sending
         /\ worlds'[w].gateway = "stopped" <=> worlds[w].gateway = "stopped"
         /\ worlds'[w].seeders = worlds[w].seeders
PROOF
  <1> DEFINE gateway == IF worlds[w].gateway = "running" THEN "stopping" ELSE worlds[w].gateway
             world   == [worlds[w] EXCEPT !.gateway = gateway]
  <1>1. /\ worlds[w] \in World /\ gateway \in {"running", "stopping", "stopped"}
        /\ gateway = "stopped" <=> worlds[w].gateway = "stopped"
    BY WorldsAreWorlds
  <1>2. /\ world \in World /\ world.sending = worlds[w].sending
        /\ world.gateway = gateway /\ world.seeders = worlds[w].seeders
    <2> HIDE DEF gateway
    <2> QED BY <1>1 DEF World
  <1>3. worlds' = [worlds EXCEPT ![w] = world]
    BY DEF TypeOK, StopGateway
  <1> HIDE DEF world
  <1> QED BY <1>1, <1>2, <1>3, OneWorldChanges DEF TypeOK

\* The one who begins to seed is the last seeder of the world (Seed).
LEMMA BeginningToSeed ==
  ASSUME TypeOK, NEW a \in Actors, current \in 1..Len(worlds), SeedBegins(a)
  PROVE  /\ OnlyChanges(current)
         /\ worlds'[current].sending = worlds[current].sending
         /\ worlds'[current].gateway = worlds[current].gateway
         /\ worlds'[current].seeders = Append(worlds[current].seeders, a)
PROOF
  <1> DEFINE world == [worlds[current] EXCEPT !.seeders = Append(@, a)]
  <1>1. worlds[current] \in World /\ Append(worlds[current].seeders, a) \in Seq(Actors)
    BY WorldsAreWorlds
  <1>2. /\ world \in World /\ world.sending = worlds[current].sending
        /\ world.gateway = worlds[current].gateway
        /\ world.seeders = Append(worlds[current].seeders, a)
    BY <1>1 DEF World
  <1>3. worlds' = [worlds EXCEPT ![current] = world]
    BY DEF TypeOK, SeedBegins
  <1> HIDE DEF world
  <1> QED BY <1>2, <1>3, OneWorldChanges DEF TypeOK

\* Replacing the world adds one and keeps the others.
LEMMA ReplacingTheWorld ==
  ASSUME TypeOK, worlds' = Append(worlds, NewWorld)
  PROVE  /\ worlds' \in Seq(World) /\ Len(worlds') = Len(worlds) + 1
         /\ \A w \in 1..Len(worlds) : worlds'[w] = worlds[w]
         /\ worlds'[Len(worlds')] = NewWorld
PROOF
  <1>1. NewWorld \in World
    BY DEF NewWorld, World
  <1> QED BY <1>1 DEF TypeOK

\* Who has begun to seed counts as one more seeder.
LEMMA OneMoreSeeder ==
  ASSUME NEW seeders \in Seq(Actors), NEW a \in Actors, NEW who
  PROVE  LET now  == {i \in DOMAIN seeders : seeders[i] \in who}
             then == {i \in DOMAIN Append(seeders, a) : Append(seeders, a)[i] \in who}
         IN  Cardinality(then) = IF a \in who THEN Cardinality(now) + 1 ELSE Cardinality(now)
PROOF
  <1> DEFINE now  == {i \in DOMAIN seeders : seeders[i] \in who}
             then == {i \in DOMAIN Append(seeders, a) : Append(seeders, a)[i] \in who}
             last == Len(seeders) + 1
  <1>1. IsFiniteSet(now) /\ last \notin now
    <2>1. IsFiniteSet(1..Len(seeders)) /\ now \subseteq 1..Len(seeders)
      BY FS_Interval
    <2> QED BY <2>1, FS_Subset
  <1>2. then = IF a \in who THEN now \cup {last} ELSE now
    OBVIOUS
  <1> HIDE DEF now, then, last
  <1>3. Cardinality(now \cup {last}) = Cardinality(now) + 1
    BY <1>1, FS_AddElement
  <1> QED BY <1>2, <1>3 DEF now, then

-----------------------------------------------------------------------------
(* What the actions do to actors. *)

\* Of the actors only a changes: it is at the place, with the world.
Moves(a, place, w) ==
  /\ actors' \in [Actors -> Actor]
  /\ actors'[a].at = place /\ actors'[a].world = w
  /\ \A b \in Actors \ {a} : actors'[b] = actors[b]

\* Main and the resets, one at a time.
LEMMA ActorsAreActors ==
  ASSUME TypeOK, NEW a \in Actors
  PROVE  /\ actors[a] \in Actor
         /\ actors[a].at \in ResetPlaces \cup MainPlaces
         /\ actors[a].world \in Nat /\ actors[a].todo \in Nat
PROOF
  <1>1. actors[a] \in Actor
    BY DEF TypeOK
  <1> QED BY <1>1 DEF Actor

LEMMA OneActorMoves ==
  ASSUME TypeOK, NEW a \in Actors, NEW actor \in Actor,
         actors' = [actors EXCEPT ![a] = actor]
  PROVE  Moves(a, actor.at, actor.world)
BY DEF TypeOK, Moves

\* An actor that only goes on is somewhere else, with the same world.
LEMMA GoingSomewhere ==
  ASSUME TypeOK, NEW a \in Actors, NEW place \in ResetPlaces \cup MainPlaces, GoTo(a, place)
  PROVE  Moves(a, place, actors[a].world)
PROOF
  <1> DEFINE actor == [actors[a] EXCEPT !.at = place]
  <1>1. actor \in Actor /\ actor.at = place /\ actor.world = actors[a].world
    BY ActorsAreActors DEF Actor
  <1>2. actors' = [actors EXCEPT ![a] = actor]
    BY DEF TypeOK, GoTo
  <1> HIDE DEF actor
  <1> QED BY <1>1, <1>2, OneActorMoves

LEMMA GoingToStop ==
  ASSUME TypeOK, NEW a \in Actors, NEW w \in Nat, NEW place \in ResetPlaces \cup MainPlaces,
         actors' = [actors EXCEPT ![a].at = place, ![a].world = w]
  PROVE  Moves(a, place, w)
PROOF
  <1> DEFINE actor == [actors[a] EXCEPT !.at = place, !.world = w]
  <1>1. actor \in Actor /\ actor.at = place /\ actor.world = w
    BY ActorsAreActors DEF Actor
  <1>2. actors' = [actors EXCEPT ![a] = actor]
    BY DEF TypeOK
  <1> HIDE DEF actor
  <1> QED BY <1>1, <1>2, OneActorMoves

LEMMA GoingToSeed ==
  ASSUME TypeOK, NEW a \in Actors, SeedBegins(a)
  PROVE  Moves(a, "seeding", current)
PROOF
  <1> DEFINE actor == [at |-> "seeding", world |-> current, todo |-> SeedSize]
  <1>1. actor \in Actor
    BY SimulatorConfig DEF TypeOK, Actor, ResetPlaces, Resetters
  <1>2. actors' = [actors EXCEPT ![a] = actor]
    BY DEF SeedBegins
  <1> QED BY <1>1, <1>2, OneActorMoves

LEMMA GoingOnSeeding ==
  ASSUME TypeOK, NEW a \in Actors, SeedAdds(a)
  PROVE  Moves(a, actors[a].at, actors[a].world)
PROOF
  <1> DEFINE actor == [actors[a] EXCEPT !.todo = @ - 1]
  <1>1. actors[a].todo - 1 \in Nat
    BY ActorsAreActors DEF SeedAdds
  <1>2. actor \in Actor /\ actor.at = actors[a].at /\ actor.world = actors[a].world
    BY <1>1, ActorsAreActors DEF Actor
  <1>3. actors' = [actors EXCEPT ![a] = actor]
    BY DEF TypeOK, SeedAdds
  <1> HIDE DEF actor
  <1> QED BY <1>2, <1>3, OneActorMoves

-----------------------------------------------------------------------------
(* Steps that leave the worlds as they are, as far as the invariant can tell. *)

\* No world is replaced or seeded, no gateway starts again, and one that has stopped sends nothing.
KeepsWorlds ==
  /\ worlds' \in Seq(World) /\ Len(worlds') = Len(worlds)
  /\ current' = current
  /\ \A v \in 1..Len(worlds) :
       /\ worlds[v].gateway = "stopped" => worlds'[v].gateway = "stopped"
       /\ worlds'[v].gateway = "stopped" => ~worlds'[v].sending
       /\ worlds'[v].seeders = worlds[v].seeders

\* Steps that change one world, and steps that change none.
LEMMA OneWorldIsKept ==
  ASSUME Inv, NEW w \in 1..Len(worlds), OnlyChanges(w), current' = current,
         worlds[w].gateway = "stopped" => worlds'[w].gateway = "stopped",
         worlds'[w].gateway = "stopped" => ~worlds'[w].sending,
         worlds'[w].seeders = worlds[w].seeders
  PROVE  KeepsWorlds
PROOF
  <1>1. \A v \in 1..Len(worlds) : worlds[v].gateway = "stopped" => ~worlds[v].sending
    BY DEF Inv, WorldsHangTogether
  <1>2. ASSUME NEW v \in 1..Len(worlds) \ {w}
        PROVE  worlds'[v] = worlds[v]
    BY DEF OnlyChanges
  <1> QED BY <1>1, <1>2 DEF KeepsWorlds, OnlyChanges

LEMMA UnchangedWorldsAreKept ==
  ASSUME Inv, UNCHANGED <<worlds, current>>
  PROVE  KeepsWorlds
BY DEF Inv, TypeOK, WorldsHangTogether, KeepsWorlds

\* Publishing keeps the worlds (enqueue).
LEMMA PublishingKeeps ==
  ASSUME Inv, NEW w \in 1..Len(worlds), worlds' = Published(w), current' = current
  PROVE  KeepsWorlds
PROOF
  <1>1. worlds[w].gateway = "stopped" => ~worlds[w].sending
    BY DEF Inv, WorldsHangTogether
  <1> QED BY <1>1, PublishingOnlyQueues, OneWorldIsKept DEF Inv

\* Whatever a delivery goroutine does keeps the worlds (run).
LEMMA DeliveryKeeps ==
  ASSUME Inv, NEW w \in 1..Len(worlds), TakePush(w) \/ PushEnds(w) \/ GatewayEnds(w)
  PROVE  KeepsWorlds
PROOF
  <1>1. CASE TakePush(w)
    BY <1>1, TakingAPush, OneWorldIsKept DEF Inv, TakePush
  <1>2. CASE PushEnds(w)
    BY <1>2, EndingAPush, OneWorldIsKept DEF Inv, PushEnds
  <1>3. CASE GatewayEnds(w)
    BY <1>3, EndingAGateway, OneWorldIsKept DEF Inv, GatewayEnds
  <1> QED BY <1>1, <1>2, <1>3

\* Asking a gateway to stop keeps what is known of it.
LEMMA StoppingKeeps ==
  ASSUME Inv, NEW a \in Actors, NEW w \in 1..Len(worlds), NEW place,
         StopGateway(a, w, place), current' = current
  PROVE  KeepsWorlds
PROOF
  <1>1. worlds[w].gateway = "stopped" => ~worlds[w].sending
    BY DEF Inv, WorldsHangTogether
  <1> QED BY <1>1, StoppingAGateway, OneWorldIsKept DEF Inv

\* What the invariant says of worlds is true of worlds that are kept.
LEMMA KeptWorlds ==
  ASSUME Inv, KeepsWorlds
  PROVE  /\ current' \in Nat \ {0} /\ current' = Len(worlds')
         /\ \A v \in 1..current : worlds'[v].gateway = "stopped" => ~worlds'[v].sending
         /\ \A v \in 1..current : Quiet(v) => Quiet(v)'
         /\ \A v \in 1..current : SeedersOf(v, Resets)' = SeedersOf(v, Resets)
PROOF
  <1>1. current = Len(worlds) /\ current \in Nat \ {0}
    BY DEF Inv, TypeOK, WorldsHangTogether
  <1>2. \A v \in 1..current : SeedersOf(v, Resets)' = SeedersOf(v, Resets)
    BY <1>1 DEF KeepsWorlds, SeedersOf
  <1> QED BY <1>1, <1>2 DEF KeepsWorlds, Quiet

-----------------------------------------------------------------------------
(* Every step keeps the invariant. *)

\* A step of a delivery goroutine or of the scheduled job.
LEMMA NobodyMoves ==
  ASSUME Inv, KeepsWorlds, UNCHANGED <<resetMu, actors, listening>>,
         job' \in {"off", "on", "stopping"}, ticking' \in 0..current, events' \in Nat,
         job' = "off" => ticking' = 0, job = "off" => job' = "off"
  PROVE  Inv'
PROOF
  <1>1. TypeOK'
    BY KeptWorlds DEF Inv, TypeOK, KeepsWorlds
  <1>2. WorldsHangTogether'
    BY KeptWorlds DEF Inv, WorldsHangTogether, KeepsWorlds
  <1>3. LockInv'
    BY DEF Inv, LockInv
  <1>4. PreviousInv'
    BY KeptWorlds DEF Inv, TypeOK, PreviousInv, PreviousIsDue, KeepsWorlds
  <1>5. SeedInv'
    BY KeptWorlds DEF Inv, SeedInv, SeedIsDue, KeepsWorlds
  <1>6. ShutdownInv'
    <2>1. worlds[current].gateway = "stopped" => worlds'[current'].gateway = "stopped"
      BY DEF Inv, TypeOK, WorldsHangTogether, KeepsWorlds
    <2>2. current' = current /\ actors' = actors /\ (listening' <=> listening)
      BY DEF KeepsWorlds
    <2> QED BY <2>1, <2>2 DEF Inv, ShutdownInv
  <1> QED BY <1>1, <1>2, <1>3, <1>4, <1>5, <1>6 DEF Inv

\* A step of main or of a reset, but for those that replace or begin to seed a world.
LEMMA SomebodyMoves ==
  ASSUME Inv, KeepsWorlds, NEW a \in Actors, NEW place, NEW w, Moves(a, place, w),
         UNCHANGED <<ticking, events>>, resetMu' \in Resets \cup {Nobody},
         job' \in {"off", "on", "stopping"}, listening' \in BOOLEAN,
         place = "seeding" => actors[a].at = "seeding" /\ w = actors[a].world,
         LockInv', PreviousInv', SeedIsDue' <=> SeedIsDue, ShutdownInv'
  PROVE  Inv'
PROOF
  <1>1. TypeOK'
    BY KeptWorlds DEF Inv, TypeOK, KeepsWorlds, Moves
  <1>2. WorldsHangTogether'
    <2>1. ASSUME NEW b \in Actors, actors'[b].at = "seeding"
          PROVE  actors'[b].world \in 1..current
      BY <2>1 DEF Inv, WorldsHangTogether, Moves
    <2> QED BY <2>1, KeptWorlds DEF Inv, WorldsHangTogether, KeepsWorlds
  <1>3. SeedInv'
    BY KeptWorlds DEF Inv, SeedInv, KeepsWorlds
  <1> QED BY <1>1, <1>2, <1>3 DEF Inv

\* A reset that moves between places where it owes nothing, and keeps what it has of the lock.
LEMMA AResetMoves ==
  ASSUME Inv, KeepsWorlds, NEW r \in Resets, NEW place \in ResetPlaces, NEW w, Moves(r, place, w),
         UNCHANGED <<resetMu, ticking, events, job, listening>>,
         place \in Resetters <=> actors[r].at \in Resetters,
         place = "seeding" => actors[r].at = "seeding" /\ w = actors[r].world,
         place \in {"stop", "stopping", "seed"} <=> actors[r].at \in {"stop", "stopping", "seed"},
         place \in {"stop", "stopping"} => /\ actors[r].at \in {"stop", "stopping"}
                                          /\ w = actors[r].world,
         actors[r].at \in {"stop", "stopping"} /\ place \notin {"stop", "stopping"} =>
           Quiet(current - 1)',
         actors[r].at \in {"absent", "done"} => place \in {"absent", "done"} \/ listening
  PROVE  Inv'
PROOF
  <1>1. Main \in Actors /\ r # Main /\ r \in Actors /\ Resets \subseteq Actors
    BY SimulatorConfig DEF Actors
  <1>2. LockInv'
    BY <1>1 DEF Inv, LockInv, Moves
  <1>3. PreviousInv'
    <2>1. \A q \in Resets : actors'[q].at \in {"stop", "stopping"} => actors'[q].world = current - 1
      BY <1>1 DEF Inv, PreviousInv, Moves
    <2>2. PreviousIsDue' => PreviousIsDue
      BY <1>1 DEF PreviousIsDue, Moves
    <2>3. PreviousIsDue /\ ~PreviousIsDue' => Quiet(current - 1)'
      BY <1>1 DEF PreviousIsDue, Moves
    <2> QED BY <2>1, <2>2, <2>3, KeptWorlds DEF Inv, TypeOK, PreviousInv, KeepsWorlds
  <1>4. SeedIsDue' <=> SeedIsDue
    BY <1>1 DEF SeedIsDue, Moves
  <1>5. ShutdownInv'
    <2>1. worlds[current].gateway = "stopped" => worlds'[current'].gateway = "stopped"
      BY DEF Inv, TypeOK, WorldsHangTogether, KeepsWorlds
    <2>2. /\ current' = current /\ actors'[Main] = actors[Main]
          /\ (listening' <=> listening) /\ job' = job /\ ticking' = ticking
      BY <1>1 DEF KeepsWorlds, Moves
    <2>3. actors[Main].at \in AfterDraining => \A q \in Resets : actors'[q].at \in {"absent", "done"}
      BY <1>1 DEF Inv, ShutdownInv, Moves, AfterDraining
    <2> QED BY <2>1, <2>2, <2>3 DEF Inv, ShutdownInv
  <1> QED BY <1>1, <1>2, <1>3, <1>4, <1>5, SomebodyMoves DEF Inv, TypeOK

\* Main moves.
LEMMA MainMoves ==
  ASSUME Inv, KeepsWorlds, NEW place \in MainPlaces, NEW w, Moves(Main, place, w),
         UNCHANGED <<resetMu, ticking, events>>,
         job' \in {"off", "on", "stopping"}, listening' \in BOOLEAN,
         place = "seeding" => actors[Main].at = "seeding" /\ w = actors[Main].world,
         ShutdownInv'
  PROVE  Inv'
PROOF
  <1>1. Main \in Actors /\ \A r \in Resets : r # Main /\ r \in Actors
    BY SimulatorConfig DEF Actors
  <1>2. \A r \in Resets : actors'[r] = actors[r]
    BY <1>1 DEF Moves
  <1>3. LockInv'
    BY <1>1, <1>2 DEF Inv, LockInv, Moves
  <1>4. PreviousInv'
    BY <1>2, KeptWorlds DEF Inv, TypeOK, PreviousInv, PreviousIsDue, KeepsWorlds
  <1>5. SeedIsDue' <=> SeedIsDue
    BY <1>2 DEF SeedIsDue
  <1> QED BY <1>1, <1>3, <1>4, <1>5, SomebodyMoves DEF Inv, TypeOK

\* Delivery goes on in one world.
LEMMA DeliverySteps ==
  ASSUME Inv, PushSteps
  PROVE  Inv'
PROOF
  <1>1. PICK w \in 1..Len(worlds) : TakePush(w) \/ PushEnds(w) \/ GatewayEnds(w)
    BY DEF PushSteps, Inv, TypeOK
  <1>2. KeepsWorlds
    BY <1>1, DeliveryKeeps
  <1>3. UNCHANGED <<current, resetMu, actors, job, ticking, events, listening>>
    BY <1>1 DEF TakePush, PushEnds, GatewayEnds
  <1> QED BY <1>2, <1>3, NobodyMoves DEF Inv, TypeOK, WorldsHangTogether, ShutdownInv

\* The job ticks in the current world.
LEMMA JobSteps ==
  ASSUME Inv, TickSteps
  PROVE  Inv'
PROOF
  <1>1. /\ current = Len(worlds) /\ current \in Nat \ {0}
        /\ job \in {"off", "on", "stopping"} /\ events \in Nat /\ ticking \in 0..current
        /\ job = "off" => ticking = 0
    BY DEF Inv, TypeOK, WorldsHangTogether, ShutdownInv
  <1>2. CASE TickBegins
    BY <1>1, <1>2, UnchangedWorldsAreKept, NobodyMoves DEF TickBegins
  <1>3. CASE TickPublishes
    <2>1. KeepsWorlds
      BY <1>1, <1>3, PublishingKeeps DEF TickPublishes
    <2> QED BY <1>1, <1>3, <2>1, NobodyMoves DEF TickPublishes
  <1>4. CASE TickEnds
    BY <1>1, <1>4, UnchangedWorldsAreKept, NobodyMoves DEF TickEnds
  <1>5. CASE JobEnds
    BY <1>1, <1>5, UnchangedWorldsAreKept, NobodyMoves DEF JobEnds
  <1> QED BY <1>2, <1>3, <1>4, <1>5 DEF TickSteps

\* A reset arrives, adds to the world it seeds, or sees the previous world stop.
LEMMA ResetsMove ==
  ASSUME Inv, NEW r \in Resets,
         \/ ResetArrives(r) \/ StopPrevious(r) \/ PreviousHasStopped(r)
         \/ SeedAdds(r) \/ SeedEnds(r)
  PROVE  Inv'
PROOF
  <1>1. TypeOK /\ r \in Actors /\ r # Main /\ current = Len(worlds)
    BY SimulatorConfig DEF Inv, WorldsHangTogether, Actors
  <1>2. {"locking", "stopping", "seed", "connect"} \subseteq ResetPlaces
    BY DEF ResetPlaces, Resetters
  <1>3. CASE ResetArrives(r)
    <2>1. Moves(r, "locking", actors[r].world) /\ KeepsWorlds
      BY <1>1, <1>2, <1>3, GoingSomewhere, UnchangedWorldsAreKept DEF ResetArrives
    <2> QED BY <1>2, <1>3, <2>1, AResetMoves DEF ResetArrives, Resetters
  <1>4. CASE StopPrevious(r)
    <2>1. actors[r].world \in 1..Len(worlds)
      BY <1>1, <1>4 DEF Inv, TypeOK, PreviousInv, SeedInv, SeedIsDue, StopPrevious
    <2>2. Moves(r, "stopping", actors[r].world)
      BY <1>1, <1>2, <1>4, ActorsAreActors, GoingToStop DEF StopPrevious, StopGateway
    <2>3. KeepsWorlds
      BY <1>1, <1>4, <2>1, StoppingKeeps DEF StopPrevious
    <2> QED BY <1>2, <1>4, <2>2, <2>3, AResetMoves DEF StopPrevious, Resetters
  <1>5. CASE PreviousHasStopped(r)
    <2>1. Moves(r, "seed", actors[r].world) /\ KeepsWorlds
      BY <1>1, <1>2, <1>5, GoingSomewhere, UnchangedWorldsAreKept DEF PreviousHasStopped
    <2>2. Quiet(current - 1)'
      BY <1>5, <2>1 DEF Inv, TypeOK, WorldsHangTogether, PreviousInv, SeedInv, SeedIsDue,
           PreviousHasStopped, Quiet
    <2> QED BY <1>2, <1>5, <2>1, <2>2, AResetMoves DEF PreviousHasStopped, Resetters
  <1>6. CASE SeedAdds(r)
    <2>1. actors[r].world \in 1..Len(worlds)
      BY <1>1, <1>6 DEF Inv, WorldsHangTogether, SeedAdds
    <2>2. Moves(r, actors[r].at, actors[r].world) /\ KeepsWorlds
      BY <1>1, <1>6, <2>1, GoingOnSeeding, PublishingKeeps DEF SeedAdds
    <2> QED BY <1>6, <2>2, AResetMoves DEF SeedAdds, Resetters, ResetPlaces
  <1>7. CASE SeedEnds(r)
    <2>1. Moves(r, "connect", actors[r].world) /\ KeepsWorlds
      BY <1>1, <1>2, <1>7, GoingSomewhere, UnchangedWorldsAreKept DEF SeedEnds
    <2> QED BY <1>2, <1>7, <2>1, AResetMoves DEF SeedEnds, Resetters
  <1> QED BY <1>3, <1>4, <1>5, <1>6, <1>7

\* A reset takes resetMu, or gives it back (Reset).
LEMMA LockSteps ==
  ASSUME Inv, NEW r \in Resets, Lock(r) \/ Connect(r)
  PROVE  Inv'
PROOF
  <1>1. TypeOK /\ r \in Actors /\ r # Main /\ Main \in Actors /\ \A q \in Resets : q # Main
    BY SimulatorConfig DEF Inv, Actors
  <1>2. PICK place \in {"replace", "done"} : Moves(r, place, actors[r].world)
    BY <1>1, GoingSomewhere DEF Lock, Connect, ResetPlaces, Resetters
  <1>3. KeepsWorlds /\ UNCHANGED <<job, ticking, events, listening>>
    BY UnchangedWorldsAreKept DEF Lock, Connect
  <1>4. actors[r].at \in {"locking", "connect"}
    BY DEF Lock, Connect
  <1>5. \A q \in Resets :
          \/ actors'[q] = actors[q]
          \/ /\ actors[q].at \notin {"stop", "stopping", "seed"}
             /\ actors'[q].at \notin {"stop", "stopping", "seed"}
    BY <1>1, <1>2, <1>4 DEF Moves, Actors
  <1>6. PreviousInv'
    BY <1>3, <1>5, KeptWorlds DEF Inv, TypeOK, PreviousInv, PreviousIsDue, KeepsWorlds
  <1>7. SeedIsDue' <=> SeedIsDue
    BY <1>5 DEF SeedIsDue
  <1>8. ShutdownInv'
    <2>1. worlds[current].gateway = "stopped" => worlds'[current'].gateway = "stopped"
      BY <1>3 DEF Inv, TypeOK, WorldsHangTogether, KeepsWorlds
    <2>2. current' = current /\ actors'[Main] = actors[Main]
      BY <1>1, <1>2, <1>3 DEF KeepsWorlds, Moves
    <2>3. actors[Main].at \notin AfterDraining
      BY <1>4 DEF Inv, ShutdownInv
    <2> QED BY <1>3, <2>1, <2>2, <2>3 DEF Inv, ShutdownInv, AfterDraining
  <1>9. LockInv' /\ resetMu' \in Resets \cup {Nobody}
    <2>1. CASE Lock(r)
      <3>1. actors'[r].at = "replace"
        BY <1>1, <2>1 DEF Lock, GoTo, TypeOK
      <3> QED BY <1>1, <1>2, <2>1, <3>1, SimulatorConfig
            DEF Inv, LockInv, Lock, Moves, Resetters, ResetPlaces, Actors
    <2>2. CASE Connect(r)
      <3>1. actors'[r].at = "done"
        BY <1>1, <2>2 DEF Connect, GoTo, TypeOK
      <3> QED BY <1>1, <1>2, <2>2, <3>1, SimulatorConfig
            DEF Inv, LockInv, Connect, Moves, Resetters, ResetPlaces, Actors
    <2> QED BY <2>1, <2>2
  <1> QED BY <1>1, <1>2, <1>3, <1>6, <1>7, <1>8, <1>9, SomebodyMoves DEF Inv, TypeOK

\* The current world becomes the previous one, which is still to be stopped; the new one has no
\* seeder yet (replaceWorld).
LEMMA WorldsAreReplaced ==
  ASSUME Inv, NEW r \in Resets, ReplaceWorld(r)
  PROVE  Inv'
PROOF
  <1>1. TypeOK /\ r \in Actors /\ r # Main /\ Main \in Actors /\ \A q \in Resets : q \in Actors
    BY SimulatorConfig DEF Inv, Actors
  <1>2. current = Len(worlds) /\ current \in Nat \ {0}
    BY DEF Inv, TypeOK, WorldsHangTogether
  <1>3. Moves(r, "stop", current)
    BY <1>1, <1>2, GoingToStop DEF ReplaceWorld, ResetPlaces, Resetters
  <1>4. /\ worlds' \in Seq(World) /\ Len(worlds') = current + 1 /\ current' = current + 1
        /\ \A w \in 1..current : worlds'[w] = worlds[w]
        /\ worlds'[current + 1] = NewWorld
    BY <1>1, <1>2, ReplacingTheWorld DEF ReplaceWorld
  <1>5. actors[r].at = "replace" /\ UNCHANGED <<resetMu, job, ticking, events, listening>>
    BY DEF ReplaceWorld
  <1>6. TypeOK'
    BY <1>1, <1>3, <1>4, <1>5 DEF TypeOK, Moves
  <1>7. WorldsHangTogether'
    <2>1. \A a \in Actors : actors'[a].at = "seeding" => actors'[a].world \in 1..current
      BY <1>3 DEF Inv, WorldsHangTogether, Moves
    <2>2. NewWorld.gateway = "running"
      BY DEF NewWorld
    <2> QED BY <1>2, <1>4, <1>5, <2>1, <2>2 DEF Inv, WorldsHangTogether
  <1>8. LockInv'
    BY <1>1, <1>3, <1>5 DEF Inv, LockInv, Moves, Resetters, ResetPlaces
  <1>9. \A q \in Resets \ {r} : /\ actors[q].at \notin {"stop", "stopping", "seed"}
                               /\ actors'[q] = actors[q]
    BY <1>1, <1>3, <1>5 DEF Inv, LockInv, Moves, Resetters
  <1>10. PreviousInv'
    <2>1. \A w \in 1..current - 1 : Quiet(w)'
      <3>1. ~PreviousIsDue
        BY <1>5, <1>9 DEF PreviousIsDue
      <3> QED BY <1>2, <1>4, <3>1 DEF Inv, PreviousInv, Quiet
    <2>2. PreviousIsDue'
      BY <1>3 DEF PreviousIsDue, Moves
    <2>3. \A q \in Resets : actors'[q].at \in {"stop", "stopping"} => actors'[q].world = current
      BY <1>3, <1>9 DEF Moves
    <2> QED BY <1>2, <1>4, <2>1, <2>2, <2>3 DEF PreviousInv
  <1>11. SeedInv'
    <2>1. ~SeedIsDue /\ SeedIsDue'
      BY <1>3, <1>5, <1>9 DEF SeedIsDue, Moves
    <2>2. \A w \in 1..current : SeedersOf(w, Resets)' = SeedersOf(w, Resets)
      BY <1>4 DEF SeedersOf
    <2>3. \A w \in {current + 1} : SeedersOf(w, Resets)' = 0
      <3>1. {i \in DOMAIN NewWorld.seeders : NewWorld.seeders[i] \in Resets} = {}
        BY DEF NewWorld
      <3> QED BY <1>4, <3>1, FS_EmptySet DEF SeedersOf
    <2> QED BY <1>2, <1>4, <2>1, <2>2, <2>3 DEF Inv, SeedInv
  <1>12. ShutdownInv'
    <2>1. actors'[Main] = actors[Main] /\ actors[Main].at \notin AfterDraining
      BY <1>1, <1>3, <1>5 DEF Inv, ShutdownInv, Moves
    <2> QED BY <1>5, <2>1 DEF Inv, ShutdownInv, AfterDraining
  <1> QED BY <1>6, <1>7, <1>8, <1>10, <1>11, <1>12 DEF Inv

\* The current world gets a seeder, who was the one to seed it unless it is main (Seed).
LEMMA SeedingBegins ==
  ASSUME Inv, NEW a \in Actors, SeedBegins(a)
  PROVE  Inv'
PROOF
  <1>1. TypeOK /\ Main \in Actors /\ \A r \in Resets : r \in Actors /\ r # Main
    BY SimulatorConfig DEF Inv, Actors
  <1>2. current = Len(worlds) /\ current \in Nat \ {0} /\ current \in 1..Len(worlds)
    BY DEF Inv, TypeOK, WorldsHangTogether
  <1>3. Moves(a, "seeding", current) /\ actors[a].at = "seed"
    BY <1>1, GoingToSeed DEF SeedBegins
  <1>4. UNCHANGED <<current, resetMu, job, ticking, events, listening>>
    BY DEF SeedBegins
  <1>5. /\ OnlyChanges(current)
        /\ worlds'[current].sending = worlds[current].sending
        /\ worlds'[current].gateway = worlds[current].gateway
        /\ worlds'[current].seeders = Append(worlds[current].seeders, a)
    BY <1>1, <1>2, BeginningToSeed
  <1>6. \A w \in 1..current : /\ worlds'[w].sending = worlds[w].sending
                             /\ worlds'[w].gateway = worlds[w].gateway
    BY <1>2, <1>5 DEF OnlyChanges
  <1>7. TypeOK'
    BY <1>1, <1>3, <1>4, <1>5 DEF TypeOK, Moves, OnlyChanges
  <1>8. WorldsHangTogether'
    <2>1. \A b \in Actors : actors'[b].at = "seeding" => actors'[b].world \in 1..current
      BY <1>2, <1>3 DEF Inv, WorldsHangTogether, Moves
    <2>2. Len(worlds') = Len(worlds)
      BY <1>5 DEF OnlyChanges
    <2> QED BY <1>2, <1>4, <1>6, <2>1, <2>2 DEF Inv, WorldsHangTogether
  <1>9. LockInv'
    BY <1>1, <1>3, <1>4 DEF Inv, LockInv, Moves, Resetters, ResetPlaces, MainPlaces
  <1>10. \A b \in Actors : actors'[b].at \in {"stop", "stopping"} \/ actors[b].at \in {"stop", "stopping"}
                         => actors'[b] = actors[b]
    BY <1>3 DEF Moves
  <1>11. PreviousInv'
    <2>1. PreviousIsDue' <=> PreviousIsDue
      BY <1>1, <1>10 DEF PreviousIsDue
    <2>2. \A w \in 1..current - 1 : Quiet(w)' <=> Quiet(w)
      BY <1>2, <1>6 DEF Quiet
    <2> QED BY <1>1, <1>2, <1>4, <1>10, <2>1, <2>2 DEF Inv, PreviousInv
  <1>12. SeedInv'
    <2>1. \A w \in 1..current : w # current => SeedersOf(w, Resets)' = SeedersOf(w, Resets)
      BY <1>2, <1>5 DEF SeedersOf, OnlyChanges
    <2>2. SeedersOf(current, Resets)' =
            IF a \in Resets THEN SeedersOf(current, Resets) + 1 ELSE SeedersOf(current, Resets)
      <3> DEFINE Among(seeders) == {i \in DOMAIN seeders : seeders[i] \in Resets}
      <3>1. worlds[current].seeders \in Seq(Actors)
        BY <1>1, <1>2, WorldsAreWorlds
      <3>2. Cardinality(Among(Append(worlds[current].seeders, a))) =
              IF a \in Resets THEN Cardinality(Among(worlds[current].seeders)) + 1
              ELSE Cardinality(Among(worlds[current].seeders))
        BY <3>1, OneMoreSeeder
      <3>3. /\ SeedersOf(current, Resets) = Cardinality(Among(worlds[current].seeders))
            /\ SeedersOf(current, Resets)' = Cardinality(Among(worlds'[current].seeders))
        BY <1>4 DEF SeedersOf
      <3> QED BY <1>5, <3>2, <3>3
    <2>3. CASE a \in Resets
      <3>1. SeedIsDue
        BY <1>3, <2>3 DEF SeedIsDue
      <3>2. ~SeedIsDue'
        BY <1>1, <1>3, <2>3 DEF Inv, LockInv, SeedIsDue, Moves, Resetters
      <3>3. current > 1
        BY <3>1 DEF Inv, SeedInv
      <3> QED BY <1>2, <1>4, <2>1, <2>2, <2>3, <3>1, <3>2, <3>3 DEF Inv, SeedInv
    <2>4. CASE a = Main
      <3>1. SeedIsDue' <=> SeedIsDue
        BY <1>1, <1>3, <2>4 DEF SeedIsDue, Moves
      <3> QED BY <1>1, <1>2, <1>4, <2>1, <2>2, <2>4, <3>1 DEF Inv, SeedInv
    <2> QED BY <2>3, <2>4 DEF Actors
  <1>13. ShutdownInv'
    <2>1. actors'[Main].at # actors[Main].at =>
            /\ actors[Main].at = "seed" /\ actors'[Main].at = "seeding"
      BY <1>1, <1>3 DEF Moves
    <2>2. a \in Resets => actors'[Main] = actors[Main] /\ actors[Main].at \notin AfterDraining
      BY <1>1, <1>3 DEF Inv, ShutdownInv, Moves
    <2> QED BY <1>1, <1>2, <1>3, <1>4, <1>6, <2>1, <2>2 DEF Inv, ShutdownInv, AfterDraining, Actors
  <1> QED BY <1>7, <1>8, <1>9, <1>11, <1>12, <1>13 DEF Inv

\* Main goes on, but for its own Seed.
LEMMA MainGoesOn ==
  ASSUME Inv, \/ StartJob \/ SeedAdds(Main) \/ SeedEnds(Main) \/ Connect(Main)
              \/ Interrupted \/ Drained \/ JobHasStopped \/ Stopped
  PROVE  Inv'
PROOF
  <1>1. TypeOK /\ Main \in Actors /\ \A r \in Resets : r \in Actors /\ r # Main
    BY SimulatorConfig DEF Inv, Actors
  <1>2. /\ current = Len(worlds) /\ current \in Nat \ {0} /\ current \in 1..Len(worlds)
        /\ job \in {"off", "on", "stopping"} /\ listening \in BOOLEAN
    BY DEF Inv, TypeOK, WorldsHangTogether
  <1>3. KeepsWorlds => current' = current
                       /\ (worlds[current].gateway = "stopped" => worlds'[current].gateway = "stopped")
    BY <1>2 DEF KeepsWorlds
  <1>4. CASE StartJob
    <2>1. Moves(Main, "seed", actors[Main].world) /\ KeepsWorlds
      BY <1>1, <1>4, GoingSomewhere, UnchangedWorldsAreKept DEF StartJob, MainPlaces
    <2>2. ShutdownInv'
      BY <1>1, <1>3, <1>4, <2>1 DEF Inv, ShutdownInv, AfterDraining, StartJob, Moves
    <2> QED BY <1>2, <1>4, <2>1, <2>2, MainMoves DEF StartJob, MainPlaces
  <1>5. CASE SeedAdds(Main)
    <2>1. actors[Main].world \in 1..Len(worlds)
      BY <1>1, <1>2, <1>5 DEF Inv, WorldsHangTogether, SeedAdds
    <2>2. Moves(Main, "seeding", actors[Main].world) /\ KeepsWorlds
      BY <1>1, <1>5, <2>1, GoingOnSeeding, PublishingKeeps DEF SeedAdds
    <2>3. ShutdownInv'
      BY <1>1, <1>3, <1>5, <2>2 DEF Inv, ShutdownInv, AfterDraining, SeedAdds, Moves
    <2> QED BY <1>2, <1>5, <2>2, <2>3, MainMoves DEF SeedAdds, MainPlaces
  <1>6. CASE SeedEnds(Main)
    <2>1. Moves(Main, "connect", actors[Main].world) /\ KeepsWorlds
      BY <1>1, <1>6, GoingSomewhere, UnchangedWorldsAreKept DEF SeedEnds, MainPlaces
    <2>2. ShutdownInv'
      BY <1>1, <1>3, <1>6, <2>1 DEF Inv, ShutdownInv, AfterDraining, SeedEnds, Moves
    <2> QED BY <1>2, <1>6, <2>1, <2>2, MainMoves DEF SeedEnds, MainPlaces
  <1>7. CASE Connect(Main)
    <2>1. Moves(Main, "serving", actors[Main].world) /\ KeepsWorlds
      BY <1>1, <1>7, GoingSomewhere, UnchangedWorldsAreKept DEF Connect, MainPlaces
    <2>2. ShutdownInv'
      BY <1>1, <1>3, <1>7, <2>1 DEF Inv, ShutdownInv, AfterDraining, Connect, Moves
    <2> QED BY <1>2, <1>7, <2>1, <2>2, MainMoves DEF Connect, MainPlaces
  <1>8. CASE Interrupted
    <2>1. Moves(Main, "draining", actors[Main].world) /\ KeepsWorlds
      BY <1>1, <1>8, GoingSomewhere, UnchangedWorldsAreKept DEF Interrupted, MainPlaces
    <2>2. ShutdownInv'
      BY <1>1, <1>3, <1>8, <2>1 DEF Inv, ShutdownInv, AfterDraining, Interrupted, Moves
    <2> QED BY <1>2, <1>8, <2>1, <2>2, MainMoves DEF Interrupted, MainPlaces
  <1>9. CASE Drained
    <2>1. Moves(Main, "stopping job", actors[Main].world) /\ KeepsWorlds
      BY <1>1, <1>9, GoingSomewhere, UnchangedWorldsAreKept DEF Drained, MainPlaces
    <2>2. ShutdownInv'
      BY <1>1, <1>3, <1>9, <2>1 DEF Inv, ShutdownInv, AfterDraining, Drained, Moves
    <2> QED BY <1>2, <1>9, <2>1, <2>2, MainMoves DEF Drained, MainPlaces
  <1>10. CASE JobHasStopped
    <2>1. Moves(Main, "stopping gateway", current)
      BY <1>1, <1>2, <1>10, GoingToStop DEF JobHasStopped, StopGateway, MainPlaces
    <2>2. KeepsWorlds
      BY <1>1, <1>2, <1>10, StoppingKeeps DEF JobHasStopped
    <2>3. ShutdownInv'
      BY <1>1, <1>3, <1>10, <2>1, <2>2 DEF Inv, ShutdownInv, AfterDraining, JobHasStopped, Moves
    <2> QED BY <1>2, <1>10, <2>1, <2>2, <2>3, MainMoves DEF JobHasStopped, MainPlaces
  <1>11. CASE Stopped
    <2>1. Moves(Main, "stopped", actors[Main].world) /\ KeepsWorlds
      BY <1>1, <1>11, GoingSomewhere, UnchangedWorldsAreKept DEF Stopped, MainPlaces
    <2>2. ShutdownInv'
      BY <1>1, <1>3, <1>11, <2>1 DEF Inv, ShutdownInv, AfterDraining, Stopped, Moves
    <2> QED BY <1>2, <1>11, <2>1, <2>2, MainMoves DEF Stopped, MainPlaces
  <1> QED BY <1>4, <1>5, <1>6, <1>7, <1>8, <1>9, <1>10, <1>11

\* The first world is there and nobody has begun anything.
LEMMA InvInit ==
  Init => Inv
PROOF
  <1> SUFFICES ASSUME Init PROVE Inv
    OBVIOUS
  <1>1. /\ worlds = <<NewWorld>> /\ current = 1 /\ resetMu = Nobody /\ job = "off"
        /\ ticking = 0 /\ events = 0 /\ listening = TRUE
    BY DEF Init
  <1>2. NewWorld \in World /\ NewWorld.gateway = "running" /\ NewWorld.seeders = << >>
    BY DEF NewWorld, World
  <1>3. Main \in Actors /\ \A r \in Resets : r \in Actors /\ r # Main /\ r # Nobody
    BY SimulatorConfig DEF Actors
  <1>4. /\ actors \in [Actors -> Actor]
        /\ actors[Main].at = "starting" /\ \A r \in Resets : actors[r].at = "absent"
    BY <1>3 DEF Init, Actors, Actor, ResetPlaces, MainPlaces
  <1>5. TypeOK
    BY <1>1, <1>2, <1>4 DEF TypeOK
  <1>6. WorldsHangTogether
    <2>1. \A a \in Actors : actors[a].at # "seeding"
      BY <1>4 DEF Actors
    <2> QED BY <1>1, <1>2, <2>1 DEF WorldsHangTogether
  <1>7. LockInv
    BY <1>1, <1>3, <1>4 DEF LockInv, ResetPlaces, Resetters, MainPlaces
  <1>8. PreviousInv
    BY <1>1, <1>4 DEF PreviousInv
  <1>9. SeedInv
    <2>1. ~SeedIsDue
      BY <1>4 DEF SeedIsDue
    <2>2. SeedersOf(1, Resets) = 0
      <3>1. {i \in DOMAIN worlds[1].seeders : worlds[1].seeders[i] \in Resets} = {}
        BY <1>1, <1>2
      <3> QED BY <3>1, FS_EmptySet DEF SeedersOf
    <2> QED BY <1>1, <2>1, <2>2 DEF SeedInv
  <1>10. ShutdownInv
    BY <1>1, <1>4 DEF ShutdownInv, AfterDraining
  <1> QED BY <1>5, <1>6, <1>7, <1>8, <1>9, <1>10 DEF Inv

\* Every step keeps the invariant.
LEMMA InvStep ==
  Inv /\ [Next]_vars => Inv'
PROOF
  <1> SUFFICES ASSUME Inv, [Next]_vars PROVE Inv'
    OBVIOUS
  <1>1. Main \in Actors /\ Resets \subseteq Actors
    BY DEF Actors
  <1>2. CASE PushSteps
    BY <1>2, DeliverySteps
  <1>3. CASE MainSteps
    BY <1>1, <1>3, SeedingBegins, MainGoesOn DEF MainSteps
  <1>4. CASE TickSteps
    BY <1>4, JobSteps
  <1>5. CASE Interrupted
    BY <1>5, MainGoesOn
  <1>6. ASSUME NEW r \in Resets, ResetArrives(r) \/ ResetSteps(r)
        PROVE  Inv'
    BY <1>1, <1>6, ResetsMove, LockSteps, WorldsAreReplaced, SeedingBegins DEF ResetSteps
  <1>7. CASE UNCHANGED vars
    <2>1. /\ KeepsWorlds
          /\ UNCHANGED <<current, resetMu, actors, job, ticking, events, listening>>
      BY <1>7, UnchangedWorldsAreKept DEF vars
    <2> QED BY <2>1, NobodyMoves DEF Inv, TypeOK, WorldsHangTogether, ShutdownInv
  <1> QED BY <1>2, <1>3, <1>4, <1>5, <1>6, <1>7 DEF Next

\* What each actor, the job and each gateway may be doing, given what the others do: one reset at
\* a time between lock and unlock, one seeder for each world, nobody left when main is done
\* (Reset, Seed, run of main).
THEOREM Invariance == Spec => []Inv
BY InvInit, InvStep, PTL DEF Spec

-----------------------------------------------------------------------------
(* What the invariant says. *)

\* When no reset is on its way, none has a world to seed or a gateway to stop.
LEMMA NobodyIsResetting ==
  ASSUME Inv, \A r \in Resets : ~Resetting(r)
  PROVE  ~SeedIsDue /\ ~PreviousIsDue
BY DEF Resetting, SeedIsDue, PreviousIsDue

\* The pushes of a world never reach the mock of an older one, however many resets overlap with
\* whatever is being sent (Reset, replaceWorld).
THEOREM PushesReachNoOlderWorld == Spec => []NoPushToAnOlderWorld
PROOF
  <1>1. Inv => NoPushToAnOlderWorld
    BY DEF Inv, TypeOK, WorldsHangTogether, NoPushToAnOlderWorld
  <1> QED BY <1>1, Invariance, PTL

\* However many resets overlap, each seeds a world of its own, once (Reset, Seed).
THEOREM EveryResetSeedsOnce == Spec => []ResetsSeedOnce
PROOF
  <1>1. ASSUME Inv
        PROVE  ResetsSeedOnce
    <2>1. DOMAIN worlds = 1..current
      BY <1>1 DEF Inv, TypeOK, WorldsHangTogether
    <2>2. \A w \in DOMAIN worlds : SeedersOf(w, Resets) <= 1
      BY <1>1, <2>1 DEF Inv, SeedInv
    <2>3. ASSUME \A r \in Resets : ~Resetting(r), NEW w \in DOMAIN worlds \ {1}
          PROVE  SeedersOf(w, Resets) = 1
      BY <1>1, <2>1, <2>3, NobodyIsResetting DEF Inv, SeedInv
    <2> QED BY <2>2, <2>3 DEF ResetsSeedOnce
  <1> QED BY <1>1, Invariance, PTL

\* When no reset is on the way every world but the current one has stopped pushing (Reset).
THEOREM OldWorldsAreQuiet == Spec => []OnlyTheCurrentWorldPushes
PROOF
  <1>1. ASSUME Inv, \A r \in Resets : ~Resetting(r), NEW w \in DOMAIN worlds \ {current}
        PROVE  worlds[w].gateway = "stopped" /\ ~worlds[w].sending
    BY <1>1, NobodyIsResetting DEF Inv, TypeOK, WorldsHangTogether, PreviousInv, Quiet
  <1>2. Inv => OnlyTheCurrentWorldPushes
    BY <1>1 DEF OnlyTheCurrentWorldPushes
  <1> QED BY <1>2, Invariance, PTL

\* When Stop has returned no tick, no reset and no push goes on (run of main, Stop).
THEOREM StopIsFinal == Spec => []StoppedMeansQuiet
PROOF
  <1>1. ASSUME Inv, actors[Main].at = "stopped"
        PROVE  /\ ticking = 0 /\ job = "off"
               /\ \A r \in Resets : ~Resetting(r)
               /\ \A w \in DOMAIN worlds : worlds[w].gateway = "stopped" /\ ~worlds[w].sending
    <2>1. \A r \in Resets : ~Resetting(r)
      BY <1>1 DEF Inv, ShutdownInv, AfterDraining, Resetting
    <2>2. Quiet(current) /\ DOMAIN worlds = 1..current /\ current \in Nat
      BY <1>1 DEF Inv, TypeOK, WorldsHangTogether, ShutdownInv, Quiet
    <2>3. \A w \in 1..current - 1 : Quiet(w)
      BY <1>1, <2>1, NobodyIsResetting DEF Inv, PreviousInv
    <2> QED BY <1>1, <2>1, <2>2, <2>3 DEF Inv, ShutdownInv, Quiet
  <1>2. Inv => StoppedMeansQuiet
    BY <1>1 DEF StoppedMeansQuiet
  <1> QED BY <1>2, Invariance, PTL
=============================================================================
