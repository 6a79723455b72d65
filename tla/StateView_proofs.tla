--------------------------- MODULE StateView_proofs ---------------------------
(***************************************************************************)
(* The clock for every speed, every pause and every adjustment of the      *)
(* machine's clock, and then what the operator API shows, for every number *)
(* of chargers, sessions and polls and every order of reads and writes.    *)
(*                                                                         *)
(* Between two changes of speed the simulated time is linear in the        *)
(* reading that counts; at a change it is the new anchor.  Each step is    *)
(* one or the other, or moves the other reading.                           *)
(*                                                                         *)
(* A poll reads the repositories at different moments, so the inductive    *)
(* invariant ViewInv says what relates the states that the repositories go *)
(* through (Chain: a session that is gone does not come back, one that is  *)
(* over does not change, and no other loses energy), and what the poll has *)
(* read to all of those that are still to come (PollIsRight).              *)
(***************************************************************************)
EXTENDS StateView, ChargerController_proofs

(***************************************************************************)
(* The clock.                                                              *)
(***************************************************************************)

\* Readings are integers.
LEMMA SimulatedNowIsInt ==
  ASSUME ClockTypeOK
  PROVE  SimulatedNow \in Int
<1>1. clock.simulatedAnchor \in Int /\ clock.speed \in Int
  BY ClockConfig DEF ClockTypeOK
<1>2. Since(WallNow, clock.wallAnchor) \in Int
  BY ClockConfig DEF ClockTypeOK, Since, WallNow
<1>. QED
  BY <1>1, <1>2 DEF SimulatedNow, SimulatedAt

\* Multiplying out one more tick.
LEMMA OneTickMore ==
  ASSUME NEW a \in Int, NEW e \in Int, NEW s \in Int
  PROVE  a + (e + 1) * s = (a + e * s) + s
OBVIOUS

\* More elapsed time is more simulated time.
LEMMA ScalingIsMonotone ==
  ASSUME NEW a \in Int, NEW d \in Int, NEW e \in Int, NEW s \in Nat, d <= e
  PROVE  a + d * s <= a + e * s
<1>1. d * s <= e * s
  OBVIOUS
<1>2. d * s \in Int /\ e * s \in Int
  OBVIOUS
<1>. QED
  BY <1>1, <1>2

\* Real time that passes is simulated time at the present speed.
LEMMA PassingIsScaled ==
  ASSUME ClockTypeOK, WallPasses
  PROVE  SimulatedNow' = SimulatedNow + clock.speed
<1>. DEFINE elapsed == Since(WallNow, clock.wallAnchor)
<1>1. elapsed \in Int /\ clock.simulatedAnchor \in Int /\ clock.speed \in Int
  BY ClockConfig DEF ClockTypeOK, Since, WallNow
<1>2. Since(WallNow', clock.wallAnchor) = elapsed + 1
  BY ClockConfig DEF ClockTypeOK, WallPasses, Since, WallNow
<1>3. SimulatedNow' = clock.simulatedAnchor + Since(WallNow', clock.wallAnchor) * clock.speed
  BY DEF WallPasses, SimulatedNow, SimulatedAt
<1>4. SimulatedNow = clock.simulatedAnchor + elapsed * clock.speed
  BY DEF SimulatedNow, SimulatedAt
<1>. HIDE DEF elapsed
<1>5. clock.simulatedAnchor + (elapsed + 1) * clock.speed
        = (clock.simulatedAnchor + elapsed * clock.speed) + clock.speed
  BY <1>1, OneTickMore
<1>. QED
  BY <1>2, <1>3, <1>4, <1>5

\* A change of speed leaves the simulated time where it was.
LEMMA ChangeKeepsTime ==
  ASSUME ClockTypeOK, NEW speed \in Speeds, NEW pause \in Pauses, SetSpeed(speed, pause)
  PROVE  SimulatedNow' = SimulatedNow
<1>1. clock' = [simulatedAnchor |-> SimulatedNow, speed |-> speed, wallAnchor |-> WallNow']
  BY DEF SetSpeed
<1>2. WallNow'.steady \in Int /\ WallNow'.steady # Stripped
  BY ClockConfig DEF ClockTypeOK, SetSpeed, WallNow
<1>3. Since(WallNow', clock'.wallAnchor) = 0
  BY <1>1, <1>2 DEF Since
<1>4. speed \in Int /\ SimulatedNow \in Int
  BY ClockConfig, SimulatedNowIsInt
<1>5. SimulatedNow' = SimulatedNow + 0 * speed
  BY <1>1, <1>3 DEF SimulatedNow, SimulatedAt
<1>. QED
  BY <1>4, <1>5

\* Once the gateway has an anchor with a monotonic time, setting the wall clock is not noticed.
LEMMA AdjustmentNotNoticed ==
  ASSUME ClockTypeOK, NEW by \in Adjustments, WallIsSet(by), ~OnWallClock
  PROVE  SimulatedNow' = SimulatedNow
  BY DEF WallIsSet, OnWallClock, SimulatedNow, SimulatedAt, Since, WallNow

\* The clock starts with readings and fields of their types,
LEMMA ClockTypeInit == ClockInit => ClockTypeOK
<1>. SUFFICES ASSUME ClockInit PROVE ClockTypeOK
  OBVIOUS
<1>1. InitialSpeed \in 1..MaxSpeed
  BY ClockConfig DEF IsSpeed
<1>2. moved \in BOOLEAN
  BY DEF ClockInit
<1>. QED
  BY <1>1, <1>2 DEF ClockInit, ClockTypeOK

\* and keeps them so.
LEMMA ClockTypeStep ==
  ASSUME ClockTypeOK, [ClockNext]_clockVars
  PROVE  ClockTypeOK'
<1>1. CASE WallPasses
  <2>1. due + clock.speed \in Int
    BY ClockConfig DEF ClockTypeOK
  <2>. QED
    BY <1>1, <2>1 DEF ClockTypeOK, WallPasses
<1>2. ASSUME NEW by \in Adjustments, WallIsSet(by) PROVE ClockTypeOK'
  <2>1. wall' \in Int /\ UNCHANGED <<steady, clock, due>>
    BY <1>2, ClockConfig DEF ClockTypeOK, WallIsSet
  <2>2. changes' \in [speed: Nat, wall: Nat]
    BY <1>2 DEF ClockTypeOK, WallIsSet
  <2>3. moved' \in BOOLEAN
    BY <1>2 DEF WallIsSet
  <2>. QED
    BY <2>1, <2>2, <2>3 DEF ClockTypeOK
<1>3. ASSUME NEW speed \in Speeds, NEW pause \in Pauses, SetSpeed(speed, pause)
      PROVE  ClockTypeOK'
  <2>1. speed \in 1..MaxSpeed
    BY <1>3, ClockConfig DEF SetSpeed, IsSpeed
  <2>2. wall' \in Int /\ steady' \in Nat
    BY <1>3, ClockConfig DEF ClockTypeOK, SetSpeed
  <2>3. SimulatedNow \in Int
    BY SimulatedNowIsInt
  <2>4. clock' = [simulatedAnchor |-> SimulatedNow, speed |-> speed,
                  wallAnchor |-> [wall |-> wall', steady |-> steady']]
    BY <1>3 DEF SetSpeed, WallNow
  <2>. QED
    BY <1>3, <2>1, <2>2, <2>3, <2>4 DEF ClockTypeOK, SetSpeed
<1>4. CASE UNCHANGED clockVars
  BY <1>4 DEF ClockTypeOK, clockVars
<1>. QED
  BY <1>1, <1>2, <1>3, <1>4 DEF ClockNext

\* It goes on, unless the wall clock is set back while the anchor is the one the gateway was made
\* with.
Forward == SimulatedNow' >= SimulatedNow \/ (OnWallClock /\ wall' < wall)

LEMMA ClockGoesForward ==
  ASSUME ClockTypeOK, ClockNext
  PROVE  Forward
<1>0. SimulatedNow \in Int
  BY SimulatedNowIsInt
<1>1. CASE WallPasses
  <2>1. clock.speed \in Nat
    BY ClockConfig DEF ClockTypeOK
  <2>. QED
    BY <1>0, <1>1, <2>1, PassingIsScaled DEF Forward
<1>2. ASSUME NEW by \in Adjustments, WallIsSet(by) PROVE Forward
  <2>1. CASE ~OnWallClock
    BY <1>0, <1>2, <2>1, AdjustmentNotNoticed DEF Forward
  <2>2. CASE OnWallClock /\ ~(wall' < wall)
    <3>1. wall \in Int /\ wall' \in Int /\ clock.wallAnchor.wall \in Int
          /\ clock.simulatedAnchor \in Int /\ clock.speed \in Nat
      BY <1>2, ClockConfig DEF ClockTypeOK, WallIsSet
    <3>2. SimulatedNow = clock.simulatedAnchor + (wall - clock.wallAnchor.wall) * clock.speed
      BY <2>2 DEF OnWallClock, SimulatedNow, SimulatedAt, Since, WallNow
    <3>3. SimulatedNow' = clock.simulatedAnchor + (wall' - clock.wallAnchor.wall) * clock.speed
      BY <1>2, <2>2 DEF WallIsSet, OnWallClock, SimulatedNow, SimulatedAt, Since, WallNow
    <3>4. wall - clock.wallAnchor.wall <= wall' - clock.wallAnchor.wall
          /\ wall - clock.wallAnchor.wall \in Int /\ wall' - clock.wallAnchor.wall \in Int
      BY <2>2, <3>1
    <3>5. SimulatedNow <= SimulatedNow'
      BY <3>1, <3>2, <3>3, <3>4, ScalingIsMonotone
    <3>. QED
      BY <3>5, <1>0, <3>1, <3>3 DEF Forward
  <2>. QED
    BY <2>1, <2>2 DEF Forward
<1>3. ASSUME NEW speed \in Speeds, NEW pause \in Pauses, SetSpeed(speed, pause)
      PROVE  Forward
  BY <1>0, <1>3, ChangeKeepsTime DEF Forward
<1>. QED
  BY <1>1, <1>2, <1>3 DEF ClockNext

\* The clock's readings and the gateway's fields have their types.
THEOREM ClockTypeCorrect == ClockSpec => []ClockTypeOK
BY ClockTypeInit, ClockTypeStep, PTL DEF ClockSpec

\* The simulated clock goes back in no step but one that sets the wall clock back while the
\* gateway's anchor is the one it was made with.
THEOREM ClockIsMonotone == ClockSpec => ClockNeverGoesBack
<1>1. ClockTypeOK /\ [ClockNext]_clockVars => [Forward]_clockVars
  BY ClockGoesForward
<1>. QED
  BY <1>1, ClockTypeCorrect, PTL DEF ClockSpec, ClockNeverGoesBack, Forward

\* The simulated time is what the stretches of real time amount to at the speeds they had.
THEOREM TimeIsKept == ClockSpec => []TimeKeepsItsSpeed
<1>1. ClockInit => TimeKeepsItsSpeed
  <2>. SUFFICES ASSUME ClockInit PROVE SimulatedNow = due
    BY DEF TimeKeepsItsSpeed
  <2>. QED
    BY ClockConfig DEF ClockInit, SimulatedNow, SimulatedAt, Since, WallNow
<1>2. ClockTypeOK /\ TimeKeepsItsSpeed /\ [ClockNext]_clockVars => TimeKeepsItsSpeed'
  <2>. SUFFICES ASSUME ClockTypeOK, TimeKeepsItsSpeed, [ClockNext]_clockVars, ~moved'
                PROVE  SimulatedNow' = due'
    BY DEF TimeKeepsItsSpeed
  <2>1. CASE WallPasses
    BY <2>1, PassingIsScaled DEF WallPasses, TimeKeepsItsSpeed
  <2>2. ASSUME NEW by \in Adjustments, WallIsSet(by) PROVE SimulatedNow' = due'
    <3>1. ~OnWallClock /\ ~moved
      BY <2>2 DEF WallIsSet, ClockTypeOK
    <3>. QED
      BY <2>2, <3>1, AdjustmentNotNoticed DEF WallIsSet, TimeKeepsItsSpeed
  <2>3. ASSUME NEW speed \in Speeds, NEW pause \in Pauses, SetSpeed(speed, pause)
        PROVE  SimulatedNow' = due'
    <3>1. ~moved /\ due' = due
      BY <2>3 DEF SetSpeed, ClockTypeOK
    <3>. QED
      BY <2>3, <3>1, ChangeKeepsTime DEF TimeKeepsItsSpeed
  <2>4. CASE UNCHANGED clockVars
    BY <2>4 DEF clockVars, SimulatedNow, SimulatedAt, Since, WallNow, TimeKeepsItsSpeed
  <2>. QED
    BY <2>1, <2>2, <2>3, <2>4 DEF ClockNext
<1>. QED
  BY <1>1, <1>2, ClockTypeCorrect, PTL DEF ClockSpec

(***************************************************************************)
(* What the repositories go through.                                       *)
(***************************************************************************)

\* What may have become of the sessions a, up to number n, when they are b: some are gone, none is
\* back, and what is over does not change.
ComesOf(a, b, n) ==
  \A s \in DOMAIN b :
    s <= n => /\ s \in DOMAIN a
              /\ b[s].chargerID = a[s].chargerID /\ a[s].energy <= b[s].energy
              /\ a[s].state = CompletedState => b[s] = a[s]

\* A bill, and a charger's session, are those of the session that is stored, if it still is.
BillFits(cdr, sessions) ==
  cdr.sessionID \in DOMAIN sessions =>
    /\ sessions[cdr.sessionID].state = CompletedState
    /\ cdr = CDROf(cdr.sessionID, sessions[cdr.sessionID])

HolderFits(id, s, sessions) == s \in DOMAIN sessions => sessions[s].chargerID = id

IsCDR(cdr, at) == cdr.sessionID \in Nat /\ cdr.endedAt \in Int /\ cdr.endedAt <= at

IsCharger(charger) ==
  /\ charger.session \in Nat /\ charger.vehicle \in Vehicle \cup {NoVehicle}
  /\ charger.session # NoSession => charger.vehicle # NoVehicle

SessionsAre(sessions, at) ==
  /\ IsRepository(sessions, Nat, SessionRecord)
  /\ \A s \in DOMAIN sessions : sessions[s].updatedAt <= at /\ sessions[s].endedAt <= at

\* What is true of the repositories at any moment up to the time at, also between two writes.
StoreIsRight(store, at) ==
  /\ store = [sessions |-> store.sessions, cdrs |-> store.cdrs, chargers |-> store.chargers]
  /\ SessionsAre(store.sessions, at)
  /\ \A d \in DOMAIN store.cdrs :
       IsCDR(store.cdrs[d], at) /\ BillFits(store.cdrs[d], store.sessions)
  /\ \A id \in DOMAIN store.chargers :
       /\ IsCharger(store.chargers[id])
       /\ store.chargers[id].session # NoSession =>
            HolderFits(id, store.chargers[id].session, store.sessions)

\* The store names no session beyond number n.
KnowsUpTo(store, n) ==
  /\ \A d \in DOMAIN store.cdrs : store.cdrs[d].sessionID <= n
  /\ \A id \in DOMAIN store.chargers : store.chargers[id].session <= n

\* The states that a handler takes the repositories through, when n sessions had started before it.
Chain(states, n, at) ==
  /\ IsSequence(states) /\ Len(states) >= 1
  /\ \A i \in 1..Len(states) : StoreIsRight(states[i], at)
  /\ \A i, j \in 1..Len(states) : i <= j => ComesOf(states[i].sessions, states[j].sessions, n)
  /\ \A i \in 1..(Len(states) - 1) : KnowsUpTo(states[i], n)

\* Sessions that stay as they are come of themselves,
LEMMA ComesOfItself ==
  ASSUME NEW a, NEW at, NEW n, SessionsAre(a, at)
  PROVE  ComesOf(a, a, n)
BY DEF SessionsAre, IsRepository, SessionRecord, ComesOf

\* and what comes of sessions comes of what they came of.
LEMMA ComesOfLater ==
  ASSUME NEW a, NEW b, NEW c, NEW at, NEW n,
         SessionsAre(a, at), SessionsAre(b, at), SessionsAre(c, at),
         ComesOf(a, b, n), ComesOf(b, c, n)
  PROVE  ComesOf(a, c, n)
<1> SUFFICES ASSUME NEW s \in DOMAIN c, s <= n
             PROVE  /\ s \in DOMAIN a
                    /\ c[s].chargerID = a[s].chargerID /\ a[s].energy <= c[s].energy
                    /\ a[s].state = CompletedState => c[s] = a[s]
  BY DEF ComesOf
<1>1. /\ s \in DOMAIN b
      /\ c[s].chargerID = b[s].chargerID /\ b[s].energy <= c[s].energy
      /\ b[s].state = CompletedState => c[s] = b[s]
  BY DEF ComesOf
<1>2. /\ s \in DOMAIN a
      /\ b[s].chargerID = a[s].chargerID /\ a[s].energy <= b[s].energy
      /\ a[s].state = CompletedState => b[s] = a[s]
  BY <1>1 DEF ComesOf
<1>3. a[s].energy \in Nat /\ b[s].energy \in Nat /\ c[s].energy \in Nat
  BY <1>1, <1>2 DEF SessionsAre, IsRepository, SessionRecord
<1>4. QED
  BY <1>1, <1>2, <1>3

\* A chain of one state.
LEMMA ChainOfOne ==
  ASSUME NEW store, NEW n, NEW at, StoreIsRight(store, at)
  PROVE  Chain(<<store>>, n, at) /\ Latest(<<store>>) = store /\ <<store>>[1] = store
<1> DEFINE states == <<store>>
<1>1. /\ states \in Seq({store}) /\ Len(states) = 1 /\ states[1] = store
  OBVIOUS
<1> HIDE DEF states
<1>2. IsSequence(states)
  BY <1>1, SeqOfRange DEF IsSequence
<1>3. ComesOf(store.sessions, store.sessions, n)
  BY ComesOfItself DEF StoreIsRight
<1>4. Chain(states, n, at) /\ Latest(states) = store
  BY <1>1, <1>2, <1>3 DEF Chain, Latest
<1>5. QED
  BY <1>1, <1>4 DEF states

\* A chain that one write makes longer, or that stays as it is.
LEMMA LongerChain ==
  ASSUME NEW states, NEW store, NEW n, NEW at, NEW t, Chain(states, n, at),
         StoreIsRight(store, at), KnowsUpTo(Latest(states), n),
         ComesOf(Latest(states).sessions, store.sessions, n),
         t = Then(states, store)
  PROVE  Chain(t, n, at) /\ Latest(t) = store /\ t[1] = states[1]
<1>1. CASE store = Latest(states)
  BY <1>1 DEF Then
<1>2. CASE store # Latest(states)
  <2> DEFINE m == Len(states)
  <2>1. IsLongerBy(t, states, store) /\ IsSequence(states) /\ m >= 1
    BY <1>2 DEF Then, IsLongerBy, Chain
  <2>2. /\ IsSequence(t) /\ m \in Nat /\ Len(t) = m + 1 /\ t[m + 1] = store
        /\ \A i \in 1..m : t[i] = states[i]
    BY <2>1, AppendIsSequence
  <2>3. \A i \in 1..(m + 1) : StoreIsRight(t[i], at)
    BY <2>2 DEF Chain
  <2>4. ASSUME NEW i \in 1..(m + 1), NEW j \in 1..(m + 1), i <= j
        PROVE  ComesOf(t[i].sessions, t[j].sessions, n)
    <3>1. CASE j \in 1..m
      BY <2>2, <2>4, <3>1 DEF Chain
    <3>2. CASE i \in 1..m /\ j = m + 1
      <4>1. ComesOf(states[i].sessions, states[m].sessions, n)
        BY <2>1, <2>2, <3>2 DEF Chain
      <4>2. /\ SessionsAre(states[i].sessions, at) /\ SessionsAre(states[m].sessions, at)
            /\ SessionsAre(store.sessions, at)
        <5>1. m \in 1..m
          BY <2>1, <2>2
        <5>2. StoreIsRight(states[i], at) /\ StoreIsRight(states[m], at)
          BY <3>2, <5>1 DEF Chain
        <5>3. QED
          BY <5>2 DEF StoreIsRight
      <4>3. ComesOf(states[i].sessions, store.sessions, n)
        BY <4>1, <4>2, ComesOfLater DEF Latest
      <4>4. QED
        BY <2>2, <3>2, <4>3
    <3>3. CASE i = m + 1 /\ j = m + 1
      BY <2>2, <3>3, ComesOfItself DEF StoreIsRight
    <3>4. QED
      BY <2>2, <2>4, <3>1, <3>2, <3>3
  <2>5. \A i \in 1..m : KnowsUpTo(t[i], n)
    <3>1. \A i \in 1..m : i \in 1..(m - 1) \/ i = m
      BY <2>2
    <3>2. QED
      BY <2>2, <3>1 DEF Chain, Latest
  <2>6. Chain(t, n, at)
    <3>1. Len(t) >= 1 /\ Len(t) - 1 = m
      BY <2>2
    <3>2. QED
      BY <2>2, <2>3, <2>4, <2>5, <3>1 DEF Chain
  <2>7. QED
    BY <2>1, <2>2, <2>6 DEF Latest
<1>3. QED
  BY <1>1, <1>2

\* What is left of a chain after a write.
IsRest(t, states) == Len(states) # 1 /\ t = Tail(states)
IsOneOn(t, states) == \A i \in 1..Len(t) : i + 1 \in 1..Len(states) /\ t[i] = states[i + 1]

LEMMA ShorterChain ==
  ASSUME NEW states, NEW n, NEW at, NEW t, Chain(states, n, at), IsRest(t, states)
  PROVE  Chain(t, n, at) /\ Latest(t) = Latest(states) /\ IsOneOn(t, states)
<1> USE DEF IsRest, IsOneOn
<1> DEFINE m == Len(states)
<1>1. /\ states \in Seq(Range(states)) /\ m \in Nat /\ m >= 2
  <2>1. states \in Seq(Range(states)) /\ m >= 1 /\ m # 1
    BY DEF Chain, IsSequence
  <2>2. m \in Nat
    BY <2>1
  <2> HIDE DEF m
  <2>3. QED
    BY <2>1, <2>2
<1>2. /\ t \in Seq(Range(states)) /\ Len(t) = m - 1
      /\ \A i \in 1..(m - 1) : t[i] = states[i + 1]
  <2>1. states # << >>
    BY <1>1
  <2>2. QED
    BY <1>1, <2>1, HeadTailProperties
<1>3. \A i \in 1..(m - 1) : i + 1 \in 1..m
  BY <1>1
<1>4. IsSequence(t)
  BY <1>2, SeqOfRange DEF IsSequence
<1>5. \A i \in 1..(m - 2) : i + 1 \in 1..(m - 1) /\ i \in 1..(m - 1)
  BY <1>1
<1>6. \A i, j \in 1..(m - 1) : i <= j => i + 1 <= j + 1
  BY <1>1
<1>7. Len(t) >= 1 /\ Len(t) - 1 = m - 2 /\ Len(t) \in 1..(m - 1) /\ Len(t) + 1 = m
  BY <1>1, <1>2
<1> HIDE DEF m
<1>8. Chain(t, n, at)
  <2>1. \A i \in 1..Len(t) : StoreIsRight(t[i], at)
    BY <1>2, <1>3 DEF Chain, m
  <2>2. \A i, j \in 1..Len(t) : i <= j => ComesOf(t[i].sessions, t[j].sessions, n)
    BY <1>2, <1>3, <1>6 DEF Chain, m
  <2>3. \A i \in 1..(Len(t) - 1) : KnowsUpTo(t[i], n)
    BY <1>2, <1>5, <1>7 DEF Chain, m
  <2>4. QED
    BY <1>4, <1>7, <2>1, <2>2, <2>3 DEF Chain
<1>9. Latest(t) = Latest(states)
  BY <1>2, <1>7 DEF Latest, m
<1>10. QED
  BY <1>1, <1>2, <1>3, <1>8, <1>9 DEF m

\* What is right stays right as time goes on.
LEMMA ChainLater ==
  ASSUME NEW states, NEW n, NEW at \in Nat, NEW later \in Nat, at <= later, Chain(states, n, at)
  PROVE  Chain(states, n, later)
<1>1. ASSUME NEW store, StoreIsRight(store, at) PROVE StoreIsRight(store, later)
  <2>1. SessionsAre(store.sessions, later)
    BY <1>1 DEF StoreIsRight, SessionsAre, IsRepository, SessionRecord
  <2>2. \A d \in DOMAIN store.cdrs : IsCDR(store.cdrs[d], later)
    BY <1>1 DEF StoreIsRight, IsCDR
  <2>3. QED
    BY <1>1, <2>1, <2>2 DEF StoreIsRight
<1>2. QED
  BY <1>1 DEF Chain

(***************************************************************************)
(* What a poll knows.                                                      *)
(***************************************************************************)
PlacesOfPoll == {"cdrs", "chargers", "levels", "sessions", "clock", "sent"}

\* The chargers that were listed with a session.
Holders == {id \in DOMAIN poll.chargers : poll.chargers[id].session # NoSession}

\* The sessions that the poll has read of before it lists the sessions.
Named == {poll.cdrs[d].sessionID : d \in DOMAIN poll.cdrs}
           \cup {poll.chargers[id].session : id \in Holders}

\* A poll, written out.
PollOf(at, cdrs, chs, todo, levels, sessions, time, low) ==
  [at |-> at, cdrs |-> cdrs, chargers |-> chs, todo |-> todo, levels |-> levels,
   sessions |-> sessions, clock |-> time, low |-> low]

PollTypeOK ==
  /\ poll = PollOf(poll.at, poll.cdrs, poll.chargers, poll.todo, poll.levels, poll.sessions,
                   poll.clock, poll.low)
  /\ poll.at \in PlacesOfPoll
  /\ \A d \in DOMAIN poll.cdrs : IsCDR(poll.cdrs[d], now)
  /\ \A id \in DOMAIN poll.chargers : IsCharger(poll.chargers[id])
  /\ \A id \in DOMAIN poll.low : poll.low[id] \in Nat
  /\ \A id \in Holders \cap DOMAIN poll.levels : poll.levels[id] \in Nat
  /\ SessionsAre(poll.sessions, now)

\* How far it has come with the levels.
LevelsAreRead ==
  /\ poll.at \in {"cdrs", "chargers"} => DOMAIN poll.chargers = {}
  /\ poll.at = "levels" =>
       /\ poll.todo \subseteq Holders
       /\ DOMAIN poll.chargers = DOMAIN poll.levels \cup poll.todo
  /\ poll.at \in {"sessions", "clock", "sent"} => DOMAIN poll.levels = DOMAIN poll.chargers

\* What it has read fits the sessions as they are.
PollFits(sessions) ==
  /\ \A d \in DOMAIN poll.cdrs : BillFits(poll.cdrs[d], sessions)
  /\ \A id \in Holders :
       LET s == poll.chargers[id].session
       IN  /\ HolderFits(id, s, sessions)
           /\ s \in DOMAIN sessions =>
                LET level == LevelAfter(poll.chargers[id].vehicle, sessions[s].energy)
                IN  /\ id \in DOMAIN poll.low => poll.low[id] <= level
                    /\ id \in DOMAIN poll.levels => poll.levels[id] <= level

\* A session that is stored nowhere any more.
IsGone(s) == \A i \in 1..Len(stores) : s \notin DOMAIN stores[i].sessions

\* A level is not below what it was, unless its session is gone.
LevelsAreReal ==
  \A id \in DOMAIN poll.levels \cap DOMAIN poll.low :
    /\ id \in DOMAIN poll.chargers
    /\ id \in Holders => poll.low[id] <= poll.levels[id] \/ IsGone(poll.chargers[id].session)
    /\ id \notin Holders => poll.low[id] = poll.levels[id]

PollIsRight(n) ==
  /\ PollTypeOK /\ LevelsAreRead /\ LevelsAreReal
  /\ \A s \in Named : s <= n
  /\ \A i \in 1..Len(stores) : PollFits(stores[i].sessions)
  /\ poll.at \in {"clock", "sent"} =>
       /\ PollFits(poll.sessions)
       /\ \A s \in Named \ DOMAIN poll.sessions : IsGone(s)
  /\ poll.at = "sent" => poll.clock = now

Final == [sessions |-> ledger.sessions, cdrs |-> ledger.cdrs, chargers |-> chargers]

ViewInvAt(n) ==
  /\ n \in Nat /\ n <= ledger.lastSessionID
  /\ IInv /\ ClockTypeOK /\ now = SimulatedNow
  /\ Chain(stores, n, now) /\ Latest(stores) = Final
  /\ PollIsRight(n)

ViewInv == \E n \in Nat : ViewInvAt(n)

(***************************************************************************)
(* Writing.                                                                *)
(***************************************************************************)

\* A state of the repositories, written out.
StoreOf(sessions, cdrs, chs) == [sessions |-> sessions, cdrs |-> cdrs, chargers |-> chs]

IsStore(store) == store = StoreOf(store.sessions, store.cdrs, store.chargers)

\* What one write of each repository leaves.
LEMMA OneWrite ==
  ASSUME NEW store, IsStore(store), NEW new
  PROVE  /\ [store EXCEPT !.sessions = new] = StoreOf(new, store.cdrs, store.chargers)
         /\ [store EXCEPT !.cdrs = new] = StoreOf(store.sessions, new, store.chargers)
         /\ [store EXCEPT !.chargers = new] = StoreOf(store.sessions, store.cdrs, new)
  BY DEF IsStore, StoreOf

\* A state that is written out has the parts it is written with.
LEMMA StoreParts ==
  ASSUME NEW s, NEW c, NEW h, NEW store, store = StoreOf(s, c, h)
  PROVE  IsStore(store) /\ store.sessions = s /\ store.cdrs = c /\ store.chargers = h
  BY DEF IsStore, StoreOf

\* What is right of each repository, and between them, is right of all.
LEMMA StoreIsRightIf ==
  ASSUME NEW s, NEW c, NEW h, NEW at, NEW store, store = StoreOf(s, c, h), SessionsAre(s, at),
         \A d \in DOMAIN c : IsCDR(c[d], at) /\ BillFits(c[d], s),
         \A id \in DOMAIN h :
           IsCharger(h[id]) /\ (h[id].session # NoSession => HolderFits(id, h[id].session, s))
  PROVE  StoreIsRight(store, at)
<1>1. IsStore(store) /\ store.sessions = s /\ store.cdrs = c /\ store.chargers = h
  BY StoreParts
<1>2. store = [sessions |-> store.sessions, cdrs |-> store.cdrs, chargers |-> store.chargers]
  BY <1>1 DEF IsStore, StoreOf
<1>3. QED
  BY <1>1, <1>2 DEF StoreIsRight

\* A state that is right is one.
LEMMA RightIsStore ==
  ASSUME NEW store, NEW at, StoreIsRight(store, at)
  PROVE  IsStore(store)
  BY DEF StoreIsRight, IsStore, StoreOf

\* What a bill and a charger say of a session stays true of what becomes of it.
LEMMA FitsLater ==
  ASSUME NEW a, NEW b, NEW n, ComesOf(a, b, n)
  PROVE  /\ \A cdr : cdr.sessionID <= n /\ BillFits(cdr, a) => BillFits(cdr, b)
         /\ \A id, s : s <= n /\ HolderFits(id, s, a) => HolderFits(id, s, b)
  BY DEF ComesOf, BillFits, HolderFits

\* The sessions are written.
LEMMA SessionsAreWritten ==
  ASSUME NEW store, NEW at, NEW n, NEW sessions, StoreIsRight(store, at), KnowsUpTo(store, n),
         SessionsAre(sessions, at), ComesOf(store.sessions, sessions, n)
  PROVE  LET new == [store EXCEPT !.sessions = sessions]
         IN  /\ StoreIsRight(new, at) /\ KnowsUpTo(new, n) /\ new.sessions = sessions
             /\ new.cdrs = store.cdrs /\ new.chargers = store.chargers
<1> DEFINE new == [store EXCEPT !.sessions = sessions]
<1>1. new = StoreOf(sessions, store.cdrs, store.chargers)
  BY RightIsStore, OneWrite
<1>2. \A d \in DOMAIN store.cdrs : IsCDR(store.cdrs[d], at) /\ BillFits(store.cdrs[d], sessions)
  BY FitsLater DEF StoreIsRight, KnowsUpTo
<1>3. \A id \in DOMAIN store.chargers :
        /\ IsCharger(store.chargers[id])
        /\ store.chargers[id].session # NoSession =>
             HolderFits(id, store.chargers[id].session, sessions)
  BY FitsLater DEF StoreIsRight, KnowsUpTo
<1> HIDE DEF new
<1>4. StoreIsRight(new, at)
  BY <1>1, <1>2, <1>3, StoreIsRightIf
<1>5. /\ new.sessions = sessions /\ new.cdrs = store.cdrs /\ new.chargers = store.chargers
  BY <1>1, StoreParts
<1>6. QED
  BY <1>4, <1>5 DEF KnowsUpTo, new

\* The CDRs are written.
LEMMA CDRsAreWritten ==
  ASSUME NEW store, NEW at, NEW n, NEW cdrs, StoreIsRight(store, at), KnowsUpTo(store, n),
         \A d \in DOMAIN cdrs :
           IsCDR(cdrs[d], at) /\ BillFits(cdrs[d], store.sessions) /\ cdrs[d].sessionID <= n
  PROVE  LET new == [store EXCEPT !.cdrs = cdrs]
         IN  /\ StoreIsRight(new, at) /\ KnowsUpTo(new, n) /\ new.sessions = store.sessions
             /\ new.cdrs = cdrs /\ new.chargers = store.chargers
<1> DEFINE new == [store EXCEPT !.cdrs = cdrs]
<1>1. new = StoreOf(store.sessions, cdrs, store.chargers)
  BY RightIsStore, OneWrite
<1>2. SessionsAre(store.sessions, at)
  BY DEF StoreIsRight
<1>3. \A id \in DOMAIN store.chargers :
        /\ IsCharger(store.chargers[id])
        /\ store.chargers[id].session # NoSession =>
             HolderFits(id, store.chargers[id].session, store.sessions)
  BY DEF StoreIsRight
<1> HIDE DEF new
<1>4. StoreIsRight(new, at)
  BY <1>1, <1>2, <1>3, StoreIsRightIf
<1>5. /\ new.sessions = store.sessions /\ new.cdrs = cdrs /\ new.chargers = store.chargers
  BY <1>1, StoreParts
<1>6. QED
  BY <1>4, <1>5 DEF KnowsUpTo, new

\* What the ledger and the chargers say between handlers is right,
LEMMA FinalIsRight ==
  IInv /\ SessionsAre(ledger.sessions, now) => StoreIsRight(Final, now)
<1> SUFFICES ASSUME IInv, SessionsAre(ledger.sessions, now) PROVE StoreIsRight(Final, now)
  OBVIOUS
<1> DEFINE s == ledger.sessions
<1>1. Final = StoreOf(s, ledger.cdrs, chargers)
  BY DEF Final, StoreOf
<1>2. ASSUME NEW d \in DOMAIN ledger.cdrs
      PROVE  IsCDR(ledger.cdrs[d], now) /\ BillFits(ledger.cdrs[d], s)
  <2> DEFINE sid == ledger.cdrs[d].sessionID
  <2>1. /\ sid \in CompletedSessions(ledger) /\ ledger.cdrs[d] = CDROf(sid, s[sid])
        /\ ledger.cdrs[d] \in CDRRecord
    BY DEF IInv, LedgerIsRight, CDRsBillSessions, IsLedger, IsRepository
  <2>2. ledger.cdrs[d].endedAt = s[sid].endedAt
    BY <2>1 DEF CDROf
  <2>3. sid \in DOMAIN s /\ s[sid].state = CompletedState
    BY <2>1 DEF CompletedSessions, InState
  <2>4. QED
    BY <2>1, <2>2, <2>3 DEF IsCDR, BillFits, SessionsAre, CDRRecord
<1>3. ASSUME NEW id \in DOMAIN chargers
      PROVE  /\ IsCharger(chargers[id])
             /\ chargers[id].session # NoSession => HolderFits(id, chargers[id].session, s)
  <2>1. chargers[id] \in ChargerRecord /\ Shape(chargers[id])
    BY ChargerIs
  <2>2. IsCharger(chargers[id])
    BY <2>1 DEF IsCharger, ChargerRecord, Shape
  <2>3. QED
    BY <2>2, ChargingCharger DEF HolderFits
<1>4. QED
  BY <1>1, <1>2, <1>3, StoreIsRightIf

\* and names no session that has not been started.
LEMMA FinalKnows == IInv => KnowsUpTo(Final, ledger.lastSessionID)
<1> SUFFICES ASSUME IInv PROVE KnowsUpTo(Final, ledger.lastSessionID)
  OBVIOUS
<1>1. /\ Final.cdrs = ledger.cdrs /\ Final.chargers = chargers
      /\ ledger.lastSessionID \in Nat /\ DOMAIN ledger.sessions \subseteq 1..ledger.lastSessionID
  BY DEF Final, IInv, TypeOK, IsLedger, IsRepository
<1>2. \A d \in DOMAIN ledger.cdrs : ledger.cdrs[d].sessionID \in DOMAIN ledger.sessions
  BY DEF IInv, LedgerIsRight, CDRsBillSessions, CompletedSessions, InState
<1>3. \A id \in DOMAIN chargers :
        chargers[id].session # NoSession => chargers[id].session \in DOMAIN ledger.sessions
  BY ChargingCharger DEF ActiveSessions, InState
<1>4. QED
  BY <1>1, <1>2, <1>3 DEF KnowsUpTo, NoSession

(***************************************************************************)
(* What a handler of the controllers calls, and what it leaves.            *)
(***************************************************************************)

\* The last call that a handler makes publishes a charger.
IsStoredLast(l) == \E event : event.topic = "charger" /\ ledger' = Publish(l, event)

\* What a handler makes of the ledger, whatever it is for.
WhatIsCalled ==
  /\ UNCHANGED now
  /\ \/ ledger' = Fresh(ledger)
     \/ IsStoredLast(Fresh(ledger))
     \/ \E id \in Int, price \in Nat : IsStoredLast(StartSession(Fresh(ledger), id, price, now))
     \/ \E s \in ActiveSessions(ledger), energy \in Nat :
          LET metered == RecordSessionProgress(Fresh(ledger), s, energy, now)
          IN  \/ ledger' = metered
              \/ \E reason \in StopReasons : IsStoredLast(StopSession(metered, s, reason, now))

\* A charger that is stored is published.
LEMMA StoredLast ==
  ASSUME NEW l, NEW id, NEW charger, UpdateCharger(l, id, charger)
  PROVE  IsStoredLast(l)
<1>1. ChargerEvent(id, charger.state).topic = "charger"
  BY DEF ChargerEvent
<1>2. QED
  BY <1>1 DEF UpdateCharger, IsStoredLast

\* What ends a session is the meter, the session controller and the charger, in this order.
LEMMA CalledToEnd ==
  ASSUME IInv, UNCHANGED now, NEW id \in DOMAIN chargers, chargers[id].session # NoSession,
         NEW elapsed \in Nat, NEW at \in Nat,
         ledger.sessions[chargers[id].session].startedAt <= at,
         NEW reason \in StopReasons, NEW nextState,
         \/ EndSession(Metered(chargers[id], elapsed, at), id, reason, nextState)
         \/ ledger' = Metered(chargers[id], elapsed, at)
  PROVE  WhatIsCalled
<1> DEFINE s       == chargers[id].session
           energy  == ReadMeter(chargers[id], elapsed, at).energy
           metered == RecordSessionProgress(Fresh(ledger), s, energy, now)
<1>1. s \in ActiveSessions(ledger) /\ energy \in Nat
  BY ChargingCharger, MeteredAdds
<1>2. metered = Metered(chargers[id], elapsed, at)
  BY DEF Metered
<1> HIDE DEF energy
<1>3. CASE ledger' = metered
  <2> HIDE DEF s
  <2>1. QED
    BY <1>1, <1>3 DEF WhatIsCalled
<1>4. CASE EndSession(metered, id, reason, nextState)
  <2>1. IsStoredLast(StopSession(metered, s, reason, now))
    BY <1>4, StoredLast DEF EndSession
  <2> HIDE DEF s
  <2>2. QED
    BY <1>1, <2>1 DEF WhatIsCalled
<1>5. QED
  BY <1>2, <1>3, <1>4

\* Between ticks the meter has run since the last one.
LEMMA CalledToStop ==
  ASSUME IInv, UNCHANGED now, NEW id \in DOMAIN chargers, chargers[id].session # NoSession,
         NEW reason \in StopReasons, NEW nextState,
         EndSession(MeteredSinceLastTick(chargers[id]), id, reason, nextState)
  PROVE  WhatIsCalled
<1>1. now - lastTickAt \in Nat /\ now \in Nat
  BY DEF IInv, TypeOK, TimesAreInOrder
<1>2. ledger.sessions[chargers[id].session].startedAt <= now
  BY ChargingCharger
<1>3. QED
  BY <1>1, <1>2, CalledToEnd DEF MeteredSinceLastTick

\* Managing chargers touches no session.
LEMMA CalledToManage ==
  ASSUME IInv, Manage
  PROVE  WhatIsCalled
<1>1. ASSUME NEW id \in DOMAIN chargers, RemoveCharger(id) PROVE WhatIsCalled
  <2>1. ChargerEvent(id, "REMOVED").topic = "charger"
    BY DEF ChargerEvent
  <2>2. QED
    BY <1>1, <2>1 DEF RemoveCharger, WhatIsCalled, IsStoredLast
<1>2. QED
  BY <1>1, StoredLast DEF Manage, AddCharger, AddNamedCharger, UpdateBehaviors, WhatIsCalled

\* What a person does touches no session, or ends one.
LEMMA CalledByPerson ==
  ASSUME IInv, PersonActs
  PROVE  WhatIsCalled
<1>1. ASSUME NEW id \in DOMAIN chargers, PressStopButton(id) PROVE WhatIsCalled
  BY <1>1, CalledToStop DEF PressStopButton, StopReasons
<1>2. ASSUME NEW id \in DOMAIN chargers, InjectFault(id) PROVE WhatIsCalled
  <2>1. CASE chargers[id].session # NoSession
    BY <1>2, <2>1, CalledToStop DEF InjectFault, StopReasons
  <2>2. CASE chargers[id].session = NoSession
    BY <1>2, <2>2, StoredLast DEF InjectFault, WhatIsCalled
  <2>3. QED
    BY <2>1, <2>2
<1>3. QED
  BY <1>1, <1>2, StoredLast DEF PersonActs, PlugIn, Unplug, ClearFault, WhatIsCalled

\* A remote call touches no session, starts one or ends one.
LEMMA CalledRemotely ==
  ASSUME IInv, Remote
  PROVE  WhatIsCalled
<1>1. ASSUME NEW id \in DOMAIN chargers, StartCharging(id) PROVE WhatIsCalled
  <2>1. id \in Int /\ chargers[id].pricePerUnit \in Nat
    BY ChargerIs DEF ChargerRecord
  <2>2. IsStoredLast(StartSession(Fresh(ledger), id, chargers[id].pricePerUnit, now))
    BY <1>1, StoredLast DEF StartCharging
  <2>3. QED
    BY <1>1, <2>1, <2>2 DEF StartCharging, WhatIsCalled
<1>2. ASSUME NEW s \in DOMAIN ledger.sessions, StopCharging(s) PROVE WhatIsCalled
  <2> DEFINE id == ledger.sessions[s].chargerID
  <2>1. s # NoSession
    BY DEF IInv, TypeOK, IsLedger, IsRepository, NoSession
  <2>2. id \in DOMAIN chargers /\ chargers[id].session # NoSession
    BY <1>2, <2>1 DEF StopCharging, CanStop
  <2>3. UNCHANGED now /\ EndSession(MeteredSinceLastTick(chargers[id]), id, "REMOTE", "FINISHING")
    BY <1>2 DEF StopCharging
  <2> HIDE DEF id
  <2>4. QED
    BY <2>2, <2>3, CalledToStop DEF StopReasons
<1>3. ASSUME NEW id \in DOMAIN chargers, UnlockConnector(id) PROVE WhatIsCalled
  BY <1>3, StoredLast DEF UnlockConnector, WhatIsCalled
<1>4. QED
  BY <1>1, <1>2, <1>3 DEF Remote

\* A turn of the tick meters a session, and may end it.
LEMMA CalledByTick ==
  ASSUME IInv, TickLoop
  PROVE  WhatIsCalled
<1>1. CASE TickBegins
  BY <1>1 DEF TickBegins, WhatIsCalled
<1>2. ASSUME NEW id \in tick.todo, NEW roll \in Rolls, AdvanceCharging(id, roll)
      PROVE  WhatIsCalled
  <2>1. id \in DOMAIN chargers /\ chargers[id].session # NoSession
    BY ShapeIsChargerShape DEF IInv, TypeOK, TickListIsCurrent, Shape
  <2>2. /\ tick.elapsed \in Nat /\ tick.at \in Nat
        /\ ledger.sessions[chargers[id].session].startedAt <= tick.at
    BY DEF IInv, TypeOK, TimesAreInOrder
  <2>3. /\ UNCHANGED now
        /\ \/ EndSession(Metered(chargers[id], tick.elapsed, tick.at), id, "VEHICLE_FULL",
                         "FINISHING")
           \/ EndSession(Metered(chargers[id], tick.elapsed, tick.at), id, "FAULT", "FAULTED")
           \/ ledger' = Metered(chargers[id], tick.elapsed, tick.at)
    BY <1>2 DEF AdvanceCharging
  <2>4. QED
    BY <2>1, <2>2, <2>3, CalledToEnd DEF StopReasons
<1>3. QED
  BY <1>1, <1>2 DEF TickLoop

\* A call that announces the end of a session.
Announces(event) == event.topic = "session" /\ event.session.state = CompletedState

\* One more call is one more end, or none, and those before stay where they are.
LEMMA OneMoreEnd ==
  ASSUME NEW s, NEW e, NEW t, IsSequence(s), IsLongerBy(t, s, e)
  PROVE  /\ IsSequence(t) /\ Len(s) \in Nat /\ Len(t) = Len(s) + 1 /\ t[Len(s) + 1] = e
         /\ \A i \in 1..Len(s) : t[i] = s[i]
         /\ EndsAt(s) \subseteq 1..Len(s)
         /\ ~Announces(e) => EndsAt(t) = EndsAt(s)
         /\ Announces(e) => EndsAt(t) = EndsAt(s) \cup {Len(s) + 1}
<1>1. /\ IsSequence(t) /\ Len(s) \in Nat /\ Len(t) = Len(s) + 1
      /\ DOMAIN s = 1..Len(s) /\ DOMAIN t = 1..(Len(s) + 1)
      /\ \A i \in 1..Len(s) : t[i] = s[i]
      /\ t[Len(s) + 1] = e
  BY AppendIsSequence
<1>2. \A i : i \in EndsAt(t) <=> i \in EndsAt(s) \/ (Announces(e) /\ i = Len(s) + 1)
  BY <1>1 DEF EndsAt, Announces
<1>3. EndsAt(s) \subseteq 1..Len(s)
  BY <1>1 DEF EndsAt
<1>4. QED
  BY <1>1, <1>2, <1>3

\* No call, no end.
LEMMA NoCallNoEnd == EndsAt(<< >>) = {}
<1>1. DOMAIN << >> = {}
  OBVIOUS
<1>2. QED
  BY <1>1 DEF EndsAt

\* What an event that is not published by the end of a session is.
LEMMA NoAnnouncement ==
  ASSUME NEW id, NEW session, session.state = ActiveState, NEW cdr, NEW event,
         event.topic = "charger"
  PROVE  ~Announces(SessionEvent(id, session)) /\ ~Announces(CDREvent(id, cdr)) /\ ~Announces(event)
  BY DEF Announces, SessionEvent, CDREvent, ActiveState, CompletedState

\* The record of a session that is metered.
LEMMA ProgressedIs ==
  ASSUME NEW session \in SessionRecord, NEW energy \in Nat, NEW at \in Nat
  PROVE  LET new == Progressed(session, energy, at)
         IN  /\ new \in SessionRecord /\ new.state = session.state
             /\ new.chargerID = session.chargerID /\ new.energy = session.energy + energy
             /\ new.updatedAt = at /\ new.endedAt = session.endedAt
<1>1. LET new == Progressed(session, energy, at)
      IN  new.energy = session.energy + energy /\ new.endedAt = session.endedAt
  BY DEF Progressed, WithCost, SessionRecord
<1>2. QED
  BY <1>1, ProgressedType

\* The record of a session that has ended.
LEMMA EndedIs ==
  ASSUME NEW session \in SessionRecord, NEW reason \in StopReasons, NEW at \in Nat
  PROVE  LET new == Ended(session, reason, at)
         IN  /\ new \in SessionRecord /\ new.state = CompletedState
             /\ new.chargerID = session.chargerID /\ new.energy = session.energy
             /\ new.updatedAt = at /\ new.endedAt = at
<1> DEFINE new == Ended(session, reason, at)
<1>1. new \in SessionRecord /\ new.state = CompletedState /\ new.updatedAt = at
  <2>1. 0 \in Nat
    OBVIOUS
  <2>2. QED
    BY <2>1, EndedType
<1>2. CDROf(0, new).chargerID = session.chargerID /\ CDROf(0, new).energy = session.energy
  BY EndedIsBilled
<1>3. new.chargerID = session.chargerID /\ new.energy = session.energy
  BY <1>2 DEF CDROf
<1> DEFINE stopped == [session EXCEPT !.endedAt = at, !.state = CompletedState,
                                      !.stopReason = reason, !.updatedAt = at]
<1>4. new.endedAt = at
  <2>1. DOMAIN stopped = DOMAIN session /\ stopped.endedAt = at
    BY DEF SessionRecord
  <2>2. "endedAt" \in DOMAIN session
    BY DEF SessionRecord
  <2> HIDE DEF stopped
  <2>3. WithCost(stopped).endedAt = stopped.endedAt
    BY <2>1, <2>2 DEF WithCost
  <2>4. new = WithCost(stopped)
    BY DEF Ended, stopped
  <2>5. QED
    BY <2>1, <2>3, <2>4
<1>5. QED
  BY <1>1, <1>3, <1>4

\* A session that is metered is all that changes.
LEMMA RecordLeaves ==
  ASSUME NEW l, NEW id \in ActiveSessions(l), NEW energy \in Nat, NEW at \in Nat,
         LedgerIsRight(l)
  PROVE  LET n   == RecordSessionProgress(l, id, energy, at)
             new == Progressed(l.sessions[id], energy, at)
         IN  /\ n.sessions = Upsert(l.sessions, id, new)
             /\ n.cdrs = l.cdrs /\ n.lastSessionID = l.lastSessionID
             /\ n.events = l.events \/ IsLongerBy(n.events, l.events, SessionEvent(id, new))
<1> DEFINE n    == RecordSessionProgress(l, id, energy, at)
           new  == Progressed(l.sessions[id], energy, at)
           said == Append(l.events, SessionEvent(id, new))
<1>1. IsLedgerRecord(l) /\ l.sessions[id] \in SessionRecord
  BY DEF LedgerIsRight, IsLedger, IsLedgerRecord, LedgerOf, ActiveSessions, InState, IsRepository
<1>2. new.updatedAt = at
  BY <1>1, ProgressedType
<1>3. \/ n = LedgerOf(Upsert(l.sessions, id, new), l.cdrs, l.lastPublishedAt,
                      l.lastSessionID, l.lastCDRID, l.events)
      \/ n = LedgerOf(Upsert(l.sessions, id, new), l.cdrs, Upsert(l.lastPublishedAt, id, at),
                      l.lastSessionID, l.lastCDRID, said)
  <2>1. new = Progressed(l.sessions[id], energy, at)
    OBVIOUS
  <2> HIDE DEF new
  <2>2. QED
    BY <1>1, <1>2, <2>1, RecordSessionProgressIs
<1> HIDE DEF n, new, said
<1>4. /\ n.sessions = Upsert(l.sessions, id, new)
      /\ n.cdrs = l.cdrs /\ n.lastSessionID = l.lastSessionID
      /\ n.events = l.events \/ n.events = said
  BY <1>3, LedgerParts
<1>5. QED
  BY <1>4 DEF IsLongerBy, n, new, said

\* A session that starts is all that changes.
LEMMA StartLeaves ==
  ASSUME NEW l, NEW chargerID \in Int, NEW price \in Nat, NEW at \in Nat, LedgerIsRight(l)
  PROVE  LET n   == StartSession(l, chargerID, price, at)
             id  == l.lastSessionID + 1
             new == NewSession(chargerID, price, at)
         IN  /\ n.sessions = Upsert(l.sessions, id, new)
             /\ n.cdrs = l.cdrs /\ n.lastSessionID = id
             /\ IsLongerBy(n.events, l.events, SessionEvent(id, new))
<1> DEFINE n    == StartSession(l, chargerID, price, at)
           id   == l.lastSessionID + 1
           new  == NewSession(chargerID, price, at)
           said == Append(l.events, SessionEvent(id, new))
<1>1. n = LedgerOf(Upsert(l.sessions, id, new), l.cdrs, Upsert(l.lastPublishedAt, id, at), id,
                   l.lastCDRID, said)
  BY StartSessionIs DEF LedgerIsRight, IsLedger, IsLedgerRecord, LedgerOf
<1> HIDE DEF n, new, said
<1>2. /\ n.sessions = Upsert(l.sessions, id, new)
      /\ n.cdrs = l.cdrs /\ n.lastSessionID = id /\ n.events = said
  BY <1>1, LedgerParts
<1>3. QED
  BY <1>2 DEF IsLongerBy, n, new, said

\* A session that stops is completed and billed; what else changes is that sessions are dropped.
LEMMA StopLeavesSessions ==
  ASSUME NEW l, NEW id \in ActiveSessions(l), NEW reason \in StopReasons, NEW at \in Nat,
         LedgerIsRight(l)
  PROVE  LET n   == StopSession(l, id, reason, at)
             new == Ended(l.sessions[id], reason, at)
         IN  /\ \E ids : n.sessions = DeleteAll(Upsert(l.sessions, id, new), ids)
             /\ n.lastSessionID = l.lastSessionID /\ n.events = StopEvents(l, id, new)
<1> DEFINE n    == StopSession(l, id, reason, at)
           new  == Ended(l.sessions[id], reason, at)
           cdrs == Upsert(l.cdrs, l.lastCDRID + 1, CDROf(id, new))
<1>1. IsLedgerRecord(l) /\ id \in Nat /\ l.sessions[id] \in SessionRecord
  BY DEF LedgerIsRight, IsLedger, IsLedgerRecord, LedgerOf, ActiveSessions, InState, IsRepository
<1>2. new.updatedAt = at
  BY <1>1, EndedType
<1>3. PICK ids : StopLeaves(n, l, id, new, at, ids)
  <2>1. new = Ended(l.sessions[id], reason, at)
    OBVIOUS
  <2> HIDE DEF new
  <2>2. QED
    BY <1>1, <1>2, <2>1, StopSessionIs
<1> HIDE DEF n, new
<1>4. /\ n.sessions = DeleteAll(Upsert(l.sessions, id, new), ids)
      /\ n.lastSessionID = l.lastSessionID /\ n.events = StopEvents(l, id, new)
  <2> DEFINE sessions == Upsert(l.sessions, id, new)
  <2>1. n = LedgerOf(DeleteAll(sessions, ids), DeleteAll(cdrs, CDRsOf(cdrs, ids)),
                     DeleteAll(Upsert(l.lastPublishedAt, id, at), {id}),
                     l.lastSessionID, l.lastCDRID + 1, StopEvents(l, id, new))
    BY <1>3 DEF StopLeaves
  <2> HIDE DEF sessions, cdrs
  <2>2. n.sessions = DeleteAll(sessions, ids) /\ n.lastSessionID = l.lastSessionID
        /\ n.events = StopEvents(l, id, new)
    BY <2>1, LedgerParts
  <2>3. QED
    BY <2>2 DEF sessions
<1>5. QED
  BY <1>4 DEF n, new

\* A session that is active is stored anew,
LEMMA UpsertComes ==
  ASSUME NEW a, NEW at, NEW n, SessionsAre(a, at), NEW id \in DOMAIN a,
         a[id].state = ActiveState, NEW new \in SessionRecord, new.chargerID = a[id].chargerID,
         a[id].energy <= new.energy, new.updatedAt <= at, new.endedAt <= at
  PROVE  SessionsAre(Upsert(a, id, new), at) /\ ComesOf(a, Upsert(a, id, new), n)
<1>1. /\ DOMAIN Upsert(a, id, new) = DOMAIN a /\ Upsert(a, id, new)[id] = new
      /\ \A x \in DOMAIN a : x # id => Upsert(a, id, new)[x] = a[x]
  BY DEF Upsert
<1>2. IsRepository(Upsert(a, id, new), Nat, SessionRecord)
  BY DEF SessionsAre, IsRepository, Upsert
<1>3. ComesOf(a, a, n)
  BY ComesOfItself
<1>4. ComesOf(a, Upsert(a, id, new), n)
  BY <1>1, <1>3 DEF ComesOf, ActiveState, CompletedState
<1>5. QED
  BY <1>1, <1>2, <1>4 DEF SessionsAre

\* one that starts is added,
LEMMA StartComes ==
  ASSUME NEW a, NEW at, NEW n \in Nat, SessionsAre(a, at), NEW new \in SessionRecord,
         n + 1 \notin DOMAIN a, new.updatedAt <= at, new.endedAt <= at
  PROVE  SessionsAre(Upsert(a, n + 1, new), at) /\ ComesOf(a, Upsert(a, n + 1, new), n)
<1>1. /\ DOMAIN Upsert(a, n + 1, new) = DOMAIN a \cup {n + 1}
      /\ Upsert(a, n + 1, new)[n + 1] = new
      /\ \A x \in DOMAIN a : x # n + 1 => Upsert(a, n + 1, new)[x] = a[x]
  BY DEF Upsert
<1>2. IsRepository(Upsert(a, n + 1, new), Nat, SessionRecord)
  BY DEF SessionsAre, IsRepository, Upsert
<1>3. ComesOf(a, a, n)
  BY ComesOfItself
<1>4. ComesOf(a, Upsert(a, n + 1, new), n)
  <2>1. ~(n + 1 <= n)
    OBVIOUS
  <2>2. QED
    BY <1>1, <1>3, <2>1 DEF ComesOf
<1>5. QED
  BY <1>1, <1>2, <1>4 DEF SessionsAre

\* and some are dropped.
LEMMA DropComes ==
  ASSUME NEW a, NEW at, NEW n, SessionsAre(a, at), NEW ids
  PROVE  SessionsAre(DeleteAll(a, ids), at) /\ ComesOf(a, DeleteAll(a, ids), n)
<1>1. /\ DOMAIN DeleteAll(a, ids) = DOMAIN a \ ids
      /\ \A x \in DOMAIN a \ ids : DeleteAll(a, ids)[x] = a[x]
  BY DeleteLookup
<1>2. IsRepository(DeleteAll(a, ids), Nat, SessionRecord)
  BY DeleteType DEF SessionsAre
<1>3. ComesOf(a, a, n)
  BY ComesOfItself
<1>4. QED
  BY <1>1, <1>2, <1>3 DEF SessionsAre, ComesOf

\* What is stored twice is stored as the second time.
LEMMA UpsertAgain ==
  ASSUME NEW a, NEW id, NEW x, NEW y
  PROVE  Upsert(Upsert(a, id, x), id, y) = Upsert(a, id, y)
  BY DEF Upsert

\* A handler that ends no session.
NothingEnds ==
  /\ EndsAt(ledger'.events) = {}
  /\ SessionsAre(ledger'.sessions, now)
  /\ ComesOf(ledger.sessions, ledger'.sessions, ledger.lastSessionID)
  /\ ledger'.cdrs = ledger.cdrs

\* A handler that ends the session s, so that it is as ended says, and announces it at i.
Ends(i, s, ended) ==
  /\ EndsAt(ledger'.events) = {i} /\ ledger'.events[i] = SessionEvent(s, ended)
  /\ \E d : ledger'.events[i + 1] = CDREvent(d, CDROf(s, ended))
  /\ s \in DOMAIN ledger.sessions /\ ledger.sessions[s].state = ActiveState
  /\ ended \in SessionRecord /\ ended.state = CompletedState
  /\ ended.chargerID = ledger.sessions[s].chargerID
  /\ ledger.sessions[s].energy <= ended.energy
  /\ ended.updatedAt = now /\ ended.endedAt = now
  /\ \E ids : ledger'.sessions = DeleteAll(Upsert(ledger.sessions, s, ended), ids)
  /\ ledger'.lastSessionID = ledger.lastSessionID

\* The ledger before a handler has made a call.
LEMMA BeforeTheCalls ==
  ASSUME IInv
  PROVE  /\ LedgerIsRight(Fresh(ledger))
         /\ Fresh(ledger).sessions = ledger.sessions /\ Fresh(ledger).cdrs = ledger.cdrs
         /\ Fresh(ledger).lastSessionID = ledger.lastSessionID
         /\ IsSequence(Fresh(ledger).events) /\ EndsAt(Fresh(ledger).events) = {}
         /\ ActiveSessions(Fresh(ledger)) = ActiveSessions(ledger)
<1>1. IsLedgerRecord(ledger)
  BY DEF IInv, LedgerIsRight, IsLedger, IsLedgerRecord, LedgerOf
<1>2. Fresh(ledger).cdrs = ledger.cdrs
  BY <1>1, FreshIs, LedgerParts
<1>3. QED
  BY <1>2, FreshSame, FreshIsSilent, NoCallNoEnd DEF SameSessions, NoneStartsOrStops

\* The charger that is published last ends nothing.
LEMMA AfterTheCalls ==
  ASSUME NEW l, LedgerIsRight(l), IsSequence(l.events), IsStoredLast(l)
  PROVE  /\ ledger'.sessions = l.sessions /\ ledger'.cdrs = l.cdrs
         /\ ledger'.lastSessionID = l.lastSessionID
         /\ EndsAt(ledger'.events) = EndsAt(l.events)
         /\ Len(l.events) \in Nat
         /\ \A i \in 1..Len(l.events) : ledger'.events[i] = l.events[i]
<1>1. PICK event : event.topic = "charger" /\ ledger' = Publish(l, event)
  BY DEF IsStoredLast
<1>2. ~Announces(event)
  BY <1>1 DEF Announces
<1>3. /\ ledger'.sessions = l.sessions /\ ledger'.lastSessionID = l.lastSessionID
      /\ IsLongerBy(ledger'.events, l.events, event)
  BY <1>1, PublishAdds, EventsDoNotMatter
<1>4. ledger'.cdrs = l.cdrs
  <2>1. IsLedgerRecord(l)
    BY DEF LedgerIsRight, IsLedger, IsLedgerRecord, LedgerOf
  <2> DEFINE said == Append(l.events, event)
  <2>2. ledger' = LedgerOf(l.sessions, l.cdrs, l.lastPublishedAt, l.lastSessionID, l.lastCDRID,
                           said)
    BY <1>1, <2>1, PublishIs
  <2> HIDE DEF said
  <2>3. QED
    BY <2>2, LedgerParts
<1>5. QED
  BY <1>2, <1>3, <1>4, OneMoreEnd

\* A session that is metered goes on.
LEMMA MeteredGoesOn ==
  ASSUME IInv, SessionsAre(ledger.sessions, now),
         NEW s \in ActiveSessions(ledger), NEW energy \in Nat
  PROVE  LET l   == RecordSessionProgress(Fresh(ledger), s, energy, now)
             new == Progressed(ledger.sessions[s], energy, now)
         IN  /\ LedgerIsRight(l) /\ s \in ActiveSessions(l)
             /\ IsSequence(l.events) /\ EndsAt(l.events) = {}
             /\ l.sessions = Upsert(ledger.sessions, s, new) /\ l.cdrs = ledger.cdrs
             /\ l.lastSessionID = ledger.lastSessionID
             /\ SessionsAre(l.sessions, now)
             /\ ComesOf(ledger.sessions, l.sessions, ledger.lastSessionID)
             /\ l.sessions[s] \in SessionRecord
             /\ l.sessions[s].chargerID = ledger.sessions[s].chargerID
             /\ ledger.sessions[s].energy <= l.sessions[s].energy
<1> DEFINE f   == Fresh(ledger)
           l   == RecordSessionProgress(f, s, energy, now)
           new == Progressed(ledger.sessions[s], energy, now)
<1>1. /\ LedgerIsRight(f) /\ f.sessions = ledger.sessions /\ f.cdrs = ledger.cdrs
      /\ f.lastSessionID = ledger.lastSessionID
      /\ IsSequence(f.events) /\ EndsAt(f.events) = {}
      /\ s \in ActiveSessions(f)
  BY BeforeTheCalls
<1>2. /\ s \in DOMAIN ledger.sessions /\ ledger.sessions[s] \in SessionRecord
      /\ ledger.sessions[s].state = ActiveState /\ now \in Nat
  BY DEF IInv, TypeOK, SessionsAre, IsRepository, ActiveSessions, InState
<1>3. /\ new \in SessionRecord /\ new.state = ActiveState
      /\ new.chargerID = ledger.sessions[s].chargerID
      /\ new.energy = ledger.sessions[s].energy + energy
      /\ new.updatedAt = now /\ new.endedAt = ledger.sessions[s].endedAt
  BY <1>2, ProgressedIs
<1> HIDE DEF f
<1>4. /\ LedgerIsRight(l) /\ ActiveSessions(l) = ActiveSessions(f)
      /\ l.sessions = Upsert(f.sessions, s, new)
      /\ l.cdrs = f.cdrs /\ l.lastSessionID = f.lastSessionID
      /\ l.events = f.events \/ IsLongerBy(l.events, f.events, SessionEvent(s, new))
  BY <1>1, <1>2, RecordSessionProgressKeeps, RecordLeaves DEF NoneStartsOrStops
<1> HIDE DEF l, new
<1>5. ledger.sessions[s].energy <= new.energy /\ new.updatedAt <= now /\ new.endedAt <= now
  <2>1. ledger.sessions[s].energy \in Nat /\ ledger.sessions[s].endedAt <= now
    BY <1>2 DEF SessionsAre, SessionRecord
  <2>2. QED
    BY <1>2, <1>3, <2>1
<1>6. /\ SessionsAre(l.sessions, now)
      /\ ComesOf(ledger.sessions, l.sessions, ledger.lastSessionID)
      /\ l.sessions[s] = new
  <2> DEFINE a == ledger.sessions
             n == ledger.lastSessionID
  <2>1. l.sessions = Upsert(a, s, new)
    BY <1>1, <1>4
  <2>2. /\ SessionsAre(a, now) /\ s \in DOMAIN a /\ a[s].state = ActiveState
        /\ new.chargerID = a[s].chargerID /\ a[s].energy <= new.energy
    BY <1>2, <1>3, <1>5
  <2> HIDE DEF a, n
  <2>3. SessionsAre(l.sessions, now) /\ ComesOf(a, l.sessions, n)
    BY <1>3, <1>5, <2>1, <2>2, UpsertComes
  <2>4. l.sessions[s] = new
    BY <2>1 DEF Upsert
  <2>5. QED
    BY <2>3, <2>4 DEF a, n
<1>7. IsSequence(l.events) /\ EndsAt(l.events) = {}
  <2> DEFINE event == SessionEvent(s, new)
  <2>1. ~Announces(event)
    BY <1>3 DEF Announces, SessionEvent, ActiveState, CompletedState
  <2>2. l.events = f.events \/ IsLongerBy(l.events, f.events, event)
    BY <1>4
  <2> HIDE DEF event
  <2>3. QED
    BY <1>1, <2>1, <2>2, OneMoreEnd
<1>8. QED
  BY <1>1, <1>3, <1>4, <1>5, <1>6, <1>7 DEF f, l, new

\* A stop announces the end of one session, and its bill with the next call.
LEMMA StopAnnounces ==
  ASSUME NEW l, NEW s, NEW ended, ended.state = CompletedState, NEW t,
         t = StopEvents(l, s, ended), IsSequence(l.events), EndsAt(l.events) = {}
  PROVE  LET i == Len(l.events) + 1
         IN  /\ IsSequence(t) /\ i \in Nat \ {0} /\ Len(t) = i + 1 /\ EndsAt(t) = {i}
             /\ t[i] = SessionEvent(s, ended)
             /\ t[i + 1] = CDREvent(l.lastCDRID + 1, CDROf(s, ended))
<1> DEFINE e == SessionEvent(s, ended)
           f == CDREvent(l.lastCDRID + 1, CDROf(s, ended))
           u == Append(l.events, e)
           n == Len(l.events)
<1>1. Announces(e) /\ ~Announces(f)
  BY DEF Announces, SessionEvent, CDREvent
<1>2. IsLongerBy(u, l.events, e) /\ IsLongerBy(t, u, f)
  BY DEF IsLongerBy, StopEvents
<1> HIDE DEF e, f, u
<1>3. /\ IsSequence(u) /\ n \in Nat /\ Len(u) = n + 1 /\ u[n + 1] = e /\ EndsAt(u) = {n + 1}
  BY <1>1, <1>2, OneMoreEnd
<1>4. /\ IsSequence(t) /\ Len(t) = Len(u) + 1 /\ t[Len(u) + 1] = f
      /\ \A i \in 1..Len(u) : t[i] = u[i]
      /\ EndsAt(t) = EndsAt(u)
  BY <1>1, <1>2, <1>3, OneMoreEnd
<1>5. n + 1 \in 1..Len(u) /\ n + 1 \in Nat \ {0}
  BY <1>3
<1>6. QED
  BY <1>3, <1>4, <1>5 DEF e, f

\* What a handler that is called between two others does to the history of sessions.
LEMMA WhatHappens ==
  ASSUME IInv, SessionsAre(ledger.sessions, now), WhatIsCalled
  PROVE  NothingEnds \/ \E i, s, ended : Ends(i, s, ended)
<1> DEFINE f == Fresh(ledger)
<1>1. /\ LedgerIsRight(f) /\ f.sessions = ledger.sessions /\ f.cdrs = ledger.cdrs
      /\ f.lastSessionID = ledger.lastSessionID
      /\ IsSequence(f.events) /\ EndsAt(f.events) = {}
  BY BeforeTheCalls
<1>2. /\ now \in Nat /\ ledger.lastSessionID \in Nat
      /\ DOMAIN ledger.sessions \subseteq 1..ledger.lastSessionID
  BY DEF IInv, TypeOK, IsLedger, IsRepository
<1>3. ComesOf(ledger.sessions, ledger.sessions, ledger.lastSessionID)
  BY ComesOfItself
<1>4. CASE ledger' = f
  BY <1>1, <1>3, <1>4 DEF NothingEnds
<1> HIDE DEF f
<1>5. CASE IsStoredLast(f)
  BY <1>1, <1>3, <1>5, AfterTheCalls DEF NothingEnds
<1>6. ASSUME NEW id \in Int, NEW price \in Nat, IsStoredLast(StartSession(f, id, price, now))
      PROVE  NothingEnds
  <2> DEFINE l   == StartSession(f, id, price, now)
             n   == ledger.lastSessionID
             new == NewSession(id, price, now)
  <2>1. /\ LedgerIsRight(l) /\ l.cdrs = f.cdrs /\ l.sessions = Upsert(f.sessions, n + 1, new)
        /\ IsLongerBy(l.events, f.events, SessionEvent(n + 1, new))
    <3>1. LedgerIsRight(l)
      BY <1>1, <1>2, StartSessionKeeps
    <3>2. /\ l.cdrs = f.cdrs
          /\ l.sessions = Upsert(f.sessions, f.lastSessionID + 1, new)
          /\ IsLongerBy(l.events, f.events, SessionEvent(f.lastSessionID + 1, new))
      BY <1>1, <1>2, StartLeaves
    <3>3. f.lastSessionID + 1 = n + 1
      BY <1>1
    <3> HIDE DEF l, n, new
    <3>4. QED
      BY <3>1, <3>2, <3>3
  <2>2. new \in SessionRecord /\ new.state = ActiveState /\ new.updatedAt = now
        /\ new.endedAt = NotEnded
    BY <1>2, NewSessionType DEF NewSession
  <2>3. IsStoredLast(l)
    BY <1>6
  <2>4. n + 1 \notin DOMAIN ledger.sessions /\ new.updatedAt <= now /\ new.endedAt <= now
    BY <1>2, <2>2 DEF NotEnded
  <2> HIDE DEF l, n
  <2>5. SessionsAre(l.sessions, now) /\ ComesOf(ledger.sessions, l.sessions, n)
    <3>1. n \in Nat
      BY <1>2 DEF n
    <3> HIDE DEF new
    <3>2. QED
      BY <1>1, <2>1, <2>2, <2>4, <3>1, StartComes
  <2>6. IsSequence(l.events) /\ EndsAt(l.events) = {}
    <3> DEFINE event == SessionEvent(n + 1, new)
    <3>1. ~Announces(event)
      BY <2>2 DEF Announces, SessionEvent, ActiveState, CompletedState
    <3>2. IsLongerBy(l.events, f.events, event)
      BY <2>1
    <3> HIDE DEF event
    <3>3. QED
      BY <1>1, <3>1, <3>2, OneMoreEnd
  <2>7. QED
    BY <1>1, <2>1, <2>3, <2>5, <2>6, AfterTheCalls DEF NothingEnds, n
<1>7. ASSUME NEW s \in ActiveSessions(ledger), NEW energy \in Nat,
             ledger' = RecordSessionProgress(f, s, energy, now)
      PROVE  NothingEnds
  BY <1>7, MeteredGoesOn DEF NothingEnds, f
<1>8. ASSUME NEW s \in ActiveSessions(ledger), NEW energy \in Nat, NEW reason \in StopReasons,
             IsStoredLast(StopSession(RecordSessionProgress(f, s, energy, now), s, reason, now))
      PROVE  \E i : Ends(i, s, Ended(RecordSessionProgress(f, s, energy, now).sessions[s],
                                     reason, now))
  <2> DEFINE m     == RecordSessionProgress(f, s, energy, now)
             new   == Progressed(ledger.sessions[s], energy, now)
             l     == StopSession(m, s, reason, now)
             ended == Ended(m.sessions[s], reason, now)
             i     == Len(m.events) + 1
  <2>1. /\ LedgerIsRight(m) /\ s \in ActiveSessions(m)
        /\ IsSequence(m.events) /\ EndsAt(m.events) = {}
        /\ m.sessions = Upsert(ledger.sessions, s, new)
        /\ m.lastSessionID = ledger.lastSessionID
        /\ m.sessions[s] \in SessionRecord
        /\ m.sessions[s].chargerID = ledger.sessions[s].chargerID
        /\ ledger.sessions[s].energy <= m.sessions[s].energy
    BY MeteredGoesOn DEF f
  <2>2. s \in DOMAIN ledger.sessions /\ ledger.sessions[s].state = ActiveState
    BY DEF ActiveSessions, InState
  <2>3. IsStoredLast(l)
    BY <1>8
  <2> HIDE DEF m, new
  <2>4. /\ ended \in SessionRecord /\ ended.state = CompletedState
        /\ ended.chargerID = m.sessions[s].chargerID /\ ended.energy = m.sessions[s].energy
        /\ ended.updatedAt = now /\ ended.endedAt = now
    BY <1>2, <2>1, EndedIs
  <2>5. /\ LedgerIsRight(l) /\ l.events = StopEvents(m, s, ended)
        /\ l.lastSessionID = m.lastSessionID
        /\ \E ids : l.sessions = DeleteAll(Upsert(m.sessions, s, ended), ids)
    BY <1>2, <2>1, StopSessionKeeps, StopLeavesSessions
  <2> HIDE DEF l, ended
  <2>6. /\ IsSequence(l.events) /\ i \in Nat \ {0} /\ Len(l.events) = i + 1
        /\ EndsAt(l.events) = {i} /\ l.events[i] = SessionEvent(s, ended)
        /\ l.events[i + 1] = CDREvent(m.lastCDRID + 1, CDROf(s, ended))
    BY <2>1, <2>4, <2>5, StopAnnounces
  <2> HIDE DEF i
  <2>7. /\ ledger'.sessions = l.sessions /\ ledger'.lastSessionID = l.lastSessionID
        /\ EndsAt(ledger'.events) = EndsAt(l.events)
        /\ ledger'.events[i] = l.events[i] /\ ledger'.events[i + 1] = l.events[i + 1]
    <3>1. i \in 1..Len(l.events) /\ i + 1 \in 1..Len(l.events)
      BY <2>6
    <3>2. QED
      BY <2>3, <2>5, <2>6, <3>1, AfterTheCalls
  <2>8. \E ids : ledger'.sessions = DeleteAll(Upsert(ledger.sessions, s, ended), ids)
    BY <2>1, <2>5, <2>7, UpsertAgain
  <2>9. Ends(i, s, ended)
    BY <2>1, <2>2, <2>4, <2>5, <2>6, <2>7, <2>8 DEF Ends
  <2>10. QED
    BY <2>9 DEF ended, m
<1>9. QED
  BY <1>4, <1>5, <1>6, <1>7, <1>8 DEF WhatIsCalled, f

\* The chargers are written last.
LEMMA LastWrite ==
  ASSUME NEW store, NEW at, StoreIsRight(store, at),
         store.sessions = ledger'.sessions, store.cdrs = ledger'.cdrs
  PROVE  [store EXCEPT !.chargers = chargers'] = Final'
<1>1. [store EXCEPT !.chargers = chargers'] = StoreOf(store.sessions, store.cdrs, chargers')
  BY RightIsStore, OneWrite
<1>2. QED
  BY <1>1 DEF Final, StoreOf

\* The last writes of a handler, from a state in which the session that it ends is over, if it ends
\* one: the sessions, their CDRs, the charger.
LEMMA TheRest ==
  ASSUME NEW states, NEW n, NEW at, Chain(states, n, at), KnowsUpTo(Latest(states), n),
         ComesOf(Latest(states).sessions, ledger'.sessions, n),
         \A d \in DOMAIN ledger'.cdrs : ledger'.cdrs[d].sessionID <= n,
         StoreIsRight(Final', at)
  PROVE  LET sessions == [Latest(states) EXCEPT !.sessions = ledger'.sessions]
             cdrs     == [sessions EXCEPT !.cdrs = ledger'.cdrs]
             t        == Then(Then(Then(states, sessions), cdrs),
                              [cdrs EXCEPT !.chargers = chargers'])
         IN  Chain(t, n, at) /\ Latest(t) = Final' /\ t[1] = states[1]
<1> DEFINE first    == Latest(states)
           sessions == [first EXCEPT !.sessions = ledger'.sessions]
           cdrs     == [sessions EXCEPT !.cdrs = ledger'.cdrs]
           last     == [cdrs EXCEPT !.chargers = chargers']
           t1       == Then(states, sessions)
           t2       == Then(t1, cdrs)
           t3       == Then(t2, last)
<1>1. /\ Final'.sessions = ledger'.sessions /\ Final'.cdrs = ledger'.cdrs
      /\ SessionsAre(ledger'.sessions, at)
      /\ \A d \in DOMAIN ledger'.cdrs :
           IsCDR(ledger'.cdrs[d], at) /\ BillFits(ledger'.cdrs[d], ledger'.sessions)
  BY DEF Final, StoreIsRight
<1>2. StoreIsRight(first, at)
  <2>1. Len(states) \in 1..Len(states)
    BY DEF Chain, IsSequence
  <2>2. QED
    BY <2>1 DEF Chain, Latest
<1> HIDE DEF first
<1>3. /\ StoreIsRight(sessions, at) /\ KnowsUpTo(sessions, n)
      /\ sessions.sessions = ledger'.sessions
  BY <1>1, <1>2, SessionsAreWritten DEF first
<1>4. Chain(t1, n, at) /\ Latest(t1) = sessions /\ t1[1] = states[1]
  <2> HIDE DEF sessions
  <2>1. ComesOf(first.sessions, sessions.sessions, n)
    BY <1>3 DEF first
  <2>2. QED
    BY <1>3, <2>1, LongerChain DEF first
<1> HIDE DEF sessions, t1
<1>5. /\ StoreIsRight(cdrs, at) /\ KnowsUpTo(cdrs, n)
      /\ cdrs.sessions = ledger'.sessions /\ cdrs.cdrs = ledger'.cdrs
  BY <1>1, <1>3, CDRsAreWritten
<1> HIDE DEF cdrs
<1>6. Chain(t2, n, at) /\ Latest(t2) = cdrs /\ t2[1] = states[1]
  <2>1. ComesOf(sessions.sessions, cdrs.sessions, n)
    BY <1>1, <1>3, <1>5, ComesOfItself
  <2>2. QED
    BY <1>3, <1>4, <1>5, <2>1, LongerChain DEF t2
<1> HIDE DEF t2
<1>7. last = Final'
  BY <1>5, LastWrite
<1>8. Chain(t3, n, at) /\ Latest(t3) = last /\ t3[1] = states[1]
  <2>1. ComesOf(cdrs.sessions, last.sessions, n)
    BY <1>1, <1>5, <1>7, ComesOfItself
  <2>2. StoreIsRight(last, at)
    BY <1>7
  <2> HIDE DEF last
  <2>3. QED
    BY <1>5, <1>6, <2>1, <2>2, LongerChain DEF t3
<1>9. QED
  BY <1>7, <1>8 DEF t3, t2, t1, last, cdrs, sessions, first

\* The writes that end a session: with what it has been given, completed, billed.
LEMMA TheEnd ==
  ASSUME NEW store, NEW n, NEW at \in Nat, StoreIsRight(store, at), KnowsUpTo(store, n),
         NEW s \in DOMAIN store.sessions, s <= n, NEW ended \in SessionRecord,
         store.sessions[s].state = ActiveState,
         ended.state = CompletedState, ended.chargerID = store.sessions[s].chargerID,
         store.sessions[s].energy <= ended.energy, ended.updatedAt = at, ended.endedAt = at,
         NEW d
  PROVE  LET t == Ending(store, SessionEvent(s, ended), CDREvent(d, CDROf(s, ended)))
         IN  /\ Chain(t, n, at) /\ t[1] = store /\ KnowsUpTo(Latest(t), n)
             /\ Latest(t).sessions = Upsert(store.sessions, s, ended)
<1> DEFINE a          == store.sessions
           before     == MeteredBefore(ended)
           cdr        == CDROf(s, ended)
           a1         == Upsert(a, s, before)
           a2         == Upsert(a1, s, ended)
           bills      == Upsert(store.cdrs, d, cdr)
           progressed == [store EXCEPT !.sessions = a1]
           completed  == [progressed EXCEPT !.sessions = a2]
           billed     == [completed EXCEPT !.cdrs = bills]
           t1         == Then(<<store>>, progressed)
           t2         == Then(t1, completed)
           t3         == Then(t2, billed)
<1>1. /\ before \in SessionRecord /\ before.state = ActiveState
      /\ before.chargerID = ended.chargerID /\ before.energy = ended.energy
      /\ before.updatedAt = ended.updatedAt /\ before.endedAt = NotEnded
  <2>1. NotEnded \in Int /\ NoReason \in StopReasons \cup {NoReason}
        /\ ActiveState \in {ActiveState, CompletedState}
    BY DEF NotEnded
  <2>2. QED
    BY <2>1 DEF MeteredBefore, SessionRecord
<1>2. /\ cdr.sessionID = s /\ cdr.endedAt = at
  BY DEF CDROf
<1>3. SessionsAre(a, at) /\ s \in Nat
  BY DEF StoreIsRight, SessionsAre, IsRepository
<1>4. before.updatedAt <= at /\ before.endedAt <= at /\ ended.updatedAt <= at /\ ended.endedAt <= at
  BY <1>1 DEF NotEnded
<1> HIDE DEF before, cdr, a
<1>5. SessionsAre(a1, at) /\ ComesOf(a, a1, n) /\ DOMAIN a1 = DOMAIN a /\ a1[s] = before
  <2>1. /\ s \in DOMAIN a /\ a[s].state = ActiveState /\ before.chargerID = a[s].chargerID
        /\ a[s].energy <= before.energy
    BY <1>1 DEF a
  <2>2. SessionsAre(a1, at) /\ ComesOf(a, a1, n)
    BY <1>1, <1>3, <1>4, <2>1, UpsertComes
  <2>3. QED
    BY <2>1, <2>2 DEF Upsert
<1> HIDE DEF a1
<1>6. SessionsAre(a2, at) /\ ComesOf(a1, a2, n) /\ a2[s] = ended /\ s \in DOMAIN a2
  <2>1. /\ s \in DOMAIN a1 /\ a1[s].state = ActiveState /\ ended.chargerID = a1[s].chargerID
        /\ a1[s].energy <= ended.energy
    BY <1>1, <1>5 DEF a, SessionRecord
  <2>2. SessionsAre(a2, at) /\ ComesOf(a1, a2, n)
    BY <1>4, <1>5, <2>1, UpsertComes
  <2>3. QED
    BY <2>1, <2>2 DEF Upsert
<1>7. a2 = Upsert(store.sessions, s, ended)
  BY UpsertAgain DEF a1, a
<1> HIDE DEF a2
<1>8. Chain(<<store>>, n, at) /\ Latest(<<store>>) = store /\ <<store>>[1] = store
  BY ChainOfOne
<1> DEFINE t0 == <<store>>
<1> HIDE DEF t0
<1>9. /\ StoreIsRight(progressed, at) /\ KnowsUpTo(progressed, n)
      /\ progressed.sessions = a1 /\ progressed.cdrs = store.cdrs
  BY <1>5, SessionsAreWritten DEF a
<1> HIDE DEF progressed
<1>10. Chain(t1, n, at) /\ Latest(t1) = progressed /\ t1[1] = store
  <2>1. /\ Chain(t0, n, at) /\ KnowsUpTo(Latest(t0), n) /\ t0[1] = store
        /\ ComesOf(Latest(t0).sessions, progressed.sessions, n)
    BY <1>5, <1>8, <1>9 DEF t0, a
  <2>2. t1 = Then(t0, progressed)
    BY DEF t0
  <2> HIDE DEF t1
  <2>3. QED
    BY <1>9, <2>1, <2>2, LongerChain
<1> HIDE DEF t1
<1>11. /\ StoreIsRight(completed, at) /\ KnowsUpTo(completed, n)
       /\ completed.sessions = a2 /\ completed.cdrs = store.cdrs
  BY <1>6, <1>9, SessionsAreWritten
<1> HIDE DEF completed
<1>12. Chain(t2, n, at) /\ Latest(t2) = completed /\ t2[1] = store
  <2>1. KnowsUpTo(Latest(t1), n) /\ ComesOf(Latest(t1).sessions, completed.sessions, n)
    BY <1>6, <1>9, <1>10, <1>11
  <2>2. QED
    BY <1>10, <1>11, <2>1, LongerChain
<1> HIDE DEF t2
<1>13. /\ StoreIsRight(billed, at) /\ KnowsUpTo(billed, n) /\ billed.sessions = a2
  <2>1. ASSUME NEW x \in DOMAIN bills
        PROVE  IsCDR(bills[x], at) /\ BillFits(bills[x], a2) /\ bills[x].sessionID <= n
    <3>1. CASE x = d
      <4>1. bills[x] = cdr
        BY <3>1 DEF Upsert
      <4>2. IsCDR(cdr, at)
        BY <1>2, <1>3 DEF IsCDR
      <4>3. BillFits(cdr, a2)
        BY <1>2, <1>6 DEF BillFits, cdr
      <4>4. QED
        BY <1>2, <4>1, <4>2, <4>3
    <3>2. CASE x # d
      <4>1. x \in DOMAIN completed.cdrs /\ bills[x] = completed.cdrs[x]
        BY <1>11, <3>2 DEF Upsert
      <4>2. QED
        BY <1>11, <4>1 DEF StoreIsRight, KnowsUpTo
    <3>3. QED
      BY <3>1, <3>2
  <2> HIDE DEF bills
  <2>2. QED
    BY <1>11, <2>1, CDRsAreWritten
<1> HIDE DEF billed
<1>14. Chain(t3, n, at) /\ Latest(t3) = billed /\ t3[1] = store
  <2>1. KnowsUpTo(Latest(t2), n) /\ ComesOf(Latest(t2).sessions, billed.sessions, n)
    BY <1>6, <1>11, <1>12, <1>13, ComesOfItself
  <2>2. QED
    BY <1>12, <1>13, <2>1, LongerChain
<1>15. t3 = Ending(store, SessionEvent(s, ended), CDREvent(d, CDROf(s, ended)))
  <2>1. /\ SessionEvent(s, ended).id = s /\ SessionEvent(s, ended).session = ended
        /\ CDREvent(d, CDROf(s, ended)).id = d /\ CDREvent(d, CDROf(s, ended)).cdr = CDROf(s, ended)
    BY DEF SessionEvent, CDREvent
  <2>2. progressed.sessions = a1 /\ completed.cdrs = store.cdrs
    BY <1>9, <1>11
  <2>3. QED
    BY <2>1, <2>2 DEF Ending, t2, t1, billed, completed, progressed, bills, cdr, before, a1, a2, a
<1>16. QED
  BY <1>7, <1>13, <1>14, <1>15

\* What a handler leaves is right, if the sessions it leaves are of their time.
LEMMA FinalWillBeRight ==
  ASSUME IInv', UNCHANGED now, SessionsAre(ledger'.sessions, now)
  PROVE  StoreIsRight(Final', now)
<1>1. (IInv /\ SessionsAre(ledger.sessions, now) => StoreIsRight(Final, now))'
  BY FinalIsRight, PTL
<1>2. QED
  BY <1>1

\* A handler takes the repositories from the state it finds to the state it leaves, through states
\* that are right.
LEMMA HandlerWrites ==
  ASSUME IInv, IInv', SessionsAre(ledger.sessions, now), WhatIsCalled,
         NEW n \in Nat, n = ledger.lastSessionID
  PROVE  LET t == WrittenInTurn(Final, ledger', chargers')
         IN  Chain(t, n, now) /\ Latest(t) = Final' /\ t[1] = Final
<1> DEFINE t == WrittenInTurn(Final, ledger', chargers')
<1>1. /\ StoreIsRight(Final, now) /\ KnowsUpTo(Final, n)
      /\ Final.sessions = ledger.sessions /\ Final.cdrs = ledger.cdrs
      /\ now \in Nat /\ UNCHANGED now
  BY FinalIsRight, FinalKnows DEF Final, IInv, TypeOK, WhatIsCalled
<1>2. CASE NothingEnds
  <2> DEFINE states == <<Final>>
  <2>1. Chain(states, n, now) /\ Latest(states) = Final /\ states[1] = Final
    BY <1>1, ChainOfOne
  <2>2. t = LET sessions == [Latest(states) EXCEPT !.sessions = ledger'.sessions]
                cdrs     == [sessions EXCEPT !.cdrs = ledger'.cdrs]
            IN  Then(Then(Then(states, sessions), cdrs), [cdrs EXCEPT !.chargers = chargers'])
    BY <1>2 DEF WrittenInTurn, NothingEnds
  <2> HIDE DEF states, t
  <2>3. \A d \in DOMAIN ledger'.cdrs : ledger'.cdrs[d].sessionID <= n
    BY <1>1, <1>2 DEF KnowsUpTo, NothingEnds
  <2>4. StoreIsRight(Final', now)
    BY <1>1, <1>2, FinalWillBeRight DEF NothingEnds
  <2>5. KnowsUpTo(Latest(states), n) /\ ComesOf(Latest(states).sessions, ledger'.sessions, n)
    BY <1>1, <1>2, <2>1 DEF NothingEnds
  <2>6. Chain(t, n, now) /\ Latest(t) = Final' /\ t[1] = states[1]
    BY <2>1, <2>2, <2>3, <2>4, <2>5, TheRest
  <2>7. QED
    BY <2>1, <2>6 DEF t
<1>3. ASSUME NEW i, NEW s, NEW ended, Ends(i, s, ended)
      PROVE  Chain(t, n, now) /\ Latest(t) = Final' /\ t[1] = Final
  <2> PICK d : ledger'.events[i + 1] = CDREvent(d, CDROf(s, ended))
    BY <1>3 DEF Ends
  <2> DEFINE states == Ending(Final, SessionEvent(s, ended), CDREvent(d, CDROf(s, ended)))
  <2>1. /\ EndsAt(ledger'.events) = {i} /\ ledger'.events[i] = SessionEvent(s, ended)
        /\ s \in DOMAIN Final.sessions /\ Final.sessions[s].state = ActiveState
        /\ ended \in SessionRecord /\ ended.state = CompletedState
        /\ ended.chargerID = Final.sessions[s].chargerID
        /\ Final.sessions[s].energy <= ended.energy
        /\ ended.updatedAt = now /\ ended.endedAt = now
    BY <1>1, <1>3 DEF Ends
  <2>2. s <= n
    BY <1>1, <2>1 DEF IInv, TypeOK, IsLedger, IsRepository
  <2>3. /\ Chain(states, n, now) /\ states[1] = Final /\ KnowsUpTo(Latest(states), n)
        /\ Latest(states).sessions = Upsert(Final.sessions, s, ended)
    BY <1>1, <2>1, <2>2, TheEnd
  <2>4. t = LET sessions == [Latest(states) EXCEPT !.sessions = ledger'.sessions]
                cdrs     == [sessions EXCEPT !.cdrs = ledger'.cdrs]
            IN  Then(Then(Then(states, sessions), cdrs), [cdrs EXCEPT !.chargers = chargers'])
    <3>1. (CHOOSE j \in EndsAt(ledger'.events) : TRUE) = i /\ EndsAt(ledger'.events) # {}
      BY <2>1
    <3>2. states = LET j == CHOOSE j \in EndsAt(ledger'.events) : TRUE
                   IN  Ending(Final, ledger'.events[j], ledger'.events[j + 1])
      BY <2>1, <3>1
    <3> HIDE DEF states
    <3>3. QED
      BY <3>1, <3>2 DEF WrittenInTurn
  <2> HIDE DEF states, t
  <2>5. /\ SessionsAre(ledger'.sessions, now)
        /\ ComesOf(Latest(states).sessions, ledger'.sessions, n)
    <3>1. SessionsAre(Latest(states).sessions, now)
      <4>1. Len(states) \in 1..Len(states)
        BY <2>3 DEF Chain, IsSequence
      <4>2. QED
        BY <2>3, <4>1 DEF Chain, Latest, StoreIsRight
    <3>2. \E ids : ledger'.sessions = DeleteAll(Latest(states).sessions, ids)
      BY <1>1, <1>3, <2>3 DEF Ends
    <3>3. QED
      BY <3>1, <3>2, DropComes
  <2>6. StoreIsRight(Final', now)
    BY <1>1, <2>5, FinalWillBeRight
  <2>7. \A d_1 \in DOMAIN ledger'.cdrs : ledger'.cdrs[d_1].sessionID <= n
    <3>1. ledger'.lastSessionID = n
      BY <1>3 DEF Ends
    <3>2. KnowsUpTo(Final', n)
      <4>1. (IInv => KnowsUpTo(Final, ledger.lastSessionID))'
        BY FinalKnows, PTL
      <4>2. QED
        BY <3>1, <4>1
    <3>3. QED
      BY <3>2 DEF KnowsUpTo, Final
  <2>8. Chain(t, n, now) /\ Latest(t) = Final' /\ t[1] = states[1]
    BY <2>3, <2>4, <2>5, <2>6, <2>7, TheRest
  <2>9. QED
    BY <2>3, <2>8
<1>4. QED
  BY <1>2, <1>3, WhatHappens

(***************************************************************************)
(* Polling.                                                                *)
(***************************************************************************)

\* More energy is no lower level.
LEMMA MoreIsNoLess ==
  ASSUME NEW vehicle \in Vehicle, NEW e \in Nat, NEW f \in Nat, e <= f
  PROVE  /\ LevelAfter(vehicle, e) \in Nat /\ LevelAfter(vehicle, f) \in Nat
         /\ LevelAfter(vehicle, e) <= LevelAfter(vehicle, f)
  BY DEF LevelAfter, Smaller, Vehicle

\* What a poll has read fits what becomes of the sessions that it fits.
LEMMA PollFitsLater ==
  ASSUME PollTypeOK, NEW n, NEW at, NEW a, NEW b, SessionsAre(a, at), SessionsAre(b, at),
         ComesOf(a, b, n), \A s \in Named : s <= n, PollFits(a)
  PROVE  PollFits(b)
<1>1. \A d \in DOMAIN poll.cdrs : BillFits(poll.cdrs[d], b)
  <2>1. \A d \in DOMAIN poll.cdrs : poll.cdrs[d].sessionID <= n
    BY DEF Named
  <2>2. QED
    BY <2>1, FitsLater DEF PollFits
<1>2. ASSUME NEW id \in Holders
      PROVE  LET s == poll.chargers[id].session
             IN  /\ HolderFits(id, s, b)
                 /\ s \in DOMAIN b =>
                      LET level == LevelAfter(poll.chargers[id].vehicle, b[s].energy)
                      IN  /\ id \in DOMAIN poll.low => poll.low[id] <= level
                          /\ id \in DOMAIN poll.levels => poll.levels[id] <= level
  <2> DEFINE s       == poll.chargers[id].session
             vehicle == poll.chargers[id].vehicle
  <2>1. s <= n /\ HolderFits(id, s, a)
    BY DEF Named, PollFits
  <2>2. HolderFits(id, s, b)
    BY <2>1, FitsLater
  <2>3. vehicle \in Vehicle
    BY DEF PollTypeOK, Holders, IsCharger
  <2>4. ASSUME s \in DOMAIN b
        PROVE  LET level == LevelAfter(vehicle, b[s].energy)
               IN  /\ id \in DOMAIN poll.low => poll.low[id] <= level
                   /\ id \in DOMAIN poll.levels => poll.levels[id] <= level
    <3>1. s \in DOMAIN a /\ a[s].energy <= b[s].energy
      BY <2>1, <2>4 DEF ComesOf
    <3>2. a[s].energy \in Nat /\ b[s].energy \in Nat
      BY <2>4, <3>1 DEF SessionsAre, IsRepository, SessionRecord
    <3> DEFINE was == LevelAfter(vehicle, a[s].energy)
               is  == LevelAfter(vehicle, b[s].energy)
    <3>3. was \in Nat /\ is \in Nat /\ was <= is
      BY <2>3, <3>1, <3>2, MoreIsNoLess
    <3>4. /\ id \in DOMAIN poll.low => poll.low[id] <= was /\ poll.low[id] \in Nat
          /\ id \in DOMAIN poll.levels => poll.levels[id] <= was /\ poll.levels[id] \in Nat
      BY <3>1 DEF PollFits, PollTypeOK
    <3> HIDE DEF was, is, s, vehicle
    <3>5. QED
      BY <3>3, <3>4 DEF is
  <2>5. QED
    BY <2>2, <2>4
<1>3. QED
  BY <1>1, <1>2 DEF PollFits

\* Each state that the repositories go through after the step comes of one that they went through
\* before it.
StoresComeOf(n) ==
  \A j \in 1..Len(stores') :
    /\ StoreIsRight(stores'[j], now')
    /\ \E i \in 1..Len(stores) :
         /\ StoreIsRight(stores[i], now')
         /\ ComesOf(stores[i].sessions, stores'[j].sessions, n)

\* A step of others does not disturb what a poll knows.
LEMMA PollGoesOn ==
  ASSUME NEW n \in Nat, NEW m \in Nat, n <= m, PollIsRight(n), UNCHANGED poll,
         now \in Nat, now' \in Nat, now <= now', poll.at = "sent" => now' = now,
         StoresComeOf(n)
  PROVE  PollIsRight(m)'
<1>1. PollTypeOK'
  <2>1. \A d \in DOMAIN poll.cdrs : IsCDR(poll.cdrs[d], now')
    BY DEF PollIsRight, PollTypeOK, IsCDR
  <2>2. SessionsAre(poll.sessions, now')
    BY DEF PollIsRight, PollTypeOK, SessionsAre, IsRepository, SessionRecord
  <2>3. QED
    BY <2>1, <2>2 DEF PollIsRight, PollTypeOK, Holders
<1>2. ASSUME NEW s, s <= n, IsGone(s) PROVE IsGone(s)'
  BY <1>2 DEF IsGone, StoresComeOf, ComesOf
<1>3. \A s \in Named : s <= n
  BY DEF PollIsRight
<1>4. ASSUME NEW j \in 1..Len(stores') PROVE PollFits(stores'[j].sessions)
  <2> PICK i \in 1..Len(stores) : /\ StoreIsRight(stores[i], now')
                                  /\ ComesOf(stores[i].sessions, stores'[j].sessions, n)
    BY DEF StoresComeOf
  <2> DEFINE a == stores[i].sessions
             b == stores'[j].sessions
  <2>1. SessionsAre(a, now') /\ SessionsAre(b, now') /\ ComesOf(a, b, n) /\ PollFits(a)
    BY DEF StoreIsRight, StoresComeOf, PollIsRight
  <2>2. PollTypeOK
    BY DEF PollIsRight
  <2> HIDE DEF a, b
  <2>3. PollFits(b)
    BY <1>3, <2>1, <2>2, PollFitsLater
  <2>4. QED
    BY <2>3 DEF b
<1>5. \A j \in 1..Len(stores') : PollFits(stores[j].sessions)'
  BY <1>4 DEF PollFits, Holders
<1>6. LevelsAreRead'
  BY DEF PollIsRight, LevelsAreRead, Holders
<1>7. LevelsAreReal'
  <2>1. \A id \in Holders : poll.chargers[id].session <= n
    BY <1>3 DEF Named
  <2>2. QED
    BY <1>2, <2>1 DEF PollIsRight, LevelsAreReal, Holders
<1>8. \A s \in Named' : s <= m
  <2>1. Named' = Named /\ \A s \in Named : s \in Nat
    BY DEF Named, Holders, PollIsRight, PollTypeOK, IsCDR, IsCharger
  <2>2. QED
    BY <1>3, <2>1
<1>9. poll'.at \in {"clock", "sent"} =>
        /\ PollFits(poll.sessions)'
        /\ \A s \in Named' \ DOMAIN poll'.sessions : IsGone(s)'
  <2>1. Named' = Named
    BY DEF Named, Holders
  <2>2. PollFits(poll.sessions) => PollFits(poll.sessions)'
    BY DEF PollFits, Holders
  <2>3. QED
    BY <1>2, <1>3, <2>1, <2>2 DEF PollIsRight
<1>10. poll'.at = "sent" => poll'.clock = now'
  BY DEF PollIsRight
<1>11. QED
  BY <1>1, <1>5, <1>6, <1>7, <1>8, <1>9, <1>10 DEF PollIsRight

\* The order of reading.
LEMMA AfterIs ==
  /\ After("cdrs") = "chargers" /\ After("chargers") = "sessions"
  /\ After("sessions") = "clock" /\ After("clock") = "sent"
<1>1. /\ ReadingOrder \in Seq({"cdrs", "chargers", "sessions", "clock"})
      /\ Len(ReadingOrder) = 4 /\ DOMAIN ReadingOrder = 1..4
      /\ ReadingOrder[1] = "cdrs" /\ ReadingOrder[2] = "chargers"
      /\ ReadingOrder[3] = "sessions" /\ ReadingOrder[4] = "clock"
  BY DEF ReadingOrder
<1>2. \A i \in 1..4 : i = 1 \/ i = 2 \/ i = 3 \/ i = 4
  OBVIOUS
<1> DEFINE place(what) == CHOOSE i \in DOMAIN ReadingOrder : ReadingOrder[i] = what
<1>3. place("cdrs") = 1 /\ place("chargers") = 2 /\ place("sessions") = 3 /\ place("clock") = 4
  BY <1>1, <1>2
<1>4. QED
  BY <1>1, <1>3 DEF After

\* A poll that is written out has the parts it is written with.
LEMMA PollParts ==
  ASSUME NEW a, NEW b, NEW c, NEW d, NEW e, NEW f, NEW g, NEW h, NEW p,
         p = PollOf(a, b, c, d, e, f, g, h)
  PROVE  /\ p.at = a /\ p.cdrs = b /\ p.chargers = c /\ p.todo = d
         /\ p.levels = e /\ p.sessions = f /\ p.clock = g /\ p.low = h
         /\ p = PollOf(p.at, p.cdrs, p.chargers, p.todo, p.levels, p.sessions, p.clock, p.low)
  BY DEF PollOf

\* What a poll reads from, and what becomes of it.
LEMMA WhatIsRead ==
  ASSUME NEW m \in Nat, ViewInvAt(m)
  PROVE  /\ 1 \in 1..Len(stores) /\ StoreIsRight(Store, now) /\ PollFits(Store.sessions)
         /\ \A i \in 1..Len(stores) :
              /\ SessionsAre(stores[i].sessions, now)
              /\ ComesOf(Store.sessions, stores[i].sessions, m)
         /\ \A s : s <= m /\ s \notin DOMAIN Store.sessions => IsGone(s)
<1>1. 1 \in 1..Len(stores)
  BY DEF ViewInvAt, Chain, IsSequence
<1>2. \A i \in 1..Len(stores) :
        /\ SessionsAre(stores[i].sessions, now) /\ 1 <= i
        /\ ComesOf(Store.sessions, stores[i].sessions, m)
  <2>1. \A i \in 1..Len(stores) : 1 <= i
    OBVIOUS
  <2>2. QED
    BY <1>1, <2>1 DEF ViewInvAt, Chain, StoreIsRight, Store
<1>3. StoreIsRight(Store, now) /\ PollFits(Store.sessions)
  BY <1>1 DEF ViewInvAt, Chain, PollIsRight, Store
<1>4. ASSUME NEW s, s <= m, s \notin DOMAIN Store.sessions PROVE IsGone(s)
  BY <1>2, <1>4 DEF ComesOf, IsGone
<1>5. QED
  BY <1>1, <1>2, <1>3, <1>4

\* The CDRs are read: each bills a session that is over or gone.
LEMMA ReadCDRsStep ==
  ASSUME NEW m \in Nat, ViewInvAt(m), KnowsUpTo(Store, m), ReadCDRs
  PROVE  PollIsRight(m)'
<1>1. poll = PollOf(poll.at, poll.cdrs, poll.chargers, poll.todo, poll.levels, poll.sessions,
                    poll.clock, poll.low)
  BY DEF ViewInvAt, PollIsRight, PollTypeOK
<1>2. /\ poll.at = "cdrs" /\ now' = now /\ stores' = stores
      /\ poll' = PollOf("chargers", Store.cdrs, poll.chargers, poll.todo, poll.levels,
                        poll.sessions, poll.clock, poll.low)
  BY <1>1, AfterIs DEF ReadCDRs, Read, PollOf, vars
<1>3. /\ poll'.at = "chargers" /\ poll'.cdrs = Store.cdrs /\ poll'.chargers = poll.chargers
      /\ poll'.todo = poll.todo /\ poll'.levels = poll.levels /\ poll'.sessions = poll.sessions
      /\ poll'.clock = poll.clock /\ poll'.low = poll.low
      /\ poll' = PollOf(poll'.at, poll'.cdrs, poll'.chargers, poll'.todo, poll'.levels,
                        poll'.sessions, poll'.clock, poll'.low)
  BY <1>2, PollParts
<1>4. DOMAIN poll.chargers = {} /\ Holders = {} /\ Holders' = {}
  BY <1>2, <1>3 DEF ViewInvAt, PollIsRight, LevelsAreRead, Holders
<1>5. PollTypeOK'
  <2>1. \A d \in DOMAIN Store.cdrs : IsCDR(Store.cdrs[d], now)
    BY WhatIsRead DEF StoreIsRight
  <2>2. QED
    BY <1>2, <1>3, <1>4, <2>1 DEF ViewInvAt, PollIsRight, PollTypeOK, PlacesOfPoll
<1>6. LevelsAreRead' /\ LevelsAreReal'
  BY <1>2, <1>3, <1>4 DEF LevelsAreRead, LevelsAreReal, ViewInvAt, PollIsRight
<1>7. \A s \in Named' : s <= m
  BY <1>3, <1>4 DEF Named, KnowsUpTo
<1>8. \A i \in 1..Len(stores') : PollFits(stores[i].sessions)'
  <2>1. ASSUME NEW i \in 1..Len(stores), NEW d \in DOMAIN Store.cdrs
        PROVE  BillFits(Store.cdrs[d], stores[i].sessions)
    <3>1. /\ BillFits(Store.cdrs[d], Store.sessions) /\ Store.cdrs[d].sessionID <= m
          /\ ComesOf(Store.sessions, stores[i].sessions, m)
      BY WhatIsRead DEF StoreIsRight, KnowsUpTo
    <3>2. QED
      BY <3>1, FitsLater
  <2>2. QED
    BY <1>2, <1>3, <1>4, <2>1 DEF PollFits
<1>9. QED
  BY <1>3, <1>5, <1>6, <1>7, <1>8 DEF PollIsRight

\* The level that a store has for a vehicle.
LEMMA StoredLevelIs ==
  ASSUME NEW store, NEW at, SessionsAre(store.sessions, at), NEW charger,
         charger.vehicle \in Vehicle
  PROVE  /\ StoredLevel(store, charger) \in Nat
         /\ charger.session \in DOMAIN store.sessions =>
              /\ store.sessions[charger.session].energy \in Nat
              /\ StoredLevel(store, charger) =
                   LevelAfter(charger.vehicle, store.sessions[charger.session].energy)
<1> DEFINE energy == IF charger.session \in DOMAIN store.sessions
                     THEN store.sessions[charger.session].energy ELSE 0
<1>1. energy \in Nat
  BY DEF SessionsAre, IsRepository, SessionRecord
<1>2. StoredLevel(store, charger) = LevelAfter(charger.vehicle, energy)
  BY DEF StoredLevel
<1>3. charger.session \in DOMAIN store.sessions => energy = store.sessions[charger.session].energy
  OBVIOUS
<1> HIDE DEF energy
<1>4. LevelAfter(charger.vehicle, energy) \in Nat
  BY <1>1, MoreIsNoLess
<1>5. QED
  BY <1>1, <1>2, <1>3, <1>4

\* It is not above the level with what the session has delivered later.
LEMMA LevelsGoUp ==
  ASSUME NEW m \in Nat, ViewInvAt(m), NEW charger, charger.vehicle \in Vehicle,
         charger.session <= m, NEW i \in 1..Len(stores),
         charger.session \in DOMAIN stores[i].sessions
  PROVE  StoredLevel(Store, charger) <=
           LevelAfter(charger.vehicle, stores[i].sessions[charger.session].energy)
<1> DEFINE s == charger.session
           a == Store.sessions
           b == stores[i].sessions
<1>1. SessionsAre(a, now) /\ SessionsAre(b, now) /\ ComesOf(a, b, m)
  BY WhatIsRead DEF StoreIsRight
<1>2. s \in DOMAIN a /\ a[s].energy <= b[s].energy
  BY <1>1 DEF ComesOf
<1>3. a[s].energy \in Nat /\ StoredLevel(Store, charger) = LevelAfter(charger.vehicle, a[s].energy)
  BY <1>1, <1>2, StoredLevelIs
<1>4. b[s].energy \in Nat
  BY <1>1 DEF SessionsAre, IsRepository, SessionRecord
<1>5. QED
  BY <1>2, <1>3, <1>4, MoreIsNoLess

\* The chargers are listed, with the levels of those vehicles that have no session.
LEMMA ListChargersStep ==
  ASSUME NEW m \in Nat, ViewInvAt(m), KnowsUpTo(Store, m), ListChargers
  PROVE  PollIsRight(m)'
<1> DEFINE listed  == Store.chargers
           plugged == {id \in DOMAIN listed : listed[id].vehicle # NoVehicle}
           todo    == {id \in plugged : listed[id].session # NoSession}
           levels  == [id \in DOMAIN listed \ todo |->
                         IF id \in plugged THEN StoredLevel(Store, listed[id]) ELSE NoLevel]
           low     == [id \in plugged |-> StoredLevel(Store, listed[id])]
           place   == IF todo = {} THEN "sessions" ELSE "levels"
<1>1. poll = PollOf(poll.at, poll.cdrs, poll.chargers, poll.todo, poll.levels, poll.sessions,
                    poll.clock, poll.low)
  BY DEF ViewInvAt, PollIsRight, PollTypeOK
<1>2. /\ poll.at = "chargers" /\ now' = now /\ stores' = stores
      /\ poll' = PollOf(place, poll.cdrs, listed, todo, levels, poll.sessions, poll.clock, low)
  <2>1. /\ poll.at = "chargers" /\ UNCHANGED <<vars, stores>>
        /\ poll' = [poll EXCEPT !.chargers = listed, !.todo = todo, !.levels = levels, !.low = low,
                               !.at = place]
    BY AfterIs DEF ListChargers, Read
  <2> HIDE DEF listed, todo, levels, low, place
  <2>2. QED
    BY <1>1, <2>1 DEF PollOf, vars
<1>3. /\ \A id \in DOMAIN listed : IsCharger(listed[id])
      /\ \A id \in DOMAIN listed :
           listed[id].session # NoSession => HolderFits(id, listed[id].session, Store.sessions)
      /\ \A id \in DOMAIN listed : listed[id].session <= m
  BY WhatIsRead DEF StoreIsRight, KnowsUpTo
<1>4. /\ DOMAIN levels = DOMAIN listed \ todo /\ DOMAIN low = plugged
      /\ todo = {id \in DOMAIN listed : listed[id].session # NoSession}
      /\ todo \subseteq plugged /\ plugged \subseteq DOMAIN listed
      /\ \A id \in plugged : listed[id].vehicle \in Vehicle
      /\ \A id \in plugged : low[id] = StoredLevel(Store, listed[id]) /\ low[id] \in Nat
      /\ \A id \in plugged \ todo : levels[id] = low[id]
      /\ place \in {"sessions", "levels"} /\ (place = "sessions" => todo = {})
  <2>1. \A id \in plugged : listed[id].vehicle \in Vehicle
    BY <1>3 DEF IsCharger
  <2>2. \A id \in plugged : StoredLevel(Store, listed[id]) \in Nat
    BY <2>1, WhatIsRead, StoredLevelIs DEF StoreIsRight
  <2>3. todo = {id \in DOMAIN listed : listed[id].session # NoSession}
    BY <1>3 DEF IsCharger
  <2>4. QED
    BY <2>1, <2>2, <2>3
<1> HIDE DEF listed, plugged, todo, levels, low, place
<1>5. /\ poll'.at = place /\ poll'.cdrs = poll.cdrs /\ poll'.chargers = listed
      /\ poll'.todo = todo /\ poll'.levels = levels /\ poll'.sessions = poll.sessions
      /\ poll'.clock = poll.clock /\ poll'.low = low
      /\ poll' = PollOf(poll'.at, poll'.cdrs, poll'.chargers, poll'.todo, poll'.levels,
                        poll'.sessions, poll'.clock, poll'.low)
  BY <1>2, PollParts
<1>6. Holders' = todo
  BY <1>4, <1>5 DEF Holders
<1>7. PollTypeOK'
  <2>1. Holders' \cap DOMAIN poll'.levels = {}
    BY <1>4, <1>5, <1>6
  <2>2. QED
    BY <1>2, <1>3, <1>4, <1>5, <2>1 DEF ViewInvAt, PollIsRight, PollTypeOK, PlacesOfPoll
<1>8. LevelsAreRead'
  BY <1>4, <1>5, <1>6 DEF LevelsAreRead
<1>9. LevelsAreReal'
  BY <1>4, <1>5, <1>6 DEF LevelsAreReal
<1>10. \A s \in Named' : s <= m
  <2>1. \A d \in DOMAIN poll.cdrs : poll.cdrs[d].sessionID <= m
    BY DEF ViewInvAt, PollIsRight, Named
  <2>2. QED
    BY <1>3, <1>4, <1>5, <1>6, <2>1 DEF Named
<1>11. ASSUME NEW i \in 1..Len(stores) PROVE PollFits(stores[i].sessions)'
  <2> DEFINE b == stores[i].sessions
  <2>1. \A d \in DOMAIN poll.cdrs : BillFits(poll.cdrs[d], b)
    BY DEF ViewInvAt, PollIsRight, PollFits
  <2>2. ASSUME NEW id \in todo
        PROVE  /\ HolderFits(id, listed[id].session, b) /\ id \notin DOMAIN levels
               /\ listed[id].session \in DOMAIN b =>
                    low[id] <= LevelAfter(listed[id].vehicle, b[listed[id].session].energy)
    <3>1. /\ HolderFits(id, listed[id].session, Store.sessions) /\ listed[id].session <= m
          /\ listed[id].vehicle \in Vehicle /\ ComesOf(Store.sessions, b, m)
          /\ id \notin DOMAIN levels /\ low[id] = StoredLevel(Store, listed[id])
      BY <1>3, <1>4, WhatIsRead
    <3>2. HolderFits(id, listed[id].session, b)
      BY <3>1, FitsLater
    <3>3. QED
      BY <3>1, <3>2, LevelsGoUp
  <2>3. QED
    BY <1>2, <1>5, <1>6, <2>1, <2>2 DEF PollFits
<1>12. QED
  <2>1. \A i \in 1..Len(stores') : PollFits(stores[i].sessions)'
    BY <1>2, <1>11
  <2>2. poll'.at \notin {"clock", "sent"}
    BY <1>4, <1>5
  <2>3. QED
    BY <1>7, <1>8, <1>9, <1>10, <2>1, <2>2 DEF PollIsRight

\* The level of one vehicle more is looked up: it is not below what it was, unless retention has
\* forgotten the session.
LEMMA ViewChargerStep ==
  ASSUME NEW m \in Nat, ViewInvAt(m), NEW id \in poll.todo, ViewCharger(id)
  PROVE  PollIsRight(m)'
<1> DEFINE charger == poll.chargers[id]
           s       == charger.session
           level   == StoredLevel(Store, charger)
           todo    == poll.todo \ {id}
           levels  == Upsert(poll.levels, id, level)
           place   == IF poll.todo = {id} THEN "sessions" ELSE "levels"
<1>1. poll = PollOf(poll.at, poll.cdrs, poll.chargers, poll.todo, poll.levels, poll.sessions,
                    poll.clock, poll.low)
  BY DEF ViewInvAt, PollIsRight, PollTypeOK
<1>2. /\ poll.at = "levels" /\ now' = now /\ stores' = stores
      /\ poll' = PollOf(place, poll.cdrs, poll.chargers, todo, levels, poll.sessions, poll.clock,
                        poll.low)
  <2>1. /\ poll.at = "levels" /\ UNCHANGED <<vars, stores>>
        /\ poll' = [poll EXCEPT !.todo = todo, !.levels = levels, !.at = place]
    <3>1. /\ poll' = [poll EXCEPT !.todo = @ \ {id}, !.levels = Upsert(@, id, level),
                                  !.at = IF poll.todo = {id} THEN After("chargers") ELSE @]
          /\ poll.at = "levels" /\ UNCHANGED <<vars, stores>>
      BY DEF ViewCharger, Viewed, Read
    <3> HIDE DEF level
    <3>2. QED
      BY <1>1, <3>1, AfterIs DEF PollOf
  <2> HIDE DEF todo, levels, place
  <2>2. QED
    BY <1>1, <2>1 DEF PollOf, vars
<1>3. id \in Holders /\ DOMAIN poll.chargers = DOMAIN poll.levels \cup poll.todo
  BY <1>2 DEF ViewInvAt, PollIsRight, LevelsAreRead
<1>4. id \in DOMAIN poll.chargers /\ s # NoSession /\ charger.vehicle \in Vehicle /\ s <= m
  <2>1. id \in DOMAIN poll.chargers /\ s # NoSession
    BY <1>3 DEF Holders
  <2>2. charger.vehicle \in Vehicle
    BY <2>1 DEF ViewInvAt, PollIsRight, PollTypeOK, IsCharger
  <2>3. s <= m
    BY <1>3 DEF ViewInvAt, PollIsRight, Named
  <2>4. QED
    BY <2>1, <2>2, <2>3
<1>5. level \in Nat
  BY <1>4, WhatIsRead, StoredLevelIs DEF StoreIsRight
<1>6. \/ /\ s \in DOMAIN Store.sessions
         /\ id \in DOMAIN poll.low => poll.low[id] <= level
      \/ IsGone(s)
  <2>1. CASE s \in DOMAIN Store.sessions
    <3>1. level = LevelAfter(charger.vehicle, Store.sessions[s].energy)
      BY <1>4, <2>1, WhatIsRead, StoredLevelIs DEF StoreIsRight
    <3>2. PollFits(Store.sessions)
      BY WhatIsRead
    <3> HIDE DEF level
    <3>3. QED
      BY <1>3, <2>1, <3>1, <3>2 DEF PollFits
  <2>2. CASE s \notin DOMAIN Store.sessions
    BY <1>4, <2>2, WhatIsRead
  <2>3. QED
    BY <2>1, <2>2
<1>7. \A i \in 1..Len(stores) :
        s \in DOMAIN stores[i].sessions =>
          level <= LevelAfter(charger.vehicle, stores[i].sessions[s].energy)
  BY <1>4, LevelsGoUp
<1>8. /\ DOMAIN levels = DOMAIN poll.levels \cup {id} /\ levels[id] = level
      /\ \A x \in DOMAIN levels : x # id => x \in DOMAIN poll.levels /\ levels[x] = poll.levels[x]
      /\ place \in {"sessions", "levels"} /\ (place = "sessions" => poll.todo = {id})
      /\ todo \subseteq poll.todo /\ poll.todo = todo \cup {id}
  <2> HIDE DEF level
  <2>1. QED
    BY DEF Upsert
<1> HIDE DEF level, todo, levels, place
<1>9. /\ poll'.at = place /\ poll'.cdrs = poll.cdrs /\ poll'.chargers = poll.chargers
      /\ poll'.todo = todo /\ poll'.levels = levels /\ poll'.sessions = poll.sessions
      /\ poll'.clock = poll.clock /\ poll'.low = poll.low
      /\ poll' = PollOf(poll'.at, poll'.cdrs, poll'.chargers, poll'.todo, poll'.levels,
                        poll'.sessions, poll'.clock, poll'.low)
  BY <1>2, PollParts
<1>10. Holders' = Holders /\ Named' = Named
  BY <1>9 DEF Holders, Named
<1>11. PollTypeOK'
  <2>1. \A x \in Holders \cap DOMAIN levels : levels[x] \in Nat
    BY <1>5, <1>8 DEF ViewInvAt, PollIsRight, PollTypeOK
  <2>2. QED
    BY <1>2, <1>8, <1>9, <1>10, <2>1 DEF ViewInvAt, PollIsRight, PollTypeOK, PlacesOfPoll
<1>12. LevelsAreRead'
  <2>1. poll.todo \subseteq Holders
    BY <1>2 DEF ViewInvAt, PollIsRight, LevelsAreRead
  <2>2. place = "sessions" => DOMAIN levels = DOMAIN poll.chargers
    BY <1>3, <1>8
  <2>3. todo \subseteq Holders /\ DOMAIN poll.chargers = DOMAIN levels \cup todo
    BY <1>3, <1>8, <2>1
  <2>4. QED
    BY <1>8, <1>9, <1>10, <2>2, <2>3 DEF LevelsAreRead
<1>13. LevelsAreReal'
  <2>1. \A x : IsGone(x)' <=> IsGone(x)
    BY <1>2 DEF IsGone
  <2>2. ASSUME NEW x \in DOMAIN levels \cap DOMAIN poll.low
        PROVE  /\ x \in DOMAIN poll.chargers
               /\ x \in Holders =>
                    poll.low[x] <= levels[x] \/ IsGone(poll.chargers[x].session)
               /\ x \notin Holders => poll.low[x] = levels[x]
    <3>1. CASE x = id
      BY <1>3, <1>4, <1>6, <1>8, <2>2, <3>1
    <3>2. CASE x # id
      BY <1>8, <2>2, <3>2 DEF ViewInvAt, PollIsRight, LevelsAreReal
    <3>3. QED
      BY <3>1, <3>2
  <2>3. QED
    BY <1>9, <1>10, <2>1, <2>2 DEF LevelsAreReal
<1>14. ASSUME NEW i \in 1..Len(stores) PROVE PollFits(stores[i].sessions)'
  <2> DEFINE b == stores[i].sessions
  <2>1. PollFits(b)
    BY DEF ViewInvAt, PollIsRight
  <2>2. s \in DOMAIN b => level <= LevelAfter(charger.vehicle, b[s].energy)
    BY <1>7
  <2>3. b' = b
    BY <1>2
  <2> HIDE DEF b
  <2>4. PollFits(b)'
    BY <1>8, <1>9, <1>10, <2>1, <2>2, <2>3 DEF PollFits
  <2>5. QED
    BY <2>4 DEF b
<1>15. QED
  <2>1. \A i \in 1..Len(stores') : PollFits(stores[i].sessions)'
    BY <1>2, <1>14
  <2>2. poll'.at \notin {"clock", "sent"}
    BY <1>8, <1>9
  <2>3. \A x \in Named' : x <= m
    BY <1>10 DEF ViewInvAt, PollIsRight
  <2>4. QED
    BY <1>11, <1>12, <1>13, <2>1, <2>2, <2>3 DEF PollIsRight

\* The sessions are read: what the poll has read before fits them.
LEMMA ListSessionsStep ==
  ASSUME NEW m \in Nat, ViewInvAt(m), ListSessions
  PROVE  PollIsRight(m)'
<1>1. poll = PollOf(poll.at, poll.cdrs, poll.chargers, poll.todo, poll.levels, poll.sessions,
                    poll.clock, poll.low)
  BY DEF ViewInvAt, PollIsRight, PollTypeOK
<1>2. /\ poll.at = "sessions" /\ now' = now /\ stores' = stores
      /\ poll' = PollOf("clock", poll.cdrs, poll.chargers, poll.todo, poll.levels,
                        Store.sessions, poll.clock, EmptyRepository)
  BY <1>1, AfterIs DEF ListSessions, Read, PollOf, vars
<1>3. /\ poll'.at = "clock" /\ poll'.cdrs = poll.cdrs /\ poll'.chargers = poll.chargers
      /\ poll'.todo = poll.todo /\ poll'.levels = poll.levels /\ poll'.sessions = Store.sessions
      /\ poll'.clock = poll.clock /\ poll'.low = EmptyRepository
      /\ poll' = PollOf(poll'.at, poll'.cdrs, poll'.chargers, poll'.todo, poll'.levels,
                        poll'.sessions, poll'.clock, poll'.low)
  BY <1>2, PollParts
<1>4. Holders' = Holders /\ Named' = Named /\ DOMAIN poll'.low = {}
  BY <1>3 DEF Holders, Named, EmptyRepository
<1>5. PollTypeOK'
  <2>1. SessionsAre(Store.sessions, now)
    BY WhatIsRead DEF StoreIsRight
  <2>2. QED
    BY <1>2, <1>3, <1>4, <2>1 DEF ViewInvAt, PollIsRight, PollTypeOK, PlacesOfPoll
<1>6. LevelsAreRead' /\ LevelsAreReal'
  BY <1>2, <1>3, <1>4 DEF LevelsAreRead, LevelsAreReal, ViewInvAt, PollIsRight
<1>7. \A s \in Named : s <= m
  BY DEF ViewInvAt, PollIsRight
<1>8. \A i \in 1..Len(stores') : PollFits(stores[i].sessions)'
  BY <1>2, <1>3, <1>4 DEF PollFits, ViewInvAt, PollIsRight
<1>9. PollFits(poll.sessions)'
  <2>1. PollFits(Store.sessions)
    BY WhatIsRead
  <2>2. QED
    BY <1>3, <1>4, <2>1 DEF PollFits
<1>10. \A s \in Named' \ DOMAIN poll'.sessions : IsGone(s)'
  <2>1. \A s \in Named \ DOMAIN Store.sessions : IsGone(s)
    BY <1>7, WhatIsRead
  <2>2. QED
    BY <1>2, <1>3, <1>4, <2>1 DEF IsGone
<1>11. QED
  BY <1>3, <1>4, <1>5, <1>6, <1>7, <1>8, <1>9, <1>10 DEF PollIsRight

\* The clock is read last: it says what time it is.
LEMMA ReadClockStep ==
  ASSUME NEW m \in Nat, ViewInvAt(m), ReadClock
  PROVE  PollIsRight(m)'
<1>1. poll = PollOf(poll.at, poll.cdrs, poll.chargers, poll.todo, poll.levels, poll.sessions,
                    poll.clock, poll.low)
  BY DEF ViewInvAt, PollIsRight, PollTypeOK
<1>2. /\ poll.at = "clock" /\ now' = now /\ stores' = stores
      /\ poll' = PollOf("sent", poll.cdrs, poll.chargers, poll.todo, poll.levels,
                        poll.sessions, now, poll.low)
  BY <1>1, AfterIs DEF ReadClock, Read, PollOf, vars, ViewInvAt
<1>3. /\ poll'.at = "sent" /\ poll'.cdrs = poll.cdrs /\ poll'.chargers = poll.chargers
      /\ poll'.todo = poll.todo /\ poll'.levels = poll.levels /\ poll'.sessions = poll.sessions
      /\ poll'.clock = now /\ poll'.low = poll.low
      /\ poll' = PollOf(poll'.at, poll'.cdrs, poll'.chargers, poll'.todo, poll'.levels,
                        poll'.sessions, poll'.clock, poll'.low)
  BY <1>2, PollParts
<1>4. Holders' = Holders /\ Named' = Named
  BY <1>3 DEF Holders, Named
<1>5. PollTypeOK'
  BY <1>2, <1>3, <1>4 DEF ViewInvAt, PollIsRight, PollTypeOK, PlacesOfPoll
<1>6. \A s : IsGone(s)' <=> IsGone(s)
  BY <1>2 DEF IsGone
<1>7. LevelsAreRead' /\ LevelsAreReal'
  BY <1>2, <1>3, <1>4, <1>6 DEF LevelsAreRead, LevelsAreReal, ViewInvAt, PollIsRight
<1>8. \A i \in 1..Len(stores') : PollFits(stores[i].sessions)'
  <2>1. ASSUME NEW i \in 1..Len(stores) PROVE PollFits(stores[i].sessions)'
    <3> DEFINE b == stores[i].sessions
    <3>1. PollFits(b) /\ b' = b
      BY <1>2 DEF ViewInvAt, PollIsRight
    <3> HIDE DEF b
    <3>2. PollFits(b)'
      BY <1>3, <1>4, <3>1 DEF PollFits
    <3>3. QED
      BY <3>2 DEF b
  <2>2. QED
    BY <1>2, <2>1
<1>9. PollFits(poll.sessions)' /\ \A s \in Named' \ DOMAIN poll'.sessions : IsGone(s)'
  BY <1>2, <1>3, <1>4, <1>6 DEF PollFits, ViewInvAt, PollIsRight
<1>10. \A s \in Named' : s <= m
  BY <1>4 DEF ViewInvAt, PollIsRight
<1>11. QED
  BY <1>2, <1>3, <1>5, <1>7, <1>8, <1>9, <1>10 DEF PollIsRight

\* A new poll knows nothing, which is right at any time.
NewIsRight == \A m : poll = NewPoll => PollIsRight(m)

LEMMA NewPollIsRight == NewIsRight
<1> SUFFICES ASSUME NEW m, poll = NewPoll PROVE PollIsRight(m)
  BY DEF NewIsRight
<1>1. poll = PollOf("cdrs", EmptyRepository, EmptyRepository, {}, EmptyRepository,
                    EmptyRepository, 0, EmptyRepository)
  <2>1. Head(ReadingOrder) = "cdrs"
    BY DEF ReadingOrder
  <2>2. QED
    BY <2>1 DEF NewPoll, PollOf
<1>2. DOMAIN EmptyRepository = {} /\ SessionsAre(EmptyRepository, now)
  BY DEF EmptyRepository, SessionsAre, IsRepository
<1>3. /\ poll.at = "cdrs" /\ poll.cdrs = EmptyRepository /\ poll.chargers = EmptyRepository
      /\ poll.todo = {} /\ poll.levels = EmptyRepository /\ poll.sessions = EmptyRepository
      /\ poll.low = EmptyRepository
      /\ poll = PollOf(poll.at, poll.cdrs, poll.chargers, poll.todo, poll.levels, poll.sessions,
                       poll.clock, poll.low)
  BY <1>1, PollParts
<1>4. Holders = {} /\ Named = {}
  BY <1>2, <1>3 DEF Holders, Named
<1>5. PollTypeOK
  BY <1>2, <1>3, <1>4 DEF PollTypeOK, PlacesOfPoll
<1>6. QED
  BY <1>2, <1>3, <1>4, <1>5 DEF PollIsRight, LevelsAreRead, LevelsAreReal, PollFits

(***************************************************************************)
(* What happens to the whole.                                              *)
(***************************************************************************)

\* What is read is what the handlers are done with, or a state that they have named all the sessions
\* of: a poll may come to know the sessions up to m.
LEMMA StoreIsKnown ==
  ASSUME NEW n, ViewInvAt(n)
  PROVE  \E m \in Nat : ViewInvAt(m) /\ KnowsUpTo(Store, m)
<1>1. CASE Len(stores) = 1
  <2> DEFINE m == ledger.lastSessionID
  <2>1. Store = Final /\ KnowsUpTo(Store, m)
    BY <1>1, FinalKnows DEF ViewInvAt, Latest, Store
  <2>2. m \in Nat /\ n \in Nat /\ n <= m
    BY DEF ViewInvAt, IInv, TypeOK, IsLedger
  <2>3. Chain(stores, m, now)
    <3>1. \A i \in 1..1 : i = 1
      OBVIOUS
    <3>2. ComesOf(stores[1].sessions, stores[1].sessions, m)
      BY <1>1, <3>1, ComesOfItself DEF ViewInvAt, Chain, StoreIsRight
    <3>3. QED
      BY <1>1, <3>1, <3>2 DEF ViewInvAt, Chain
  <2>4. PollIsRight(m)
    <3>1. Named \subseteq Nat
      BY DEF ViewInvAt, PollIsRight, PollTypeOK, Named, Holders, IsCDR, IsCharger
    <3>2. \A s \in Named : s <= n
      BY DEF ViewInvAt, PollIsRight
    <3>3. \A s \in Named : s <= m
      BY <2>2, <3>1, <3>2
    <3>4. QED
      BY <3>3 DEF ViewInvAt, PollIsRight
  <2>5. ViewInvAt(m)
    BY <2>2, <2>3, <2>4 DEF ViewInvAt
  <2>6. QED
    BY <2>1, <2>2, <2>5
<1>2. CASE Len(stores) # 1
  <2>1. 1 \in 1..(Len(stores) - 1)
    <3> DEFINE k == Len(stores)
    <3>1. k \in Nat /\ k >= 1
      BY DEF ViewInvAt, Chain, IsSequence
    <3>2. k # 1
      BY <1>2
    <3> HIDE DEF k
    <3>3. 1 \in 1..(k - 1)
      BY <3>1, <3>2
    <3>4. QED
      BY <3>3 DEF k
  <2>2. KnowsUpTo(Store, n)
    BY <2>1 DEF ViewInvAt, Chain, Store
  <2>3. QED
    BY <2>2 DEF ViewInvAt
<1>3. QED
  BY <1>1, <1>2

\* What is left as it is stays right.
LEMMA TheRestIsRight ==
  ASSUME NEW m, ViewInvAt(m), UNCHANGED <<vars, clockVars, stores>>
  PROVE  /\ IInv' /\ ClockTypeOK' /\ now' = SimulatedNow' /\ m <= ledger'.lastSessionID
         /\ Chain(stores', m, now') /\ Latest(stores') = Final'
<1>1. IInv'
  BY StutteringStep DEF ViewInvAt
<1>2. ClockTypeOK' /\ now' = SimulatedNow' /\ m <= ledger'.lastSessionID
  BY DEF ViewInvAt, vars, clockVars, ClockTypeOK, SimulatedNow, SimulatedAt, Since, WallNow
<1>3. Chain(stores', m, now') /\ Latest(stores') = Final'
  BY DEF ViewInvAt, vars, Final
<1>4. QED
  BY <1>1, <1>2, <1>3

\* The poll goes on, or a new one begins.
LEMMA ReadStep ==
  ASSUME ViewInv, StateViewStep
  PROVE  ViewInv'
<1> PICK m \in Nat : ViewInvAt(m) /\ KnowsUpTo(Store, m)
  BY StoreIsKnown DEF ViewInv
<1>1. UNCHANGED <<vars, clockVars, stores>>
  BY DEF StateViewStep, ReadCDRs, ListChargers, ViewCharger, Viewed, ListSessions, ReadClock,
         PollAgain, Read
<1>2. PollIsRight(m)'
  <2>1. CASE PollAgain
    <3>1. NewIsRight'
      BY NewPollIsRight, PTL
    <3>2. QED
      BY <2>1, <3>1 DEF PollAgain, Read, NewIsRight
  <2>2. QED
    BY <2>1, ReadCDRsStep, ListChargersStep, ListSessionsStep, ReadClockStep, ViewChargerStep
       DEF StateViewStep
<1>3. ViewInvAt(m)'
  BY <1>1, <1>2, TheRestIsRight DEF ViewInvAt
<1>4. QED
  BY <1>3 DEF ViewInv

\* A handler of the controllers, whichever it is, begins with what the last one has left.
LEMMA HandleStep ==
  ASSUME NoIDLooksIssued, ViewInv, NEW ACTION action, Handle(action), Next, WhatIsCalled,
         poll.at # "sent"
  PROVE  ViewInv'
<1> PICK n \in Nat : ViewInvAt(n)
  BY DEF ViewInv
<1>1. /\ IInv /\ IInv' /\ n <= ledger.lastSessionID
      /\ ledger.lastSessionID \in Nat /\ ledger.lastSessionID <= ledger'.lastSessionID
  BY NextIsRight DEF ViewInvAt, SessionsGoOn
<1> PICK m \in Nat : m = ledger.lastSessionID
  BY <1>1
<1>2. /\ Len(stores) = 1 /\ Store = Final /\ stores' = WrittenInTurn(Final, ledger', chargers')
      /\ UNCHANGED <<clockVars, poll>> /\ UNCHANGED now /\ now \in Nat
  BY <1>1 DEF ViewInvAt, Handle, HandlerIsDone, Store, Latest, WhatIsCalled, IInv, TypeOK
<1>3. StoreIsRight(Final, now) /\ SessionsAre(ledger.sessions, now)
  <2>1. StoreIsRight(Store, now)
    BY WhatIsRead
  <2>2. QED
    BY <1>2, <2>1 DEF StoreIsRight, Final
<1>4. Chain(stores', m, now) /\ Latest(stores') = Final' /\ stores'[1] = Final
  BY <1>1, <1>2, <1>3, HandlerWrites
<1>5. StoresComeOf(n)
  <2>1. ASSUME NEW j \in 1..Len(stores')
        PROVE  StoreIsRight(stores'[j], now) /\ ComesOf(Final.sessions, stores'[j].sessions, n)
    <3>1. 1 \in 1..Len(stores') /\ 1 <= j
      OBVIOUS
    <3>2. StoreIsRight(stores'[j], now) /\ ComesOf(Final.sessions, stores'[j].sessions, m)
      BY <1>4, <3>1 DEF Chain
    <3>3. DOMAIN stores'[j].sessions \subseteq Nat
      BY <3>2 DEF StoreIsRight, SessionsAre, IsRepository
    <3>4. QED
      BY <1>1, <3>2, <3>3 DEF ComesOf
  <2>2. 1 \in 1..Len(stores) /\ stores[1] = Final
    BY <1>2 DEF Store
  <2>3. QED
    BY <1>2, <1>3, <2>1, <2>2 DEF StoresComeOf
<1>6. PollIsRight(m)'
  BY <1>1, <1>2, <1>5, PollGoesOn DEF ViewInvAt
<1>7. ClockTypeOK' /\ now' = SimulatedNow'
  BY <1>2 DEF ViewInvAt, clockVars, ClockTypeOK, SimulatedNow, SimulatedAt, Since, WallNow
<1>8. ViewInvAt(m)'
  BY <1>1, <1>2, <1>4, <1>6, <1>7 DEF ViewInvAt
<1>9. QED
  BY <1>8 DEF ViewInv

\* The next write of a handler: what will be stored is what was to be stored.
LEMMA WriteStep ==
  ASSUME ViewInv, Write, poll.at # "sent"
  PROVE  ViewInv'
<1> PICK n \in Nat : ViewInvAt(n)
  BY DEF ViewInv
<1>1. /\ UNCHANGED <<now, ledger, chargers>> /\ UNCHANGED vars /\ UNCHANGED clockVars
      /\ UNCHANGED poll /\ stores' = Tail(stores) /\ Len(stores) # 1 /\ Chain(stores, n, now)
  BY DEF Write, HandlerIsDone, vars, ViewInvAt
<1>2. /\ Chain(stores', n, now) /\ Latest(stores') = Latest(stores)
      /\ \A i \in 1..Len(stores') : i + 1 \in 1..Len(stores) /\ stores'[i] = stores[i + 1]
  <2>1. IsRest(stores', stores)
    BY <1>1 DEF IsRest
  <2>2. Chain(stores', n, now) /\ Latest(stores') = Latest(stores) /\ IsOneOn(stores', stores)
    BY <1>1, <2>1, ShorterChain
  <2>3. QED
    BY <2>2 DEF IsOneOn
<1>3. IInv' /\ ClockTypeOK' /\ now' = SimulatedNow' /\ now \in Nat
  <2>1. IInv'
    BY <1>1, StutteringStep DEF ViewInvAt
  <2>2. ClockTypeOK' /\ now' = SimulatedNow'
    BY <1>1 DEF ViewInvAt, clockVars, ClockTypeOK, SimulatedNow, SimulatedAt, Since, WallNow
  <2>3. QED
    BY <2>1, <2>2 DEF ViewInvAt, IInv, TypeOK
<1>4. StoresComeOf(n)
  <2>1. ASSUME NEW j \in 1..Len(stores')
        PROVE  /\ StoreIsRight(stores'[j], now)
               /\ ComesOf(stores'[j].sessions, stores'[j].sessions, n)
    <3>1. StoreIsRight(stores'[j], now)
      BY <1>2 DEF Chain
    <3>2. QED
      BY <3>1, ComesOfItself DEF StoreIsRight
  <2>2. QED
    BY <1>1, <1>2, <2>1 DEF StoresComeOf
<1>5. PollIsRight(n)'
  BY <1>1, <1>3, <1>4, PollGoesOn DEF ViewInvAt
<1>6. ViewInvAt(n)'
  BY <1>1, <1>2, <1>3, <1>5 DEF ViewInvAt, Final
<1>7. QED
  BY <1>6 DEF ViewInv

\* The clock goes on: what was stored is still right, and an answer is not sent in this step.
LEMMA ClockStepIsRight ==
  ASSUME ViewInv, ClockStep, poll.at # "sent"
  PROVE  ViewInv'
<1> PICK n \in Nat : ViewInvAt(n)
  BY DEF ViewInv
<1>1. /\ ClockNext /\ (OnWallClock => wall' >= wall) /\ now' = SimulatedNow'
      /\ ledger' = Fresh(ledger)
      /\ UNCHANGED <<chargers, lastChargerID, lastTickAt, tick, stores, poll>>
      /\ IInv /\ ClockTypeOK /\ now = SimulatedNow
  BY DEF ClockStep, ViewInvAt
<1>2. ClockTypeOK'
  BY <1>1, ClockTypeStep
<1>3. now \in Nat /\ now' \in Nat /\ now <= now'
  <2>1. now \in Nat
    BY <1>1 DEF IInv, TypeOK
  <2>2. SimulatedNow' \in Int
    <3>1. (ClockTypeOK => SimulatedNow \in Int)'
      BY SimulatedNowIsInt, PTL
    <3>2. QED
      BY <1>2, <3>1
  <2>3. SimulatedNow' >= SimulatedNow
    <3>1. wall \in Int /\ wall' \in Int
      BY <1>1, <1>2 DEF ClockTypeOK
    <3>2. ~(OnWallClock /\ wall' < wall)
      BY <1>1, <3>1
    <3>3. QED
      BY <1>1, <3>2, ClockGoesForward DEF Forward
  <2>4. QED
    BY <1>1, <2>1, <2>2, <2>3
<1>4. IInv' /\ n <= ledger'.lastSessionID
  <2>1. IInv' /\ ledger.lastSessionID \in Nat /\ ledger.lastSessionID <= ledger'.lastSessionID
    BY <1>1, <1>3, LaterStep DEF SessionsGoOn
  <2>2. ledger'.lastSessionID \in Nat
    BY <2>1 DEF IInv, TypeOK, IsLedger
  <2>3. QED
    BY <2>1, <2>2 DEF ViewInvAt
<1>5. Chain(stores', n, now') /\ Latest(stores') = Final'
  <2>1. Chain(stores, n, now')
    BY <1>3, ChainLater DEF ViewInvAt
  <2>2. Final' = Final
    <3>1. IsLedgerRecord(ledger)
      BY <1>1 DEF IInv, TypeOK, IsLedger, IsLedgerRecord, LedgerOf
    <3>2. ledger'.sessions = ledger.sessions /\ ledger'.cdrs = ledger.cdrs
      BY <1>1, <3>1, FreshIs, LedgerParts
    <3>3. QED
      BY <1>1, <3>2 DEF Final
  <2>3. QED
    BY <1>1, <2>1, <2>2 DEF ViewInvAt
<1>6. StoresComeOf(n)
  <2>1. \A j \in 1..Len(stores) : StoreIsRight(stores[j], now')
    BY <1>1, <1>5 DEF Chain
  <2>2. \A j \in 1..Len(stores) : ComesOf(stores[j].sessions, stores[j].sessions, n)
    BY <2>1, ComesOfItself DEF StoreIsRight
  <2>3. QED
    BY <1>1, <2>1, <2>2 DEF StoresComeOf
<1>7. PollIsRight(n)'
  BY <1>1, <1>3, <1>6, PollGoesOn DEF ViewInvAt
<1>8. ViewInvAt(n)'
  BY <1>1, <1>2, <1>4, <1>5, <1>7 DEF ViewInvAt
<1>9. QED
  BY <1>8 DEF ViewInv

\* At the start nothing is stored, nothing is read and no time has passed.
LEMMA ViewInvInit == ViewInit => ViewInv
<1> SUFFICES ASSUME ViewInit PROVE ViewInv
  OBVIOUS
<1>1. Init /\ ClockInit /\ stores = <<Final>> /\ poll = NewPoll
  BY DEF ViewInit, Final
<1>2. IInv /\ ClockTypeOK /\ now = SimulatedNow /\ now = 0
  BY <1>1, InitIsRight, ClockTypeInit, ClockConfig
     DEF Init, ClockInit, SimulatedNow, SimulatedAt, Since, WallNow
<1>3. ledger.sessions = EmptyRepository /\ ledger.lastSessionID \in Nat
  BY <1>1, <1>2 DEF Init, EmptyLedger, IInv, TypeOK, IsLedger
<1>4. StoreIsRight(Final, now)
  <2>1. SessionsAre(ledger.sessions, now)
    BY <1>3 DEF SessionsAre, IsRepository, EmptyRepository
  <2>2. QED
    BY <1>2, <2>1, FinalIsRight
<1>5. Chain(stores, 0, now) /\ Latest(stores) = Final
  BY <1>1, <1>4, ChainOfOne
<1>6. PollIsRight(0)
  BY <1>1, NewPollIsRight DEF NewIsRight
<1>7. ViewInvAt(0)
  BY <1>2, <1>3, <1>5, <1>6 DEF ViewInvAt
<1>8. QED
  BY <1>7 DEF ViewInv

\* Each step keeps the invariant.
LEMMA ViewInvStep ==
  ASSUME NoIDLooksIssued, ViewInv, [ViewNext]_viewVars
  PROVE  ViewInv'
<1>1. CASE StateViewStep
  BY <1>1, ReadStep
<1>2. ASSUME poll.at # "sent", Handle(Manage) \/ Handle(PersonActs) \/ Handle(Remote)
                                 \/ Handle(TickLoop)
      PROVE  ViewInv'
  <2>1. IInv
    BY DEF ViewInv, ViewInvAt
  <2>2. CASE Handle(Manage)
    BY <1>2, <2>1, <2>2, CalledToManage, HandleStep DEF Handle, Next
  <2>3. CASE Handle(PersonActs)
    BY <1>2, <2>1, <2>3, CalledByPerson, HandleStep DEF Handle, Next
  <2>4. CASE Handle(Remote)
    BY <1>2, <2>1, <2>4, CalledRemotely, HandleStep DEF Handle, Next
  <2>5. CASE Handle(TickLoop)
    BY <1>2, <2>1, <2>5, CalledByTick, HandleStep DEF Handle, Next
  <2>6. QED
    BY <1>2, <2>2, <2>3, <2>4, <2>5
<1>3. CASE poll.at # "sent" /\ Write
  BY <1>3, WriteStep
<1>4. CASE poll.at # "sent" /\ ClockStep
  BY <1>4, ClockStepIsRight
<1>5. CASE UNCHANGED viewVars
  <2>1. UNCHANGED <<vars, clockVars, stores, poll>>
    BY <1>5 DEF viewVars
  <2> PICK m \in Nat : ViewInvAt(m)
    BY DEF ViewInv
  <2>2. PollIsRight(m)'
    BY <2>1 DEF ViewInvAt, vars, PollIsRight, PollTypeOK, LevelsAreRead, LevelsAreReal, Named,
                Holders, IsGone, PollFits
  <2>3. ViewInvAt(m)'
    BY <2>1, <2>2, TheRestIsRight DEF ViewInvAt
  <2>4. QED
    BY <2>3 DEF ViewInv
<1>6. QED
  BY <1>1, <1>2, <1>3, <1>4, <1>5 DEF ViewNext, Request, Background

LEMMA ViewInvHolds == ASSUME NoIDLooksIssued PROVE ViewSpec => []ViewInv
<1>1. ViewInit => ViewInv
  BY ViewInvInit
<1>2. ViewInv /\ [ViewNext]_viewVars => ViewInv'
  BY NoIDLooksIssued, ViewInvStep
<1>3. QED
  BY <1>1, <1>2, PTL DEF ViewSpec

(***************************************************************************)
(* What the operator API shows.                                            *)
(***************************************************************************)

\* An answer hangs together, although its parts were read at different moments, between any writes
\* of any handlers: what it bills it shows as completed, with that bill, and what it shows as
\* charging it shows with at least the energy that the battery's level says.  Only a session that
\* retention has forgotten is missing.
THEOREM AnswersHangTogether == ASSUME NoIDLooksIssued PROVE ViewSpec => []AnswerHangsTogether
<1>1. ViewInv => AnswerHangsTogether
  <2> SUFFICES ASSUME NEW n \in Nat, ViewInvAt(n), poll.at = "sent"
               PROVE  AnswerHangsTogether
    BY DEF ViewInv, AnswerHangsTogether
  <2>1. /\ PollFits(poll.sessions) /\ PollTypeOK /\ DOMAIN poll.levels = DOMAIN poll.chargers
        /\ \A s \in Named \ DOMAIN poll.sessions : IsGone(s)
    BY DEF ViewInvAt, PollIsRight, LevelsAreRead
  <2>2. \A s : IsGone(s) => Forgotten(s)
    BY WhatIsRead DEF IsGone, Forgotten, Store
  <2>3. ASSUME NEW d \in DOMAIN poll.cdrs
        PROVE  LET s == poll.cdrs[d].sessionID
               IN  IF s \in DOMAIN poll.sessions
                   THEN /\ poll.sessions[s].state = CompletedState
                        /\ poll.cdrs[d] = CDROf(s, poll.sessions[s])
                   ELSE Forgotten(s)
    BY <2>1, <2>2 DEF PollFits, BillFits, Named
  <2>4. ASSUME NEW id \in Holders
        PROVE  LET s == poll.chargers[id].session
               IN  IF s \in DOMAIN poll.sessions
                   THEN /\ poll.sessions[s].chargerID = id
                        /\ poll.levels[id] <= StoredLevel(poll, poll.chargers[id])
                   ELSE Forgotten(s)
    <3> DEFINE charger == poll.chargers[id]
               s       == charger.session
    <3>1. id \in DOMAIN poll.levels /\ charger.vehicle \in Vehicle /\ s \in Named
      BY <2>1 DEF Holders, PollTypeOK, IsCharger, Named
    <3>2. CASE s \in DOMAIN poll.sessions
      <4>1. /\ poll.sessions[s].chargerID = id
            /\ poll.levels[id] <= LevelAfter(charger.vehicle, poll.sessions[s].energy)
        BY <2>1, <3>1, <3>2 DEF PollFits, HolderFits
      <4>2. StoredLevel(poll, charger) = LevelAfter(charger.vehicle, poll.sessions[s].energy)
        BY <2>1, <3>1, <3>2, StoredLevelIs DEF PollTypeOK
      <4>3. QED
        BY <3>2, <4>1, <4>2
    <3>3. CASE s \notin DOMAIN poll.sessions
      BY <2>1, <2>2, <3>1, <3>3
    <3>4. QED
      BY <3>2, <3>3
  <2>5. QED
    BY <2>3, <2>4 DEF AnswerHangsTogether, Holders
<1>2. QED
  BY <1>1, ViewInvHolds, PTL

\* A level that a poll reads is not below what it was when the chargers were listed, also when the
\* session ends in between and the vehicle takes over its energy, unless the session is forgotten.
THEOREM LevelsWereReal == ASSUME NoIDLooksIssued PROVE ViewSpec => []LevelWasReal
<1>1. ViewInv => LevelWasReal
  <2> SUFFICES ASSUME NEW n \in Nat, ViewInvAt(n),
                      NEW id \in DOMAIN poll.levels \cap DOMAIN poll.low,
                      LET s == poll.chargers[id].session IN s = NoSession \/ ~Forgotten(s)
               PROVE  poll.levels[id] >= poll.low[id]
    BY DEF ViewInv, LevelWasReal
  <2>1. \A s : IsGone(s) => Forgotten(s)
    BY WhatIsRead DEF IsGone, Forgotten, Store
  <2>2. PollTypeOK /\ LevelsAreReal
    BY DEF ViewInvAt, PollIsRight
  <2>3. poll.low[id] \in Nat /\ id \in DOMAIN poll.chargers
    BY <2>2 DEF PollTypeOK, LevelsAreReal
  <2>4. CASE id \in Holders
    <3>1. poll.low[id] <= poll.levels[id] /\ poll.levels[id] \in Nat
      BY <2>1, <2>2, <2>4 DEF LevelsAreReal, Holders, PollTypeOK
    <3>2. QED
      BY <2>3, <3>1
  <2>5. CASE id \notin Holders
    BY <2>2, <2>3, <2>5 DEF LevelsAreReal
  <2>6. QED
    BY <2>4, <2>5
<1>2. QED
  BY <1>1, ViewInvHolds, PTL

\* Nothing in an answer is later than the clock in it, whatever the clock's speed was meanwhile.
THEOREM NothingComesFromTheFuture ==
  ASSUME NoIDLooksIssued PROVE ViewSpec => []NothingIsFromTheFuture
<1>1. ViewInv => NothingIsFromTheFuture
  BY DEF ViewInv, ViewInvAt, PollIsRight, PollTypeOK, NothingIsFromTheFuture, SessionsAre, IsCDR
<1>2. QED
  BY <1>1, ViewInvHolds, PTL

\* The clock that the API sets is the one that everything is stamped with: with controllers and
\* polls around it, it still keeps the speed it has at each moment.
THEOREM TimeIsKeptMeanwhile == ViewSpec => []TimeKeepsItsSpeed
<1>1. ViewInit => ClockInit
  BY DEF ViewInit
<1>2. [ViewNext]_viewVars => [ClockNext]_clockVars
  BY DEF ViewNext, viewVars, StateViewStep, ReadCDRs, ListChargers, ViewCharger, Viewed,
         ListSessions, ReadClock, PollAgain, Read, Request, Background, Handle, Write, ClockStep
<1>3. QED
  BY <1>1, <1>2, TimeIsKept, PTL DEF ViewSpec, ClockSpec
=============================================================================
