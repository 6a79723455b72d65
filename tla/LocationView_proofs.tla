------------------------ MODULE LocationView_proofs ------------------------
(***************************************************************************)
(* The eMSP's view of sites and chargers, for any number of them, of       *)
(* changes and of concurrent pulls, every queue, and whatever becomes of   *)
(* the pushes.                                                             *)
(*                                                                         *)
(* What the store shows of an EVSE is made one value, Shown, that is       *)
(* "REMOVED" if there is none, and so is what the CPO has, Actual.  The    *)
(* inductive invariant ViewInv says of every subject that is not lost that *)
(* the last push about it says what the CPO has, or if there is none that  *)
(* the store shows it; and of every pull how far it can be trusted.        *)
(***************************************************************************)
EXTENDS LocationView, SequenceTheorems, TLAPS

Statuses == {"AVAILABLE", "CHARGING", "OUTOFORDER", "BLOCKED"}
Pushes == [site : SiteIDs, evse : ChargerIDs \cup {NoEVSE}, status : Statuses \cup {"REMOVED", "KNOWN"}]

\* What the CPO has of a charger at a site, and what the eMSP shows of it there.
Actual(s, c) ==
  IF c \in DOMAIN chargers /\ chargers[c].site = s THEN EVSEStatus(chargers[c].state) ELSE "REMOVED"
Shown(s, c) ==
  IF c \in DOMAIN Location(s).evses THEN Location(s).evses[c] ELSE "REMOVED"

\* The push says what the CPO has now.
IsRight(push) == push.evse # NoEVSE => push.status = Actual(push.site, push.evse)

CPOInv ==
  /\ sites \subseteq SiteIDs
  /\ IsRepository(chargers, ChargerIDs, [site : SiteIDs, state : States])
  /\ \A c \in DOMAIN chargers : chargers[c].site \in sites

EVSEsAreShown(evses) == \A c \in DOMAIN evses : evses[c] # "REMOVED"

StoreInv ==
  \A s \in DOMAIN locations :
    /\ locations[s] = [known |-> locations[s].known, evses |-> locations[s].evses]
    /\ EVSEsAreShown(locations[s].evses)

\* No later push of the queue is about the same subject.
IsLast(i) == \A j \in DOMAIN queue : j > i => Subject(queue[j]) # Subject(queue[i])

WaitingSubjects == {Subject(queue[i]) : i \in DOMAIN queue}

\* The last push about a subject that is not lost is right.
PushInv ==
  /\ queue \in Seq(Pushes) /\ sending \in Pushes \cup {NoPush} /\ late \subseteq Pushes
  /\ \A i \in DOMAIN queue :
       Subject(queue[i]) \notin lost /\ IsLast(i) => IsRight(queue[i])
  /\ sending # NoPush /\ Subject(sending) \notin lost \cup WaitingSubjects => IsRight(sending)

\* Of a subject that is not lost and that no push is about, the store shows what there is.
AgreeInv ==
  \A s \in SiteIDs :
    /\ s \in sites /\ Settled(<<s, NoEVSE>>) => Location(s).known
    /\ \A c \in ChargerIDs : Settled(<<s, c>>) => Shown(s, c) = Actual(s, c)

Asking == [phase : {"chargers"}, sites : SUBSET SiteIDs]
IsApplying(request) ==
  /\ request = [phase |-> "apply", found |-> request.found]
  /\ DOMAIN request.found \subseteq SiteIDs
  /\ \A s \in DOMAIN request.found : EVSEsAreShown(request.found[s])

\* The store shows of a site what a pull that is left alone finds there.
IsApplied(s) ==
  /\ Location(s).known
  /\ DOMAIN EVSEsAt(s) # {} => \A c \in ChargerIDs : Shown(s, c) = Actual(s, c)

\* An answer to a pull is as good as new as long as nothing has changed, and has had its effect if no
\* push and no other pull came in between.
IsCalm(p) ==
  /\ \A q \in Pullers \ {p} : pull[q] = Idle
  /\ pull[p].phase = "chargers" => pull[p].sites = sites
  /\ pull[p].phase = "apply" => \A s \in DOMAIN pull[p].found : pull[p].found[s] = EVSEsAt(s)
IsQuiet(p) ==
  /\ queue = << >> /\ sending = NoPush /\ late = {}
  /\ pull[p].phase = "apply" => \A s \in sites \ DOMAIN pull[p].found : IsApplied(s)

PullInv ==
  /\ pull = [p \in Pullers |-> pull[p]] /\ calm \in [Pullers -> {"busy", "changeless", "quiet"}]
  /\ \A p \in Pullers : pull[p] = Idle \/ pull[p] \in Asking \/ IsApplying(pull[p])
  /\ \A p \in Pullers : pull[p] # Idle /\ calm[p] # "busy" => IsCalm(p)
  /\ \A p \in Pullers : pull[p] # Idle /\ calm[p] = "quiet" => IsQuiet(p)

ViewInv == CPOInv /\ StoreInv /\ PushInv /\ AgreeInv /\ PullInv

-----------------------------------------------------------------------------
(* Lemmas about the queue and the store. *)

\* A push is not NoPush.
LEMMA PushesArePushes == NoPush \notin Pushes
<1>1. Statuses \cup {"REMOVED", "KNOWN"}
        = {"AVAILABLE", "CHARGING", "OUTOFORDER", "BLOCKED", "REMOVED", "KNOWN"}
  BY DEF Statuses
<1>2. QED
  BY <1>1, NoPushIsNone DEF Pushes

\* What is on its way is what waits and what is being sent.
LEMMA OnTheWayIs ==
  ASSUME queue \in Seq(Pushes), sending \in Pushes \cup {NoPush}
  PROVE  /\ SubjectsOnTheirWay =
              WaitingSubjects \cup (IF sending = NoPush THEN {} ELSE {Subject(sending)})
         /\ OnTheirWay = << >> <=> queue = << >> /\ sending = NoPush
<1>1. CASE sending = NoPush
  BY <1>1 DEF SubjectsOnTheirWay, WaitingSubjects, OnTheirWay
<1>2. CASE sending # NoPush
  <2> DEFINE first == <<sending>>
  <2>1. first \in Seq(Pushes) /\ Len(first) = 1 /\ first[1] = sending
    BY <1>2
  <2>2. OnTheirWay = first \o queue
    BY <1>2 DEF OnTheirWay
  <2> HIDE DEF first
  <2>3. /\ first \o queue \in Seq(Pushes)
        /\ Len(first \o queue) = Len(first) + Len(queue)
        /\ \A i \in 1 .. Len(first) + Len(queue) :
             (first \o queue)[i] = IF i <= Len(first) THEN first[i] ELSE queue[i - Len(first)]
    BY <2>1, ConcatProperties, Zenon
  <2>4. /\ DOMAIN OnTheirWay = 1..(1 + Len(queue))
        /\ OnTheirWay[1] = sending
        /\ \A i \in 1..(1 + Len(queue)) :
             i # 1 => i - 1 \in DOMAIN queue /\ OnTheirWay[i] = queue[i - 1]
        /\ \A j \in DOMAIN queue : j + 1 \in 1..(1 + Len(queue)) /\ OnTheirWay[j + 1] = queue[j]
    BY <2>1, <2>2, <2>3
  <2>5. SubjectsOnTheirWay \subseteq WaitingSubjects \cup {Subject(sending)}
    BY <2>4 DEF SubjectsOnTheirWay, WaitingSubjects
  <2>6. WaitingSubjects \cup {Subject(sending)} \subseteq SubjectsOnTheirWay
    <3>1. 1 \in DOMAIN OnTheirWay
      BY <2>4
    <3>2. QED
      BY <2>4, <3>1 DEF SubjectsOnTheirWay, WaitingSubjects
  <2>7. OnTheirWay # << >>
    BY <2>4
  <2>8. QED
    BY <1>2, <2>5, <2>6, <2>7
<1>3. QED
  BY <1>1, <1>2

\* The same of what is on its way after a step.
OnTheWayIsKnown ==
  (queue \in Seq(Pushes) /\ sending \in Pushes \cup {NoPush}) =>
    /\ SubjectsOnTheirWay =
         WaitingSubjects \cup (IF sending = NoPush THEN {} ELSE {Subject(sending)})
    /\ OnTheirWay = << >> <=> queue = << >> /\ sending = NoPush

LEMMA OnTheWayWillBe == OnTheWayIsKnown'
<1>1. OnTheWayIsKnown
  BY OnTheWayIs DEF OnTheWayIsKnown
<1>2. QED
  BY <1>1, PTL

\* putLocation: one location is known from now on, and has the EVSEs of the new one if that has any.
LEMMA PutLocationIs ==
  ASSUME StoreInv, NEW s, NEW evses, EVSEsAreShown(evses), PutLocation(s, evses)
  PROVE  /\ StoreInv'
         /\ Location(s)'.known
         /\ Location(s)'.evses = IF DOMAIN evses = {} THEN Location(s).evses ELSE evses
         /\ \A r : r # s => Location(r)' = Location(r)
<1> DEFINE new == [known |-> TRUE, evses |-> IF DOMAIN evses = {} THEN Location(s).evses ELSE evses]
<1>1. /\ DOMAIN locations' = DOMAIN locations \cup {s}
      /\ locations'[s] = new
      /\ \A r \in DOMAIN locations : r # s => locations'[r] = locations[r]
  BY DEF PutLocation, Upsert
<1>2. EVSEsAreShown(Location(s).evses)
  BY DEF StoreInv, Location, NewLocation, EmptyRepository, EVSEsAreShown
<1>3. new = [known |-> new.known, evses |-> new.evses] /\ EVSEsAreShown(new.evses)
  BY <1>2
<1>4. new.known /\ new.evses = IF DOMAIN evses = {} THEN Location(s).evses ELSE evses
  OBVIOUS
<1> HIDE DEF new
<1>5. StoreInv'
  BY <1>1, <1>3 DEF StoreInv, EVSEsAreShown
<1>6. Location(s)' = new
  BY <1>1 DEF Location
<1>7. \A r : r # s => Location(r)' = Location(r)
  BY <1>1 DEF Location, NewLocation, EmptyRepository
<1>8. QED
  BY <1>4, <1>5, <1>6, <1>7

\* putEVSE: one EVSE of one location is shown as the push says.
LEMMA PutEVSEIs ==
  ASSUME StoreInv, NEW s, NEW c, NEW status, PutEVSE(s, c, status)
  PROVE  /\ StoreInv'
         /\ Location(s)'.known = Location(s).known
         /\ \A r : r # s => Location(r)' = Location(r)
         /\ Shown(s, c)' = status
         /\ \A d : d # c => Shown(s, d)' = Shown(s, d)
<1> DEFINE old == Location(s)
           evses == IF status = "REMOVED" THEN DeleteAll(old.evses, {c}) ELSE Upsert(old.evses, c, status)
           new == [known |-> old.known, evses |-> evses]
<1>1. old = [known |-> old.known, evses |-> old.evses] /\ EVSEsAreShown(old.evses)
  BY DEF StoreInv, Location, NewLocation, EmptyRepository, EVSEsAreShown
<1>2. /\ DOMAIN locations' = DOMAIN locations \cup {s}
      /\ locations'[s] = [old EXCEPT !.evses = evses]
      /\ \A r \in DOMAIN locations : r # s => locations'[r] = locations[r]
  BY DEF PutEVSE, Upsert
<1>3. locations'[s] = new
  BY <1>1, <1>2
<1>4. /\ EVSEsAreShown(evses)
      /\ (IF c \in DOMAIN evses THEN evses[c] ELSE "REMOVED") = status
      /\ \A d : d # c => (d \in DOMAIN evses <=> d \in DOMAIN old.evses)
      /\ \A d \in DOMAIN evses : d # c => evses[d] = old.evses[d]
  BY <1>1 DEF EVSEsAreShown, DeleteAll, Restrict, Upsert
<1>5. new = [known |-> new.known, evses |-> new.evses] /\ new.known = old.known /\ new.evses = evses
  OBVIOUS
<1>6. \A r : r # s => Location(r)' = Location(r)
  BY <1>2 DEF Location, NewLocation, EmptyRepository
<1> HIDE DEF new, evses
<1>7. StoreInv'
  BY <1>2, <1>3, <1>4, <1>5 DEF StoreInv, EVSEsAreShown
<1>8. Location(s)' = new
  BY <1>2, <1>3 DEF Location
<1>9. Shown(s, c)' = status /\ \A d : d # c => Shown(s, d)' = Shown(s, d)
  BY <1>4, <1>5, <1>8 DEF Shown
<1>10. QED
  BY <1>5, <1>6, <1>7, <1>8, <1>9

\* A push brings what it says of its subject, and nothing else.
LEMMA ReceiveIs ==
  ASSUME StoreInv, NEW push \in Pushes, Receive(push)
  PROVE  /\ StoreInv'
         /\ push.evse = NoEVSE => Location(push.site)'.known
         /\ push.evse # NoEVSE => Shown(push.site, push.evse)' = push.status
         /\ \A s : Location(s).known => Location(s)'.known
         /\ \A s, c : <<s, c>> # Subject(push) /\ c # NoEVSE => Shown(s, c)' = Shown(s, c)
<1>1. CASE push.evse = NoEVSE
  <2>1. PutLocation(push.site, EmptyRepository)
    BY <1>1 DEF Receive
  <2>2. EVSEsAreShown(EmptyRepository) /\ DOMAIN EmptyRepository = {}
    BY DEF EVSEsAreShown, EmptyRepository
  <2>3. /\ StoreInv'
        /\ Location(push.site)'.known
        /\ Location(push.site)'.evses = Location(push.site).evses
        /\ \A r : r # push.site => Location(r)' = Location(r)
    BY <2>1, <2>2, PutLocationIs
  <2>4. \A s, c : Shown(s, c)' = Shown(s, c)
    BY <2>3 DEF Shown
  <2>5. QED
    BY <1>1, <2>3, <2>4
<1>2. CASE push.evse # NoEVSE
  <2>1. PutEVSE(push.site, push.evse, push.status)
    BY <1>2 DEF Receive
  <2>2. /\ StoreInv'
        /\ Location(push.site)'.known = Location(push.site).known
        /\ \A r : r # push.site => Location(r)' = Location(r)
        /\ Shown(push.site, push.evse)' = push.status
        /\ \A d : d # push.evse => Shown(push.site, d)' = Shown(push.site, d)
    BY <2>1, PutEVSEIs
  <2>3. \A s, c : <<s, c>> # Subject(push) => Shown(s, c)' = Shown(s, c)
    BY <2>2 DEF Shown, Subject
  <2>4. \A s : Location(s).known => Location(s)'.known
    <3> TAKE s
    <3>1. CASE s = push.site
      BY <2>2, <3>1
    <3>2. CASE s # push.site
      BY <2>2, <3>2
    <3>3. QED
      BY <3>1, <3>2
  <2>5. QED
    BY <1>2, <2>2, <2>3, <2>4
<1>3. QED
  BY <1>1, <1>2

-----------------------------------------------------------------------------
(* Each step keeps the invariant. *)

\* What a step that leaves the CPO alone leaves of it.
LEMMA CPOIsTheSame ==
  ASSUME UNCHANGED cpoVars
  PROVE  /\ CPOInv => CPOInv'
         /\ \A s, c : Actual(s, c)' = Actual(s, c)
         /\ \A s : EVSEsAt(s)' = EVSEsAt(s)
         /\ \A push : IsRight(push)' <=> IsRight(push)
BY DEF cpoVars, CPOInv, Actual, EVSEsAt, IsRight

\* A change at the CPO is pushed, or lost; every pull that is under way is out of date.
LEMMA ChangeKeeps ==
  ASSUME ViewInv, NEW push \in Pushes, NEW untold, Change(push, untold), CPOInv',
         \A s \in sites' \ sites : Subject(push) = <<s, NoEVSE>>,
         \A s, c : c # NoEVSE /\ <<s, c>> \notin {Subject(push)} \cup untold =>
                     Actual(s, c)' = Actual(s, c),
         \A p : p = push => IsRight(p)'
  PROVE  ViewInv'
<1> USE DEF ViewInv
<1>1. /\ queue' = IF IsFull THEN queue ELSE Append(queue, push)
      /\ UNCHANGED <<sending, locations, pull, late>>
      /\ lost' = untold \cup IF IsFull THEN lost \cup {Subject(push)} ELSE lost \ {Subject(push)}
      /\ calm' = [p \in Pullers |-> "busy"]
  BY DEF Change, Enqueue, Disturb
<1>2. queue \in Seq(Pushes) /\ sending \in Pushes \cup {NoPush}
  BY DEF PushInv
<1>3. \A p \in Pushes : Subject(p) \notin {Subject(push)} \cup untold => (IsRight(p)' <=> IsRight(p))
  BY DEF IsRight, Subject
<1>4. StoreInv' /\ PullInv'
  BY <1>1 DEF StoreInv, PullInv
<1>5. /\ queue' \in Seq(Pushes)
      /\ WaitingSubjects \subseteq WaitingSubjects'
      /\ Subject(push) \in WaitingSubjects' \cup lost'
      /\ (lost \ {Subject(push)}) \cup untold \subseteq lost'
      /\ \A i \in DOMAIN queue' :
           \/ queue'[i] = push
           \/ /\ i \in DOMAIN queue /\ queue'[i] = queue[i]
              /\ Subject(queue[i]) \notin lost' /\ IsLast(i)' =>
                   /\ Subject(queue[i]) # Subject(push)
                   /\ Subject(queue[i]) \notin lost /\ IsLast(i)
  <2>1. CASE IsFull
    BY <1>1, <1>2, <2>1 DEF WaitingSubjects, IsLast
  <2>2. CASE ~IsFull
    <3>1. queue' = Append(queue, push) /\ lost' = untold \cup (lost \ {Subject(push)})
      BY <1>1, <2>2
    <3>2. /\ queue' \in Seq(Pushes) /\ Len(queue') = Len(queue) + 1
          /\ queue'[Len(queue) + 1] = push
          /\ \A i \in 1..Len(queue) : queue'[i] = queue[i]
      BY <1>2, <3>1, AppendProperties
    <3> DEFINE n == Len(queue) + 1
    <3>3. /\ DOMAIN queue' = DOMAIN queue \cup {n} /\ n \in DOMAIN queue'
          /\ queue'[n] = push
          /\ \A i \in DOMAIN queue : i < n /\ queue'[i] = queue[i]
      <4>1. /\ Len(queue) \in Nat /\ DOMAIN queue = 1..Len(queue)
            /\ DOMAIN queue' = 1..Len(queue')
        BY <1>2, <3>2
      <4>2. QED
        BY <3>2, <4>1
    <3> HIDE DEF n
    <3>4. WaitingSubjects \subseteq WaitingSubjects' /\ Subject(push) \in WaitingSubjects'
      BY <3>3 DEF WaitingSubjects
    <3>5. \A i \in DOMAIN queue :
            IsLast(i)' => Subject(queue[i]) # Subject(push) /\ IsLast(i)
      BY <3>3 DEF IsLast
    <3>6. QED
      BY <3>1, <3>2, <3>3, <3>4, <3>5
  <2>3. QED
    BY <2>1, <2>2
<1>6. PushInv'
  <2>1. \A i \in DOMAIN queue' :
          Subject(queue'[i]) \notin lost' /\ IsLast(i)' => IsRight(queue[i])'
    <3> SUFFICES ASSUME NEW i \in DOMAIN queue', Subject(queue'[i]) \notin lost', IsLast(i)'
                 PROVE  IsRight(queue[i])'
      OBVIOUS
    <3>1. CASE queue'[i] = push
      BY <3>1
    <3>2. CASE queue'[i] # push
      <4>1. i \in DOMAIN queue /\ queue'[i] = queue[i]
        BY <1>5, <3>2
      <4>2. /\ Subject(queue[i]) \notin {Subject(push)} \cup untold
            /\ Subject(queue[i]) \notin lost /\ IsLast(i)
        BY <1>5, <3>2, <4>1
      <4>3. queue[i] \in Pushes /\ IsRight(queue[i])
        BY <1>2, <4>1, <4>2 DEF PushInv
      <4>4. QED
        BY <1>3, <4>1, <4>2, <4>3
    <3>3. QED
      BY <3>1, <3>2
  <2>2. sending # NoPush /\ Subject(sending) \notin lost' \cup WaitingSubjects' => IsRight(sending)'
    BY <1>1, <1>2, <1>3, <1>5 DEF PushInv
  <2>3. QED
    BY <1>1, <1>5, <2>1, <2>2 DEF PushInv
<1>7. \A subject :
        Settled(subject)' => Settled(subject) /\ subject \notin {Subject(push)} \cup untold
  BY <1>1, <1>2, <1>5, OnTheWayIs, OnTheWayWillBe DEF Settled, OnTheWayIsKnown
<1>8. \A s, c : c # NoEVSE /\ Settled(<<s, c>>)' => Actual(s, c)' = Actual(s, c)
  BY <1>7
<1>9. AgreeInv'
  <2>1. \A s : Location(s)' = Location(s)
    BY <1>1 DEF Location, NewLocation, EmptyRepository
  <2>2. \A s, c : Shown(s, c)' = Shown(s, c)
    BY <2>1 DEF Shown
  <2>3. \A s \in SiteIDs : s \in sites' /\ Settled(<<s, NoEVSE>>)' => Location(s)'.known
    BY <1>7, <2>1 DEF AgreeInv
  <2>4. \A s \in SiteIDs, c \in ChargerIDs : Settled(<<s, c>>)' => Shown(s, c)' = Actual(s, c)'
    BY <1>7, <1>8, <2>2, ChargersHaveIDs DEF AgreeInv
  <2>5. QED
    BY <2>3, <2>4 DEF AgreeInv
<1>10. QED
  BY <1>4, <1>6, <1>9

\* run takes the next push: it is as right as it was, and all others are behind it.
LEMMA TakeKeeps ==
  ViewInv /\ TakeNext => ViewInv'
<1> SUFFICES ASSUME ViewInv, TakeNext
             PROVE  ViewInv'
  OBVIOUS
<1> USE DEF ViewInv
<1>1. /\ queue # << >> /\ sending = NoPush
      /\ sending' = Head(queue) /\ queue' = Tail(queue)
      /\ UNCHANGED <<cpoVars, locations, pull, late, history>>
  BY DEF TakeNext, Take
<1>2. queue \in Seq(Pushes)
  BY DEF PushInv
<1>3. /\ queue' \in Seq(Pushes) /\ 1 \in DOMAIN queue /\ sending' = queue[1] /\ sending' \in Pushes
      /\ \A i \in DOMAIN queue' : i + 1 \in DOMAIN queue /\ queue'[i] = queue[i + 1]
      /\ \A j \in DOMAIN queue : j # 1 => j - 1 \in DOMAIN queue' /\ queue'[j - 1] = queue[j]
      /\ DOMAIN queue \subseteq Nat /\ DOMAIN queue' \subseteq Nat
  BY <1>1, <1>2
<1>4. WaitingSubjects = WaitingSubjects' \cup {Subject(sending')}
  BY <1>3 DEF WaitingSubjects
<1>5. sending' # NoPush
  BY <1>3, PushesArePushes
<1>6. SubjectsOnTheirWay' = SubjectsOnTheirWay
  BY <1>1, <1>2, <1>3, <1>4, <1>5, OnTheWayIs, OnTheWayWillBe DEF OnTheWayIsKnown
<1>7. \A i \in DOMAIN queue' : IsLast(i)' => IsLast(i + 1)
  <2> SUFFICES ASSUME NEW i \in DOMAIN queue', IsLast(i)', NEW j \in DOMAIN queue, j > i + 1
               PROVE  Subject(queue[j]) # Subject(queue[i + 1])
    BY DEF IsLast
  <2>1. j - 1 \in DOMAIN queue' /\ j - 1 > i /\ queue'[j - 1] = queue[j] /\ queue'[i] = queue[i + 1]
    BY <1>3
  <2>2. QED
    BY <2>1 DEF IsLast
<1>8. PushInv'
  <2>1. \A i \in DOMAIN queue' :
          Subject(queue'[i]) \notin lost /\ IsLast(i)' => IsRight(queue'[i])
    BY <1>3, <1>7 DEF PushInv
  <2>2. Subject(sending') \notin lost \cup WaitingSubjects' => IsRight(sending')
    <3> SUFFICES ASSUME Subject(queue[1]) \notin lost \cup WaitingSubjects'
                 PROVE  IsRight(queue[1])
      BY <1>3
    <3>1. \A j \in DOMAIN queue : j # 1 => Subject(queue[j]) \in WaitingSubjects'
      BY <1>3 DEF WaitingSubjects
    <3>2. IsLast(1)
      BY <1>3, <3>1 DEF IsLast
    <3>3. QED
      BY <1>3, <3>2 DEF PushInv
  <2>3. \A push : IsRight(push)' <=> IsRight(push)
    BY <1>1, CPOIsTheSame
  <2>4. QED
    BY <1>1, <1>3, <2>1, <2>2, <2>3 DEF PushInv, history
<1>9. AgreeInv'
  <2>1. \A subject : Settled(subject)' <=> Settled(subject)
    BY <1>1, <1>6 DEF Settled, history
  <2>2. \A s, c : Actual(s, c)' = Actual(s, c)
    BY <1>1, CPOIsTheSame
  <2>3. QED
    BY <1>1, <2>1, <2>2 DEF AgreeInv, Location, Shown, cpoVars
<1>10. PullInv'
  <2>1. \A p \in Pullers : pull[p] # Idle => calm[p] # "quiet"
    BY <1>1 DEF PullInv, IsQuiet
  <2>2. \A p \in Pullers : IsCalm(p)' <=> IsCalm(p)
    BY <1>1, CPOIsTheSame DEF IsCalm, cpoVars
  <2>3. QED
    BY <1>1, <2>1, <2>2 DEF PullInv, history, IsApplying
<1>11. QED
  BY <1>1, <1>8, <1>9, <1>10, CPOIsTheSame DEF StoreInv

\* A push that comes to the eMSP, or does not.
IsReceipt(push) ==
  /\ push \in Pushes /\ (Receive(push) \/ UNCHANGED locations)
  /\ queue' = queue /\ sending' \in {sending, NoPush} /\ late' \subseteq late \cup {push}
  /\ lost \subseteq lost'
  /\ ~(queue = << >> /\ sending = NoPush /\ late = {})
  /\ UNCHANGED <<cpoVars, pull, calm>>

\* Nothing else is settled by it, and its own subject only if it has been received and is right.
Settles(push) ==
  \A subject :
    Settled(subject)' =>
      \/ subject # Subject(push) /\ Settled(subject)
      \/ subject = Subject(push) /\ Receive(push) /\ IsRight(push)
      \/ subject = Subject(push) /\ Settled(subject) /\ UNCHANGED locations

LEMMA DeliveriesAre ==
  ASSUME ViewInv, Deliver \/ Fail \/ ProcessLate
  PROVE  \E push : IsReceipt(push) /\ Settles(push)
<1> USE DEF ViewInv
<1>1. /\ queue \in Seq(Pushes) /\ sending \in Pushes \cup {NoPush} /\ late \subseteq Pushes
      /\ SubjectsOnTheirWay =
           WaitingSubjects \cup (IF sending = NoPush THEN {} ELSE {Subject(sending)})
  BY OnTheWayIs DEF PushInv
<1>2. CASE Deliver
  <2>1. /\ sending # NoPush /\ sending' = NoPush /\ queue' = queue /\ Receive(sending)
        /\ UNCHANGED <<cpoVars, pull, late, history>>
    BY <1>2 DEF Deliver, SendEnds
  <2>2. SubjectsOnTheirWay' = WaitingSubjects
    BY <1>1, <2>1, OnTheWayWillBe DEF OnTheWayIsKnown, WaitingSubjects
  <2>3. Settles(sending)
    BY <1>1, <2>1, <2>2 DEF Settles, Settled, PushInv, history
  <2>4. IsReceipt(sending)
    BY <1>1, <2>1 DEF IsReceipt, history
  <2>5. QED
    BY <2>3, <2>4
<1>3. CASE Fail
  <2>1. /\ sending # NoPush /\ sending' = NoPush /\ queue' = queue
        /\ Receive(sending) \/ UNCHANGED locations
        /\ late' \in {late, late \cup {sending}} /\ lost' = MayBeWrong(sending)
        /\ UNCHANGED <<cpoVars, pull, calm>>
    BY <1>3 DEF Fail, SendEnds
  <2>2. SubjectsOnTheirWay' = WaitingSubjects
    BY <1>1, <2>1, OnTheWayWillBe DEF OnTheWayIsKnown, WaitingSubjects
  <2>3. lost \subseteq lost' /\ Subject(sending) \in lost' \cup SubjectsOnTheirWay'
    BY <2>1 DEF MayBeWrong
  <2>4. Settles(sending)
    BY <1>1, <2>1, <2>2, <2>3 DEF Settles, Settled
  <2>5. IsReceipt(sending)
    BY <1>1, <2>1, <2>3 DEF IsReceipt
  <2>6. QED
    BY <2>4, <2>5
<1>4. CASE ProcessLate
  <2>1. PICK push \in late : Receive(push) /\ late' = late \ {push}
                             /\ UNCHANGED queueVars /\ lost' = MayBeWrong(push)
                             /\ UNCHANGED <<cpoVars, pull, calm>>
    BY <1>4 DEF ProcessLate
  <2>2. SubjectsOnTheirWay' = SubjectsOnTheirWay
    BY <2>1 DEF SubjectsOnTheirWay, OnTheirWay, queueVars
  <2>3. lost \subseteq lost' /\ Subject(push) \in lost' \cup SubjectsOnTheirWay'
    BY <2>1 DEF MayBeWrong
  <2>4. Settles(push)
    BY <2>2, <2>3 DEF Settles, Settled
  <2>5. IsReceipt(push)
    BY <1>1, <2>1, <2>3 DEF IsReceipt, queueVars
  <2>6. QED
    BY <2>4, <2>5
<1>5. QED
  BY <1>2, <1>3, <1>4

LEMMA ReceiptKeeps ==
  ASSUME ViewInv, NEW push, IsReceipt(push), Settles(push)
  PROVE  ViewInv'
<1> USE DEF ViewInv
<1>1. /\ push \in Pushes /\ (Receive(push) \/ UNCHANGED locations)
      /\ queue' = queue /\ sending' \in {sending, NoPush} /\ late' \subseteq late \cup {push}
      /\ lost \subseteq lost'
      /\ UNCHANGED <<cpoVars, pull, calm>>
  BY DEF IsReceipt
<1>2. /\ CPOInv'
      /\ \A s, c : Actual(s, c)' = Actual(s, c)
      /\ \A p : IsRight(p)' <=> IsRight(p)
      /\ \A s : EVSEsAt(s)' = EVSEsAt(s)
  BY <1>1, CPOIsTheSame
<1>3. /\ StoreInv'
      /\ \A s : Location(s).known => Location(s)'.known
      /\ \A s, c : <<s, c>> # Subject(push) /\ c # NoEVSE => Shown(s, c)' = Shown(s, c)
  <2>1. CASE Receive(push)
    BY <1>1, <2>1, ReceiveIs
  <2>2. CASE locations' = locations
    BY <2>2 DEF StoreInv, Location, Shown
  <2>3. QED
    BY <1>1, <2>1, <2>2
<1>4. PushInv'
  <2>1. WaitingSubjects' = WaitingSubjects /\ \A i : IsLast(i)' <=> IsLast(i)
    BY <1>1 DEF WaitingSubjects, IsLast
  <2>2. \A i \in DOMAIN queue : Subject(queue[i]) \notin lost' /\ IsLast(i) => IsRight(queue[i])
    BY <1>1 DEF PushInv
  <2>3. sending' # NoPush /\ Subject(sending') \notin lost' \cup WaitingSubjects => IsRight(sending')
    BY <1>1 DEF PushInv
  <2>4. /\ queue' \in Seq(Pushes) /\ sending' \in Pushes \cup {NoPush} /\ late' \subseteq Pushes
    BY <1>1 DEF PushInv
  <2>5. QED
    BY <1>1, <1>2, <2>1, <2>2, <2>3, <2>4 DEF PushInv
<1>5. AgreeInv'
  <2>1. ASSUME NEW s \in SiteIDs, s \in sites', Settled(<<s, NoEVSE>>)'
        PROVE  Location(s)'.known
    <3>1. s \in sites
      BY <1>1, <2>1 DEF cpoVars
    <3>2. CASE Settled(<<s, NoEVSE>>)
      BY <1>3, <3>1, <3>2 DEF AgreeInv
    <3>3. CASE <<s, NoEVSE>> = Subject(push) /\ Receive(push)
      <4>1. push.site = s /\ push.evse = NoEVSE
        BY <3>3 DEF Subject
      <4>2. QED
        BY <1>1, <3>3, <4>1, ReceiveIs
    <3>4. QED
      BY <2>1, <3>2, <3>3 DEF Settles
  <2>2. ASSUME NEW s \in SiteIDs, NEW c \in ChargerIDs, Settled(<<s, c>>)'
        PROVE  Shown(s, c)' = Actual(s, c)
    <3>1. c # NoEVSE
      BY ChargersHaveIDs
    <3>2. CASE <<s, c>> # Subject(push) /\ Settled(<<s, c>>)
      BY <1>3, <3>1, <3>2 DEF AgreeInv
    <3>3. CASE <<s, c>> = Subject(push) /\ Receive(push) /\ IsRight(push)
      <4>1. push.site = s /\ push.evse = c
        BY <3>3 DEF Subject
      <4>2. push.status = Actual(s, c)
        BY <3>1, <3>3, <4>1 DEF IsRight
      <4>3. Shown(push.site, push.evse)' = push.status
        BY <1>1, <3>1, <3>3, <4>1, ReceiveIs
      <4>4. QED
        BY <1>1, <4>1, <4>2, <4>3 DEF Shown
    <3>4. CASE Settled(<<s, c>>) /\ UNCHANGED locations
      BY <3>4 DEF AgreeInv, Shown, Location
    <3>5. QED
      BY <2>2, <3>2, <3>3, <3>4 DEF Settles
  <2>3. QED
    BY <1>2, <2>1, <2>2 DEF AgreeInv
<1>6. PullInv'
  <2>1. \A p \in Pullers : pull[p] # Idle => calm[p] # "quiet"
    BY DEF PullInv, IsQuiet, IsReceipt
  <2>2. \A p \in Pullers : IsCalm(p)' <=> IsCalm(p)
    BY <1>1, <1>2 DEF IsCalm, cpoVars
  <2>3. QED
    BY <1>1, <2>1, <2>2 DEF PullInv, IsApplying
<1>7. QED
  BY <1>2, <1>3, <1>4, <1>5, <1>6

\* EVSEStatus has a word for every state, and "REMOVED" is not one.
LEMMA StatusIsShown ==
  ASSUME NEW state
  PROVE  EVSEStatus(state) \in Statuses /\ EVSEStatus(state) # "REMOVED"
BY DEF EVSEStatus, Statuses

\* addSite: a push about a site is right from when there is the site.
LEMMA AddSiteKeeps ==
  ASSUME ViewInv, NEW s \in SiteIDs, AddSite(s) \/ AddNamedSite(s)
  PROVE  ViewInv'
<1>1. /\ sites' = sites \cup {s} /\ chargers' = chargers
      /\ Change(SitePush(s), {})
  BY DEF AddSite, AddNamedSite
<1> DEFINE push == SitePush(s)
<1>2. push \in Pushes /\ push.evse = NoEVSE /\ Subject(push) = <<s, NoEVSE>>
  BY DEF SitePush, Pushes, Subject
<1> HIDE DEF push
<1>3. CPOInv'
  BY <1>1 DEF ViewInv, CPOInv
<1>4. \A r, c : Actual(r, c)' = Actual(r, c)
  BY <1>1 DEF Actual
<1>5. \A p : p = push => IsRight(p)'
  BY <1>2 DEF IsRight
<1>6. Change(push, {})
  BY <1>1 DEF push
<1>7. QED
  BY <1>1, <1>2, <1>3, <1>4, <1>5, <1>6, ChangeKeeps

\* What an operation on one charger pushes is what it leaves of it, except for what it does not tell.
LEMMA ChargerChangeKeeps ==
  ASSUME ViewInv, NEW push \in Pushes, NEW untold, Change(push, untold), sites' = sites,
         CPOInv', NEW c \in ChargerIDs, push.evse = c,
         Actual(push.site, c)' = push.status,
         \A s : s # push.site /\ <<s, c>> \notin untold => Actual(s, c)' = Actual(s, c),
         \A s, d : d # c => Actual(s, d)' = Actual(s, d)
  PROVE  ViewInv'
<1>1. Subject(push) = <<push.site, c>> /\ c # NoEVSE
  BY ChargersHaveIDs DEF Subject
<1>2. \A s, d : <<s, d>> \notin {Subject(push)} \cup untold => Actual(s, d)' = Actual(s, d)
  BY <1>1
<1>3. \A p : p = push => IsRight(p)'
  <2> SUFFICES ASSUME NEW p, p = push
               PROVE  p.status = Actual(p.site, p.evse)'
    BY DEF IsRight
  <2>1. Actual(push.site, c)' = push.status
    OBVIOUS
  <2>2. QED
    BY <2>1
<1>4. QED
  BY <1>2, <1>3, ChangeKeeps

\* addCharger: a charger that is overwritten at another site is told to nobody.
LEMMA AddChargerKeeps ==
  ASSUME ViewInv, NEW s \in SiteIDs, NEW c \in ChargerIDs, AddCharger(c, s) \/ AddNamedCharger(c, s)
  PROVE  ViewInv'
<1> DEFINE push == EVSEPush(c, NewCharger(s))
           untold == Overwritten(c, s)
<1>1. /\ s \in sites /\ sites' = sites
      /\ chargers' = [d \in DOMAIN chargers \cup {c} |-> IF d = c THEN NewCharger(s) ELSE chargers[d]]
      /\ Change(push, untold)
  BY DEF AddCharger, AddNamedCharger, Overwritten, Upsert
<1>2. NewCharger(s) \in [site : SiteIDs, state : States] /\ NewCharger(s).site = s
  BY Inputs DEF NewCharger
<1>3. /\ push \in Pushes /\ push.evse = c /\ push.site = s
      /\ push.status = EVSEStatus(NewCharger(s).state)
  BY <1>2, StatusIsShown DEF EVSEPush, Pushes
<1>4. \A r : r # s /\ <<r, c>> \notin untold => ~(c \in DOMAIN chargers /\ chargers[c].site = r)
  BY DEF Overwritten
<1> HIDE DEF push, untold
<1>5. CPOInv'
  BY <1>1, <1>2 DEF ViewInv, CPOInv, IsRepository
<1>6. /\ Actual(push.site, c)' = push.status
      /\ \A r : r # push.site /\ <<r, c>> \notin untold => Actual(r, c)' = Actual(r, c)
      /\ \A r, d : d # c => Actual(r, d)' = Actual(r, d)
  BY <1>1, <1>2, <1>3, <1>4 DEF Actual
<1>7. QED
  BY <1>1, <1>3, <1>5, <1>6, ChargerChangeKeeps

LEMMA UpdateChargerKeeps ==
  ASSUME ViewInv, NEW c \in DOMAIN chargers, UpdateCharger(c)
  PROVE  ViewInv'
<1>1. PICK state \in ({chargers[c].state} \cup MovesTo[chargers[c].state]) \cap States :
        LET charger == [chargers[c] EXCEPT !.state = state]
        IN  /\ chargers' = Upsert(chargers, c, charger)
            /\ Change(EVSEPush(c, charger), {})
            /\ UNCHANGED <<sites, issued>>
  BY DEF UpdateCharger
<1> DEFINE charger == [chargers[c] EXCEPT !.state = state]
           push == EVSEPush(c, charger)
<1>2. c \in ChargerIDs /\ chargers[c] \in [site : SiteIDs, state : States] /\ chargers[c].site \in sites
  BY DEF ViewInv, CPOInv, IsRepository
<1>3. charger \in [site : SiteIDs, state : States] /\ charger.site = chargers[c].site
  BY <1>2
<1>4. /\ push \in Pushes /\ push.evse = c /\ push.site = chargers[c].site
      /\ push.status = EVSEStatus(charger.state)
  BY <1>2, <1>3, StatusIsShown DEF EVSEPush, Pushes
<1>5. /\ chargers' = [d \in DOMAIN chargers \cup {c} |-> IF d = c THEN charger ELSE chargers[d]]
      /\ Change(push, {}) /\ sites' = sites
  BY <1>1 DEF Upsert
<1> HIDE DEF charger, push
<1>6. CPOInv'
  BY <1>2, <1>3, <1>5 DEF ViewInv, CPOInv, IsRepository
<1>7. /\ \A r : Actual(r, c)' = IF r = push.site THEN push.status ELSE Actual(r, c)
      /\ \A r, d : d # c => Actual(r, d)' = Actual(r, d)
  BY <1>3, <1>4, <1>5 DEF Actual
<1>8. QED
  BY <1>2, <1>4, <1>5, <1>6, <1>7, ChargerChangeKeeps

LEMMA RemoveChargerKeeps ==
  ASSUME ViewInv, NEW c \in DOMAIN chargers, RemoveCharger(c)
  PROVE  ViewInv'
<1> DEFINE push == RemovedEVSEPush(c, chargers[c])
<1>1. /\ chargers' = [d \in DOMAIN chargers \ {c} |-> chargers[d]]
      /\ Change(push, {}) /\ sites' = sites
  BY DEF RemoveCharger, DeleteAll, Restrict, ViewInv, CPOInv, IsRepository
<1>2. c \in ChargerIDs /\ chargers[c] \in [site : SiteIDs, state : States]
  BY DEF ViewInv, CPOInv, IsRepository
<1>3. push \in Pushes /\ push.evse = c /\ push.site = chargers[c].site /\ push.status = "REMOVED"
  BY <1>2 DEF RemovedEVSEPush, Pushes
<1> HIDE DEF push
<1>4. CPOInv'
  BY <1>1 DEF ViewInv, CPOInv, IsRepository
<1>5. /\ \A r : Actual(r, c)' = IF r = push.site THEN push.status ELSE Actual(r, c)
      /\ \A r, d : d # c => Actual(r, d)' = Actual(r, d)
  BY <1>1, <1>3 DEF Actual
<1>6. QED
  BY <1>1, <1>2, <1>3, <1>4, <1>5, ChargerChangeKeeps

-----------------------------------------------------------------------------
(* The steps of a pull. *)

\* What a step of a pull that does not touch the store leaves.
LEMMA PullingLeaves ==
  ASSUME ViewInv, UNCHANGED <<queueVars, cpoVars, locations, late, lost>>
  PROVE  /\ CPOInv' /\ StoreInv' /\ PushInv' /\ AgreeInv'
         /\ \A s : EVSEsAt(s)' = EVSEsAt(s)
         /\ \A s : IsApplied(s)' <=> IsApplied(s)
<1>1. /\ CPOInv'
      /\ \A s, c : Actual(s, c)' = Actual(s, c)
      /\ \A s : EVSEsAt(s)' = EVSEsAt(s)
      /\ \A p : IsRight(p)' <=> IsRight(p)
  BY CPOIsTheSame DEF ViewInv
<1>2. /\ \A s : Location(s)' = Location(s)
      /\ \A s, c : Shown(s, c)' = Shown(s, c)
  BY DEF Location, NewLocation, EmptyRepository, Shown
<1>3. PushInv'
  BY <1>1 DEF ViewInv, PushInv, IsLast, WaitingSubjects, queueVars
<1>4. \A subject : Settled(subject)' <=> Settled(subject)
  BY DEF Settled, SubjectsOnTheirWay, OnTheirWay, queueVars
<1>5. AgreeInv'
  BY <1>1, <1>2, <1>4 DEF ViewInv, AgreeInv, cpoVars
<1>6. QED
  BY <1>1, <1>2, <1>3, <1>5 DEF ViewInv, StoreInv, IsApplied

LEMMA PullSitesKeeps ==
  ASSUME ViewInv, NEW p \in Pullers, PullSites(p)
  PROVE  ViewInv'
<1> DEFINE request == [phase |-> "chargers", sites |-> sites]
<1>1. /\ pull[p] = Idle
      /\ pull' = [pull EXCEPT ![p] = request]
      /\ calm' = [[q \in Pullers |-> "busy"] EXCEPT ![p] = Calm]
      /\ UNCHANGED <<queueVars, cpoVars, locations, late, lost>>
  BY DEF PullSites
<1>2. /\ request \in Asking /\ request.phase = "chargers" /\ request.sites = sites
  BY DEF Asking, ViewInv, CPOInv
<1> HIDE DEF request
<1>3. /\ pull' = [q \in Pullers |-> pull'[q]] /\ pull'[p] = request
      /\ \A q \in Pullers : q # p => pull'[q] = pull[q]
  BY <1>1 DEF ViewInv, PullInv
<1>4. /\ calm' \in [Pullers -> {"busy", "changeless", "quiet"}] /\ calm'[p] = Calm
      /\ \A q \in Pullers : q # p => calm'[q] = "busy"
  BY <1>1 DEF Calm
<1>5. Calm # "busy" => \A q \in Pullers : pull[q] = Idle
  BY DEF Calm
<1>6. Calm = "quiet" => queue = << >> /\ sending = NoPush /\ late = {}
  BY OnTheWayIs DEF Calm, NothingOnItsWay, ViewInv, PushInv
<1>7. \A q \in Pullers : pull'[q] = Idle \/ pull'[q] \in Asking \/ IsApplying(pull'[q])
  BY <1>2, <1>3 DEF ViewInv, PullInv
<1>8. ASSUME NEW q \in Pullers, pull'[q] # Idle, calm'[q] # "busy"
      PROVE  IsCalm(q)'
  <2>1. q = p /\ Calm # "busy"
    BY <1>4, <1>8
  <2>2. QED
    BY <1>1, <1>2, <1>3, <1>5, <2>1 DEF IsCalm, cpoVars
<1>9. ASSUME NEW q \in Pullers, pull'[q] # Idle, calm'[q] = "quiet"
      PROVE  IsQuiet(q)'
  <2>1. q = p /\ Calm = "quiet"
    BY <1>4, <1>9
  <2>2. QED
    BY <1>1, <1>2, <1>3, <1>6, <2>1 DEF IsQuiet, queueVars
<1>10. PullInv'
  BY <1>3, <1>4, <1>7, <1>8, <1>9 DEF PullInv, IsApplying
<1>11. QED
  BY <1>1, <1>10, PullingLeaves DEF ViewInv

\* What kind of request a puller has.
LEMMA RequestIs ==
  ASSUME PullInv, NEW p \in Pullers
  PROVE  /\ pull[p].phase = "chargers" => pull[p] \in Asking
         /\ pull[p].phase = "apply" => IsApplying(pull[p])
         /\ pull[p].phase \in {"chargers", "apply"} => pull[p] # Idle
<1>1. Idle.phase = "idle"
  BY DEF Idle
<1>2. pull[p] \in Asking => pull[p].phase = "chargers"
  BY DEF Asking
<1>3. IsApplying(pull[p]) => pull[p].phase = "apply"
  BY DEF IsApplying
<1>4. QED
  BY <1>1, <1>2, <1>3 DEF PullInv

LEMMA PullChargersKeeps ==
  ASSUME ViewInv, NEW p \in Pullers, PullChargers(p)
  PROVE  ViewInv'
<1> DEFINE found == [s \in pull[p].sites |-> EVSEsAt(s)]
           request == [phase |-> "apply", found |-> found]
<1>1. /\ pull[p].phase = "chargers"
      /\ pull' = [pull EXCEPT ![p] = request]
      /\ UNCHANGED <<queueVars, cpoVars, locations, late, lost, calm>>
  BY DEF PullChargers, history
<1>2. pull[p] \in Asking /\ pull[p] # Idle
  BY <1>1, RequestIs DEF ViewInv
<1>3. \A s : EVSEsAreShown(EVSEsAt(s))
  BY StatusIsShown DEF EVSEsAreShown, EVSEsAt
<1>4. /\ request = [phase |-> "apply", found |-> request.found]
      /\ request.phase = "apply" /\ request.found = found
      /\ DOMAIN found = pull[p].sites /\ \A s \in DOMAIN found : found[s] = EVSEsAt(s)
  OBVIOUS
<1> HIDE DEF request, found
<1>5. IsApplying(request)
  BY <1>2, <1>3, <1>4 DEF IsApplying, Asking
<1>6. /\ pull' = [q \in Pullers |-> pull'[q]] /\ pull'[p] = request
      /\ \A q \in Pullers : q # p => pull'[q] = pull[q]
  BY <1>1 DEF ViewInv, PullInv
<1>7. /\ CPOInv' /\ StoreInv' /\ PushInv' /\ AgreeInv'
      /\ \A s : EVSEsAt(s)' = EVSEsAt(s)
      /\ \A s : IsApplied(s)' <=> IsApplied(s)
  BY <1>1, PullingLeaves
<1>8. \A q \in Pullers \ {p} : pull[q] # Idle => calm[q] = "busy"
  BY <1>2 DEF ViewInv, PullInv, IsCalm
<1>9. ASSUME calm[p] # "busy"
      PROVE  IsCalm(p)'
  <2>1. IsCalm(p)
    BY <1>2, <1>9 DEF ViewInv, PullInv
  <2>2. QED
    BY <1>1, <1>4, <1>6, <1>7, <2>1 DEF IsCalm
<1>10. ASSUME calm[p] = "quiet"
       PROVE  IsQuiet(p)'
  <2>1. IsCalm(p) /\ IsQuiet(p)
    BY <1>2, <1>10 DEF ViewInv, PullInv
  <2>2. sites' \ DOMAIN found = {}
    BY <1>1, <1>4, <2>1 DEF IsCalm, cpoVars
  <2>3. QED
    BY <1>1, <1>4, <1>6, <2>1, <2>2 DEF IsQuiet, queueVars
<1>11. \A q \in Pullers : pull'[q] = Idle \/ pull'[q] \in Asking \/ IsApplying(pull'[q])
  BY <1>5, <1>6 DEF ViewInv, PullInv
<1>12. PullInv'
  BY <1>1, <1>6, <1>8, <1>9, <1>10, <1>11 DEF ViewInv, PullInv, IsApplying
<1>13. QED
  BY <1>7, <1>12 DEF ViewInv

LEMMA PullFailsKeeps ==
  ASSUME ViewInv, NEW p \in Pullers, PullFails(p)
  PROVE  ViewInv'
<1>1. /\ pull[p].phase = "chargers" /\ pull[p] # Idle
      /\ pull' = [pull EXCEPT ![p] = Idle]
      /\ UNCHANGED <<queueVars, cpoVars, locations, late, lost, calm>>
  BY RequestIs DEF PullFails, history, ViewInv
<1>2. /\ pull' = [q \in Pullers |-> pull'[q]] /\ pull'[p] = Idle
      /\ \A q \in Pullers : q # p => pull'[q] = pull[q]
  BY <1>1 DEF ViewInv, PullInv
<1>3. \A q \in Pullers \ {p} : pull[q] # Idle => calm[q] = "busy"
  BY <1>1 DEF ViewInv, PullInv, IsCalm
<1>4. \A q \in Pullers : pull'[q] # Idle => calm'[q] = "busy"
  BY <1>1, <1>2, <1>3
<1>5. \A q \in Pullers : pull'[q] = Idle \/ pull'[q] \in Asking \/ IsApplying(pull'[q])
  BY <1>2 DEF ViewInv, PullInv
<1>6. PullInv'
  BY <1>1, <1>2, <1>4, <1>5 DEF ViewInv, PullInv, IsApplying
<1>7. QED
  BY <1>1, <1>6, PullingLeaves DEF ViewInv

\* putLocation with what a pull has found: if that is as the CPO has it, so is what is shown then.
LEMMA ApplyLocationKeeps ==
  ASSUME ViewInv, NEW p \in Pullers, NEW s, ApplyLocation(p, s)
  PROVE  ViewInv'
<1> DEFINE evses == pull[p].found[s]
<1>1. /\ pull[p].phase = "apply" /\ s \in DOMAIN pull[p].found
      /\ PutLocation(s, evses)
      /\ pull' = [pull EXCEPT ![p].found = DeleteAll(@, {s})]
      /\ lost' = IF calm[p] = "busy" THEN lost \cup ({<<s, c>> : c \in ChargerIDs} \ SubjectsOnTheirWay)
                 ELSE lost
      /\ UNCHANGED <<queueVars, cpoVars, late, calm>>
  BY DEF ApplyLocation
<1>2. IsApplying(pull[p]) /\ pull[p] # Idle
  BY <1>1, RequestIs DEF ViewInv
<1>3. EVSEsAreShown(evses)
  BY <1>1, <1>2 DEF IsApplying
<1> HIDE DEF evses
<1>4. /\ StoreInv'
      /\ Location(s)'.known
      /\ Location(s)'.evses = IF DOMAIN evses = {} THEN Location(s).evses ELSE evses
      /\ \A r : r # s => Location(r)' = Location(r)
  BY <1>1, <1>3, PutLocationIs DEF ViewInv
<1>5. /\ CPOInv'
      /\ \A r, c : Actual(r, c)' = Actual(r, c)
      /\ \A r : EVSEsAt(r)' = EVSEsAt(r)
      /\ \A push : IsRight(push)' <=> IsRight(push)
  BY <1>1, CPOIsTheSame DEF ViewInv
<1>6. PushInv'
  <2>1. lost \subseteq lost'
    BY <1>1
  <2>2. QED
    BY <1>1, <1>5, <2>1 DEF ViewInv, PushInv, IsLast, WaitingSubjects, queueVars
<1>7. ASSUME calm[p] # "busy", NEW c \in ChargerIDs
      PROVE  /\ DOMAIN evses = {} => Shown(s, c)' = Shown(s, c)
             /\ DOMAIN evses # {} => Shown(s, c)' = Actual(s, c)
             /\ evses = EVSEsAt(s)
  <2>1. evses = EVSEsAt(s)
    BY <1>1, <1>2, <1>7 DEF ViewInv, PullInv, IsCalm, evses
  <2>2. CASE DOMAIN evses = {}
    BY <1>4, <2>1, <2>2 DEF Shown
  <2>3. CASE DOMAIN evses # {}
    <3>1. Shown(s, c)' = IF c \in DOMAIN EVSEsAt(s) THEN EVSEsAt(s)[c] ELSE "REMOVED"
      BY <1>4, <2>1, <2>3 DEF Shown
    <3>2. QED
      BY <2>1, <2>3, <3>1 DEF EVSEsAt, Actual
  <2>4. QED
    BY <2>1, <2>2, <2>3
<1>8. AgreeInv'
  <2>1. SubjectsOnTheirWay' = SubjectsOnTheirWay
    BY <1>1 DEF SubjectsOnTheirWay, OnTheirWay, queueVars
  <2>2. \A subject : Settled(subject)' => Settled(subject)
    BY <1>1, <2>1 DEF Settled
  <2>3. ASSUME NEW r \in SiteIDs, r \in sites', Settled(<<r, NoEVSE>>)'
        PROVE  Location(r)'.known
    <3>1. CASE r = s
      BY <1>4, <3>1
    <3>2. CASE r # s
      BY <1>1, <1>4, <2>2, <2>3, <3>2 DEF ViewInv, AgreeInv, cpoVars
    <3>3. QED
      BY <3>1, <3>2
  <2>4. ASSUME NEW r \in SiteIDs, NEW c \in ChargerIDs, Settled(<<r, c>>)'
        PROVE  Shown(r, c)' = Actual(r, c)
    <3>1. Shown(r, c) = Actual(r, c)
      BY <2>2, <2>4 DEF ViewInv, AgreeInv
    <3>2. CASE r # s
      BY <1>4, <3>1, <3>2 DEF Shown
    <3>3. CASE r = s
      <4>1. calm[p] # "busy"
        BY <1>1, <2>1, <2>4, <3>3 DEF Settled
      <4>2. QED
        BY <1>7, <3>1, <3>3, <4>1
    <3>4. QED
      BY <3>2, <3>3
  <2>5. QED
    BY <1>5, <2>3, <2>4 DEF AgreeInv
<1> DEFINE found == pull[p].found
           left == [r \in DOMAIN found \ {s} |-> found[r]]
           request == [phase |-> "apply", found |-> left]
<1>9. pull[p] = [phase |-> "apply", found |-> found]
  BY <1>1, <1>2 DEF IsApplying
<1>10. pull' = [pull EXCEPT ![p] = request]
  <2>1. DeleteAll(found, {s}) = left
    BY DEF DeleteAll, Restrict
  <2>2. [pull[p] EXCEPT !.found = left] = request
    BY <1>9
  <2> HIDE DEF left, request
  <2>3. QED
    BY <1>1, <2>1, <2>2 DEF ViewInv, PullInv
<1>11. /\ request = [phase |-> "apply", found |-> request.found]
       /\ request.phase = "apply" /\ request.found = left
       /\ DOMAIN left = DOMAIN found \ {s} /\ \A r \in DOMAIN left : left[r] = found[r]
  OBVIOUS
<1> HIDE DEF request, left, found
<1>12. IsApplying(request)
  BY <1>2, <1>11 DEF IsApplying, found
<1>13. /\ pull' = [q \in Pullers |-> pull'[q]] /\ pull'[p] = request
       /\ \A q \in Pullers : q # p => pull'[q] = pull[q]
  BY <1>10 DEF ViewInv, PullInv
<1>14. \A q \in Pullers \ {p} : pull[q] # Idle => calm[q] = "busy"
  BY <1>2 DEF ViewInv, PullInv, IsCalm
<1>15. ASSUME calm[p] # "busy"
       PROVE  IsCalm(p)'
  <2>1. IsCalm(p)
    BY <1>2, <1>15 DEF ViewInv, PullInv
  <2>2. QED
    BY <1>1, <1>5, <1>11, <1>13, <2>1 DEF IsCalm, cpoVars, found
<1>16. ASSUME calm[p] = "quiet"
       PROVE  IsQuiet(p)'
  <2>1. IsQuiet(p)
    BY <1>2, <1>16 DEF ViewInv, PullInv
  <2>2. IsApplied(s)'
    BY <1>4, <1>5, <1>7, <1>16 DEF IsApplied
  <2>3. \A r : r # s /\ IsApplied(r) => IsApplied(r)'
    BY <1>4, <1>5 DEF IsApplied, Shown
  <2>4. \A r \in sites' \ DOMAIN left : IsApplied(r)'
    BY <1>1, <1>11, <2>1, <2>2, <2>3 DEF IsQuiet, cpoVars, found
  <2>5. QED
    BY <1>1, <1>11, <1>13, <2>1, <2>4 DEF IsQuiet, queueVars
<1>17. \A q \in Pullers : pull'[q] = Idle \/ pull'[q] \in Asking \/ IsApplying(pull'[q])
  BY <1>12, <1>13 DEF ViewInv, PullInv
<1>18. PullInv'
  BY <1>1, <1>13, <1>14, <1>15, <1>16, <1>17 DEF ViewInv, PullInv, IsApplying
<1>19. QED
  BY <1>4, <1>5, <1>6, <1>8, <1>18 DEF ViewInv

\* The end of a pull that was left alone: what it repairs is right, and no push is on its way.
LEMMA PullEndsKeeps ==
  ASSUME ViewInv, NEW p \in Pullers, PullEnds(p)
  PROVE  ViewInv'
<1>1. /\ pull[p].phase = "apply" /\ DOMAIN pull[p].found = {} /\ pull[p] # Idle
      /\ pull' = [pull EXCEPT ![p] = Idle]
      /\ lost' = IF calm[p] = "quiet" THEN lost \ Repaired ELSE lost
      /\ UNCHANGED <<queueVars, cpoVars, locations, late, calm>>
  BY RequestIs DEF PullEnds, ViewInv
<1>2. /\ pull' = [q \in Pullers |-> pull'[q]] /\ pull'[p] = Idle
      /\ \A q \in Pullers : q # p => pull'[q] = pull[q]
  BY <1>1 DEF ViewInv, PullInv
<1>3. \A q \in Pullers \ {p} : pull[q] # Idle => calm[q] = "busy"
  BY <1>1 DEF ViewInv, PullInv, IsCalm
<1>4. \A q \in Pullers : pull'[q] # Idle => calm'[q] = "busy"
  BY <1>1, <1>2, <1>3
<1>5. \A q \in Pullers : pull'[q] = Idle \/ pull'[q] \in Asking \/ IsApplying(pull'[q])
  BY <1>2 DEF ViewInv, PullInv
<1>6. PullInv'
  BY <1>1, <1>2, <1>4, <1>5 DEF ViewInv, PullInv, IsApplying
<1>7. CASE calm[p] # "quiet"
  BY <1>1, <1>6, <1>7, PullingLeaves DEF ViewInv
<1>8. CASE calm[p] = "quiet"
  <2>1. /\ queue = << >> /\ sending = NoPush /\ \A s \in sites : IsApplied(s)
    BY <1>1, <1>8 DEF ViewInv, PullInv, IsQuiet
  <2>2. /\ CPOInv'
        /\ \A s, c : Actual(s, c)' = Actual(s, c)
    BY <1>1, CPOIsTheSame DEF ViewInv
  <2>3. /\ \A s : Location(s)' = Location(s)
        /\ \A s, c : Shown(s, c)' = Shown(s, c)
    BY <1>1 DEF Location, NewLocation, EmptyRepository, Shown
  <2>4. PushInv'
    <3>1. DOMAIN queue' = {} /\ queue' = queue /\ sending' = NoPush /\ late' = late
      BY <1>1, <2>1 DEF queueVars
    <3>2. QED
      BY <3>1 DEF ViewInv, PushInv
  <2>5. \A subject : Settled(subject)' => Settled(subject) \/ subject \in Repaired
    BY <1>1, <1>8 DEF Settled, SubjectsOnTheirWay, OnTheirWay, queueVars
  <2>6. ASSUME NEW s \in SiteIDs, s \in sites', Settled(<<s, NoEVSE>>)'
        PROVE  Location(s)'.known
    BY <1>1, <2>1, <2>3, <2>6 DEF IsApplied, cpoVars
  <2>7. ASSUME NEW s \in SiteIDs, NEW c \in ChargerIDs, Settled(<<s, c>>)'
        PROVE  Shown(s, c)' = Actual(s, c)
    <3>1. CASE Settled(<<s, c>>)
      BY <2>3, <3>1 DEF ViewInv, AgreeInv
    <3>2. CASE <<s, c>> \in Repaired
      <4>1. s \in sites /\ DOMAIN EVSEsAt(s) # {}
        BY <3>2, ChargersHaveIDs DEF Repaired
      <4>2. QED
        BY <2>1, <2>3, <4>1 DEF IsApplied
    <3>3. QED
      BY <2>5, <2>7, <3>1, <3>2
  <2>8. AgreeInv'
    BY <2>2, <2>6, <2>7 DEF AgreeInv
  <2>9. QED
    BY <1>1, <1>6, <2>2, <2>4, <2>8 DEF ViewInv, StoreInv
<1>9. QED
  BY <1>7, <1>8

-----------------------------------------------------------------------------
LEMMA NextKeepsViewInv ==
  ViewInv /\ [Next]_vars => ViewInv'
<1> SUFFICES ASSUME ViewInv, [Next]_vars
             PROVE  ViewInv'
  OBVIOUS
<1>1. CASE Operate
  BY <1>1, AddSiteKeeps, AddChargerKeeps, UpdateChargerKeeps, RemoveChargerKeeps DEF Operate
<1>2. CASE TakeNext
  BY <1>2, TakeKeeps
<1>3. CASE Deliver \/ Fail \/ ProcessLate
  BY <1>3, DeliveriesAre, ReceiptKeeps
<1>4. CASE Pull
  BY <1>4, PullSitesKeeps, PullChargersKeeps, PullFailsKeeps, PullEndsKeeps, ApplyLocationKeeps DEF Pull
<1>5. CASE UNCHANGED vars
  <2>1. UNCHANGED <<queueVars, cpoVars, locations, pull, late, lost, calm>>
    BY <1>5 DEF vars, history
  <2>2. \A p \in Pullers : (IsCalm(p)' <=> IsCalm(p)) /\ (IsQuiet(p)' <=> IsQuiet(p))
    BY <2>1, PullingLeaves DEF IsCalm, IsQuiet, cpoVars, queueVars
  <2>3. PullInv'
    BY <2>1, <2>2 DEF ViewInv, PullInv, IsApplying
  <2>4. QED
    BY <2>1, <2>3, PullingLeaves DEF ViewInv
<1>6. QED
  BY <1>1, <1>2, <1>3, <1>4, <1>5 DEF Next

LEMMA InitIsRight == Init => ViewInv
<1> SUFFICES ASSUME Init
             PROVE  ViewInv
  OBVIOUS
<1>1. /\ queue = << >> /\ sending = NoPush /\ sites = {} /\ late = {}
      /\ chargers = EmptyRepository /\ locations = EmptyRepository
      /\ pull = [p \in Pullers |-> Idle] /\ calm = [p \in Pullers |-> "busy"]
  BY DEF Init, QueueInit
<1>2. DOMAIN EmptyRepository = {}
  BY DEF EmptyRepository
<1>3. CPOInv
  BY <1>1, <1>2 DEF CPOInv, IsRepository, EmptyRepository
<1>4. StoreInv
  BY <1>1, <1>2 DEF StoreInv
<1>5. PushInv
  BY <1>1 DEF PushInv
<1>6. AgreeInv
  BY <1>1, <1>2 DEF AgreeInv, Shown, Actual, Location, NewLocation
<1>7. PullInv
  BY <1>1 DEF PullInv
<1>8. QED
  BY <1>3, <1>4, <1>5, <1>6, <1>7 DEF ViewInv

\* What the store shows of a site or a charger is right as soon as the last push about it has arrived,
\* or a pull that was left alone is over: whatever other pushes were dropped, failed or late, and
\* whatever pulls they overtook (putLocation, putEVSE, SyncLocations, listLocations).
THEOREM SettledStaysRight == Spec => []SettledIsRight
<1>1. ASSUME ViewInv
      PROVE  SettledIsRight
  <2>1. ASSUME NEW s \in sites, NEW c \in ChargerIDs, Settled(<<s, c>>)
        PROVE  AgreeOnEVSE(s, c)
    <3>1. Shown(s, c) = Actual(s, c)
      BY <1>1, <2>1 DEF ViewInv, CPOInv, AgreeInv
    <3>2. \A d \in DOMAIN Location(s).evses : Location(s).evses[d] # "REMOVED"
      BY <1>1 DEF ViewInv, StoreInv, EVSEsAreShown, Location, NewLocation, EmptyRepository
    <3>3. QED
      BY <3>1, <3>2, StatusIsShown DEF AgreeOnEVSE, Shown, Actual
  <2>2. \A s \in sites : Settled(<<s, NoEVSE>>) => AgreeOnSite(s)
    BY <1>1 DEF ViewInv, CPOInv, AgreeInv, AgreeOnSite
  <2>3. QED
    BY <2>1, <2>2 DEF SettledIsRight
<1>2. Spec => []ViewInv
  BY InitIsRight, NextKeepsViewInv, PTL DEF Spec
<1>3. QED
  BY <1>1, <1>2, PTL
=============================================================================
