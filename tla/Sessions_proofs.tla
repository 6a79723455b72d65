--------------------------- MODULE Sessions_proofs ---------------------------
(***************************************************************************)
(* What the session controller's handlers preserve, whoever calls them:    *)
(* lemmas about the operators of Sessions, cited by the theorems about the *)
(* components that use them.                                               *)
(***************************************************************************)
EXTENDS Sessions, SequenceTheorems, FiniteSetTheorems, WellFoundedInduction, TLAPS

(***************************************************************************)
(* Repositories.                                                           *)
(***************************************************************************)

\* Upsert adds one ID, and changes what is stored under that ID only.
LEMMA UpsertLookup ==
  ASSUME NEW r, NEW id, NEW e
  PROVE  /\ DOMAIN Upsert(r, id, e) = DOMAIN r \cup {id}
         /\ Upsert(r, id, e)[id] = e
         /\ \A x \in DOMAIN r : x # id => Upsert(r, id, e)[x] = r[x]
  BY DEF Upsert

\* DeleteAll removes the IDs it is given, and changes what is stored under no other.
LEMMA DeleteLookup ==
  ASSUME NEW r, NEW ids
  PROVE  /\ DOMAIN DeleteAll(r, ids) = DOMAIN r \ ids
         /\ \A x \in DOMAIN r \ ids : DeleteAll(r, ids)[x] = r[x]
  BY DEF DeleteAll, Restrict

\* Upsert of a well-typed entity keeps a repository well typed, also if the IDs in use grow.
LEMMA UpsertType ==
  ASSUME NEW K, NEW L, NEW V, NEW r, NEW id \in L, NEW e \in V,
         IsRepository(r, K, V), K \subseteq L
  PROVE  IsRepository(Upsert(r, id, e), L, V)
  BY DEF IsRepository, Upsert

\* So does DeleteAll.
LEMMA DeleteType ==
  ASSUME NEW K, NEW V, NEW r, NEW ids, IsRepository(r, K, V)
  PROVE  IsRepository(DeleteAll(r, ids), K, V)
  BY DEF IsRepository, DeleteAll, Restrict

\* A repository may be read as one over a larger set of IDs.
LEMMA WiderIDs ==
  ASSUME NEW K, NEW L, NEW V, NEW r, IsRepository(r, K, V), K \subseteq L
  PROVE  IsRepository(r, L, V)
  BY DEF IsRepository

(***************************************************************************)
(* Keeping the last of a list, as both controllers do with their history.  *)
(***************************************************************************)

\* A set of numbers has a least one.
LEMMA LeastOf ==
  ASSUME NEW S, S \subseteq Nat, S # {}
  PROVE  \E x \in S : \A y \in S : x <= y
<1>1. PICK x \in S : \A y \in S : ~(<<y, x>> \in OpToRel(<, Nat))
  BY NatLessThanWellFounded, WFMin
<1>2. ASSUME NEW y \in S PROVE x <= y
  <2>1. ~(y < x)
    BY <1>1 DEF OpToRel
  <2>2. QED
    BY <2>1
<1>3. QED
  BY <1>2

\* Of those that fewer than limit others follow, there are at most limit.
LEMMA LastOnesAreFew ==
  ASSUME NEW limit \in Nat, NEW all \in SUBSET Nat, IsFiniteSet(all), NEW kept \in SUBSET all,
         \A s \in kept : ~(Cardinality({t \in all : t > s}) >= limit)
  PROVE  IsFiniteSet(kept) /\ Cardinality(kept) <= limit
<1>1. CASE kept = {}
  BY <1>1, FS_EmptySet
<1>2. CASE kept # {}
  <2>1. PICK first \in kept : \A s \in kept : first <= s
    BY <1>2, LeastOf
  <2> DEFINE following == {t \in all : t > first}
  <2>2. /\ following \in SUBSET all /\ first \notin following
        /\ kept \in SUBSET (following \cup {first})
    BY <2>1
  <2>3. ~(Cardinality(following) >= limit)
    OBVIOUS
  <2> HIDE DEF following
  <2>4. IsFiniteSet(following) /\ Cardinality(following) \in Nat
    BY <2>2, FS_Subset, FS_CardinalityType
  <2>5. /\ IsFiniteSet(following \cup {first})
        /\ Cardinality(following \cup {first}) = Cardinality(following) + 1
    BY <2>2, <2>4, FS_AddElement
  <2>6. IsFiniteSet(kept) /\ Cardinality(kept) <= Cardinality(following \cup {first})
    BY <2>2, <2>5, FS_Subset
  <2>7. Cardinality(kept) \in Nat
    BY <2>6, FS_CardinalityType
  <2>8. QED
    BY <2>3, <2>4, <2>5, <2>6, <2>7
<1>3. QED
  BY <1>1, <1>2

(***************************************************************************)
(* What the handlers do, part by part: the ledger they leave, written out. *)
(***************************************************************************)
LedgerOf(sessions, cdrs, lastPublishedAt, lastSessionID, lastCDRID, events) ==
  [sessions |-> sessions, cdrs |-> cdrs, lastPublishedAt |-> lastPublishedAt,
   lastSessionID |-> lastSessionID, lastCDRID |-> lastCDRID, events |-> events]

IsLedgerRecord(l) ==
  l = LedgerOf(l.sessions, l.cdrs, l.lastPublishedAt, l.lastSessionID, l.lastCDRID, l.events)

\* Those of a repository of sessions that are in a state, and of CDRs that bill given sessions.
In(sessions, state) == {s \in DOMAIN sessions : sessions[s].state = state}
CDRsOf(cdrs, ids) == {d \in DOMAIN cdrs : cdrs[d].sessionID \in ids}

\* Those of the completed sessions that are too many.
ExcessOf(completed) ==
  {s \in completed : Cardinality({t \in completed : t > s}) >= MaxCompletedSessions}

\* A ledger written out has the parts it is written with.
LEMMA LedgerParts ==
  ASSUME NEW s, NEW c, NEW p, NEW m, NEW n, NEW e, NEW l, l = LedgerOf(s, c, p, m, n, e)
  PROVE  /\ IsLedgerRecord(l)
         /\ l.sessions = s /\ l.cdrs = c /\ l.lastPublishedAt = p
         /\ l.lastSessionID = m /\ l.lastCDRID = n /\ l.events = e
  BY DEF IsLedgerRecord, LedgerOf

\* Starting over with no event published changes nothing else.
LEMMA FreshIs ==
  ASSUME NEW l, IsLedgerRecord(l)
  PROVE  Fresh(l) = LedgerOf(l.sessions, l.cdrs, l.lastPublishedAt,
                             l.lastSessionID, l.lastCDRID, << >>)
  BY DEF Fresh, IsLedgerRecord, LedgerOf

\* Nor does publishing.
LEMMA PublishIs ==
  ASSUME NEW l, NEW event, IsLedgerRecord(l)
  PROVE  Publish(l, event) = LedgerOf(l.sessions, l.cdrs, l.lastPublishedAt,
                                      l.lastSessionID, l.lastCDRID, Append(l.events, event))
  BY DEF Publish, IsLedgerRecord, LedgerOf

\* Storing a session publishes it, and leaves the CDRs and the last numbers alone.
LEMMA UpdateSessionIs ==
  ASSUME NEW l, NEW id, NEW session, IsLedgerRecord(l)
  PROVE  UpdateSession(l, id, session) =
           LedgerOf(Upsert(l.sessions, id, session), l.cdrs,
                    Upsert(l.lastPublishedAt, id, session.updatedAt),
                    l.lastSessionID, l.lastCDRID,
                    Append(l.events, SessionEvent(id, session)))
<1> DEFINE s == Upsert(l.sessions, id, session)
           p == Upsert(l.lastPublishedAt, id, session.updatedAt)
           stored == LedgerOf(s, l.cdrs, p, l.lastSessionID, l.lastCDRID, l.events)
<1>1. [l EXCEPT !.sessions = s, !.lastPublishedAt = p] = stored
  <2> HIDE DEF s, p
  <2>1. [l EXCEPT !.sessions = s] =
          LedgerOf(s, l.cdrs, l.lastPublishedAt, l.lastSessionID, l.lastCDRID, l.events)
    BY DEF IsLedgerRecord, LedgerOf
  <2>2. [LedgerOf(s, l.cdrs, l.lastPublishedAt, l.lastSessionID, l.lastCDRID, l.events)
           EXCEPT !.lastPublishedAt = p] = stored
    BY DEF LedgerOf
  <2>3. [l EXCEPT !.sessions = s, !.lastPublishedAt = p] =
          [[l EXCEPT !.sessions = s] EXCEPT !.lastPublishedAt = p]
    BY DEF IsLedgerRecord, LedgerOf
  <2>4. QED
    BY <2>1, <2>2, <2>3
<1>2. Publish(stored, SessionEvent(id, session)) =
        LedgerOf(s, l.cdrs, p, l.lastSessionID, l.lastCDRID,
                 Append(l.events, SessionEvent(id, session)))
  <2> HIDE DEF s, p
  <2>1. QED
    BY PublishIs, LedgerParts
<1>3. QED
  BY <1>1, <1>2 DEF UpdateSession

\* A session that starts is stored under the next number.
LEMMA StartSessionIs ==
  ASSUME NEW l, NEW chargerID, NEW price, NEW at, IsLedgerRecord(l)
  PROVE  LET id      == l.lastSessionID + 1
             session == NewSession(chargerID, price, at)
         IN  StartSession(l, chargerID, price, at) =
               LedgerOf(Upsert(l.sessions, id, session), l.cdrs,
                        Upsert(l.lastPublishedAt, id, at), id, l.lastCDRID,
                        Append(l.events, SessionEvent(id, session)))
<1> DEFINE id      == l.lastSessionID + 1
           session == NewSession(chargerID, price, at)
           counted == LedgerOf(l.sessions, l.cdrs, l.lastPublishedAt, id, l.lastCDRID, l.events)
<1>1. [l EXCEPT !.lastSessionID = @ + 1] = counted
  BY DEF IsLedgerRecord, LedgerOf
<1>2. session.updatedAt = at
  BY DEF NewSession
<1>3. QED
  <2> HIDE DEF session, counted
  <2>1. counted = LedgerOf(l.sessions, l.cdrs, l.lastPublishedAt, id, l.lastCDRID, l.events)
    BY DEF counted
  <2> HIDE DEF id
  <2>2. UpdateSession(counted, id, session) =
          LedgerOf(Upsert(l.sessions, id, session), l.cdrs,
                   Upsert(l.lastPublishedAt, id, at), id, l.lastCDRID,
                   Append(l.events, SessionEvent(id, session)))
    BY <1>2, <2>1, LedgerParts, UpdateSessionIs
  <2>3. QED
    BY <1>1, <2>2 DEF StartSession, id, session

\* Progress changes the session, and the throttle if it is published.
LEMMA RecordSessionProgressIs ==
  ASSUME NEW l, NEW id, NEW energy, NEW at, NEW session, IsLedgerRecord(l),
         session = Progressed(l.sessions[id], energy, at), session.updatedAt = at
  PROVE  LET n == RecordSessionProgress(l, id, energy, at)
         IN  /\ ProgressIsHeldBack(l, id, at) =>
                  n = LedgerOf(Upsert(l.sessions, id, session), l.cdrs, l.lastPublishedAt,
                               l.lastSessionID, l.lastCDRID, l.events)
             /\ ~ProgressIsHeldBack(l, id, at) =>
                  n = LedgerOf(Upsert(l.sessions, id, session), l.cdrs,
                               Upsert(l.lastPublishedAt, id, at), l.lastSessionID,
                               l.lastCDRID, Append(l.events, SessionEvent(id, session)))
<1>1. [l EXCEPT !.sessions = Upsert(@, id, session)] =
        LedgerOf(Upsert(l.sessions, id, session), l.cdrs, l.lastPublishedAt,
                 l.lastSessionID, l.lastCDRID, l.events)
  BY DEF IsLedgerRecord, LedgerOf
<1>2. UpdateSession(l, id, session) =
        LedgerOf(Upsert(l.sessions, id, session), l.cdrs,
                 Upsert(l.lastPublishedAt, id, at), l.lastSessionID,
                 l.lastCDRID, Append(l.events, SessionEvent(id, session)))
  BY UpdateSessionIs
<1>3. QED
  BY <1>1, <1>2 DEF RecordSessionProgress

\* A CDR is stored under the next number.
LEMMA CreateCDRIs ==
  ASSUME NEW l, NEW id, NEW session, IsLedgerRecord(l)
  PROVE  CreateCDR(l, id, session) =
           LedgerOf(l.sessions, Upsert(l.cdrs, l.lastCDRID + 1, CDROf(id, session)),
                    l.lastPublishedAt, l.lastSessionID, l.lastCDRID + 1,
                    Append(l.events, CDREvent(l.lastCDRID + 1, CDROf(id, session))))
<1> DEFINE n      == l.lastCDRID + 1
           cdr    == CDROf(id, session)
           cdrs   == Upsert(l.cdrs, n, cdr)
           stored == LedgerOf(l.sessions, cdrs, l.lastPublishedAt, l.lastSessionID, n, l.events)
<1>1. [l EXCEPT !.lastCDRID = n, !.cdrs = cdrs] = stored
  <2> HIDE DEF n, cdr, cdrs
  <2>1. [l EXCEPT !.lastCDRID = n] =
          LedgerOf(l.sessions, l.cdrs, l.lastPublishedAt, l.lastSessionID, n, l.events)
    BY DEF IsLedgerRecord, LedgerOf
  <2>2. [LedgerOf(l.sessions, l.cdrs, l.lastPublishedAt, l.lastSessionID, n, l.events)
           EXCEPT !.cdrs = cdrs] = stored
    BY DEF LedgerOf
  <2>3. [l EXCEPT !.lastCDRID = n, !.cdrs = cdrs] =
          [[l EXCEPT !.lastCDRID = n] EXCEPT !.cdrs = cdrs]
    BY DEF IsLedgerRecord, LedgerOf
  <2>4. QED
    BY <2>1, <2>2, <2>3
<1>2. Publish(stored, CDREvent(n, cdr)) =
        LedgerOf(l.sessions, cdrs, l.lastPublishedAt, l.lastSessionID, n,
                 Append(l.events, CDREvent(n, cdr)))
  <2> HIDE DEF n, cdr, cdrs
  <2>1. IsLedgerRecord(stored) /\ stored.events = l.events
    BY LedgerParts
  <2>2. QED
    BY <2>1, PublishIs, LedgerParts
<1>3. CreateCDR(l, id, session) = Publish(stored, CDREvent(n, cdr))
  BY <1>1 DEF CreateCDR
<1>4. QED
  BY <1>2, <1>3

\* Retention drops the completed sessions that are too many, and the CDRs that bill them.
LEMMA ForgetOldestCompletedIs ==
  ASSUME NEW l, IsLedgerRecord(l)
  PROVE  LET ids == ExcessOf(CompletedSessions(l))
         IN  ForgetOldestCompleted(l) =
               LedgerOf(DeleteAll(l.sessions, ids),
                        DeleteAll(l.cdrs, CDRsOf(l.cdrs, ids)),
                        l.lastPublishedAt, l.lastSessionID, l.lastCDRID, l.events)
<1> DEFINE ids      == ExcessSessions(l)
           sessions == DeleteAll(l.sessions, ids)
           cdrs     == DeleteAll(l.cdrs, CDRsOf(l.cdrs, ids))
<1>1. ids = ExcessOf(CompletedSessions(l))
  BY DEF ExcessSessions, ExcessOf
<1>2. [l EXCEPT !.sessions = sessions, !.cdrs = cdrs] =
        LedgerOf(sessions, cdrs, l.lastPublishedAt, l.lastSessionID, l.lastCDRID, l.events)
  <2> HIDE DEF sessions, cdrs
  <2>1. [l EXCEPT !.sessions = sessions] =
          LedgerOf(sessions, l.cdrs, l.lastPublishedAt, l.lastSessionID, l.lastCDRID, l.events)
    BY DEF IsLedgerRecord, LedgerOf
  <2>2. [LedgerOf(sessions, l.cdrs, l.lastPublishedAt, l.lastSessionID, l.lastCDRID, l.events)
           EXCEPT !.cdrs = cdrs] =
          LedgerOf(sessions, cdrs, l.lastPublishedAt, l.lastSessionID, l.lastCDRID, l.events)
    BY DEF LedgerOf
  <2>3. [l EXCEPT !.sessions = sessions, !.cdrs = cdrs] =
          [[l EXCEPT !.sessions = sessions] EXCEPT !.cdrs = cdrs]
    BY DEF IsLedgerRecord, LedgerOf
  <2>4. QED
    BY <2>1, <2>2, <2>3
<1>3. ForgetOldestCompleted(l) = [l EXCEPT !.sessions = sessions, !.cdrs = cdrs]
  BY DEF ForgetOldestCompleted, CDRsOf
<1>4. QED
  BY <1>1, <1>2, <1>3

\* What a stop publishes: the session as it has ended, and then its CDR.
StopEvents(l, id, session) ==
  Append(Append(l.events, SessionEvent(id, session)),
         CDREvent(l.lastCDRID + 1, CDROf(id, session)))

\* n is what a stop leaves of l: session is stored under id, and its CDR, and the throttle has no
\* entry for it; then the sessions ids are dropped, and their CDRs.
StopLeaves(n, l, id, session, at, ids) ==
  LET sessions == Upsert(l.sessions, id, session)
      cdrs     == Upsert(l.cdrs, l.lastCDRID + 1, CDROf(id, session))
  IN  /\ ids = ExcessOf(In(sessions, CompletedState))
      /\ ids \in SUBSET In(sessions, CompletedState)
      /\ n = LedgerOf(DeleteAll(sessions, ids), DeleteAll(cdrs, CDRsOf(cdrs, ids)),
                      DeleteAll(Upsert(l.lastPublishedAt, id, at), {id}),
                      l.lastSessionID, l.lastCDRID + 1, StopEvents(l, id, session))

\* StopSession does that.
LEMMA StopSessionIs ==
  ASSUME NEW l, NEW id, NEW reason, NEW at, NEW session, IsLedgerRecord(l),
         session = Ended(l.sessions[id], reason, at), session.updatedAt = at
  PROVE  \E ids : StopLeaves(StopSession(l, id, reason, at), l, id, session, at, ids)
<1> DEFINE sessions == Upsert(l.sessions, id, session)
           cdrs     == Upsert(l.cdrs, l.lastCDRID + 1, CDROf(id, session))
           updated == UpdateSession(l, id, session)
           throttle == DeleteAll(Upsert(l.lastPublishedAt, id, at), {id})
           closed  == [updated EXCEPT !.lastPublishedAt = DeleteAll(@, {id})]
           billed  == CreateCDR(closed, id, session)
<1> DEFINE said == Append(l.events, SessionEvent(id, session))
<1>1. updated = LedgerOf(sessions, l.cdrs, Upsert(l.lastPublishedAt, id, at), l.lastSessionID,
                         l.lastCDRID, said)
  BY UpdateSessionIs
<1> HIDE DEF said
<1>2. /\ IsLedgerRecord(updated)
      /\ updated.sessions = sessions /\ updated.cdrs = l.cdrs
      /\ updated.lastPublishedAt = Upsert(l.lastPublishedAt, id, at)
      /\ updated.lastSessionID = l.lastSessionID /\ updated.lastCDRID = l.lastCDRID
      /\ updated.events = said
  BY <1>1, LedgerParts
<1>3. closed = LedgerOf(sessions, l.cdrs, throttle, l.lastSessionID, l.lastCDRID, said)
  <2> HIDE DEF updated
  <2>1. QED
    BY <1>2 DEF IsLedgerRecord, LedgerOf
<1>4. /\ IsLedgerRecord(closed)
      /\ closed.sessions = sessions /\ closed.cdrs = l.cdrs
      /\ closed.lastPublishedAt = throttle
      /\ closed.lastSessionID = l.lastSessionID /\ closed.lastCDRID = l.lastCDRID
      /\ closed.events = said
  <2> HIDE DEF closed, throttle
  <2>1. QED
    BY <1>3, LedgerParts
<1> DEFINE events == StopEvents(l, id, session)
<1>5. billed = LedgerOf(sessions, cdrs, throttle, l.lastSessionID, l.lastCDRID + 1, events)
  <2> HIDE DEF closed, throttle
  <2>1. QED
    BY <1>4, CreateCDRIs DEF StopEvents, said
<1>6. /\ IsLedgerRecord(billed)
      /\ billed.sessions = sessions /\ billed.cdrs = cdrs
      /\ billed.lastPublishedAt = throttle
      /\ billed.lastSessionID = l.lastSessionID /\ billed.lastCDRID = l.lastCDRID + 1
      /\ billed.events = events
  <2> HIDE DEF billed, throttle, events
  <2>1. QED
    BY <1>5, LedgerParts
<1>7. \E ids : /\ ids = ExcessOf(CompletedSessions(billed))
                /\ ForgetOldestCompleted(billed) =
                     LedgerOf(DeleteAll(sessions, ids),
                              DeleteAll(cdrs, CDRsOf(cdrs, ids)),
                              throttle, l.lastSessionID, l.lastCDRID + 1, events)
  <2> HIDE DEF billed, throttle, events
  <2>1. QED
    BY <1>6, ForgetOldestCompletedIs
<1>8. StopSession(l, id, reason, at) = ForgetOldestCompleted(billed)
  BY DEF StopSession
<1>9. QED
  <2> HIDE DEF billed, throttle, events
  <2>1. CompletedSessions(billed) = In(sessions, CompletedState)
    BY <1>6 DEF CompletedSessions, InState, In
  <2>2. PICK ids :
          /\ ids = ExcessOf(CompletedSessions(billed))
          /\ ForgetOldestCompleted(billed) =
               LedgerOf(DeleteAll(sessions, ids),
                        DeleteAll(cdrs, CDRsOf(cdrs, ids)),
                        throttle, l.lastSessionID, l.lastCDRID + 1, events)
    BY <1>7
  <2>3. /\ ids = ExcessOf(In(sessions, CompletedState))
        /\ ids \in SUBSET In(sessions, CompletedState)
    BY <2>1, <2>2 DEF ExcessOf
  <2>4. StopSession(l, id, reason, at) =
          LedgerOf(DeleteAll(sessions, ids),
                   DeleteAll(cdrs, CDRsOf(cdrs, ids)),
                   DeleteAll(Upsert(l.lastPublishedAt, id, at), {id}),
                   l.lastSessionID, l.lastCDRID + 1, events)
    BY <1>8, <2>2 DEF throttle
  <2>5. StopLeaves(StopSession(l, id, reason, at), l, id, session, at, ids)
    BY <2>3, <2>4 DEF StopLeaves, events
  <2>6. QED
    BY <2>5

(***************************************************************************)
(* The records the handlers store.                                         *)
(***************************************************************************)

\* An amount is rounded to a whole number of cents.
LEMMA CostType ==
  ASSUME NEW session, session.energy \in Nat, session.pricePerUnit \in Nat
  PROVE  Cost(session) \in Int
<1>1. session.energy * session.pricePerUnit \in Int
  OBVIOUS
<1>2. QED
  BY <1>1 DEF Cost, RoundToCents

\* A new session is active and on its charger.
LEMMA NewSessionType ==
  ASSUME NEW chargerID \in Int, NEW price \in Nat, NEW at \in Nat
  PROVE  LET session == NewSession(chargerID, price, at)
         IN  /\ session \in SessionRecord
             /\ session.state = ActiveState /\ session.chargerID = chargerID
             /\ session.startedAt = at /\ session.updatedAt = at
  BY DEF NewSession, SessionRecord, NotEnded

\* Progress leaves the session's charger, start and state as they are.
LEMMA ProgressedType ==
  ASSUME NEW session \in SessionRecord, NEW energy \in Nat, NEW at \in Nat
  PROVE  LET n == Progressed(session, energy, at)
         IN  /\ n \in SessionRecord
             /\ n.state = session.state /\ n.chargerID = session.chargerID
             /\ n.startedAt = session.startedAt /\ n.updatedAt = at
<1> DEFINE metered == [session EXCEPT !.energy = @ + energy, !.updatedAt = at]
<1>1. /\ metered \in SessionRecord
      /\ metered.state = session.state /\ metered.chargerID = session.chargerID
      /\ metered.startedAt = session.startedAt /\ metered.updatedAt = at
  <2>1. session.energy + energy \in Nat
    BY DEF SessionRecord
  <2>2. QED
    BY <2>1 DEF SessionRecord
<1>2. Cost(metered) \in Int
  <2> HIDE DEF metered
  <2>1. QED
    BY <1>1, CostType DEF SessionRecord
<1>3. QED
  <2> HIDE DEF metered
  <2>1. /\ WithCost(metered) \in SessionRecord
        /\ WithCost(metered).state = metered.state
        /\ WithCost(metered).chargerID = metered.chargerID
        /\ WithCost(metered).startedAt = metered.startedAt
        /\ WithCost(metered).updatedAt = metered.updatedAt
    BY <1>1, <1>2 DEF WithCost, SessionRecord
  <2>2. QED
    BY <1>1, <2>1 DEF Progressed, metered

\* A session that ends is completed, and its CDR is well formed.
LEMMA EndedType ==
  ASSUME NEW session \in SessionRecord, NEW id \in Nat, NEW reason \in StopReasons, NEW at \in Nat
  PROVE  LET n == Ended(session, reason, at)
         IN  /\ n \in SessionRecord
             /\ n.state = CompletedState /\ n.updatedAt = at
             /\ CDROf(id, n) \in CDRRecord /\ CDROf(id, n).sessionID = id
<1> DEFINE stopped == [session EXCEPT !.endedAt = at, !.state = CompletedState,
                                      !.stopReason = reason, !.updatedAt = at]
<1>1. /\ stopped \in SessionRecord
      /\ stopped.state = CompletedState /\ stopped.updatedAt = at
  <2>1. [session EXCEPT !.endedAt = at] \in SessionRecord
    BY DEF SessionRecord
  <2>2. [[session EXCEPT !.endedAt = at] EXCEPT !.state = CompletedState] \in SessionRecord
    BY <2>1 DEF SessionRecord
  <2>3. QED
    BY <2>2 DEF SessionRecord
<1>2. Cost(stopped) \in Int
  <2> HIDE DEF stopped
  <2>1. QED
    BY <1>1, CostType DEF SessionRecord
<1>3. /\ WithCost(stopped) \in SessionRecord
      /\ WithCost(stopped).state = CompletedState
      /\ WithCost(stopped).updatedAt = at
  <2> HIDE DEF stopped
  <2>1. QED
    BY <1>1, <1>2 DEF WithCost, SessionRecord
<1>4. QED
  BY <1>3 DEF Ended, CDROf, SessionRecord, CDRRecord

(***************************************************************************)
(* What every handler preserves.                                           *)
(***************************************************************************)
LedgerIsRight(l) ==
  IsLedger(l) /\ CDRsBillSessions(l) /\ ThrottleCoversActive(l) /\ ListenersKeepUp(l)

\* At the start there is nothing to be wrong.
LEMMA EmptyLedgerIsRight ==
  /\ LedgerIsRight(EmptyLedger)
  /\ EmptyLedger.sessions = EmptyRepository /\ EmptyLedger.lastSessionID = 0
  BY DEF LedgerIsRight, EmptyLedger, EmptyRepository, IsLedger, IsRepository, CDRsBillSessions,
         ThrottleCoversActive, ListenersKeepUp, ActiveSessions, CompletedSessions, InState

\* The calls made to listeners are no part of what is right or wrong with a ledger.
LEMMA EventsDoNotMatter ==
  ASSUME NEW l, NEW event, NEW n, LedgerIsRight(l), n \in {Fresh(l), Publish(l, event)}
  PROVE  LedgerIsRight(n) /\ n.sessions = l.sessions /\ n.lastSessionID = l.lastSessionID
<1>1. IsLedgerRecord(l)
  BY DEF LedgerIsRight, IsLedger, IsLedgerRecord, LedgerOf
<1>2. /\ IsLedgerRecord(n)
      /\ n.sessions = l.sessions /\ n.cdrs = l.cdrs /\ n.lastPublishedAt = l.lastPublishedAt
      /\ n.lastSessionID = l.lastSessionID /\ n.lastCDRID = l.lastCDRID
  BY <1>1, FreshIs, PublishIs, LedgerParts
<1>3. IsLedger(n)
  BY <1>2 DEF LedgerIsRight, IsLedger, IsLedgerRecord, LedgerOf
<1>4. QED
  BY <1>2, <1>3 DEF LedgerIsRight, CDRsBillSessions, ThrottleCoversActive, ListenersKeepUp,
                    ActiveSessions, CompletedSessions, InState

\* n has one more active session than l, and the other sessions are as they were.
OneStarts(n, l, chargerID, at) ==
  LET id == l.lastSessionID + 1
  IN  /\ n.lastSessionID = id /\ id \in Nat \ {0} /\ id \notin DOMAIN l.sessions
      /\ ActiveSessions(n) = ActiveSessions(l) \cup {id}
      /\ n.sessions[id].chargerID = chargerID /\ n.sessions[id].startedAt = at
      /\ \A s \in DOMAIN l.sessions : n.sessions[s] = l.sessions[s]

\* The active sessions of n are those of l, on the same chargers and since the same moments.
NoneStartsOrStops(n, l) ==
  /\ n.lastSessionID = l.lastSessionID
  /\ ActiveSessions(n) = ActiveSessions(l)
  /\ \A s \in ActiveSessions(l) :
       /\ n.sessions[s].chargerID = l.sessions[s].chargerID
       /\ n.sessions[s].startedAt = l.sessions[s].startedAt

\* The session id is active in l and not in n, and the other active sessions are as they were.
OneStops(n, l, id) ==
  /\ n.lastSessionID = l.lastSessionID
  /\ ActiveSessions(n) = ActiveSessions(l) \ {id}
  /\ \A s \in ActiveSessions(n) : n.sessions[s] = l.sessions[s]

\* The completed sessions and the bills that n still has from l are as they were, and n has none
\* back that l had dropped.
HistoryIsKept(n, l) ==
  /\ \A s \in CompletedSessions(l) \cap DOMAIN n.sessions : n.sessions[s] = l.sessions[s]
  /\ \A d \in 1..l.lastCDRID \cap DOMAIN n.cdrs :
       d \in DOMAIN l.cdrs /\ n.cdrs[d] = l.cdrs[d]

\* StartSession leaves the ledger right, and one session more.
LEMMA StartSessionKeeps ==
  ASSUME NEW l, NEW chargerID \in Int, NEW price \in Nat, NEW at \in Nat, LedgerIsRight(l)
  PROVE  LET n == StartSession(l, chargerID, price, at)
         IN  LedgerIsRight(n) /\ OneStarts(n, l, chargerID, at) /\ HistoryIsKept(n, l)
<1> DEFINE n       == StartSession(l, chargerID, price, at)
           id      == l.lastSessionID + 1
           session == NewSession(chargerID, price, at)
<1>1. IsLedgerRecord(l)
  BY DEF LedgerIsRight, IsLedger, IsLedgerRecord, LedgerOf
<1>2. /\ IsLedgerRecord(n)
      /\ n.sessions = Upsert(l.sessions, id, session) /\ n.cdrs = l.cdrs
      /\ n.lastPublishedAt = Upsert(l.lastPublishedAt, id, at)
      /\ n.lastSessionID = id /\ n.lastCDRID = l.lastCDRID
  BY <1>1, StartSessionIs, LedgerParts
<1>3. /\ session \in SessionRecord
      /\ session.state = ActiveState /\ session.chargerID = chargerID
      /\ session.startedAt = at /\ session.updatedAt = at
  BY NewSessionType
<1>4. /\ l.lastSessionID \in Nat /\ l.lastCDRID \in Nat
      /\ IsRepository(l.sessions, 1..l.lastSessionID, SessionRecord)
      /\ IsRepository(l.cdrs, 1..l.lastCDRID, CDRRecord)
      /\ IsRepository(l.lastPublishedAt, 1..l.lastSessionID, Nat)
  BY DEF LedgerIsRight, IsLedger
<1>5. id \in Nat \ {0} /\ 1..l.lastSessionID \subseteq 1..id /\ id \in 1..id
      /\ id \notin 1..l.lastSessionID
  BY <1>4
<1>6. id \notin DOMAIN l.sessions
  BY <1>4, <1>5 DEF IsRepository
<1> HIDE DEF n, session, id
<1>7. IsLedger(n)
  <2>1. IsRepository(n.sessions, 1..id, SessionRecord)
    BY <1>2, <1>3, <1>4, <1>5, UpsertType
  <2>2. IsRepository(n.lastPublishedAt, 1..id, Nat)
    BY <1>2, <1>4, <1>5 DEF IsRepository, Upsert
  <2>3. QED
    BY <1>2, <1>4, <1>5, <2>1, <2>2 DEF IsLedger, IsLedgerRecord, LedgerOf
<1>8. /\ DOMAIN n.sessions = DOMAIN l.sessions \cup {id}
      /\ n.sessions[id] = session
      /\ \A s \in DOMAIN l.sessions : n.sessions[s] = l.sessions[s]
  BY <1>2, <1>6 DEF Upsert
<1>9. /\ ActiveSessions(n) = ActiveSessions(l) \cup {id}
      /\ CompletedSessions(n) = CompletedSessions(l)
  BY <1>3, <1>6, <1>8 DEF ActiveSessions, CompletedSessions, InState, ActiveState, CompletedState
<1>10. CDRsBillSessions(n)
  BY <1>2, <1>8, <1>9 DEF LedgerIsRight, CDRsBillSessions, CompletedSessions, InState
<1>11. ThrottleCoversActive(n)
  BY <1>2, <1>9 DEF LedgerIsRight, ThrottleCoversActive, Upsert
<1>12. ListenersKeepUp(n)
  <2> SUFFICES ASSUME NEW s \in ActiveSessions(n)
               PROVE  n.sessions[s].updatedAt - n.lastPublishedAt[s] < SessionUpdateInterval
    BY DEF ListenersKeepUp
  <2>1. CASE s = id
    <3>1. n.sessions[s].updatedAt = at /\ n.lastPublishedAt[s] = at
      BY <1>2, <1>3, <1>8, <2>1 DEF Upsert
    <3>2. QED
      BY <3>1, SessionConfig
  <2>2. CASE s \in ActiveSessions(l) /\ s # id
    <3>1. s \in DOMAIN l.lastPublishedAt /\ s \in DOMAIN l.sessions
      BY <2>2 DEF LedgerIsRight, ThrottleCoversActive, ActiveSessions, InState
    <3>2. n.sessions[s] = l.sessions[s] /\ n.lastPublishedAt[s] = l.lastPublishedAt[s]
      BY <1>2, <1>8, <2>2, <3>1 DEF Upsert
    <3>3. QED
      BY <2>2, <3>2 DEF LedgerIsRight, ListenersKeepUp
  <2>3. QED
    BY <1>9, <2>1, <2>2
<1>13. HistoryIsKept(n, l)
  BY <1>2, <1>8, <1>9 DEF HistoryIsKept, CompletedSessions, InState
<1>14. QED
  BY <1>2, <1>3, <1>5, <1>6, <1>7, <1>8, <1>9, <1>10, <1>11, <1>12, <1>13
     DEF LedgerIsRight, OneStarts, n, id

\* RecordSessionProgress leaves the ledger right, and the active sessions active.
LEMMA RecordSessionProgressKeeps ==
  ASSUME NEW l, NEW id \in ActiveSessions(l), NEW energy \in Nat, NEW at \in Nat,
         LedgerIsRight(l)
  PROVE  LET n == RecordSessionProgress(l, id, energy, at)
         IN  LedgerIsRight(n) /\ NoneStartsOrStops(n, l) /\ HistoryIsKept(n, l)
<1> DEFINE n       == RecordSessionProgress(l, id, energy, at)
           session == Progressed(l.sessions[id], energy, at)
<1>1. IsLedgerRecord(l)
  BY DEF LedgerIsRight, IsLedger, IsLedgerRecord, LedgerOf
<1>2. /\ l.lastSessionID \in Nat /\ l.lastCDRID \in Nat
      /\ IsRepository(l.sessions, 1..l.lastSessionID, SessionRecord)
      /\ IsRepository(l.cdrs, 1..l.lastCDRID, CDRRecord)
      /\ IsRepository(l.lastPublishedAt, 1..l.lastSessionID, Nat)
      /\ DOMAIN l.lastPublishedAt = ActiveSessions(l)
  BY DEF LedgerIsRight, IsLedger, ThrottleCoversActive
<1>3. id \in DOMAIN l.sessions /\ id \in 1..l.lastSessionID
      /\ l.sessions[id] \in SessionRecord /\ l.sessions[id].state = ActiveState
  BY <1>2 DEF ActiveSessions, InState, IsRepository
<1>4. /\ session \in SessionRecord
      /\ session.state = ActiveState /\ session.chargerID = l.sessions[id].chargerID
      /\ session.startedAt = l.sessions[id].startedAt /\ session.updatedAt = at
  BY <1>3, ProgressedType
<1>5. /\ IsLedgerRecord(n)
      /\ n.sessions = Upsert(l.sessions, id, session) /\ n.cdrs = l.cdrs
      /\ n.lastSessionID = l.lastSessionID /\ n.lastCDRID = l.lastCDRID
      /\ \/ ProgressIsHeldBack(l, id, at) /\ n.lastPublishedAt = l.lastPublishedAt
         \/ n.lastPublishedAt = Upsert(l.lastPublishedAt, id, at)
  BY <1>1, <1>4, RecordSessionProgressIs, LedgerParts
<1> HIDE DEF n, session
<1>6. /\ DOMAIN n.sessions = DOMAIN l.sessions
      /\ n.sessions[id] = session
      /\ \A s \in DOMAIN l.sessions : s # id => n.sessions[s] = l.sessions[s]
  BY <1>3, <1>5 DEF Upsert
<1>7. DOMAIN n.lastPublishedAt = ActiveSessions(l)
  BY <1>2, <1>5 DEF Upsert
<1>8. IsLedger(n)
  <2>1. IsRepository(n.sessions, 1..l.lastSessionID, SessionRecord)
    BY <1>2, <1>3, <1>4, <1>5 DEF IsRepository, Upsert
  <2>2. IsRepository(n.lastPublishedAt, 1..l.lastSessionID, Nat)
    BY <1>2, <1>3, <1>5 DEF IsRepository, Upsert
  <2>3. QED
    BY <1>2, <1>5, <2>1, <2>2 DEF IsLedger, IsLedgerRecord, LedgerOf
<1>9. /\ ActiveSessions(n) = ActiveSessions(l)
      /\ CompletedSessions(n) = CompletedSessions(l)
      /\ id \notin CompletedSessions(l)
  BY <1>3, <1>4, <1>6 DEF ActiveSessions, CompletedSessions, InState, ActiveState, CompletedState
<1>10. CDRsBillSessions(n)
  <2>1. \A s \in CompletedSessions(l) : n.sessions[s] = l.sessions[s]
    BY <1>6, <1>9 DEF CompletedSessions, InState
  <2>2. QED
    BY <1>5, <1>9, <2>1 DEF LedgerIsRight, CDRsBillSessions
<1>11. ThrottleCoversActive(n)
  BY <1>7, <1>9 DEF ThrottleCoversActive
<1>12. ListenersKeepUp(n)
  <2> SUFFICES ASSUME NEW s \in ActiveSessions(l)
               PROVE  n.sessions[s].updatedAt - n.lastPublishedAt[s] < SessionUpdateInterval
    BY <1>9 DEF ListenersKeepUp
  <2>1. CASE s = id
    <3>1. n.sessions[s].updatedAt = at
      BY <1>4, <1>6, <2>1
    <3>2. CASE ProgressIsHeldBack(l, id, at) /\ n.lastPublishedAt = l.lastPublishedAt
      BY <2>1, <3>1, <3>2 DEF ProgressIsHeldBack
    <3>3. CASE n.lastPublishedAt = Upsert(l.lastPublishedAt, id, at)
      <4>1. n.lastPublishedAt[s] = at
        BY <2>1, <3>3 DEF Upsert
      <4>2. QED
        BY <3>1, <4>1, SessionConfig
    <3>4. QED
      BY <1>5, <3>2, <3>3
  <2>2. CASE s # id
    <3>1. n.sessions[s] = l.sessions[s] /\ n.lastPublishedAt[s] = l.lastPublishedAt[s]
      BY <1>2, <1>5, <1>6, <2>2 DEF Upsert, ActiveSessions, InState
    <3>2. QED
      BY <3>1 DEF LedgerIsRight, ListenersKeepUp
  <2>3. QED
    BY <2>1, <2>2
<1>13. \A s \in ActiveSessions(l) :
         /\ n.sessions[s].chargerID = l.sessions[s].chargerID
         /\ n.sessions[s].startedAt = l.sessions[s].startedAt
  BY <1>4, <1>6 DEF ActiveSessions, InState
<1>14. HistoryIsKept(n, l)
  BY <1>5, <1>6, <1>9 DEF HistoryIsKept, CompletedSessions, InState
<1>15. QED
  BY <1>5, <1>8, <1>9, <1>10, <1>11, <1>12, <1>13, <1>14
     DEF LedgerIsRight, NoneStartsOrStops, n

\* StopSession leaves the ledger right, and one active session less, which it announces.
LEMMA StopSessionKeeps ==
  ASSUME NEW l, NEW id \in ActiveSessions(l), NEW reason \in StopReasons, NEW at \in Nat,
         LedgerIsRight(l)
  PROVE  LET n == StopSession(l, id, reason, at)
         IN  /\ LedgerIsRight(n) /\ OneStops(n, l, id) /\ HistoryIsKept(n, l)
             /\ n.events = StopEvents(l, id, Ended(l.sessions[id], reason, at))
<1> DEFINE n        == StopSession(l, id, reason, at)
           session  == Ended(l.sessions[id], reason, at)
           sessions == Upsert(l.sessions, id, session)
           cdr      == l.lastCDRID + 1
           cdrs     == Upsert(l.cdrs, cdr, CDROf(id, session))
<1>1. IsLedgerRecord(l)
  BY DEF LedgerIsRight, IsLedger, IsLedgerRecord, LedgerOf
<1>2. /\ l.lastSessionID \in Nat /\ l.lastCDRID \in Nat
      /\ IsRepository(l.sessions, 1..l.lastSessionID, SessionRecord)
      /\ IsRepository(l.cdrs, 1..l.lastCDRID, CDRRecord)
      /\ IsRepository(l.lastPublishedAt, 1..l.lastSessionID, Nat)
      /\ DOMAIN l.lastPublishedAt = ActiveSessions(l)
  BY DEF LedgerIsRight, IsLedger, ThrottleCoversActive
<1>3. id \in DOMAIN l.sessions /\ id \in 1..l.lastSessionID /\ id \in Nat
      /\ l.sessions[id] \in SessionRecord /\ l.sessions[id].state = ActiveState
  BY <1>2 DEF ActiveSessions, InState, IsRepository
<1>4. /\ session \in SessionRecord
      /\ session.state = CompletedState /\ session.updatedAt = at
      /\ CDROf(id, session) \in CDRRecord /\ CDROf(id, session).sessionID = id
  BY <1>3, EndedType
<1>5. PICK ids : StopLeaves(n, l, id, session, at, ids)
  <2>1. session = Ended(l.sessions[id], reason, at)
    OBVIOUS
  <2> HIDE DEF session
  <2>2. QED
    BY <1>1, <1>4, <2>1, StopSessionIs
<1> DEFINE kept == DOMAIN sessions \ ids
           billed == {d \in DOMAIN cdrs : cdrs[d].sessionID \notin ids}
<1>6. /\ IsLedgerRecord(n)
      /\ n.sessions = DeleteAll(sessions, ids)
      /\ n.cdrs = DeleteAll(cdrs, CDRsOf(cdrs, ids))
      /\ n.lastPublishedAt = DeleteAll(Upsert(l.lastPublishedAt, id, at), {id})
      /\ n.lastSessionID = l.lastSessionID /\ n.lastCDRID = cdr
      /\ n.events = StopEvents(l, id, session)
      /\ ids \in SUBSET In(sessions, CompletedState)
  <2> HIDE DEF n, session
  <2>1. n = LedgerOf(DeleteAll(sessions, ids), DeleteAll(cdrs, CDRsOf(cdrs, ids)),
                     DeleteAll(Upsert(l.lastPublishedAt, id, at), {id}),
                     l.lastSessionID, cdr, StopEvents(l, id, session))
    BY <1>5 DEF StopLeaves
  <2>2. ids \in SUBSET In(sessions, CompletedState)
    BY <1>5 DEF StopLeaves
  <2> HIDE DEF sessions, cdrs, cdr
  <2>3. QED
    BY <2>1, <2>2, LedgerParts
<1>7. /\ DOMAIN sessions = DOMAIN l.sessions /\ sessions[id] = session
      /\ \A s \in DOMAIN l.sessions : s # id => sessions[s] = l.sessions[s]
  BY <1>3 DEF Upsert
<1>8. cdr \notin DOMAIN l.cdrs
  BY <1>2 DEF IsRepository
<1>9. /\ DOMAIN cdrs = DOMAIN l.cdrs \cup {cdr} /\ cdrs[cdr] = CDROf(id, session)
      /\ \A d \in DOMAIN l.cdrs : cdrs[d] = l.cdrs[d]
  BY <1>8 DEF Upsert
<1>10. DOMAIN n.lastPublishedAt = ActiveSessions(l) \ {id}
       /\ \A s \in ActiveSessions(l) \ {id} : n.lastPublishedAt[s] = l.lastPublishedAt[s]
  BY <1>2, <1>6 DEF DeleteAll, Restrict, Upsert
<1> DEFINE completed == CompletedSessions(l) \cup {id}
<1>11. /\ ActiveSessions(l) \cap CompletedSessions(l) = {}
       /\ In(sessions, CompletedState) = completed
       /\ In(sessions, ActiveState) = ActiveSessions(l) \ {id}
  <2> HIDE DEF sessions, session
  <2>1. QED
    BY <1>3, <1>4, <1>7
       DEF ActiveSessions, CompletedSessions, InState, In, ActiveState, CompletedState
<1> HIDE DEF n, sessions, session, cdrs, cdr
<1>12. /\ DOMAIN n.sessions = DOMAIN sessions \ ids
       /\ \A s \in DOMAIN n.sessions : n.sessions[s] = sessions[s]
       /\ DOMAIN n.cdrs = billed
       /\ \A d \in billed : n.cdrs[d] = cdrs[d]
  BY <1>6 DEF DeleteAll, Restrict, CDRsOf
<1>13. /\ ActiveSessions(n) = ActiveSessions(l) \ {id}
       /\ CompletedSessions(n) = completed \ ids
  <2>1. ids \subseteq completed /\ ids \cap (ActiveSessions(l) \ {id}) = {}
    BY <1>6, <1>11
  <2>2. ActiveSessions(n) = In(sessions, ActiveState) \ ids
    BY <1>12 DEF ActiveSessions, InState, In
  <2>3. CompletedSessions(n) = In(sessions, CompletedState) \ ids
    BY <1>12 DEF CompletedSessions, InState, In
  <2>4. QED
    BY <1>11, <2>1, <2>2, <2>3
<1>14. \A s \in ActiveSessions(n) : n.sessions[s] = l.sessions[s]
  BY <1>7, <1>12, <1>13 DEF ActiveSessions, InState
<1>15. IsLedger(n)
  <2>1. IsRepository(sessions, 1..l.lastSessionID, SessionRecord)
    BY <1>2, <1>3, <1>4 DEF IsRepository, Upsert, sessions
  <2>2. IsRepository(n.sessions, 1..l.lastSessionID, SessionRecord)
    BY <1>6, <2>1 DEF IsRepository, DeleteAll, Restrict
  <2>3. IsRepository(cdrs, 1..cdr, CDRRecord)
    BY <1>2, <1>4 DEF IsRepository, Upsert, cdrs, cdr
  <2>4. IsRepository(n.cdrs, 1..cdr, CDRRecord)
    BY <1>6, <2>3 DEF IsRepository, DeleteAll, Restrict
  <2>5. IsRepository(n.lastPublishedAt, 1..l.lastSessionID, Nat)
    BY <1>2, <1>3, <1>6 DEF IsRepository, DeleteAll, Restrict, Upsert
  <2>6. QED
    BY <1>2, <1>6, <2>2, <2>4, <2>5 DEF IsLedger, IsLedgerRecord, LedgerOf, cdr
<1>16. CDRsBillSessions(n)
  <2>1. \A d \in DOMAIN l.cdrs :
          LET s == l.cdrs[d].sessionID
          IN  /\ s \in CompletedSessions(l) /\ s # id
              /\ l.cdrs[d] = CDROf(s, l.sessions[s]) /\ sessions[s] = l.sessions[s]
    BY <1>7, <1>11 DEF LedgerIsRight, CDRsBillSessions, CompletedSessions, InState
  <2>2. \A d \in DOMAIN cdrs :
          LET s == cdrs[d].sessionID
          IN  s \in completed /\ cdrs[d] = CDROf(s, sessions[s])
    BY <1>4, <1>7, <1>9, <2>1
  <2>3. \A s \in completed : \E d \in DOMAIN cdrs : cdrs[d].sessionID = s
    BY <1>4, <1>9 DEF LedgerIsRight, CDRsBillSessions
  <2>4. \A d, e \in DOMAIN cdrs : cdrs[d].sessionID = cdrs[e].sessionID => d = e
    BY <1>4, <1>9, <2>1 DEF LedgerIsRight, CDRsBillSessions
  <2>5. \A d \in DOMAIN n.cdrs :
          LET s == n.cdrs[d].sessionID
          IN  s \in CompletedSessions(n) /\ n.cdrs[d] = CDROf(s, n.sessions[s])
    BY <1>12, <1>13, <2>2 DEF CompletedSessions, InState
  <2>6. \A s \in CompletedSessions(n) : \E d \in DOMAIN n.cdrs : n.cdrs[d].sessionID = s
    BY <1>12, <1>13, <2>3
  <2>7. \A d, e \in DOMAIN n.cdrs : n.cdrs[d].sessionID = n.cdrs[e].sessionID => d = e
    BY <1>12, <2>4
  <2>8. QED
    BY <2>5, <2>6, <2>7 DEF CDRsBillSessions
<1>17. ThrottleCoversActive(n)
  BY <1>10, <1>13 DEF ThrottleCoversActive
<1>18. ListenersKeepUp(n)
  BY <1>10, <1>13, <1>14 DEF LedgerIsRight, ListenersKeepUp
<1>19. HistoryIsKept(n, l)
  <2>1. \A s \in CompletedSessions(l) \cap DOMAIN n.sessions : n.sessions[s] = l.sessions[s]
    BY <1>3, <1>7, <1>11, <1>12 DEF CompletedSessions, ActiveSessions, InState
  <2>2. cdr \notin 1..l.lastCDRID
    BY <1>2 DEF cdr
  <2>3. QED
    BY <1>9, <1>12, <2>1, <2>2 DEF HistoryIsKept
<1>20. QED
  BY <1>6, <1>13, <1>14, <1>15, <1>16, <1>17, <1>18, <1>19
     DEF LedgerIsRight, OneStops, n, session

(***************************************************************************)
(* What the handlers say of what they store.                               *)
(***************************************************************************)

\* Only the session id is not as it was, and the last update that listeners have heard of it.
OnlyOneChanges(n, l, id) ==
  /\ \A s \in DOMAIN n.sessions \ {id} : s \in DOMAIN l.sessions /\ n.sessions[s] = l.sessions[s]
  /\ \A s \in DOMAIN n.lastPublishedAt \ {id} :
       s \in DOMAIN l.lastPublishedAt /\ n.lastPublishedAt[s] = l.lastPublishedAt[s]

\* Listeners hear of the session id as it is stored, and the throttle remembers when.
ItIsSaid(n, l, id) ==
  /\ n.events = Append(l.events, SessionEvent(id, n.sessions[id]))
  /\ n.lastPublishedAt[id] = n.sessions[id].updatedAt

\* A session that is stored after its update is dated by it.
IsUpdatedAt(n, id, at) == id \in DOMAIN n.sessions => n.sessions[id].updatedAt = at

\* StartSession says what it stores.
LEMMA StartSessionSays ==
  ASSUME NEW l, NEW chargerID \in Int, NEW price \in Nat, NEW at \in Nat, LedgerIsRight(l)
  PROVE  LET n  == StartSession(l, chargerID, price, at)
             id == l.lastSessionID + 1
         IN  OnlyOneChanges(n, l, id) /\ IsUpdatedAt(n, id, at) /\ ItIsSaid(n, l, id)
<1> DEFINE n       == StartSession(l, chargerID, price, at)
           id      == l.lastSessionID + 1
           session == NewSession(chargerID, price, at)
           said    == Append(l.events, SessionEvent(id, session))
<1>1. n = LedgerOf(Upsert(l.sessions, id, session), l.cdrs, Upsert(l.lastPublishedAt, id, at), id,
                   l.lastCDRID, said)
  BY StartSessionIs DEF LedgerIsRight, IsLedger, IsLedgerRecord, LedgerOf
<1>2. session.updatedAt = at
  BY NewSessionType
<1> HIDE DEF n, said
<1>3. /\ n.sessions = Upsert(l.sessions, id, session)
      /\ n.lastPublishedAt = Upsert(l.lastPublishedAt, id, at) /\ n.events = said
  BY <1>1, LedgerParts
<1> HIDE DEF id, session
<1>4. QED
  BY <1>2, <1>3 DEF OnlyOneChanges, IsUpdatedAt, ItIsSaid, Upsert, n, id, said

\* RecordSessionProgress either says what it stores or nothing.
LEMMA RecordSessionProgressSays ==
  ASSUME NEW l, NEW id \in ActiveSessions(l), NEW energy \in Nat, NEW at \in Nat,
         LedgerIsRight(l)
  PROVE  LET n == RecordSessionProgress(l, id, energy, at)
         IN  /\ OnlyOneChanges(n, l, id) /\ IsUpdatedAt(n, id, at)
             /\ \/ ItIsSaid(n, l, id)
                \/ n.events = l.events /\ n.lastPublishedAt = l.lastPublishedAt
<1> DEFINE n       == RecordSessionProgress(l, id, energy, at)
           session == Progressed(l.sessions[id], energy, at)
           said    == Append(l.events, SessionEvent(id, session))
<1>1. IsLedgerRecord(l) /\ id \in DOMAIN l.sessions /\ l.sessions[id] \in SessionRecord
  BY DEF LedgerIsRight, IsLedger, IsLedgerRecord, LedgerOf, ActiveSessions, InState, IsRepository
<1>2. session.updatedAt = at
  BY <1>1, ProgressedType
<1>3. \/ n = LedgerOf(Upsert(l.sessions, id, session), l.cdrs, l.lastPublishedAt,
                      l.lastSessionID, l.lastCDRID, l.events)
      \/ n = LedgerOf(Upsert(l.sessions, id, session), l.cdrs, Upsert(l.lastPublishedAt, id, at),
                      l.lastSessionID, l.lastCDRID, said)
  <2>1. session = Progressed(l.sessions[id], energy, at)
    OBVIOUS
  <2> HIDE DEF session
  <2>2. QED
    BY <1>1, <1>2, <2>1, RecordSessionProgressIs
<1> HIDE DEF n, said
<1>4. /\ n.sessions = Upsert(l.sessions, id, session)
      /\ \/ n.lastPublishedAt = l.lastPublishedAt /\ n.events = l.events
         \/ n.lastPublishedAt = Upsert(l.lastPublishedAt, id, at) /\ n.events = said
  BY <1>3, LedgerParts
<1> HIDE DEF session
<1>5. QED
  BY <1>1, <1>2, <1>4 DEF OnlyOneChanges, IsUpdatedAt, ItIsSaid, Upsert, n, said

\* StopSession leaves the other sessions alone but for those that retention drops, and it says how
\* the session has ended, and stores just that unless retention drops it too.
LEMMA StopSessionSays ==
  ASSUME NEW l, NEW id \in ActiveSessions(l), NEW reason \in StopReasons, NEW at \in Nat,
         LedgerIsRight(l)
  PROVE  LET n       == StopSession(l, id, reason, at)
             session == Ended(l.sessions[id], reason, at)
         IN  /\ OnlyOneChanges(n, l, id) /\ IsUpdatedAt(n, id, at)
             /\ n.events = StopEvents(l, id, session) /\ session.state = CompletedState
             /\ id \in DOMAIN n.sessions => n.sessions[id] = session
<1> DEFINE n        == StopSession(l, id, reason, at)
           session  == Ended(l.sessions[id], reason, at)
           sessions == Upsert(l.sessions, id, session)
           cdrs     == Upsert(l.cdrs, l.lastCDRID + 1, CDROf(id, session))
<1>1. /\ IsLedgerRecord(l) /\ id \in DOMAIN l.sessions /\ id \in Nat
      /\ l.sessions[id] \in SessionRecord
  BY DEF LedgerIsRight, IsLedger, IsLedgerRecord, LedgerOf, ActiveSessions, InState, IsRepository
<1>2. session.updatedAt = at /\ session.state = CompletedState
  BY <1>1, EndedType
<1>3. PICK ids : StopLeaves(n, l, id, session, at, ids)
  <2>1. session = Ended(l.sessions[id], reason, at)
    OBVIOUS
  <2> HIDE DEF session
  <2>2. QED
    BY <1>1, <1>2, <2>1, StopSessionIs
<1>4. /\ n.sessions = DeleteAll(sessions, ids)
      /\ n.lastPublishedAt = DeleteAll(Upsert(l.lastPublishedAt, id, at), {id})
      /\ n.events = StopEvents(l, id, session)
  <2> HIDE DEF n, session
  <2>1. n = LedgerOf(DeleteAll(sessions, ids), DeleteAll(cdrs, CDRsOf(cdrs, ids)),
                     DeleteAll(Upsert(l.lastPublishedAt, id, at), {id}),
                     l.lastSessionID, l.lastCDRID + 1, StopEvents(l, id, session))
    BY <1>3 DEF StopLeaves
  <2> HIDE DEF sessions, cdrs
  <2>2. QED
    BY <2>1, LedgerParts
<1> HIDE DEF n, session
<1>5. OnlyOneChanges(n, l, id) /\ (id \in DOMAIN n.sessions => n.sessions[id] = session)
  BY <1>1, <1>4 DEF OnlyOneChanges, DeleteAll, Restrict, Upsert
<1>6. QED
  BY <1>2, <1>4, <1>5 DEF IsUpdatedAt, n, session

\* StopSession leaves no more completed sessions than are to be kept.
LEMMA StopSessionForgets ==
  ASSUME NEW l, NEW id \in ActiveSessions(l), NEW reason \in StopReasons, NEW at \in Nat,
         LedgerIsRight(l)
  PROVE  LET n == StopSession(l, id, reason, at)
         IN  Cardinality(CompletedSessions(n)) <= MaxCompletedSessions
<1> DEFINE n         == StopSession(l, id, reason, at)
           session   == Ended(l.sessions[id], reason, at)
           sessions  == Upsert(l.sessions, id, session)
           cdrs      == Upsert(l.cdrs, l.lastCDRID + 1, CDROf(id, session))
           completed == In(sessions, CompletedState)
<1>1. /\ IsLedgerRecord(l) /\ id \in DOMAIN l.sessions /\ l.sessions[id] \in SessionRecord
      /\ l.lastSessionID \in Nat /\ DOMAIN l.sessions \subseteq 1..l.lastSessionID
  BY DEF LedgerIsRight, IsLedger, IsLedgerRecord, LedgerOf, ActiveSessions, InState, IsRepository
<1>2. session.updatedAt = at
  BY <1>1, EndedType
<1>3. PICK ids : StopLeaves(n, l, id, session, at, ids)
  <2>1. session = Ended(l.sessions[id], reason, at)
    OBVIOUS
  <2> HIDE DEF session
  <2>2. QED
    BY <1>1, <1>2, <2>1, StopSessionIs
<1>4. n.sessions = DeleteAll(sessions, ids) /\ ids = ExcessOf(completed)
  <2> HIDE DEF n, session
  <2>1. /\ ids = ExcessOf(completed)
        /\ n = LedgerOf(DeleteAll(sessions, ids), DeleteAll(cdrs, CDRsOf(cdrs, ids)),
                        DeleteAll(Upsert(l.lastPublishedAt, id, at), {id}),
                        l.lastSessionID, l.lastCDRID + 1, StopEvents(l, id, session))
    BY <1>3 DEF StopLeaves
  <2> HIDE DEF sessions, cdrs, completed
  <2>2. QED
    BY <2>1, LedgerParts
<1>5. DOMAIN sessions \in SUBSET (1..l.lastSessionID)
  BY <1>1 DEF Upsert
<1> HIDE DEF n, session, sessions
<1>6. completed \in SUBSET Nat /\ IsFiniteSet(completed)
  <2>1. completed \in SUBSET (1..l.lastSessionID)
    BY <1>5 DEF In
  <2>2. IsFiniteSet(1..l.lastSessionID) /\ 1..l.lastSessionID \subseteq Nat
    <3>1. 1 \in Int /\ l.lastSessionID \in Int
      BY <1>1
    <3>2. IsFiniteSet(1..l.lastSessionID)
      BY <3>1, FS_Interval
    <3>3. QED
      BY <3>2
  <2> HIDE DEF completed
  <2>3. QED
    BY <2>1, <2>2, FS_Subset
<1>7. CompletedSessions(n) = completed \ ids
  BY <1>4 DEF CompletedSessions, InState, In, DeleteAll, Restrict
<1> HIDE DEF completed
<1>8. \A s \in completed \ ids : ~(Cardinality({t \in completed : t > s}) >= MaxCompletedSessions)
  BY <1>4 DEF ExcessOf
<1>9. MaxCompletedSessions \in Nat
  BY SessionConfig
<1>10. QED
  BY <1>6, <1>7, <1>8, <1>9, LastOnesAreFew DEF n

\* A session starts with no energy delivered.
LEMMA StartSessionStartsAtZero ==
  ASSUME NEW l, NEW chargerID, NEW price, NEW at, LedgerIsRight(l)
  PROVE  StartSession(l, chargerID, price, at).sessions[l.lastSessionID + 1].energy = 0
<1> DEFINE n       == StartSession(l, chargerID, price, at)
           id      == l.lastSessionID + 1
           session == NewSession(chargerID, price, at)
           said    == Append(l.events, SessionEvent(id, session))
<1>1. n = LedgerOf(Upsert(l.sessions, id, session), l.cdrs, Upsert(l.lastPublishedAt, id, at), id,
                   l.lastCDRID, said)
  BY StartSessionIs DEF LedgerIsRight, IsLedger, IsLedgerRecord, LedgerOf
<1>2. session.energy = 0
  BY DEF NewSession
<1> HIDE DEF n, said, id, session
<1>3. n.sessions = Upsert(l.sessions, id, session)
  BY <1>1, LedgerParts
<1>4. QED
  BY <1>2, <1>3 DEF Upsert, n, id

\* RecordSessionProgress adds what it is given to the session's energy.
LEMMA RecordSessionProgressAdds ==
  ASSUME NEW l, NEW id \in ActiveSessions(l), NEW energy \in Nat, NEW at \in Nat,
         LedgerIsRight(l)
  PROVE  RecordSessionProgress(l, id, energy, at).sessions[id].energy =
           l.sessions[id].energy + energy
<1> DEFINE n       == RecordSessionProgress(l, id, energy, at)
           session == Progressed(l.sessions[id], energy, at)
           said    == Append(l.events, SessionEvent(id, session))
<1>1. IsLedgerRecord(l) /\ id \in DOMAIN l.sessions /\ l.sessions[id] \in SessionRecord
  BY DEF LedgerIsRight, IsLedger, IsLedgerRecord, LedgerOf, ActiveSessions, InState, IsRepository
<1>2. session.updatedAt = at /\ session.energy = l.sessions[id].energy + energy
  <2>1. session.updatedAt = at
    BY <1>1, ProgressedType
  <2>2. session.energy = l.sessions[id].energy + energy
    BY <1>1 DEF Progressed, WithCost, SessionRecord
  <2>3. QED
    BY <2>1, <2>2
<1>3. \/ n = LedgerOf(Upsert(l.sessions, id, session), l.cdrs, l.lastPublishedAt,
                      l.lastSessionID, l.lastCDRID, l.events)
      \/ n = LedgerOf(Upsert(l.sessions, id, session), l.cdrs, Upsert(l.lastPublishedAt, id, at),
                      l.lastSessionID, l.lastCDRID, said)
  <2>1. session = Progressed(l.sessions[id], energy, at)
    OBVIOUS
  <2> HIDE DEF session
  <2>2. QED
    BY <1>1, <1>2, <2>1, RecordSessionProgressIs
<1> HIDE DEF n, said, session
<1>4. n.sessions = Upsert(l.sessions, id, session)
  BY <1>3, LedgerParts
<1>5. QED
  BY <1>2, <1>4 DEF Upsert, n

\* A CDR bills what its session has delivered, from when it started, on its charger.
LEMMA EndedIsBilled ==
  ASSUME NEW session \in SessionRecord, NEW id, NEW reason, NEW at
  PROVE  LET cdr == CDROf(id, Ended(session, reason, at))
         IN  /\ cdr.chargerID = session.chargerID /\ cdr.energy = session.energy
             /\ cdr.startedAt = session.startedAt
<1> DEFINE stopped == [session EXCEPT !.endedAt = at, !.state = CompletedState,
                                      !.stopReason = reason, !.updatedAt = at]
<1>1. /\ stopped.chargerID = session.chargerID /\ stopped.energy = session.energy
      /\ stopped.startedAt = session.startedAt
      /\ DOMAIN stopped = DOMAIN session
  BY DEF SessionRecord
<1>2. DOMAIN session = {"chargerID", "pricePerUnit", "startedAt", "updatedAt", "endedAt", "energy",
                        "totalCost", "state", "stopReason"}
  BY DEF SessionRecord
<1> HIDE DEF stopped
<1>3. /\ WithCost(stopped).chargerID = stopped.chargerID
      /\ WithCost(stopped).energy = stopped.energy
      /\ WithCost(stopped).startedAt = stopped.startedAt
  BY <1>1, <1>2 DEF WithCost
<1>4. QED
  BY <1>1, <1>3 DEF CDROf, Ended, stopped

(***************************************************************************)
(* The calls to listeners, as sequences of whatever they say.              *)
(***************************************************************************)
IsSequence(s) == s \in Seq(Range(s))
IsLongerBy(t, s, e) == t = Append(s, e)

\* A call that is added is the last, and the others stay where they are.
LEMMA AppendIsSequence ==
  ASSUME NEW s, NEW e, NEW t, IsSequence(s), IsLongerBy(t, s, e)
  PROVE  /\ IsSequence(t) /\ Len(s) \in Nat /\ Len(t) = Len(s) + 1
         /\ DOMAIN s = 1..Len(s) /\ DOMAIN t = 1..(Len(s) + 1)
         /\ \A i \in 1..Len(s) : t[i] = s[i]
         /\ t[Len(s) + 1] = e
<1>1. s \in Seq(Range(s) \cup {e})
  BY DEF IsSequence
<1>2. /\ t \in Seq(Range(s) \cup {e}) /\ Len(s) \in Nat /\ Len(t) = Len(s) + 1
      /\ DOMAIN s = 1..Len(s) /\ DOMAIN t = 1..(Len(s) + 1)
      /\ \A i \in 1..Len(s) : t[i] = s[i]
      /\ t[Len(s) + 1] = e
  BY <1>1 DEF IsLongerBy
<1>3. QED
  BY <1>2, SeqOfRange DEF IsSequence

\* The bills among some calls.
Bills(events) == {events[i].cdr : i \in {j \in DOMAIN events : events[j].topic = "cdr"}}

\* No call, no bill.
LEMMA NoCallNoBill == IsSequence(<< >>) /\ Bills(<< >>) = {}
<1>1. << >> \in Seq({}) /\ DOMAIN << >> = {}
  OBVIOUS
<1>2. IsSequence(<< >>)
  BY <1>1, SeqOfRange DEF IsSequence
<1>3. QED
  BY <1>1, <1>2 DEF Bills

\* One more call is one more bill, or none.
LEMMA OneMoreCall ==
  ASSUME NEW s, NEW e, NEW t, IsSequence(s), IsLongerBy(t, s, e)
  PROVE  /\ IsSequence(t)
         /\ e.topic # "cdr" => Bills(t) = Bills(s)
         /\ e.topic = "cdr" => Bills(t) = Bills(s) \cup {e.cdr}
<1>1. /\ IsSequence(t) /\ Len(s) \in Nat
      /\ DOMAIN s = 1..Len(s) /\ DOMAIN t = 1..(Len(s) + 1)
      /\ \A i \in 1..Len(s) : t[i] = s[i]
      /\ t[Len(s) + 1] = e
  BY AppendIsSequence
<1>2. \A b : b \in Bills(t) <=> b \in Bills(s) \/ (e.topic = "cdr" /\ b = e.cdr)
  BY <1>1 DEF Bills
<1>3. QED
  BY <1>1, <1>2
=============================================================================
