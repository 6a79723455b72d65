--------------------------- MODULE RecordView_proofs ---------------------------
(***************************************************************************)
(* Sessions and bills from the session controller to the eMSP's store, for *)
(* every value of the constants and every order of calls and deliveries.   *)
(*                                                                         *)
(* First the session controller under any caller: its theorems follow from *)
(* one inductive invariant, that the ledger is right. On top of it, what   *)
(* an eMSP has of the sessions that pulls them page by page.               *)
(*                                                                         *)
(* Then the push gateway for every number of events, every queue and every *)
(* way that pushes may end: what it counts, and what its receiver          *)
(* processes.  RecordView implements EventPush, so this holds of the       *)
(* pushes about sessions and bills as well.                                *)
(*                                                                         *)
(* Then the receiver's store. The inductive invariant RecordInv relates    *)
(* three things: what has been published together with what the handler in *)
(* progress is about to publish (Said), the session controller's ledger,   *)
(* and the store, which holds of each session and bill what was processed  *)
(* last, or has crowded it out.                                            *)
(***************************************************************************)
EXTENDS RecordView, PageWalk, Sessions_proofs, SequenceTheorems, FiniteSetTheorems

(***************************************************************************)
(* The session controller.                                                 *)
(***************************************************************************)

Inv == now \in Nat /\ LedgerIsRight(ledger)

\* Each handler leaves the ledger right.
LEMMA NextKeepsInv ==
  Inv /\ [Next]_vars => Inv'
<1> SUFFICES ASSUME Inv, [Next]_vars
             PROVE  Inv'
  OBVIOUS
<1> DEFINE l == Fresh(ledger)
<1>1. LedgerIsRight(l) /\ l.sessions = ledger.sessions
  BY EventsDoNotMatter DEF Inv
<1>2. ActiveSessions(l) = ActiveSessions(ledger)
  BY <1>1 DEF ActiveSessions, InState
<1> HIDE DEF l
<1>3. ASSUME NEW c \in ChargerIDs, NEW p \in Prices, Start(c, p)
      PROVE  Inv'
  <2>1. c \in Int /\ p \in Nat
    BY CallerInputs
  <2>2. LedgerIsRight(StartSession(l, c, p, now))
    BY <1>1, <2>1, StartSessionKeeps DEF Inv
  <2>3. QED
    BY <1>3, <2>2 DEF Start, Inv, l
<1>4. ASSUME NEW s \in DOMAIN ledger.sessions, NEW e \in EnergySteps, Record(s, e)
      PROVE  Inv'
  <2>1. e \in Nat /\ s \in ActiveSessions(l)
    BY <1>2, <1>4, CallerInputs DEF Record
  <2>2. LedgerIsRight(RecordSessionProgress(l, s, e, now))
    BY <1>1, <2>1, RecordSessionProgressKeeps DEF Inv
  <2>3. QED
    BY <1>4, <2>2 DEF Record, Inv, l
<1>5. ASSUME NEW s \in DOMAIN ledger.sessions, NEW r \in Reasons, Stop(s, r)
      PROVE  Inv'
  <2>1. r \in StopReasons /\ s \in ActiveSessions(l)
    BY <1>2, <1>5, CallerInputs DEF Stop
  <2>2. LedgerIsRight(StopSession(l, s, r, now))
    BY <1>1, <2>1, StopSessionKeeps DEF Inv
  <2>3. QED
    BY <1>5, <2>2 DEF Stop, Inv, l
<1>6. CASE TimePasses
  BY <1>1, <1>6 DEF TimePasses, Inv, l
<1>7. CASE UNCHANGED vars
  BY <1>7 DEF vars, Inv
<1>8. QED
  BY <1>3, <1>4, <1>5, <1>6, <1>7 DEF Next

\* It is right to start with, and so it stays.
LEMMA InvHolds == Spec => []Inv
<1>1. Init => Inv
  BY EmptyLedgerIsRight DEF Init, Inv
<1>2. QED
  BY <1>1, NextKeepsInv, PTL DEF Spec

\* The sessions, the CDRs and the throttle are well formed (StartSession, RecordSessionProgress,
\* StopSession and what they call).
THEOREM TypeCorrect == Spec => []TypeOK
<1>1. Inv => TypeOK
  BY DEF Inv, LedgerIsRight, TypeOK
<1>2. QED
  BY <1>1, InvHolds, PTL

\* Completed sessions and CDRs correspond one to one, and a CDR is its session's bill: retention
\* takes both or neither (createCDR, forgetOldestCompleted).
THEOREM BillsAreRight == Spec => []CDRsAreTheBills
<1>1. Inv => CDRsAreTheBills
  BY DEF Inv, LedgerIsRight, CDRsAreTheBills
<1>2. QED
  BY <1>1, InvHolds, PTL

\* The throttle has an entry for each active session and no other (updateSession, StopSession).
THEOREM ThrottleDoesNotLeak == Spec => []ThrottleIsExact
<1>1. Inv => ThrottleIsExact
  BY DEF Inv, LedgerIsRight, ThrottleIsExact
<1>2. QED
  BY <1>1, InvHolds, PTL

\* No listener is an update interval behind what is stored (RecordSessionProgress).
THEOREM ListenersHear == Spec => []ListenersAreNearlyCurrent
<1>1. Inv => ListenersAreNearlyCurrent
  BY DEF Inv, LedgerIsRight, ListenersAreNearlyCurrent
<1>2. QED
  BY <1>1, InvHolds, PTL

(***************************************************************************)
(* What a step may do to history, and what it has to say.                  *)
(***************************************************************************)

\* The ledger as the next operation finds it.
LEMMA FreshIsTheSame ==
  ASSUME Inv
  PROVE  LET l == Fresh(ledger)
         IN  /\ LedgerIsRight(l) /\ l.events = << >>
             /\ l.sessions = ledger.sessions /\ l.cdrs = ledger.cdrs
             /\ l.lastCDRID = ledger.lastCDRID
             /\ ActiveSessions(l) = ActiveSessions(ledger)
             /\ CompletedSessions(l) = CompletedSessions(ledger)
<1> DEFINE l == Fresh(ledger)
<1>1. IsLedgerRecord(ledger)
  BY DEF Inv, LedgerIsRight, IsLedger, IsLedgerRecord, LedgerOf
<1>2. /\ l.events = << >> /\ l.sessions = ledger.sessions /\ l.cdrs = ledger.cdrs
      /\ l.lastCDRID = ledger.lastCDRID
  BY <1>1, FreshIs, LedgerParts
<1>3. LedgerIsRight(l)
  BY EventsDoNotMatter DEF Inv
<1>4. QED
  BY <1>2, <1>3 DEF ActiveSessions, CompletedSessions, InState

\* The two events of a stop that had said nothing before.
LEMMA TwoEvents ==
  ASSUME NEW a, NEW b, NEW said, said = Append(Append(<< >>, a), b)
  PROVE  Len(said) = 2 /\ said[1] = a /\ said[2] = b
  OBVIOUS

\* What one step does to history, and what it says of a session that completes.
LEMMA StepIsRecorded ==
  ASSUME Inv, Next
  PROVE  /\ HistoryIsKept(ledger', ledger)
         /\ \A s \in ActiveSessions(ledger) \ ActiveSessions(ledger') :
              LET said == ledger'.events
              IN  /\ Len(said) = 2
                  /\ said[1].topic = "session" /\ said[1].id = s
                  /\ said[1].session.state = CompletedState
                  /\ said[2].topic = "cdr" /\ said[2].cdr = CDROf(s, said[1].session)
<1> DEFINE l == Fresh(ledger)
<1>1. /\ LedgerIsRight(l) /\ l.events = << >> /\ l.sessions = ledger.sessions
      /\ l.cdrs = ledger.cdrs /\ l.lastCDRID = ledger.lastCDRID
      /\ ActiveSessions(l) = ActiveSessions(ledger)
      /\ CompletedSessions(l) = CompletedSessions(ledger)
  BY FreshIsTheSame
<1> HIDE DEF l
<1>2. ASSUME HistoryIsKept(ledger', l)
      PROVE  HistoryIsKept(ledger', ledger)
  BY <1>1, <1>2 DEF HistoryIsKept
<1>3. ASSUME NEW c \in ChargerIDs, NEW p \in Prices, Start(c, p)
      PROVE  /\ HistoryIsKept(ledger', l)
             /\ ActiveSessions(ledger) \subseteq ActiveSessions(ledger')
  <2>1. c \in Int /\ p \in Nat /\ ledger' = StartSession(l, c, p, now)
    BY <1>3, CallerInputs DEF Start, l
  <2>2. HistoryIsKept(ledger', l) /\ OneStarts(ledger', l, c, now)
    BY <1>1, <2>1, StartSessionKeeps DEF Inv
  <2>3. QED
    BY <1>1, <2>2 DEF OneStarts
<1>4. ASSUME NEW s \in DOMAIN ledger.sessions, NEW e \in EnergySteps, Record(s, e)
      PROVE  /\ HistoryIsKept(ledger', l)
             /\ ActiveSessions(ledger) \subseteq ActiveSessions(ledger')
  <2>1. e \in Nat /\ s \in ActiveSessions(l) /\ ledger' = RecordSessionProgress(l, s, e, now)
    BY <1>1, <1>4, CallerInputs DEF Record, l
  <2>2. HistoryIsKept(ledger', l) /\ NoneStartsOrStops(ledger', l)
    BY <1>1, <2>1, RecordSessionProgressKeeps DEF Inv
  <2>3. QED
    BY <1>1, <2>2 DEF NoneStartsOrStops
<1>5. ASSUME NEW id \in DOMAIN ledger.sessions, NEW r \in Reasons, Stop(id, r)
      PROVE  /\ HistoryIsKept(ledger', l)
             /\ ActiveSessions(ledger) \ ActiveSessions(ledger') = {id}
             /\ LET said == ledger'.events
                IN  /\ Len(said) = 2
                    /\ said[1].topic = "session" /\ said[1].id = id
                    /\ said[1].session.state = CompletedState
                    /\ said[2].topic = "cdr" /\ said[2].cdr = CDROf(id, said[1].session)
  <2> DEFINE session == Ended(l.sessions[id], r, now)
             a       == SessionEvent(id, session)
             b       == CDREvent(l.lastCDRID + 1, CDROf(id, session))
             said    == ledger'.events
  <2>1. r \in StopReasons /\ id \in ActiveSessions(l) /\ ledger' = StopSession(l, id, r, now)
    BY <1>1, <1>5, CallerInputs DEF Stop, l
  <2>2. /\ HistoryIsKept(ledger', l) /\ OneStops(ledger', l, id)
        /\ said = StopEvents(l, id, session)
    BY <1>1, <2>1, StopSessionKeeps DEF Inv
  <2>3. session.state = CompletedState
    <3>1. l.sessions[id] \in SessionRecord
      BY <1>1, <2>1 DEF LedgerIsRight, IsLedger, IsRepository, ActiveSessions, InState
    <3>2. QED
      BY <2>1, <3>1, EndedType DEF Inv
  <2> HIDE DEF said, session
  <2>4. Len(said) = 2 /\ said[1] = a /\ said[2] = b
    <3>1. said = Append(Append(<< >>, a), b)
      BY <1>1, <2>2 DEF StopEvents
    <3> HIDE DEF a, b
    <3>2. QED
      BY <3>1, TwoEvents
  <2>5. /\ said[1].topic = "session" /\ said[1].id = id /\ said[1].session = session
        /\ said[2].topic = "cdr" /\ said[2].cdr = CDROf(id, session)
    BY <2>4 DEF SessionEvent, CDREvent
  <2>6. QED
    BY <1>1, <2>1, <2>2, <2>3, <2>4, <2>5 DEF OneStops, said
<1>6. CASE TimePasses
  <2>1. ledger' = l
    BY <1>6 DEF TimePasses, l
  <2>2. HistoryIsKept(l, ledger)
    <3>1. DOMAIN ledger.cdrs \subseteq 1..ledger.lastCDRID
      BY DEF Inv, LedgerIsRight, IsLedger, IsRepository
    <3>2. QED
      BY <1>1, <3>1 DEF HistoryIsKept
  <2>3. QED
    BY <1>1, <2>1, <2>2
<1>7. QED
  BY <1>2, <1>3, <1>4, <1>5, <1>6 DEF Next

\* A completed session and its bill are settled: no handler changes them while they are kept, and
\* what retention has dropped does not come back (getActiveSession, forgetOldestCompleted).
THEOREM HistoryStaysSettled == Spec => HistoryIsSettled
<1>1. Inv /\ [Next]_vars =>
        [/\ \A s \in CompletedSessions(ledger) \cap DOMAIN ledger'.sessions :
              ledger'.sessions[s] = ledger.sessions[s]
         /\ \A d \in 1..ledger.lastCDRID \cap DOMAIN ledger'.cdrs :
              d \in DOMAIN ledger.cdrs /\ ledger'.cdrs[d] = ledger.cdrs[d]]_vars
  BY StepIsRecorded DEF HistoryIsKept
<1>2. QED
  BY <1>1, InvHolds, PTL DEF Spec, HistoryIsSettled

\* When a session stops being active, its completion and its bill are published, in that order, and
\* nothing else is, also when retention drops the session in the same call (StopSession).
THEOREM CompletionsAreAnnounced == Spec => CompletionIsAnnounced
<1>1. Inv /\ [Next]_vars =>
        [\A s \in ActiveSessions(ledger) \ ActiveSessions(ledger') :
           LET said == ledger'.events
           IN  /\ Len(said) = 2
               /\ said[1].topic = "session" /\ said[1].id = s
               /\ said[1].session.state = CompletedState
               /\ said[2].topic = "cdr" /\ said[2].cdr = CDROf(s, said[1].session)]_vars
  BY StepIsRecorded
<1>2. QED
  BY <1>1, InvHolds, PTL DEF Spec, CompletionIsAnnounced

\* At most MaxCompletedSessions sessions that are over are kept, and bills.
HistoryIsShort ==
  /\ Cardinality(CompletedSessions(ledger)) <= MaxCompletedSessions
  /\ Cardinality(DOMAIN ledger.cdrs) <= MaxCompletedSessions

\* There are only finitely many sessions that are over, and no more bills.
LEMMA BillsAreAsMany ==
  ASSUME NEW l, LedgerIsRight(l)
  PROVE  /\ IsFiniteSet(CompletedSessions(l)) /\ Cardinality(CompletedSessions(l)) \in Nat
         /\ Cardinality(DOMAIN l.cdrs) \in Nat
         /\ Cardinality(DOMAIN l.cdrs) <= Cardinality(CompletedSessions(l))
<1> DEFINE over == CompletedSessions(l)
           ids  == DOMAIN l.cdrs
           f    == [d \in ids |-> l.cdrs[d].sessionID]
<1>1. IsFiniteSet(over)
  <2>1. over \in SUBSET (1..l.lastSessionID) /\ l.lastSessionID \in Int /\ 1 \in Int
    BY DEF LedgerIsRight, IsLedger, IsRepository, CompletedSessions, InState
  <2> HIDE DEF over
  <2>2. IsFiniteSet(1..l.lastSessionID)
    BY <2>1, FS_Interval
  <2>3. QED
    BY <2>1, <2>2, FS_Subset
<1>2. f \in Injection(ids, over)
  <2>1. /\ \A d \in ids : l.cdrs[d].sessionID \in over
        /\ \A d, e \in ids : l.cdrs[d].sessionID = l.cdrs[e].sessionID => d = e
    BY DEF LedgerIsRight, CDRsBillSessions
  <2> HIDE DEF ids, over
  <2>2. QED
    BY <2>1 DEF Injection, IsInjective
<1> HIDE DEF f, ids, over
<1>3. IsFiniteSet(ids) /\ Cardinality(ids) <= Cardinality(over)
  BY <1>1, <1>2, FS_Injection
<1>4. QED
  BY <1>1, <1>3, FS_CardinalityType DEF ids, over

\* Only a stop adds a completed session, and it makes room for it.
LEMMA StepKeepsHistoryShort ==
  ASSUME Inv, HistoryIsShort, [Next]_vars
  PROVE  HistoryIsShort'
<1> DEFINE l == Fresh(ledger)
           n == ledger'
<1>1. /\ LedgerIsRight(l) /\ ActiveSessions(l) = ActiveSessions(ledger)
      /\ CompletedSessions(l) = CompletedSessions(ledger) /\ now \in Nat
  BY FreshIsTheSame DEF Inv
<1> HIDE DEF l
<1>2. MaxCompletedSessions \in Nat /\ Cardinality(CompletedSessions(l)) <= MaxCompletedSessions
  BY <1>1, SessionConfig DEF HistoryIsShort
<1>3. LedgerIsRight(n)
  BY NextKeepsInv DEF Inv
<1> HIDE DEF n
<1>4. ASSUME CompletedSessions(n) \subseteq CompletedSessions(l)
      PROVE  Cardinality(CompletedSessions(n)) <= MaxCompletedSessions
  <2>1. /\ IsFiniteSet(CompletedSessions(l)) /\ Cardinality(CompletedSessions(l)) \in Nat
        /\ Cardinality(CompletedSessions(n)) \in Nat
    BY <1>1, <1>3, BillsAreAsMany
  <2>2. Cardinality(CompletedSessions(n)) <= Cardinality(CompletedSessions(l))
    BY <1>4, <2>1, FS_Subset
  <2>3. QED
    BY <1>2, <2>1, <2>2
<1>5. ASSUME NEW id, OnlyOneChanges(n, l, id), id \in ActiveSessions(n)
      PROVE  CompletedSessions(n) \subseteq CompletedSessions(l)
  BY <1>5 DEF OnlyOneChanges, CompletedSessions, ActiveSessions, InState, ActiveState,
              CompletedState
<1>6. ASSUME NEW c \in ChargerIDs, NEW p \in Prices, Start(c, p)
      PROVE  CompletedSessions(n) \subseteq CompletedSessions(l)
  <2>1. c \in Int /\ p \in Nat /\ n = StartSession(l, c, p, now)
    BY <1>6, CallerInputs DEF Start, l, n
  <2>2. OnlyOneChanges(n, l, l.lastSessionID + 1) /\ OneStarts(n, l, c, now)
    BY <1>1, <2>1, StartSessionKeeps, StartSessionSays
  <2>3. QED
    BY <1>5, <2>2 DEF OneStarts
<1>7. ASSUME NEW s \in DOMAIN ledger.sessions, NEW e \in EnergySteps, Record(s, e)
      PROVE  CompletedSessions(n) \subseteq CompletedSessions(l)
  <2>1. e \in Nat /\ s \in ActiveSessions(l) /\ n = RecordSessionProgress(l, s, e, now)
    BY <1>1, <1>7, CallerInputs DEF Record, l, n
  <2>2. OnlyOneChanges(n, l, s) /\ NoneStartsOrStops(n, l)
    BY <1>1, <2>1, RecordSessionProgressKeeps, RecordSessionProgressSays
  <2>3. QED
    BY <1>5, <2>1, <2>2 DEF NoneStartsOrStops
<1>8. ASSUME NEW s \in DOMAIN ledger.sessions, NEW r \in Reasons, Stop(s, r)
      PROVE  Cardinality(CompletedSessions(n)) <= MaxCompletedSessions
  <2>1. r \in StopReasons /\ s \in ActiveSessions(l) /\ n = StopSession(l, s, r, now)
    BY <1>1, <1>8, CallerInputs DEF Stop, l, n
  <2>2. QED
    BY <1>1, <2>1, StopSessionForgets
<1>9. ASSUME TimePasses \/ UNCHANGED vars
      PROVE  CompletedSessions(n) \subseteq CompletedSessions(l)
  BY <1>1, <1>9 DEF TimePasses, vars, l, n
<1>10. Cardinality(CompletedSessions(n)) <= MaxCompletedSessions
  BY <1>4, <1>6, <1>7, <1>8, <1>9 DEF Next
<1>11. QED
  <2>1. /\ Cardinality(CompletedSessions(n)) \in Nat /\ Cardinality(DOMAIN n.cdrs) \in Nat
        /\ Cardinality(DOMAIN n.cdrs) <= Cardinality(CompletedSessions(n))
    BY <1>3, BillsAreAsMany
  <2>2. Cardinality(DOMAIN n.cdrs) <= MaxCompletedSessions
    BY <1>2, <1>10, <2>1
  <2>3. QED
    BY <1>10, <2>2 DEF HistoryIsShort, n

\* However many sessions there are, and in whatever order they end, no more of them are kept than
\* there is room for, nor more bills (StopSession, forgetOldestCompleted).
THEOREM HistoryIsBounded == Spec => []HistoryIsShort
<1>1. Init => HistoryIsShort
  <2> SUFFICES ASSUME Init PROVE HistoryIsShort
    OBVIOUS
  <2>1. CompletedSessions(ledger) = {} /\ DOMAIN ledger.cdrs = {}
    BY DEF Init, EmptyLedger, EmptyRepository, CompletedSessions, InState
  <2>2. QED
    BY <2>1, FS_EmptySet, SessionConfig DEF HistoryIsShort
<1>2. Inv /\ HistoryIsShort /\ [Next]_vars => HistoryIsShort'
  BY StepKeepsHistoryShort
<1>3. QED
  BY <1>1, <1>2, InvHolds, PTL DEF Spec

(***************************************************************************)
(* The pages of the list of sessions, pulled one after the other.  The     *)
(* inductive invariant WalkInv says where to find what the eMSP is missing *)
(* and nothing has changed since the walk began: in what it will ask for   *)
(* next time, or on the pages that are still to come.                      *)
(***************************************************************************)

Walk == [at : {"idle", "asking", "answered"}, from : Int, offset : Nat, stamp : Int, before : Int]

\* The walk is yet to get to the session, or the next one is to ask for it.
IsAhead(s) ==
  LET session == ledger.sessions[s]
  IN  IF walk.at = "idle" THEN session.updatedAt >= walk.before
      ELSE /\ walk.at = "answered" => walk.offset # NoLink
           /\ Matches(session, walk.from)
           /\ Position(Matching(walk.from), s) > walk.offset

WalkTypeOK ==
  /\ walk \in Walk /\ slipped \in BOOLEAN
  /\ walk.at = "idle" => walk.offset = 0
  /\ walk.from <= now /\ walk.stamp <= now /\ walk.before <= now
  /\ missing \subseteq DOMAIN ledger.sessions /\ changed \subseteq DOMAIN ledger.sessions

WalkInv ==
  /\ Inv /\ WalkTypeOK
  /\ \A s \in changed : ledger.sessions[s].updatedAt >= walk.before
  /\ slipped \/ \A s \in missing \ changed : IsAhead(s)

\* Positions count from one to the length of the list.
LEMMA PositionIsInTheList ==
  ASSUME NEW n \in Nat, NEW matching \in SUBSET (1..n), NEW s \in matching
  PROVE  /\ Position(matching, s) \in Nat \ {0} /\ Cardinality(matching) \in Nat
         /\ Position(matching, s) <= Cardinality(matching)
<1> DEFINE upTo == {t \in matching : t <= s}
<1>1. IsFiniteSet(matching)
  <2>1. IsFiniteSet(1..n)
    BY FS_Interval
  <2>2. QED
    BY <2>1, FS_Subset
<1>2. upTo \in SUBSET matching /\ s \in upTo
  OBVIOUS
<1> HIDE DEF upTo
<1>3. IsFiniteSet(upTo) /\ Cardinality(upTo) <= Cardinality(matching)
  BY <1>1, <1>2, FS_Subset
<1>4. Cardinality(matching) \in Nat /\ Cardinality(upTo) \in Nat /\ Cardinality(upTo) # 0
  BY <1>1, <1>2, <1>3, FS_CardinalityType, FS_EmptySet
<1>5. QED
  BY <1>3, <1>4 DEF Position, upTo

\* In a longer list nothing comes earlier.
LEMMA PositionOnlyGrows ==
  ASSUME NEW n \in Nat, NEW longer \in SUBSET (1..n), NEW matching \in SUBSET longer, NEW s
  PROVE  Position(matching, s) <= Position(longer, s)
<1> DEFINE now_ == {t \in longer : t <= s}
           was  == {t \in matching : t <= s}
<1>1. IsFiniteSet(longer)
  <2>1. IsFiniteSet(1..n)
    BY FS_Interval
  <2>2. QED
    BY <2>1, FS_Subset
<1>2. was \in SUBSET now_ /\ now_ \in SUBSET longer
  OBVIOUS
<1> HIDE DEF now_, was
<1>3. Cardinality(was) <= Cardinality(now_)
  BY <1>1, <1>2, FS_Subset
<1>4. QED
  BY <1>3 DEF Position, now_, was

\* The list that is cut into pages, in numbers.
LEMMA MatchingIsListed ==
  ASSUME Inv, NEW from
  PROVE  ledger.lastSessionID \in Nat /\ Matching(from) \in SUBSET (1..ledger.lastSessionID)
  BY DEF Inv, LedgerIsRight, IsLedger, IsRepository, Matching

\* The page sizes, and the time in an answer, which is cut to whole seconds.
LEMMA PageNumbers ==
  ASSUME Inv
  PROVE  Limit \in Nat \ {0} /\ Truncated(now) \in Int /\ Truncated(now) <= now
  BY PageConfig DEF Inv, Limit, Truncated

\* A handler dates what it changes, and time passes without changing anything.
LEMMA StepDates ==
  ASSUME Inv, Next
  PROVE  /\ now' \in Nat /\ now <= now'
         /\ \A s \in DOMAIN ledger'.sessions :
              \/ s \in DOMAIN ledger.sessions /\ ledger'.sessions[s] = ledger.sessions[s]
              \/ ledger'.sessions[s].updatedAt = now
<1> DEFINE l == Fresh(ledger)
<1>1. /\ LedgerIsRight(l) /\ l.sessions = ledger.sessions
      /\ ActiveSessions(l) = ActiveSessions(ledger)
  BY FreshIsTheSame
<1> HIDE DEF l
<1>2. now \in Nat
  BY DEF Inv
<1>3. ASSUME NEW id, OnlyOneChanges(ledger', l, id), IsUpdatedAt(ledger', id, now), now' = now
      PROVE  /\ now' \in Nat /\ now <= now'
             /\ \A s \in DOMAIN ledger'.sessions :
                  \/ s \in DOMAIN ledger.sessions /\ ledger'.sessions[s] = ledger.sessions[s]
                  \/ ledger'.sessions[s].updatedAt = now
  BY <1>1, <1>2, <1>3 DEF OnlyOneChanges, IsUpdatedAt
<1>4. ASSUME NEW c \in ChargerIDs, NEW p \in Prices, Start(c, p)
      PROVE  \E id : OnlyOneChanges(ledger', l, id) /\ IsUpdatedAt(ledger', id, now) /\ now' = now
  <2>1. c \in Int /\ p \in Nat /\ ledger' = StartSession(l, c, p, now) /\ now' = now
    BY <1>4, CallerInputs DEF Start, l
  <2>2. QED
    BY <1>1, <1>2, <2>1, StartSessionSays
<1>5. ASSUME NEW s \in DOMAIN ledger.sessions, NEW e \in EnergySteps, Record(s, e)
      PROVE  \E id : OnlyOneChanges(ledger', l, id) /\ IsUpdatedAt(ledger', id, now) /\ now' = now
  <2>1. /\ e \in Nat /\ s \in ActiveSessions(l)
        /\ ledger' = RecordSessionProgress(l, s, e, now) /\ now' = now
    BY <1>1, <1>5, CallerInputs DEF Record, l
  <2>2. QED
    BY <1>1, <1>2, <2>1, RecordSessionProgressSays
<1>6. ASSUME NEW s \in DOMAIN ledger.sessions, NEW r \in Reasons, Stop(s, r)
      PROVE  \E id : OnlyOneChanges(ledger', l, id) /\ IsUpdatedAt(ledger', id, now) /\ now' = now
  <2>1. /\ r \in StopReasons /\ s \in ActiveSessions(l)
        /\ ledger' = StopSession(l, s, r, now) /\ now' = now
    BY <1>1, <1>6, CallerInputs DEF Stop, l
  <2>2. QED
    BY <1>1, <1>2, <2>1, StopSessionSays
<1>7. ASSUME TimePasses
      PROVE  now' = now + 1 /\ ledger'.sessions = ledger.sessions
  BY <1>1, <1>7 DEF TimePasses, l
<1>8. QED
  BY <1>2, <1>3, <1>4, <1>5, <1>6, <1>7 DEF Next

\* The eMSP begins a walk with what it is missing ahead of it.
LEMMA BeginWalkKeepsWalkInv ==
  ASSUME WalkInv, NEW from \in {Unset, walk.before}, BeginWalk(from)
  PROVE  WalkInv'
<1> DEFINE new == [walk EXCEPT !.at = "asking", !.from = from, !.offset = 0, !.before = walk.stamp]
<1>1. /\ walk \in Walk /\ walk.at = "idle" /\ now \in Nat /\ walk' = new /\ changed' = {}
      /\ slipped' = (slipped /\ from # Unset) /\ UNCHANGED <<now, ledger, missing>>
  BY DEF WalkInv, WalkTypeOK, Inv, BeginWalk, vars
<1>2. from \in Int /\ from <= now
  BY <1>1 DEF WalkInv, WalkTypeOK, Walk, Unset
<1>3. /\ new \in Walk /\ new.at = "asking" /\ new.from = from /\ new.offset = 0
      /\ new.before = walk.stamp /\ new.stamp = walk.stamp
  BY <1>1, <1>2 DEF Walk
<1> HIDE DEF new
<1>4. Inv' /\ WalkTypeOK'
  BY <1>1, <1>2, <1>3 DEF WalkInv, WalkTypeOK, Inv
<1>5. ASSUME NEW s \in missing, ~slipped' PROVE IsAhead(s)'
  <2>1. s \in DOMAIN ledger.sessions /\ Matches(ledger.sessions[s], from)
    BY <1>1, <1>5 DEF WalkInv, WalkTypeOK, IsAhead, Matches
  <2>2. s \in Matching(from)
    BY <2>1 DEF Matching
  <2>3. Position(Matching(from), s) \in Nat \ {0}
    BY <2>2, MatchingIsListed, PositionIsInTheList DEF WalkInv
  <2>4. Position(Matching(walk.from), s)' = Position(Matching(from), s)
    BY <1>1, <1>3 DEF Position, Matching
  <2>5. QED
    BY <1>1, <1>3, <2>1, <2>3, <2>4 DEF IsAhead, Matches
<1>6. QED
  BY <1>1, <1>4, <1>5 DEF WalkInv, WalkTypeOK

\* What is ahead and not on the page comes after it, on a page that the answer links to.
LEMMA ListSessionsKeepsWalkInv ==
  ASSUME WalkInv, ListSessions
  PROVE  WalkInv'
<1> DEFINE matching == Matching(walk.from)
           link     == Link(matching, walk.offset)
           new      == [walk EXCEPT !.at = "answered", !.offset = link]
<1>1. /\ walk \in Walk /\ walk.at = "asking" /\ walk' = new /\ walk.offset \in Nat
      /\ missing' = missing \ PageOf(matching, walk.offset)
      /\ UNCHANGED <<now, ledger, changed, slipped>>
  BY DEF WalkInv, WalkTypeOK, Walk, ListSessions, vars
<1>2. Limit \in Nat \ {0}
  BY PageNumbers DEF WalkInv
<1>3. link \in Nat
  BY <1>1, <1>2 DEF Link, NoLink
<1>4. /\ new \in Walk /\ new.at = "answered" /\ new.from = walk.from /\ new.offset = link
      /\ new.before = walk.before /\ new.stamp = walk.stamp
  BY <1>1, <1>3 DEF Walk
<1> HIDE DEF new, link
<1>5. Inv' /\ WalkTypeOK'
  BY <1>1, <1>4 DEF WalkInv, WalkTypeOK, Inv
<1>6. ASSUME NEW s \in missing' \ changed', ~slipped' PROVE IsAhead(s)'
  <2>1. /\ s \in DOMAIN ledger.sessions /\ IsAhead(s) /\ s \notin PageOf(matching, walk.offset)
    BY <1>1, <1>6 DEF WalkInv, WalkTypeOK
  <2>2. /\ Matches(ledger.sessions[s], walk.from) /\ Position(matching, s) > walk.offset
        /\ s \in matching
    BY <1>1, <2>1 DEF IsAhead, Matching
  <2>3. /\ Position(matching, s) \in Nat /\ Cardinality(matching) \in Nat
        /\ Position(matching, s) <= Cardinality(matching)
    BY <2>2, MatchingIsListed, PositionIsInTheList DEF WalkInv
  <2>4. Position(matching, s) \notin (walk.offset + 1)..(walk.offset + Limit)
    BY <2>1, <2>2 DEF PageOf
  <2> HIDE DEF matching
  <2>5. Position(matching, s) > walk.offset + Limit
    BY <1>1, <1>2, <2>2, <2>3, <2>4
  <2>6. link = walk.offset + Limit /\ link # NoLink
    BY <1>1, <1>2, <2>3, <2>5 DEF Link, NoLink, link
  <2>7. Position(Matching(walk.from), s)' = Position(matching, s)
    BY <1>1, <1>4 DEF Position, Matching, matching
  <2>8. QED
    BY <1>1, <1>4, <2>2, <2>5, <2>6, <2>7 DEF IsAhead, Matches
<1>7. QED
  BY <1>1, <1>4, <1>5, <1>6 DEF WalkInv

\* The next page is as far ahead as the Link said.
LEMMA FollowLinkKeepsWalkInv ==
  ASSUME WalkInv, FollowLink
  PROVE  WalkInv'
<1> DEFINE new == [walk EXCEPT !.stamp = Truncated(now), !.at = "asking"]
<1>1. /\ walk \in Walk /\ walk.at = "answered" /\ walk' = [Stamped EXCEPT !.at = "asking"]
      /\ UNCHANGED <<now, ledger, missing, changed, slipped>>
  BY DEF WalkInv, WalkTypeOK, FollowLink, vars
<1>2. Truncated(now) \in Int /\ Truncated(now) <= now
  BY PageNumbers DEF WalkInv
<1>3. /\ walk' \in Walk /\ walk'.at = "asking" /\ walk'.from = walk.from
      /\ walk'.offset = walk.offset /\ walk'.before = walk.before /\ walk'.stamp = Truncated(now)
  BY <1>1, <1>2 DEF Walk, Stamped
<1>4. Inv' /\ WalkTypeOK'
  BY <1>1, <1>2, <1>3 DEF WalkInv, WalkTypeOK, Inv
<1>5. ASSUME NEW s \in missing \ changed, ~slipped PROVE IsAhead(s)'
  <2>1. IsAhead(s)
    BY <1>5 DEF WalkInv
  <2>2. Position(Matching(walk.from), s)' = Position(Matching(walk.from), s)
    BY <1>1, <1>3 DEF Position, Matching
  <2>3. QED
    BY <1>1, <1>3, <2>1, <2>2 DEF IsAhead, Matches
<1>6. QED
  BY <1>1, <1>3, <1>4, <1>5 DEF WalkInv

\* A walk that is over has nothing ahead.
LEMMA NothingIsAhead ==
  ASSUME WalkInv, EndWalk
  PROVE  missing \subseteq changed \/ slipped
  BY DEF WalkInv, EndWalk, IsAhead

\* What the eMSP is missing then has changed since its walk began, and is for the next to ask for.
LEMMA EndWalkKeepsWalkInv ==
  ASSUME WalkInv, EndWalk
  PROVE  WalkInv'
<1>1. /\ walk \in Walk /\ walk.at = "answered" /\ walk.offset = 0
      /\ walk' = [Stamped EXCEPT !.at = "idle", !.from = Unset]
      /\ changed' = {} /\ UNCHANGED <<now, ledger, missing, slipped>>
  BY DEF WalkInv, WalkTypeOK, EndWalk, NoLink, vars
<1>2. Truncated(now) \in Int /\ Truncated(now) <= now /\ now \in Nat
  BY PageNumbers DEF WalkInv, Inv
<1>3. /\ walk' \in Walk /\ walk'.at = "idle" /\ walk'.from = Unset
      /\ walk'.offset = 0 /\ walk'.before = walk.before /\ walk'.stamp = Truncated(now)
  <2>1. /\ Stamped \in Walk /\ Stamped.offset = 0 /\ Stamped.before = walk.before
        /\ Stamped.stamp = Truncated(now)
    BY <1>1, <1>2 DEF Walk, Stamped
  <2>2. Unset \in Int
    BY DEF Unset
  <2>3. QED
    BY <1>1, <2>1, <2>2 DEF Walk
<1>4. Inv' /\ WalkTypeOK'
  BY <1>1, <1>2, <1>3 DEF WalkInv, WalkTypeOK, Inv, Unset
<1>5. ASSUME NEW s \in missing, ~slipped PROVE IsAhead(s)'
  BY <1>1, <1>3, <1>5, NothingIsAhead DEF WalkInv, IsAhead
<1>6. QED
  BY <1>1, <1>4, <1>5 DEF WalkInv

\* While the controller goes on, what does not change stays ahead: sessions that come to match only
\* make the list longer, and if some leave it after the first page, that is noted.
LEMMA ControllerStepKeepsWalkInv ==
  ASSUME WalkInv, ControllerStep
  PROVE  WalkInv'
<1> DEFINE stored  == DOMAIN ledger'.sessions
           new(s)  == s \notin DOMAIN ledger.sessions \/ ledger'.sessions[s] # ledger.sessions[s]
           updated == {s \in stored : new(s)}
<1>1. /\ Next /\ walk' = walk /\ missing' = (missing \cup updated) \cap stored
      /\ changed' = IF walk.at = "idle" THEN {} ELSE (changed \cup updated) \cap stored
      /\ slipped' = (slipped \/ (walk.offset # 0 /\ ~(DOMAIN ledger.sessions \subseteq stored)))
  BY DEF ControllerStep
<1>2. Inv' /\ Inv /\ walk \in Walk
  BY <1>1, NextKeepsInv DEF WalkInv, WalkTypeOK
<1>3. now \in Nat /\ now' \in Nat /\ now <= now'
  BY <1>1, <1>2, StepDates DEF Inv
<1>4. /\ \A s \in updated : ledger'.sessions[s].updatedAt = now
      /\ \A s \in stored \ updated : /\ s \in DOMAIN ledger.sessions
                                     /\ ledger'.sessions[s] = ledger.sessions[s]
  BY <1>1, <1>2, StepDates
<1>5. /\ {walk.from, walk.stamp, walk.before} \subseteq Int /\ walk.offset \in Nat
      /\ walk.from <= now /\ walk.stamp <= now /\ walk.before <= now
  BY <1>2 DEF WalkInv, WalkTypeOK, Walk
<1>6. WalkTypeOK'
  BY <1>1, <1>2, <1>3, <1>5 DEF WalkInv, WalkTypeOK
<1>7. updated \subseteq stored
  OBVIOUS
<1> HIDE DEF stored, updated
<1>8. ASSUME NEW s \in changed' PROVE ledger'.sessions[s].updatedAt >= walk.before
  <2>1. s \in stored /\ (s \in updated \/ s \in changed)
    BY <1>1, <1>8
  <2>2. CASE s \in updated
    BY <1>3, <1>4, <1>5, <2>2
  <2>3. CASE s \in changed /\ s \notin updated
    BY <1>4, <2>1, <2>3 DEF WalkInv
  <2>4. QED
    BY <2>1, <2>2, <2>3
<1>9. ASSUME NEW s \in missing' \ changed', ~slipped' PROVE IsAhead(s)'
  <2>1. s \in stored /\ (s \in updated \/ s \in missing) /\ ~slipped /\ slipped' = FALSE
    BY <1>1, <1>9 DEF WalkInv, WalkTypeOK
  <2>2. CASE walk.at = "idle"
    <3>1. ledger'.sessions[s].updatedAt >= walk.before
      <4>1. CASE s \in updated
        BY <1>3, <1>4, <1>5, <4>1
      <4>2. CASE s \in changed /\ s \notin updated
        BY <1>4, <2>1, <4>2 DEF WalkInv
      <4>3. CASE s \in missing \ changed /\ s \notin updated
        BY <1>4, <2>1, <2>2, <4>3 DEF WalkInv, IsAhead
      <4>4. QED
        BY <2>1, <4>1, <4>2, <4>3
    <3>2. QED
      BY <1>1, <2>2, <3>1 DEF IsAhead
  <2>3. CASE walk.at # "idle"
    <3> DEFINE m == Matching(walk.from)
               n == Matching(walk.from)'
    <3>1. s \notin updated /\ s \in missing \ changed /\ ledger'.sessions[s] = ledger.sessions[s]
      BY <1>1, <1>4, <1>9, <2>1, <2>3
    <3>2. IsAhead(s)
      BY <2>1, <3>1 DEF WalkInv
    <3>3. /\ n = {t \in stored : Matches(ledger'.sessions[t], walk.from)}
          /\ m = {t \in DOMAIN ledger.sessions : Matches(ledger.sessions[t], walk.from)}
      BY <1>1 DEF Matching, Matches, stored
    <3>4. ledger'.lastSessionID \in Nat /\ n \in SUBSET (1..ledger'.lastSessionID)
      BY <1>2, <3>3 DEF Inv, LedgerIsRight, IsLedger, IsRepository, stored
    <3>5. Matches(ledger'.sessions[s], walk.from) /\ s \in n
      BY <2>1, <2>3, <3>1, <3>2, <3>3 DEF IsAhead
    <3>6. Position(n, s) \in Nat \ {0}
      <4> HIDE DEF n
      <4>1. QED
        BY <3>4, <3>5, PositionIsInTheList
    <3>7. Position(n, s) > walk.offset
      <4>1. CASE walk.offset = 0
        <5> HIDE DEF n
        <5>1. QED
          BY <3>6, <4>1
      <4>2. CASE walk.offset # 0
        <5>1. DOMAIN ledger.sessions \subseteq stored
          BY <1>1, <2>1, <4>2
        <5>2. \A t \in DOMAIN ledger.sessions :
                Matches(ledger.sessions[t], walk.from) => Matches(ledger'.sessions[t], walk.from)
          BY <1>3, <1>4, <1>5, <5>1 DEF Matches
        <5>3. m \in SUBSET n
          BY <3>3, <5>1, <5>2
        <5>4. Position(m, s) > walk.offset /\ s \in m
          BY <2>3, <3>1, <3>2, <3>3 DEF IsAhead, WalkInv, WalkTypeOK
        <5>5. ledger.lastSessionID \in Nat /\ m \in SUBSET (1..ledger.lastSessionID)
          BY <1>2, MatchingIsListed
        <5> HIDE DEF m, n
        <5>6. Position(m, s) \in Nat /\ Position(m, s) <= Position(n, s)
          BY <3>4, <5>3, <5>4, <5>5, PositionIsInTheList, PositionOnlyGrows
        <5>7. QED
          BY <1>5, <3>6, <5>4, <5>6
      <4>3. QED
        BY <4>1, <4>2
    <3>8. Position(Matching(walk.from), s)' = Position(n, s)
      BY DEF Position
    <3> HIDE DEF m, n
    <3>9. QED
      BY <1>1, <2>3, <3>2, <3>5, <3>7, <3>8 DEF IsAhead, Matches
  <2>4. QED
    BY <2>2, <2>3
<1>10. QED
  BY <1>1, <1>2, <1>6, <1>8, <1>9 DEF WalkInv

\* What the eMSP is missing is always changed or ahead, unless the pages have slipped.
LEMMA WalkInvHolds == WalkSpec => []WalkInv
<1>1. WalkInit => WalkInv
  <2> SUFFICES ASSUME WalkInit PROVE WalkInv
    OBVIOUS
  <2>1. Inv /\ now = 0
    BY EmptyLedgerIsRight DEF WalkInit, Init, Inv
  <2>2. walk \in Walk /\ walk.offset = 0 /\ walk.from <= 0 /\ walk.stamp <= 0 /\ walk.before <= 0
    BY DEF WalkInit, NoWalk, Walk, Unset
  <2>3. missing = {} /\ changed = {} /\ slipped = FALSE
    BY DEF WalkInit
  <2>4. QED
    BY <2>1, <2>2, <2>3 DEF WalkInv, WalkTypeOK
<1>2. WalkInv /\ [WalkNext]_pageVars => WalkInv'
  <2> SUFFICES ASSUME WalkInv, [WalkNext]_pageVars PROVE WalkInv'
    OBVIOUS
  <2>1. CASE WalkStep
    BY <2>1, BeginWalkKeepsWalkInv, ListSessionsKeepsWalkInv, FollowLinkKeepsWalkInv,
       EndWalkKeepsWalkInv DEF WalkStep
  <2>2. CASE ControllerStep
    BY <2>2, ControllerStepKeepsWalkInv
  <2>3. CASE UNCHANGED pageVars
    BY <2>3 DEF pageVars, vars, WalkInv, Inv, WalkTypeOK, IsAhead, Matching, Matches, Position
  <2>4. QED
    BY <2>1, <2>2, <2>3 DEF WalkNext
<1>3. QED
  BY <1>1, <1>2, PTL DEF WalkSpec

\* A walk through the pages leaves the eMSP with every session as it is stored, except what has
\* changed meanwhile or what retention has shifted between pages (pageOf, respondPage): for pages of
\* any size, any number of sessions, and whatever happens between two pages.
THEOREM PullsAreCurrent == WalkSpec => PulledIsCurrent
<1>1. WalkInv /\ [WalkNext]_pageVars => [EndWalk => missing \subseteq changed \/ slipped]_pageVars
  BY NothingIsAhead
<1>2. QED
  BY <1>1, WalkInvHolds, PTL DEF WalkSpec, PulledIsCurrent

(***************************************************************************)
(* The push gateway.                                                       *)
(***************************************************************************)

PushID == Nat \ {0}
USE DEF PushID

Receipt == [push : PushID, known : BOOLEAN]

Settled == {received[i].push : i \in DOMAIN received} \cup late

PushTypeOK ==
  /\ published \in Nat
  /\ queue \in Seq(PushID) /\ sending \in PushID \cup {NoPush}
  /\ counts \in [sent : Nat, failed : Nat, dropped : Nat]
  /\ received \in Seq(Receipt)
  /\ late \subseteq PushID

\* Pushes wait in the order of publication, behind the one that is being sent, and what has been
\* settled, in whatever way, was published before all of them.
InOrder ==
  /\ \A i, j \in DOMAIN queue : i < j => queue[i] < queue[j]
  /\ \A i \in DOMAIN queue : queue[i] <= published
  /\ sending # NoPush => sending <= published /\ \A i \in DOMAIN queue : sending < queue[i]
  /\ \A push \in Settled : /\ push <= published
                           /\ sending # NoPush => push < sending
                           /\ \A i \in DOMAIN queue : push < queue[i]

NotProcessedAndLate == \A i \in DOMAIN received : received[i].push \notin late

PushInv ==
  /\ PushTypeOK /\ InOrder /\ NotProcessedAndLate
  /\ ProcessedOnceAndInOrder /\ EveryPushIsAccountedFor

-----------------------------------------------------------------------------
\* Nothing has been published.
LEMMA PushInvInit ==
  PushInit => PushInv
PROOF
  <1> SUFFICES ASSUME PushInit PROVE PushInv
    OBVIOUS
  <1> USE DEF PushInit, QueueInit
  <1>1. PushTypeOK
    BY DEF PushTypeOK
  <1>2. InOrder /\ NotProcessedAndLate /\ ProcessedOnceAndInOrder
    BY DEF InOrder, Settled, NotProcessedAndLate, ProcessedOnceAndInOrder
  <1>3. EveryPushIsAccountedFor
    BY DEF EveryPushIsAccountedFor, OnTheirWay
  <1> QED BY <1>1, <1>2, <1>3 DEF PushInv

\* What has been processed or is late is a push.
LEMMA SettledAreNumbers ==
  ASSUME PushTypeOK
  PROVE  Settled \subseteq PushID
PROOF
  <1>1. ASSUME NEW i \in DOMAIN received
        PROVE  received[i].push \in PushID
    <2>1. received[i] \in Receipt
      BY DEF PushTypeOK
    <2> QED BY <2>1 DEF Receipt
  <1> QED BY <1>1 DEF PushTypeOK, Settled

LEMMA SettledWillBeNumbers ==
  ASSUME PushTypeOK'
  PROVE  Settled' \subseteq PushID
PROOF
  <1>1. ASSUME NEW i \in DOMAIN received'
        PROVE  received'[i].push \in PushID
    <2>1. received'[i] \in Receipt
      BY DEF PushTypeOK
    <2> QED BY <2>1 DEF Receipt
  <1> QED BY <1>1 DEF PushTypeOK, Settled

\* What is on its way is what waits, and the push that is being sent.
LEMMA HowManyAreOnTheWay ==
  ASSUME queue \in Seq(PushID)
  PROVE  Len(OnTheirWay) = IF sending = NoPush THEN Len(queue) ELSE Len(queue) + 1
BY DEF OnTheirWay

LEMMA HowManyWillBeOnTheWay ==
  ASSUME queue' \in Seq(PushID)
  PROVE  Len(OnTheirWay') = IF sending' = NoPush THEN Len(queue') ELSE Len(queue') + 1
BY DEF OnTheirWay

\* A push that ends is counted once.
LEMMA CountingOne ==
  ASSUME counts \in [sent : Nat, failed : Nat, dropped : Nat],
         NEW name \in {"sent", "failed", "dropped"},
         counts' = [counts EXCEPT ![name] = @ + 1]
  PROVE  /\ counts' \in [sent : Nat, failed : Nat, dropped : Nat]
         /\ counts.sent \in Nat /\ counts.failed \in Nat /\ counts.dropped \in Nat
         /\ counts'.sent \in Nat /\ counts'.failed \in Nat /\ counts'.dropped \in Nat
         /\ counts'.sent + counts'.failed + counts'.dropped
              = counts.sent + counts.failed + counts.dropped + 1
OBVIOUS

\* Another push either joins the end of the queue or is counted as dropped (enqueue).
LEMMA PublishKeepsInv ==
  ASSUME PushInv, PublishEvent
  PROVE  PushInv'
PROOF
  <1>1. /\ published' = published + 1 /\ published \in Nat /\ queue \in Seq(PushID)
        /\ UNCHANGED <<sending, received, late>>
        /\ queue' = IF IsFull THEN queue ELSE Append(queue, published + 1)
        /\ counts' = IF IsFull THEN [counts EXCEPT !.dropped = @ + 1] ELSE counts
        /\ counts \in [sent : Nat, failed : Nat, dropped : Nat]
    BY DEF PushInv, PushTypeOK, PublishEvent, Enqueue
  <1>2. /\ counts' \in [sent : Nat, failed : Nat, dropped : Nat]
        /\ counts'.sent + counts'.failed + counts'.dropped
              = counts.sent + counts.failed + counts.dropped + (IF IsFull THEN 1 ELSE 0)
        /\ counts.sent \in Nat /\ counts.failed \in Nat /\ counts.dropped \in Nat
    <2>1. CASE IsFull
      BY <1>1, <2>1, CountingOne
    <2>2. CASE ~IsFull
      BY <1>1, <2>2
    <2> QED BY <2>1, <2>2
  <1>3. queue' \in Seq(PushID) /\ Len(queue') = Len(queue) + (IF IsFull THEN 0 ELSE 1)
    <2>1. published + 1 \in PushID
      BY <1>1
    <2> QED BY <1>1, <2>1
  <1>4. PushTypeOK'
    BY <1>1, <1>2, <1>3 DEF PushInv, PushTypeOK
  <1>5. InOrder'
    <2>1. Settled' = Settled /\ Settled \subseteq PushID
      BY <1>1, SettledAreNumbers DEF PushInv, Settled
    <2>2. CASE IsFull
      BY <1>1, <2>1, <2>2 DEF PushInv, PushTypeOK, InOrder
    <2>3. CASE ~IsFull
      <3>1. /\ DOMAIN queue' = DOMAIN queue \cup {Len(queue) + 1}
            /\ \A i \in DOMAIN queue : queue'[i] = queue[i] /\ queue[i] \in PushID
            /\ queue'[Len(queue) + 1] = published + 1
            /\ \A i \in DOMAIN queue : i < Len(queue) + 1 /\ i \in Nat
        BY <1>1, <2>3
      <3>2. \A i, j \in DOMAIN queue' : i < j => queue'[i] < queue'[j]
        BY <1>1, <3>1 DEF PushInv, InOrder
      <3>3. \A i \in DOMAIN queue' : queue'[i] <= published'
        BY <1>1, <3>1 DEF PushInv, InOrder
      <3>4. sending' # NoPush =>
              sending' <= published' /\ \A i \in DOMAIN queue' : sending' < queue'[i]
        BY <1>1, <3>1 DEF PushInv, PushTypeOK, InOrder
      <3>5. \A push \in Settled : push <= published' /\ \A i \in DOMAIN queue' : push < queue'[i]
        BY <1>1, <2>1, <3>1 DEF PushInv, InOrder
      <3> QED BY <1>1, <2>1, <3>2, <3>3, <3>4, <3>5 DEF PushInv, InOrder
    <2> QED BY <2>2, <2>3
  <1>6. EveryPushIsAccountedFor'
    <2>1. Len(OnTheirWay') = Len(OnTheirWay) + (IF IsFull THEN 0 ELSE 1) /\ Len(OnTheirWay) \in Nat
      BY <1>1, <1>3, HowManyAreOnTheWay, HowManyWillBeOnTheWay
    <2> QED BY <1>1, <1>2, <2>1 DEF PushInv, EveryPushIsAccountedFor
  <1> QED BY <1>1, <1>4, <1>5, <1>6 DEF PushInv, NotProcessedAndLate, ProcessedOnceAndInOrder

\* What is sent next is the oldest of those that wait (run).
LEMMA TakeKeepsInv ==
  ASSUME PushInv, TakeNext
  PROVE  PushInv'
PROOF
  <1>1. /\ sending = NoPush /\ sending' = Head(queue) /\ queue' = Tail(queue) /\ queue # << >>
        /\ UNCHANGED <<published, counts, received, late>> /\ queue \in Seq(PushID)
    BY DEF PushInv, PushTypeOK, TakeNext, Take
  <1>2. /\ sending' = queue[1] /\ sending' \in PushID /\ sending' # NoPush
        /\ queue' \in Seq(PushID) /\ Len(queue) = Len(queue') + 1
        /\ \A i \in DOMAIN queue' : /\ queue'[i] = queue[i + 1]
                                    /\ i + 1 \in DOMAIN queue /\ 1 < i + 1 /\ i \in Nat
        /\ 1 \in DOMAIN queue
    BY <1>1, PushesAreNumbered
  <1>3. PushTypeOK'
    BY <1>1, <1>2 DEF PushInv, PushTypeOK
  <1>4. InOrder'
    <2>1. Settled' = Settled
      BY <1>1 DEF Settled
    <2> QED BY <1>1, <1>2, <2>1 DEF PushInv, InOrder
  <1>5. EveryPushIsAccountedFor'
    <2>1. Len(OnTheirWay') = Len(OnTheirWay)
      BY <1>1, <1>2, HowManyAreOnTheWay, HowManyWillBeOnTheWay
    <2> QED BY <1>1, <2>1 DEF PushInv, EveryPushIsAccountedFor
  <1> QED BY <1>1, <1>3, <1>4, <1>5 DEF PushInv, NotProcessedAndLate, ProcessedOnceAndInOrder

\* A push that is processed, now or late, is processed for the first time; if that is known it was
\* the one being sent, and comes after all before it.
LEMMA ProcessingKeepsOrder ==
  ASSUME PushInv, NEW push \in PushID, NEW known \in BOOLEAN,
         \A i \in DOMAIN received : received[i].push # push,
         known => \A i \in DOMAIN received : received[i].push < push,
         received' = Processed(push, known)
  PROVE  /\ received' \in Seq(Receipt)
         /\ {received'[i].push : i \in DOMAIN received'}
              = {received[i].push : i \in DOMAIN received} \cup {push}
         /\ ProcessedOnceAndInOrder'
PROOF
  <1> DEFINE entry == [push |-> push, known |-> known]
  <1>1. entry \in Receipt /\ entry.push = push /\ entry.known = known
    BY DEF Receipt
  <1>2. received' = Append(received, entry)
    BY DEF Processed
  <1> HIDE DEF entry
  <1>3. /\ received' \in Seq(Receipt)
        /\ DOMAIN received' = DOMAIN received \cup {Len(received) + 1}
        /\ \A i \in DOMAIN received : received'[i] = received[i] /\ i < Len(received) + 1 /\ i \in Nat
        /\ received'[Len(received) + 1] = entry /\ Len(received) \in Nat
    BY <1>1, <1>2 DEF PushInv, PushTypeOK
  <1>4. ProcessedOnceAndInOrder'
    BY <1>1, <1>3 DEF PushInv, ProcessedOnceAndInOrder
  <1> QED BY <1>1, <1>3, <1>4

\* Sending ends: the push is settled, and no other was published before it and is not settled yet.
LEMMA EndingKeepsInv ==
  ASSUME PushInv, Deliver \/ Fail
  PROVE  PushInv'
PROOF
  <1>1. /\ sending # NoPush /\ sending \in PushID /\ sending' = NoPush
        /\ UNCHANGED <<published, queue>> /\ queue \in Seq(PushID)
        /\ \A push \in Settled : push < sending
        /\ sending <= published /\ \A i \in DOMAIN queue : sending < queue[i]
    BY DEF PushInv, PushTypeOK, InOrder, Deliver, Fail, SendEnds
  <1>2. /\ \A i \in DOMAIN received : received[i].push < sending /\ received[i].push # sending
        /\ sending \notin late
    <2>1. Settled \subseteq PushID
      BY SettledAreNumbers DEF PushInv
    <2>2. \A push \in Settled : push < sending /\ push # sending
      BY <1>1, <2>1
    <2>3. \A i \in DOMAIN received : received[i].push \in Settled
      BY DEF Settled
    <2>4. late \subseteq Settled
      BY DEF Settled
    <2> QED BY <2>2, <2>3, <2>4
  <1>3. /\ counts' \in [sent : Nat, failed : Nat, dropped : Nat]
        /\ counts'.sent + counts'.failed + counts'.dropped
              = counts.sent + counts.failed + counts.dropped + 1
        /\ counts.sent \in Nat /\ counts.failed \in Nat /\ counts.dropped \in Nat
        /\ counts'.sent \in Nat /\ counts'.failed \in Nat /\ counts'.dropped \in Nat
    BY CountingOne DEF PushInv, PushTypeOK, Deliver, Fail
  <1>4. EveryPushIsAccountedFor'
    <2>1. Len(OnTheirWay) = Len(OnTheirWay') + 1 /\ Len(OnTheirWay') \in Nat
      BY <1>1, HowManyAreOnTheWay, HowManyWillBeOnTheWay
    <2>2. published' = counts.sent + counts.failed + counts.dropped + Len(OnTheirWay)
      BY <1>1 DEF PushInv, EveryPushIsAccountedFor
    <2>3. published' = counts'.sent + counts'.failed + counts'.dropped + Len(OnTheirWay')
      <3> DEFINE before == counts.sent + counts.failed + counts.dropped
                 after  == counts'.sent + counts'.failed + counts'.dropped
                 left   == Len(OnTheirWay')
      <3>1. before \in Nat /\ left \in Nat /\ after = before + 1
        BY <1>3, <2>1
      <3>2. published' = before + (left + 1)
        BY <2>1, <2>2
      <3> HIDE DEF before, after, left
      <3>3. published' = after + left
        BY <3>1, <3>2
      <3> QED BY <3>3 DEF after, left
    <2> QED BY <2>3 DEF EveryPushIsAccountedFor
  <1>5. /\ received' \in Seq(Receipt) /\ late' \subseteq PushID
        /\ Settled' \subseteq Settled \cup {sending}
        /\ ProcessedOnceAndInOrder' /\ NotProcessedAndLate'
    <2>1. CASE UNCHANGED <<received, late>>
      BY <2>1 DEF PushInv, PushTypeOK, Settled, ProcessedOnceAndInOrder, NotProcessedAndLate
    <2>2. CASE /\ UNCHANGED late
               /\ received' = Processed(sending, TRUE) \/ received' = Processed(sending, FALSE)
      <3>1. /\ received' \in Seq(Receipt)
            /\ {received'[i].push : i \in DOMAIN received'}
                 = {received[i].push : i \in DOMAIN received} \cup {sending}
            /\ ProcessedOnceAndInOrder'
        BY <1>1, <1>2, <2>2, ProcessingKeepsOrder
      <3>2. NotProcessedAndLate'
        BY <1>2, <2>2, <3>1 DEF PushInv, NotProcessedAndLate
      <3> QED BY <2>2, <3>1, <3>2 DEF PushInv, PushTypeOK, Settled
    <2>3. CASE UNCHANGED received /\ late' = late \cup {sending}
      BY <1>1, <1>2, <2>3 DEF PushInv, PushTypeOK, Settled, ProcessedOnceAndInOrder,
           NotProcessedAndLate
    <2> QED BY <2>1, <2>2, <2>3 DEF Deliver, Fail
  <1>6. PushTypeOK'
    BY <1>1, <1>3, <1>5 DEF PushInv, PushTypeOK
  <1>7. InOrder'
    <2>1. \A push \in Settled' : push <= published /\ \A i \in DOMAIN queue : push < queue[i]
      BY <1>1, <1>5 DEF PushInv, InOrder
    <2> QED BY <1>1, <2>1 DEF PushInv, InOrder
  <1> QED BY <1>4, <1>5, <1>6, <1>7 DEF PushInv

\* The receiver comes to a request that the sender has given up on: late, but for the first time.
LEMMA LatenessKeepsInv ==
  ASSUME PushInv, ProcessLate
  PROVE  PushInv'
PROOF
  <1>1. PICK push \in late : received' = Processed(push, FALSE) /\ late' = late \ {push}
    BY DEF ProcessLate
  <1>2. UNCHANGED <<queue, sending, phase, published, counts>>
    BY DEF ProcessLate, queueVars
  <1>3. push \in PushID /\ \A i \in DOMAIN received : received[i].push # push
    BY DEF PushInv, PushTypeOK, NotProcessedAndLate
  <1>4. /\ received' \in Seq(Receipt)
        /\ {received'[i].push : i \in DOMAIN received'}
             = {received[i].push : i \in DOMAIN received} \cup {push}
        /\ ProcessedOnceAndInOrder'
    BY <1>1, <1>3, ProcessingKeepsOrder
  <1>5. NotProcessedAndLate'
    BY <1>1, <1>4 DEF PushInv, NotProcessedAndLate
  <1>6. Settled' = Settled
    BY <1>1, <1>4 DEF Settled
  <1>7. PushTypeOK' /\ InOrder'
    BY <1>1, <1>2, <1>4, <1>6 DEF PushInv, PushTypeOK, InOrder
  <1>8. EveryPushIsAccountedFor'
    BY <1>2 DEF PushInv, EveryPushIsAccountedFor, OnTheirWay
  <1> QED BY <1>4, <1>5, <1>7, <1>8 DEF PushInv

\* Every step of the gateway and of its receiver keeps the invariant.
LEMMA PushStepKeepsInv ==
  ASSUME PushInv, [PushNext]_pushVars
  PROVE  PushInv'
PROOF
  <1>1. CASE UNCHANGED <<queue, sending, published, counts, received, late>>
    BY <1>1 DEF PushInv, PushTypeOK, InOrder, Settled, NotProcessedAndLate,
         ProcessedOnceAndInOrder, EveryPushIsAccountedFor, OnTheirWay
  <1>2. StopCall \/ RunEnds \/ UNCHANGED pushVars =>
          UNCHANGED <<queue, sending, published, counts, received, late>>
    BY DEF StopCall, StopIsCalled, RunEnds, RunReturns, pushVars, queueVars
  <1> QED BY <1>1, <1>2, PublishKeepsInv, TakeKeepsInv, EndingKeepsInv, LatenessKeepsInv
        DEF PushNext

\* The queue stays in the order of publication, and nothing that has been settled comes again
\* (enqueue, run).
THEOREM PushInvariance == PushSpec => []PushInv
BY PushStepKeepsInv, PushInvInit, PTL DEF PushSpec

-----------------------------------------------------------------------------
(* What the session controller publishes goes through this gateway. *)

\* Whatever is published, the gateway does not look into it: RecordView implements EventPush.
LEMMA RecordStepsArePushed ==
  [RecordNext]_recordVars => [PushNext]_pushVars
BY DEF RecordNext, HandlerStep, Handle, PublishNext, DeliveryStep, Gateway, PushNext, recordVars

\* What RecordView adds to the gateway, the meaning of the pushes and the store, does not interfere:
\* each of its steps is one of the gateway or leaves the gateway alone.
LEMMA RecordsArePushed ==
  RecordSpec => PushSpec
PROOF
  <1>1. RecordInit => PushInit
    BY DEF RecordInit
  <1> QED BY <1>1, RecordStepsArePushed, PTL DEF RecordSpec, PushSpec

\* The counters account for every event ever published (enqueue, run).
THEOREM NoPushGoesMissing == RecordSpec => []EveryPushIsAccountedFor
BY PushInvariance, RecordsArePushed, PTL DEF PushInv

\* The receiver processes no push twice, and those it answers in time in order (enqueue, run).
THEOREM NoPushComesTwice == RecordSpec => []ProcessedOnceAndInOrder
BY PushInvariance, RecordsArePushed, PTL DEF PushInv

-----------------------------------------------------------------------------
(* What the pushes say of the sessions. *)

\* What has been published, and what the handler in progress has still to publish: the handler has
\* changed the ledger already, so it is all of this that agrees with it.
Said ==
  [p \in 1..(Len(log) + Len(ledger.events)) |->
     IF p <= Len(log) THEN log[p] ELSE Body(ledger.events[p - Len(log)])]

Says(said, p, topic, s) == p \in DOMAIN said /\ said[p].topic = topic /\ said[p].session = s

IsLastNews(said, p, s) ==
  Says(said, p, "session", s) /\ \A q \in DOMAIN said : Says(said, q, "session", s) => q <= p

\* The last that is said of a session is how it is, up to the progress that is held back.
NewsIsTrue(said, l) ==
  \A s \in DOMAIN l.sessions, p \in DOMAIN said :
    IsLastNews(said, p, s) =>
      /\ said[p].body.state = l.sessions[s].state
      /\ s \notin ActiveSessions(l) => said[p].body = Mapped(l.sessions[s])
      /\ s \in ActiveSessions(l) => said[p].body.updatedAt = l.lastPublishedAt[s]

\* A bill follows the last that is said of its session, agrees with it, and is the only one.
BillsCloseSessions(said, l) ==
  \A p \in DOMAIN said : said[p].topic = "cdr" =>
    LET s == said[p].session
    IN  /\ said[p].body.sessionID = s /\ s \notin ActiveSessions(l)
        /\ IsLastNews(said, p - 1, s) /\ said[p - 1].body.state = CompletedState
        /\ said[p - 1].body.energy = said[p].body.energy
        /\ said[p - 1].body.totalCost = said[p].body.totalCost
        /\ said[p - 1].body.endedAt = said[p].body.endedAt
        /\ \A q \in DOMAIN said : Says(said, q, "cdr", s) => q = p

SaidOfSessions(said, l) ==
  \A p \in DOMAIN said : /\ said[p].topic \in {"session", "cdr"}
                         /\ said[p].session \in 1..l.lastSessionID

SaidIsRight(said, l) ==
  SaidOfSessions(said, l) /\ NewsIsTrue(said, l) /\ BillsCloseSessions(said, l)

-----------------------------------------------------------------------------
(* What becomes of the pushes in the store. *)

KnownSessions == {log[received[i].push].session : i \in DOMAIN received}

ReceivedNews(s) ==
  {i \in DOMAIN received : log[received[i].push].topic = "session"
                           /\ log[received[i].push].session = s}

\* A session is stored as it was last received, or crowded out.
SessionsAreAsReceived ==
  /\ \A s \in DOMAIN store.sessions :
       \E i \in ReceivedNews(s) : /\ store.sessions[s] = log[received[i].push].body
                                  /\ \A j \in ReceivedNews(s) : j <= i
  /\ \A s \in KnownSessions : ReceivedNews(s) # {} => s \in DOMAIN store.sessions \/ CrowdedOut(s)

\* A bill is stored as it was received, and those of two pushes bill two sessions.
BillsAreAsReceived ==
  /\ IsSequence(store.cdrs)
  /\ \A i \in DOMAIN store.cdrs : \E j \in DOMAIN received :
       /\ log[received[j].push].topic = "cdr" /\ store.cdrs[i] = log[received[j].push].body
  /\ \A i, j \in DOMAIN store.cdrs : store.cdrs[i].sessionID = store.cdrs[j].sessionID => i = j

RecordsAreRight ==
  /\ IsSequence(log) /\ Len(log) = published /\ IsSequence(ledger.events)
  /\ SaidIsRight(Said, ledger)
  /\ store = [sessions |-> store.sessions, cdrs |-> store.cdrs]
  /\ SessionsAreAsReceived /\ BillsAreAsReceived

RecordInv == PushInv /\ Inv /\ RecordsAreRight

(***************************************************************************)
(* Saying more of the sessions.                                            *)
(***************************************************************************)
LEMMA OneCall ==
  ASSUME NEW e, NEW t, t = Append(<< >>, e)
  PROVE  IsSequence(t) /\ Len(t) = 1 /\ t[1] = e
PROOF
  <1>1. t \in Seq({e}) /\ Len(t) = 1 /\ t[1] = e
    OBVIOUS
  <1> QED BY <1>1, SeqOfRange DEF IsSequence

\* What ending a session publishes: the session, then its bill.
LEMMA TwoCalls ==
  ASSUME NEW l, NEW id, NEW session, l.events = << >>, NEW t, t = StopEvents(l, id, session)
  PROVE  /\ IsSequence(t) /\ Len(t) = 2
         /\ t[1] = SessionEvent(id, session)
         /\ t[2] = CDREvent(l.lastCDRID + 1, CDROf(id, session))
PROOF
  <1> DEFINE e == SessionEvent(id, session)
             f == CDREvent(l.lastCDRID + 1, CDROf(id, session))
  <1>1. t = Append(Append(<< >>, e), f)
    BY DEF StopEvents
  <1> HIDE DEF e, f
  <1>2. t \in Seq({e, f}) /\ Len(t) = 2 /\ t[1] = e /\ t[2] = f
    BY <1>1
  <1>3. IsSequence(t)
    BY <1>2, SeqOfRange DEF IsSequence
  <1> QED BY <1>2, <1>3 DEF e, f

IsTail(t, s) == s # << >> /\ t = Tail(s)

\* The rest of a sequence, position by position.
LEMMA TailIsSequence ==
  ASSUME NEW s, NEW t, IsSequence(s), IsTail(t, s)
  PROVE  /\ IsSequence(t) /\ Len(s) \in Nat \ {0} /\ Len(t) = Len(s) - 1
         /\ DOMAIN s = 1..Len(s) /\ DOMAIN t = 1..(Len(s) - 1)
         /\ \A i \in 1..(Len(s) - 1) : t[i] = s[i + 1]
         /\ Head(s) = s[1]
PROOF
  <1>1. /\ t \in Seq(Range(s)) /\ Len(s) \in Nat \ {0} /\ Len(t) = Len(s) - 1
        /\ DOMAIN s = 1..Len(s) /\ DOMAIN t = 1..(Len(s) - 1)
        /\ \A i \in 1..(Len(s) - 1) : t[i] = s[i + 1]
        /\ Head(s) = s[1]
    BY DEF IsSequence, IsTail
  <1> QED BY <1>1, SeqOfRange DEF IsSequence

\* What of a session and a bill goes into a push.
LEMMA WhatIsMapped ==
  ASSUME NEW session, NEW id
  PROVE  LET m == Mapped(session)
             c == MappedCDR(CDROf(id, session))
         IN  /\ m.state = session.state /\ m.updatedAt = session.updatedAt
             /\ c.sessionID = id /\ c.energy = m.energy /\ c.totalCost = m.totalCost
             /\ c.endedAt = m.endedAt
BY DEF Mapped, MappedCDR, CDROf

LEMMA WhatIsPushed ==
  ASSUME NEW session, NEW id, NEW cdr, NEW cdrID
  PROVE  LET b == Body(SessionEvent(id, session))
             c == Body(CDREvent(cdrID, cdr))
         IN  /\ b.topic = "session" /\ b.session = id /\ b.body = Mapped(session)
             /\ c.topic = "cdr" /\ c.session = cdr.sessionID /\ c.body = MappedCDR(cdr)
PROOF
  <1> DEFINE b == Body(SessionEvent(id, session))
             c == Body(CDREvent(cdrID, cdr))
  <1>1. b = [topic |-> "session", session |-> id, body |-> Mapped(session)]
    BY DEF Body, SessionEvent
  <1>2. c = [topic |-> "cdr", session |-> cdr.sessionID, body |-> MappedCDR(cdr)]
    BY DEF Body, CDREvent
  <1> HIDE DEF b, c
  <1>3. b.topic = "session" /\ b.session = id /\ b.body = Mapped(session)
    BY <1>1
  <1>4. c.topic = "cdr" /\ c.session = cdr.sessionID /\ c.body = MappedCDR(cdr)
    BY <1>2
  <1> QED BY <1>3, <1>4 DEF b, c

\* What a right ledger has sessions and throttle entries for.
LEMMA WhoIsInTheLedger ==
  ASSUME NEW l, LedgerIsRight(l)
  PROVE  /\ l.lastSessionID \in Nat /\ DOMAIN l.sessions \subseteq 1..l.lastSessionID
         /\ ActiveSessions(l) = {s \in DOMAIN l.sessions : l.sessions[s].state = ActiveState}
         /\ \A s \in DOMAIN l.sessions \ ActiveSessions(l) : l.sessions[s].state = CompletedState
         /\ DOMAIN l.lastPublishedAt = ActiveSessions(l)
PROOF
  <1>1. /\ l.lastSessionID \in Nat /\ DOMAIN l.sessions \subseteq 1..l.lastSessionID
        /\ \A s \in DOMAIN l.sessions : l.sessions[s] \in SessionRecord
        /\ DOMAIN l.lastPublishedAt = ActiveSessions(l)
    BY DEF LedgerIsRight, IsLedger, IsRepository, ThrottleCoversActive
  <1>2. \A s \in DOMAIN l.sessions : l.sessions[s].state \in {ActiveState, CompletedState}
    BY <1>1 DEF SessionRecord
  <1> QED BY <1>1, <1>2 DEF ActiveSessions, InState

\* Nothing is said, and nothing has changed but how far an active session has got.
LEMMA SilenceKeepsItRight ==
  ASSUME NEW said, NEW l, NEW n, LedgerIsRight(n), SaidIsRight(said, l),
         n.lastSessionID = l.lastSessionID, n.lastPublishedAt = l.lastPublishedAt,
         DOMAIN n.sessions \subseteq DOMAIN l.sessions, ActiveSessions(n) = ActiveSessions(l),
         \A s \in DOMAIN n.sessions :
           /\ n.sessions[s].state = l.sessions[s].state
           /\ s \notin ActiveSessions(l) => n.sessions[s] = l.sessions[s]
  PROVE  SaidIsRight(said, n)
PROOF
  <1>1. SaidOfSessions(said, n)
    BY DEF SaidIsRight, SaidOfSessions
  <1>2. NewsIsTrue(said, n)
    BY DEF SaidIsRight, NewsIsTrue
  <1>3. BillsCloseSessions(said, n)
    BY DEF SaidIsRight, BillsCloseSessions
  <1> QED BY <1>1, <1>2, <1>3 DEF SaidIsRight

\* News of a session, new or active, is said (StartSession, RecordSessionProgress).
LEMMA NewsKeepsItRight ==
  ASSUME NEW N \in Nat, NEW said, NEW more, NEW l, NEW n, NEW id,
         LedgerIsRight(l), LedgerIsRight(n), SaidIsRight(said, l),
         DOMAIN said = 1..N, DOMAIN more = 1..(N + 1), \A p \in 1..N : more[p] = said[p],
         more[N + 1].topic = "session", more[N + 1].session = id,
         more[N + 1].body = Mapped(n.sessions[id]),
         OnlyOneChanges(n, l, id), n.lastPublishedAt[id] = n.sessions[id].updatedAt,
         id \in 1..n.lastSessionID, l.lastSessionID <= n.lastSessionID,
         ActiveSessions(n) = ActiveSessions(l) \cup {id},
         id \in ActiveSessions(l) \/ id > l.lastSessionID
  PROVE  SaidIsRight(more, n)
PROOF
  <1> USE DEF Says, IsLastNews
  <1>1. /\ l.lastSessionID \in Nat /\ n.lastSessionID \in Nat
        /\ \A p \in 1..N : said[p].session \in 1..l.lastSessionID
    BY WhoIsInTheLedger DEF SaidIsRight, SaidOfSessions
  <1>2. SaidOfSessions(more, n)
    BY <1>1 DEF SaidIsRight, SaidOfSessions
  <1>3. NewsIsTrue(more, n)
    <2> SUFFICES ASSUME NEW s \in DOMAIN n.sessions, NEW p \in 1..(N + 1),
                        IsLastNews(more, p, s)
                 PROVE  /\ more[p].body.state = n.sessions[s].state
                        /\ s \notin ActiveSessions(n) => more[p].body = Mapped(n.sessions[s])
                        /\ s \in ActiveSessions(n) =>
                             more[p].body.updatedAt = n.lastPublishedAt[s]
      BY DEF NewsIsTrue
    <2>1. CASE s = id
      <3>1. p = N + 1
        BY <2>1
      <3> QED BY <2>1, <3>1, WhatIsMapped
    <2>2. CASE s # id
      <3>1. p \in 1..N /\ IsLastNews(said, p, s)
        BY <2>2
      <3>2. /\ s \in DOMAIN l.sessions /\ n.sessions[s] = l.sessions[s]
            /\ s \in ActiveSessions(n) <=> s \in ActiveSessions(l)
            /\ s \in ActiveSessions(n) => n.lastPublishedAt[s] = l.lastPublishedAt[s]
        BY <2>2, WhoIsInTheLedger DEF OnlyOneChanges
      <3> QED BY <3>1, <3>2 DEF SaidIsRight, NewsIsTrue
    <2> QED BY <2>1, <2>2
  <1>4. BillsCloseSessions(more, n)
    <2> SUFFICES ASSUME NEW p \in 1..(N + 1), more[p].topic = "cdr", NEW s, s = more[p].session
                 PROVE  /\ more[p].body.sessionID = s /\ s \notin ActiveSessions(n)
                        /\ IsLastNews(more, p - 1, s)
                        /\ more[p - 1].body.state = CompletedState
                        /\ more[p - 1].body.energy = more[p].body.energy
                        /\ more[p - 1].body.totalCost = more[p].body.totalCost
                        /\ more[p - 1].body.endedAt = more[p].body.endedAt
                        /\ \A q \in DOMAIN more : Says(more, q, "cdr", s) => q = p
      BY DEF BillsCloseSessions
    <2>1. p \in 1..N /\ more[p] = said[p]
      OBVIOUS
    <2>2. /\ said[p].body.sessionID = s /\ s \notin ActiveSessions(l)
          /\ IsLastNews(said, p - 1, s) /\ said[p - 1].body.state = CompletedState
          /\ said[p - 1].body.energy = said[p].body.energy
          /\ said[p - 1].body.totalCost = said[p].body.totalCost
          /\ said[p - 1].body.endedAt = said[p].body.endedAt
          /\ \A q \in DOMAIN said : Says(said, q, "cdr", s) => q = p
      BY <2>1 DEF SaidIsRight, BillsCloseSessions
    <2>3. s # id /\ p - 1 \in 1..N /\ more[p - 1] = said[p - 1]
      BY <1>1, <2>1, <2>2
    <2> QED BY <2>1, <2>2, <2>3
  <1> QED BY <1>2, <1>3, <1>4 DEF SaidIsRight

\* News that an active session has ended is said, and its bill (StopSession).
LEMMA EndKeepsItRight ==
  ASSUME NEW N \in Nat, NEW said, NEW more, NEW l, NEW n, NEW id, NEW session,
         LedgerIsRight(l), LedgerIsRight(n), SaidIsRight(said, l),
         DOMAIN said = 1..N, DOMAIN more = 1..(N + 2), \A p \in 1..N : more[p] = said[p],
         more[N + 1].topic = "session", more[N + 1].session = id,
         more[N + 1].body = Mapped(session), session.state = CompletedState,
         more[N + 2].topic = "cdr", more[N + 2].session = id,
         more[N + 2].body = MappedCDR(CDROf(id, session)),
         OnlyOneChanges(n, l, id), id \in DOMAIN n.sessions => n.sessions[id] = session,
         id \in ActiveSessions(l), n.lastSessionID = l.lastSessionID,
         ActiveSessions(n) = ActiveSessions(l) \ {id}
  PROVE  SaidIsRight(more, n)
PROOF
  <1> USE DEF Says, IsLastNews
  <1>1. /\ l.lastSessionID \in Nat /\ id \in 1..l.lastSessionID
        /\ \A p \in 1..N : said[p].session \in 1..l.lastSessionID
    BY WhoIsInTheLedger DEF SaidIsRight, SaidOfSessions
  <1>2. SaidOfSessions(more, n)
    <2>1. \A p \in DOMAIN more : p \in 1..N \/ p = N + 1 \/ p = N + 2
      OBVIOUS
    <2> QED BY <1>1, <2>1 DEF SaidIsRight, SaidOfSessions
  <1>3. NewsIsTrue(more, n)
    <2> SUFFICES ASSUME NEW s \in DOMAIN n.sessions, NEW p \in 1..(N + 2),
                        IsLastNews(more, p, s)
                 PROVE  /\ more[p].body.state = n.sessions[s].state
                        /\ s \notin ActiveSessions(n) => more[p].body = Mapped(n.sessions[s])
                        /\ s \in ActiveSessions(n) =>
                             more[p].body.updatedAt = n.lastPublishedAt[s]
      BY DEF NewsIsTrue
    <2>1. CASE s = id
      <3>1. p = N + 1
        BY <2>1
      <3> QED BY <2>1, <3>1, WhatIsMapped
    <2>2. CASE s # id
      <3>1. p \in 1..N /\ IsLastNews(said, p, s)
        BY <2>2
      <3>2. /\ s \in DOMAIN l.sessions /\ n.sessions[s] = l.sessions[s]
            /\ s \in ActiveSessions(n) <=> s \in ActiveSessions(l)
            /\ s \in ActiveSessions(n) => n.lastPublishedAt[s] = l.lastPublishedAt[s]
        BY <2>2, WhoIsInTheLedger DEF OnlyOneChanges
      <3> QED BY <3>1, <3>2 DEF SaidIsRight, NewsIsTrue
    <2> QED BY <2>1, <2>2
  <1>4. BillsCloseSessions(more, n)
    <2> SUFFICES ASSUME NEW p \in 1..(N + 2), more[p].topic = "cdr", NEW s, s = more[p].session
                 PROVE  /\ more[p].body.sessionID = s /\ s \notin ActiveSessions(n)
                        /\ IsLastNews(more, p - 1, s)
                        /\ more[p - 1].body.state = CompletedState
                        /\ more[p - 1].body.energy = more[p].body.energy
                        /\ more[p - 1].body.totalCost = more[p].body.totalCost
                        /\ more[p - 1].body.endedAt = more[p].body.endedAt
                        /\ \A q \in DOMAIN more : Says(more, q, "cdr", s) => q = p
      BY DEF BillsCloseSessions
    <2>1. \A q \in 1..N : said[q].topic = "cdr" =>
            LET t == said[q].session
            IN  /\ said[q].body.sessionID = t /\ t \notin ActiveSessions(l)
                /\ IsLastNews(said, q - 1, t) /\ said[q - 1].body.state = CompletedState
                /\ said[q - 1].body.energy = said[q].body.energy
                /\ said[q - 1].body.totalCost = said[q].body.totalCost
                /\ said[q - 1].body.endedAt = said[q].body.endedAt
                /\ \A r \in DOMAIN said : Says(said, r, "cdr", t) => r = q
      BY DEF SaidIsRight, BillsCloseSessions
    <2>2. CASE p \in 1..N
      <3>1. /\ s # id /\ p - 1 \in 1..N /\ more[p - 1] = said[p - 1] /\ more[p] = said[p]
            /\ s = said[p].session /\ said[p].topic = "cdr"
        BY <2>1, <2>2
      <3>2. IsLastNews(more, p - 1, s)
        BY <2>1, <2>2, <3>1
      <3>3. \A q \in DOMAIN more : Says(more, q, "cdr", s) => q = p
        BY <2>1, <2>2, <3>1
      <3>4. s \notin ActiveSessions(n) /\ more[p].body.sessionID = s
        BY <2>1, <2>2, <3>1
      <3>5. /\ more[p - 1].body.state = CompletedState
            /\ more[p - 1].body.energy = more[p].body.energy
            /\ more[p - 1].body.totalCost = more[p].body.totalCost
            /\ more[p - 1].body.endedAt = more[p].body.endedAt
        BY <2>1, <2>2, <3>1
      <3> QED BY <3>2, <3>3, <3>4, <3>5
    <2>3. CASE p = N + 2
      <3>1. p - 1 = N + 1 /\ s = id
        BY <2>3
      <3>2. /\ more[p].body.sessionID = s /\ more[p - 1].body.state = CompletedState
            /\ more[p - 1].body.energy = more[p].body.energy
            /\ more[p - 1].body.totalCost = more[p].body.totalCost
            /\ more[p - 1].body.endedAt = more[p].body.endedAt
        BY <2>3, <3>1, WhatIsMapped
      <3>3. IsLastNews(more, p - 1, s)
        BY <3>1
      <3>4. \A q \in DOMAIN more : Says(more, q, "cdr", s) => q = p
        BY <2>1, <2>3, <3>1
      <3> QED BY <3>1, <3>2, <3>3, <3>4
    <2>4. p # N + 1
      OBVIOUS
    <2> QED BY <2>2, <2>3, <2>4
  <1> QED BY <1>2, <1>3, <1>4 DEF SaidIsRight

(***************************************************************************)
(* The handlers and their calls.                                           *)
(***************************************************************************)

\* What has been published so far and what the handler in progress is going to publish.
LEMMA WhatIsSaid ==
  ASSUME IsSequence(log), IsSequence(ledger.events)
  PROVE  /\ Len(log) \in Nat /\ Len(ledger.events) \in Nat
         /\ DOMAIN log = 1..Len(log)
         /\ DOMAIN Said = 1..(Len(log) + Len(ledger.events))
         /\ \A p \in 1..Len(log) : Said[p] = log[p]
         /\ \A i \in 1..Len(ledger.events) : Said[Len(log) + i] = Body(ledger.events[i])
BY DEF Said, IsSequence

LEMMA WhatWillBeSaid ==
  ASSUME IsSequence(log'), IsSequence(ledger'.events)
  PROVE  /\ Len(log') \in Nat /\ Len(ledger'.events) \in Nat
         /\ DOMAIN log' = 1..Len(log')
         /\ DOMAIN Said' = 1..(Len(log') + Len(ledger'.events))
         /\ \A p \in 1..Len(log') : Said'[p] = log'[p]
         /\ \A i \in 1..Len(ledger'.events) : Said'[Len(log') + i] = Body(ledger'.events[i])
BY DEF Said, IsSequence

\* The calls that are still to be made are no part of what is right or wrong with a ledger.
LEMMA CallsDoNotMatter ==
  ASSUME NEW l, NEW events, LedgerIsRight(l)
  PROVE  LET n == [l EXCEPT !.events = events]
         IN  /\ LedgerIsRight(n) /\ n.events = events
             /\ n.sessions = l.sessions /\ n.lastPublishedAt = l.lastPublishedAt
             /\ n.lastSessionID = l.lastSessionID /\ ActiveSessions(n) = ActiveSessions(l)
PROOF
  <1> DEFINE n == [l EXCEPT !.events = events]
  <1>1. IsLedgerRecord(l)
    BY DEF LedgerIsRight, IsLedger, IsLedgerRecord, LedgerOf
  <1>2. n = LedgerOf(l.sessions, l.cdrs, l.lastPublishedAt, l.lastSessionID, l.lastCDRID, events)
    BY <1>1 DEF IsLedgerRecord, LedgerOf
  <1> HIDE DEF n
  <1>3. /\ IsLedgerRecord(n) /\ n.events = events
        /\ n.sessions = l.sessions /\ n.cdrs = l.cdrs /\ n.lastPublishedAt = l.lastPublishedAt
        /\ n.lastSessionID = l.lastSessionID /\ n.lastCDRID = l.lastCDRID
    BY <1>2, LedgerParts
  <1>4. IsLedger(n)
    BY <1>3 DEF LedgerIsRight, IsLedger, IsLedgerRecord, LedgerOf
  <1>5. LedgerIsRight(n) /\ ActiveSessions(n) = ActiveSessions(l)
    BY <1>3, <1>4 DEF LedgerIsRight, CDRsBillSessions, ThrottleCoversActive, ListenersKeepUp,
                      ActiveSessions, CompletedSessions, InState
  <1> QED BY <1>3, <1>5 DEF n

\* A ledger that has no call to make is fresh.
LEMMA FreshAlready ==
  ASSUME NEW l, LedgerIsRight(l), l.events = << >>
  PROVE  Fresh(l) = l
BY FreshIs DEF LedgerIsRight, IsLedger, IsLedgerRecord, LedgerOf

\* What a handler has still to say agrees with what it has done.
LEMMA HandlersKeepItRight ==
  ASSUME Inv, RecordsAreRight, HandlerStep
  PROVE  Inv' /\ IsSequence(ledger'.events) /\ SaidIsRight(Said', ledger')
PROOF
  <1>1. /\ ledger.events = << >> /\ Next /\ log' = log
        /\ IsSequence(log) /\ IsSequence(ledger.events) /\ SaidIsRight(Said, ledger)
        /\ LedgerIsRight(ledger) /\ now \in Nat
    BY DEF HandlerStep, Handle, HandlerIsDone, RecordsAreRight, Inv
  <1>2. Inv' /\ LedgerIsRight(ledger')
    BY <1>1, NextKeepsInv DEF Inv
  <1>3. Fresh(ledger) = ledger
    BY <1>1, FreshAlready
  <1> DEFINE N == Len(log)
  <1>4. N \in Nat /\ DOMAIN Said = 1..N /\ \A p \in 1..N : Said[p] = log[p]
    BY <1>1, WhatIsSaid
  <1>5. ASSUME NEW id, id \in 1..ledger'.lastSessionID, ledger.lastSessionID <= ledger'.lastSessionID,
               OnlyOneChanges(ledger', ledger, id), ItIsSaid(ledger', ledger, id),
               ActiveSessions(ledger') = ActiveSessions(ledger) \cup {id},
               id \in ActiveSessions(ledger) \/ id > ledger.lastSessionID
        PROVE  IsSequence(ledger'.events) /\ SaidIsRight(Said', ledger')
    <2> DEFINE event == SessionEvent(id, ledger'.sessions[id])
    <2>1. ledger'.events = Append(<< >>, event)
      BY <1>1, <1>5 DEF ItIsSaid
    <2>2. /\ Body(event).topic = "session" /\ Body(event).session = id
          /\ Body(event).body = Mapped(ledger'.sessions[id])
      BY WhatIsPushed
    <2> HIDE DEF event
    <2>3. IsSequence(ledger'.events) /\ Len(ledger'.events) = 1 /\ ledger'.events[1] = event
      BY <2>1, OneCall
    <2>4. /\ DOMAIN Said' = 1..(N + 1) /\ \A p \in 1..N : Said'[p] = Said[p]
          /\ Said'[N + 1] = Body(event)
      BY <1>1, <1>4, <2>3, WhatWillBeSaid
    <2>5. ledger'.lastPublishedAt[id] = ledger'.sessions[id].updatedAt
      BY <1>5 DEF ItIsSaid
    <2> HIDE DEF N
    <2> QED BY <1>1, <1>2, <1>4, <1>5, <2>2, <2>3, <2>4, <2>5, NewsKeepsItRight
  <1>6. ASSUME UNCHANGED ledger.events, SaidIsRight(Said, ledger')
        PROVE  IsSequence(ledger'.events) /\ SaidIsRight(Said', ledger')
    BY <1>1, <1>6 DEF Said
  <1>7. ASSUME NEW c \in ChargerIDs, NEW p \in Prices, Start(c, p)
        PROVE  IsSequence(ledger'.events) /\ SaidIsRight(Said', ledger')
    <2> DEFINE id == ledger.lastSessionID + 1
    <2>1. c \in Int /\ p \in Nat /\ ledger' = StartSession(ledger, c, p, now)
      BY <1>3, <1>7, CallerInputs DEF Start
    <2>2. /\ OneStarts(ledger', ledger, c, now)
          /\ OnlyOneChanges(ledger', ledger, id) /\ ItIsSaid(ledger', ledger, id)
      BY <1>1, <2>1, StartSessionKeeps, StartSessionSays
    <2>3. /\ ledger.lastSessionID \in Nat /\ ledger'.lastSessionID = id
          /\ ActiveSessions(ledger') = ActiveSessions(ledger) \cup {id}
      BY <1>1, <2>2, WhoIsInTheLedger DEF OneStarts
    <2>4. id \in 1..ledger'.lastSessionID /\ ledger.lastSessionID <= ledger'.lastSessionID
          /\ id > ledger.lastSessionID
      BY <2>3
    <2> HIDE DEF id
    <2> QED BY <1>5, <2>2, <2>3, <2>4
  <1>8. ASSUME NEW s \in DOMAIN ledger.sessions, NEW e \in EnergySteps, Record(s, e)
        PROVE  IsSequence(ledger'.events) /\ SaidIsRight(Said', ledger')
    <2>1. /\ e \in Nat /\ s \in ActiveSessions(ledger)
          /\ ledger' = RecordSessionProgress(ledger, s, e, now)
      BY <1>3, <1>8, CallerInputs DEF Record
    <2>2. /\ NoneStartsOrStops(ledger', ledger) /\ OnlyOneChanges(ledger', ledger, s)
          /\ \/ ItIsSaid(ledger', ledger, s)
             \/ UNCHANGED <<ledger.events, ledger.lastPublishedAt>>
      BY <1>1, <2>1, RecordSessionProgressKeeps, RecordSessionProgressSays
    <2>3. /\ ledger'.lastSessionID = ledger.lastSessionID
          /\ ActiveSessions(ledger') = ActiveSessions(ledger)
      BY <2>2 DEF NoneStartsOrStops
    <2>4. CASE ItIsSaid(ledger', ledger, s)
      <3>1. s \in 1..ledger'.lastSessionID /\ ledger.lastSessionID <= ledger'.lastSessionID
        BY <1>1, <2>3, WhoIsInTheLedger
      <3> QED BY <1>5, <2>1, <2>2, <2>3, <2>4, <3>1
    <2>5. CASE UNCHANGED <<ledger.events, ledger.lastPublishedAt>>
      <3>1. \A t \in DOMAIN ledger'.sessions :
              /\ t \in DOMAIN ledger.sessions
              /\ ledger'.sessions[t].state = ledger.sessions[t].state
              /\ t \notin ActiveSessions(ledger) => ledger'.sessions[t] = ledger.sessions[t]
        BY <1>1, <1>2, <2>1, <2>2, <2>3, WhoIsInTheLedger DEF OnlyOneChanges
      <3>2. SaidIsRight(Said, ledger')
        BY <1>1, <1>2, <2>3, <2>5, <3>1, SilenceKeepsItRight
      <3> QED BY <1>6, <2>5, <3>2
    <2> QED BY <2>2, <2>4, <2>5
  <1>9. ASSUME NEW id \in DOMAIN ledger.sessions, NEW r \in Reasons, Stop(id, r)
        PROVE  IsSequence(ledger'.events) /\ SaidIsRight(Said', ledger')
    <2> DEFINE session == Ended(ledger.sessions[id], r, now)
               event   == SessionEvent(id, session)
               bill    == CDREvent(ledger.lastCDRID + 1, CDROf(id, session))
    <2>1. /\ r \in StopReasons /\ id \in ActiveSessions(ledger)
          /\ ledger' = StopSession(ledger, id, r, now)
      BY <1>3, <1>9, CallerInputs DEF Stop
    <2>2. /\ OneStops(ledger', ledger, id) /\ OnlyOneChanges(ledger', ledger, id)
          /\ ledger'.events = StopEvents(ledger, id, session) /\ session.state = CompletedState
          /\ id \in DOMAIN ledger'.sessions => ledger'.sessions[id] = session
      BY <1>1, <2>1, StopSessionKeeps, StopSessionSays
    <2>3. /\ IsSequence(ledger'.events) /\ Len(ledger'.events) = 2
          /\ ledger'.events[1] = event /\ ledger'.events[2] = bill
      <3> HIDE DEF session
      <3> QED BY <1>1, <2>2, TwoCalls
    <2>4. /\ Body(event).topic = "session" /\ Body(event).session = id
          /\ Body(event).body = Mapped(session)
          /\ Body(bill).topic = "cdr" /\ Body(bill).session = id
          /\ Body(bill).body = MappedCDR(CDROf(id, session))
      <3>1. CDROf(id, session).sessionID = id
        BY DEF CDROf
      <3> HIDE DEF session
      <3> QED BY <3>1, WhatIsPushed
    <2> HIDE DEF session, event, bill
    <2>5. /\ DOMAIN Said' = 1..(N + 2) /\ \A p \in 1..N : Said'[p] = Said[p]
          /\ Said'[N + 1] = Body(event) /\ Said'[N + 2] = Body(bill)
      BY <1>1, <1>4, <2>3, WhatWillBeSaid
    <2>6. /\ ledger'.lastSessionID = ledger.lastSessionID
          /\ ActiveSessions(ledger') = ActiveSessions(ledger) \ {id}
      BY <2>2 DEF OneStops
    <2> HIDE DEF N
    <2> QED BY <1>1, <1>2, <1>4, <2>1, <2>2, <2>3, <2>4, <2>5, <2>6, EndKeepsItRight
  <1>10. CASE TimePasses
    <2>1. ledger' = ledger
      BY <1>3, <1>10 DEF TimePasses
    <2>2. UNCHANGED ledger.events /\ SaidIsRight(Said, ledger')
      BY <1>1, <2>1
    <2> QED BY <1>2, <1>6, <2>2
  <1> QED BY <1>1, <1>2, <1>7, <1>8, <1>9, <1>10 DEF Next

\* What is processed has been published.
LEMMA ReceiptsAreInLog ==
  ASSUME PushInv, Len(log) = published
  PROVE  \A i \in DOMAIN received : received[i].push \in 1..Len(log)
PROOF
  <1> SUFFICES ASSUME NEW i \in DOMAIN received
               PROVE  received[i].push \in 1..Len(log)
    OBVIOUS
  <1>1. received[i].push \in Settled /\ Settled \subseteq PushID
    BY SettledAreNumbers DEF PushInv, Settled
  <1>2. received[i].push <= published /\ published \in Nat
    BY <1>1 DEF PushInv, PushTypeOK, InOrder
  <1>3. received[i].push \in PushID
    BY <1>1
  <1>4. received[i].push \in 1..published
    BY <1>2, <1>3
  <1> QED BY <1>4, Zenon

\* A call moves what is said from the handler to the log.
LEMMA PublishingKeepsItRight ==
  ASSUME PushInv, Inv, RecordsAreRight, PublishNext
  PROVE  Inv' /\ RecordsAreRight'
PROOF
  <1>1. /\ ledger.events # << >> /\ UNCHANGED <<now, store, received>>
        /\ ledger' = [ledger EXCEPT !.events = Tail(ledger.events)]
        /\ published' = published + 1 /\ published \in Nat /\ now \in Nat
        /\ IsLongerBy(log', log, Body(Head(ledger.events)))
    BY DEF PublishNext, HandlerIsDone, PublishEvent, PushInv, PushTypeOK, Inv, IsLongerBy
  <1>2. IsSequence(log) /\ IsSequence(ledger.events) /\ Len(log) = published
    BY DEF RecordsAreRight
  <1>3. /\ LedgerIsRight(ledger') /\ IsTail(ledger'.events, ledger.events)
        /\ ledger'.sessions = ledger.sessions
        /\ ledger'.lastPublishedAt = ledger.lastPublishedAt
        /\ ledger'.lastSessionID = ledger.lastSessionID
        /\ ActiveSessions(ledger') = ActiveSessions(ledger)
    BY <1>1, CallsDoNotMatter DEF Inv, IsTail
  <1> DEFINE N == Len(log)
             M == Len(ledger.events)
  <1>4. /\ IsSequence(log') /\ N \in Nat /\ Len(log') = N + 1
        /\ \A i \in 1..N : log'[i] = log[i]
        /\ log'[N + 1] = Body(Head(ledger.events))
    BY <1>1, <1>2, AppendIsSequence
  <1>5. /\ IsSequence(ledger'.events) /\ M \in Nat \ {0} /\ Len(ledger'.events) = M - 1
        /\ \A i \in 1..(M - 1) : ledger'.events[i] = ledger.events[i + 1]
        /\ Head(ledger.events) = ledger.events[1]
    BY <1>2, <1>3, TailIsSequence
  <1>6. Said' = Said
    <2>1. Said = [p \in 1..(N + M) |-> IF p <= N THEN log[p] ELSE Body(ledger.events[p - N])]
      BY DEF Said
    <2>2. Said' = [p \in 1..(N + M) |->
                     IF p <= N + 1 THEN log'[p] ELSE Body(ledger'.events[p - (N + 1)])]
      <3>1. Said' = [p \in 1..(Len(log') + Len(ledger'.events)) |->
                       IF p <= Len(log') THEN log'[p]
                       ELSE Body(ledger'.events[p - Len(log')])]
        BY DEF Said
      <3> HIDE DEF N, M
      <3>2. Len(log') = N + 1 /\ Len(log') + Len(ledger'.events) = N + M
        BY <1>4, <1>5
      <3> QED BY <3>1, <3>2
    <2>3. ASSUME NEW p \in 1..(N + M)
          PROVE  (IF p <= N + 1 THEN log'[p] ELSE Body(ledger'.events[p - (N + 1)]))
                   = (IF p <= N THEN log[p] ELSE Body(ledger.events[p - N]))
      <3> HIDE DEF N, M
      <3>1. CASE p <= N
        BY <1>4, <3>1
      <3>2. CASE p = N + 1
        BY <1>4, <1>5, <3>2
      <3>3. CASE p > N + 1
        <4>1. p - (N + 1) \in 1..(M - 1) /\ (p - (N + 1)) + 1 = p - N
          BY <1>4, <1>5, <3>3
        <4> QED BY <1>4, <1>5, <3>3, <4>1
      <3> QED BY <1>4, <3>1, <3>2, <3>3
    <2> QED BY <2>1, <2>2, <2>3
  <1>7. SaidIsRight(Said', ledger')
    BY <1>3, <1>6, SilenceKeepsItRight DEF RecordsAreRight
  <1>8. SessionsAreAsReceived' /\ BillsAreAsReceived'
    <2>1. \A i \in DOMAIN received : log'[received[i].push] = log[received[i].push]
      BY <1>2, <1>4, ReceiptsAreInLog
    <2>2. KnownSessions' = KnownSessions /\ \A s : ReceivedNews(s)' = ReceivedNews(s)
      BY <1>1, <2>1 DEF KnownSessions, ReceivedNews
    <2>3. \A s : CrowdedOut(s)' <=> CrowdedOut(s)
      BY <2>2 DEF CrowdedOut, KnownSessions
    <2>4. SessionsAreAsReceived'
      <3>1. \A s : ReceivedNews(s) \subseteq DOMAIN received
        BY DEF ReceivedNews
      <3> QED BY <1>1, <2>1, <2>2, <2>3, <3>1 DEF RecordsAreRight, SessionsAreAsReceived
    <2>5. BillsAreAsReceived'
      BY <1>1, <2>1 DEF RecordsAreRight, BillsAreAsReceived
    <2> QED BY <2>4, <2>5
  <1>9. Inv'
    BY <1>1, <1>3 DEF Inv
  <1> QED BY <1>1, <1>2, <1>3, <1>4, <1>5, <1>7, <1>8, <1>9 DEF RecordsAreRight

(***************************************************************************)
(* The store.                                                              *)
(***************************************************************************)

\* What is in a subset of a set of sessions, beyond one of them, is no more than in the set.
LEMMA NoMoreBeyond ==
  ASSUME NEW S, NEW T, IsFiniteSet(T), S \subseteq T, T \subseteq Nat, NEW s
  PROVE  /\ IsFiniteSet(S)
         /\ Cardinality({t \in S : t > s}) \in Nat
         /\ Cardinality(T \cap {t \in Nat : t > s}) \in Nat
         /\ Cardinality({t \in S : t > s}) <= Cardinality(T \cap {t \in Nat : t > s})
PROOF
  <1>1. /\ IsFiniteSet(T \cap {t \in Nat : t > s})
        /\ {t \in S : t > s} \subseteq T \cap {t \in Nat : t > s}
        /\ IsFiniteSet(S)
    BY FS_Subset
  <1> QED BY <1>1, FS_Subset, FS_CardinalityType

\* What the receiver has heard of are sessions, and the store has no others.
LEMMA KnownAreNumbers ==
  ASSUME PushInv, Inv, RecordsAreRight
  PROVE  /\ \A p \in 1..Len(log) : /\ log[p].topic \in {"session", "cdr"}
                                   /\ log[p].session \in Nat
                                   /\ p \in DOMAIN Said /\ Said[p] = log[p]
         /\ KnownSessions \subseteq Nat /\ IsFiniteSet(KnownSessions)
         /\ DOMAIN store.sessions \subseteq KnownSessions
PROOF
  <1>1. \A p \in 1..Len(log) : /\ log[p].topic \in {"session", "cdr"}
                               /\ log[p].session \in Nat
                               /\ p \in DOMAIN Said /\ Said[p] = log[p]
    <2>1. IsSequence(log) /\ IsSequence(ledger.events) /\ SaidOfSessions(Said, ledger)
      BY DEF RecordsAreRight, SaidIsRight
    <2>2. \A p \in 1..Len(log) : p \in DOMAIN Said /\ Said[p] = log[p]
      BY <2>1, WhatIsSaid
    <2> QED BY <2>1, <2>2 DEF SaidOfSessions
  <1>2. KnownSessions \subseteq Nat
    BY <1>1, ReceiptsAreInLog DEF RecordsAreRight, KnownSessions
  <1>3. IsFiniteSet(KnownSessions)
    <2>1. KnownSessions \subseteq 1..ledger.lastSessionID /\ ledger.lastSessionID \in Nat
      BY <1>1, ReceiptsAreInLog, WhoIsInTheLedger
         DEF Inv, RecordsAreRight, SaidIsRight, SaidOfSessions, KnownSessions
    <2>2. IsFiniteSet(1..ledger.lastSessionID)
      BY <2>1, FS_Interval
    <2> QED BY <2>1, <2>2, FS_Subset
  <1>4. DOMAIN store.sessions \subseteq KnownSessions
    BY DEF RecordsAreRight, SessionsAreAsReceived, ReceivedNews, KnownSessions
  <1> QED BY <1>1, <1>2, <1>3, <1>4

\* The receiver processes a push: what has been received, and from where it is stored.
LEMMA OneMoreReceived ==
  ASSUME PushInv, Inv, RecordsAreRight, NEW push \in 1..Len(log), NEW known,
         received' = Processed(push, known), UNCHANGED log
  PROVE  LET N == Len(received)
         IN  /\ N \in Nat /\ DOMAIN received = 1..N /\ DOMAIN received' = 1..(N + 1)
             /\ \A i \in 1..N : received'[i] = received[i]
             /\ received'[N + 1].push = push
             /\ KnownSessions' = KnownSessions \cup {log[push].session}
             /\ \A s : ReceivedNews(s)' =
                  IF log[push].topic = "session" /\ log[push].session = s
                  THEN ReceivedNews(s) \cup {N + 1} ELSE ReceivedNews(s)
             /\ \A s : CrowdedOut(s) => CrowdedOut(s)'
PROOF
  <1> DEFINE N     == Len(received)
             entry == [push |-> push, known |-> known]
  <1>1. entry.push = push
    OBVIOUS
  <1>2. received' = Append(received, entry) /\ received \in Seq(Receipt)
    BY DEF Processed, PushInv, PushTypeOK
  <1> HIDE DEF entry
  <1>3. /\ N \in Nat /\ DOMAIN received = 1..N /\ DOMAIN received' = 1..(N + 1)
        /\ \A i \in 1..N : received'[i] = received[i]
        /\ received'[N + 1].push = push
    BY <1>1, <1>2
  <1> HIDE DEF N
  <1>4. KnownSessions' = KnownSessions \cup {log[push].session}
    BY <1>3 DEF KnownSessions
  <1>5. \A s : ReceivedNews(s)' =
          IF log[push].topic = "session" /\ log[push].session = s
          THEN ReceivedNews(s) \cup {N + 1} ELSE ReceivedNews(s)
    BY <1>3 DEF ReceivedNews
  <1>6. ASSUME NEW s, CrowdedOut(s)
        PROVE  CrowdedOut(s)'
    <2> DEFINE before == KnownSessions \cap {t \in Nat : t > s}
               after  == KnownSessions' \cap {t \in Nat : t > s}
    <2>1. IsFiniteSet(KnownSessions')
      BY <1>4, KnownAreNumbers, FS_AddElement
    <2>2. IsFiniteSet(after) /\ before \subseteq after
      BY <1>4, <2>1, FS_Subset
    <2>3. /\ IsFiniteSet(before) /\ Cardinality(before) <= Cardinality(after)
          /\ Cardinality(before) \in Nat /\ Cardinality(after) \in Nat
      BY <2>2, FS_Subset, FS_CardinalityType
    <2>4. Cardinality(before) >= MaxStoredSessions
      BY <1>6 DEF CrowdedOut, KnownSessions
    <2>5. Cardinality(after) >= MaxStoredSessions
      <3> HIDE DEF before, after
      <3> QED BY <2>3, <2>4, StoreConfig
    <2> QED BY <2>5 DEF CrowdedOut, KnownSessions
  <1> QED BY <1>3, <1>4, <1>5, <1>6 DEF N

\* A session is stored: it is found there as it was received last, unless it is crowded out (putSession).
LEMMA StoringKeepsSessions ==
  ASSUME PushInv, Inv, RecordsAreRight, NEW push \in 1..Len(log), NEW known,
         received' = Processed(push, known), UNCHANGED log,
         log[push].topic = "session",
         store' = PutSession(store, log[push].session, log[push].body)
  PROVE  /\ store' = [sessions |-> store'.sessions, cdrs |-> store.cdrs]
         /\ SessionsAreAsReceived'
PROOF
  <1> DEFINE N   == Len(received)
             new == log[push].session
             all == Upsert(store.sessions, new, log[push].body)
             kept == {s \in DOMAIN all :
                        Cardinality({t \in DOMAIN all : t > s}) < MaxStoredSessions}
             left == Restrict(all, kept)
  <1>1. /\ N \in Nat /\ DOMAIN received = 1..N /\ DOMAIN received' = 1..(N + 1)
        /\ \A i \in 1..N : received'[i] = received[i]
        /\ received'[N + 1].push = push
        /\ KnownSessions' = KnownSessions \cup {new}
        /\ \A s : ReceivedNews(s)' =
             IF new = s THEN ReceivedNews(s) \cup {N + 1} ELSE ReceivedNews(s)
        /\ \A s : CrowdedOut(s) => CrowdedOut(s)'
    BY OneMoreReceived
  <1>2. store' = [sessions |-> left, cdrs |-> store.cdrs]
    <2>1. store' = [store EXCEPT !.sessions = left]
      BY DEF PutSession
    <2>2. store = [sessions |-> store.sessions, cdrs |-> store.cdrs]
      BY DEF RecordsAreRight
    <2> HIDE DEF left
    <2> QED BY <2>1, <2>2
  <1>3. store'.sessions = left /\ store'.cdrs = store.cdrs
    <2> HIDE DEF left
    <2> QED BY <1>2
  <1>4. /\ DOMAIN all = DOMAIN store.sessions \cup {new} /\ all[new] = log[push].body
        /\ \A s \in DOMAIN store.sessions : s # new => all[s] = store.sessions[s]
    <2> HIDE DEF new
    <2> QED BY DEF Upsert
  <1>5. kept \subseteq DOMAIN all /\ DOMAIN left = kept /\ \A s \in kept : left[s] = all[s]
    BY DEF Restrict
  <1>6. /\ IsFiniteSet(KnownSessions') /\ KnownSessions' \subseteq Nat
        /\ DOMAIN all \subseteq KnownSessions'
    <2>1. /\ log[push].session \in Nat /\ KnownSessions \subseteq Nat /\ IsFiniteSet(KnownSessions)
          /\ DOMAIN store.sessions \subseteq KnownSessions
      BY KnownAreNumbers
    <2> HIDE DEF all
    <2> QED BY <1>1, <1>4, <2>1, FS_AddElement
  <1>7. \A s : ReceivedNews(s) \subseteq 1..N
    BY <1>1 DEF ReceivedNews
  <1>8. \A s \in DOMAIN all \ kept : CrowdedOut(s)'
    <2> SUFFICES ASSUME NEW s \in DOMAIN all \ kept
                 PROVE  CrowdedOut(s)'
      OBVIOUS
    <2> DEFINE fewer == Cardinality({t \in DOMAIN all : t > s})
               more  == Cardinality(KnownSessions' \cap {t \in Nat : t > s})
    <2>1. ~(fewer < MaxStoredSessions)
      OBVIOUS
    <2>2. fewer \in Nat /\ more \in Nat /\ fewer <= more
      <3> HIDE DEF all
      <3> QED BY <1>6, NoMoreBeyond
    <2>3. more >= MaxStoredSessions
      <3> HIDE DEF fewer, more
      <3> QED BY <2>1, <2>2, StoreConfig
    <2> QED BY <2>3 DEF CrowdedOut, KnownSessions
  <1> HIDE DEF all, left, kept, N, new
  <1>9. ASSUME NEW s \in DOMAIN store'.sessions
        PROVE  \E i \in ReceivedNews(s)' :
                 /\ store'.sessions[s] = log'[received'[i].push].body
                 /\ \A j \in ReceivedNews(s)' : j <= i
    <2>1. CASE s = new
      <3>1. N + 1 \in ReceivedNews(s)' /\ \A j \in ReceivedNews(s)' : j <= N + 1
        BY <1>1, <1>7, <2>1
      <3>2. store'.sessions[s] = log'[received'[N + 1].push].body
        BY <1>1, <1>3, <1>4, <1>5, <2>1
      <3> QED BY <3>1, <3>2
    <2>2. CASE s # new
      <3>1. s \in DOMAIN store.sessions /\ store'.sessions[s] = store.sessions[s]
        BY <1>3, <1>4, <1>5, <2>2
      <3>2. PICK i \in ReceivedNews(s) : /\ store.sessions[s] = log[received[i].push].body
                                         /\ \A j \in ReceivedNews(s) : j <= i
        BY <3>1 DEF RecordsAreRight, SessionsAreAsReceived
      <3>3. ReceivedNews(s)' = ReceivedNews(s) /\ received'[i] = received[i]
        BY <1>1, <1>7, <2>2, <3>2
      <3> QED BY <3>1, <3>2, <3>3
    <2> QED BY <2>1, <2>2
  <1>10. ASSUME NEW s \in KnownSessions', ReceivedNews(s)' # {}
         PROVE  s \in DOMAIN store'.sessions \/ CrowdedOut(s)'
    <2>1. CASE s \in DOMAIN all
      BY <1>3, <1>5, <1>8, <2>1
    <2>2. CASE s \notin DOMAIN all
      <3>1. s # new /\ s \in KnownSessions /\ ReceivedNews(s) # {} /\ s \notin DOMAIN store.sessions
        BY <1>1, <1>4, <1>10, <2>2
      <3>2. CrowdedOut(s)
        BY <3>1 DEF RecordsAreRight, SessionsAreAsReceived
      <3> QED BY <1>1, <3>2
    <2> QED BY <2>1, <2>2
  <1>11. SessionsAreAsReceived'
    BY <1>9, <1>10 DEF SessionsAreAsReceived
  <1> QED BY <1>2, <1>3, <1>11

\* A bill in the log follows the last news of its session, agrees with it, and is the only one.
LEMMA BillsInLog ==
  ASSUME PushInv, Inv, RecordsAreRight, NEW p \in 1..Len(log), log[p].topic = "cdr",
         NEW s, s = log[p].session
  PROVE  /\ log[p].body.sessionID = s
         /\ \A q \in 1..Len(log) : log[q].topic = "cdr" /\ log[q].session = s => q = p
         /\ p - 1 \in NewsOf(s) /\ \A q \in NewsOf(s) : q <= p - 1
         /\ log[p - 1].body.state = CompletedState
         /\ log[p - 1].body.energy = log[p].body.energy
         /\ log[p - 1].body.totalCost = log[p].body.totalCost
         /\ log[p - 1].body.endedAt = log[p].body.endedAt
PROOF
  <1> DEFINE N == Len(log)
  <1>1. /\ N \in Nat /\ DOMAIN log = 1..N
        /\ \A q \in 1..N : q \in DOMAIN Said /\ Said[q] = log[q]
        /\ DOMAIN Said = 1..(N + Len(ledger.events)) /\ Len(ledger.events) \in Nat
    BY WhatIsSaid DEF RecordsAreRight
  <1>2. /\ Said[p].body.sessionID = s
        /\ IsLastNews(Said, p - 1, s) /\ Said[p - 1].body.state = CompletedState
        /\ Said[p - 1].body.energy = Said[p].body.energy
        /\ Said[p - 1].body.totalCost = Said[p].body.totalCost
        /\ Said[p - 1].body.endedAt = Said[p].body.endedAt
        /\ \A q \in DOMAIN Said : Says(Said, q, "cdr", s) => q = p
    BY <1>1 DEF RecordsAreRight, SaidIsRight, BillsCloseSessions
  <1>3. p - 1 \in 1..N
    <2>1. p - 1 \in DOMAIN Said
      BY <1>2 DEF IsLastNews, Says
    <2> QED BY <1>1, <2>1
  <1> HIDE DEF N
  <1>4. p - 1 \in NewsOf(s) /\ \A q \in NewsOf(s) : q <= p - 1
    BY <1>1, <1>2, <1>3 DEF IsLastNews, Says, NewsOf
  <1>5. \A q \in 1..N : log[q].topic = "cdr" /\ log[q].session = s => q = p
    BY <1>1, <1>2 DEF Says
  <1>6. Said[p] = log[p] /\ Said[p - 1] = log[p - 1]
    BY <1>1, <1>3 DEF N
  <1> QED BY <1>2, <1>4, <1>5, <1>6 DEF N

\* A bill is stored: it is the first for its session (addCDR).
LEMMA StoringKeepsBills ==
  ASSUME PushInv, Inv, RecordsAreRight, ProcessedOnceAndInOrder',
         NEW push \in 1..Len(log), NEW known, received' = Processed(push, known), UNCHANGED log,
         log[push].topic = "cdr", store' = AddCDR(store, log[push].body)
  PROVE  /\ store' = [sessions |-> store.sessions, cdrs |-> store'.cdrs]
         /\ BillsAreAsReceived'
PROOF
  <1> DEFINE N    == Len(received)
             M    == Len(store.cdrs)
             bill == log[push].body
             all  == Append(store.cdrs, bill)
             left == IF Len(all) > MaxStoredCDRs THEN Tail(all) ELSE all
  <1>1. /\ N \in Nat /\ DOMAIN received = 1..N /\ DOMAIN received' = 1..(N + 1)
        /\ \A i \in 1..N : received'[i] = received[i]
        /\ received'[N + 1].push = push
    BY OneMoreReceived
  <1>2. store' = [sessions |-> store.sessions, cdrs |-> left]
    <2>1. store' = [store EXCEPT !.cdrs = left]
      BY DEF AddCDR
    <2>2. store = [sessions |-> store.sessions, cdrs |-> store.cdrs]
      BY DEF RecordsAreRight
    <2> HIDE DEF left
    <2> QED BY <2>1, <2>2
  <1>3. store'.cdrs = left
    <2> HIDE DEF left
    <2> QED BY <1>2
  <1>4. IsSequence(store.cdrs) /\ IsLongerBy(all, store.cdrs, bill)
    BY DEF RecordsAreRight, BillsAreAsReceived, IsLongerBy
  <1>5. left = all \/ (all # << >> => IsTail(left, all))
    BY DEF IsTail
  <1> HIDE DEF all, left
  <1>6. /\ M \in Nat /\ DOMAIN store.cdrs = 1..M
        /\ IsSequence(all) /\ Len(all) = M + 1 /\ DOMAIN all = 1..(M + 1)
        /\ \A i \in 1..M : all[i] = store.cdrs[i]
        /\ all[M + 1] = bill
    BY <1>4, AppendIsSequence
  <1> HIDE DEF M, N
  <1>7. all # << >>
    BY <1>6
  <1>8. /\ IsSequence(left)
        /\ \E d \in {0, 1} : \A i \in DOMAIN left :
             i \in Nat /\ i + d \in 1..(M + 1) /\ left[i] = all[i + d]
    <2>1. CASE left = all
      <3>1. \A i \in DOMAIN left : i \in Nat /\ i + 0 \in 1..(M + 1) /\ left[i] = all[i + 0]
        BY <1>6, <2>1
      <3> QED BY <1>6, <2>1, <3>1
    <2>2. CASE IsTail(left, all)
      <3>1. /\ IsSequence(left) /\ DOMAIN left = 1..(Len(all) - 1)
            /\ \A i \in 1..(Len(all) - 1) : left[i] = all[i + 1]
        BY <1>6, <2>2, TailIsSequence
      <3>2. \A i \in DOMAIN left : i \in Nat /\ i + 1 \in 1..(M + 1) /\ left[i] = all[i + 1]
        BY <1>6, <3>1
      <3> QED BY <3>1, <3>2
    <2> QED BY <1>5, <1>7, <2>1, <2>2
  <1>9. PICK d \in {0, 1} : \A i \in DOMAIN left :
          i \in Nat /\ i + d \in 1..(M + 1) /\ left[i] = all[i + d]
    BY <1>8
  <1>10. \A i \in 1..(M + 1) : \E j \in 1..(N + 1) :
           log[received'[j].push].topic = "cdr" /\ all[i] = log[received'[j].push].body
    <2>1. ASSUME NEW i \in 1..M
          PROVE  \E j \in 1..(N + 1) :
                   log[received'[j].push].topic = "cdr" /\ all[i] = log[received'[j].push].body
      <3>1. PICK j \in 1..N : log[received[j].push].topic = "cdr"
                                /\ store.cdrs[i] = log[received[j].push].body
        BY <1>1, <1>6 DEF RecordsAreRight, BillsAreAsReceived
      <3> QED BY <1>1, <1>6, <3>1
    <2>2. N + 1 \in 1..(N + 1) /\ log[received'[N + 1].push].topic = "cdr"
            /\ all[M + 1] = log[received'[N + 1].push].body
      BY <1>1, <1>6
    <2>3. 1..(M + 1) = 1..M \cup {M + 1}
      BY <1>6
    <2> QED BY <2>1, <2>2, <2>3
  <1>11. \A i \in 1..M : all[i].sessionID # all[M + 1].sessionID
    <2> SUFFICES ASSUME NEW i \in 1..M, all[i].sessionID = all[M + 1].sessionID
                 PROVE  FALSE
      OBVIOUS
    <2>1. PICK j \in 1..N : log[received[j].push].topic = "cdr"
                              /\ store.cdrs[i] = log[received[j].push].body
      BY <1>1, <1>6 DEF RecordsAreRight, BillsAreAsReceived
    <2>2. received[j].push \in 1..Len(log)
      BY <1>1, ReceiptsAreInLog DEF RecordsAreRight
    <2>3. /\ log[received[j].push].session = all[i].sessionID
          /\ log[push].session = all[M + 1].sessionID
      BY <1>6, <2>1, <2>2, BillsInLog
    <2>4. received[j].push = push
      BY <2>1, <2>2, <2>3, BillsInLog
    <2>5. received'[j].push = received'[N + 1].push /\ j # N + 1
          /\ j \in DOMAIN received' /\ N + 1 \in DOMAIN received'
      BY <1>1, <2>4
    <2> QED BY <2>5 DEF ProcessedOnceAndInOrder
  <1>12. \A i, j \in 1..(M + 1) : all[i].sessionID = all[j].sessionID => i = j
    <2>1. \A i, j \in 1..M : all[i].sessionID = all[j].sessionID => i = j
      BY <1>6 DEF RecordsAreRight, BillsAreAsReceived
    <2>2. 1..(M + 1) = 1..M \cup {M + 1}
      BY <1>6
    <2> QED BY <1>11, <2>1, <2>2
  <1>13. BillsAreAsReceived'
    <2>1. \A i \in DOMAIN left : \E j \in DOMAIN received' :
            log[received'[j].push].topic = "cdr" /\ left[i] = log[received'[j].push].body
      <3> SUFFICES ASSUME NEW i \in DOMAIN left
                   PROVE  \E j \in DOMAIN received' :
                            log[received'[j].push].topic = "cdr"
                              /\ left[i] = log[received'[j].push].body
        OBVIOUS
      <3>1. i + d \in 1..(M + 1) /\ left[i] = all[i + d]
        BY <1>9
      <3> QED BY <1>1, <1>10, <3>1
    <2>2. \A i, j \in DOMAIN left : left[i].sessionID = left[j].sessionID => i = j
      <3>1. SUFFICES ASSUME NEW i \in DOMAIN left, NEW j \in DOMAIN left,
                            left[i].sessionID = left[j].sessionID
                     PROVE  i = j
        OBVIOUS
      <3>2. i + d = j + d
        BY <1>9, <1>12, <3>1
      <3> QED BY <1>9, <3>2
    <2> QED BY <1>3, <1>8, <2>1, <2>2 DEF BillsAreAsReceived
  <1> QED BY <1>2, <1>3, <1>13

\* Whatever is processed, the store stays right (Process).
LEMMA ReceivingKeepsItRight ==
  ASSUME PushInv, Inv, RecordsAreRight, ProcessedOnceAndInOrder',
         NEW push \in 1..Len(log), NEW known, received' = Processed(push, known), UNCHANGED log,
         store' = Process(store, push)
  PROVE  /\ store' = [sessions |-> store'.sessions, cdrs |-> store'.cdrs]
         /\ SessionsAreAsReceived' /\ BillsAreAsReceived'
PROOF
  <1> DEFINE N == Len(received)
  <1>1. /\ N \in Nat /\ DOMAIN received = 1..N /\ DOMAIN received' = 1..(N + 1)
        /\ \A i \in 1..N : received'[i] = received[i]
        /\ KnownSessions' = KnownSessions \cup {log[push].session}
        /\ \A s : ReceivedNews(s)' =
             IF log[push].topic = "session" /\ log[push].session = s
             THEN ReceivedNews(s) \cup {N + 1} ELSE ReceivedNews(s)
        /\ \A s : CrowdedOut(s) => CrowdedOut(s)'
    BY OneMoreReceived
  <1> HIDE DEF N
  <1>2. CASE log[push].topic = "session"
    <2>1. store' = PutSession(store, log[push].session, log[push].body)
      BY <1>2 DEF Process
    <2>2. store' = [sessions |-> store'.sessions, cdrs |-> store.cdrs] /\ SessionsAreAsReceived'
      BY <1>2, <2>1, StoringKeepsSessions
    <2>3. store'.cdrs = store.cdrs
      BY <2>2
    <2>4. BillsAreAsReceived'
      <3>1. \A i \in DOMAIN received : i \in DOMAIN received' /\ received'[i] = received[i]
        BY <1>1
      <3> QED BY <2>3, <3>1 DEF RecordsAreRight, BillsAreAsReceived
    <2> QED BY <2>2, <2>3, <2>4
  <1>3. CASE log[push].topic = "cdr"
    <2>1. store' = AddCDR(store, log[push].body)
      BY <1>3 DEF Process
    <2>2. store' = [sessions |-> store.sessions, cdrs |-> store'.cdrs] /\ BillsAreAsReceived'
      BY <1>3, <2>1, StoringKeepsBills
    <2>3. store'.sessions = store.sessions
      BY <2>2
    <2>4. \A s : ReceivedNews(s)' = ReceivedNews(s) /\ ReceivedNews(s) \subseteq 1..N
      BY <1>1, <1>3 DEF ReceivedNews
    <2>5. ASSUME NEW s \in KnownSessions', ReceivedNews(s)' # {}
          PROVE  s \in KnownSessions /\ ReceivedNews(s) # {}
      BY <2>4, <2>5 DEF ReceivedNews, KnownSessions
    <2>6. SessionsAreAsReceived'
      BY <1>1, <2>3, <2>4, <2>5 DEF RecordsAreRight, SessionsAreAsReceived
    <2> QED BY <2>2, <2>3, <2>6
  <1>4. log[push].topic \in {"session", "cdr"}
    BY KnownAreNumbers
  <1> QED BY <1>2, <1>3, <1>4


(***************************************************************************)
(* Every step, and what follows.                                           *)
(***************************************************************************)

\* The gateway takes, sends, or gives up a push, and what is processed is stored.
LEMMA DeliveryKeepsItRight ==
  ASSUME PushInv, PushInv', Inv, RecordsAreRight, DeliveryStep
  PROVE  Inv' /\ RecordsAreRight'
PROOF
  <1>1. /\ UNCHANGED <<now, ledger, log, published>>
        /\ store' = IF received' = received THEN store
                    ELSE Process(store, received'[Len(received')].push)
        /\ \/ received' = received
           \/ \E push, known : received' = Processed(push, known)
    BY DEF DeliveryStep, Gateway, Stored, TakeNext, Take, Deliver, Fail, SendEnds, ProcessLate,
           StopCall, StopIsCalled, RunEnds, RunReturns
  <1>2. Inv' /\ SaidIsRight(Said', ledger')
    BY <1>1 DEF Inv, RecordsAreRight, Said
  <1>3. CASE received' = received
    <2>1. SessionsAreAsReceived' /\ BillsAreAsReceived'
      BY <1>1, <1>3 DEF RecordsAreRight, SessionsAreAsReceived, BillsAreAsReceived, ReceivedNews,
           KnownSessions, CrowdedOut
    <2> QED BY <1>1, <1>2, <1>3, <2>1 DEF RecordsAreRight
  <1>4. CASE received' # received
    <2>1. PICK push, known : received' = Processed(push, known)
      BY <1>1, <1>4
    <2> DEFINE entry == [push |-> push, known |-> known]
    <2>2. /\ received \in Seq(Receipt) /\ received' = Append(received, entry) /\ entry.push = push
      BY <2>1 DEF Processed, PushInv, PushTypeOK
    <2> HIDE DEF entry
    <2>3. received'[Len(received')] = entry /\ Len(received') \in DOMAIN received'
      BY <2>2
    <2>4. store' = Process(store, push)
      BY <1>1, <1>4, <2>2, <2>3
    <2>5. push \in 1..Len(log)
      <3>1. push \in Settled'
        BY <2>2, <2>3 DEF Settled
      <3>2. push <= published' /\ published' \in Nat /\ push \in PushID
        <4>1. Settled' \subseteq PushID
          BY SettledWillBeNumbers DEF PushInv
        <4> QED BY <3>1, <4>1 DEF PushInv, PushTypeOK, InOrder
      <3>3. push \in 1..published'
        BY <3>2
      <3>4. published' = Len(log)
        BY <1>1 DEF RecordsAreRight
      <3> QED BY <3>3, <3>4, Zenon
    <2>6. /\ store' = [sessions |-> store'.sessions, cdrs |-> store'.cdrs]
          /\ SessionsAreAsReceived' /\ BillsAreAsReceived'
      BY <1>1, <2>1, <2>4, <2>5, ReceivingKeepsItRight DEF PushInv
    <2> QED BY <1>1, <1>2, <2>6 DEF RecordsAreRight
  <1> QED BY <1>3, <1>4

\* A handler leaves what was published and received alone.
LEMMA HandlingKeepsItRight ==
  ASSUME Inv, RecordsAreRight, HandlerStep
  PROVE  Inv' /\ RecordsAreRight'
PROOF
  <1>1. UNCHANGED <<published, received, log, store>>
    BY DEF HandlerStep, Handle, pushVars
  <1>2. SessionsAreAsReceived' /\ BillsAreAsReceived'
    BY <1>1 DEF RecordsAreRight, SessionsAreAsReceived, BillsAreAsReceived, ReceivedNews,
         KnownSessions, CrowdedOut
  <1> QED BY <1>1, <1>2, HandlersKeepItRight DEF RecordsAreRight

\* Log and store are empty when the program starts.
LEMMA RecordInvInit ==
  RecordInit => RecordInv
PROOF
  <1> SUFFICES ASSUME RecordInit PROVE RecordInv
    OBVIOUS
  <1>1. PushInv /\ Inv
    BY PushInvInit, EmptyLedgerIsRight DEF RecordInit, Init, Inv
  <1>2. /\ log = << >> /\ ledger.events = << >> /\ published = 0 /\ received = << >>
        /\ store = [sessions |-> EmptyRepository, cdrs |-> << >>]
    BY DEF RecordInit, Init, PushInit, EmptyLedger, EmptyStore
  <1>3. IsSequence(log) /\ Len(log) = published /\ IsSequence(ledger.events)
    BY <1>2 DEF IsSequence
  <1>4. DOMAIN Said = {}
    BY <1>2 DEF Said
  <1>5. SaidIsRight(Said, ledger)
    BY <1>4 DEF SaidIsRight, SaidOfSessions, NewsIsTrue, BillsCloseSessions
  <1>6. SessionsAreAsReceived
    BY <1>2 DEF SessionsAreAsReceived, KnownSessions, EmptyRepository
  <1>7. BillsAreAsReceived
    BY <1>2 DEF BillsAreAsReceived, IsSequence
  <1> QED BY <1>1, <1>2, <1>3, <1>5, <1>6, <1>7 DEF RecordInv, RecordsAreRight

\* The invariant holds throughout.
LEMMA RecordInvariance == RecordSpec => []RecordInv
PROOF
  <1>1. ASSUME RecordInv, [RecordNext]_recordVars
        PROVE  RecordInv'
    <2>1. PushInv /\ Inv /\ RecordsAreRight
      BY <1>1 DEF RecordInv
    <2>2. PushInv'
      BY <1>1, <2>1, RecordStepsArePushed, PushStepKeepsInv
    <2>3. CASE UNCHANGED recordVars
      <3>1. UNCHANGED <<now, ledger, log, store, published, received>>
        BY <2>3 DEF recordVars, pushVars, vars
      <3>2. SessionsAreAsReceived' /\ BillsAreAsReceived'
        BY <2>1, <3>1 DEF RecordsAreRight, SessionsAreAsReceived, BillsAreAsReceived,
             ReceivedNews, KnownSessions, CrowdedOut
      <3>3. Inv' /\ SaidIsRight(Said', ledger')
        BY <2>1, <3>1 DEF Inv, RecordsAreRight, Said
      <3> QED BY <2>1, <2>2, <3>1, <3>2, <3>3 DEF RecordInv, RecordsAreRight
    <2>4. Inv' /\ RecordsAreRight'
      BY <1>1, <2>1, <2>2, <2>3, HandlingKeepsItRight, PublishingKeepsItRight,
         DeliveryKeepsItRight DEF RecordNext, RecordInv
    <2> QED BY <2>2, <2>4 DEF RecordInv
  <1> QED BY <1>1, RecordInvInit, PTL DEF RecordSpec


\* If all news of a session was answered, the store has what its last news says.
LEMMA AnsweredNewsIsStored ==
  ASSUME RecordInv, NEW s, NewsOf(s) # {}, \A p \in NewsOf(s) : Answered(p)
  PROVE  IF s \notin DOMAIN store.sessions THEN CrowdedOut(s)
         ELSE \E p \in NewsOf(s) : /\ store.sessions[s] = log[p].body
                                   /\ \A q \in NewsOf(s) : q <= p
PROOF
  <1>1. PushInv /\ Inv /\ RecordsAreRight /\ ProcessedOnceAndInOrder
    BY DEF RecordInv, PushInv
  <1>2. DOMAIN log = 1..Len(log) /\ Len(log) \in Nat
    BY <1>1, WhatIsSaid DEF RecordsAreRight
  <1>3. \A i \in DOMAIN received : received[i].push \in DOMAIN log /\ i \in Nat
    <2>1. \A i \in DOMAIN received : i \in Nat
      BY <1>1 DEF PushInv, PushTypeOK
    <2> QED BY <1>1, <1>2, <2>1, ReceiptsAreInLog DEF RecordsAreRight
  <1>4. \A p \in NewsOf(s) : \E i \in ReceivedNews(s) : received[i].push = p /\ received[i].known
    <2> SUFFICES ASSUME NEW p \in NewsOf(s)
                 PROVE  \E i \in ReceivedNews(s) : received[i].push = p /\ received[i].known
      OBVIOUS
    <2>1. PICK i \in DOMAIN received : received[i] = [push |-> p, known |-> TRUE]
      BY DEF Answered
    <2>2. received[i].push = p /\ received[i].known
      BY <2>1
    <2> QED BY <2>2 DEF ReceivedNews, NewsOf
  <1>5. CASE s \notin DOMAIN store.sessions
    <2>1. ReceivedNews(s) # {} /\ s \in KnownSessions
      BY <1>4 DEF ReceivedNews, KnownSessions
    <2> QED BY <1>1, <1>5, <2>1 DEF RecordsAreRight, SessionsAreAsReceived
  <1>6. CASE s \in DOMAIN store.sessions
    <2>1. PICK i \in ReceivedNews(s) : /\ store.sessions[s] = log[received[i].push].body
                                       /\ \A j \in ReceivedNews(s) : j <= i
      BY <1>1, <1>6 DEF RecordsAreRight, SessionsAreAsReceived
    <2> DEFINE p == received[i].push
    <2>2. i \in DOMAIN received /\ p \in NewsOf(s)
      BY <1>3 DEF ReceivedNews, NewsOf
    <2>3. received[i].known
      <3>1. PICK k \in ReceivedNews(s) : received[k].push = p /\ received[k].known
        BY <1>4, <2>2
      <3>2. k = i
        BY <1>1, <2>2, <3>1 DEF ReceivedNews, ProcessedOnceAndInOrder
      <3> QED BY <3>1, <3>2
    <2>4. ASSUME NEW q \in NewsOf(s)
          PROVE  q <= p
      <3>1. PICK j \in ReceivedNews(s) : received[j].push = q /\ received[j].known
        BY <1>4
      <3>2. j <= i /\ j \in DOMAIN received /\ j \in Nat /\ i \in Nat /\ p \in Nat
        BY <1>2, <1>3, <2>1, <2>2 DEF ReceivedNews
      <3>3. CASE j = i
        BY <3>1, <3>2, <3>3
      <3>4. CASE j < i
        BY <1>1, <1>2, <1>3, <2>2, <2>3, <3>1, <3>2, <3>4 DEF ProcessedOnceAndInOrder
      <3> QED BY <3>2, <3>3, <3>4
    <2> QED BY <1>6, <2>1, <2>2, <2>4
  <1> QED BY <1>5, <1>6

\* If every push about a session was answered and no other is coming, the eMSP has it as it is: a
\* completed one to the last unit, an active one up to the progress that is held back (updateSession,
\* run, putSession).
THEOREM StoreComesCloseToTheRecord == RecordSpec => []RecordIsNearlyTrue
PROOF
  <1>1. ASSUME RecordInv
        PROVE  RecordIsNearlyTrue
    <2> SUFFICES ASSUME NEW s \in DOMAIN ledger.sessions, HandlerIsDone, NewsOf(s) # {},
                        \A p \in NewsOf(s) : Answered(p), s \in DOMAIN store.sessions
                 PROVE  LET record  == store.sessions[s]
                            session == ledger.sessions[s]
                        IN  /\ record.state = session.state
                            /\ record.state = CompletedState => record = Mapped(session)
                            /\ session.updatedAt - record.updatedAt < SessionUpdateInterval
      BY <1>1, AnsweredNewsIsStored DEF RecordIsNearlyTrue
    <2> DEFINE record  == store.sessions[s]
               session == ledger.sessions[s]
    <2>1. /\ LedgerIsRight(ledger) /\ ledger.events = << >> /\ IsSequence(log)
          /\ IsSequence(ledger.events) /\ NewsIsTrue(Said, ledger)
      BY <1>1 DEF RecordInv, Inv, RecordsAreRight, SaidIsRight, HandlerIsDone
    <2>2. PICK p \in NewsOf(s) : record = log[p].body /\ \A q \in NewsOf(s) : q <= p
      BY <1>1, AnsweredNewsIsStored
    <2>3. p \in DOMAIN Said /\ Said[p] = log[p] /\ IsLastNews(Said, p, s)
      <3>1. DOMAIN Said = DOMAIN log /\ \A q \in DOMAIN log : Said[q] = log[q]
        <4>1. Len(ledger.events) = 0
          BY <2>1
        <4> QED BY <2>1, <4>1, WhatIsSaid
      <3> QED BY <2>2, <3>1 DEF NewsOf, IsLastNews, Says
    <2>4. /\ record.state = session.state
          /\ s \notin ActiveSessions(ledger) => record = Mapped(session)
          /\ s \in ActiveSessions(ledger) => record.updatedAt = ledger.lastPublishedAt[s]
      BY <2>1, <2>2, <2>3 DEF NewsIsTrue
    <2>5. CASE s \in ActiveSessions(ledger)
      <3>1. record.state # CompletedState
        BY <2>4, <2>5 DEF ActiveSessions, InState, ActiveState, CompletedState
      <3>2. session.updatedAt - record.updatedAt < SessionUpdateInterval
        BY <2>1, <2>4, <2>5 DEF LedgerIsRight, ListenersKeepUp
      <3> QED BY <2>4, <3>1, <3>2
    <2>6. CASE s \notin ActiveSessions(ledger)
      <3>1. session \in SessionRecord
        BY <2>1 DEF LedgerIsRight, IsLedger, IsRepository
      <3>2. record = Mapped(session) /\ record.updatedAt = session.updatedAt
        BY <2>4, <2>6, WhatIsMapped
      <3>3. session.updatedAt \in Nat
        BY <3>1 DEF SessionRecord
      <3> HIDE DEF record, session
      <3>4. session.updatedAt - record.updatedAt < SessionUpdateInterval
        BY <3>2, <3>3, SessionConfig
      <3> QED BY <2>4, <3>2, <3>4 DEF record, session
    <2> QED BY <2>5, <2>6
  <1> QED BY <1>1, RecordInvariance, PTL

\* A session is never billed twice at the eMSP, which shows it as completed, with the totals of its
\* bill, unless a push about it was dropped, failed or late (StopSession, run).
THEOREM StoreShowsWhatItBills == RecordSpec => []BilledAsShown
PROOF
  <1>1. ASSUME RecordInv
        PROVE  BilledAsShown
    <2>1. PushInv /\ Inv /\ RecordsAreRight /\ BillsAreAsReceived
      BY <1>1 DEF RecordInv, RecordsAreRight
    <2>2. SUFFICES ASSUME NEW i \in DOMAIN store.cdrs, NEW bill, bill = store.cdrs[i],
                          NEW s, s = bill.sessionID,
                          \A p \in NewsOf(s) : Answered(p) \/ Underway(p)
                   PROVE  IF s \notin DOMAIN store.sessions THEN CrowdedOut(s)
                          ELSE /\ store.sessions[s].state = CompletedState
                               /\ store.sessions[s].energy = bill.energy
                               /\ store.sessions[s].totalCost = bill.totalCost
                               /\ store.sessions[s].endedAt = bill.endedAt
      BY <2>1 DEF BilledAsShown, BillsAreAsReceived
    <2>3. PICK j \in DOMAIN received : /\ log[received[j].push].topic = "cdr"
                                       /\ bill = log[received[j].push].body
      BY <2>1, <2>2 DEF BillsAreAsReceived
    <2> DEFINE p == received[j].push
    <2>4. p \in 1..Len(log)
      BY <2>1, ReceiptsAreInLog DEF RecordsAreRight
    <2>5. /\ p - 1 \in NewsOf(s) /\ \A q \in NewsOf(s) : q <= p - 1
          /\ log[p - 1].body.state = CompletedState
          /\ log[p - 1].body.energy = bill.energy
          /\ log[p - 1].body.totalCost = bill.totalCost
          /\ log[p - 1].body.endedAt = bill.endedAt
      <3>1. log[p].session = s
        BY <2>1, <2>2, <2>3, <2>4, BillsInLog
      <3> QED BY <2>1, <2>3, <2>4, <3>1, BillsInLog
    <2>6. \A q \in NewsOf(s) : q \in Nat
      <3>1. DOMAIN log = 1..Len(log)
        BY <2>1, WhatIsSaid DEF RecordsAreRight
      <3> QED BY <3>1 DEF NewsOf
    <2>7. ASSUME NEW q \in NewsOf(s)
          PROVE  Answered(q)
      <3>1. \A k \in DOMAIN OnTheirWay : p < OnTheirWay[k]
        <4>1. p \in Settled
          BY DEF Settled
        <4> HIDE DEF p
        <4>2. /\ sending # NoPush => p < sending
              /\ \A k \in DOMAIN queue : p < queue[k]
              /\ queue \in Seq(PushID)
          BY <2>1, <4>1 DEF PushInv, PushTypeOK, InOrder
        <4> QED BY <4>2 DEF OnTheirWay
      <3>2. q < p
        BY <2>4, <2>5, <2>6
      <3>3. ~Underway(q)
        BY <2>4, <2>6, <3>1, <3>2 DEF Underway
      <3> QED BY <2>2, <3>3
    <2>8. IF s \notin DOMAIN store.sessions THEN CrowdedOut(s)
          ELSE \E q \in NewsOf(s) : /\ store.sessions[s] = log[q].body
                                    /\ \A r \in NewsOf(s) : r <= q
      BY <1>1, <2>5, <2>7, AnsweredNewsIsStored
    <2>9. ASSUME NEW q \in NewsOf(s), \A r \in NewsOf(s) : r <= q
          PROVE  q = p - 1
      BY <2>4, <2>5, <2>6, <2>9
    <2> QED BY <2>5, <2>8, <2>9
  <1> QED BY <1>1, RecordInvariance, PTL

=============================================================================
