------------------------------- MODULE PageWalk -------------------------------
(***************************************************************************)
(* Pulling the sessions page by page (handler/ocpi), the way an eMSP makes *)
(* up for pushes it missed, while the session controller goes on.          *)
(*                                                                         *)
(* The walk is the eMSP's: it asks for all sessions, or for those updated  *)
(* since some moment, and follows the Link to the next page as long as     *)
(* there is one.  The only simulated times it knows are those in the       *)
(* answers, and these are later than what the answer says, because the     *)
(* handler reads the clock after it has cut the page; so it goes back to   *)
(* the last answer it had before its previous walk.  Nobody sets date_to.  *)
(* The CDRs are paged by the same code.                                    *)
(***************************************************************************)
EXTENDS SessionController

CONSTANTS
  MaxPageLimit,  \* maxPageLimit
  AskedLimit,    \* the limit that the eMSP asks for
  Second         \* how many clock ticks a second has: the precision of an OCPI timestamp

ASSUME PageConfig == {MaxPageLimit, AskedLimit, Second} \subseteq Nat \ {0}

VARIABLES
  walk,     \* the eMSP's walk: where it is, what it asks for, the times it remembers
  missing,  \* history: the stored sessions that the eMSP does not have as they are stored
  changed,  \* history: during a walk, the stored sessions that have changed since it began
  slipped   \* history: whether retention has moved sessions to pages that were already asked for

pageVars == <<vars, walk, missing, changed, slipped>>

Unset == -1   \* no date_from
NoLink == 0   \* the answer has no Link to a next page

\* Timestamp.MarshalJSON: whole seconds.
Truncated(time) == time - (time % Second)

\* parsePageParams
Limit == IF AskedLimit < MaxPageLimit THEN AskedLimit ELSE MaxPageLimit

\* Mutant: date_from is exclusive.
MatchesAfter(session, from) == from = Unset \/ session.updatedAt > from

\* The filter of pageOf.
Matches(session, from) == from = Unset \/ session.updatedAt >= from

\* The sessions that match; the list has them in the order of their IDs.
Matching(from) == {s \in DOMAIN ledger.sessions : Matches(ledger.sessions[s], from)}

\* Which one of the list a session is, counted from one.
Position(matching, s) == Cardinality({t \in matching : t <= s})

\* pageOf: one page of what matches.
PageOf(matching, offset) ==
  {s \in matching : Position(matching, s) \in (offset + 1)..(offset + Limit)}

\* respondPage: the offset in the Link to the next page.
Link(matching, offset) == IF offset + Limit < Cardinality(matching) THEN offset + Limit ELSE NoLink

-----------------------------------------------------------------------------
\* at: "idle", "asking" for a page, or "answered" by one of which the timestamp is not yet taken;
\* offset: of the page asked for, or then of the next; stamp: the time in the last answer; before: that
\* of the last answer before the walk began.
NoWalk == [at |-> "idle", from |-> Unset, offset |-> 0, stamp |-> Unset, before |-> Unset]

\* The eMSP begins a walk, from the beginning or from where it is on the safe side.
BeginWalk(from) ==
  /\ walk.at = "idle"
  /\ walk' = [walk EXCEPT !.at = "asking", !.from = from, !.offset = 0, !.before = walk.stamp]
  /\ changed' = {}
  /\ slipped' = (slipped /\ from # Unset)
  /\ UNCHANGED <<vars, missing>>

\* listSessions lists the sessions and cuts the page.
ListSessions ==
  LET matching == Matching(walk.from)
  IN  /\ walk.at = "asking"
      /\ walk' = [walk EXCEPT !.at = "answered", !.offset = Link(matching, walk.offset)]
      /\ missing' = missing \ PageOf(matching, walk.offset)
      /\ UNCHANGED <<vars, changed, slipped>>

\* respond takes the time for the answer.
Stamped == [walk EXCEPT !.stamp = Truncated(now)]

\* The eMSP follows the Link to the next page.
FollowLink ==
  /\ walk.at = "answered" /\ walk.offset # NoLink
  /\ walk' = [Stamped EXCEPT !.at = "asking"]
  /\ UNCHANGED <<vars, missing, changed, slipped>>

\* There is no Link: the walk is over.
EndWalk ==
  /\ walk.at = "answered" /\ walk.offset = NoLink
  /\ walk' = [Stamped EXCEPT !.at = "idle", !.from = Unset]
  /\ changed' = {}
  /\ UNCHANGED <<vars, missing, slipped>>

WalkStep == BeginWalk(Unset) \/ BeginWalk(walk.before) \/ ListSessions \/ FollowLink \/ EndWalk

\* A step of the controller, with what it changes for the eMSP.
ControllerStep ==
  LET stored  == DOMAIN ledger'.sessions
      new(s)  == s \notin DOMAIN ledger.sessions \/ ledger'.sessions[s] # ledger.sessions[s]
      updated == {s \in stored : new(s)}
  IN  /\ Next
      /\ missing' = (missing \cup updated) \cap stored
      /\ changed' = IF walk.at = "idle" THEN {} ELSE (changed \cup updated) \cap stored
      /\ slipped' = (slipped \/ (walk.offset # 0 /\ ~(DOMAIN ledger.sessions \subseteq stored)))
      /\ UNCHANGED walk

WalkNext == WalkStep \/ ControllerStep

WalkInit == Init /\ walk = NoWalk /\ missing = {} /\ changed = {} /\ slipped = FALSE

WalkSpec == WalkInit /\ [][WalkNext]_pageVars

-----------------------------------------------------------------------------
\* "A real eMSP recovers from a missed push by pulling" (gateway.go): when a walk is over, the eMSP
\* has every session as it is stored, except what has changed since the walk began, although the
\* list has grown between the pages.  Only when retention forgets sessions in the middle of a walk
\* may others be skipped, and then until they change again or everything is pulled (pageOf).
PulledIsCurrent == [][EndWalk => missing \subseteq changed \/ slipped]_pageVars
=============================================================================
