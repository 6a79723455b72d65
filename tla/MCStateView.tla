----------------------------- MODULE MCStateView -----------------------------
(***************************************************************************)
(* Instances of StateView: one charger and two sessions, of which retention *)
(* keeps one, so that a session ends, or is forgotten, between any two      *)
(* reads.  Until there is a charger the clock is speeded up and slowed down *)
(* with time passing before, between and after, and the machine's clock set *)
(* back; from then on there is less of it.                                  *)
(***************************************************************************)
EXTENDS StateView

MCEquipment == {[maxPower |-> 3, pricePerUnit |-> 7]}
MCVehicles == {[capacity |-> 10, maxPower |-> 4, level |-> 3]}
MCBehaviors == {<< >>}
MCRolls == {1}
NoIDs == {}
MCSpeeds == {0, 1, 2, 3}
MCAdjustments == {-1}

\* What the last handler published is of no consequence: the next one starts with no publications.
\* Nor is when a session was last published: nothing here depends on whether progress is published.
LedgerView == [Fresh(ledger) EXCEPT !.lastPublishedAt = EmptyRepository]

\* Of the clock there matters what it shows and how it goes on: now is SimulatedNow, and the wall
\* clock counts no more once the anchor is not Stripped.  Where the anchor is does not matter then.
ClockView ==
  <<now, clock.speed, steady, changes.speed, moved, due, OnWallClock,
    IF OnWallClock THEN changes.wall ELSE 0>>

\* Of a charger in an answer only its session and its vehicle are looked at.
PollView ==
  [poll EXCEPT !.chargers =
     [id \in DOMAIN @ |-> [session |-> @[id].session, vehicle |-> @[id].vehicle]]]

MCView ==
  <<ClockView, LedgerView, chargers, lastChargerID, lastTickAt, tick, stores, PollView>>
=============================================================================
