---------------------------- MODULE LocationView ----------------------------
(***************************************************************************)
(* What the mock eMSP believes about locations and their EVSEs             *)
(* (app/mockemsp), while the CPO pushes every change of a site or charger  *)
(* through the queue of PushQueue and the eMSP may pull the whole list.    *)
(*                                                                         *)
(* A charger is its site and its state.  The charger controller stores a   *)
(* charger and publishes it under its lock; that is one action here.  The  *)
(* handler of a pull lists the sites and then the chargers, without a lock *)
(* between; the eMSP applies the answer one location after another, and    *)
(* pushes are applied in between.                                          *)
(***************************************************************************)
EXTENDS PushQueue, Repository

CONSTANTS
  SiteIDs, ChargerIDs,  \* what there may be at the CPO
  States,               \* bound: the states that chargers enter
  Pullers,              \* concurrent requests to pull
  ChangeLimit           \* bound: how many changes there are at the CPO

\* Where an operation on a charger may take its state.
MovesTo == [AVAILABLE |-> {"PREPARING", "FAULTED"},
            PREPARING |-> {"CHARGING", "AVAILABLE", "FAULTED"},
            CHARGING  |-> {"FINISHING", "FAULTED"},
            FINISHING |-> {"CHARGING", "AVAILABLE", "FAULTED"},
            FAULTED   |-> {"AVAILABLE", "PREPARING"}]

ASSUME Inputs == "AVAILABLE" \in States /\ States \subseteq DOMAIN MovesTo

\* The part of a site's subject where a charger's has its ID.
NoEVSE == ""

\* A charger that is added without an ID is given one, so that every charger has one.
ASSUME ChargersHaveIDs == NoEVSE \notin ChargerIDs

\* What stands for no push is none.
ASSUME NoPushIsNone ==
  NoPush \notin [site : SiteIDs, evse : ChargerIDs \cup {NoEVSE},
                 status : {"AVAILABLE", "CHARGING", "OUTOFORDER", "BLOCKED", "REMOVED", "KNOWN"}]

VARIABLES
  sites,      \* the site repository: the set of IDs
  issued,     \* the IDs of sites and chargers that have been issued, and so will not be again
  chargers,   \* the charger repository: ID to [site, state]
  changes,    \* how many changes there have been
  locations,  \* the eMSP's store: site ID to [known, evses]
  pull,       \* each puller's request
  late,       \* the pushes that timed out at the sender and are still with the eMSP
  lost,       \* history: the subjects that the eMSP may be wrong about: their last push was dropped or
              \* failed, something older came after it, or there was none when they changed
  calm        \* history: what else has happened since each puller's request

cpoVars == <<sites, issued, chargers, changes>>
history == <<lost, calm>>
vars == <<queueVars, cpoVars, locations, pull, late, history>>

Idle == [phase |-> "idle"]

Init ==
  /\ QueueInit
  /\ sites = {} /\ issued = {} /\ chargers = EmptyRepository /\ changes = 0
  /\ locations = EmptyRepository
  /\ pull = [p \in Pullers |-> Idle]
  /\ late = {} /\ lost = {}
  /\ calm = [p \in Pullers |-> "busy"]

-----------------------------------------------------------------------------
(* The CPO. *)

\* EVSEStatus: OCPI has no word for a cable that is connected but not charging.
EVSEStatus(state) ==
  CASE state = "AVAILABLE" -> "AVAILABLE"
    [] state = "CHARGING"  -> "CHARGING"
    [] state = "FAULTED"   -> "OUTOFORDER"
    [] OTHER               -> "BLOCKED"

\* The pushes.  A subject is what later pushes about the same thing replace.
SitePush(s) == [site |-> s, evse |-> NoEVSE, status |-> "KNOWN"]
EVSEPush(c, charger) == [site |-> charger.site, evse |-> c, status |-> EVSEStatus(charger.state)]
RemovedEVSEPush(c, charger) == [site |-> charger.site, evse |-> c, status |-> "REMOVED"]

Subject(push) == <<push.site, push.evse>>
SubjectsOnTheirWay == {Subject(OnTheirWay[i]) : i \in DOMAIN OnTheirWay}

\* The pulls from before now are not calm.
Disturb == calm' = [p \in Pullers |-> "busy"]

\* A change at the CPO, published; a push that is dropped is the last its subject has had.  Of the
\* subjects in untold, which it changes as well, nothing is published.
Change(push, untold) ==
  /\ changes < ChangeLimit /\ changes' = changes + 1
  /\ Enqueue(push)
  /\ lost' = untold \cup IF IsFull THEN lost \cup {Subject(push)} ELSE lost \ {Subject(push)}
  /\ Disturb
  /\ UNCHANGED <<locations, pull, late>>

\* A caller may choose an ID that is free.
AddNamedSite(s) ==
  /\ s \notin sites
  /\ sites' = sites \cup {s}
  /\ Change(SitePush(s), {})
  /\ UNCHANGED <<issued, chargers>>

\* An ID that is issued is not looked up: the site of a caller who chose the same is overwritten.
AddSite(s) ==
  /\ s \notin issued
  /\ issued' = issued \cup {s} /\ sites' = sites \cup {s}
  /\ Change(SitePush(s), {})
  /\ UNCHANGED chargers

NewCharger(s) == [site |-> s, state |-> "AVAILABLE"]

AddNamedCharger(c, s) ==
  /\ c \notin DOMAIN chargers /\ s \in sites
  /\ chargers' = Upsert(chargers, c, NewCharger(s))
  /\ Change(EVSEPush(c, NewCharger(s)), {})
  /\ UNCHANGED <<sites, issued>>

\* A charger at another site has the ID: it is overwritten, and nobody is told that it is gone there.
Overwritten(c, s) ==
  IF c \in DOMAIN chargers /\ chargers[c].site # s THEN {<<chargers[c].site, c>>} ELSE {}

\* Nor is an issued charger ID looked up.
AddCharger(c, s) ==
  /\ c \notin issued /\ s \in sites
  /\ issued' = issued \cup {c}
  /\ chargers' = Upsert(chargers, c, NewCharger(s))
  /\ Change(EVSEPush(c, NewCharger(s)), Overwritten(c, s))
  /\ UNCHANGED sites

\* Any operation on a charger: updateCharger also publishes a change that is not of the state.
UpdateCharger(c) ==
  \E state \in ({chargers[c].state} \cup MovesTo[chargers[c].state]) \cap States :
  LET charger == [chargers[c] EXCEPT !.state = state]
  IN  /\ chargers' = Upsert(chargers, c, charger)
      /\ Change(EVSEPush(c, charger), {})
      /\ UNCHANGED <<sites, issued>>

\* A charger is not removed while it has a session.
RemoveCharger(c) ==
  /\ chargers[c].state # "CHARGING"
  /\ chargers' = DeleteAll(chargers, {c})
  /\ Change(RemovedEVSEPush(c, chargers[c]), {})
  /\ UNCHANGED <<sites, issued>>

-----------------------------------------------------------------------------
(* The eMSP's store. *)

NewLocation == [known |-> FALSE, evses |-> EmptyRepository]
Location(s) == IF s \in DOMAIN locations THEN locations[s] ELSE NewLocation

\* Mutant: a location without EVSEs takes the place of one that has some.
PutLocationAsItIs(s, evses) ==
  locations' = Upsert(locations, s, [known |-> TRUE, evses |-> evses])

\* putLocation: replace the location, but keep the EVSEs if the new one has none.
PutLocation(s, evses) ==
  locations' = Upsert(locations, s,
    [known |-> TRUE, evses |-> IF DOMAIN evses = {} THEN Location(s).evses ELSE evses])

\* putEVSE: replace or remove one EVSE; a location nobody has announced gets a stub.
PutEVSE(s, c, status) ==
  locations' = Upsert(locations, s,
    [Location(s) EXCEPT !.evses = IF status = "REMOVED" THEN DeleteAll(@, {c})
                                  ELSE Upsert(@, c, status)])

Receive(push) ==
  IF push.evse = NoEVSE THEN PutLocation(push.site, EmptyRepository)
  ELSE PutEVSE(push.site, push.evse, push.status)

TakeNext == Take /\ UNCHANGED <<cpoVars, locations, pull, late, history>>

Deliver ==
  /\ SendEnds
  /\ Receive(sending)
  /\ UNCHANGED <<cpoVars, pull, late, history>>

\* A push has failed, or comes late: it is undone only by another one about its subject.
MayBeWrong(push) ==
  IF Subject(push) \in SubjectsOnTheirWay' THEN lost ELSE lost \cup {Subject(push)}

\* The push fails; if it timed out the eMSP may have processed it all the same, or still will.
Fail ==
  /\ SendEnds
  /\ \/ (Receive(sending) \/ UNCHANGED locations) /\ UNCHANGED late
     \/ late' = late \cup {sending} /\ UNCHANGED locations
  /\ lost' = MayBeWrong(sending)
  /\ UNCHANGED <<cpoVars, pull, calm>>

\* The eMSP comes to a request that the sender has given up on.
ProcessLate ==
  \E push \in late :
    /\ Receive(push)
    /\ late' = late \ {push}
    /\ UNCHANGED queueVars /\ lost' = MayBeWrong(push)
    /\ UNCHANGED <<cpoVars, pull, calm>>

-----------------------------------------------------------------------------
(* A pull: SyncLocations and the handler that answers it. *)

NothingOnItsWay == OnTheirWay = << >> /\ late = {}

\* From now on no change and no other pull happens, and if "quiet" no push arrives either.
Calm ==
  IF \E q \in Pullers : pull[q] # Idle THEN "busy"
  ELSE IF NothingOnItsWay THEN "quiet" ELSE "changeless"

\* The handler lists the sites.
PullSites(p) ==
  /\ pull[p] = Idle
  /\ pull' = [pull EXCEPT ![p] = [phase |-> "chargers", sites |-> sites]]
  /\ calm' = [[q \in Pullers |-> "busy"] EXCEPT ![p] = Calm]
  /\ UNCHANGED <<queueVars, cpoVars, locations, late, lost>>

EVSEsAt(s) ==
  [c \in {d \in DOMAIN chargers : chargers[d].site = s} |-> EVSEStatus(chargers[c].state)]

\* Then it lists the chargers, and answers.
PullChargers(p) ==
  /\ pull[p].phase = "chargers"
  /\ pull' = [pull EXCEPT ![p] =
                [phase |-> "apply", found |-> [s \in pull[p].sites |-> EVSEsAt(s)]]]
  /\ UNCHANGED <<queueVars, cpoVars, locations, late, history>>

\* The answer does not arrive, or not in time: the eMSP applies nothing.
PullFails(p) ==
  /\ pull[p].phase = "chargers"
  /\ pull' = [pull EXCEPT ![p] = Idle]
  /\ UNCHANGED <<queueVars, cpoVars, locations, late, history>>

\* The eMSP puts one location of the answer into its store.  If there have been changes since,
\* it may be wrong until it hears of them (again).
ApplyLocation(p, s) ==
  /\ pull[p].phase = "apply" /\ s \in DOMAIN pull[p].found
  /\ PutLocation(s, pull[p].found[s])
  /\ pull' = [pull EXCEPT ![p].found = DeleteAll(@, {s})]
  /\ lost' = IF calm[p] = "busy" THEN lost \cup ({<<s, c>> : c \in ChargerIDs} \ SubjectsOnTheirWay)
             ELSE lost
  /\ UNCHANGED <<queueVars, cpoVars, late, calm>>

\* What a pull that is left alone repairs: every site, and the EVSEs of sites that have any.
Repaired ==
  {<<s, NoEVSE>> : s \in sites} \cup
  {<<s, c>> : s \in {r \in sites : DOMAIN EVSEsAt(r) # {}}, c \in ChargerIDs}

PullEnds(p) ==
  /\ pull[p].phase = "apply" /\ DOMAIN pull[p].found = {}
  /\ pull' = [pull EXCEPT ![p] = Idle]
  /\ lost' = IF calm[p] = "quiet" THEN lost \ Repaired ELSE lost
  /\ UNCHANGED <<queueVars, cpoVars, locations, late, calm>>

-----------------------------------------------------------------------------
Operate ==
  \/ \E s \in SiteIDs : AddSite(s) \/ AddNamedSite(s)
  \/ \E s \in SiteIDs, c \in ChargerIDs : AddCharger(c, s) \/ AddNamedCharger(c, s)
  \/ \E c \in DOMAIN chargers : RemoveCharger(c) \/ UpdateCharger(c)

Pull ==
  \E p \in Pullers :
    \/ PullSites(p) \/ PullChargers(p) \/ PullFails(p) \/ PullEnds(p)
    \/ \E s \in sites : ApplyLocation(p, s)

Next == Operate \/ TakeNext \/ Deliver \/ Fail \/ ProcessLate \/ Pull

Spec == Init /\ [][Next]_vars

-----------------------------------------------------------------------------
\* The eMSP has the site, and has this EVSE there exactly if and as the CPO has it.
AgreeOnSite(s) == Location(s).known
AgreeOnEVSE(s, c) ==
  IF c \in DOMAIN chargers /\ chargers[c].site = s
  THEN c \in DOMAIN Location(s).evses /\ Location(s).evses[c] = EVSEStatus(chargers[c].state)
  ELSE c \notin DOMAIN Location(s).evses

Settled(subject) == subject \notin SubjectsOnTheirWay \cup lost

\* Whatever else was lost, as soon as the last push about an EVSE or a site has arrived (and no
\* older one after it) the eMSP is right about it, also if the charger came back at another site or
\* its location was never announced (putEVSE, putLocation).  A pull that changes, other pulls and
\* pushes leave alone makes it right about every site that has chargers, whatever it missed
\* before; and a pull that pushes overtake never does any harm that they do not undo (SyncLocations).
\* It may stay wrong about one EVSE that nothing was lost of: the CPO does not say that a charger is
\* gone whose ID it has issued again for another site (AddCharger).
SettledIsRight ==
  \A s \in sites :
    /\ Settled(<<s, NoEVSE>>) => AgreeOnSite(s)
    /\ \A c \in ChargerIDs : Settled(<<s, c>>) => AgreeOnEVSE(s, c)
=============================================================================
