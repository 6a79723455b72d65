----------------------------- MODULE Repository -----------------------------
(***************************************************************************)
(* The in-memory repositories (repository/session, cdr, charger, command,  *)
(* site).  The five are the same code at five types: a map guarded by a    *)
(* lock.  A repository is a function from the IDs it holds to records.     *)
(* Every method takes the lock once, so each is one atomic operation.  Get *)
(* is function application guarded by membership in DOMAIN, and List is    *)
(* DOMAIN itself: what List adds is the order of the IDs, which a module   *)
(* that depends on it writes as an order on the numbers of the IDs.        *)
(***************************************************************************)
EXTENDS Functions

\* No entity is stored.
EmptyRepository == [id \in {} |-> id]

\* Upsert stores an entity under its ID, replacing the one that was there.
Upsert(repository, id, entity) ==
  [x \in DOMAIN repository \cup {id} |-> IF x = id THEN entity ELSE repository[x]]

\* A Delete for each of ids, all of them stored.
DeleteAll(repository, ids) == Restrict(repository, DOMAIN repository \ ids)

\* repository holds entities of the set Entity under IDs of the set ID.
IsRepository(repository, ID, Entity) ==
  /\ repository = [id \in DOMAIN repository |-> repository[id]]
  /\ DOMAIN repository \subseteq ID
  /\ \A id \in DOMAIN repository : repository[id] \in Entity
=============================================================================
