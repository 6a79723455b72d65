--------------------------- MODULE CommandPromise ---------------------------
(***************************************************************************)
(* What the CPO promises an eMSP about commands, whatever happens at its   *)
(* chargers: every command is refused or accepted at once, and what has    *)
(* been accepted is answered at most once, with one result.                *)
(***************************************************************************)
EXTENDS Naturals

CONSTANTS CommandResults, NoAnswer

VARIABLES
  issued,   \* how many commands have been given an ID
  pending,  \* the accepted commands that have no result yet
  said      \* the result published in the last step, if any

promiseVars == <<issued, pending, said>>

PromiseInit == issued = 0 /\ pending = {} /\ said = NoAnswer

AcceptNew ==
  /\ issued' = issued + 1
  /\ pending' = pending \cup {issued + 1}
  /\ said' = NoAnswer

RejectNew ==
  /\ issued' = issued + 1
  /\ said' = NoAnswer
  /\ UNCHANGED pending

Answer(c, result) ==
  /\ c \in pending
  /\ pending' = pending \ {c}
  /\ said' = [command |-> c, result |-> result]
  /\ UNCHANGED issued

SayNothing == said' = NoAnswer /\ UNCHANGED <<issued, pending>>

PromiseNext ==
  \/ AcceptNew \/ RejectNew \/ SayNothing
  \/ \E c \in pending, result \in CommandResults : Answer(c, result)

PromiseSpec == PromiseInit /\ [][PromiseNext]_promiseVars
=============================================================================
