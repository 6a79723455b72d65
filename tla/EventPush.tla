------------------------------ MODULE EventPush ------------------------------
(***************************************************************************)
(* The push gateway with numbered pushes and a receiver that answers,      *)
(* refuses or is too slow: what its counters say, what order the receiver  *)
(* sees, and what Stop promises.                                           *)
(***************************************************************************)
EXTENDS PushQueue, FiniteSets

CONSTANT PublishLimit  \* bound: how many events are published

ASSUME PushesAreNumbered == NoPush \notin Nat

VARIABLES
  published,  \* how many events have been published; the number of an event is its push
  counts,     \* the metrics PushesSent, PushesFailed and PushesDropped
  received,   \* the pushes the receiver has processed, in order, and whether Send knows of it
  late        \* the pushes that timed out at the sender and are still with the receiver

pushVars == <<queueVars, published, counts, received, late>>

PushInit ==
  /\ QueueInit
  /\ published = 0
  /\ counts = [sent |-> 0, failed |-> 0, dropped |-> 0]
  /\ received = << >> /\ late = {}

\* Mutant: a dropped push is not counted.
PublishDropsSilently ==
  /\ published < PublishLimit
  /\ published' = published + 1
  /\ Enqueue(published + 1)
  /\ UNCHANGED <<counts, received, late>>

\* A publisher's call.
PublishEvent ==
  /\ published < PublishLimit
  /\ published' = published + 1
  /\ Enqueue(published + 1)
  /\ counts' = IF IsFull THEN [counts EXCEPT !.dropped = @ + 1] ELSE counts
  /\ UNCHANGED <<received, late>>

TakeNext == Take /\ UNCHANGED <<published, counts, received, late>>

Processed(push, known) == Append(received, [push |-> push, known |-> known])

\* The receiver processes the push and says so.
Deliver ==
  /\ SendEnds
  /\ received' = Processed(sending, TRUE)
  /\ counts' = [counts EXCEPT !.sent = @ + 1]
  /\ UNCHANGED <<published, late>>

\* Mutant: a push that fails is put into the queue again.
FailAndRetry ==
  /\ sending # NoPush /\ sending' = NoPush /\ UNCHANGED phase
  /\ queue' = IF IsFull THEN queue ELSE Append(queue, sending)
  /\ counts' = [counts EXCEPT !.failed = @ + 1]
  /\ received' \in {received, Processed(sending, FALSE)}
  /\ UNCHANGED <<published, late>>

\* The receiver refuses the push, cannot be reached, or its answer does not come in time: what
\* has become of the push is not known.
Fail ==
  /\ SendEnds
  /\ counts' = [counts EXCEPT !.failed = @ + 1]
  /\ \/ received' \in {received, Processed(sending, FALSE)} /\ UNCHANGED late
     \/ late' = late \cup {sending} /\ UNCHANGED received
  /\ UNCHANGED published

\* The receiver comes to a request that the sender has given up on.
ProcessLate ==
  /\ \E push \in late : received' = Processed(push, FALSE) /\ late' = late \ {push}
  /\ UNCHANGED <<queueVars, published, counts>>

StopCall == StopIsCalled /\ UNCHANGED <<published, counts, received, late>>
RunEnds == RunReturns /\ UNCHANGED <<published, counts, received, late>>

PushNext == PublishEvent \/ TakeNext \/ Deliver \/ Fail \/ ProcessLate \/ StopCall \/ RunEnds

PushSpec == PushInit /\ [][PushNext]_pushVars

-----------------------------------------------------------------------------
\* The counters and the queue account for every event ever published, also after Stop (enqueue,
\* run).
EveryPushIsAccountedFor ==
  published = counts.sent + counts.failed + counts.dropped + Len(OnTheirWay)

\* No push is processed twice, failed ones included (this eMSP bills every CDR it is sent), and the
\* pushes that were answered in time were processed in the order of publication.
ProcessedOnceAndInOrder ==
  \A i, j \in DOMAIN received :
    /\ received[i].push = received[j].push => i = j
    /\ i < j /\ received[i].known /\ received[j].known => received[i].push < received[j].push

\* Stop returns, however many pushes are queued, and a push that was queued is sent or given up
\* unless the gateway is stopped first.
EveryPushIsSettled ==
  /\ phase = "stopping" ~> phase = "stopped"
  /\ \A push \in 1..PublishLimit :
       (\E i \in DOMAIN OnTheirWay : OnTheirWay[i] = push)
         ~> (phase = "stopped" \/ \A i \in DOMAIN OnTheirWay : OnTheirWay[i] # push)
=============================================================================
