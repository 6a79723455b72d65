------------------------------ MODULE PushQueue ------------------------------
(***************************************************************************)
(* The queue and the delivery goroutine of the push gateway                *)
(* (gateway/ocpipush).  Publishers hold controller locks, so they never    *)
(* wait: a push that finds the queue full is dropped.  One goroutine, run, *)
(* takes one push after another and sends it, until it notices that Stop   *)
(* has closed g.stop; while that channel and the queue are both ready,     *)
(* select may take either.  What a push does at its receiver is for the    *)
(* modules that extend this one to say.                                    *)
(***************************************************************************)
EXTENDS Naturals, Sequences

CONSTANTS
  QueueSize,  \* config.QueueSize
  NoPush      \* run is not sending

ASSUME QueueConfig == QueueSize \in Nat \ {0}

VARIABLES
  queue,    \* g.queue, oldest push first
  sending,  \* the push that run is sending
  phase     \* "running"; "stopping" once g.stop is closed; "stopped" once run has returned

queueVars == <<queue, sending, phase>>

QueueInit == queue = << >> /\ sending = NoPush /\ phase = "running"

IsFull == Len(queue) >= QueueSize

\* enqueue: drop the push if the queue is full.
Enqueue(push) ==
  /\ queue' = IF IsFull THEN queue ELSE Append(queue, push)
  /\ UNCHANGED <<sending, phase>>

\* Mutant: several goroutines deliver, and any of the queued pushes may be next.
TakeAny ==
  /\ phase # "stopped" /\ sending = NoPush
  /\ \E i \in DOMAIN queue :
       /\ sending' = queue[i]
       /\ queue' = SubSeq(queue, 1, i - 1) \o SubSeq(queue, i + 1, Len(queue))
  /\ UNCHANGED phase

\* run takes the next push.
Take ==
  /\ phase # "stopped" /\ sending = NoPush
  /\ queue # << >>
  /\ sending' = Head(queue) /\ queue' = Tail(queue)
  /\ UNCHANGED phase

\* Send returns, whatever has come of it: a push that failed is not sent again.
SendEnds ==
  /\ sending # NoPush
  /\ sending' = NoPush
  /\ UNCHANGED <<queue, phase>>

\* Stop closes the channel; it returns when run has.
StopIsCalled ==
  /\ phase = "running" /\ phase' = "stopping"
  /\ UNCHANGED <<queue, sending>>

\* Mutant: run looks at the stop channel only when it has got a push.
RunReturnsOnNextPush ==
  /\ phase = "stopping" /\ sending = NoPush
  /\ queue # << >>
  /\ phase' = "stopped"
  /\ UNCHANGED <<queue, sending>>

\* run notices that it has been stopped, between two pushes.
RunReturns ==
  /\ phase = "stopping" /\ sending = NoPush
  /\ phase' = "stopped"
  /\ UNCHANGED <<queue, sending>>

\* The pushes that are still on their way, in the order they were published.
OnTheirWay == IF sending = NoPush THEN queue ELSE <<sending>> \o queue
=============================================================================
