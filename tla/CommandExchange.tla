--------------------------- MODULE CommandExchange ---------------------------
(***************************************************************************)
(* A command from the driver's app to its outcome there: the mock eMSP     *)
(* (app/mockemsp) records it, sends it to the CPO and waits for the        *)
(* synchronous answer; the CPO keeps CommandPromise and pushes the result  *)
(* through PushQueue.  Requests and answers may be lost or slow: the eMSP  *)
(* gives up waiting, while the CPO may still get or have got the request,  *)
(* and a result may arrive before the answer that announces it.            *)
(*                                                                         *)
(* A command of the app is its number (newCommandUID).                     *)
(***************************************************************************)
EXTENDS PushQueue, CommandPromise

CONSTANTS
  MaxStoredCommands,  \* maxStoredCommands
  Refusals,           \* the answers other than ACCEPTED that the CPO gives without a command
  PressLimit          \* bound: how often the app's buttons are pressed

ASSUME StoreConfig == MaxStoredCommands \in Nat \ {0}

ASSUME AnswersDiffer ==
  Refusals \cap (CommandResults \cup {"ACCEPTED", "REJECTED", "PENDING", "ERROR"}) = {}

VARIABLES
  lastCommandID,  \* the mock's counter
  store,          \* store.commands, oldest first
  calls,          \* each command's request: "pressed", then "waiting" for an answer, then "over"
  requests,       \* the commands whose request is on its way to the CPO
  replies,        \* the CPO's answers, of which some are still on their way
  callbacks,      \* at the CPO: its command's number to that of the app's command
  late,           \* the results that timed out at the CPO and are still with the mock
  verdicts,       \* history: the result of each of the CPO's commands, once there is one
  lost            \* history: the app's commands whose result was dropped or not delivered in time

mockVars == <<lastCommandID, store, calls>>
wireVars == <<requests, replies>>
history == <<verdicts, lost>>
vars == <<queueVars, promiseVars, mockVars, wireVars, callbacks, late, history>>

Init ==
  /\ QueueInit /\ PromiseInit
  /\ lastCommandID = 0 /\ store = << >> /\ calls = << >>
  /\ requests = {} /\ replies = << >> /\ callbacks = << >>
  /\ late = {} /\ verdicts = << >> /\ lost = {}

-----------------------------------------------------------------------------
(* The mock eMSP. *)

\* addCommand: the store keeps its most recent entries.
Stored(command) ==
  Append(IF Len(store) = MaxStoredCommands THEN Tail(store) ELSE store, command)

\* postStart, postStop, postUnlock: a number for the command.
Press ==
  /\ lastCommandID < PressLimit
  /\ lastCommandID' = lastCommandID + 1
  /\ calls' = Append(calls, "pressed")
  /\ UNCHANGED <<queueVars, promiseVars, store, wireVars, callbacks, late, history>>

\* Mutant: the command is recorded only when there is an answer.
SendUnrecorded(uid) ==
  /\ calls[uid] = "pressed"
  /\ calls' = [calls EXCEPT ![uid] = "waiting"]
  /\ requests' = requests \cup {uid}
  /\ UNCHANGED <<queueVars, promiseVars, lastCommandID, store, replies, callbacks, late, history>>

\* send: record the command, then make the request.
Send(uid) ==
  /\ calls[uid] = "pressed"
  /\ store' = Stored([uid |-> uid, response |-> "PENDING", result |-> "PENDING"])
  /\ calls' = [calls EXCEPT ![uid] = "waiting"]
  /\ requests' = requests \cup {uid}
  /\ UNCHANGED <<queueVars, promiseVars, lastCommandID, replies, callbacks, late, history>>

\* Mutant: the answer is the outcome, also of a command that has its result already.
AnsweredOver(command, response) ==
  [command EXCEPT !.response = response,
                  !.result = IF response # "ACCEPTED" THEN response ELSE @]

\* Mutant: the command of an answer that is final goes on waiting.
AnsweredOnly(command, response) == [command EXCEPT !.response = response]

\* An answer other than ACCEPTED is the outcome, unless there is a result already.
Answered(command, response) ==
  [command EXCEPT !.response = response,
                  !.result = IF response # "ACCEPTED" /\ @ = "PENDING" THEN response ELSE @]

\* answerCommand
AnswerCommand(uid, response) ==
  /\ store' = [i \in DOMAIN store |->
                 IF store[i].uid = uid THEN Answered(store[i], response) ELSE store[i]]
  /\ calls' = [calls EXCEPT ![uid] = "over"]
  /\ UNCHANGED <<queueVars, promiseVars, lastCommandID, wireVars, callbacks, late, history>>

\* SendCommand returns what the CPO said.
AnswerArrives(uid) ==
  /\ calls[uid] = "waiting" /\ uid \in DOMAIN replies
  /\ AnswerCommand(uid, replies[uid])

\* SendCommand fails: the CPO cannot be reached, breaks the connection, or is too slow.
CallFails(uid) ==
  /\ calls[uid] = "waiting"
  /\ AnswerCommand(uid, "ERROR")

\* Mutant: the result is that of the command the app sent last.
ResolvedLast(push) ==
  [i \in DOMAIN store |->
     IF i = Len(store) THEN [store[i] EXCEPT !.result = push.result] ELSE store[i]]

\* resolveCommand
Resolved(push) ==
  [i \in DOMAIN store |->
     IF store[i].uid = push.uid THEN [store[i] EXCEPT !.result = push.result] ELSE store[i]]

IsStored(uid) == \E i \in DOMAIN store : store[i].uid = uid

-----------------------------------------------------------------------------
(* The CPO. *)

\* The answer to a request.
Reply(uid, response) ==
  /\ uid \in requests
  /\ requests' = requests \ {uid}
  /\ replies' = [u \in DOMAIN replies \cup {uid} |-> IF u = uid THEN response ELSE replies[u]]
  /\ UNCHANGED <<queueVars, mockVars, late, history>>

Accept(uid) == Reply(uid, "ACCEPTED") /\ AcceptNew /\ callbacks' = Append(callbacks, uid)
Reject(uid) == Reply(uid, "REJECTED") /\ RejectNew /\ callbacks' = Append(callbacks, uid)
Refuse(uid) == \E response \in Refusals : Reply(uid, response) /\ UNCHANGED <<promiseVars, callbacks>>

RequestIsLost(uid) ==
  /\ uid \in requests
  /\ requests' = requests \ {uid}
  /\ UNCHANGED <<queueVars, promiseVars, mockVars, replies, callbacks, late, history>>

\* A command has its result: PublishCommandEvent.
ResultIsPublished(c, result) ==
  /\ Answer(c, result)
  /\ Enqueue([uid |-> callbacks[c], result |-> result])
  /\ verdicts' = [d \in DOMAIN verdicts \cup {c} |-> IF d = c THEN result ELSE verdicts[d]]
  /\ lost' = IF IsFull THEN lost \cup {callbacks[c]} ELSE lost
  /\ UNCHANGED <<mockVars, wireVars, callbacks, late>>

TakeNext == Take /\ UNCHANGED <<promiseVars, mockVars, wireVars, callbacks, late, history>>

\* The mock resolves the command; it answers 404 if it does not know it.
Deliver ==
  /\ SendEnds
  /\ store' = Resolved(sending)
  /\ UNCHANGED <<promiseVars, lastCommandID, calls, wireVars, callbacks, late, history>>

Fail ==
  /\ SendEnds
  /\ lost' = lost \cup {sending.uid}
  /\ \/ store' \in {store, Resolved(sending)} /\ UNCHANGED late
     \/ late' = late \cup {sending} /\ UNCHANGED store
  /\ UNCHANGED <<promiseVars, lastCommandID, calls, wireVars, callbacks, verdicts>>

ProcessLate ==
  /\ \E push \in late : store' = Resolved(push) /\ late' = late \ {push}
  /\ UNCHANGED <<queueVars, promiseVars, lastCommandID, calls, wireVars, callbacks, history>>

-----------------------------------------------------------------------------
PublishResult == \E c \in pending, result \in CommandResults : ResultIsPublished(c, result)
CallEnds(uid) == AnswerArrives(uid) \/ CallFails(uid)

Next ==
  \/ Press \/ PublishResult \/ TakeNext \/ Deliver \/ Fail \/ ProcessLate
  \/ \E uid \in DOMAIN calls :
       \/ Send(uid) \/ CallEnds(uid)
       \/ Accept(uid) \/ Reject(uid) \/ Refuse(uid) \/ RequestIsLost(uid)

Spec == Init /\ [][Next]_vars

\* The app's request is handled and ends, at the latest by its timeout; the CPO finds a result
\* for every command (CommandController's CommandsAreAnswered); pushes are delivered.
FairSpec ==
  /\ Spec
  /\ \A uid \in 1..PressLimit :
       WF_vars(uid \in DOMAIN calls /\ Send(uid)) /\ WF_vars(uid \in DOMAIN calls /\ CallEnds(uid))
  /\ WF_vars(PublishResult) /\ WF_vars(TakeNext) /\ WF_vars(Deliver \/ Fail)

-----------------------------------------------------------------------------
\* "A result that races ahead of the CPO's synchronous answer still finds its command" (send):
\* every result on its way has its command in the store, unless newer ones have pushed it out.
ResultsFindTheirCommand ==
  \A i \in DOMAIN OnTheirWay :
    \/ IsStored(OnTheirWay[i].uid)
    \/ Len(store) = MaxStoredCommands

IsOutcome(result) == result \notin {"PENDING", "ERROR"}

\* What the app shows as the outcome is what became of the command at the CPO: a refusal if the
\* CPO refused it, and the CPO's result if it was accepted.
StoreIsTruthful ==
  \A i \in DOMAIN store :
    LET uid == store[i].uid
    IN  /\ IsOutcome(store[i].response) => uid \in DOMAIN replies /\ store[i].response = replies[uid]
        /\ IsOutcome(store[i].result) =>
             /\ uid \in DOMAIN replies
             /\ IF replies[uid] = "ACCEPTED"
                THEN \E c \in DOMAIN verdicts :
                       callbacks[c] = uid /\ store[i].result = verdicts[c]
                ELSE store[i].result = replies[uid]

\* Neither the answer nor an error takes back a result that has arrived.
OutcomesStay ==
  [][\A i \in DOMAIN store, j \in DOMAIN store' :
       store[i].uid = store'[j].uid /\ IsOutcome(store[i].result) =>
         store'[j].result = store[i].result]_vars

\* Every command gets an outcome, unless its result is lost or the store forgets it first.
EveryCommandHasAnOutcome ==
  \A uid \in 1..PressLimit :
    uid \in DOMAIN calls ~>
      \/ uid \in lost
      \/ uid \in DOMAIN calls /\ calls[uid] # "pressed" /\ ~IsStored(uid)
      \/ \E i \in DOMAIN store : store[i].uid = uid /\ store[i].result # "PENDING"
=============================================================================
