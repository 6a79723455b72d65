---------------------- MODULE CommandExchange_proofs ----------------------
(***************************************************************************)
(* What the eMSP's app shows of its commands, for any number of commands,  *)
(* every size of the store and of the push queue, and whatever requests,   *)
(* answers and results are lost, slow or early.                            *)
(*                                                                         *)
(* One inductive invariant, ExchangeInv, says on either side of the wire   *)
(* how far a command can be: each has one request, the request has one     *)
(* answer, an accepted one is one command of the CPO, that command has one *)
(* verdict, and every result that is under way is such a verdict.          *)
(***************************************************************************)
EXTENDS CommandExchange, SequenceTheorems, TLAPS

Answers == {"PENDING", "ERROR", "ACCEPTED", "REJECTED"} \cup Refusals \cup CommandResults
Commands == [uid : Nat, response : Answers, result : Answers]
Pushes == [uid : Nat, result : CommandResults]

\* The commands that the app has sent.
Sent == {uid \in DOMAIN calls : calls[uid] # "pressed"}

CallsAreTyped == calls \in Seq({"pressed", "waiting", "over"})

\* A command is in the store once, from when it is sent until newer ones have pushed it out.
StoreInv ==
  /\ store \in Seq(Commands)
  /\ Len(store) <= MaxStoredCommands
  /\ \A i \in DOMAIN store : store[i].uid \in Sent
  /\ \A i, j \in DOMAIN store : store[i].uid = store[j].uid => i = j
  /\ Len(store) = MaxStoredCommands \/ \A uid \in Sent : IsStored(uid)

\* A command is sent to the CPO once, and answered once.
WireInv ==
  /\ requests \subseteq Sent
  /\ DOMAIN replies \subseteq Sent \ requests
  /\ replies \in [DOMAIN replies -> Refusals \cup {"ACCEPTED", "REJECTED"}]

IsPending(c) ==
  /\ c \in DOMAIN callbacks \ DOMAIN verdicts
  /\ replies[callbacks[c]] = "ACCEPTED"

\* The CPO has each of the app's commands once, and a result only of those that it accepted and that
\* are no longer pending.
CPOInv ==
  /\ issued \in Nat
  /\ callbacks \in Seq(Nat) /\ Len(callbacks) = issued
  /\ \A c \in DOMAIN callbacks : callbacks[c] \in DOMAIN replies
  /\ \A c, d \in DOMAIN callbacks : callbacks[c] = callbacks[d] => c = d
  /\ \A c \in pending : IsPending(c)
  /\ DOMAIN verdicts \subseteq DOMAIN callbacks
  /\ verdicts \in [DOMAIN verdicts -> CommandResults]
  /\ \A c \in DOMAIN verdicts : replies[callbacks[c]] = "ACCEPTED"

IsVerdict(push) ==
  \E c \in DOMAIN verdicts : push = [uid |-> callbacks[c], result |-> verdicts[c]]

\* What is under way is what the CPO has decided.
PushInv ==
  /\ queue \in Seq(Pushes)
  /\ \A i \in DOMAIN queue : IsVerdict(queue[i])
  /\ sending # NoPush => IsVerdict(sending)
  /\ \A push \in late : IsVerdict(push)

ExchangeInv ==
  /\ CallsAreTyped /\ StoreInv /\ WireInv /\ CPOInv /\ PushInv
  /\ StoreIsTruthful

-----------------------------------------------------------------------------
(* Lemmas about the store. *)

\* addCommand: the new command comes last, after what was there or, if the store was full, all of it
\* but the oldest.
LEMMA StoredIs ==
  ASSUME NEW command \in Commands, store \in Seq(Commands), Len(store) <= MaxStoredCommands
  PROVE  /\ Stored(command) \in Seq(Commands)
         /\ Len(Stored(command)) <= MaxStoredCommands
         /\ \E k \in {0, 1} :
              /\ k = 1 => Len(store) = MaxStoredCommands
              /\ Len(Stored(command)) = Len(store) + 1 - k
              /\ Stored(command)[Len(store) + 1 - k] = command
              /\ \A i \in 1..(Len(store) - k) : Stored(command)[i] = store[i + k]
<1>1. CASE Len(store) = MaxStoredCommands
  <2>1. store # << >>
    BY <1>1, StoreConfig
  <2>2. /\ Tail(store) \in Seq(Commands)
        /\ Len(Tail(store)) = Len(store) - 1
        /\ \A i \in 1..(Len(store) - 1) : Tail(store)[i] = store[i + 1]
    BY <2>1
  <2>3. Stored(command) = Append(Tail(store), command)
    BY <1>1 DEF Stored
  <2> HIDE DEF Stored
  <2>4. /\ Stored(command) \in Seq(Commands)
        /\ Len(Stored(command)) = Len(store)
        /\ Stored(command)[Len(store)] = command
        /\ \A i \in 1..(Len(store) - 1) : Stored(command)[i] = Tail(store)[i]
    BY <2>2, <2>3
  <2>5. QED
    BY <1>1, <2>2, <2>4
<1>2. CASE Len(store) # MaxStoredCommands
  <2>1. Stored(command) = Append(store, command)
    BY <1>2 DEF Stored
  <2>2. QED
    BY <1>2, <2>1, StoreConfig
<1>3. QED
  BY <1>1, <1>2

\* What rewrites the entries of the store and not whose they are leaves it in order.
LEMMA RewritingKeepsStoreInv ==
  ASSUME StoreInv, store' \in Seq(Commands), Len(store') = Len(store), Sent' = Sent,
         \A i \in DOMAIN store : store'[i].uid = store[i].uid
  PROVE  StoreInv'
<1>1. DOMAIN store' = DOMAIN store
  BY DEF StoreInv
<1>2. \A uid \in Sent : IsStored(uid) => IsStored(uid)'
  BY <1>1 DEF IsStored
<1>3. QED
  BY <1>1, <1>2 DEF StoreInv

\* resolveCommand: the command of a result has it, the others stay as they were.
LEMMA ResolvedIs ==
  ASSUME StoreInv, NEW push \in Pushes
  PROVE  /\ Resolved(push) \in Seq(Commands)
         /\ Len(Resolved(push)) = Len(store)
         /\ \A i \in DOMAIN store :
              /\ Resolved(push)[i].uid = store[i].uid
              /\ Resolved(push)[i].response = store[i].response
              /\ Resolved(push)[i].result =
                   IF store[i].uid = push.uid THEN push.result ELSE store[i].result
<1>1. \A i \in DOMAIN store : store[i] \in Commands
  BY DEF StoreInv
<1>2. push.result \in Answers
  BY DEF Pushes, Answers
<1>3. \A command \in Commands :
        LET resolved == [command EXCEPT !.result = push.result]
        IN  /\ resolved \in Commands
            /\ resolved.uid = command.uid
            /\ resolved.response = command.response
            /\ resolved.result = push.result
  BY <1>2 DEF Commands
<1>4. QED
  BY <1>1, <1>3 DEF StoreInv, Resolved

\* answerCommand: the command of an answer has it as its response, and as its result if it is final and
\* comes before one.
LEMMA AnsweredIs ==
  ASSUME StoreInv, NEW uid, NEW response \in Answers, AnswerCommand(uid, response)
  PROVE  /\ store' \in Seq(Commands)
         /\ Len(store') = Len(store)
         /\ \A i \in DOMAIN store :
              /\ store'[i].uid = store[i].uid
              /\ store'[i].response = IF store[i].uid = uid THEN response ELSE store[i].response
              /\ store'[i].result =
                   IF store[i].uid = uid /\ response # "ACCEPTED" /\ store[i].result = "PENDING"
                   THEN response ELSE store[i].result
<1>1. \A i \in DOMAIN store : store[i] \in Commands
  BY DEF StoreInv
<1>2. \A command \in Commands :
        /\ Answered(command, response) \in Commands
        /\ Answered(command, response).uid = command.uid
        /\ Answered(command, response).response = response
        /\ Answered(command, response).result =
             IF response # "ACCEPTED" /\ command.result = "PENDING" THEN response ELSE command.result
  BY DEF Answered, Commands
<1>3. QED
  BY <1>1, <1>2 DEF StoreInv, AnswerCommand

-----------------------------------------------------------------------------
(* Each step keeps the invariant. *)

\* Press: what has not been sent concerns nobody.
LEMMA PressKeeps ==
  ExchangeInv /\ Press => ExchangeInv'
<1> SUFFICES ASSUME ExchangeInv, Press
             PROVE  ExchangeInv'
  OBVIOUS
<1> USE DEF ExchangeInv
<1>1. /\ calls' = Append(calls, "pressed")
      /\ UNCHANGED <<queueVars, promiseVars, store, wireVars, callbacks, late, history>>
  BY DEF Press
<1>2. CallsAreTyped'
  BY <1>1 DEF CallsAreTyped
<1>3. Sent' = Sent
  BY <1>1 DEF CallsAreTyped, Sent
<1>4. StoreInv'
  BY <1>1, <1>3 DEF StoreInv, IsStored
<1>5. WireInv' /\ CPOInv' /\ PushInv' /\ StoreIsTruthful'
  BY <1>1, <1>3 DEF WireInv, CPOInv, PushInv, StoreIsTruthful, IsPending, IsVerdict,
       queueVars, promiseVars, wireVars, history
<1>6. QED
  BY <1>2, <1>4, <1>5

\* send: the command was in no store, on no wire and with no CPO.
LEMMA SendKeeps ==
  ASSUME ExchangeInv, NEW uid \in DOMAIN calls, Send(uid)
  PROVE  ExchangeInv'
<1> USE DEF ExchangeInv
<1> DEFINE command == [uid |-> uid, response |-> "PENDING", result |-> "PENDING"]
<1>1. /\ store' = Stored(command)
      /\ calls' = [calls EXCEPT ![uid] = "waiting"]
      /\ requests' = requests \cup {uid}
      /\ UNCHANGED <<queueVars, promiseVars, replies, callbacks, late, history>>
  BY DEF Send
<1>2. uid \notin Sent
  BY DEF Send, Sent
<1>3. CallsAreTyped' /\ Sent' = Sent \cup {uid}
  BY <1>1 DEF CallsAreTyped, Sent
<1>4. uid \in Nat
  BY DEF CallsAreTyped
<1>5. command \in Commands
  BY <1>4 DEF Commands, Answers
<1>6. command.uid = uid /\ command.response = "PENDING" /\ command.result = "PENDING"
  OBVIOUS
<1> HIDE DEF command
<1>7. store \in Seq(Commands) /\ Len(store) <= MaxStoredCommands
  BY DEF StoreInv
<1>8. PICK k \in {0, 1} :
        /\ k = 1 => Len(store) = MaxStoredCommands
        /\ Len(store') = Len(store) + 1 - k
        /\ store'[Len(store) + 1 - k] = command
        /\ \A i \in 1..(Len(store) - k) : store'[i] = store[i + k]
  BY <1>1, <1>5, <1>7, StoredIs
<1>9. store' \in Seq(Commands) /\ Len(store') <= MaxStoredCommands
  BY <1>1, <1>5, <1>7, StoredIs
<1>10. \A i \in DOMAIN store' :
         \/ i = Len(store') /\ store'[i] = command
         \/ i # Len(store') /\ i + k \in DOMAIN store /\ store'[i] = store[i + k]
  BY <1>7, <1>8, <1>9
<1>11. StoreInv'
  <2>1. \A i \in DOMAIN store' : store'[i].uid \in Sent'
    BY <1>3, <1>6, <1>10 DEF StoreInv
  <2>2. \A i \in DOMAIN store' :
          \/ i = Len(store') /\ store'[i].uid \notin Sent
          \/ i # Len(store') /\ i + k \in DOMAIN store /\ store'[i].uid = store[i + k].uid
    BY <1>2, <1>6, <1>10
  <2>3. \A i, j \in DOMAIN store' : store'[i].uid = store'[j].uid => i = j
    BY <1>7, <1>9, <2>2 DEF StoreInv
  <2>4. Len(store') = MaxStoredCommands \/ \A u \in Sent' : IsStored(u)'
    <3>1. CASE Len(store) = MaxStoredCommands
      BY <1>1, <1>8, <1>9, <3>1, StoreConfig
    <3>2. CASE Len(store) # MaxStoredCommands
      <4>1. k = 0
        BY <1>8, <3>2
      <4>2. \A u \in Sent : IsStored(u)'
        BY <1>7, <1>8, <1>9, <3>2, <4>1 DEF StoreInv, IsStored
      <4>3. IsStored(uid)'
        BY <1>6, <1>7, <1>8, <1>9, <4>1 DEF IsStored
      <4>4. QED
        BY <1>3, <4>2, <4>3
    <3>3. QED
      BY <3>1, <3>2
  <2>5. QED
    BY <1>9, <2>1, <2>3, <2>4 DEF StoreInv
<1>12. StoreIsTruthful'
  BY <1>1, <1>6, <1>10 DEF StoreIsTruthful, IsOutcome, history
<1>13. WireInv'
  BY <1>1, <1>2, <1>3 DEF WireInv
<1>14. CPOInv' /\ PushInv'
  BY <1>1 DEF CPOInv, PushInv, IsPending, IsVerdict, queueVars, promiseVars, history
<1>15. QED
  BY <1>3, <1>11, <1>12, <1>13, <1>14

\* answerCommand: an answer is the outcome only of a command that the CPO did not accept.
LEMMA AnswerKeeps ==
  ASSUME ExchangeInv, NEW uid \in DOMAIN calls, calls[uid] = "waiting", NEW response \in Answers,
         \/ response = "ERROR"
         \/ uid \in DOMAIN replies /\ response = replies[uid],
         AnswerCommand(uid, response)
  PROVE  ExchangeInv'
<1> USE DEF ExchangeInv
<1>1. /\ calls' = [calls EXCEPT ![uid] = "over"]
      /\ UNCHANGED <<queueVars, promiseVars, wireVars, callbacks, late, history>>
  BY DEF AnswerCommand
<1>2. CallsAreTyped' /\ Sent' = Sent
  BY <1>1 DEF CallsAreTyped, Sent
<1>3. /\ store' \in Seq(Commands)
      /\ Len(store') = Len(store)
      /\ \A i \in DOMAIN store :
           /\ store'[i].uid = store[i].uid
           /\ store'[i].response = IF store[i].uid = uid THEN response ELSE store[i].response
           /\ store'[i].result =
                IF store[i].uid = uid /\ response # "ACCEPTED" /\ store[i].result = "PENDING"
                THEN response ELSE store[i].result
  BY AnsweredIs
<1>4. StoreInv'
  BY <1>2, <1>3, RewritingKeepsStoreInv
<1>5. DOMAIN store' = DOMAIN store
  BY <1>3 DEF StoreInv
<1>6. StoreIsTruthful'
  BY <1>1, <1>3, <1>5 DEF StoreIsTruthful, IsOutcome, wireVars, history
<1>7. WireInv' /\ CPOInv' /\ PushInv'
  BY <1>1, <1>2 DEF WireInv, CPOInv, PushInv, IsPending, IsVerdict,
       queueVars, promiseVars, wireVars, history
<1>8. QED
  BY <1>2, <1>4, <1>6, <1>7

\* resolveCommand: a result that is a verdict is that of its command.
LEMMA ResolvingIsTruthful ==
  ASSUME ExchangeInv, NEW push \in Pushes, IsVerdict(push), store' = Resolved(push),
         UNCHANGED <<calls, replies, callbacks, verdicts>>
  PROVE  StoreInv' /\ StoreIsTruthful'
<1> USE DEF ExchangeInv
<1>1. Sent' = Sent
  BY DEF Sent
<1>2. /\ store' \in Seq(Commands)
      /\ Len(store') = Len(store)
      /\ \A i \in DOMAIN store :
           /\ store'[i].uid = store[i].uid
           /\ store'[i].response = store[i].response
           /\ store'[i].result = IF store[i].uid = push.uid THEN push.result ELSE store[i].result
  BY ResolvedIs
<1>3. StoreInv'
  BY <1>1, <1>2, RewritingKeepsStoreInv
<1>4. DOMAIN store' = DOMAIN store
  BY <1>2 DEF StoreInv
<1>5. PICK c \in DOMAIN verdicts : push.uid = callbacks[c] /\ push.result = verdicts[c]
  BY DEF IsVerdict
<1>6. push.uid \in DOMAIN replies /\ replies[push.uid] = "ACCEPTED"
  BY <1>5 DEF CPOInv
<1>7. StoreIsTruthful'
  BY <1>2, <1>4, <1>5, <1>6 DEF StoreIsTruthful, IsOutcome
<1>8. QED
  BY <1>3, <1>7

\* The CPO answers a request that it has not answered before.
LEMMA ReplyKeeps ==
  ASSUME ExchangeInv, NEW uid, NEW response \in Refusals \cup {"ACCEPTED", "REJECTED"},
         Reply(uid, response)
  PROVE  /\ CallsAreTyped' /\ StoreInv' /\ WireInv'
         /\ uid \in Nat \ DOMAIN replies
         /\ DOMAIN replies' = DOMAIN replies \cup {uid}
         /\ replies'[uid] = response
         /\ \A u \in DOMAIN replies : replies'[u] = replies[u]
<1> USE DEF ExchangeInv
<1>1. /\ uid \in requests
      /\ requests' = requests \ {uid}
      /\ replies' = [u \in DOMAIN replies \cup {uid} |-> IF u = uid THEN response ELSE replies[u]]
      /\ UNCHANGED mockVars
  BY DEF Reply
<1>2. uid \in Sent /\ uid \notin DOMAIN replies /\ uid \in Nat
  BY <1>1 DEF WireInv, Sent, CallsAreTyped
<1>3. CallsAreTyped' /\ Sent' = Sent
  BY <1>1 DEF mockVars, CallsAreTyped, Sent
<1>4. StoreInv'
  BY <1>1, <1>3 DEF StoreInv, IsStored, mockVars
<1>5. WireInv'
  BY <1>1, <1>2, <1>3 DEF WireInv
<1>6. QED
  BY <1>1, <1>2, <1>3, <1>4, <1>5

\* What was true of a command is not touched by the answer to another.
LEMMA ReplyIsTruthful ==
  ASSUME ExchangeInv, NEW uid, uid \notin DOMAIN replies,
         UNCHANGED <<store, verdicts>>,
         DOMAIN replies' = DOMAIN replies \cup {uid},
         \A u \in DOMAIN replies : replies'[u] = replies[u],
         \A c \in DOMAIN callbacks : callbacks'[c] = callbacks[c]
  PROVE  StoreIsTruthful'
<1>1. DOMAIN verdicts \subseteq DOMAIN callbacks
  BY DEF ExchangeInv, CPOInv
<1>2. QED
  BY <1>1 DEF ExchangeInv, StoreIsTruthful, IsOutcome

\* createCommand: the command of the app is a new one of the CPO.
LEMMA NewCommandKeeps ==
  ASSUME ExchangeInv, NEW uid, NEW response \in {"ACCEPTED", "REJECTED"},
         Reply(uid, response), callbacks' = Append(callbacks, uid),
         issued' = issued + 1,
         pending' = IF response = "ACCEPTED" THEN pending \cup {issued + 1} ELSE pending
  PROVE  ExchangeInv'
<1>1. /\ CallsAreTyped' /\ StoreInv' /\ WireInv'
      /\ uid \in Nat \ DOMAIN replies
      /\ DOMAIN replies' = DOMAIN replies \cup {uid}
      /\ replies'[uid] = response
      /\ \A u \in DOMAIN replies : replies'[u] = replies[u]
  BY ReplyKeeps
<1>2. UNCHANGED <<queueVars, mockVars, late, history>>
  BY DEF Reply
<1>3. callbacks \in Seq(Nat) /\ Len(callbacks) = issued /\ issued \in Nat
  BY DEF ExchangeInv, CPOInv
<1>4. /\ callbacks' \in Seq(Nat) /\ Len(callbacks') = issued'
      /\ DOMAIN callbacks' = DOMAIN callbacks \cup {issued + 1}
      /\ issued + 1 \notin DOMAIN callbacks
      /\ callbacks'[issued + 1] = uid
      /\ \A c \in DOMAIN callbacks : callbacks'[c] = callbacks[c]
  BY <1>1, <1>3
<1>5. DOMAIN verdicts \subseteq DOMAIN callbacks
  BY DEF ExchangeInv, CPOInv
<1>6. CPOInv'
  <2>1. \A c \in DOMAIN callbacks' : callbacks'[c] \in DOMAIN replies'
    BY <1>1, <1>4 DEF ExchangeInv, CPOInv
  <2>2. \A c, d \in DOMAIN callbacks' : callbacks'[c] = callbacks'[d] => c = d
    BY <1>1, <1>4 DEF ExchangeInv, CPOInv
  <2>3. \A c \in DOMAIN callbacks : replies'[callbacks'[c]] = replies[callbacks[c]]
    BY <1>1, <1>4 DEF ExchangeInv, CPOInv
  <2>4. \A c \in pending' : IsPending(c)'
    BY <1>1, <1>2, <1>4, <1>5, <2>3 DEF ExchangeInv, CPOInv, IsPending, history
  <2>5. \A c \in DOMAIN verdicts' : replies'[callbacks'[c]] = "ACCEPTED"
    BY <1>2, <1>5, <2>3 DEF ExchangeInv, CPOInv, history
  <2>6. QED
    BY <1>2, <1>3, <1>4, <1>5, <2>1, <2>2, <2>4, <2>5 DEF ExchangeInv, CPOInv, history
<1>7. \A push : IsVerdict(push) => IsVerdict(push)'
  BY <1>2, <1>4, <1>5 DEF IsVerdict, history
<1>8. PushInv'
  BY <1>2, <1>7 DEF ExchangeInv, PushInv, queueVars
<1>9. StoreIsTruthful'
  BY <1>1, <1>2, <1>4, ReplyIsTruthful DEF mockVars, history
<1>10. QED
  BY <1>1, <1>6, <1>8, <1>9 DEF ExchangeInv

\* The CPO answers without a command.
LEMMA RefuseKeeps ==
  ASSUME ExchangeInv, NEW uid, Refuse(uid)
  PROVE  ExchangeInv'
<1>1. PICK response \in Refusals : Reply(uid, response) /\ UNCHANGED <<promiseVars, callbacks>>
  BY DEF Refuse
<1>2. /\ CallsAreTyped' /\ StoreInv' /\ WireInv'
      /\ uid \in Nat \ DOMAIN replies
      /\ DOMAIN replies' = DOMAIN replies \cup {uid}
      /\ \A u \in DOMAIN replies : replies'[u] = replies[u]
  BY <1>1, ReplyKeeps
<1>3. UNCHANGED <<queueVars, mockVars, late, history>>
  BY <1>1 DEF Reply
<1>4. \A c \in DOMAIN callbacks : replies'[callbacks[c]] = replies[callbacks[c]]
  BY <1>2 DEF ExchangeInv, CPOInv
<1>5. CPOInv'
  BY <1>1, <1>2, <1>3, <1>4 DEF ExchangeInv, CPOInv, IsPending, promiseVars, history
<1>6. PushInv'
  BY <1>1, <1>3 DEF ExchangeInv, PushInv, IsVerdict, queueVars, history
<1>7. StoreIsTruthful'
  BY <1>1, <1>2, <1>3, ReplyIsTruthful DEF mockVars, history
<1>8. QED
  BY <1>2, <1>5, <1>6, <1>7 DEF ExchangeInv

\* PublishCommandEvent: a command that was pending has its verdict, and the push says so.
LEMMA PublishKeeps ==
  ASSUME ExchangeInv, NEW c \in pending, NEW result \in CommandResults, ResultIsPublished(c, result)
  PROVE  ExchangeInv'
<1> USE DEF ExchangeInv
<1> DEFINE push == [uid |-> callbacks[c], result |-> result]
<1>1. /\ pending' = pending \ {c} /\ issued' = issued
      /\ queue' = IF IsFull THEN queue ELSE Append(queue, push)
      /\ sending' = sending
      /\ verdicts' = [d \in DOMAIN verdicts \cup {c} |-> IF d = c THEN result ELSE verdicts[d]]
      /\ UNCHANGED <<mockVars, wireVars, callbacks, late>>
  BY DEF ResultIsPublished, Answer, Enqueue
<1>2. c \in DOMAIN callbacks /\ c \notin DOMAIN verdicts /\ replies[callbacks[c]] = "ACCEPTED"
  BY DEF CPOInv, IsPending
<1>3. callbacks[c] \in Nat
  BY <1>2 DEF CPOInv
<1>4. push \in Pushes
  BY <1>3 DEF Pushes
<1>5. \A p : p = push => IsVerdict(p)'
  BY <1>1 DEF IsVerdict
<1>6. \A p : IsVerdict(p) => IsVerdict(p)'
  BY <1>1, <1>2 DEF IsVerdict
<1>7. CallsAreTyped' /\ StoreInv' /\ WireInv'
  BY <1>1 DEF CallsAreTyped, StoreInv, IsStored, WireInv, Sent, mockVars, wireVars
<1>8. CPOInv'
  BY <1>1, <1>2 DEF CPOInv, IsPending, wireVars
<1> HIDE DEF push
<1>9. PushInv'
  <2>1. CASE IsFull
    BY <1>1, <1>6, <2>1 DEF PushInv
  <2>2. CASE ~IsFull
    <3>1. queue \in Seq(Pushes)
      BY DEF PushInv
    <3>2. queue' = Append(queue, push)
      BY <1>1, <2>2
    <3>3. /\ queue' \in Seq(Pushes)
          /\ \A i \in DOMAIN queue' :
               \/ queue'[i] = push
               \/ i \in DOMAIN queue /\ queue'[i] = queue[i]
      BY <1>4, <3>1, <3>2
    <3>4. QED
      BY <1>1, <1>5, <1>6, <3>3 DEF PushInv
  <2>3. QED
    BY <2>1, <2>2
<1>10. StoreIsTruthful'
  BY <1>1, <1>2 DEF StoreIsTruthful, IsOutcome, mockVars, wireVars
<1>11. QED
  BY <1>7, <1>8, <1>9, <1>10

\* A verdict is about a command that has a number, and is one of the results.
LEMMA VerdictsArePushes ==
  ASSUME ExchangeInv, NEW push, IsVerdict(push)
  PROVE  push \in Pushes
BY DEF ExchangeInv, CPOInv, IsVerdict, Pushes

\* run takes the next push: it was a verdict, and the rest still are.
LEMMA TakeKeeps ==
  ExchangeInv /\ TakeNext => ExchangeInv'
<1> SUFFICES ASSUME ExchangeInv, TakeNext
             PROVE  ExchangeInv'
  OBVIOUS
<1> USE DEF ExchangeInv
<1>1. /\ queue # << >> /\ sending' = Head(queue) /\ queue' = Tail(queue)
      /\ UNCHANGED <<promiseVars, mockVars, wireVars, callbacks, late, history>>
  BY DEF TakeNext, Take
<1>2. CallsAreTyped' /\ StoreInv' /\ WireInv' /\ CPOInv' /\ StoreIsTruthful'
  BY <1>1 DEF CallsAreTyped, StoreInv, IsStored, WireInv, Sent, CPOInv, IsPending, StoreIsTruthful,
       promiseVars, mockVars, wireVars, history
<1>3. queue \in Seq(Pushes)
  BY DEF PushInv
<1>4. /\ sending' = queue[1] /\ 1 \in DOMAIN queue
      /\ queue' \in Seq(Pushes)
      /\ \A i \in DOMAIN queue' : i + 1 \in DOMAIN queue /\ queue'[i] = queue[i + 1]
  BY <1>1, <1>3
<1>5. \A push : IsVerdict(push)' <=> IsVerdict(push)
  BY <1>1 DEF IsVerdict, history
<1>6. PushInv'
  BY <1>1, <1>4, <1>5 DEF PushInv
<1>7. QED
  BY <1>2, <1>6

\* A push that ends, in time or not, brings its command a verdict or nothing.
LEMMA ResolvingKeeps ==
  ASSUME ExchangeInv, NEW push, IsVerdict(push), store' \in {store, Resolved(push)},
         queue' = queue, sending' \in {sending, NoPush}, late' \subseteq late \cup {push},
         UNCHANGED <<promiseVars, calls, wireVars, callbacks, verdicts>>
  PROVE  ExchangeInv'
<1> USE DEF ExchangeInv
<1>1. push \in Pushes
  BY VerdictsArePushes
<1>2. CallsAreTyped' /\ Sent' = Sent
  BY DEF CallsAreTyped, Sent
<1>3. StoreInv' /\ StoreIsTruthful'
  <2>1. CASE store' = store
    BY <1>2, <2>1 DEF StoreInv, IsStored, StoreIsTruthful, wireVars
  <2>2. CASE store' = Resolved(push)
    BY <1>1, <2>2, ResolvingIsTruthful DEF wireVars
  <2>3. QED
    BY <2>1, <2>2
<1>4. WireInv' /\ CPOInv'
  BY <1>2 DEF WireInv, CPOInv, IsPending, wireVars, promiseVars
<1>5. \A p : IsVerdict(p)' <=> IsVerdict(p)
  BY DEF IsVerdict
<1>6. PushInv'
  BY <1>5 DEF PushInv
<1>7. QED
  BY <1>2, <1>3, <1>4, <1>6

\* The steps in which a push reaches the mock, or does not.
IsDelivery(push) ==
  /\ IsVerdict(push) /\ store' \in {store, Resolved(push)}
  /\ queue' = queue /\ sending' \in {sending, NoPush} /\ late' \subseteq late \cup {push}
  /\ UNCHANGED <<promiseVars, calls, wireVars, callbacks, verdicts>>

LEMMA DeliveriesAre ==
  ASSUME ExchangeInv, Deliver \/ Fail \/ ProcessLate
  PROVE  \E push : IsDelivery(push)
<1>1. CASE Deliver
  <2>1. IsDelivery(sending)
    BY <1>1 DEF Deliver, SendEnds, IsDelivery, ExchangeInv, PushInv, history
  <2>2. QED
    BY <2>1
<1>2. CASE Fail
  <2>1. IsDelivery(sending)
    BY <1>2 DEF Fail, SendEnds, IsDelivery, ExchangeInv, PushInv
  <2>2. QED
    BY <2>1
<1>3. CASE ProcessLate
  <2>1. PICK push \in late : store' = Resolved(push) /\ late' = late \ {push}
    BY <1>3 DEF ProcessLate
  <2>2. IsDelivery(push)
    BY <1>3, <2>1 DEF ProcessLate, IsDelivery, ExchangeInv, PushInv, queueVars, history
  <2>3. QED
    BY <2>2
<1>4. QED
  BY <1>1, <1>2, <1>3

\* A request that does not arrive leaves everything else as it was.
LEMMA RequestLostKeeps ==
  ASSUME ExchangeInv, NEW uid, RequestIsLost(uid)
  PROVE  ExchangeInv'
<1> USE DEF ExchangeInv
<1>1. /\ requests' \subseteq requests
      /\ UNCHANGED <<queueVars, promiseVars, mockVars, replies, callbacks, late, history>>
  BY DEF RequestIsLost
<1>2. CallsAreTyped' /\ Sent' = Sent /\ StoreIsTruthful'
  BY <1>1 DEF CallsAreTyped, Sent, StoreIsTruthful, mockVars, history
<1>3. StoreInv'
  BY <1>1, <1>2 DEF StoreInv, IsStored, mockVars
<1>4. WireInv' /\ CPOInv'
  BY <1>1, <1>2 DEF WireInv, CPOInv, IsPending, promiseVars, history
<1>5. PushInv'
  BY <1>1 DEF PushInv, IsVerdict, queueVars, history
<1>6. QED
  BY <1>2, <1>3, <1>4, <1>5

\* AnswerArrives and CallFails are answers.
LEMMA CallEndsIsAnswer ==
  ASSUME ExchangeInv, NEW uid \in DOMAIN calls, CallEnds(uid)
  PROVE  /\ calls[uid] = "waiting"
         /\ \E response \in Answers :
              /\ \/ response = "ERROR"
                 \/ uid \in DOMAIN replies /\ response = replies[uid]
              /\ AnswerCommand(uid, response)
BY DEF ExchangeInv, WireInv, CallEnds, AnswerArrives, CallFails, Answers

LEMMA NextKeepsExchangeInv ==
  ExchangeInv /\ [Next]_vars => ExchangeInv'
<1> SUFFICES ASSUME ExchangeInv, [Next]_vars
             PROVE  ExchangeInv'
  OBVIOUS
<1>1. CASE Press
  BY <1>1, PressKeeps
<1>2. CASE PublishResult
  BY <1>2, PublishKeeps DEF PublishResult
<1>3. CASE TakeNext
  BY <1>3, TakeKeeps
<1>4. CASE Deliver \/ Fail \/ ProcessLate
  <2>1. PICK push : IsDelivery(push)
    BY <1>4, DeliveriesAre
  <2>2. QED
    BY <2>1, ResolvingKeeps DEF IsDelivery
<1>5. ASSUME NEW uid \in DOMAIN calls, Send(uid)
      PROVE  ExchangeInv'
  BY <1>5, SendKeeps
<1>6. ASSUME NEW uid \in DOMAIN calls, CallEnds(uid)
      PROVE  ExchangeInv'
  BY <1>6, CallEndsIsAnswer, AnswerKeeps
<1>7. ASSUME NEW uid, Accept(uid)
      PROVE  ExchangeInv'
  BY <1>7, NewCommandKeeps DEF Accept, AcceptNew
<1>8. ASSUME NEW uid, Reject(uid)
      PROVE  ExchangeInv'
  BY <1>8, NewCommandKeeps DEF Reject, RejectNew
<1>9. ASSUME NEW uid, Refuse(uid) \/ RequestIsLost(uid)
      PROVE  ExchangeInv'
  BY <1>9, RefuseKeeps, RequestLostKeeps
<1>10. CASE UNCHANGED vars
  BY <1>10 DEF ExchangeInv, CallsAreTyped, StoreInv, IsStored, WireInv, Sent, CPOInv, IsPending, PushInv,
       IsVerdict, StoreIsTruthful, vars, queueVars, promiseVars, mockVars, wireVars, history
<1>11. QED
  BY <1>1, <1>2, <1>3, <1>4, <1>5, <1>6, <1>7, <1>8, <1>9, <1>10 DEF Next

LEMMA InitIsInOrder == Init => ExchangeInv
BY StoreConfig DEF Init, QueueInit, PromiseInit, ExchangeInv, CallsAreTyped, StoreInv, IsStored, WireInv,
     Sent, CPOInv, IsPending, PushInv, IsVerdict, StoreIsTruthful

LEMMA ExchangeInvHolds == Spec => []ExchangeInv
BY InitIsInOrder, NextKeepsExchangeInv, PTL DEF Spec

-----------------------------------------------------------------------------
(* What the app can rely on. *)

\* Every result on its way has its command in the store, also one that is there before the answer that
\* announces it, unless newer commands have pushed it out (send: addCommand comes before SendCommand).
THEOREM ResultsFindTheirs == Spec => []ResultsFindTheirCommand
<1>1. ASSUME ExchangeInv
      PROVE  ResultsFindTheirCommand
  <2>1. \A push : IsVerdict(push) => push.uid \in Sent
    BY <1>1 DEF ExchangeInv, IsVerdict, CPOInv, WireInv
  <2>2. queue \in Seq(Pushes)
    BY <1>1 DEF ExchangeInv, PushInv
  <2>3. \A i \in DOMAIN OnTheirWay : IsVerdict(OnTheirWay[i])
    <3>1. CASE sending = NoPush
      BY <1>1, <3>1 DEF ExchangeInv, PushInv, OnTheirWay
    <3>2. CASE sending # NoPush
      <4>1. IsVerdict(sending) /\ sending \in Pushes
        BY <1>1, <3>2, VerdictsArePushes DEF ExchangeInv, PushInv
      <4>2. OnTheirWay = <<sending>> \o queue
        BY <3>2 DEF OnTheirWay
      <4> DEFINE first == <<sending>>
      <4>3. first \in Seq(Pushes) /\ Len(first) = 1 /\ first[1] = sending
        BY <4>1
      <4> HIDE DEF first
      <4>4. /\ first \o queue \in Seq(Pushes)
            /\ Len(first \o queue) = Len(first) + Len(queue)
            /\ \A i \in 1 .. Len(first) + Len(queue) :
                 (first \o queue)[i] = IF i <= Len(first) THEN first[i] ELSE queue[i - Len(first)]
        BY <2>2, <4>3, ConcatProperties, Zenon
      <4>5. \A i \in DOMAIN OnTheirWay :
              \/ OnTheirWay[i] = sending
              \/ i - 1 \in DOMAIN queue /\ OnTheirWay[i] = queue[i - 1]
        BY <2>2, <4>2, <4>3, <4>4 DEF first
      <4>6. QED
        BY <1>1, <4>1, <4>5 DEF ExchangeInv, PushInv
    <3>3. QED
      BY <3>1, <3>2
  <2>4. QED
    BY <1>1, <2>1, <2>3 DEF ExchangeInv, StoreInv, ResultsFindTheirCommand
<1>2. QED
  BY <1>1, ExchangeInvHolds, PTL

\* What the app shows as the outcome of a command is what became of it at the CPO, in whichever order
\* the answer and the result arrive (answerCommand, resolveCommand).
THEOREM StoreStaysTruthful == Spec => []StoreIsTruthful
<1>1. ExchangeInv => StoreIsTruthful
  BY DEF ExchangeInv
<1>2. QED
  BY <1>1, ExchangeInvHolds, PTL

\* What OutcomesStay says of a step.
NoOutcomeIsReplaced ==
  \A i \in DOMAIN store, j \in DOMAIN store' :
    store[i].uid = store'[j].uid /\ IsOutcome(store[i].result) => store'[j].result = store[i].result

LEMMA NextReplacesNoOutcome ==
  ExchangeInv /\ [Next]_vars => NoOutcomeIsReplaced
<1> SUFFICES ASSUME ExchangeInv, [Next]_vars
             PROVE  NoOutcomeIsReplaced
  OBVIOUS
<1>1. \A i, j \in DOMAIN store : store[i].uid = store[j].uid => i = j
  BY DEF ExchangeInv, StoreInv
<1>2. CASE store' = store
  BY <1>1, <1>2 DEF NoOutcomeIsReplaced
<1>3. ASSUME NEW uid \in DOMAIN calls, Send(uid)
      PROVE  NoOutcomeIsReplaced
  <2> DEFINE command == [uid |-> uid, response |-> "PENDING", result |-> "PENDING"]
  <2>1. store' = Stored(command) /\ uid \notin Sent /\ command.uid = uid
    BY <1>3 DEF Send, Sent
  <2>2. command \in Commands
    BY DEF Commands, Answers, ExchangeInv, CallsAreTyped
  <2> HIDE DEF command
  <2>3. store \in Seq(Commands) /\ Len(store) <= MaxStoredCommands
    BY DEF ExchangeInv, StoreInv
  <2>4. PICK k \in {0, 1} :
          /\ Len(store') = Len(store) + 1 - k
          /\ store'[Len(store) + 1 - k] = command
          /\ \A i \in 1..(Len(store) - k) : store'[i] = store[i + k]
    BY <2>1, <2>2, <2>3, StoredIs
  <2>5. store' \in Seq(Commands)
    BY <2>1, <2>2, <2>3, StoredIs
  <2>6. \A j \in DOMAIN store' :
          \/ j = Len(store') /\ store'[j] = command
          \/ j # Len(store') /\ j + k \in DOMAIN store /\ store'[j] = store[j + k]
    BY <2>3, <2>4, <2>5
  <2>7. \A i \in DOMAIN store : store[i].uid # uid
    BY <2>1 DEF ExchangeInv, StoreInv
  <2>8. QED
    BY <1>1, <2>1, <2>6, <2>7 DEF NoOutcomeIsReplaced
<1>4. ASSUME NEW uid \in DOMAIN calls, CallEnds(uid)
      PROVE  NoOutcomeIsReplaced
  <2>1. PICK response \in Answers : AnswerCommand(uid, response)
    BY <1>4, CallEndsIsAnswer
  <2>2. StoreInv
    BY DEF ExchangeInv
  <2>3. /\ store' \in Seq(Commands) /\ Len(store') = Len(store)
        /\ \A i \in DOMAIN store :
             /\ store'[i].uid = store[i].uid
             /\ store[i].result # "PENDING" => store'[i].result = store[i].result
    BY <2>1, <2>2, AnsweredIs
  <2>4. DOMAIN store' = DOMAIN store
    BY <2>2, <2>3 DEF StoreInv
  <2>5. QED
    BY <1>1, <2>3, <2>4 DEF NoOutcomeIsReplaced, IsOutcome
<1>5. CASE Deliver \/ Fail \/ ProcessLate
  <2>1. PICK push : IsDelivery(push)
    BY <1>5, DeliveriesAre
  <2>2. CASE store' = Resolved(push)
    <3>1. StoreInv /\ push \in Pushes
      BY <2>1, VerdictsArePushes DEF ExchangeInv, IsDelivery
    <3>2. /\ store' \in Seq(Commands) /\ Len(store') = Len(store)
          /\ \A i \in DOMAIN store :
               /\ store'[i].uid = store[i].uid
               /\ store'[i].result = IF store[i].uid = push.uid THEN push.result ELSE store[i].result
      BY <2>2, <3>1, ResolvedIs
    <3>3. DOMAIN store' = DOMAIN store
      BY <3>1, <3>2 DEF StoreInv
    <3>4. \A i \in DOMAIN store :
            store[i].uid = push.uid /\ IsOutcome(store[i].result) => store[i].result = push.result
      <4>1. PICK c \in DOMAIN verdicts : push.uid = callbacks[c] /\ push.result = verdicts[c]
        BY <2>1 DEF IsDelivery, IsVerdict
      <4>2. replies[push.uid] = "ACCEPTED"
        BY <4>1 DEF ExchangeInv, CPOInv
      <4>3. \A d \in DOMAIN verdicts : callbacks[d] = push.uid => d = c
        BY <4>1 DEF ExchangeInv, CPOInv
      <4>4. QED
        BY <4>1, <4>2, <4>3 DEF ExchangeInv, StoreIsTruthful
    <3>5. QED
      BY <1>1, <3>2, <3>3, <3>4 DEF NoOutcomeIsReplaced
  <2>3. QED
    BY <1>2, <2>1, <2>2 DEF IsDelivery
<1>6. CASE Press \/ PublishResult \/ TakeNext
  <2>1. store' = store
    BY <1>6 DEF Press, PublishResult, ResultIsPublished, TakeNext, mockVars
  <2>2. QED
    BY <1>2, <2>1
<1>7. ASSUME NEW uid, Accept(uid) \/ Reject(uid) \/ Refuse(uid) \/ RequestIsLost(uid)
      PROVE  NoOutcomeIsReplaced
  <2>1. store' = store
    BY <1>7 DEF Accept, Reject, Refuse, Reply, RequestIsLost, mockVars
  <2>2. QED
    BY <1>2, <2>1
<1>8. CASE UNCHANGED vars
  BY <1>2, <1>8 DEF vars, mockVars
<1>9. QED
  BY <1>3, <1>4, <1>5, <1>6, <1>7, <1>8 DEF Next

\* Neither the answer nor an error takes back a result that has arrived, nor does a second result come
\* (answerCommand, resolveCommand).
THEOREM OutcomesAreFinal == Spec => OutcomesStay
<1>1. ExchangeInv /\ [Next]_vars => [NoOutcomeIsReplaced]_vars
  BY NextReplacesNoOutcome
<1>2. Spec => [][NoOutcomeIsReplaced]_vars
  BY <1>1, ExchangeInvHolds, PTL DEF Spec
<1>3. QED
  BY <1>2 DEF OutcomesStay, NoOutcomeIsReplaced
=============================================================================
