--------------------------- MODULE MessageBroker ----------------------------
(***************************************************************************)
(* twitch/messagequeue/broker.go: a bounded queue filled by Publish and    *)
(* drained by one goroutine, which hands each message to every consumer in *)
(* parallel and waits for all of them before it takes the next one.        *)
(*                                                                         *)
(* A consumer is its position in b.consumers: Subscribe appends without    *)
(* looking for duplicates, so one that subscribes twice is two slots. A    *)
(* message is the number of the Publish call that offered it.              *)
(***************************************************************************)
EXTENDS Integers, Sequences

CONSTANTS QueueSize,    \* capacity of msgQueue
          MaxSlots,     \* bound: Subscribe calls
          MaxPublish    \* bound: Publish calls

ASSUME SizeAssumption == /\ QueueSize \in Nat \ {0}
                         /\ MaxSlots \in Nat
                         /\ MaxPublish \in Nat

Slots == 1..MaxSlots
Messages == 1..MaxPublish

VARIABLES
  consumers,   \* Len(b.consumers)
  msgQueue,    \* the channel's buffer
  loop,        \* where the goroutine of Start is
  current,     \* the message it took last (0: none yet)
  spawned,     \* goroutines of fanout that have not called ProcessMessage
  processing,  \* goroutines of fanout inside ProcessMessage
  ctxDone,     \* the context is cancelled
  published,   \* history: Publish calls so far
  accepted,    \* history: messages for which Publish returned true
  base,        \* history: how many accepted messages the slot came too late for
  seen         \* history: per slot, the messages ProcessMessage was called with

brokerVars == <<consumers, msgQueue, loop, current, spawned, processing, ctxDone>>
vars == <<brokerVars, published, accepted, base, seen>>

\* A call of ProcessMessage, made by a goroutine of fanout.
Call == [slot : Slots, msg : Messages]

\* Number of messages the loop has received from the channel.
Taken == Len(accepted) - Len(msgQueue)

Init ==
  /\ consumers = 0
  /\ msgQueue = <<>>
  /\ loop = "new"
  /\ current = 0
  /\ spawned = {}
  /\ processing = {}
  /\ ctxDone = FALSE
  /\ published = 0
  /\ accepted = <<>>
  /\ base = [i \in Slots |-> 0]
  /\ seen = [i \in Slots |-> <<>>]

-----------------------------------------------------------------------------
(* Faulty variants of the operations below, one per bug the properties     *)
(* must tell from the code. No action of Next uses them.                   *)

\* Publish without the bound of the channel.
PublishUnbounded ==
  /\ published < MaxPublish
  /\ published' = published + 1
  /\ msgQueue' = Append(msgQueue, published + 1)
  /\ accepted' = Append(accepted, published + 1)
  /\ UNCHANGED <<consumers, loop, current, spawned, processing, ctxDone, base, seen>>

\* fanout forgets the last consumer.
FanoutButLast ==
  /\ loop = "taken"
  /\ loop' = "waiting"
  /\ spawned' = spawned \cup {[slot |-> i, msg |-> current] : i \in 1..(consumers - 1)}
  /\ UNCHANGED <<consumers, msgQueue, current, processing, ctxDone,
                 published, accepted, base, seen>>

\* fanout returns without wg.Wait().
NoWait ==
  /\ loop = "waiting"
  /\ loop' = "select"
  /\ UNCHANGED <<consumers, msgQueue, current, spawned, processing, ctxDone,
                 published, accepted, base, seen>>

-----------------------------------------------------------------------------
(* The callers: the set-up code, the IRC callback, the shutdown code.      *)

Subscribe ==
  /\ consumers < MaxSlots
  /\ consumers' = consumers + 1
  /\ base' = [base EXCEPT ![consumers + 1] =
                IF loop = "taken" THEN Taken - 1 ELSE Taken]
  /\ UNCHANGED <<msgQueue, loop, current, spawned, processing, ctxDone,
                 published, accepted, seen>>

\* The first case of the select: there is room in the channel.
PublishAccepted ==
  /\ published < MaxPublish
  /\ Len(msgQueue) < QueueSize
  /\ published' = published + 1
  /\ msgQueue' = Append(msgQueue, published + 1)
  /\ accepted' = Append(accepted, published + 1)
  /\ UNCHANGED <<consumers, loop, current, spawned, processing, ctxDone, base, seen>>

\* The default case: the message is dropped and Publish returns false.
PublishDropped ==
  /\ published < MaxPublish
  /\ ~ (Len(msgQueue) < QueueSize)
  /\ published' = published + 1
  /\ UNCHANGED <<brokerVars, accepted, base, seen>>

Start ==
  /\ loop = "new"
  /\ loop' = "select"
  /\ UNCHANGED <<consumers, msgQueue, current, spawned, processing, ctxDone,
                 published, accepted, base, seen>>

\* Whoever gave Start its context may cancel it; the bot never does.
Cancel ==
  /\ ~ ctxDone
  /\ ctxDone' = TRUE
  /\ UNCHANGED <<consumers, msgQueue, loop, current, spawned, processing,
                 published, accepted, base, seen>>

-----------------------------------------------------------------------------
(* The goroutine of Start. With both cases ready, select takes either.     *)

Stop ==
  /\ loop = "select"
  /\ ctxDone
  /\ loop' = "stopped"
  /\ UNCHANGED <<consumers, msgQueue, current, spawned, processing, ctxDone,
                 published, accepted, base, seen>>

Take ==
  /\ loop = "select"
  /\ msgQueue # <<>>
  /\ loop' = "taken"
  /\ current' = Head(msgQueue)
  /\ msgQueue' = Tail(msgQueue)
  /\ UNCHANGED <<consumers, spawned, processing, ctxDone,
                 published, accepted, base, seen>>

\* fanout: read the consumers under the read lock, one goroutine for each.
Fanout ==
  /\ loop = "taken"
  /\ loop' = "waiting"
  /\ spawned' = spawned \cup {[slot |-> i, msg |-> current] : i \in 1..consumers}
  /\ UNCHANGED <<consumers, msgQueue, current, processing, ctxDone,
                 published, accepted, base, seen>>

\* wg.Wait() returns once every goroutine of this fanout has returned.
Wait ==
  /\ loop = "waiting"
  /\ spawned = {} /\ processing = {}
  /\ loop' = "select"
  /\ UNCHANGED <<consumers, msgQueue, current, spawned, processing, ctxDone,
                 published, accepted, base, seen>>

-----------------------------------------------------------------------------
(* The goroutines of fanout.                                               *)

Begin(t) ==
  /\ t \in spawned
  /\ spawned' = spawned \ {t}
  /\ processing' = processing \cup {t}
  /\ seen' = [seen EXCEPT ![t.slot] = Append(@, t.msg)]
  /\ UNCHANGED <<consumers, msgQueue, loop, current, ctxDone, published, accepted, base>>

Return(t) ==
  /\ t \in processing
  /\ processing' = processing \ {t}
  /\ UNCHANGED <<consumers, msgQueue, loop, current, spawned, ctxDone,
                 published, accepted, base, seen>>

-----------------------------------------------------------------------------
Loop == Stop \/ Take \/ Fanout \/ Wait

Next ==
  \/ Subscribe \/ PublishAccepted \/ PublishDropped \/ Start \/ Cancel
  \/ Loop
  \/ \E t \in spawned : Begin(t)
  \/ \E t \in processing : Return(t)

Spec == Init /\ [][Next]_vars

(***************************************************************************)
(* The scheduler runs every goroutine that can run, and ProcessMessage     *)
(* returns: its network calls fail or answer.                              *)
(***************************************************************************)
Fairness ==
  /\ WF_vars(Loop)
  /\ WF_vars(\E t \in spawned : Begin(t))
  /\ WF_vars(\E t \in processing : Return(t))

FairSpec == Spec /\ Fairness

-----------------------------------------------------------------------------
(* Every variable has its type: broker.go's channel never holds more than  *)
(* its capacity, and only subscribed slots have goroutines.                *)
TypeOK ==
  /\ consumers \in 0..MaxSlots
  /\ msgQueue \in Seq(Messages) /\ Len(msgQueue) <= QueueSize
  /\ loop \in {"new", "select", "taken", "waiting", "stopped"}
  /\ current \in Messages \cup {0}
  /\ spawned \subseteq Call /\ processing \subseteq Call
  /\ ctxDone \in BOOLEAN
  /\ published \in 0..MaxPublish
  /\ accepted \in Seq(Messages)
  /\ base \in [Slots -> Nat]
  /\ seen \in [Slots -> Seq(Messages)]

(* The wait at the end of fanout is a barrier: this broker never runs, or  *)
(* is about to run, ProcessMessage for two different messages. It says     *)
(* nothing of other callers: the FAQ processor is also called by the       *)
(* broker of a later connection and by HandleChat (see FAQService).        *)
OneMessageAtATime ==
  \A s, t \in spawned \cup processing : s.msg = t.msg /\ (s.slot = t.slot => s = t)

(* A consumer is called with exactly the accepted messages that follow its *)
(* Subscribe, in the order they were accepted: none skipped, none twice,   *)
(* none out of order, whatever Publish drops and whoever else subscribes.  *)
DeliveredInOrder ==
  \A i \in 1..consumers : \A k \in 1..Len(seen[i]) :
    /\ base[i] + k <= Len(accepted)
    /\ seen[i][k] = accepted[base[i] + k]

(* The slowest consumer holds back every other one: none is ever a whole   *)
(* message ahead of what another has begun.                                *)
Progress(i) == base[i] + Len(seen[i])
Lockstep ==
  \A i, j \in 1..consumers : Progress(i) <= Progress(j) + 1

(* The broker implements the abstract log: Publish returning true is the   *)
(* moment a message is accepted, the call of ProcessMessage is the moment  *)
(* a reader reads it, and the log is at most the queue and the message in  *)
(* hand ahead of any consumer.                                             *)
Position == [i \in Slots |-> IF i <= consumers THEN Progress(i) + 1 ELSE 0]
Log == INSTANCE BroadcastLog
         WITH Readers <- Slots, Lag <- QueueSize + 1,
              log <- accepted, position <- Position
ImplementsLog == Log!Spec

(* Publish returning true is a promise: once the loop runs, every consumer *)
(* subscribed by then is called with the message, unless the bot is being  *)
(* shut down.                                                              *)
AcceptedIsDelivered ==
  \A i \in Slots : \A n \in 1..MaxPublish :
    (loop # "new" /\ i <= consumers /\ base[i] < n /\ n <= Len(accepted))
      ~> (ctxDone \/ Progress(i) >= n)

=============================================================================
