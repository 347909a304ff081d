------------------------ MODULE MessageBrokerProofs -------------------------
(***************************************************************************)
(* Proofs about the message broker for every queue size, every number of   *)
(* consumers and every number of messages.                                 *)
(***************************************************************************)
EXTENDS MessageBroker, TLAPS

(***************************************************************************)
(* The inductive invariant. DeliveredInOrder alone is not inductive: it    *)
(* does not say that the next message a consumer begins is the next one of *)
(* the log. That follows from where the message in hand and the queued     *)
(* ones stand in the log, and from how far each consumer has got.          *)
(***************************************************************************)
QueueIsRestOfLog ==
  /\ Len(msgQueue) <= Len(accepted)
  /\ \A k \in 1..Len(msgQueue) : msgQueue[k] = accepted[Taken + k]

LogIsIncreasing ==
  /\ \A k \in 1..Len(accepted) : accepted[k] <= published
  /\ \A j, k \in 1..Len(accepted) : j < k => accepted[j] < accepted[k]

CurrentIsLastTaken ==
  loop \in {"taken", "waiting"} => Taken >= 1 /\ current = accepted[Taken]

CallsAreOfCurrent ==
  /\ loop # "waiting" => spawned = {} /\ processing = {}
  /\ \A t \in spawned \cup processing : t.msg = current /\ t.slot <= consumers
  /\ spawned \cap processing = {}

\* Whether slot i has still to begin the message in hand.
Owes(i) == loop = "taken" \/ [slot |-> i, msg |-> current] \in spawned

ProgressIsTaken ==
  \A i \in 1..consumers : Progress(i) = IF Owes(i) THEN Taken - 1 ELSE Taken

UnusedSlots == \A i \in Slots : i > consumers => seen[i] = <<>>

Inv == /\ TypeOK
       /\ QueueIsRestOfLog
       /\ LogIsIncreasing
       /\ CurrentIsLastTaken
       /\ CallsAreOfCurrent
       /\ ProgressIsTaken
       /\ UnusedSlots
       /\ DeliveredInOrder

-----------------------------------------------------------------------------
(* Init establishes the invariant.                                         *)
LEMMA InvInit == Init => Inv
  <1> SUFFICES ASSUME Init PROVE Inv
    OBVIOUS
  <1> USE SizeAssumption DEF Init
  <1>0. <<>> \in Seq(Messages)
    OBVIOUS
  <1>1. TypeOK
    <2>1. seen \in [Slots -> Seq(Messages)] /\ base \in [Slots -> Nat]
      BY <1>0
    <2>2. Len(msgQueue) <= QueueSize
      OBVIOUS
    <2>3. /\ consumers \in 0..MaxSlots /\ published \in 0..MaxPublish
          /\ spawned \subseteq Call /\ processing \subseteq Call
      OBVIOUS
    <2>4. QED
      BY <1>0, <2>1, <2>2, <2>3 DEF TypeOK
  <1>2. QueueIsRestOfLog /\ LogIsIncreasing /\ CurrentIsLastTaken
    BY DEF QueueIsRestOfLog, LogIsIncreasing, CurrentIsLastTaken, Taken
  <1>3. CallsAreOfCurrent /\ ProgressIsTaken /\ UnusedSlots /\ DeliveredInOrder
    BY DEF CallsAreOfCurrent, ProgressIsTaken, UnusedSlots, DeliveredInOrder, Slots
  <1>4. QED
    BY <1>1, <1>2, <1>3 DEF Inv

(* Publish returning true: the log and the queue grow by the same message. *)
LEMMA InvPublishAccepted == Inv /\ PublishAccepted => Inv'
  <1> SUFFICES ASSUME Inv, PublishAccepted PROVE Inv'
    OBVIOUS
  <1> USE SizeAssumption DEF Inv
  <1>0. /\ published' = published + 1 /\ published + 1 \in Messages
        /\ Len(msgQueue) < QueueSize
        /\ msgQueue' = Append(msgQueue, published + 1)
        /\ accepted' = Append(accepted, published + 1)
        /\ UNCHANGED <<consumers, loop, current, spawned, processing, ctxDone, base, seen>>
    BY DEF PublishAccepted, TypeOK, Messages
  <1>1. /\ accepted' \in Seq(Messages) /\ Len(accepted') = Len(accepted) + 1
        /\ \A k \in 1..Len(accepted) : accepted'[k] = accepted[k]
        /\ accepted'[Len(accepted) + 1] = published + 1
        /\ Len(accepted) \in Nat
        /\ \A k \in 1..Len(accepted) : accepted[k] \in Nat
    BY <1>0 DEF TypeOK, Messages
  <1>2. /\ msgQueue' \in Seq(Messages) /\ Len(msgQueue') = Len(msgQueue) + 1
        /\ \A k \in 1..Len(msgQueue) : msgQueue'[k] = msgQueue[k]
        /\ msgQueue'[Len(msgQueue) + 1] = published + 1
        /\ Len(msgQueue) \in Nat
    BY <1>0 DEF TypeOK
  <1>3. Taken' = Taken /\ Taken \in Nat /\ Taken + Len(msgQueue) = Len(accepted)
    BY <1>1, <1>2 DEF Taken, QueueIsRestOfLog
  <1>4. TypeOK'
    BY <1>0, <1>1, <1>2 DEF TypeOK, Messages
  <1>5. QueueIsRestOfLog'
    <2> SUFFICES ASSUME NEW k \in 1..(Len(msgQueue) + 1)
                 PROVE  msgQueue'[k] = accepted'[Taken + k]
      BY <1>1, <1>2, <1>3 DEF QueueIsRestOfLog
    <2>1. CASE k \in 1..Len(msgQueue)
      <3>1. Taken + k \in 1..Len(accepted)
        BY <1>1, <1>2, <1>3, <2>1
      <3>2. QED
        BY <1>1, <1>2, <2>1, <3>1 DEF QueueIsRestOfLog
    <2>2. CASE k = Len(msgQueue) + 1
      BY <1>1, <1>2, <1>3, <2>2
    <2>3. QED
      BY <1>2, <2>1, <2>2
  <1>6. LogIsIncreasing'
    <2>1. published \in Nat
      BY DEF TypeOK
    <2>2. QED
      BY SMTT(30), <1>0, <1>1, <2>1 DEF LogIsIncreasing
  <1>7. CurrentIsLastTaken'
    BY <1>0, <1>1, <1>2, <1>3 DEF CurrentIsLastTaken
  <1>8. CallsAreOfCurrent' /\ UnusedSlots'
    BY <1>0 DEF CallsAreOfCurrent, UnusedSlots
  <1>9. ProgressIsTaken'
    BY <1>0, <1>3 DEF ProgressIsTaken, Progress, Owes
  <1>10. DeliveredInOrder'
    <2> SUFFICES ASSUME NEW i \in 1..consumers, NEW k \in 1..Len(seen[i])
                 PROVE  base[i] + k <= Len(accepted') /\ seen[i][k] = accepted'[base[i] + k]
      BY <1>0 DEF DeliveredInOrder
    <2>1. i \in Slots /\ base[i] \in Nat /\ Len(seen[i]) \in Nat
      BY DEF TypeOK, Slots
    <2>2. base[i] + k <= Len(accepted) /\ seen[i][k] = accepted[base[i] + k]
      BY DEF DeliveredInOrder
    <2>3. base[i] + k \in 1..Len(accepted)
      BY <1>1, <2>1, <2>2
    <2>4. QED
      BY <1>1, <2>2, <2>3
  <1>11. QED
    BY <1>4, <1>5, <1>6, <1>7, <1>8, <1>9, <1>10

(* The loop receives the oldest message; now every consumer owes it.       *)
LEMMA InvTake == Inv /\ Take => Inv'
  <1> SUFFICES ASSUME Inv, Take PROVE Inv'
    OBVIOUS
  <1> USE SizeAssumption
  <1> USE DEF Inv, Take
  <1>0. /\ Len(msgQueue') = Len(msgQueue) - 1
        /\ Len(msgQueue) >= 1
        /\ \A k \in 1..Len(msgQueue') : msgQueue'[k] = msgQueue[k + 1]
        /\ current' = msgQueue[1]
        /\ msgQueue' \in Seq(Messages)
        /\ current' \in Messages
    BY DEF TypeOK
  <1>1. Taken' = Taken + 1 /\ Taken \in Nat /\ Taken + Len(msgQueue) = Len(accepted)
    BY <1>0 DEF Taken, TypeOK, QueueIsRestOfLog
  <1>2. TypeOK'
    BY <1>0 DEF TypeOK
  <1>3. QueueIsRestOfLog' /\ CurrentIsLastTaken'
    BY <1>0, <1>1 DEF TypeOK, QueueIsRestOfLog, CurrentIsLastTaken
  <1>4. LogIsIncreasing' /\ UnusedSlots' /\ DeliveredInOrder'
    BY DEF LogIsIncreasing, UnusedSlots, DeliveredInOrder
  <1>5. CallsAreOfCurrent'
    BY DEF CallsAreOfCurrent
  <1>6. ProgressIsTaken'
    <2> SUFFICES ASSUME NEW i \in 1..consumers
                 PROVE Progress(i)' = IF Owes(i)' THEN Taken' - 1 ELSE Taken'
      BY DEF ProgressIsTaken
    <2>1. ~ Owes(i) /\ Owes(i)'
      BY DEF Owes, CallsAreOfCurrent
    <2>2. Progress(i)' = Progress(i)
      BY DEF Progress
    <2>3. QED
      BY <1>1, <2>1, <2>2 DEF ProgressIsTaken
  <1>7. QED
    BY <1>2, <1>3, <1>4, <1>5, <1>6

(* A new slot starts after what the loop has taken, or at the message in   *)
(* hand when fanout has not read the consumers yet.                        *)
LEMMA InvSubscribe == Inv /\ Subscribe => Inv'
  <1> SUFFICES ASSUME Inv, Subscribe PROVE Inv'
    OBVIOUS
  <1> USE SizeAssumption
  <1> USE DEF Inv, Subscribe
  <1>0. /\ consumers + 1 \in Slots
        /\ Taken \in Nat
        /\ loop = "taken" => Taken >= 1
        /\ seen[consumers + 1] = <<>>
    BY DEF TypeOK, QueueIsRestOfLog, CurrentIsLastTaken, Taken, Slots, UnusedSlots
  <1>1. TypeOK'
    BY <1>0 DEF TypeOK
  <1>2. QueueIsRestOfLog' /\ LogIsIncreasing' /\ CurrentIsLastTaken'
    BY DEF QueueIsRestOfLog, LogIsIncreasing, CurrentIsLastTaken, Taken
  <1>3. CallsAreOfCurrent' /\ UnusedSlots'
    <2>1. \A t \in spawned \cup processing : t.slot \in Nat
      BY DEF TypeOK, Call, Slots
    <2>2. consumers \in Nat /\ \A i \in Slots : i \in Nat
      BY DEF TypeOK, Slots
    <2>3. QED
      BY <2>1, <2>2 DEF CallsAreOfCurrent, UnusedSlots
  <1>4. \A i \in 1..consumers : base'[i] = base[i]
    BY DEF TypeOK, Slots
  <1>5. /\ base'[consumers + 1] = IF loop = "taken" THEN Taken - 1 ELSE Taken
        /\ Len(seen[consumers + 1]) = 0
    BY <1>0 DEF TypeOK
  <1>7. ProgressIsTaken'
    <2> SUFFICES ASSUME NEW i \in 1..(consumers + 1)
                 PROVE Progress(i)' = IF Owes(i)' THEN Taken - 1 ELSE Taken
      BY DEF ProgressIsTaken, Taken
    <2>1. CASE i \in 1..consumers
      <3>1. Progress(i)' = Progress(i) /\ (Owes(i)' <=> Owes(i))
        BY <2>1, <1>4 DEF Progress, Owes
      <3>2. QED
        BY <2>1, <3>1 DEF ProgressIsTaken
    <2>2. CASE i = consumers + 1
      <3>1. Owes(i)' <=> loop = "taken"
        BY <2>2 DEF Owes, CallsAreOfCurrent, TypeOK
      <3>2. Progress(i)' = base'[i] + Len(seen[i])
        BY DEF Progress
      <3>3. QED
        BY <1>0, <1>5, <2>2, <3>1, <3>2
    <2>3. QED
      BY <2>1, <2>2 DEF TypeOK
  <1>8. DeliveredInOrder'
    <2> SUFFICES ASSUME NEW i \in 1..(consumers + 1), NEW k \in 1..Len(seen[i])
                 PROVE /\ base'[i] + k <= Len(accepted)
                       /\ seen[i][k] = accepted[base'[i] + k]
      BY DEF DeliveredInOrder
    <2>1. i \in 1..consumers
      BY <1>5 DEF TypeOK
    <2>2. QED
      BY <1>4, <2>1 DEF DeliveredInOrder
  <1>9. QED
    BY <1>1, <1>2, <1>3, <1>7, <1>8

(* fanout turns the debt of every subscribed slot into a goroutine.        *)
LEMMA InvFanout == Inv /\ Fanout => Inv'
  <1> SUFFICES ASSUME Inv, Fanout PROVE Inv'
    OBVIOUS
  <1> USE SizeAssumption
  <1> USE DEF Inv, Fanout
  <1>0. current \in Messages /\ 1..consumers \subseteq Slots
    BY DEF CurrentIsLastTaken, TypeOK, Taken, QueueIsRestOfLog, Slots
  <1>1. spawned' = {[slot |-> i, msg |-> current] : i \in 1..consumers}
    BY DEF CallsAreOfCurrent
  <1>2. TypeOK'
    BY <1>0, <1>1 DEF TypeOK, Call
  <1>3. QueueIsRestOfLog' /\ LogIsIncreasing' /\ CurrentIsLastTaken'
    BY DEF QueueIsRestOfLog, LogIsIncreasing, CurrentIsLastTaken, Taken
  <1>4. CallsAreOfCurrent'
    BY <1>1 DEF CallsAreOfCurrent, TypeOK
  <1>5. ProgressIsTaken'
    BY <1>1 DEF ProgressIsTaken, Owes, Progress, Taken
  <1>6. UnusedSlots' /\ DeliveredInOrder'
    BY DEF UnusedSlots, DeliveredInOrder
  <1>7. QED
    BY <1>2, <1>3, <1>4, <1>5, <1>6

(* A goroutine calls ProcessMessage: its slot's next message is the one in *)
(* hand, and the slot owes nothing any more.                               *)
LEMMA InvBegin == ASSUME Inv, NEW t \in spawned, Begin(t) PROVE Inv'
  <1> DEFINE s == t.slot
             n == Len(seen[s])
  <1> USE SizeAssumption DEF Inv
  <1>0. /\ t = [slot |-> s, msg |-> current] /\ t.msg = current
        /\ s \in 1..consumers /\ s \in Slots
        /\ current \in Messages
        /\ loop = "waiting"
    BY DEF CallsAreOfCurrent, TypeOK, Call, Slots
  <1>1. /\ spawned' = spawned \ {t} /\ processing' = processing \cup {t}
        /\ seen' = [seen EXCEPT ![s] = Append(@, current)]
        /\ UNCHANGED <<consumers, msgQueue, loop, current, ctxDone, published, accepted, base>>
    BY <1>0 DEF Begin
  <1>2. \A i \in 1..consumers : i \in Slots /\ base[i] \in Nat /\ Len(seen[i]) \in Nat
    BY DEF TypeOK, Slots
  <1>3. /\ Taken \in 1..Len(accepted)
        /\ current = accepted[Taken]
        /\ base[s] + n = Taken - 1
        /\ Taken \in Nat /\ base[s] \in Nat /\ n \in Nat
    BY SMTT(30), <1>0 DEF TypeOK, Taken, QueueIsRestOfLog, CurrentIsLastTaken, ProgressIsTaken,
       Progress, Owes
  <1>4. /\ Len(seen'[s]) = n + 1
        /\ seen'[s][n + 1] = current
        /\ \A k \in 1..n : seen'[s][k] = seen[s][k]
        /\ \A i \in Slots : i # s => seen'[i] = seen[i]
        /\ seen' \in [Slots -> Seq(Messages)]
    BY <1>0, <1>1 DEF TypeOK
  <1>5. TypeOK'
    BY <1>1, <1>4 DEF TypeOK
  <1>6. QueueIsRestOfLog' /\ LogIsIncreasing' /\ CurrentIsLastTaken'
    BY <1>1 DEF QueueIsRestOfLog, LogIsIncreasing, CurrentIsLastTaken, Taken
  <1>7. CallsAreOfCurrent' /\ UnusedSlots'
    BY <1>0, <1>1, <1>4 DEF CallsAreOfCurrent, UnusedSlots, TypeOK, Slots
  <1>8. ProgressIsTaken'
    <2> SUFFICES ASSUME NEW i \in 1..consumers
                 PROVE Progress(i)' = IF Owes(i)' THEN Taken - 1 ELSE Taken
      BY <1>1 DEF ProgressIsTaken, Taken
    <2>1. CASE i = s
      <3>1. ~ Owes(i)'
        BY <1>0, <1>1, <2>1 DEF Owes
      <3>2. Progress(i)' = base[s] + (n + 1)
        BY <1>1, <1>4, <2>1 DEF Progress
      <3>3. base[s] + (n + 1) = Taken
        BY <1>3
      <3>4. QED
        BY <3>1, <3>2, <3>3
    <2>2. CASE i # s
      <3>1. Owes(i)' <=> Owes(i)
        BY <1>0, <1>1, <2>2 DEF Owes
      <3>2. Progress(i)' = Progress(i)
        BY <1>1, <1>2, <1>4, <2>2 DEF Progress
      <3>3. QED
        BY <3>1, <3>2 DEF ProgressIsTaken
    <2>3. QED
      BY <2>1, <2>2
  <1>9. DeliveredInOrder'
    <2> SUFFICES ASSUME NEW i \in 1..consumers, NEW k \in 1..Len(seen'[i])
                 PROVE /\ base[i] + k <= Len(accepted)
                       /\ seen'[i][k] = accepted[base[i] + k]
      BY <1>1 DEF DeliveredInOrder
    <2>1. CASE i # s
      BY <1>2, <1>4, <2>1 DEF DeliveredInOrder
    <2>2. CASE i = s /\ k \in 1..n
      BY <1>2, <1>4, <2>2 DEF DeliveredInOrder
    <2>3. CASE i = s /\ k = n + 1
      <3>1. base[i] + k = Taken
        BY SMTT(30), <1>3, <2>3
      <3>2. QED
        BY <1>3, <1>4, <2>3, <3>1
    <2>4. QED
      BY <1>0, <1>2, <1>4, <2>1, <2>2, <2>3
  <1>10. QED
    BY <1>5, <1>6, <1>7, <1>8, <1>9

(* The other steps move no message: they change the place of a goroutine.  *)
LEMMA InvOthers ==
  ASSUME Inv,
         \/ PublishDropped \/ Start \/ Cancel \/ Stop \/ Wait
         \/ \E t \in processing : Return(t)
         \/ UNCHANGED vars
  PROVE  Inv'
  <1> USE SizeAssumption
  <1> USE DEF Inv
  <1>1. CASE PublishDropped
    <2>1. TypeOK' /\ LogIsIncreasing'
      BY <1>1 DEF PublishDropped, brokerVars, TypeOK, Messages, LogIsIncreasing
    <2>2. QED
      BY <1>1, <2>1 DEF PublishDropped, brokerVars, QueueIsRestOfLog, CurrentIsLastTaken,
         CallsAreOfCurrent, ProgressIsTaken, Progress, Owes, UnusedSlots,
         DeliveredInOrder, Taken
  <1>2. CASE Start \/ Cancel \/ Stop \/ Wait
    <2>1. TypeOK'
      BY <1>2 DEF Start, Cancel, Stop, Wait, TypeOK
    <2>2. QueueIsRestOfLog' /\ LogIsIncreasing' /\ UnusedSlots' /\ DeliveredInOrder'
      BY <1>2 DEF Start, Cancel, Stop, Wait, QueueIsRestOfLog, LogIsIncreasing,
         UnusedSlots, DeliveredInOrder, Taken
    <2>3. CallsAreOfCurrent' /\ CurrentIsLastTaken'
      BY <1>2 DEF Start, Cancel, Stop, Wait, CallsAreOfCurrent, CurrentIsLastTaken, Taken
    <2>4. ProgressIsTaken'
      BY <1>2 DEF Start, Cancel, Stop, Wait, ProgressIsTaken, Progress, Owes, Taken
    <2>5. QED
      BY <2>1, <2>2, <2>3, <2>4
  <1>3. CASE \E t \in processing : Return(t)
    <2>1. TypeOK' /\ CallsAreOfCurrent'
      BY <1>3 DEF Return, TypeOK, CallsAreOfCurrent
    <2>2. QED
      BY <1>3, <2>1 DEF Return, QueueIsRestOfLog, LogIsIncreasing, CurrentIsLastTaken,
         ProgressIsTaken, Progress, Owes, UnusedSlots, DeliveredInOrder, Taken
  <1>4. CASE UNCHANGED vars
    BY <1>4 DEF vars, brokerVars, TypeOK, QueueIsRestOfLog, LogIsIncreasing,
       CurrentIsLastTaken, CallsAreOfCurrent, ProgressIsTaken, Progress, Owes,
       UnusedSlots, DeliveredInOrder, Taken
  <1>5. QED
    BY <1>1, <1>2, <1>3, <1>4

(* Every step of the broker preserves the invariant.                       *)
LEMMA InvNext == Inv /\ [Next]_vars => Inv'
  BY InvPublishAccepted, InvTake, InvSubscribe, InvFanout, InvBegin, InvOthers
     DEF Next, Loop

(* The invariant holds in every reachable state.                           *)
THEOREM Invariant == Spec => []Inv
  BY InvInit, InvNext, PTL DEF Spec

(* Type correctness of the broker, for all constants.                      *)
THEOREM TypeCorrect == Spec => []TypeOK
  BY Invariant, PTL DEF Inv

(* Every consumer is called with exactly the accepted messages that follow *)
(* its Subscribe, in order, for every queue size and number of consumers.  *)
THEOREM InOrder == Spec => []DeliveredInOrder
  BY Invariant, PTL DEF Inv

(* fanout's wait is a barrier: no two messages are ever in processing.     *)
THEOREM Barrier == Spec => []OneMessageAtATime
  <1>1. Inv => OneMessageAtATime
    <2> SUFFICES ASSUME Inv, NEW s \in spawned \cup processing,
                        NEW t \in spawned \cup processing
                 PROVE  s.msg = t.msg /\ (s.slot = t.slot => s = t)
      BY DEF OneMessageAtATime
    <2>1. s \in Call /\ t \in Call
      BY DEF Inv, TypeOK
    <2>2. s.msg = t.msg
      BY DEF Inv, CallsAreOfCurrent
    <2>3. s = [slot |-> s.slot, msg |-> s.msg] /\ t = [slot |-> t.slot, msg |-> t.msg]
      BY <2>1 DEF Call
    <2>4. QED
      BY <2>2, <2>3
  <1>2. QED
    BY <1>1, Invariant, PTL

(* No consumer is a whole message ahead of another one.                    *)
LEMMA InvLockstep == Inv => Lockstep
  <1> SUFFICES ASSUME Inv, NEW i \in 1..consumers, NEW j \in 1..consumers
               PROVE Progress(i) <= Progress(j) + 1
    BY DEF Lockstep
  <1>1. Taken \in Int
    BY DEF Inv, TypeOK, Taken
  <1>2. QED
    BY <1>1 DEF Inv, ProgressIsTaken

(* The lockstep of the consumers, for all constants.                       *)
THEOREM InLockstep == Spec => []Lockstep
  BY InvLockstep, Invariant, PTL

-----------------------------------------------------------------------------
(* The broker implements BroadcastLog. Three kinds of step change the      *)
(* abstract state: Publish returning true, Subscribe, and the call of      *)
(* ProcessMessage; every other one is a stutter.                           *)

(* The readers that have joined are the subscribed slots.                  *)
LEMMA JoinedSlots == Inv => Log!Joined(Position) = 1..consumers
  <1> SUFFICES ASSUME Inv PROVE Log!Joined(Position) = 1..consumers
    OBVIOUS
  <1>1. consumers \in Nat /\ 1..consumers \subseteq Slots /\ Slots \subseteq Nat
    BY SizeAssumption DEF Inv, TypeOK, Slots
  <1>2. \A i \in 1..consumers : Progress(i) \in Nat
    BY <1>1 DEF Inv, TypeOK, Progress
  <1>3. ASSUME NEW i \in Slots
        PROVE  Position[i] # 0 <=> i \in 1..consumers
    <2>1. i \in 1..consumers <=> i <= consumers
      BY <1>1 DEF Slots
    <2>2. CASE i <= consumers
      BY <1>2, <2>1, <2>2 DEF Position
    <2>3. CASE ~ (i <= consumers)
      BY <2>1, <2>3 DEF Position
    <2>4. QED
      BY <2>2, <2>3
  <1>4. QED
    BY <1>1, <1>3 DEF Log!Joined

(* A slot's position is in step with every other one's: Lockstep, shifted. *)
LEMMA InStepSlots == Inv => Log!InStep(Position)
  <1> SUFFICES ASSUME Inv, NEW i \in 1..consumers, NEW j \in 1..consumers
               PROVE  Position[i] <= Position[j] + 1
    BY JoinedSlots DEF Log!InStep
  <1>1. i \in Slots /\ j \in Slots /\ i <= consumers /\ j <= consumers
    BY SizeAssumption DEF Inv, TypeOK, Slots
  <1>2. Progress(i) \in Nat /\ Progress(j) \in Nat
    BY <1>1 DEF Inv, TypeOK, Progress
  <1>3. Progress(i) <= Progress(j) + 1
    BY InvLockstep DEF Lockstep
  <1>4. QED
    BY <1>1, <1>2, <1>3 DEF Position

(* Publish returning true is Accept: the message is newer than the whole   *)
(* log, and no subscribed slot is a full queue and a message behind.       *)
LEMMA AcceptStep == Inv /\ PublishAccepted => Log!Next
  <1> SUFFICES ASSUME Inv, PublishAccepted PROVE Log!Next
    OBVIOUS
  <1>1. \A k \in 1..Len(accepted) : accepted[k] < published + 1
    <2>1. \A k \in 1..Len(accepted) : accepted[k] \in Messages
      BY DEF Inv, TypeOK
    <2>2. Messages \subseteq Nat /\ published \in Nat
      BY DEF Inv, TypeOK, Messages
    <2>3. \A k \in 1..Len(accepted) : accepted[k] \in Nat /\ accepted[k] <= published
      BY <2>1, <2>2 DEF Inv, LogIsIncreasing
    <2>4. QED
      BY <2>2, <2>3
  <1>2. ASSUME NEW i \in 1..consumers
        PROVE  Len(accepted) + 1 < Position[i] + (QueueSize + 1)
    <2>1. /\ Taken = Len(accepted) - Len(msgQueue)
          /\ Len(accepted) \in Nat /\ Len(msgQueue) \in Nat
          /\ Len(msgQueue) < QueueSize /\ QueueSize \in Nat
      BY SizeAssumption DEF Inv, TypeOK, Taken, PublishAccepted
    <2>2. i \in Slots /\ i <= consumers
      BY SizeAssumption DEF Inv, TypeOK, Slots
    <2>3. Progress(i) \in Int /\ Progress(i) >= Taken - 1
      BY <2>1 DEF Inv, ProgressIsTaken
    <2>4. QED
      BY <2>1, <2>2, <2>3 DEF Position
  <1>3. UNCHANGED Position
    BY DEF PublishAccepted, Position, Progress
  <1>4. Log!Accept(published + 1)
    BY <1>1, <1>2, <1>3, JoinedSlots DEF Log!Accept, PublishAccepted
  <1>5. published + 1 \in Messages
    BY SizeAssumption DEF PublishAccepted, Inv, TypeOK, Messages
  <1>6. QED
    BY <1>4, <1>5 DEF Log!Next

(* Subscribe is Join, at most one message behind the end of the log.       *)
LEMMA JoinStep == Inv /\ Inv' /\ Subscribe => Log!Next
  <1> SUFFICES ASSUME Inv, Inv', Subscribe PROVE Log!Next
    OBVIOUS
  <1> DEFINE r == consumers + 1
             k == base'[r] + 1
  <1>1. /\ r \in Slots /\ r \in Nat /\ consumers \in Nat
        /\ \A i \in Slots : i \in Nat
        /\ seen[r] = <<>>
    BY SizeAssumption DEF Subscribe, Inv, TypeOK, UnusedSlots, Slots
  <1>2. Position[r] = 0
    BY <1>1 DEF Position
  <1>3. k \in 1..(Len(accepted) + 1)
    <2>1. Taken \in 0..Len(accepted) /\ (loop = "taken" => Taken >= 1)
      BY DEF Inv, TypeOK, QueueIsRestOfLog, CurrentIsLastTaken, Taken
    <2>2. base'[r] = IF loop = "taken" THEN Taken - 1 ELSE Taken
      BY <1>1 DEF Subscribe, Inv, TypeOK
    <2>3. QED
      BY <2>1, <2>2
  <1>4. Position' = [Position EXCEPT ![r] = k]
    <2>1. \A i \in Slots : i # r => base'[i] = base[i]
      BY DEF Subscribe, Inv, TypeOK
    <2>2. ASSUME NEW i \in Slots
          PROVE  Position'[i] = IF i = r THEN k ELSE Position[i]
      <3>1. CASE i = r
        BY <1>1, <3>1 DEF Position, Progress, Subscribe, Inv, TypeOK
      <3>2. CASE i # r
        BY <1>1, <2>1, <3>2 DEF Position, Progress, Subscribe
      <3>3. QED
        BY <3>1, <3>2
    <2>3. QED
      BY <2>2, <1>1 DEF Position
  <1>5. Log!InStep(Position)'
    BY InStepSlots, PTL
  <1>6. Log!Join(r)
    BY <1>1, <1>2, <1>3, <1>4, <1>5 DEF Log!Join, Log!InStep, Log!Joined, Position, Subscribe
  <1>7. QED
    BY <1>1, <1>6 DEF Log!Next

(* The call of ProcessMessage is Read of the slot's next message.          *)
LEMMA ReadStep ==
  ASSUME Inv, Inv', NEW t \in spawned, Begin(t)
  PROVE  Log!Next
  <1> DEFINE r == t.slot
  <1>1. /\ r \in 1..consumers /\ r \in Slots /\ r <= consumers
        /\ loop = "waiting"
        /\ t = [slot |-> r, msg |-> current]
    BY SizeAssumption DEF Inv, TypeOK, CallsAreOfCurrent, Call, Slots
  <1>2. /\ Progress(r) = Taken - 1
        /\ Taken \in 1..Len(accepted)
    BY <1>1 DEF Inv, TypeOK, ProgressIsTaken, Owes, Taken, CurrentIsLastTaken,
       QueueIsRestOfLog
  <1>3. Position[r] \in 1..Len(accepted)
    BY <1>1, <1>2 DEF Position
  <1>4. Position' = [Position EXCEPT ![r] = @ + 1]
    <2>1. ASSUME NEW i \in Slots
          PROVE  Position'[i] = IF i = r THEN Position[r] + 1 ELSE Position[i]
      <3>1. CASE i = r
        <4>1. /\ Len(seen'[r]) = Len(seen[r]) + 1
              /\ base[r] \in Nat /\ Len(seen[r]) \in Nat
          BY <1>1 DEF Begin, Inv, TypeOK
        <4>2. Progress(r)' = Progress(r) + 1
          BY <4>1 DEF Progress, Begin
        <4>3. QED
          BY <1>1, <3>1, <4>2 DEF Position, Begin
      <3>2. CASE i # r
        BY <1>1, <3>2 DEF Position, Progress, Begin, Inv, TypeOK
      <3>3. QED
        BY <3>1, <3>2
    <2>2. QED
      BY <2>1 DEF Position
  <1>5. Log!InStep(Position)'
    BY InStepSlots, PTL
  <1>6. Log!Read(r)
    BY <1>3, <1>4, <1>5 DEF Log!Read, Log!InStep, Log!Joined, Position, Begin
  <1>7. QED
    BY <1>1, <1>6 DEF Log!Next

(* Every other step moves neither the log nor a position.                  *)
LEMMA StutterStep ==
  ASSUME Inv,
         \/ PublishDropped \/ Start \/ Cancel \/ Loop
         \/ \E t \in processing : Return(t)
         \/ UNCHANGED vars
  PROVE  UNCHANGED <<accepted, Position>>
  BY DEF PublishDropped, brokerVars, Start, Cancel, Loop, Stop, Take, Fanout, Wait,
     Return, vars, Position, Progress

(* The broker's specification implies the abstract log's: what a consumer  *)
(* sees is what a reader of one lossless, ordered log sees in lockstep     *)
(* with the others.                                                        *)
THEOREM Refinement == Spec => ImplementsLog
  <1>1. Init => Log!Init
    BY SizeAssumption DEF Init, Log!Init, Position, Slots
  <1>2. Inv /\ Inv' /\ [Next]_vars => [Log!Next]_<<accepted, Position>>
    BY AcceptStep, JoinStep, ReadStep, StutterStep DEF Next
  <1>3. QED
    BY <1>1, <1>2, Invariant, PTL DEF Spec, ImplementsLog, Log!Spec

=============================================================================
