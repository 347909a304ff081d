----------------------- MODULE ModerationMonitorProofs ----------------------
(***************************************************************************)
(* Proofs about the moderation monitors, for every set of lines, tools and *)
(* configurations, every capacity and limit, and however many connections  *)
(* and messages there are.                                                 *)
(***************************************************************************)
EXTENDS ModerationMonitor, TLAPS

Working == {"evaluating", "acting", "logging"}

\* Message id went to monitor m, and needed evaluation.
Sent(id, m) == id \in 1..Len(arrived) /\ arrived[id].to = m
Judged(id, m) == Sent(id, m) /\ arrived[id].suspect /\ arrived[id].user \notin Bots

\* All that waits for monitor m came after message id.
Before(id, m) == \A i \in 1..Len(messageCh[m]) : id < messageCh[m][i]

PermittedTool(tool) ==
  tool \in Executable /\ IsToolAllowed(tool) /\ ~ config.dryRun

(***************************************************************************)
(* The inductive invariant: where a message stands. It waits in the        *)
(* channel of its monitor, in the order of arrival; then it is in the      *)
(* monitor's hand; and what was done for it lies behind both, but for the  *)
(* action that waits for its row.                                          *)
(***************************************************************************)
Queued ==
  \A m \in Monitors : \A i \in 1..Len(messageCh[m]) :
    /\ Sent(messageCh[m][i], m)
    /\ \A j \in 1..(i - 1) : messageCh[m][j] < messageCh[m][i]

InHand ==
  \A m \in Monitors :
    /\ pc[m] \in Working => Judged(msg[m], m) /\ Before(msg[m], m)
    /\ pc[m] = "acting" => PermittedTool(decision[m].tool)

ActsBehind ==
  \A a \in applied :
    /\ a.by \in Monitors
    /\ Judged(a.msg, a.by) /\ Before(a.msg, a.by) /\ PermittedTool(a.tool)
    /\ pc[a.by] \in Working /\ msg[a.by] = a.msg =>
         /\ pc[a.by] = "logging"
         /\ a.tool = decision[a.by].tool
         /\ a.tool \in NeedUserID => targetUserID[a.by] = a.target

ActsOnce == \A a, b \in applied : a.msg = b.msg => a = b

Inv == TypeOK /\ Queued /\ InHand /\ ActsBehind /\ ActsOnce /\ ActsAreAudited

-----------------------------------------------------------------------------
(* Types.                                                                  *)

LEMMA TypeInit == Init => TypeOK
  <1>1. <<>> \in Seq(Id) /\ <<>> \in Seq(Message) /\ Len(<<>>) = 0
        /\ <<>> \in Seq([at : 0..MaxTime, window : 0..MaxTime])
    OBVIOUS
  <1> QED
    BY <1>1, BoundAssumption DEF Init, TypeOK, Places, Monitors

\* The target of an action is a user, and the fields of a message have types.
LEMMA TargetType ==
  ASSUME TypeOK, InHand, NEW m \in Monitors, pc[m] = "acting"
  PROVE  Target(m) \in Named \cup {line.user : line \in Chat}
  <1>1. CASE decision[m].tool \in OnNamed
    <2>1. decision[m] \in Decision
      BY <1>1 DEF TypeOK, OnNamed, NoDecision
    <2> QED
      BY <1>1, <2>1 DEF Target, Decision
  <1>2. CASE decision[m].tool \notin OnNamed
    <2>1. msg[m] \in 1..Len(arrived)
      BY DEF InHand, Working, Judged, Sent
    <2>2. arrived[msg[m]] \in Message
      BY <2>1 DEF TypeOK
    <2>3. PICK line \in Chat : arrived[msg[m]].user = line.user
      <3>1. PICK line \in Chat, k \in 0..MaxConnections :
              arrived[msg[m]] = [user |-> line.user, suspect |-> line.suspect, to |-> k]
        BY <2>2 DEF Message
      <3>2. arrived[msg[m]].user = line.user
        BY <3>1
      <3> QED
        BY <3>2
    <2> QED
      BY <1>2, <2>3 DEF Target, Sender
  <1> QED
    BY <1>1, <1>2

\* The limiter's variables keep their types in a call that is granted or not.
LEMMA LimiterTypes ==
  ASSUME TypeOK, NEW m \in Monitors, Granted(m) \/ Refused(m)
  PROVE  /\ now' = now
         /\ actionCount' \in [Monitors -> 0..Limit]
         /\ lastResetTime' \in [Monitors -> 0..MaxTime]
         /\ grants' \in [Monitors -> Seq([at : 0..MaxTime, window : 0..MaxTime])]
         /\ \A n \in Monitors : lastResetTime'[n] <= now
  <1>0. /\ now \in 0..MaxTime /\ now <= now
        /\ actionCount[m] \in 0..Limit /\ lastResetTime[m] \in 0..MaxTime
        /\ lastResetTime[m] <= now
    BY BoundAssumption DEF TypeOK
  <1>1. Count(m) \in 0..Limit /\ Window(m) \in 0..MaxTime /\ Window(m) <= now
    BY <1>0, BoundAssumption DEF Count, Window
  <1>2. lastResetTime' = [lastResetTime EXCEPT ![m] = Window(m)] /\ now' = now
    BY DEF Granted, Refused
  <1>3. CASE Granted(m)
    <2>1. Count(m) + 1 \in 0..Limit
      BY <1>1, <1>3, BoundAssumption DEF Granted
    <2>2. [at |-> now, window |-> Window(m)] \in [at : 0..MaxTime, window : 0..MaxTime]
      BY <1>0, <1>1
    <2>3. actionCount' \in [Monitors -> 0..Limit]
      BY <1>3, <2>1 DEF Granted, TypeOK
    <2>4. /\ lastResetTime' \in [Monitors -> 0..MaxTime]
          /\ \A n \in Monitors : lastResetTime'[n] <= now
      BY <1>1, <1>2 DEF TypeOK
    <2>5. grants' \in [Monitors -> Seq([at : 0..MaxTime, window : 0..MaxTime])]
      <3> DEFINE G == [at : 0..MaxTime, window : 0..MaxTime]
      <3>1. Append(grants[m], [at |-> now, window |-> Window(m)]) \in Seq(G)
        <4>1. grants[m] \in Seq(G)
          BY DEF TypeOK
        <4> HIDE DEF G
        <4> QED
          BY <2>2, <4>1 DEF G
      <3> QED
        BY <1>3, <3>1 DEF Granted, TypeOK
    <2> QED
      BY <1>2, <2>3, <2>4, <2>5
  <1>4. CASE Refused(m)
    BY <1>1, <1>2, <1>4 DEF Refused, TypeOK
  <1> QED
    BY <1>3, <1>4

\* The channel and the history keep their types and bounds.
LEMMA ReceiveTypes ==
  ASSUME TypeOK, NEW m \in Monitors, NEW id \in Id, Receive(m, id)
  PROVE  /\ messageCh' \in [Monitors -> Seq(Id)]
         /\ \A n \in Monitors : Len(messageCh'[n]) <= Capacity
         /\ AddRecent(m, id) =>
              /\ recentMsgs' \in [Monitors -> Seq(Id)]
              /\ \A n \in Monitors : Len(recentMsgs'[n]) <= MaxRecent
  <1>0. /\ messageCh' = [messageCh EXCEPT ![m] = Tail(messageCh[m])]
        /\ messageCh[m] # <<>>
    BY DEF Receive
  <1>1. messageCh[m] \in Seq(Id) /\ recentMsgs[m] \in Seq(Id)
    BY DEF TypeOK
  <1>2. /\ Tail(messageCh[m]) \in Seq(Id)
        /\ Len(messageCh[m]) \in Nat /\ Len(Tail(messageCh[m])) = Len(messageCh[m]) - 1
    BY <1>0, <1>1
  <1>3. \A n \in Monitors : Len(messageCh[n]) <= Capacity /\ Len(recentMsgs[n]) <= MaxRecent
    BY DEF TypeOK
  <1>4. Len(Tail(messageCh[m])) <= Capacity
    BY <1>2, <1>3, BoundAssumption
  <1>5. /\ messageCh' \in [Monitors -> Seq(Id)]
        /\ \A n \in Monitors : Len(messageCh'[n]) <= Capacity
    BY <1>0, <1>2, <1>3, <1>4 DEF TypeOK
  <1>6. ASSUME AddRecent(m, id)
        PROVE  /\ recentMsgs' \in [Monitors -> Seq(Id)]
               /\ \A n \in Monitors : Len(recentMsgs'[n]) <= MaxRecent
    <2> DEFINE kept == IF Len(recentMsgs[m]) >= MaxRecent THEN Tail(recentMsgs[m])
                       ELSE recentMsgs[m]
               s == Append(kept, id)
    <2>1. kept \in Seq(Id) /\ Len(kept) + 1 <= MaxRecent
      <3>1. CASE Len(recentMsgs[m]) >= MaxRecent
        <4>1. recentMsgs[m] # <<>>
          BY <1>1, <3>1, BoundAssumption
        <4>2. /\ Tail(recentMsgs[m]) \in Seq(Id)
              /\ Len(Tail(recentMsgs[m])) = Len(recentMsgs[m]) - 1
              /\ Len(recentMsgs[m]) \in Nat
          BY <1>1, <4>1
        <4> QED
          BY <1>3, <3>1, <4>2, BoundAssumption
      <3>2. CASE ~ (Len(recentMsgs[m]) >= MaxRecent)
        <4>1. Len(recentMsgs[m]) \in Nat
          BY <1>1
        <4> QED
          BY <1>1, <3>2, <4>1, BoundAssumption
      <3> QED
        BY <3>1, <3>2
    <2> HIDE DEF kept
    <2>2. s \in Seq(Id) /\ Len(s) = Len(kept) + 1
      BY <2>1
    <2>3. recentMsgs' = [recentMsgs EXCEPT ![m] = s]
      BY <1>6 DEF AddRecent, kept
    <2> HIDE DEF s
    <2> QED
      BY <1>3, <2>1, <2>2, <2>3 DEF TypeOK
  <1> QED
    BY <1>5, <1>6

LEMMA TypeNext == TypeOK /\ InHand /\ [Next]_vars => TypeOK'
  <1> SUFFICES ASSUME TypeOK, InHand, [Next]_vars PROVE TypeOK'
    OBVIOUS
  <1> USE BoundAssumption
  <1>1. CASE Connect
    <2>0. /\ connections < MaxConnections /\ connections' = connections + 1
          /\ pc' = [pc EXCEPT ![connections + 1] = "select"]
          /\ lastResetTime' = [lastResetTime EXCEPT ![connections + 1] = now]
          /\ UNCHANGED <<config, arrived, now, actionCount, grants, log, messageCh,
                         recentMsgs, msg, decision, targetUserID, success>>
      BY <1>1 DEF Connect
    <2>1. connections \in Nat /\ connections' \in 0..MaxConnections /\ connections' \in Monitors
      BY <2>0 DEF TypeOK, Monitors
    <2>2. ASSUME NEW m \in Monitors PROVE pc'[m] = "new" <=> m > connections'
      <3>1. pc'[m] = IF m = connections + 1 THEN "select" ELSE pc[m]
        BY <2>0 DEF TypeOK
      <3>2. pc[m] = "new" <=> m > connections
        BY DEF TypeOK
      <3>3. m \in Nat
        BY DEF Monitors
      <3>4. connections' = connections + 1
        BY <2>0
      <3>5. m = connections + 1 => ~ (m > connections + 1)
        BY <2>1, <3>3
      <3>6. m # connections + 1 => (m > connections <=> m > connections + 1)
        BY <2>1, <3>3
      <3> QED
        BY <3>1, <3>2, <3>4, <3>5, <3>6
    <2>3. pc' \in [Monitors -> Places]
      BY <2>0 DEF TypeOK, Places
    <2>4. /\ lastResetTime' \in [Monitors -> 0..MaxTime]
          /\ \A m \in Monitors : lastResetTime'[m] <= now'
      <3>1. now \in 0..MaxTime /\ now' = now /\ now <= now
        BY <2>0 DEF TypeOK
      <3> QED
        BY <2>0, <3>1 DEF TypeOK
    <2> QED
      BY <2>0, <2>1, <2>2, <2>3, <2>4 DEF TypeOK, log
  <1>2. CASE Tick
    <2>0. /\ now < MaxTime /\ now' = now + 1
          /\ UNCHANGED <<twitch, actionCount, lastResetTime, grants, log, goroutine>>
      BY <1>2 DEF Tick
    <2>1. now' \in 0..MaxTime /\ \A m \in Monitors : lastResetTime[m] <= now'
      BY <2>0 DEF TypeOK
    <2> QED
      BY <2>0, <2>1 DEF TypeOK, twitch, log, goroutine
  <1>3. ASSUME NEW line \in Chat, OnPrivateMessage(line) PROVE TypeOK'
    <2> DEFINE id == Len(arrived) + 1
               room == Len(messageCh[connections]) < Capacity
               x == [user |-> line.user, suspect |-> line.suspect,
                     to |-> IF room THEN connections ELSE 0]
    <2>0. /\ connections > 0 /\ Len(arrived) < MaxMessages
          /\ arrived' = Append(arrived, x)
          /\ messageCh' = IF room THEN [messageCh EXCEPT ![connections] = Append(@, id)]
                          ELSE messageCh
          /\ UNCHANGED <<config, connections, limiter, log,
                         recentMsgs, pc, msg, decision, targetUserID, success>>
      BY <1>3 DEF OnPrivateMessage
    <2>1. connections \in Monitors /\ id \in Id
      <3>1. connections \in 0..MaxConnections /\ Len(arrived) \in Nat
        BY DEF TypeOK
      <3> QED
        BY <2>0, <3>1 DEF Monitors, Id
    <2>2. x \in Message
      BY DEF TypeOK, Message
    <2>3. arrived' \in Seq(Message)
      BY <2>0, <2>2 DEF TypeOK
    <2>4. messageCh[connections] \in Seq(Id)
      BY <2>1 DEF TypeOK
    <2>5. /\ Append(messageCh[connections], id) \in Seq(Id)
          /\ Len(Append(messageCh[connections], id)) = Len(messageCh[connections]) + 1
          /\ Len(messageCh[connections]) \in Nat
      BY <2>1, <2>4
    <2> HIDE DEF id
    <2>6. /\ messageCh' \in [Monitors -> Seq(Id)]
          /\ \A m \in Monitors : Len(messageCh'[m]) <= Capacity
      <3>1. CASE room
        <4>1. Len(Append(messageCh[connections], id)) <= Capacity
          BY <2>5, <3>1
        <4> QED
          BY <2>0, <2>1, <2>5, <3>1, <4>1 DEF TypeOK
      <3>2. CASE ~ room
        BY <2>0, <3>2 DEF TypeOK
      <3> QED
        BY <3>1, <3>2
    <2> QED
      BY <2>0, <2>3, <2>6 DEF TypeOK, limiter, log
  <1>4. ASSUME NEW m \in Monitors, NEW id \in Id,
               SkipUser(m, id) \/ Pass(m, id) \/ Evaluate(m, id)
        PROVE  TypeOK'
    <2>0. /\ Receive(m, id) /\ pc[m] = "select"
          /\ UNCHANGED <<twitch, limiter, log, decision, targetUserID, success>>
      BY <1>4 DEF SkipUser, Pass, Evaluate, Receive
    <2>1. /\ messageCh' \in [Monitors -> Seq(Id)]
          /\ \A n \in Monitors : Len(messageCh'[n]) <= Capacity
      BY <2>0, ReceiveTypes
    <2>2. /\ recentMsgs' \in [Monitors -> Seq(Id)]
          /\ \A n \in Monitors : Len(recentMsgs'[n]) <= MaxRecent
      <3>1. AddRecent(m, id) \/ recentMsgs' = recentMsgs
        BY <1>4 DEF SkipUser, Pass, Evaluate
      <3> QED
        BY <2>0, <3>1, ReceiveTypes DEF TypeOK
    <2>3. /\ pc' \in [Monitors -> Places] /\ msg' \in [Monitors -> {0} \cup Id]
          /\ \A n \in Monitors : pc'[n] = "new" <=> pc[n] = "new"
      <3>1. CASE UNCHANGED <<pc, msg>>
        BY <3>1 DEF TypeOK
      <3>2. CASE Evaluate(m, id)
        BY <2>0, <3>2 DEF Evaluate, Goto, TypeOK, Places
      <3> QED
        BY <1>4, <3>1, <3>2 DEF SkipUser, Pass
    <2> QED
      BY <2>0, <2>1, <2>2, <2>3 DEF TypeOK, twitch, limiter, log
  <1>5. ASSUME NEW m \in Monitors, LLMFails(m) PROVE TypeOK'
    BY <1>5 DEF LLMFails, Return, Goto, TypeOK, Places, twitch, limiter, log
  <1>6. ASSUME NEW m \in Monitors, NEW d \in Decision, NoAction(m, d) PROVE TypeOK'
    BY <1>6 DEF NoAction, Answer, ToLog, Goto, TypeOK, Places, twitch, limiter, log
  <1>7. ASSUME NEW m \in Monitors, NEW d \in Decision,
               RateLimited(m, d) \/ NotAllowed(m, d) \/ Unknown(m, d)
        PROVE  TypeOK'
    <2>0. /\ pc[m] = "evaluating" /\ Return(m) /\ (Granted(m) \/ Refused(m))
          /\ UNCHANGED <<twitch, log, messageCh, recentMsgs>>
      BY <1>7 DEF RateLimited, NotAllowed, Unknown, Answer
    <2>1. /\ now' = now
          /\ actionCount' \in [Monitors -> 0..Limit]
          /\ lastResetTime' \in [Monitors -> 0..MaxTime]
          /\ grants' \in [Monitors -> Seq([at : 0..MaxTime, window : 0..MaxTime])]
          /\ \A n \in Monitors : lastResetTime'[n] <= now
      BY <2>0, LimiterTypes
    <2> QED
      BY <2>0, <2>1 DEF Return, Goto, TypeOK, Places, twitch, log
  <1>8. ASSUME NEW m \in Monitors, NEW d \in Decision, DryRun(m, d) \/ Permit(m, d)
        PROVE  TypeOK'
    <2>0. /\ pc[m] = "evaluating" /\ (Granted(m) \/ Refused(m))
          /\ UNCHANGED <<twitch, log, messageCh, recentMsgs, msg, targetUserID>>
      BY <1>8 DEF DryRun, Permit, ToLog, Answer
    <2>1. /\ now' = now
          /\ actionCount' \in [Monitors -> 0..Limit]
          /\ lastResetTime' \in [Monitors -> 0..MaxTime]
          /\ grants' \in [Monitors -> Seq([at : 0..MaxTime, window : 0..MaxTime])]
          /\ \A n \in Monitors : lastResetTime'[n] <= now
      BY <2>0, LimiterTypes
    <2>2. /\ decision' = [decision EXCEPT ![m] = d]
          /\ \E place \in {"acting", "logging"} : pc' = [pc EXCEPT ![m] = place]
          /\ success' = [success EXCEPT ![m] = TRUE] \/ success' = success
      BY <1>8 DEF DryRun, Permit, ToLog, Goto
    <2>3. /\ pc' \in [Monitors -> Places]
          /\ \A n \in Monitors : pc'[n] = "new" <=> pc[n] = "new"
      BY <2>0, <2>2 DEF TypeOK, Places
    <2>4. /\ decision' \in [Monitors -> Decision \cup {NoDecision}]
          /\ success' \in [Monitors -> BOOLEAN]
      BY <2>2 DEF TypeOK
    <2> QED
      BY <2>0, <2>1, <2>3, <2>4 DEF TypeOK, twitch, log
  <1>9. ASSUME NEW m \in Monitors, Warn(m) \/ LookUpFails(m) PROVE TypeOK'
    <2>0. /\ pc[m] = "acting" /\ pc' = [pc EXCEPT ![m] = "logging"]
          /\ success' = [success EXCEPT ![m] = TRUE] \/ success' = success
          /\ UNCHANGED <<twitch, limiter, lost, messageCh, recentMsgs, msg, decision,
                         targetUserID>>
      BY <1>9 DEF Warn, LookUpFails, Goto, log
    <2>1. /\ pc' \in [Monitors -> Places] /\ success' \in [Monitors -> BOOLEAN]
          /\ \A n \in Monitors : pc'[n] = "new" <=> pc[n] = "new"
      BY <2>0 DEF TypeOK, Places
    <2> QED
      BY <2>0, <2>1 DEF TypeOK, twitch, limiter
  <1>10. ASSUME NEW m \in Monitors, CallHelix(m) PROVE TypeOK'
    <2>1. /\ targetUserID' \in [Monitors -> Named \cup {line.user : line \in Chat} \cup {Nobody}]
          /\ success' \in [Monitors -> BOOLEAN] /\ pc' \in [Monitors -> Places]
          /\ \A n \in Monitors : pc'[n] = "new" <=> pc[n] = "new"
      BY <1>10, TargetType DEF CallHelix, TypeOK, Goto, Places
    <2> QED
      BY <1>10, <2>1 DEF CallHelix, TypeOK, twitch, limiter
  <1>11. ASSUME NEW m \in Monitors, LogModAction(m) PROVE TypeOK'
    <2>1. msg[m] \in Id
      BY <1>11 DEF LogModAction, InHand, Working, Judged, Sent, TypeOK, Id
    <2> QED
      BY <1>11, <2>1 DEF LogModAction, Return, Goto, TypeOK, Places, twitch, limiter
  <1>12. CASE UNCHANGED vars
    BY <1>12 DEF vars, TypeOK, twitch, limiter, log, goroutine
  <1> QED
    BY <1>1, <1>2, <1>3, <1>4, <1>5, <1>6, <1>7, <1>8, <1>9, <1>10, <1>11, <1>12
       DEF Next, Step

-----------------------------------------------------------------------------
(* The standing of messages.                                               *)

\* How a step moves the history of messages and the channels: not at all, by
\* one message that arrives, or by one that a monitor takes.
LEMMA Movement ==
  ASSUME [Next]_vars
  PROVE  /\ config' = config
         /\ \/ UNCHANGED <<arrived, messageCh>>
            \/ \E line \in Chat : OnPrivateMessage(line)
            \/ \E m \in Monitors : \E id \in Id : Receive(m, id)
  <1>1. CASE Connect \/ Tick
    BY <1>1 DEF Connect, Tick, twitch, goroutine
  <1>2. CASE \E line \in Chat : OnPrivateMessage(line)
    BY <1>2 DEF OnPrivateMessage
  <1>3. ASSUME NEW m \in Monitors, NEW id \in Id,
               SkipUser(m, id) \/ Pass(m, id) \/ Evaluate(m, id)
        PROVE  Receive(m, id) /\ config' = config
    BY <1>3 DEF SkipUser, Pass, Evaluate, Receive, twitch
  <1>4. ASSUME NEW m \in Monitors,
               \/ LLMFails(m) \/ Warn(m) \/ LookUpFails(m) \/ CallHelix(m) \/ LogModAction(m)
        PROVE  UNCHANGED <<config, arrived, messageCh>>
    BY <1>4 DEF LLMFails, Warn, LookUpFails, CallHelix, LogModAction, twitch
  <1>5. ASSUME NEW m \in Monitors, NEW d \in Decision,
               \/ NoAction(m, d) \/ RateLimited(m, d) \/ NotAllowed(m, d)
               \/ DryRun(m, d) \/ Unknown(m, d) \/ Permit(m, d)
        PROVE  UNCHANGED <<config, arrived, messageCh>>
    BY <1>5 DEF NoAction, RateLimited, NotAllowed, DryRun, Unknown, Permit, Answer, twitch
  <1>6. CASE UNCHANGED vars
    BY <1>6 DEF vars, twitch, goroutine
  <1> QED
    BY <1>1, <1>2, <1>3, <1>4, <1>5, <1>6 DEF Next, Step

\* What a message that arrives does to the history and to the channels.
LEMMA Arrival ==
  ASSUME TypeOK, NEW line \in Chat, OnPrivateMessage(line)
  PROVE  /\ Len(arrived) \in Nat /\ Len(arrived') = Len(arrived) + 1
         /\ \A i \in 1..Len(arrived) : arrived'[i] = arrived[i]
         /\ \/ messageCh' = messageCh
            \/ /\ connections \in Monitors
               /\ arrived'[Len(arrived) + 1].to = connections
               /\ messageCh' = [messageCh EXCEPT
                    ![connections] = Append(messageCh[connections], Len(arrived) + 1)]
  <1> DEFINE room == Len(messageCh[connections]) < Capacity
             x == [user |-> line.user, suspect |-> line.suspect,
                   to |-> IF room THEN connections ELSE 0]
  <1>0. /\ connections > 0 /\ connections \in 0..MaxConnections
        /\ arrived' = Append(arrived, x)
        /\ messageCh' = IF room THEN [messageCh EXCEPT ![connections] = Append(@, Len(arrived) + 1)]
                        ELSE messageCh
    BY DEF OnPrivateMessage, TypeOK
  <1>1. connections \in Monitors
    BY <1>0, BoundAssumption DEF Monitors
  <1>2. x \in Message
    BY <1>0, BoundAssumption DEF Message
  <1>3. x.to = IF room THEN connections ELSE 0
    OBVIOUS
  <1>4. arrived \in Seq(Message)
    BY DEF TypeOK
  <1> HIDE DEF x, room
  <1>5. /\ Len(arrived) \in Nat /\ Len(arrived') = Len(arrived) + 1
        /\ \A i \in 1..Len(arrived) : arrived'[i] = arrived[i]
        /\ arrived'[Len(arrived) + 1] = x
    BY <1>0, <1>2, <1>4
  <1> QED
    BY <1>0, <1>1, <1>3, <1>5

\* What taking the head of a sequence leaves.
LEMMA HeadTaken ==
  ASSUME NEW S, NEW q \in Seq(S), q # <<>>
  PROVE  /\ Len(q) \in Nat /\ Len(q) >= 1 /\ Head(q) = q[1] /\ q[1] \in S
         /\ Len(Tail(q)) = Len(q) - 1
         /\ \A i \in 1..Len(Tail(q)) : Tail(q)[i] = q[i + 1] /\ i + 1 \in 1..Len(q)
  <1>1. Len(q) \in Nat /\ Len(q) >= 1 /\ Head(q) = q[1]
    OBVIOUS
  <1>2. Len(Tail(q)) = Len(q) - 1
    BY <1>1
  <1> QED
    BY <1>1, <1>2

\* What a monitor that takes a message does to its channel.
LEMMA Taken ==
  ASSUME TypeOK, NEW m \in Monitors, NEW id \in Id, Receive(m, id)
  PROVE  /\ id = messageCh[m][1] /\ Len(messageCh[m]) \in Nat /\ Len(messageCh[m]) >= 1
         /\ arrived' = arrived
         /\ \A n \in Monitors : n # m => messageCh'[n] = messageCh[n]
         /\ Len(messageCh'[m]) = Len(messageCh[m]) - 1
         /\ \A i \in 1..Len(messageCh'[m]) :
              messageCh'[m][i] = messageCh[m][i + 1] /\ i + 1 \in 1..Len(messageCh[m])
  <1>0. /\ messageCh[m] # <<>> /\ id = Head(messageCh[m]) /\ arrived' = arrived
        /\ messageCh' = [messageCh EXCEPT ![m] = Tail(messageCh[m])]
    BY DEF Receive, twitch
  <1>1. messageCh[m] \in Seq(Id) /\ messageCh'[m] = Tail(messageCh[m])
    BY <1>0 DEF TypeOK
  <1>2. /\ Len(messageCh[m]) \in Nat /\ Len(messageCh[m]) >= 1 /\ id = messageCh[m][1]
        /\ Len(messageCh'[m]) = Len(messageCh[m]) - 1
    BY <1>0, <1>1, HeadTaken
  <1>3. \A i \in 1..Len(messageCh'[m]) :
          messageCh'[m][i] = messageCh[m][i + 1] /\ i + 1 \in 1..Len(messageCh[m])
    BY ZenonT(60), <1>0, <1>1, HeadTaken
  <1> QED
    BY <1>0, <1>2, <1>3 DEF TypeOK

\* What was said of a message stays true of it.
LEMMA Standing ==
  ASSUME TypeOK, [Next]_vars, NEW m \in Monitors, NEW id
  PROVE  /\ Sent(id, m) => Sent(id, m)'
         /\ Judged(id, m) => Judged(id, m)'
         /\ Sent(id, m) /\ Before(id, m) => Before(id, m)'
  <1>1. CASE UNCHANGED <<arrived, messageCh>>
    BY <1>1 DEF Sent, Judged, Before
  <1>2. ASSUME NEW line \in Chat, OnPrivateMessage(line)
        PROVE  /\ Sent(id, m) => Sent(id, m)'
               /\ Judged(id, m) => Judged(id, m)'
               /\ Sent(id, m) /\ Before(id, m) => Before(id, m)'
    <2>0. /\ Len(arrived) \in Nat /\ Len(arrived') = Len(arrived) + 1
          /\ \A i \in 1..Len(arrived) : arrived'[i] = arrived[i]
          /\ \/ messageCh' = messageCh
             \/ messageCh' = [messageCh EXCEPT
                  ![connections] = Append(messageCh[connections], Len(arrived) + 1)]
      BY <1>2, Arrival
    <2>1. (Sent(id, m) => Sent(id, m)') /\ (Judged(id, m) => Judged(id, m)')
      BY <2>0 DEF Sent, Judged
    <2>2. ASSUME Sent(id, m), Before(id, m), NEW i \in 1..Len(messageCh'[m])
          PROVE  id < messageCh'[m][i]
      <3>1. messageCh[m] \in Seq(Id) /\ messageCh \in [Monitors -> Seq(Id)]
        BY DEF TypeOK
      <3>2. Len(arrived) + 1 \in Int /\ id < Len(arrived) + 1
        BY <2>0, <2>2 DEF Sent
      <3>3. CASE messageCh'[m] = messageCh[m]
        BY <2>2, <3>3 DEF Before
      <3>4. CASE messageCh'[m] = Append(messageCh[m], Len(arrived) + 1)
        <4>1. Len(messageCh[m]) \in Nat
          BY <3>1
        <4>2. CASE i \in 1..Len(messageCh[m])
          BY <2>2, <3>1, <3>4, <4>2 DEF Before
        <4>3. CASE i = Len(messageCh[m]) + 1
          BY <3>1, <3>2, <3>4, <4>3
        <4> QED
          BY <2>2, <3>1, <3>4, <4>1, <4>2, <4>3
      <3> QED
        BY <2>0, <3>1, <3>3, <3>4
    <2> QED
      BY <2>1, <2>2 DEF Before
  <1>3. ASSUME NEW n \in Monitors, NEW x \in Id, Receive(n, x)
        PROVE  /\ Sent(id, m) => Sent(id, m)'
               /\ Judged(id, m) => Judged(id, m)'
               /\ Sent(id, m) /\ Before(id, m) => Before(id, m)'
    <2>1. arrived' = arrived
      BY <1>3, Taken
    <2>2. Before(id, m) => Before(id, m)'
      BY <1>3, Taken DEF Before
    <2> QED
      BY <2>1, <2>2 DEF Sent, Judged
  <1> QED
    BY <1>1, <1>2, <1>3, Movement

LEMMA QueuedNext == TypeOK /\ Queued /\ [Next]_vars => Queued'
  <1> SUFFICES ASSUME TypeOK, Queued, [Next]_vars PROVE Queued'
    OBVIOUS
  <1> DEFINE SentNow(id, m) == id \in 1..Len(arrived') /\ arrived'[id].to = m
  <1>1. CASE UNCHANGED <<arrived, messageCh>>
    BY <1>1 DEF Queued, Sent
  <1>2. ASSUME NEW n \in Monitors, NEW x \in Id, Receive(n, x) PROVE Queued'
    <2> SUFFICES ASSUME NEW m \in Monitors, NEW i \in 1..Len(messageCh'[m])
                 PROVE  /\ SentNow(messageCh'[m][i], m)
                        /\ \A j \in 1..(i - 1) : messageCh'[m][j] < messageCh'[m][i]
      BY DEF Queued, Sent
    <2>1. CASE m # n
      BY <1>2, <2>1, Taken DEF Queued, Sent
    <2>2. CASE m = n
      <3>0. /\ Len(messageCh[m]) \in Nat /\ arrived' = arrived
            /\ \A k \in 1..Len(messageCh'[m]) :
                 messageCh'[m][k] = messageCh[m][k + 1] /\ k + 1 \in 1..Len(messageCh[m])
            /\ Len(messageCh'[m]) = Len(messageCh[m]) - 1
        BY <1>2, <2>2, Taken
      <3>1. SentNow(messageCh'[m][i], m)
        <4>1. i + 1 \in 1..Len(messageCh[m]) /\ messageCh'[m][i] = messageCh[m][i + 1]
          BY <3>0
        <4>2. Sent(messageCh[m][i + 1], m)
          BY <4>1 DEF Queued
        <4> QED
          BY <3>0, <4>1, <4>2 DEF Sent
      <3>2. ASSUME NEW j \in 1..(i - 1) PROVE messageCh'[m][j] < messageCh'[m][i]
        <4>1. j \in 1..Len(messageCh'[m]) /\ j + 1 \in 1..(i + 1 - 1)
          BY <3>0
        <4>2. messageCh[m][j + 1] < messageCh[m][i + 1]
          BY <3>0, <4>1 DEF Queued
        <4> QED
          BY <3>0, <4>1, <4>2
      <3> QED
        BY <3>1, <3>2
    <2> QED
      BY <2>1, <2>2
  <1>3. ASSUME NEW line \in Chat, OnPrivateMessage(line) PROVE Queued'
    <2> SUFFICES ASSUME NEW m \in Monitors, NEW i \in 1..Len(messageCh'[m])
                 PROVE  /\ SentNow(messageCh'[m][i], m)
                        /\ \A j \in 1..(i - 1) : messageCh'[m][j] < messageCh'[m][i]
      BY DEF Queued, Sent
    <2>0. /\ messageCh \in [Monitors -> Seq(Id)] /\ messageCh[m] \in Seq(Id)
          /\ Len(messageCh[m]) \in Nat /\ Len(arrived) \in Nat
      BY DEF TypeOK
    <2>1. ASSUME NEW k \in 1..Len(messageCh[m])
          PROVE  /\ SentNow(messageCh[m][k], m) /\ messageCh[m][k] < Len(arrived) + 1
                 /\ \A j \in 1..(k - 1) : messageCh[m][j] < messageCh[m][k]
      <3>1. Sent(messageCh[m][k], m) /\ \A j \in 1..(k - 1) : messageCh[m][j] < messageCh[m][k]
        BY DEF Queued
      <3>2. messageCh[m][k] < Len(arrived) + 1
        BY <2>0, <3>1 DEF Sent
      <3> DEFINE id == messageCh[m][k]
      <3>3. /\ Len(arrived') = Len(arrived) + 1
            /\ \A j \in 1..Len(arrived) : arrived'[j] = arrived[j]
        BY <1>3, Arrival
      <3>4. id \in 1..Len(arrived') /\ arrived'[id].to = m
        BY <2>0, <3>1, <3>3 DEF Sent
      <3> QED
        BY <3>1, <3>2, <3>4 DEF Sent
    <2>2. CASE messageCh'[m] = messageCh[m]
      <3>1. i \in 1..Len(messageCh[m])
        BY <2>2
      <3>2. /\ messageCh[m][i] \in 1..Len(arrived') /\ arrived'[messageCh[m][i]].to = m
            /\ \A j \in 1..(i - 1) : messageCh[m][j] < messageCh[m][i]
        BY <2>1, <3>1 DEF Sent
      <3> QED
        BY <2>2, <3>2 DEF Sent
    <2>3. CASE messageCh'[m] # messageCh[m]
      <3> DEFINE n == Len(messageCh[m])
                 id == Len(arrived) + 1
      <3>1. /\ m = connections /\ arrived'[id].to = m /\ Len(arrived') = Len(arrived) + 1
            /\ messageCh'[m] = Append(messageCh[m], id)
        BY <1>3, <2>0, <2>3, Arrival
      <3>2. /\ Len(messageCh'[m]) = n + 1 /\ messageCh'[m][n + 1] = id
            /\ \A k \in 1..n : messageCh'[m][k] = messageCh[m][k]
        BY <2>0, <3>1
      <3>3. n \in Nat /\ id \in 1..Len(arrived')
        BY <2>0, <3>1
      <3> HIDE DEF n, id
      <3>4. CASE i = n + 1
        <4>1. SentNow(messageCh'[m][i], m)
          BY <3>1, <3>2, <3>3, <3>4 DEF Sent
        <4>2. ASSUME NEW j \in 1..(i - 1) PROVE messageCh'[m][j] < messageCh'[m][i]
          <5>1. j \in 1..n
            BY <3>3, <3>4
          <5> QED
            BY <2>1, <3>2, <3>4, <5>1 DEF n, id
        <4> QED
          BY <4>1, <4>2
      <3>5. CASE i \in 1..n
        <4>1. /\ messageCh[m][i] \in 1..Len(arrived') /\ arrived'[messageCh[m][i]].to = m
              /\ \A j \in 1..(i - 1) : messageCh[m][j] < messageCh[m][i]
          BY <2>1, <3>5 DEF Sent, n
        <4>2. \A j \in 1..(i - 1) : j \in 1..n
          BY <3>3, <3>5
        <4> QED
          BY <3>2, <3>5, <4>1, <4>2 DEF Sent
      <3> QED
        BY <3>2, <3>3, <3>4, <3>5
    <2> QED
      BY <2>2, <2>3
  <1> QED
    BY <1>1, <1>2, <1>3, Movement

\* Nothing has been done yet for the message that is being judged.
LEMMA HandIsFresh ==
  ASSUME Inv, NEW m \in Monitors, pc[m] \in {"evaluating", "acting"}, NEW a \in applied
  PROVE  a.msg # msg[m]
  <1> SUFFICES ASSUME a.msg = msg[m] PROVE FALSE
    OBVIOUS
  <1>1. a.by = arrived[a.msg].to
    BY DEF Inv, ActsBehind, Judged, Sent
  <1>2. arrived[msg[m]].to = m /\ pc[m] \in Working
    BY DEF Inv, InHand, Judged, Sent, Working
  <1>3. pc[a.by] = "logging"
    BY <1>1, <1>2 DEF Inv, ActsBehind
  <1> QED
    BY <1>1, <1>2, <1>3

-----------------------------------------------------------------------------
(* How a step moves one monitor's goroutine, and what it does meanwhile.   *)

\* A monitor takes message id in hand.
Takes(m, id) ==
  /\ Receive(m, id) /\ Judged(id, m)
  /\ msg' = [msg EXCEPT ![m] = id] /\ pc' = [pc EXCEPT ![m] = "evaluating"]
  /\ UNCHANGED <<decision, targetUserID, log>>

\* It gives the message up, or goes on to a permitted action, or to the row of
\* a message for which nothing has been done.
Decides(m) ==
  /\ pc[m] \in {"evaluating", "acting"}
  /\ \/ pc' = [pc EXCEPT ![m] = "select"]
     \/ /\ pc' = [pc EXCEPT ![m] = "acting"] /\ msg' = msg
        /\ PermittedTool(decision'[m].tool)
     \/ pc' = [pc EXCEPT ![m] = "logging"] /\ msg' = msg
  /\ \A n \in Monitors \ {m} : msg'[n] = msg[n] /\ decision'[n] = decision[n]
                               /\ targetUserID'[n] = targetUserID[n]
  /\ UNCHANGED <<arrived, messageCh, log>>

\* It acts.
Acts(m) ==
  /\ pc[m] = "acting" /\ pc' = [pc EXCEPT ![m] = "logging"]
  /\ applied' = applied \/ applied' = applied \cup {Effect(m)}
  /\ decision[m].tool \in NeedUserID => targetUserID'[m] = Target(m)
  /\ \A n \in Monitors \ {m} : targetUserID'[n] = targetUserID[n]
  /\ UNCHANGED <<arrived, messageCh, msg, decision, audit, lost>>

\* It is done with a message, which has a row or has lost it.
Closes(m) ==
  /\ pc[m] = "logging" /\ pc' = [pc EXCEPT ![m] = "select"]
  /\ \/ audit' = audit \cup {Row(m)} /\ lost' = lost
     \/ audit' = audit /\ lost' = lost \cup {msg[m]}
  /\ \A n \in Monitors \ {m} : msg'[n] = msg[n] /\ decision'[n] = decision[n]
                               /\ targetUserID'[n] = targetUserID[n]
  /\ UNCHANGED <<arrived, messageCh, applied>>

\* Nothing of this.
Stays ==
  /\ \A m \in Monitors : pc'[m] \in Working \/ pc[m] \in Working => pc'[m] = pc[m]
  /\ UNCHANGED <<msg, decision, targetUserID, log>>

LEMMA Moves ==
  ASSUME Inv, [Next]_vars
  PROVE  \/ Stays
         \/ \E m \in Monitors : Decides(m) \/ Acts(m) \/ Closes(m)
         \/ \E m \in Monitors : \E id \in Id : Takes(m, id)
  <1>0. TypeOK
    BY DEF Inv
  <1>1. CASE Connect
    <2>1. connections \in 0..MaxConnections /\ connections < MaxConnections
      BY <1>0, <1>1 DEF TypeOK, Connect
    <2>2. connections + 1 \in Monitors /\ connections + 1 > connections
      BY <2>1, BoundAssumption DEF Monitors
    <2>3. pc[connections + 1] = "new"
      BY <1>0, <2>2 DEF TypeOK
    <2>4. Stays
      BY <1>0, <1>1, <2>2, <2>3 DEF Connect, Stays, Working, TypeOK
    <2> QED
      BY <2>4
  <1>2. CASE Tick
    BY <1>2 DEF Tick, Stays, goroutine
  <1>3. ASSUME NEW line \in Chat, OnPrivateMessage(line) PROVE Stays
    BY <1>3 DEF OnPrivateMessage, Stays
  <1>4. ASSUME NEW m \in Monitors, NEW id \in Id, SkipUser(m, id) \/ Pass(m, id)
        PROVE  Stays
    BY <1>4 DEF SkipUser, Pass, Receive, Stays
  <1>5. ASSUME NEW m \in Monitors, NEW id \in Id, Evaluate(m, id) PROVE Takes(m, id)
    <2>1. Receive(m, id)
      BY <1>5 DEF Evaluate
    <2>2. id = messageCh[m][1] /\ 1 \in 1..Len(messageCh[m])
      BY <1>0, <2>1, Taken
    <2>3. Judged(id, m)
      BY <1>5, <2>2 DEF Evaluate, Inv, Queued, Judged
    <2> QED
      BY <1>5, <2>1, <2>3 DEF Evaluate, Receive, Goto, Takes
  <1>6. ASSUME NEW m \in Monitors, LLMFails(m) \/ LookUpFails(m) PROVE Decides(m)
    BY <1>0, <1>6 DEF LLMFails, LookUpFails, Return, Goto, Decides, twitch, TypeOK
  <1>7. ASSUME NEW m \in Monitors, NEW d \in Decision,
               \/ NoAction(m, d) \/ RateLimited(m, d) \/ NotAllowed(m, d)
               \/ DryRun(m, d) \/ Unknown(m, d)
        PROVE  Decides(m)
    <2>0. pc[m] = "evaluating" /\ UNCHANGED <<arrived, messageCh, log>>
      BY <1>7 DEF NoAction, RateLimited, NotAllowed, DryRun, Unknown, Answer, twitch
    <2>1. CASE Return(m)
      BY <1>0, <2>0, <2>1 DEF Return, Goto, Decides, TypeOK
    <2>2. CASE ToLog(m, d)
      BY <1>0, <2>0, <2>2 DEF ToLog, Goto, Decides, TypeOK
    <2> QED
      BY <1>7, <2>1, <2>2 DEF NoAction, RateLimited, NotAllowed, DryRun, Unknown
  <1>8. ASSUME NEW m \in Monitors, NEW d \in Decision, Permit(m, d) PROVE Decides(m)
    <2>1. /\ pc[m] = "evaluating" /\ pc' = [pc EXCEPT ![m] = "acting"]
          /\ decision' = [decision EXCEPT ![m] = d]
          /\ UNCHANGED <<arrived, messageCh, log, msg, targetUserID>>
          /\ PermittedTool(d.tool)
      BY <1>8 DEF Permit, Answer, Goto, twitch, PermittedTool
    <2>2. decision'[m] = d /\ \A n \in Monitors \ {m} : decision'[n] = decision[n]
      BY <1>0, <2>1 DEF TypeOK
    <2> QED
      BY <2>1, <2>2 DEF Decides
  <1>9. ASSUME NEW m \in Monitors, Warn(m) \/ CallHelix(m) PROVE Acts(m)
    <2>1. CASE Warn(m)
      BY <2>1 DEF Warn, Acts, Goto, NeedUserID, twitch
    <2>2. CASE CallHelix(m)
      BY <1>0, <2>2 DEF CallHelix, Acts, Goto, twitch, TypeOK
    <2> QED
      BY <1>9, <2>1, <2>2
  <1>10. ASSUME NEW m \in Monitors, LogModAction(m) PROVE Closes(m)
    <2>1. /\ pc[m] = "logging" /\ pc' = [pc EXCEPT ![m] = "select"]
          /\ msg' = [msg EXCEPT ![m] = 0] /\ decision' = [decision EXCEPT ![m] = NoDecision]
          /\ targetUserID' = [targetUserID EXCEPT ![m] = Nobody]
          /\ UNCHANGED <<arrived, messageCh, applied>>
      BY <1>10 DEF LogModAction, Return, Goto, twitch
    <2>2. \/ audit' = audit \cup {Row(m)} /\ lost' = lost
          \/ audit' = audit /\ lost' = lost \cup {msg[m]}
      BY <1>10 DEF LogModAction
    <2>3. \A n \in Monitors \ {m} : msg'[n] = msg[n] /\ decision'[n] = decision[n]
                                    /\ targetUserID'[n] = targetUserID[n]
      BY <1>0, <2>1 DEF TypeOK
    <2> QED
      BY <2>1, <2>2, <2>3 DEF Closes
  <1>11. CASE UNCHANGED vars
    BY <1>11 DEF vars, goroutine, Stays
  <1> QED
    BY <1>1, <1>2, <1>3, <1>4, <1>5, <1>6, <1>7, <1>8, <1>9, <1>10, <1>11 DEF Next, Step

\* What a monitor holds after a step it held before, or has just taken.
LEMMA Holds ==
  ASSUME Inv, [Next]_vars, NEW m \in Monitors, pc'[m] \in Working
  PROVE  \/ pc[m] \in Working /\ msg'[m] = msg[m]
         \/ \E id \in Id : Takes(m, id)
  <1>0. pc \in [Monitors -> Places] /\ msg \in [Monitors -> {0} \cup Id]
    BY DEF Inv, TypeOK
  <1>1. CASE Stays
    BY <1>1 DEF Stays
  <1>2. ASSUME NEW n \in Monitors, Decides(n) \/ Acts(n) \/ Closes(n)
        PROVE  pc[m] \in Working /\ msg'[m] = msg[m]
    <2>1. CASE m = n
      BY <1>0, <1>2, <2>1 DEF Decides, Acts, Closes, Working
    <2>2. CASE m # n
      BY <1>0, <1>2, <2>2 DEF Decides, Acts, Closes, Working
    <2> QED
      BY <2>1, <2>2
  <1>3. ASSUME NEW n \in Monitors, NEW id \in Id, Takes(n, id), n # m
        PROVE  pc[m] \in Working /\ msg'[m] = msg[m]
    BY <1>0, <1>3 DEF Takes
  <1> QED
    BY <1>1, <1>2, <1>3, Moves

LEMMA InHandNext == Inv /\ [Next]_vars => InHand'
  <1> SUFFICES ASSUME Inv, [Next]_vars, NEW m \in Monitors
               PROVE  /\ pc'[m] \in Working => \A id : id = msg'[m] => Judged(id, m)' /\ Before(id, m)'
                      /\ pc'[m] = "acting" => PermittedTool(decision[m].tool)'
    BY DEF InHand
  <1>0. TypeOK /\ InHand /\ config' = config
    BY Movement DEF Inv
  <1>1. ASSUME pc'[m] \in Working, NEW id, id = msg'[m]
        PROVE  Judged(id, m)' /\ Before(id, m)'
    <2>1. CASE pc[m] \in Working /\ msg'[m] = msg[m]
      <3>1. Judged(id, m) /\ Before(id, m)
        BY <1>0, <1>1, <2>1 DEF InHand
      <3> QED
        BY <1>0, <3>1, Standing DEF Judged
    <2>2. ASSUME NEW x \in Id, Takes(m, x) PROVE Judged(id, m)' /\ Before(id, m)'
      <3>1. Receive(m, x) /\ Judged(x, m) /\ id = x
        BY <1>0, <1>1, <2>2 DEF Takes, TypeOK
      <3>2. Judged(id, m)'
        BY <1>0, <3>1, Standing
      <3>3. Before(id, m)'
        <4>1. /\ id = messageCh[m][1]
              /\ \A i \in 1..Len(messageCh'[m]) :
                   messageCh'[m][i] = messageCh[m][i + 1] /\ i + 1 \in 1..Len(messageCh[m])
          BY <1>0, <3>1, Taken
        <4>2. ASSUME NEW i \in 1..Len(messageCh'[m]) PROVE id < messageCh'[m][i]
          <5>1. 1 \in 1..((i + 1) - 1) /\ i + 1 \in 1..Len(messageCh[m])
            BY <4>1
          <5>2. messageCh[m][1] < messageCh[m][i + 1]
            BY <5>1 DEF Inv, Queued
          <5> QED
            BY <4>1, <5>2
        <4> QED
          BY <4>2 DEF Before
      <3> QED
        BY <3>2, <3>3
    <2> QED
      BY <1>1, <2>1, <2>2, Holds
  <1>2. ASSUME pc'[m] = "acting" PROVE PermittedTool(decision'[m].tool)
    <2>0. pc \in [Monitors -> Places] /\ pc'[m] \in Working
      BY <1>0, <1>2 DEF TypeOK, Working
    <2>1. CASE Stays
      BY <1>0, <1>2, <2>0, <2>1 DEF Stays, InHand
    <2>2. ASSUME NEW n \in Monitors, Decides(n) \/ Acts(n) \/ Closes(n)
          PROVE  PermittedTool(decision'[m].tool)
      <3>1. CASE m = n
        BY <1>2, <2>0, <2>2, <3>1 DEF Decides, Acts, Closes
      <3>2. CASE m # n
        <4>1. pc[m] = "acting" /\ decision'[m] = decision[m]
          BY <1>2, <2>0, <2>2, <3>2 DEF Decides, Acts, Closes
        <4> QED
          BY <1>0, <4>1 DEF InHand
      <3> QED
        BY <3>1, <3>2
    <2>3. ASSUME NEW n \in Monitors, NEW x \in Id, Takes(n, x)
          PROVE  PermittedTool(decision'[m].tool)
      BY <1>0, <1>2, <2>0, <2>3 DEF Takes, InHand
    <2> QED
      BY <2>1, <2>2, <2>3, Moves
  <1> QED
    BY <1>0, <1>1, <1>2 DEF PermittedTool, IsToolAllowed

\* An action of this step is for a message that nothing was done for.
LEMMA NewAct ==
  ASSUME Inv, [Next]_vars, NEW a \in applied', a \notin applied
  PROVE  /\ a.by \in Monitors /\ a = Effect(a.by) /\ Acts(a.by)
         /\ pc[a.by] = "acting" /\ pc'[a.by] = "logging" /\ msg'[a.by] = a.msg
         /\ applied' = applied \cup {a}
         /\ \A b \in applied : b.msg # a.msg
  <1>1. PICK m \in Monitors : Acts(m) /\ applied' = applied \cup {Effect(m)}
    BY Moves DEF Stays, Decides, Acts, Closes, Takes, log
  <1>2. a = Effect(m) /\ a.by = m /\ a.msg = msg[m]
    BY <1>1 DEF Effect
  <1>3. pc[m] = "acting" /\ pc'[m] = "logging" /\ msg'[m] = msg[m]
    BY <1>1 DEF Acts, Inv, TypeOK
  <1>4. \A b \in applied : b.msg # msg[m]
    BY <1>3, HandIsFresh
  <1> QED
    BY <1>1, <1>2, <1>3, <1>4

LEMMA ActsOnceNext == Inv /\ [Next]_vars => ActsOnce'
  <1> SUFFICES ASSUME Inv, [Next]_vars, NEW a \in applied', NEW b \in applied', a.msg = b.msg
               PROVE  a = b
    BY DEF ActsOnce
  <1>1. CASE a \in applied /\ b \in applied
    BY <1>1 DEF Inv, ActsOnce
  <1>2. CASE a \notin applied
    BY <1>2, NewAct
  <1>3. CASE b \notin applied
    BY <1>3, NewAct
  <1> QED
    BY <1>1, <1>2, <1>3

LEMMA ActsBehindNext == Inv /\ [Next]_vars => ActsBehind'
  <1> SUFFICES ASSUME Inv, [Next]_vars, NEW a \in applied'
               PROVE  /\ a.by \in Monitors
                      /\ Judged(a.msg, a.by)' /\ Before(a.msg, a.by)'
                      /\ PermittedTool(a.tool)'
                      /\ pc'[a.by] \in Working /\ msg'[a.by] = a.msg =>
                           /\ pc'[a.by] = "logging"
                           /\ a.tool = decision'[a.by].tool
                           /\ a.tool \in NeedUserID => targetUserID'[a.by] = a.target
    BY DEF ActsBehind
  <1>0. TypeOK /\ config' = config /\ pc \in [Monitors -> Places]
    BY Movement DEF Inv, TypeOK
  <1>1. CASE a \in applied
    <2> DEFINE m == a.by
    <2>1. /\ m \in Monitors /\ Judged(a.msg, m) /\ Before(a.msg, m) /\ PermittedTool(a.tool)
          /\ pc[m] \in Working /\ msg[m] = a.msg =>
               /\ pc[m] = "logging"
               /\ a.tool = decision[m].tool
               /\ a.tool \in NeedUserID => targetUserID[m] = a.target
      BY <1>1 DEF Inv, ActsBehind
    <2> HIDE DEF m
    <2>2. Judged(a.msg, m)' /\ Before(a.msg, m)' /\ PermittedTool(a.tool)'
      BY <1>0, <2>1, Standing DEF Judged, PermittedTool, IsToolAllowed
    <2>3. ASSUME pc'[m] \in Working, msg'[m] = a.msg
          PROVE  /\ pc'[m] = "logging"
                 /\ a.tool = decision'[m].tool
                 /\ a.tool \in NeedUserID => targetUserID'[m] = a.target
      <3>1. ASSUME NEW x \in Id, Takes(m, x) PROVE FALSE
        <4>1. Receive(m, x) /\ a.msg = x
          BY <1>0, <2>1, <2>3, <3>1 DEF Takes, TypeOK
        <4>2. x = messageCh[m][1] /\ Len(messageCh[m]) \in Nat /\ Len(messageCh[m]) >= 1
          BY <1>0, <2>1, <4>1, Taken
        <4>3. x < x /\ x \in Int
          BY <2>1, <4>1, <4>2 DEF Before, Id
        <4> QED
          BY <4>3
      <3>2. pc[m] = "logging" /\ msg[m] = a.msg
        BY <2>1, <2>3, <3>1, Holds
      <3>3. /\ a.tool = decision[m].tool
            /\ a.tool \in NeedUserID => targetUserID[m] = a.target
        BY <2>1, <3>2 DEF Working
      <3>4. pc'[m] = "logging" /\ decision'[m] = decision[m] /\ targetUserID'[m] = targetUserID[m]
        <4>1. CASE Stays
          BY <2>1, <2>3, <3>2, <4>1 DEF Stays, Working
        <4>2. ASSUME NEW n \in Monitors, Decides(n) \/ Acts(n) \/ Closes(n)
              PROVE  /\ pc'[m] = "logging" /\ decision'[m] = decision[m]
                     /\ targetUserID'[m] = targetUserID[m]
          <5>1. CASE m = n
            BY <1>0, <2>1, <2>3, <3>2, <4>2, <5>1 DEF Decides, Acts, Closes, Working
          <5>2. CASE m # n
            BY <1>0, <2>1, <3>2, <4>2, <5>2 DEF Decides, Acts, Closes
          <5> QED
            BY <5>1, <5>2
        <4>3. ASSUME NEW n \in Monitors, NEW x \in Id, Takes(n, x)
              PROVE  /\ pc'[m] = "logging" /\ decision'[m] = decision[m]
                     /\ targetUserID'[m] = targetUserID[m]
          BY <1>0, <2>1, <3>2, <4>3 DEF Takes, Receive
        <4> QED
          BY <4>1, <4>2, <4>3, Moves
      <3> QED
        BY <3>2, <3>3, <3>4 DEF Working
    <2> QED
      BY <2>1, <2>2, <2>3 DEF m
  <1>2. CASE a \notin applied
    <2>1. /\ a.by \in Monitors /\ a = Effect(a.by) /\ Acts(a.by)
          /\ pc[a.by] = "acting" /\ pc'[a.by] = "logging" /\ msg'[a.by] = a.msg
      BY <1>2, NewAct
    <2>2. PICK m \in Monitors : m = a.by
      BY <2>1
    <2>3. a.msg = msg[m] /\ a.tool = decision[m].tool /\ a.target = Target(m)
      BY <2>1, <2>2 DEF Effect
    <2>4. Judged(a.msg, m) /\ Before(a.msg, m) /\ PermittedTool(a.tool)
      BY <2>1, <2>2, <2>3 DEF Inv, InHand, Working
    <2>5. Judged(a.msg, m)' /\ Before(a.msg, m)' /\ PermittedTool(a.tool)'
      BY <1>0, <2>4, Standing DEF Judged, PermittedTool, IsToolAllowed
    <2>6. /\ a.tool = decision'[m].tool
          /\ a.tool \in NeedUserID => targetUserID'[m] = a.target
      BY <2>1, <2>2, <2>3 DEF Acts
    <2> QED
      BY <2>1, <2>2, <2>5, <2>6
  <1> QED
    BY <1>1, <1>2

LEMMA ActsAreAuditedNext == Inv /\ [Next]_vars => ActsAreAudited'
  <1> DEFINE Shown(a, rows) == \E row \in rows :
               /\ row.msg = a.msg /\ row.tool = a.tool
               /\ a.tool \in NeedUserID => row.targetUserID = a.target
  <1> SUFFICES ASSUME Inv, [Next]_vars, NEW a \in applied'
               PROVE  \/ Shown(a, audit') \/ a.msg \in lost'
                      \/ pc'[a.by] = "logging" /\ msg'[a.by] = a.msg
    BY DEF ActsAreAudited
  <1>0. audit \subseteq audit' /\ lost \subseteq lost' /\ pc \in [Monitors -> Places]
    BY Moves DEF Stays, Decides, Acts, Closes, Takes, log, Inv, TypeOK
  <1>1. CASE a \notin applied
    BY <1>1, NewAct
  <1>2. CASE a \in applied /\ (Shown(a, audit) \/ a.msg \in lost)
    BY <1>0, <1>2
  <1>3. CASE a \in applied /\ pc[a.by] = "logging" /\ msg[a.by] = a.msg
    <2>0. /\ a.by \in Monitors /\ a.tool = decision[a.by].tool
          /\ a.tool \in NeedUserID => targetUserID[a.by] = a.target
      BY <1>3 DEF Inv, ActsBehind, Working
    <2>1. CASE Stays
      BY <1>3, <2>0, <2>1 DEF Stays, Working
    <2>2. ASSUME NEW n \in Monitors, Closes(n), n = a.by
          PROVE  Shown(a, audit') \/ a.msg \in lost'
      <3>1. CASE audit' = audit \cup {Row(n)}
        <4>1. /\ Row(n) \in audit' /\ Row(n).msg = msg[n] /\ Row(n).tool = decision[n].tool
              /\ Row(n).targetUserID = targetUserID[n]
          BY <3>1 DEF Row
        <4> QED
          BY <1>3, <2>0, <2>2, <4>1
      <3>2. CASE lost' = lost \cup {msg[n]}
        BY <1>3, <2>2, <3>2
      <3> QED
        BY <2>2, <3>1, <3>2 DEF Closes
    <2>3. ASSUME NEW n \in Monitors, n # a.by, Decides(n) \/ Acts(n) \/ Closes(n)
          PROVE  pc'[a.by] = "logging" /\ msg'[a.by] = a.msg
      BY <1>0, <1>3, <2>0, <2>3 DEF Decides, Acts, Closes
    <2>4. ASSUME NEW n \in Monitors, NEW x \in Id, Takes(n, x)
          PROVE  pc'[a.by] = "logging" /\ msg'[a.by] = a.msg
      <3>1. pc[n] = "select" /\ n # a.by
        BY <1>3, <2>4 DEF Takes, Receive
      <3>2. /\ pc' = [pc EXCEPT ![n] = "evaluating"] /\ msg' = [msg EXCEPT ![n] = x]
            /\ msg \in [Monitors -> {0} \cup Id]
        BY <2>4 DEF Takes, Inv, TypeOK
      <3> QED
        BY <1>0, <1>3, <2>0, <3>1, <3>2
    <2>5. ASSUME NEW n \in Monitors, n = a.by, Decides(n) \/ Acts(n)
          PROVE  FALSE
      BY <1>3, <2>5 DEF Decides, Acts
    <2> QED
      BY <2>1, <2>2, <2>3, <2>4, <2>5, Moves
  <1> QED
    BY <1>1, <1>2, <1>3 DEF Inv, ActsAreAudited

-----------------------------------------------------------------------------
LEMMA InvInit == Init => Inv
  <1> SUFFICES ASSUME Init PROVE Inv
    OBVIOUS
  <1>1. TypeOK
    BY TypeInit
  <1>2. Queued /\ InHand
    BY DEF Init, Queued, InHand, Working
  <1>3. ActsBehind /\ ActsOnce /\ ActsAreAudited
    BY DEF Init, ActsBehind, ActsOnce, ActsAreAudited
  <1> QED
    BY <1>1, <1>2, <1>3 DEF Inv

LEMMA InvNext == Inv /\ [Next]_vars => Inv'
  BY TypeNext, QueuedNext, InHandNext, ActsBehindNext, ActsOnceNext, ActsAreAuditedNext DEF Inv

LEMMA Invariant == Spec => []Inv
  BY InvInit, InvNext, PTL DEF Spec

LEMMA InvPermitted == Inv => ActsArePermitted
  <1> SUFFICES ASSUME Inv, NEW a \in applied
               PROVE  /\ IsToolAllowed(a.tool) /\ ~ config.dryRun
                      /\ a.tool \in AvailableTools
                      /\ arrived[a.msg].suspect /\ arrived[a.msg].to = a.by
                      /\ arrived[a.msg].user \notin Bots
                      /\ \A b \in applied : a.msg = b.msg => a = b
    BY DEF ActsArePermitted, IsToolAllowed
  <1>1. Judged(a.msg, a.by) /\ PermittedTool(a.tool)
    BY DEF Inv, ActsBehind
  <1>2. Executable \subseteq CoreTools
    BY DEF Executable, OnSender, OnNamed, OnChat, CoreTools
  <1> QED
    BY <1>1, <1>2 DEF Inv, ActsOnce, Judged, Sent, PermittedTool, AvailableTools

(* In every reachable state every variable has its type: no channel and no *)
(* history outgrows its bound, a goroutine runs in every monitor that some *)
(* ConnectIRC has made and in no other, and no limiter's window begins in  *)
(* the future.                                                             *)
THEOREM TypeCorrect == Spec => []TypeOK
  BY Invariant, PTL DEF Inv

(* Whatever the LLM answers, and however often the bot reconnects while a  *)
(* monitor is at work, Twitch is made to do only what the whitelist and    *)
(* dry_run permit, for a suspect message of a user who is not exempt, and  *)
(* at most once per message.                                               *)
THEOREM Permitted == Spec => []ActsArePermitted
  <1>1. Spec => []Inv
    BY Invariant
  <1> QED
    BY <1>1, InvPermitted, PTL

(* Whenever the process ends, every action Twitch was made to do has a row *)
(* with the ID of the user who was hit, or its insert failed, or it is one *)
(* that a monitor was about to log.                                        *)
THEOREM Audited == Spec => []ActsAreAudited
  BY Invariant, PTL DEF Inv

-----------------------------------------------------------------------------
(* The rate limiter of a monitor by itself: lines, tools and               *)
(* configurations play no part, and the clock and the calls come as they   *)
(* like.                                                                   *)

GrantRecord == [at : Nat, window : Nat]

RateTypes(m) ==
  /\ now \in Nat
  /\ lastResetTime[m] \in 0..now
  /\ actionCount[m] \in 0..Limit
  /\ grants[m] \in Seq(GrantRecord)

\* A grant is made inside its window, and not in the future.
GrantsInWindow(m) ==
  \A k \in 1..Len(grants[m]) : grants[m][k].window <= grants[m][k].at /\ grants[m][k].at <= now

\* Whether window w was open, and every grant of it made, before one at v.
Precedes(g, v) == g.window + Minute < v /\ g.at <= v

\* The counter counts the grants of the open window: all but the last
\* actionCount grants precede it.
CounterCountsWindow(m) ==
  /\ \A k \in 1..Len(grants[m]) : grants[m][k].window <= lastResetTime[m]
  /\ \A k \in 1..Len(grants[m]) :
       k + actionCount[m] <= Len(grants[m]) =>
         Precedes(grants[m][k], lastResetTime[m])

\* No window has more than Limit grants.
WindowsAreBounded(m) ==
  \A k \in 1..Len(grants[m]) :
    k + Limit \in 1..Len(grants[m]) =>
      Precedes(grants[m][k], grants[m][k + Limit].window)

RateInv(m) == RateTypes(m) /\ GrantsInWindow(m) /\ CounterCountsWindow(m) /\ WindowsAreBounded(m)

-----------------------------------------------------------------------------
(* A grant is a record of two naturals.                                    *)
LEMMA GrantTypes ==
  ASSUME NEW m, grants[m] \in Seq(GrantRecord), NEW k \in 1..Len(grants[m])
  PROVE  /\ grants[m][k] \in GrantRecord
         /\ grants[m][k].at \in Nat /\ grants[m][k].window \in Nat
  <1>1. grants[m][k] \in GrantRecord
    OBVIOUS
  <1>2. QED
    BY <1>1 DEF GrantRecord

(* Whether or not the window is over, all but the last Count grants        *)
(* precede the window that the check uses.                                 *)
LEMMA CountCountsWindow ==
  ASSUME NEW m, RateInv(m)
  PROVE  /\ Rate(m)!Count \in 0..Limit
         /\ Rate(m)!Window \in 0..now
         /\ \A k \in 1..Len(grants[m]) : grants[m][k].window <= Rate(m)!Window
         /\ \A k \in 1..Len(grants[m]) :
              k + Rate(m)!Count <= Len(grants[m]) => Precedes(grants[m][k], Rate(m)!Window)
  <1>1. /\ now \in Nat /\ lastResetTime[m] \in 0..now /\ actionCount[m] \in 0..Limit
        /\ Limit \in Nat /\ Minute \in Nat
    BY BoundAssumption DEF RateInv, RateTypes
  <1>2. ASSUME NEW k \in 1..Len(grants[m])
        PROVE  /\ grants[m][k].window \in Nat /\ grants[m][k].at \in Nat
               /\ grants[m][k].window <= lastResetTime[m]
               /\ grants[m][k].at <= now
    BY GrantTypes DEF RateInv, RateTypes, GrantsInWindow, CounterCountsWindow
  <1>3. CASE Rate(m)!WindowOver
    <2>1. Rate(m)!Count = 0 /\ Rate(m)!Window = now
      BY <1>3 DEF Rate!Count, Rate!Window
    <2>2. ASSUME NEW k \in 1..Len(grants[m])
          PROVE  grants[m][k].window <= now /\ Precedes(grants[m][k], now)
      <3>1. now - lastResetTime[m] > Minute
        BY <1>3 DEF Rate!WindowOver
      <3>2. grants[m][k].window <= now /\ grants[m][k].window + Minute < now
        BY <1>1, <1>2, <3>1
      <3> QED
        BY <1>2, <3>2 DEF Precedes
    <2> QED
      BY <1>1, <2>1, <2>2
  <1>4. CASE ~ Rate(m)!WindowOver
    BY <1>1, <1>2, <1>4 DEF Rate!Count, Rate!Window, RateInv, CounterCountsWindow
  <1>5. QED
    BY <1>3, <1>4

(* A granted call: its grant is the last of at most Limit in its window.   *)
LEMMA RateInvGrant ==
  ASSUME NEW m, RateInv(m), Rate(m)!Grant
  PROVE  RateInv(m)'
  <1> DEFINE g == [at |-> now, window |-> Rate(m)!Window]
             n == Len(grants[m])
  <1>0. /\ Rate(m)!Count < Limit
        /\ lastResetTime'[m] = Rate(m)!Window /\ actionCount'[m] = Rate(m)!Count + 1
        /\ grants'[m] = Append(grants[m], g) /\ now' = now
    BY DEF Rate!Grant
  <1>1. /\ now \in Nat /\ Rate(m)!Window \in 0..now /\ Rate(m)!Count \in 0..Limit
        /\ Limit \in Nat /\ Minute \in Nat /\ grants[m] \in Seq(GrantRecord) /\ n \in Nat
    BY BoundAssumption, CountCountsWindow DEF RateInv, RateTypes
  <1>2. g \in GrantRecord
    BY <1>1 DEF GrantRecord
  <1>3. /\ grants'[m] \in Seq(GrantRecord) /\ Len(grants'[m]) = n + 1
        /\ grants'[m][n + 1] = g
        /\ \A k \in 1..n : grants'[m][k] = grants[m][k]
    BY <1>0, <1>1, <1>2
  <1>4. \A k \in 1..n : /\ grants[m][k].window \in Nat /\ grants[m][k].at \in Nat
                        /\ grants[m][k].window <= grants[m][k].at /\ grants[m][k].at <= now
    BY <1>1, GrantTypes DEF RateInv, GrantsInWindow
  <1>5. RateTypes(m)'
    BY <1>0, <1>1, <1>3 DEF RateInv, RateTypes
  <1>6. GrantsInWindow(m)'
    BY <1>0, <1>1, <1>3, <1>4 DEF GrantsInWindow
  <1>7. CounterCountsWindow(m)'
    <2> HIDE DEF g, n
    <2>0. g.window = Rate(m)!Window
      BY DEF g
    <2>1. ASSUME NEW k \in 1..n
          PROVE  /\ grants'[m][k].window <= Rate(m)!Window
                 /\ k + Rate(m)!Count <= n => Precedes(grants'[m][k], Rate(m)!Window)
      BY <1>3, <2>1, CountCountsWindow DEF n
    <2>2. ASSUME NEW k \in 1..(n + 1) PROVE grants'[m][k].window <= Rate(m)!Window
      <3>1. CASE k \in 1..n
        BY <2>1, <3>1
      <3>2. CASE k = n + 1
        <4>1. grants'[m][k].window = Rate(m)!Window
          BY <1>3, <2>0, <3>2
        <4> QED
          BY <1>1, <4>1
      <3> QED
        BY <1>1, <2>2, <3>1, <3>2
    <2>3. ASSUME NEW k \in 1..(n + 1), k + actionCount'[m] <= n + 1
          PROVE  Precedes(grants'[m][k], Rate(m)!Window)
      <3>1. k \in 1..n /\ k + Rate(m)!Count <= n
        BY <1>0, <1>1, <2>3
      <3> QED
        BY <2>1, <3>1
    <2> QED
      BY <1>0, <1>3, <2>2, <2>3 DEF CounterCountsWindow
  <1>8. WindowsAreBounded(m)'
    <2> SUFFICES ASSUME NEW k \in 1..(n + 1), k + Limit \in 1..(n + 1)
                 PROVE  Precedes(grants'[m][k], grants'[m][k + Limit].window)
      BY <1>3 DEF WindowsAreBounded, Precedes
    <2>1. k \in 1..n
      BY <1>0, <1>1
    <2>2. CASE k + Limit \in 1..n
      BY <1>3, <2>1, <2>2 DEF RateInv, WindowsAreBounded
    <2>3. CASE k + Limit = n + 1
      <3>1. k + Rate(m)!Count <= n
        BY <1>0, <1>1, <2>3
      <3>2. Precedes(grants[m][k], Rate(m)!Window)
        BY <2>1, <3>1, CountCountsWindow
      <3>3. QED
        BY <1>3, <2>1, <2>3, <3>2
    <2>4. QED
      BY <1>1, <2>2, <2>3
  <1>9. QED
    BY <1>5, <1>6, <1>7, <1>8 DEF RateInv

(* A refused call and the clock add no grant.                              *)
LEMMA RateInvOthers ==
  ASSUME NEW m, RateInv(m), Rate(m)!Refuse \/ Rate(m)!Tick \/ UNCHANGED Rate(m)!vars
  PROVE  RateInv(m)'
  <1>1. /\ now \in Nat /\ grants[m] \in Seq(GrantRecord) /\ Len(grants[m]) \in Nat
        /\ \A k \in 1..Len(grants[m]) : grants[m][k].at \in Nat
    BY GrantTypes DEF RateInv, RateTypes
  <1>2. CASE Rate(m)!Refuse
    <2>1. /\ lastResetTime'[m] = Rate(m)!Window /\ actionCount'[m] = Rate(m)!Count
          /\ now' = now /\ grants'[m] = grants[m]
      BY <1>2 DEF Rate!Refuse
    <2>2. RateTypes(m)'
      BY <1>1, <2>1, CountCountsWindow DEF RateInv, RateTypes
    <2>3. CounterCountsWindow(m)'
      BY <1>1, <2>1, CountCountsWindow DEF CounterCountsWindow, Precedes
    <2>4. GrantsInWindow(m)' /\ WindowsAreBounded(m)'
      BY <2>1 DEF RateInv, GrantsInWindow, WindowsAreBounded, Precedes
    <2>5. QED
      BY <2>2, <2>3, <2>4 DEF RateInv
  <1>3. CASE Rate(m)!Tick
    <2>1. /\ now' = now + 1 /\ grants'[m] = grants[m]
          /\ lastResetTime'[m] = lastResetTime[m] /\ actionCount'[m] = actionCount[m]
      BY <1>3 DEF Rate!Tick
    <2>2. RateTypes(m)'
      BY <1>1, <2>1 DEF RateInv, RateTypes
    <2>3. GrantsInWindow(m)'
      BY <1>1, <2>1 DEF RateInv, GrantsInWindow
    <2>4. CounterCountsWindow(m)' /\ WindowsAreBounded(m)'
      BY <2>1 DEF RateInv, CounterCountsWindow, WindowsAreBounded, Precedes
    <2>5. QED
      BY <2>2, <2>3, <2>4 DEF RateInv
  <1>4. CASE UNCHANGED Rate(m)!vars
    BY <1>4 DEF Rate!vars, RateInv, RateTypes, GrantsInWindow, CounterCountsWindow,
       WindowsAreBounded, Precedes
  <1>5. QED
    BY <1>2, <1>3, <1>4

\* Twice the limit spans a window and the start of a later one.
LEMMA RateInvBounds ==
  ASSUME NEW m, RateInv(m)
  PROVE  Rate(m)!TwiceTheLimitPerMinute
  <1> SUFFICES ASSUME NEW i \in 1..Len(grants[m]), i + 2 * Limit \in 1..Len(grants[m])
               PROVE  grants[m][i + 2 * Limit].at - grants[m][i].at > Minute
    BY DEF Rate!TwiceTheLimitPerMinute
  <1> DEFINE j == i + Limit
             k == i + 2 * Limit
  <1>1. /\ Limit \in Nat /\ Minute \in Nat /\ Len(grants[m]) \in Nat
        /\ j \in 1..Len(grants[m]) /\ k \in 1..Len(grants[m]) /\ k = j + Limit
    BY BoundAssumption DEF RateInv, RateTypes
  <1>2. /\ grants[m][i] \in GrantRecord /\ grants[m][j] \in GrantRecord
        /\ grants[m][k] \in GrantRecord
    <2>1. grants[m] \in Seq(GrantRecord)
      BY DEF RateInv, RateTypes
    <2> HIDE DEF j, k
    <2> QED
      BY <1>1, <2>1
  <1>3. grants[m][i].at <= grants[m][j].window
    BY <1>1 DEF RateInv, WindowsAreBounded, Precedes
  <1>4. grants[m][j].window + Minute < grants[m][k].window
    BY <1>1 DEF RateInv, WindowsAreBounded, Precedes
  <1>5. grants[m][k].window <= grants[m][k].at
    BY <1>1 DEF RateInv, GrantsInWindow
  <1> HIDE DEF j, k
  <1>6. grants[m][k].at - grants[m][i].at > Minute
    <2> DEFINE first == grants[m][i].at
               opened == grants[m][j].window
               reopened == grants[m][k].window
               last == grants[m][k].at
    <2>1. first \in Nat /\ opened \in Nat /\ reopened \in Nat /\ last \in Nat
      BY <1>2 DEF GrantRecord
    <2>2. first <= opened /\ opened + Minute < reopened /\ reopened <= last
      BY <1>3, <1>4, <1>5
    <2> HIDE DEF first, opened, reopened, last
    <2>3. last - first > Minute
      BY <1>1, <2>1, <2>2
    <2> QED
      BY <2>3 DEF first, last
  <1>7. QED
    BY <1>6 DEF k

-----------------------------------------------------------------------------
(* The rate limiters of the bot.                                           *)

\* Nothing is counted for a connection that there is not yet.
Fresh == \A m \in Monitors : pc[m] = "new" => actionCount[m] = 0 /\ grants[m] = <<>>

LimiterOf(m) == <<actionCount[m], lastResetTime[m], grants[m]>>

\* What a step may do to the limiter of monitor m: a call of checkRateLimit by
\* m's own goroutine, the clock, its first use, or nothing.
LEMMA LimiterMoves ==
  ASSUME TypeOK, Fresh, [Next]_vars, NEW m \in Monitors
  PROVE  \/ pc[m] = "evaluating" /\ pc'[m] # "new" /\ (Granted(m) \/ Refused(m))
         \/ Tick /\ pc' = pc
         \/ UNCHANGED <<now, LimiterOf(m)>> /\ (pc'[m] = "new" <=> pc[m] = "new")
         \/ /\ pc[m] = "new" /\ pc'[m] # "new" /\ now' = now
            /\ actionCount'[m] = 0 /\ lastResetTime'[m] = now' /\ grants'[m] = <<>>
  <1>0. /\ pc \in [Monitors -> Places] /\ actionCount \in [Monitors -> 0..Limit]
        /\ lastResetTime \in [Monitors -> 0..MaxTime]
        /\ grants \in [Monitors -> Seq([at : 0..MaxTime, window : 0..MaxTime])]
        /\ connections \in 0..MaxConnections /\ (pc[m] = "new" <=> m > connections)
    BY DEF TypeOK
  <1> DEFINE Still == UNCHANGED <<now, LimiterOf(m)>> /\ (pc'[m] = "new" <=> pc[m] = "new")
  <1>1. CASE Connect
    <2>0. /\ pc' = [pc EXCEPT ![connections + 1] = "select"]
          /\ lastResetTime' = [lastResetTime EXCEPT ![connections + 1] = now]
          /\ UNCHANGED <<now, actionCount, grants>>
      BY <1>1 DEF Connect
    <2>1. CASE m = connections + 1
      <3>1. pc[m] = "new"
        BY <1>0, <2>1, BoundAssumption DEF Monitors
      <3>2. pc'[m] = "select" /\ lastResetTime'[m] = now
        BY <1>0, <2>0, <2>1
      <3> QED
        BY <2>0, <3>1, <3>2 DEF Fresh
    <2>2. CASE m # connections + 1
      BY <1>0, <2>0, <2>2 DEF LimiterOf
    <2> QED
      BY <2>1, <2>2
  <1>2. CASE Tick
    BY <1>2 DEF Tick, goroutine
  <1>3. ASSUME NEW line \in Chat, OnPrivateMessage(line) PROVE Still
    BY <1>3 DEF OnPrivateMessage, limiter, LimiterOf
  <1>4. ASSUME NEW n \in Monitors, NEW id \in Id,
               SkipUser(n, id) \/ Pass(n, id) \/ Evaluate(n, id)
        PROVE  Still
    <2>1. /\ UNCHANGED limiter /\ pc[n] = "select"
          /\ pc' = pc \/ pc' = [pc EXCEPT ![n] = "evaluating"]
      BY <1>4 DEF SkipUser, Pass, Evaluate, Receive, Goto
    <2> QED
      BY <1>0, <2>1 DEF limiter, LimiterOf
  <1>5. ASSUME NEW n \in Monitors, \/ LLMFails(n) \/ Warn(n) \/ LookUpFails(n)
                                   \/ CallHelix(n) \/ LogModAction(n)
        PROVE  Still
    <2>1. /\ UNCHANGED limiter /\ pc[n] # "new"
          /\ \E place \in {"select", "logging"} : pc' = [pc EXCEPT ![n] = place]
      BY <1>5 DEF LLMFails, Warn, LookUpFails, CallHelix, LogModAction, Return, Goto
    <2> QED
      BY <1>0, <2>1 DEF limiter, LimiterOf
  <1>6. ASSUME NEW n \in Monitors, NEW d \in Decision, NoAction(n, d) PROVE Still
    <2>1. /\ UNCHANGED limiter /\ pc[n] # "new" /\ pc' = [pc EXCEPT ![n] = "logging"]
      BY <1>6 DEF NoAction, Answer, ToLog, Goto
    <2> QED
      BY <1>0, <2>1 DEF limiter, LimiterOf
  <1>7. ASSUME NEW n \in Monitors, NEW d \in Decision,
               \/ RateLimited(n, d) \/ NotAllowed(n, d) \/ DryRun(n, d)
               \/ Unknown(n, d) \/ Permit(n, d)
        PROVE  \/ pc[m] = "evaluating" /\ pc'[m] # "new" /\ (Granted(m) \/ Refused(m))
               \/ Still
    <2>1. /\ Granted(n) \/ Refused(n)
          /\ pc[n] = "evaluating"
          /\ \E place \in {"select", "logging", "acting"} : pc' = [pc EXCEPT ![n] = place]
      BY <1>7 DEF RateLimited, NotAllowed, DryRun, Unknown, Permit, Answer, ToLog, Return, Goto
    <2>2. CASE m = n
      BY <1>0, <2>1, <2>2
    <2>3. CASE m # n
      BY <1>0, <2>1, <2>3 DEF Granted, Refused, LimiterOf
    <2> QED
      BY <2>2, <2>3
  <1>8. CASE UNCHANGED vars
    BY <1>8 DEF vars, limiter, goroutine, LimiterOf
  <1> QED
    BY <1>1, <1>2, <1>3, <1>4, <1>5, <1>6, <1>7, <1>8 DEF Next, Step

LEMMA FreshNext == TypeOK /\ Fresh /\ [Next]_vars => Fresh'
  <1> SUFFICES ASSUME TypeOK, Fresh, [Next]_vars, NEW m \in Monitors, pc'[m] = "new"
               PROVE  actionCount'[m] = 0 /\ grants'[m] = <<>>
    BY DEF Fresh
  <1>1. pc[m] = "new" => actionCount[m] = 0 /\ grants[m] = <<>>
    BY DEF Fresh
  <1> QED
    BY <1>1, LimiterMoves DEF LimiterOf, Tick

(* checkRateLimit's grants and refusals are RateLimiter's.                 *)
LEMMA OneCall ==
  ASSUME TypeOK, NEW m \in Monitors, Granted(m) \/ Refused(m)
  PROVE  Rate(m)!Next
  <1>1. /\ actionCount \in [Monitors -> 0..Limit]
        /\ lastResetTime \in [Monitors -> 0..MaxTime]
        /\ grants \in [Monitors -> Seq([at : 0..MaxTime, window : 0..MaxTime])]
    BY DEF TypeOK
  <1>2. CASE Granted(m)
    BY <1>1, <1>2 DEF Granted, Rate!Next, Rate!Grant, Rate!Count, Rate!Window,
                      Rate!WindowOver, Count, Window, WindowOver
  <1>3. CASE Refused(m)
    BY <1>1, <1>3 DEF Refused, Rate!Next, Rate!Refuse, Rate!Count, Rate!Window,
                      Rate!WindowOver, Count, Window, WindowOver
  <1> QED
    BY <1>2, <1>3

\* What LimiterIsPrivate says of a step.
LEMMA PrivateStep ==
  ASSUME TypeOK, Fresh, [Next]_vars, NEW m \in Monitors
  PROVE  IF pc[m] = "new" THEN pc'[m] # "new" => (Rate(m)!New)'
                          ELSE [Rate(m)!Next]_(Rate(m)!vars)
  <1>1. CASE pc[m] = "evaluating" /\ (Granted(m) \/ Refused(m))
    BY <1>1, OneCall
  <1>2. CASE Tick /\ pc' = pc
    BY <1>2 DEF Tick, Rate!Next, Rate!Tick
  <1>3. CASE UNCHANGED <<now, LimiterOf(m)>> /\ (pc'[m] = "new" <=> pc[m] = "new")
    BY <1>3 DEF LimiterOf, Rate!vars
  <1>4. CASE /\ pc[m] = "new" /\ actionCount'[m] = 0
             /\ lastResetTime'[m] = now' /\ grants'[m] = <<>>
    BY <1>4 DEF Rate!New
  <1> QED
    BY <1>1, <1>2, <1>3, <1>4, LimiterMoves

LEMMA FreshInvariant == Spec => [](TypeOK /\ Fresh)
  <1>1. Init => Fresh
    BY DEF Init, Fresh
  <1> QED
    BY <1>1, FreshNext, TypeCorrect, PTL DEF Spec

\* A limiter keeps its invariant, before its monitor exists as well.
LEMMA RateInvNext ==
  ASSUME TypeOK, Fresh, [Next]_vars, NEW m \in Monitors, RateInv(m)
  PROVE  RateInv(m)'
  <1>1. ASSUME Rate(m)!Next \/ UNCHANGED Rate(m)!vars PROVE RateInv(m)'
    BY <1>1, RateInvGrant, RateInvOthers DEF Rate!Next
  <1>2. CASE Granted(m) \/ Refused(m)
    BY <1>1, <1>2, OneCall
  <1>3. CASE Tick
    BY <1>1, <1>3 DEF Tick, Rate!Next, Rate!Tick
  <1>4. CASE UNCHANGED <<now, LimiterOf(m)>>
    BY <1>1, <1>4 DEF LimiterOf, Rate!vars
  <1>5. CASE /\ actionCount'[m] = 0 /\ lastResetTime'[m] = now'
             /\ grants'[m] = <<>> /\ now' = now
    <2>1. now' \in Nat
      BY <1>5 DEF RateInv, RateTypes
    <2> QED
      BY <1>5, <2>1, BoundAssumption DEF RateInv, RateTypes, GrantsInWindow,
         CounterCountsWindow, WindowsAreBounded
  <1> QED
    BY <1>2, <1>3, <1>4, <1>5, LimiterMoves

(* Every monitor's counter is the number of its grants in the window that  *)
(* is open, and no window has more than Limit: whatever the times of the   *)
(* calls, the reconnects and the order in which the monitors run.          *)
THEOREM RateInvariant == Spec => [](\A m \in Monitors : RateInv(m))
  <1>1. Init => \A m \in Monitors : RateInv(m)
    <2> SUFFICES ASSUME Init, NEW m \in Monitors PROVE RateInv(m)
      OBVIOUS
    <2>1. now = 0 /\ actionCount[m] = 0 /\ lastResetTime[m] = 0 /\ grants[m] = <<>>
      BY DEF Init
    <2> QED
      BY <2>1, BoundAssumption DEF RateInv, RateTypes, GrantsInWindow,
         CounterCountsWindow, WindowsAreBounded
  <1>2. TypeOK /\ Fresh /\ (\A m \in Monitors : RateInv(m)) /\ [Next]_vars
          => (\A m \in Monitors : RateInv(m))'
    BY RateInvNext
  <1> QED
    BY <1>1, <1>2, FreshInvariant, PTL DEF Spec

(* Of twice the limit and one more of a monitor's granted calls the last   *)
(* is more than a minute after the first: a burst at the end of a window   *)
(* and one at the start of the next are all that a minute can hold.        *)
THEOREM Bursts == Spec => []BurstIsBounded
  <1>1. (\A m \in Monitors : RateInv(m)) => BurstIsBounded
    BY RateInvBounds DEF BurstIsBounded
  <1> QED
    BY <1>1, RateInvariant, PTL

(* No interleaving of connections, messages and monitors touches a         *)
(* limiter but through checkRateLimit, called by its own monitor: each is  *)
(* a RateLimiter from the moment its monitor exists.                       *)
THEOREM Private == Spec => LimiterIsPrivate
  <1>1. TypeOK /\ Fresh /\ [Next]_vars =>
          \A m \in Monitors : IF pc[m] = "new"
                              THEN pc'[m] # "new" => (Rate(m)!New)'
                              ELSE [Rate(m)!Next]_(Rate(m)!vars)
    BY PrivateStep
  <1> QED
    BY <1>1, FreshInvariant, PTL DEF Spec, LimiterIsPrivate

-----------------------------------------------------------------------------
(* The context of the LLM: what a monitor has heard, and what it remembers.*)

\* A message for monitor m waits in its channel, or came before all that waits.
Settled ==
  \A m \in Monitors : \A id \in 1..Len(arrived) : arrived[id].to = m =>
    (\E i \in 1..Len(messageCh[m]) : messageCh[m][i] = id) \/ Before(id, m)

\* addRecentMessage: the latest, and one that is later than all of them.
LEMMA AddLatest ==
  ASSUME NEW r \in Seq(Id), NEW n \in Nat \ {0}, NEW heard \in SUBSET Nat, NEW id \in Id,
         \A h \in heard : h < id, ListsLatest(r, n, heard)
  PROVE  ListsLatest(Append(IF Len(r) >= n THEN Tail(r) ELSE r, id), n, heard \cup {id})
  <1>0. /\ Len(r) \in Nat /\ Len(r) <= n /\ Id \subseteq Nat
        /\ \A i \in 1..Len(r) : r[i] \in heard /\ r[i] \in Id
        /\ \A i \in 1..Len(r) : \A j \in 1..(i - 1) : r[j] < r[i]
        /\ \A h \in heard : \/ \E i \in 1..Len(r) : r[i] = h
                            \/ Len(r) = n /\ h < r[1]
    <2>1. Len(r) \in Nat /\ Id \subseteq Nat
      BY DEF Id
    <2> QED
      BY <2>1 DEF ListsLatest
  <1>1. CASE ~ (Len(r) >= n)
    <2> DEFINE q == Append(r, id)
               l == Len(r)
    <2>1. l \in Nat /\ l < n /\ Len(q) = l + 1 /\ q[l + 1] = id /\ \A i \in 1..l : q[i] = r[i]
      BY <1>0, <1>1
    <2> HIDE DEF q
    <2>2. ASSUME NEW i \in 1..(l + 1)
          PROVE  q[i] \in heard \cup {id} /\ \A j \in 1..(i - 1) : q[j] < q[i]
      <3>1. CASE i = l + 1
        <4>1. \A j \in 1..(i - 1) : j \in 1..l
          BY <2>1, <3>1
        <4> QED
          BY <1>0, <2>1, <3>1, <4>1
      <3>2. CASE i \in 1..l
        <4>1. \A j \in 1..(i - 1) : j \in 1..l
          BY <2>1, <3>2
        <4> QED
          BY <1>0, <2>1, <3>2, <4>1
      <3> QED
        BY <2>1, <3>1, <3>2
    <2>3. ASSUME NEW h \in heard \cup {id} PROVE \E i \in 1..(l + 1) : q[i] = h
      <3>1. CASE h = id
        <4>1. l + 1 \in 1..(l + 1)
          BY <2>1
        <4> QED
          BY <2>1, <3>1, <4>1
      <3>2. CASE h \in heard
        <4>1. PICK i \in 1..l : r[i] = h
          BY <1>0, <2>1, <3>2
        <4>2. i \in 1..(l + 1)
          BY <2>1
        <4> QED
          BY <2>1, <4>1, <4>2
      <3> QED
        BY <3>1, <3>2
    <2>4. Len(q) <= n
      BY <2>1
    <2>5. ListsLatest(q, n, heard \cup {id})
      BY <2>1, <2>2, <2>3, <2>4 DEF ListsLatest
    <2> QED
      BY <1>1, <2>5 DEF q
  <1>2. CASE Len(r) >= n
    <2> DEFINE t == Tail(r)
               q == Append(t, id)
    <2>1. Len(r) = n /\ r # <<>> /\ n >= 1
      BY <1>0, <1>2
    <2>2. t \in Seq(Id) /\ Len(t) = n - 1 /\ \A i \in 1..Len(t) : t[i] = r[i + 1]
      BY <2>1, HeadTaken
    <2> HIDE DEF t
    <2>3. Len(q) = n /\ q[n] = id /\ \A i \in 1..(n - 1) : q[i] = r[i + 1]
      <3>1. /\ Len(q) = Len(t) + 1 /\ q[Len(t) + 1] = id
            /\ \A i \in 1..Len(t) : q[i] = t[i]
        BY <2>2
      <3>2. Len(t) + 1 = n
        BY <2>1, <2>2
      <3> QED
        BY <2>2, <3>1, <3>2
    <2> HIDE DEF q
    <2>4. \A i \in 1..(n - 1) : i + 1 \in 1..n /\ q[i] \in heard /\ q[i] < id
      <3>1. \A i \in 1..(n - 1) : i + 1 \in 1..n
        BY <2>1
      <3> QED
        BY <1>0, <2>1, <2>3, <3>1
    <2>5. ASSUME NEW i \in 1..n
          PROVE  q[i] \in heard \cup {id} /\ \A j \in 1..(i - 1) : q[j] < q[i]
      <3>1. CASE i = n
        BY <2>3, <2>4, <3>1
      <3>2. CASE i \in 1..(n - 1)
        <4>1. \A j \in 1..(i - 1) : j \in 1..(n - 1) /\ j + 1 \in 1..(i + 1 - 1)
          BY <2>1, <3>2
        <4>2. i + 1 \in 1..Len(r)
          BY <2>1, <3>2
        <4>3. \A j \in 1..(i + 1 - 1) : r[j] < r[i + 1]
          BY <1>0, <4>2
        <4> QED
          BY <2>3, <2>4, <3>2, <4>1, <4>3
      <3> QED
        BY <2>1, <3>1, <3>2
    <2>6. r[1] < q[1]
      <3>1. 1 \in 1..Len(r) /\ r[1] \in heard
        BY <1>0, <2>1
      <3>2. CASE n = 1
        BY <2>3, <3>1, <3>2
      <3>3. CASE n # 1
        <4>1. 1 \in 1..(n - 1) /\ 2 \in 1..Len(r) /\ 1 \in 1..(2 - 1)
          BY <2>1, <3>3
        <4>2. q[1] = r[2]
          BY <2>3, <4>1
        <4> QED
          BY <1>0, <4>1, <4>2
      <3> QED
        BY <3>2, <3>3
    <2>7. ASSUME NEW h \in heard \cup {id}
          PROVE  (\E i \in 1..n : q[i] = h) \/ h < q[1]
      <3>1. CASE h = id
        BY <2>1, <2>3, <3>1
      <3>2. ASSUME NEW k \in 1..n, r[k] = h PROVE (\E i \in 1..n : q[i] = h) \/ h < q[1]
        <4>1. CASE k = 1
          BY <2>6, <3>2, <4>1
        <4>2. CASE k # 1
          <5>1. k - 1 \in 1..(n - 1) /\ k - 1 \in 1..n /\ k - 1 + 1 = k
            BY <2>1, <4>2
          <5> QED
            BY <2>3, <3>2, <5>1
        <4> QED
          BY <4>1, <4>2
      <3>3. CASE h \in heard /\ h < r[1]
        <4>1. 1 \in 1..n /\ 1 \in 1..Len(r)
          BY <2>1
        <4>2. q[1] \in Nat /\ r[1] \in Nat /\ h \in Nat
          BY <1>0, <2>5, <3>3, <4>1
        <4> QED
          BY <2>6, <3>3, <4>2
      <3> QED
        BY <1>0, <2>1, <3>1, <3>2, <3>3
    <2>8. n <= n
      OBVIOUS
    <2>9. ListsLatest(q, n, heard \cup {id})
      BY <2>3, <2>5, <2>7, <2>8 DEF ListsLatest
    <2> QED
      BY <1>2, <2>9 DEF q, t
  <1> QED
    BY <1>1, <1>2

\* How a step moves the history of messages, the channels and what is remembered.
LEMMA Remembering ==
  ASSUME [Next]_vars
  PROVE  \/ UNCHANGED <<arrived, messageCh, recentMsgs>>
         \/ (\E line \in Chat : OnPrivateMessage(line)) /\ UNCHANGED recentMsgs
         \/ \E m \in Monitors : \E id \in Id :
              /\ Receive(m, id)
              /\ \/ arrived[id].user \in Bots /\ UNCHANGED recentMsgs
                 \/ arrived[id].user \notin Bots /\ AddRecent(m, id)
  <1>1. CASE Connect \/ Tick
    BY <1>1 DEF Connect, Tick, twitch, goroutine
  <1>2. CASE \E line \in Chat : OnPrivateMessage(line)
    BY <1>2 DEF OnPrivateMessage
  <1>3. ASSUME NEW m \in Monitors, NEW id \in Id,
               SkipUser(m, id) \/ Pass(m, id) \/ Evaluate(m, id)
        PROVE  /\ Receive(m, id)
               /\ \/ arrived[id].user \in Bots /\ UNCHANGED recentMsgs
                  \/ arrived[id].user \notin Bots /\ AddRecent(m, id)
    BY <1>3 DEF SkipUser, Pass, Evaluate
  <1>4. ASSUME NEW m \in Monitors,
               \/ LLMFails(m) \/ Warn(m) \/ LookUpFails(m) \/ CallHelix(m) \/ LogModAction(m)
        PROVE  UNCHANGED <<arrived, messageCh, recentMsgs>>
    BY <1>4 DEF LLMFails, Warn, LookUpFails, CallHelix, LogModAction, twitch
  <1>5. ASSUME NEW m \in Monitors, NEW d \in Decision,
               \/ NoAction(m, d) \/ RateLimited(m, d) \/ NotAllowed(m, d)
               \/ DryRun(m, d) \/ Unknown(m, d) \/ Permit(m, d)
        PROVE  UNCHANGED <<arrived, messageCh, recentMsgs>>
    BY <1>5 DEF NoAction, RateLimited, NotAllowed, DryRun, Unknown, Permit, Answer, twitch
  <1>6. CASE UNCHANGED vars
    BY <1>6 DEF vars, twitch, goroutine
  <1> QED
    BY <1>1, <1>2, <1>3, <1>4, <1>5, <1>6 DEF Next, Step

\* A message that arrives and finds no room is for no monitor.
LEMMA Skipped ==
  ASSUME TypeOK, NEW line \in Chat, OnPrivateMessage(line), messageCh' = messageCh
  PROVE  arrived'[Len(arrived) + 1].to \notin Monitors
  <1> DEFINE room == Len(messageCh[connections]) < Capacity
             x == [user |-> line.user, suspect |-> line.suspect,
                   to |-> IF room THEN connections ELSE 0]
  <1>0. /\ connections > 0 /\ connections \in 0..MaxConnections
        /\ arrived' = Append(arrived, x)
        /\ messageCh' = IF room THEN [messageCh EXCEPT ![connections] = Append(@, Len(arrived) + 1)]
                        ELSE messageCh
        /\ arrived \in Seq(Message) /\ messageCh \in [Monitors -> Seq(Id)]
    BY DEF OnPrivateMessage, TypeOK
  <1>1. ~ room
    <2>1. CASE room
      <3>1. connections \in Monitors
        BY <1>0, BoundAssumption DEF Monitors
      <3>2. messageCh[connections] = Append(messageCh[connections], Len(arrived) + 1)
        BY <1>0, <2>1, <3>1
      <3>3. messageCh[connections] \in Seq(Id) /\ Len(messageCh[connections]) \in Nat
        BY <1>0, <3>1
      <3>4. Len(Append(messageCh[connections], Len(arrived) + 1)) = Len(messageCh[connections]) + 1
        BY <3>3
      <3>5. Len(messageCh[connections]) = Len(messageCh[connections]) + 1
        BY <3>2, <3>4
      <3> QED
        BY <3>3, <3>5
    <2> QED
      BY <2>1
  <1>2. x.to = 0 /\ x \in Message
    <2>1. x = [user |-> line.user, suspect |-> line.suspect, to |-> 0]
      BY <1>1
    <2>2. 0 \in 0..MaxConnections
      BY BoundAssumption
    <2> QED
      BY <2>1, <2>2 DEF Message
  <1> HIDE DEF x, room
  <1>3. arrived'[Len(arrived) + 1] = x
    BY <1>0, <1>2
  <1>4. 0 \notin Monitors
    BY DEF Monitors
  <1> QED
    BY <1>2, <1>3, <1>4

\* What arrives leaves every message that waited where it was.
LEMMA StillWaiting ==
  ASSUME TypeOK, NEW line \in Chat, OnPrivateMessage(line), NEW m \in Monitors
  PROVE  /\ \A i \in 1..Len(messageCh[m]) :
              i \in 1..Len(messageCh'[m]) /\ messageCh'[m][i] = messageCh[m][i]
         /\ \/ messageCh' = messageCh
            \/ m # connections /\ messageCh'[m] = messageCh[m]
                 /\ arrived'[Len(arrived) + 1].to = connections
            \/ \E i \in 1..Len(messageCh'[m]) : messageCh'[m][i] = Len(arrived) + 1
  <1>0. messageCh \in [Monitors -> Seq(Id)] /\ messageCh[m] \in Seq(Id)
        /\ Len(messageCh[m]) \in Nat
    BY DEF TypeOK
  <1>1. CASE messageCh' = messageCh
    BY <1>1
  <1>2. CASE /\ connections \in Monitors
             /\ arrived'[Len(arrived) + 1].to = connections
             /\ messageCh' = [messageCh EXCEPT
                  ![connections] = Append(messageCh[connections], Len(arrived) + 1)]
    <2>1. CASE m # connections
      BY <1>0, <1>2, <2>1
    <2>2. CASE m = connections
      <3>1. messageCh'[m] = Append(messageCh[m], Len(arrived) + 1)
        BY <1>0, <1>2, <2>2
      <3>2. /\ Len(messageCh'[m]) = Len(messageCh[m]) + 1
            /\ messageCh'[m][Len(messageCh[m]) + 1] = Len(arrived) + 1
            /\ \A i \in 1..Len(messageCh[m]) : messageCh'[m][i] = messageCh[m][i]
        BY <1>0, <3>1
      <3>3. /\ Len(messageCh[m]) + 1 \in 1..Len(messageCh'[m])
            /\ \A i \in 1..Len(messageCh[m]) : i \in 1..Len(messageCh'[m])
        BY <1>0, <3>2
      <3> QED
        BY <3>2, <3>3
    <2> QED
      BY <2>1, <2>2
  <1> QED
    BY <1>1, <1>2, Arrival

LEMMA SettledNext == TypeOK /\ Queued /\ Settled /\ [Next]_vars => Settled'
  <1> DEFINE Waits(m, id) == \E i \in 1..Len(messageCh[m]) : messageCh[m][i] = id
             WaitsNow(m, id) == \E i \in 1..Len(messageCh'[m]) : messageCh'[m][i] = id
             BeforeNow(id, m) == \A i \in 1..Len(messageCh'[m]) : id < messageCh'[m][i]
  <1> SUFFICES ASSUME TypeOK, Queued, Settled, [Next]_vars, NEW m \in Monitors,
                      NEW id \in 1..Len(arrived'), arrived'[id].to = m
               PROVE  WaitsNow(m, id) \/ BeforeNow(id, m)
    BY DEF Settled, Before
  <1>1. CASE UNCHANGED <<arrived, messageCh>>
    BY <1>1 DEF Settled, Before
  <1>2. ASSUME NEW line \in Chat, OnPrivateMessage(line)
        PROVE  WaitsNow(m, id) \/ BeforeNow(id, m)
    <2>0. /\ Len(arrived) \in Nat /\ Len(arrived') = Len(arrived) + 1
          /\ \A i \in 1..Len(arrived) : arrived'[i] = arrived[i]
      BY <1>2, Arrival
    <2>1. CASE id = Len(arrived) + 1
      <3>1. arrived'[Len(arrived) + 1].to = m
        BY <2>1
      <3>2. messageCh' # messageCh
        BY <1>2, <3>1, Skipped
      <3> QED
        BY <1>2, <2>1, <3>1, <3>2, StillWaiting
    <2>2. CASE id \in 1..Len(arrived)
      <3>1. Sent(id, m)
        BY <2>0, <2>2 DEF Sent
      <3>2. CASE Before(id, m)
        BY <3>1, <3>2, Standing DEF Before
      <3>3. CASE Waits(m, id)
        BY <1>2, <3>3, StillWaiting
      <3> QED
        BY <3>1, <3>2, <3>3 DEF Settled, Sent
    <2>3. id \in 1..Len(arrived) \/ id = Len(arrived) + 1
      <3> HIDE DEF WaitsNow, BeforeNow
      <3> QED
        BY <2>0
    <2> QED
      BY <2>1, <2>2, <2>3
  <1>3. ASSUME NEW n \in Monitors, NEW x \in Id, Receive(n, x)
        PROVE  WaitsNow(m, id) \/ BeforeNow(id, m)
    <2>0. /\ arrived' = arrived /\ (n # m => messageCh'[m] = messageCh[m])
      BY <1>3, Taken
    <2>1. Waits(m, id) \/ Before(id, m)
      BY <2>0 DEF Settled
    <2>2. CASE n # m
      BY <2>0, <2>1, <2>2 DEF Before
    <2>3. CASE n = m /\ Before(id, m)
      BY <1>3, <2>3, Taken DEF Before
    <2>4. ASSUME NEW k \in 1..Len(messageCh[m]), messageCh[m][k] = id, n = m
          PROVE  WaitsNow(m, id) \/ BeforeNow(id, m)
      <3>0. /\ Len(messageCh[m]) \in Nat /\ Len(messageCh'[m]) = Len(messageCh[m]) - 1
            /\ \A i \in 1..Len(messageCh'[m]) :
                 messageCh'[m][i] = messageCh[m][i + 1] /\ i + 1 \in 1..Len(messageCh[m])
        BY <1>3, <2>4, Taken
      <3>1. CASE k = 1
        <4>1. ASSUME NEW i \in 1..Len(messageCh'[m]) PROVE id < messageCh'[m][i]
          <5>1. 1 \in 1..(i + 1 - 1)
            BY <3>0
          <5> QED
            BY <2>4, <3>0, <3>1, <5>1 DEF Queued
        <4> QED
          BY <4>1
      <3>2. CASE k # 1
        <4>1. k - 1 \in 1..Len(messageCh'[m]) /\ k - 1 + 1 = k
          BY <3>0, <3>2
        <4> QED
          BY <2>4, <3>0, <4>1
      <3> QED
        BY <3>1, <3>2
    <2> QED
      BY <2>1, <2>2, <2>3, <2>4
  <1> QED
    BY <1>1, <1>2, <1>3, Movement

\* What monitor m has heard changes only by what it takes from its channel, and
\* that is later than all it has heard.
LEMMA HeardTaken ==
  ASSUME TypeOK, Queued, Settled, NEW n \in Monitors, NEW x \in Id, Receive(n, x)
  PROVE  /\ \A m \in Monitors : m # n => Heard(m)' = Heard(m)
         /\ \A h \in Heard(n) : h < x
         /\ Heard(n)' = IF arrived[x].user \in Bots THEN Heard(n) ELSE Heard(n) \cup {x}
  <1> DEFINE HeardNow(m) ==
               {id \in 1..Len(arrived') : /\ arrived'[id].to = m /\ arrived'[id].user \notin Bots
                                          /\ \A i \in 1..Len(messageCh'[m]) : id < messageCh'[m][i]}
  <1> SUFFICES /\ \A m \in Monitors : m # n => HeardNow(m) = Heard(m)
               /\ \A h \in Heard(n) : h < x
               /\ HeardNow(n) = IF arrived[x].user \in Bots THEN Heard(n) ELSE Heard(n) \cup {x}
    BY DEF Heard
  <1>0. /\ x = messageCh[n][1] /\ Len(messageCh[n]) \in Nat /\ Len(messageCh[n]) >= 1
        /\ arrived' = arrived
        /\ \A m \in Monitors : m # n => messageCh'[m] = messageCh[m]
        /\ Len(messageCh'[n]) = Len(messageCh[n]) - 1
        /\ \A i \in 1..Len(messageCh'[n]) :
             messageCh'[n][i] = messageCh[n][i + 1] /\ i + 1 \in 1..Len(messageCh[n])
    BY Taken
  <1>1. \A m \in Monitors : m # n => HeardNow(m) = Heard(m)
    BY <1>0 DEF Heard
  <1>2. 1 \in 1..Len(messageCh[n])
    BY <1>0
  <1>3. \A h \in Heard(n) : h < x
    BY <1>0, <1>2 DEF Heard
  <1>4. x \in 1..Len(arrived) /\ arrived[x].to = n
    BY <1>0, <1>2 DEF Queued, Sent
  <1>5. \A i \in 1..Len(messageCh'[n]) : x < messageCh'[n][i]
    <2>1. ASSUME NEW i \in 1..Len(messageCh'[n]) PROVE x < messageCh[n][i + 1]
      <3>1. 1 \in 1..(i + 1 - 1)
        OBVIOUS
      <3> QED
        BY <1>0, <3>1 DEF Queued
    <2> QED
      BY <1>0, <2>1
  <1>6. Heard(n) \subseteq HeardNow(n)
    BY <1>0 DEF Heard
  <1>7. ASSUME NEW id \in HeardNow(n), id # x PROVE id \in Heard(n)
    <2>0. /\ id \in 1..Len(arrived) /\ arrived[id].to = n /\ arrived[id].user \notin Bots
          /\ \A i \in 1..Len(messageCh'[n]) : id < messageCh'[n][i]
      BY <1>0
    <2>1. CASE Before(id, n)
      BY <2>0, <2>1 DEF Heard, Before
    <2>2. ASSUME NEW k \in 1..Len(messageCh[n]), messageCh[n][k] = id PROVE FALSE
      <3>1. k # 1
        BY <1>0, <1>7, <2>2
      <3>2. k - 1 \in 1..Len(messageCh'[n]) /\ k - 1 + 1 = k
        BY <1>0, <3>1
      <3>3. id < id
        BY <1>0, <2>0, <2>2, <3>2
      <3>4. id \in Int
        BY <2>0
      <3> QED
        BY <3>3, <3>4
    <2> QED
      BY <2>0, <2>1, <2>2 DEF Settled
  <1>8. x \in HeardNow(n) <=> arrived[x].user \notin Bots
    BY <1>0, <1>4, <1>5
  <1>9. x \notin Heard(n)
    <2>1. x \in Int
      BY DEF Id
    <2>2. ~ (x < x)
      BY <2>1
    <2> QED
      BY <1>3, <2>2
  <1> HIDE DEF HeardNow
  <1>10. CASE arrived[x].user \in Bots
    <2>1. HeardNow(n) = Heard(n)
      BY <1>6, <1>7, <1>8, <1>10
    <2> QED
      BY <1>1, <1>3, <1>10, <2>1
  <1>11. CASE arrived[x].user \notin Bots
    <2>1. HeardNow(n) = Heard(n) \cup {x}
      BY <1>6, <1>7, <1>8, <1>11
    <2> QED
      BY <1>1, <1>3, <1>11, <2>1
  <1> QED
    BY <1>10, <1>11

LEMMA HeardArrival ==
  ASSUME TypeOK, Queued, Settled, [Next]_vars, NEW line \in Chat, OnPrivateMessage(line),
         NEW m \in Monitors
  PROVE  Heard(m)' = Heard(m)
  <1> DEFINE HeardNow ==
               {id \in 1..Len(arrived') : /\ arrived'[id].to = m /\ arrived'[id].user \notin Bots
                                          /\ \A i \in 1..Len(messageCh'[m]) : id < messageCh'[m][i]}
  <1> SUFFICES HeardNow = Heard(m)
    BY DEF Heard
  <1>0. /\ Len(arrived) \in Nat /\ Len(arrived') = Len(arrived) + 1
        /\ \A i \in 1..Len(arrived) : arrived'[i] = arrived[i]
    BY Arrival
  <1>1. ASSUME NEW id \in Heard(m) PROVE id \in HeardNow
    <2>1. Sent(id, m) /\ Before(id, m) /\ arrived[id].user \notin Bots
      BY DEF Heard, Sent, Before
    <2>2. \A i \in 1..Len(messageCh'[m]) : id < messageCh'[m][i]
      BY <2>1, Standing DEF Before
    <2> QED
      BY <1>0, <2>1, <2>2 DEF Sent
  <1>2. ASSUME NEW id \in HeardNow PROVE id \in Heard(m)
    <2>0. /\ id \in 1..Len(arrived') /\ arrived'[id].to = m /\ arrived'[id].user \notin Bots
          /\ \A i \in 1..Len(messageCh'[m]) : id < messageCh'[m][i]
      OBVIOUS
    <2>1. CASE id = Len(arrived) + 1
      <3>1. id \in Int /\ ~ (id < id)
        BY <2>0
      <3>2. arrived'[Len(arrived) + 1].to = m
        BY <2>0, <2>1
      <3>3. messageCh' # messageCh
        BY <3>2, Skipped
      <3>4. \E i \in 1..Len(messageCh'[m]) : messageCh'[m][i] = id
        BY <2>1, <3>2, <3>3, StillWaiting
      <3> QED
        BY <2>0, <3>1, <3>4
    <2>2. CASE id \in 1..Len(arrived)
      <3>1. \A i \in 1..Len(messageCh[m]) : id < messageCh[m][i]
        BY <2>0, StillWaiting
      <3> QED
        BY <1>0, <2>0, <2>2, <3>1 DEF Heard
    <2> QED
      BY <1>0, <2>0, <2>1, <2>2
  <1> QED
    BY <1>1, <1>2

LEMMA RecentNext ==
  TypeOK /\ Queued /\ Settled /\ RecentIsTail /\ [Next]_vars => RecentIsTail'
  <1> DEFINE HeardNow(m) == Heard(m)'
  <1> SUFFICES ASSUME TypeOK, Queued, Settled, RecentIsTail, [Next]_vars, NEW m \in Monitors
               PROVE  ListsLatest(recentMsgs'[m], MaxRecent, HeardNow(m))
    BY DEF RecentIsTail, ListsLatest
  <1>0. /\ ListsLatest(recentMsgs[m], MaxRecent, Heard(m))
        /\ recentMsgs \in [Monitors -> Seq(Id)]
    BY DEF RecentIsTail, TypeOK
  <1>q. ASSUME Heard(m)' = Heard(m), recentMsgs'[m] = recentMsgs[m]
        PROVE  ListsLatest(recentMsgs'[m], MaxRecent, HeardNow(m))
    BY <1>0, <1>q
  <1>1. CASE UNCHANGED <<arrived, messageCh, recentMsgs>>
    BY <1>1, <1>q DEF Heard
  <1>2. ASSUME NEW line \in Chat, OnPrivateMessage(line), UNCHANGED recentMsgs
        PROVE  ListsLatest(recentMsgs'[m], MaxRecent, HeardNow(m))
    BY <1>2, <1>q, HeardArrival
  <1>3. ASSUME NEW n \in Monitors, NEW x \in Id, Receive(n, x),
               arrived[x].user \in Bots, UNCHANGED recentMsgs
        PROVE  ListsLatest(recentMsgs'[m], MaxRecent, HeardNow(m))
    <2>1. Heard(m)' = Heard(m)
      BY <1>3, HeardTaken
    <2> QED
      BY <1>3, <1>q, <2>1
  <1>4. ASSUME NEW n \in Monitors, NEW x \in Id, Receive(n, x),
               arrived[x].user \notin Bots, AddRecent(n, x)
        PROVE  ListsLatest(recentMsgs'[m], MaxRecent, HeardNow(m))
    <2>1. CASE m # n
      <3>1. Heard(m)' = Heard(m)
        BY <1>4, <2>1, HeardTaken
      <3>2. recentMsgs'[m] = recentMsgs[m]
        BY <1>0, <1>4, <2>1 DEF AddRecent
      <3> QED
        BY <1>q, <3>1, <3>2
    <2>2. CASE m = n
      <3>1. HeardNow(m) = Heard(m) \cup {x} /\ \A h \in Heard(m) : h < x
        BY <1>4, <2>2, HeardTaken
      <3>2. recentMsgs'[m] =
              Append(IF Len(recentMsgs[m]) >= MaxRecent THEN Tail(recentMsgs[m])
                     ELSE recentMsgs[m], x)
        BY <1>0, <1>4, <2>2 DEF AddRecent
      <3>3. Heard(m) \in SUBSET Nat
        BY DEF Heard
      <3>4. MaxRecent \in Nat \ {0} /\ recentMsgs[m] \in Seq(Id)
        BY <1>0, BoundAssumption
      <3> QED
        <4>1. ListsLatest(Append(IF Len(recentMsgs[m]) >= MaxRecent THEN Tail(recentMsgs[m])
                                 ELSE recentMsgs[m], x), MaxRecent, Heard(m) \cup {x})
          BY <1>0, <3>1, <3>3, <3>4, AddLatest
        <4> HIDE DEF HeardNow
        <4> QED
          BY <3>1, <3>2, <4>1
    <2> QED
      BY <2>1, <2>2
  <1> QED
    BY <1>1, <1>2, <1>3, <1>4, Remembering

(* What the LLM judges a message in is the latest of the messages of its   *)
(* connection that are not a bot's (addRecentMessage), whatever the        *)
(* channel drops and however many monitors there are: for every capacity   *)
(* and every length of the history.                                        *)
THEOREM RecentLines == Spec => []RecentIsTail
  <1>1. Init => Settled /\ RecentIsTail
    BY BoundAssumption DEF Init, Settled, RecentIsTail, ListsLatest, Heard
  <1>2. Inv /\ Settled /\ RecentIsTail /\ [Next]_vars => (Settled /\ RecentIsTail)'
    BY SettledNext, RecentNext DEF Inv
  <1> QED
    BY <1>1, <1>2, Invariant, PTL DEF Spec

=============================================================================
