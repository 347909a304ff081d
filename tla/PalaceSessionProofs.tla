------------------------- MODULE PalaceSessionProofs ------------------------
(***************************************************************************)
(* Proofs about the sessions of the chat, for every number of messages and *)
(* every size of a batch, and, in the second half, about the palace of the *)
(* streams (MemPalace).                                                    *)
(***************************************************************************)
EXTENDS PalaceSession, MemPalace, FiniteSetTheorems, TLAPS

(***************************************************************************)
(* The registry, from one phase of Shutdown to the next. EndAll keeps its  *)
(* lock until it has removed the directory: whoever makes a session does   *)
(* it before, and EndAll ends it, or after, and nobody does.               *)
(***************************************************************************)
Phase ==
  /\ main \in {"up", "stopping"} => begun <= 1 /\ entry = begun /\ ended = {} /\ mu # "main"
  /\ main = "ending" => /\ mu = "main" /\ begun <= 1 /\ entry = begun
                        /\ ended = {entry} \ {0}
  /\ main \in {"ended", "exited"} => /\ mu # "main" /\ entry \in {0, begun}
                                     /\ ended \subseteq {1} /\ entry \notin ended
                                     /\ ended # {} => begun > 0
                                     /\ entry = 0 => begun <= 1

\* A session has its directory, and so has the one that is being made.
Directory ==
  /\ mu = "chat" => entry = 0 /\ palaceDir
  /\ entry # 0 /\ main # "ending" => palaceDir

\* Which goroutines there are.
Begun ==
  /\ \A s \in Session : home[Loop(s)] = s /\ (s > begun => pc[Loop(s)] = "none")
  /\ \A m \in Message : /\ m > arrived => pc[m] = "none"
                        /\ pc[m] # "none" => home[m] \in Session
  /\ mu = "chat" => arrived \in Message /\ pc[arrived] = "none"

(***************************************************************************)
(* Where a message is: not yet in a buffer, in the buffer of its session,  *)
(* in one batch, or settled.                                               *)
(***************************************************************************)
InBuffer(m, s) == \E i \in 1..Len(messageBuf[s]) : messageBuf[s][i] = m
Waits(m) == pc[m] \in {"none", "append"}

Distinct(q) == \A i, j \in 1..Len(q) : q[i] = q[j] => i = j

PlaceOf(m) ==
  /\ \A s \in Session : InBuffer(m, s) =>
       /\ home[m] = s /\ ~ Waits(m) /\ ~ Settled(m)
       /\ \A g \in Goroutines : m \notin batch[g]
  /\ \A g \in Goroutines : m \in batch[g] =>
       /\ ~ Waits(m) /\ ~ Settled(m)
       /\ \A h \in Goroutines : m \in batch[h] => h = g
  /\ Waits(m) => ~ Settled(m)
  /\ \/ Waits(m) \/ Settled(m)
     \/ \E s \in Session : InBuffer(m, s)
     \/ \E g \in Goroutines : m \in batch[g]
  /\ received[m] <= 1

OnePlace == /\ \A s \in Session : Distinct(messageBuf[s])
            /\ \A m \in Message : PlaceOf(m)

Frame == Phase /\ Directory /\ Begun

Inv == TypeOK /\ Frame /\ OnePlace

-----------------------------------------------------------------------------
(* Steps.                                                                  *)

Mining == {"mining", "final mining"}

LEMMA Kinds ==
  /\ Message \subseteq Goroutines
  /\ \A s \in Session : Loop(s) \in Goroutines /\ Loop(s) \notin Message
  /\ \A s, t \in Session : Loop(s) = Loop(t) => s = t
  /\ \A g \in Goroutines : g \in Message \/ \E s \in Session : g = Loop(s)
  BY DEF Goroutines, Loops, Loop, Message, Session

\* A goroutine that waits or flushes goes to another place, with nothing in
\* its hands before and after.
Turns(g) ==
  /\ \E place \in {"select", "flush", "final", "done"} : pc' = [pc EXCEPT ![g] = place]
  /\ pc[g] \notin {"none", "append"} /\ batch[g] = {}
  /\ UNCHANGED <<registry, palaceDir, arrived, home, messageBuf, batch, outcome>>

LEMMA Steps ==
  ASSUME TypeOK, [Next]_vars
  PROVE  \/ HandleChat \/ BeginSession \/ InitFails \/ EnterSession
         \/ \E m \in Message : AppendAndCheck(m)
         \/ \E g \in Goroutines : Turns(g) \/ Swap(g) \/ Mine(g)
         \/ Interrupt \/ EndAll \/ RemoveAll \/ Exit
         \/ UNCHANGED vars
  <1>1. ASSUME NEW g \in Goroutines, NothingToFlush(g) \/ MineReturns(g) PROVE Turns(g)
    BY <1>1 DEF NothingToFlush, MineReturns, Turns, Goto, Flushed, TypeOK
  <1>2. ASSUME NEW s \in Session, TakeTick(s) \/ TakeStop(s)
        PROVE  Loop(s) \in Goroutines /\ Turns(Loop(s))
    BY <1>2, Kinds DEF TakeTick, TakeStop, Turns, Goto, TypeOK
  <1>3. ASSUME NEW g \in Goroutines, Flush(g) PROVE Turns(g) \/ Swap(g) \/ Mine(g)
    BY <1>1, <1>3 DEF Flush
  <1> QED
    BY <1>2, <1>3, Kinds DEF Next, Callback, Create, IndexMessage, FlushLoop, Shutdown

-----------------------------------------------------------------------------
(* The registry and the directory.                                         *)

LEMMA FrameNext == TypeOK /\ Frame /\ [Next]_vars => Frame'
  <1> SUFFICES ASSUME TypeOK, Frame, [Next]_vars PROVE Frame'
    OBVIOUS
  <1>0. /\ begun \in {0, 1, 2} /\ entry \in {0, 1, 2} /\ arrived \in 0..MaxMessages
        /\ pc \in [Goroutines -> Places] /\ home \in [Goroutines -> {0} \cup Session]
        /\ Session = {1, 2} /\ main \in {"up", "stopping", "ending", "ended", "exited"}
    <2>1. Session = {1, 2}
      BY DEF Session
    <2> QED
      BY <2>1 DEF TypeOK
  <1>1. CASE HandleChat
    <2>1. /\ arrived' = arrived + 1 /\ arrived' \in Message /\ entry \in Session
          /\ pc' = [pc EXCEPT ![arrived + 1] = "append"]
          /\ home' = [home EXCEPT ![arrived + 1] = entry]
          /\ UNCHANGED <<registry, palaceDir>> /\ mu = "free"
      BY <1>0, <1>1, PalaceAssumption DEF HandleChat, Index, Goto, Message
    <2>2. Begun'
      <3>1. \A g \in Goroutines : g # arrived' => pc'[g] = pc[g] /\ home'[g] = home[g]
        BY <1>0, <2>1
      <3>2. \A s \in Session : home'[Loop(s)] = s /\ (s > begun => pc'[Loop(s)] = "none")
        BY <2>1, <3>1, Kinds DEF Frame, Begun
      <3>3. home'[arrived'] = entry
        BY <1>0, <2>1, Kinds
      <3>4. ASSUME NEW m \in Message
            PROVE  /\ m > arrived' => pc'[m] = "none"
                   /\ pc'[m] # "none" => home'[m] \in Session
        <4>1. m > arrived' => m > arrived /\ m # arrived'
          BY <1>0, <2>1 DEF Message
        <4> QED
          BY <2>1, <3>1, <3>3, <4>1, Kinds DEF Frame, Begun
      <3> QED
        BY <2>1, <3>2, <3>4 DEF Begun, registry
    <2> QED
      BY <2>1, <2>2 DEF Frame, Phase, Directory, registry
  <1>2. CASE BeginSession
    <2>1. /\ arrived' = arrived + 1 /\ arrived' \in Message /\ arrived' > arrived
          /\ entry = 0 /\ mu = "free" /\ mu' = "chat" /\ palaceDir' = TRUE
          /\ UNCHANGED <<main, entry, begun, ended, pc, home>>
      BY <1>0, <1>2, PalaceAssumption DEF BeginSession, Message
    <2>2. \A m \in Message : m > arrived' => m > arrived
      BY <1>0, <2>1 DEF Message
    <2> QED
      BY <2>1, <2>2 DEF Frame, Phase, Directory, Begun
  <1>3. CASE InitFails
    <2>1. /\ arrived' = arrived + 1 /\ entry = 0 /\ mu = "free"
          /\ UNCHANGED <<registry, pc, home>>
      BY <1>3 DEF InitFails
    <2>2. \A m \in Message : m > arrived' => m > arrived
      BY <1>0, <2>1 DEF Message
    <2> QED
      BY <2>1, <2>2 DEF Frame, Phase, Directory, Begun, registry
  <1>4. CASE EnterSession
    <2> DEFINE s == begun + 1
    <2>1. /\ mu = "chat" /\ mu' = "free" /\ entry' = s /\ begun' = s
          /\ pc' = [pc EXCEPT ![Loop(s)] = "select", ![arrived] = "append"]
          /\ home' = [home EXCEPT ![arrived] = s]
          /\ UNCHANGED <<main, ended, palaceDir, arrived>>
      BY <1>4 DEF EnterSession
    <2>2. entry = 0 /\ palaceDir /\ arrived \in Message /\ pc[arrived] = "none"
      BY <2>1 DEF Frame, Directory, Begun
    <2>3. begun <= 1 /\ main # "ending"
      BY <1>0, <2>1, <2>2 DEF Frame, Phase
    <2>4. s \in Session /\ s # 0
      BY <1>0, <2>3
    <2>5. Phase'
      <3>1. CASE main \in {"up", "stopping"}
        <4>1. begun = 0 /\ ended = {}
          BY <2>2, <3>1 DEF Frame, Phase
        <4> QED
          BY <2>1, <3>1, <4>1 DEF Phase
      <3>2. CASE main \in {"ended", "exited"}
        <4>1. ended \subseteq {1} /\ (ended # {} => begun = 1)
          BY <1>0, <2>3, <3>2 DEF Frame, Phase
        <4>2. s \notin ended
          BY <4>1
        <4> QED
          BY <1>0, <2>1, <2>4, <3>2, <4>1, <4>2 DEF Phase
      <3> QED
        BY <1>0, <2>3, <3>1, <3>2
    <2>6. Directory'
      BY <2>1, <2>2 DEF Directory
    <2>7. Begun'
      <3>1. /\ \A g \in Goroutines : g \notin {arrived, Loop(s)} => pc'[g] = pc[g]
            /\ \A g \in Goroutines : g # arrived => home'[g] = home[g]
            /\ home'[arrived] = s /\ arrived # Loop(s)
        BY <1>0, <2>1, <2>2, <2>4, Kinds
      <3>2. ASSUME NEW t \in Session
            PROVE  home'[Loop(t)] = t /\ (t > s => pc'[Loop(t)] = "none")
        <4>1. t > s => t > begun /\ Loop(t) # Loop(s)
          BY <1>0, Kinds, <2>4
        <4> QED
          BY <2>2, <3>1, <4>1, Kinds DEF Frame, Begun
      <3>3. \A m \in Message : m # Loop(s) /\ (m > arrived => m # arrived)
        BY <2>2, <2>4, Kinds DEF Message
      <3>4. \A m \in Message : /\ m > arrived => pc'[m] = "none"
                               /\ pc'[m] # "none" => home'[m] \in Session
        BY <2>4, <3>1, <3>3, Kinds DEF Frame, Begun
      <3> HIDE DEF s
      <3> QED
        BY <2>1, <3>2, <3>4 DEF Begun
    <2> QED
      BY <2>5, <2>6, <2>7 DEF Frame
  <1>5. ASSUME NEW m \in Message, AppendAndCheck(m) PROVE Frame'
    <2>1. /\ pc[m] = "append" /\ \E place \in {"flush", "done"} : pc' = [pc EXCEPT ![m] = place]
          /\ UNCHANGED <<registry, palaceDir, arrived, home>>
      BY <1>5 DEF AppendAndCheck, Goto
    <2>2. \A g \in Goroutines : pc'[g] = pc[g] \/ g = m
      BY <1>0, <2>1
    <2>3. \A s \in Session : Loop(s) \in Goroutines /\ Loop(s) # m
      BY Kinds
    <2>4. Begun'
      BY <2>1, <2>2, <2>3, Kinds DEF Frame, Begun, registry
    <2> QED
      BY <2>1, <2>4 DEF Frame, Phase, Directory, registry
  <1>6. ASSUME NEW g \in Goroutines, Turns(g) \/ Swap(g) \/ Mine(g) PROVE Frame'
    <2>1. /\ pc' = pc \/ \E place \in Places : pc' = [pc EXCEPT ![g] = place]
          /\ pc[g] # "none" /\ (palaceDir => palaceDir')
          /\ UNCHANGED <<registry, arrived, home>>
      BY <1>6 DEF Turns, Swap, Mine, HandleMine, Goto, Places
    <2>2. \A h \in Goroutines : pc[h] = "none" => pc'[h] = "none"
      BY <1>0, <2>1
    <2>3. Begun'
      <3>1. \A m \in Message : pc'[m] # "none" => home[m] \in Session
        BY <1>0, <2>1, Kinds DEF Frame, Begun
      <3> QED
        BY <2>1, <2>2, <3>1, Kinds DEF Frame, Begun, registry
    <2> QED
      BY <2>1, <2>3 DEF Frame, Phase, Directory, registry
  <1>7. CASE Interrupt \/ EndAll \/ Exit
    BY <1>0, <1>7 DEF Interrupt, EndAll, Exit, Frame, Phase, Directory, Begun
  <1>8. CASE RemoveAll
    <2>1. /\ main = "ending" /\ mu = "main" /\ entry' = 0 /\ mu' = "free" /\ main' = "ended"
          /\ begun <= 1 /\ entry = begun /\ ended = {entry} \ {0}
          /\ UNCHANGED <<begun, ended, arrived, pc, home>>
      BY <1>8 DEF RemoveAll, Frame, Phase
    <2> QED
      BY <1>0, <2>1 DEF Frame, Phase, Directory, Begun
  <1>9. CASE UNCHANGED vars
    BY <1>9 DEF vars, registry, Frame, Phase, Directory, Begun
  <1> QED
    BY <1>1, <1>2, <1>3, <1>4, <1>5, <1>6, <1>7, <1>8, <1>9, Steps

-----------------------------------------------------------------------------
(* Types.                                                                  *)

LEMMA InitFrame == Init => Frame
  <1> SUFFICES ASSUME Init PROVE Frame
    OBVIOUS
  <1>1. \A s \in Session : home[Loop(s)] = s /\ pc[Loop(s)] = "none"
    <2>1. \A s \in Session : Loop(s) \in Loops /\ - Loop(s) = s
      BY DEF Loops, Loop, Session
    <2> QED
      BY <2>1, Kinds DEF Init
  <1> QED
    <2>1. Phase /\ Directory
      BY DEF Init, Phase, Directory
    <2>2. \A m \in Message : pc[m] = "none"
      BY Kinds DEF Init
    <2>3. Begun
      BY <1>1, <2>2 DEF Init, Begun
    <2> QED
      BY <2>1, <2>3 DEF Frame

LEMMA TypeInit == Init => TypeOK
  <1> SUFFICES ASSUME Init PROVE TypeOK
    OBVIOUS
  <1>1. \A g \in Loops : - g \in Session
    BY DEF Loops, Loop, Session
  <1>2. home \in [Goroutines -> {0} \cup Session]
    BY <1>1 DEF Init
  <1>3. messageBuf \in [Session -> Seq(Message)] /\ 0 \in 0..MaxMessages
    BY PalaceAssumption DEF Init
  <1> QED
    BY <1>2, <1>3 DEF Init, TypeOK, Places

\* What the registry may hold follows from the phase of Shutdown.
LEMMA RegistryTypes ==
  TypeOK /\ Frame /\ [Next]_vars =>
    /\ main' \in {"up", "stopping", "ending", "ended", "exited"}
    /\ mu' \in {"free", "chat", "main"} /\ palaceDir' \in BOOLEAN
    /\ entry' \in {0} \cup Session /\ begun' \in {0} \cup Session /\ ended' \subseteq Session
    /\ arrived' \in 0..MaxMessages
  <1> SUFFICES ASSUME TypeOK, Frame, [Next]_vars
               PROVE  /\ main' \in {"up", "stopping", "ending", "ended", "exited"}
                      /\ mu' \in {"free", "chat", "main"} /\ palaceDir' \in BOOLEAN
                      /\ entry' \in {0} \cup Session /\ begun' \in {0} \cup Session
                      /\ ended' \subseteq Session /\ arrived' \in 0..MaxMessages
    OBVIOUS
  <1>0. /\ main \in {"up", "stopping", "ending", "ended", "exited"}
        /\ mu \in {"free", "chat", "main"} /\ palaceDir \in BOOLEAN
        /\ entry \in {0} \cup Session /\ begun \in {0} \cup Session /\ ended \subseteq Session
        /\ arrived \in 0..MaxMessages
    BY DEF TypeOK
  <1>1. CASE HandleChat \/ BeginSession \/ InitFails
    <2>1. arrived' = arrived + 1 /\ arrived < MaxMessages
      BY <1>1 DEF HandleChat, BeginSession, InitFails
    <2>2. arrived' \in 0..MaxMessages
      BY <1>0, <2>1, PalaceAssumption
    <2> QED
      BY <1>0, <1>1, <2>2 DEF HandleChat, BeginSession, InitFails, registry
  <1>2. CASE EnterSession
    <2>1. mu = "chat" /\ begun <= 1
      BY <1>0, <1>2 DEF EnterSession, Frame, Phase, Directory
    <2>2. begun + 1 \in Session
      BY <1>0, <2>1 DEF Session
    <2> QED
      BY <1>0, <1>2, <2>2 DEF EnterSession
  <1>3. ASSUME \/ \E m \in Message : AppendAndCheck(m)
               \/ \E g \in Goroutines : Turns(g) \/ Swap(g)
               \/ UNCHANGED vars
        PROVE  UNCHANGED <<registry, arrived, palaceDir>>
    BY <1>3 DEF AppendAndCheck, Turns, Swap, vars
  <1>4. ASSUME NEW g \in Goroutines, Mine(g)
        PROVE  UNCHANGED <<registry, arrived>> /\ palaceDir' \in BOOLEAN
    BY <1>0, <1>4 DEF Mine, HandleMine
  <1>5. CASE Interrupt \/ EndAll \/ Exit
    BY <1>0, <1>5 DEF Interrupt, EndAll, Exit
  <1>6. CASE RemoveAll
    BY <1>0, <1>6 DEF RemoveAll
  <1> QED
    BY <1>0, <1>1, <1>2, <1>3, <1>4, <1>5, <1>6, Steps DEF registry

\* What a request does to the messages it carries.
LEMMA MineSettles ==
  ASSUME TypeOK, NEW g \in Goroutines, Mine(g)
  PROVE  /\ pc[g] \in Mining
         /\ \E sent \in SUBSET batch[g] :
              /\ batch' = [batch EXCEPT ![g] = batch[g] \ sent]
              /\ \A m \in Message \ sent : received'[m] = received[m]
              /\ \A m \in sent : /\ received'[m] \in {received[m], received[m] + 1}
                                 /\ received'[m] = received[m] => m \in failed'
              /\ failed \subseteq failed' /\ failed' \subseteq failed \cup sent
         /\ received' \in [Message -> Nat]
         /\ UNCHANGED <<registry, arrived, pc, home, messageBuf>>
  <1>1. PICK sent \in RoomMsgs(g), stored \in BOOLEAN, answered \in BOOLEAN :
           /\ IF stored THEN HandleMine(sent) ELSE UNCHANGED <<received, palaceDir>>
           /\ failed' = IF stored /\ answered THEN failed ELSE failed \cup sent
           /\ batch' = [batch EXCEPT ![g] = @ \ sent]
    BY DEF Mine
  <1>2. sent \subseteq batch[g] /\ batch[g] \subseteq Message
    BY DEF RoomMsgs, TypeOK
  <1>3. received \in [Message -> Nat]
    BY DEF TypeOK
  <1>4. CASE stored
    <2>1. received' = [m \in Message |-> received[m] + (IF m \in sent THEN 1 ELSE 0)]
      BY <1>1, <1>4 DEF HandleMine
    <2>2. /\ received' \in [Message -> Nat]
          /\ \A m \in Message \ sent : received'[m] = received[m]
          /\ \A m \in sent : received'[m] = received[m] + 1 /\ received'[m] # received[m]
      BY <1>2, <1>3, <2>1
    <2> QED
      BY <1>1, <1>2, <2>2 DEF Mine, Mining
  <1>5. CASE ~ stored
    <2>1. received' = received /\ failed' = failed \cup sent
      BY <1>1, <1>5
    <2> QED
      BY <1>1, <1>2, <1>3, <2>1 DEF Mine, Mining
  <1> QED
    BY <1>4, <1>5

LEMMA TypeNext == TypeOK /\ Frame /\ [Next]_vars => TypeOK'
  <1> SUFFICES ASSUME TypeOK, Frame, [Next]_vars PROVE TypeOK'
    OBVIOUS
  <1>0. /\ pc \in [Goroutines -> Places] /\ home \in [Goroutines -> {0} \cup Session]
        /\ messageBuf \in [Session -> Seq(Message)]
        /\ batch \in [Goroutines -> SUBSET Message]
        /\ \A g \in Goroutines : pc[g] \notin Mining => batch[g] = {}
        /\ received \in [Message -> Nat] /\ failed \subseteq Message
    BY DEF TypeOK, Mining
  <1> DEFINE Threads == /\ pc' \in [Goroutines -> Places]
                        /\ home' \in [Goroutines -> {0} \cup Session]
                        /\ messageBuf' \in [Session -> Seq(Message)]
                        /\ batch' \in [Goroutines -> SUBSET Message]
                        /\ \A g \in Goroutines : pc'[g] \notin Mining => batch'[g] = {}
                        /\ received' \in [Message -> Nat] /\ failed' \subseteq Message
  <1> SUFFICES Threads
    BY RegistryTypes DEF TypeOK, Mining
  <1>1. CASE HandleChat
    <2>1. /\ entry \in Session
          /\ pc' = [pc EXCEPT ![arrived + 1] = "append"]
          /\ home' = [home EXCEPT ![arrived + 1] = entry]
          /\ UNCHANGED <<messageBuf, batch, outcome>>
          /\ arrived < MaxMessages /\ arrived \in 0..MaxMessages
      BY <1>1 DEF HandleChat, Index, Goto, TypeOK
    <2>2. arrived + 1 \in Message
      BY <2>1, PalaceAssumption DEF Message
    <2>3. pc[arrived + 1] = "none"
      BY <2>1, <2>2 DEF Frame, Begun
    <2>4. batch[arrived + 1] = {}
      BY <1>0, <2>2, <2>3, Kinds DEF Mining
    <2> QED
      BY <1>0, <2>1, <2>4 DEF Places, outcome
  <1>2. CASE BeginSession \/ InitFails \/ Interrupt \/ EndAll \/ RemoveAll \/ Exit
             \/ UNCHANGED vars
    <2>1. UNCHANGED <<pc, home, messageBuf, batch, outcome>>
      BY <1>2 DEF BeginSession, InitFails, Interrupt, EndAll, RemoveAll, Exit, vars
    <2> QED
      BY <1>0, <2>1 DEF outcome
  <1>3. CASE EnterSession
    <2> DEFINE s == begun + 1
    <2>1. /\ mu = "chat"
          /\ pc' = [pc EXCEPT ![Loop(s)] = "select", ![arrived] = "append"]
          /\ home' = [home EXCEPT ![arrived] = s]
          /\ UNCHANGED <<messageBuf, batch, outcome>>
          /\ begun' = s
      BY <1>3 DEF EnterSession
    <2>2. s # 0 /\ s > begun
      <3>1. begun \in {0} \cup 1..2
        BY DEF TypeOK, Session
      <3> QED
        BY <3>1
    <2>3. s \in Session
      BY <2>1, <2>2, RegistryTypes
    <2>5. arrived \in Message /\ pc[arrived] = "none" /\ pc[Loop(s)] = "none"
      BY <2>1, <2>2, <2>3 DEF Frame, Begun
    <2>4. batch[arrived] = {} /\ batch[Loop(s)] = {}
      BY <1>0, <2>3, <2>5, Kinds DEF Mining
    <2> HIDE DEF s
    <2> QED
      BY <1>0, <2>1, <2>3, <2>4 DEF Places, outcome
  <1>4. ASSUME NEW m \in Message, AppendAndCheck(m) PROVE Threads
    <2>1. /\ pc[m] = "append" /\ \E place \in {"flush", "done"} : pc' = [pc EXCEPT ![m] = place]
          /\ messageBuf' = [messageBuf EXCEPT ![home[m]] = Append(@, m)]
          /\ UNCHANGED <<home, batch, outcome>>
      BY <1>4 DEF AppendAndCheck, Goto
    <2>2. home[m] \in Session /\ m \in Goroutines
      BY <2>1, Kinds DEF Frame, Begun
    <2>3. Append(messageBuf[home[m]], m) \in Seq(Message)
      BY <1>0, <2>2
    <2>4. batch[m] = {}
      BY <1>0, <2>1, <2>2 DEF Mining
    <2> QED
      BY <1>0, <2>1, <2>3, <2>4 DEF Places, outcome
  <1>5. ASSUME NEW g \in Goroutines, Turns(g) PROVE Threads
    BY <1>0, <1>5 DEF Turns, Places, outcome
  <1>6. ASSUME NEW g \in Goroutines, Swap(g) PROVE Threads
    <2>1. /\ \E place \in Mining : pc' = [pc EXCEPT ![g] = place]
          /\ batch' = [batch EXCEPT ![g] = Elements(Buffer(g))]
          /\ messageBuf' = [messageBuf EXCEPT ![home[g]] = <<>>]
          /\ UNCHANGED <<home, outcome>> /\ pc[g] \in {"flush", "final"}
      BY <1>6 DEF Swap, Goto, Mining
    <2>2. home[g] \in Session
      BY <1>0, <2>1, Kinds DEF Frame, Begun
    <2>3. Elements(Buffer(g)) \subseteq Message
      BY <1>0, <2>2 DEF Elements, Buffer
    <2>4. pc' \in [Goroutines -> Places] /\ messageBuf' \in [Session -> Seq(Message)]
      <3>1. Mining \subseteq Places /\ <<>> \in Seq(Message)
        BY DEF Mining, Places
      <3>2. pc' \in [Goroutines -> Places]
        BY <1>0, <2>1, <3>1
      <3>3. messageBuf' \in [Session -> Seq(Message)]
        BY <1>0, <2>1, <3>1
      <3> QED
        BY <3>2, <3>3
    <2>5. batch' \in [Goroutines -> SUBSET Message]
      BY <1>0, <2>1, <2>3
    <2>6. \A h \in Goroutines : pc'[h] \notin Mining => batch'[h] = {}
      BY <1>0, <2>1
    <2> QED
      BY <1>0, <2>1, <2>4, <2>5, <2>6 DEF outcome
  <1>7. ASSUME NEW g \in Goroutines, Mine(g) PROVE Threads
    <2>1. PICK sent \in SUBSET batch[g] : /\ batch' = [batch EXCEPT ![g] = batch[g] \ sent]
                                          /\ failed' \subseteq failed \cup sent
      BY <1>7, MineSettles
    <2>2. received' \in [Message -> Nat] /\ UNCHANGED <<pc, home, messageBuf>> /\ pc[g] \in Mining
      BY <1>7, MineSettles
    <2> QED
      BY <1>0, <2>1, <2>2
  <1> QED
    BY <1>1, <1>2, <1>3, <1>4, <1>5, <1>6, <1>7, Steps

-----------------------------------------------------------------------------
(* Where the messages are.                                                 *)

LEMMA AppendElements ==
  ASSUME NEW S, NEW q \in Seq(S), NEW x \in S
  PROVE  /\ \A y : (\E i \in 1..Len(Append(q, x)) : Append(q, x)[i] = y)
                   <=> y = x \/ \E i \in 1..Len(q) : q[i] = y
         /\ Distinct(q) /\ (\A i \in 1..Len(q) : q[i] # x) => Distinct(Append(q, x))
  <1> DEFINE n == Len(q)
             p == Append(q, x)
  <1>1. /\ n \in Nat /\ Len(p) = n + 1 /\ p[n + 1] = x
        /\ \A i \in 1..n : p[i] = q[i]
    OBVIOUS
  <1>2. \A i : i \in 1..(n + 1) <=> i \in 1..n \/ i = n + 1
    BY <1>1
  <1>3. n + 1 \notin 1..n
    BY <1>1
  <1> HIDE DEF n, p
  <1>4. \A y : (\E i \in 1..Len(p) : p[i] = y) <=> y = x \/ \E i \in 1..n : q[i] = y
    BY <1>1, <1>2
  <1>5. ASSUME Distinct(q), \A i \in 1..n : q[i] # x PROVE Distinct(p)
    <2> SUFFICES ASSUME NEW i \in 1..(n + 1), NEW j \in 1..(n + 1), p[i] = p[j] PROVE i = j
      BY <1>1 DEF Distinct
    <2>1. \A k, l \in 1..n : q[k] = q[l] => k = l
      BY <1>5 DEF Distinct, n
    <2> QED
      BY <1>1, <1>2, <1>5, <2>1
  <1> QED
    BY <1>4, <1>5 DEF n, p

\* A step that moves no message leaves each where it is.
LEMMA Unmoved ==
  ASSUME OnePlace, UNCHANGED <<messageBuf, batch, outcome>>,
         \A m \in Message : /\ pc'[m] \in {"none", "append"} <=> Waits(m)
                            /\ ~ Waits(m) => home'[m] = home[m]
  PROVE  OnePlace'
  BY DEF OnePlace, PlaceOf, InBuffer, Waits, Settled, outcome

LEMMA OnePlaceNext == Inv /\ [Next]_vars => OnePlace'
  <1> SUFFICES ASSUME Inv, [Next]_vars PROVE OnePlace'
    OBVIOUS
  <1> DEFINE InBufferNow(m, s) == \E i \in 1..Len(messageBuf'[s]) : messageBuf'[s][i] = m
             SettledNow(m) == received'[m] > 0 \/ m \in failed'
             WaitsNow(m) == pc'[m] \in {"none", "append"}
             PlaceNow(m) ==
               /\ \A s \in Session : InBufferNow(m, s) =>
                    /\ home'[m] = s /\ ~ WaitsNow(m) /\ ~ SettledNow(m)
                    /\ \A g \in Goroutines : m \notin batch'[g]
               /\ \A g \in Goroutines : m \in batch'[g] =>
                    /\ ~ WaitsNow(m) /\ ~ SettledNow(m)
                    /\ \A h \in Goroutines : m \in batch'[h] => h = g
               /\ WaitsNow(m) => ~ SettledNow(m)
               /\ \/ WaitsNow(m) \/ SettledNow(m)
                  \/ \E s \in Session : InBufferNow(m, s)
                  \/ \E g \in Goroutines : m \in batch'[g]
               /\ received'[m] <= 1
  <1>0. /\ TypeOK /\ Frame /\ OnePlace
        /\ pc \in [Goroutines -> Places] /\ home \in [Goroutines -> {0} \cup Session]
        /\ messageBuf \in [Session -> Seq(Message)]
        /\ batch \in [Goroutines -> SUBSET Message]
        /\ received \in [Message -> Nat]
    BY DEF Inv, TypeOK
  <1>1. (\A s \in Session : Distinct(messageBuf'[s])) /\ (\A m \in Message : PlaceNow(m))
          => OnePlace'
    BY DEF OnePlace, PlaceOf, InBuffer, Waits, Settled, Distinct
  <1>2. CASE HandleChat
    <2>1. /\ pc' = [pc EXCEPT ![arrived + 1] = "append"]
          /\ home' = [home EXCEPT ![arrived + 1] = entry]
          /\ UNCHANGED <<messageBuf, batch, outcome>>
          /\ arrived < MaxMessages /\ arrived \in 0..MaxMessages
      BY <1>0, <1>2 DEF HandleChat, Index, Goto, TypeOK
    <2>2. arrived + 1 \in Message
      BY <2>1, PalaceAssumption DEF Message
    <2>3. pc[arrived + 1] = "none"
      BY <1>0, <2>1, <2>2 DEF Frame, Begun
    <2> QED
      BY <1>0, <2>1, <2>2, <2>3, Kinds, Unmoved DEF Waits
  <1>3. CASE BeginSession \/ InitFails \/ Interrupt \/ EndAll \/ RemoveAll \/ Exit
             \/ UNCHANGED vars
    <2>1. UNCHANGED <<pc, home, messageBuf, batch, outcome>>
      BY <1>3 DEF BeginSession, InitFails, Interrupt, EndAll, RemoveAll, Exit, vars
    <2> QED
      BY <1>0, <2>1, Unmoved DEF Waits
  <1>4. CASE EnterSession
    <2> DEFINE s == begun + 1
    <2>1. /\ mu = "chat" /\ begun' = s
          /\ pc' = [pc EXCEPT ![Loop(s)] = "select", ![arrived] = "append"]
          /\ home' = [home EXCEPT ![arrived] = s]
          /\ UNCHANGED <<messageBuf, batch, outcome>>
      BY <1>4 DEF EnterSession
    <2>2. arrived \in Message /\ pc[arrived] = "none"
      BY <1>0, <2>1 DEF Frame, Begun
    <2>3. \A m \in Message : m # Loop(s)
      <3>1. begun \in {0} \cup 1..2
        BY <1>0 DEF TypeOK, Session
      <3>2. s \in Int /\ s >= 1
        BY <3>1
      <3> HIDE DEF s
      <3> QED
        BY <3>2, PalaceAssumption DEF Loop, Message
    <2> HIDE DEF s
    <2>4. ASSUME NEW m \in Message
          PROVE  /\ pc'[m] \in {"none", "append"} <=> Waits(m)
                 /\ ~ Waits(m) => home'[m] = home[m]
      BY <1>0, <2>1, <2>2, <2>3, Kinds DEF Waits
    <2> QED
      BY <1>0, <2>1, <2>4, Unmoved
  <1>5. ASSUME NEW g \in Goroutines, Turns(g) PROVE OnePlace'
    <2>1. /\ \E place \in {"select", "flush", "final", "done"} : pc' = [pc EXCEPT ![g] = place]
          /\ pc[g] \notin {"none", "append"}
          /\ UNCHANGED <<home, messageBuf, batch, outcome>>
      BY <1>5 DEF Turns
    <2> QED
      BY <1>0, <2>1, Kinds, Unmoved DEF Waits
  <1>6. ASSUME NEW x \in Message, AppendAndCheck(x) PROVE OnePlace'
    <2> DEFINE t == home[x]
    <2>1. /\ pc[x] = "append" /\ \E place \in {"flush", "done"} : pc' = [pc EXCEPT ![x] = place]
          /\ messageBuf' = [messageBuf EXCEPT ![t] = Append(messageBuf[t], x)]
          /\ UNCHANGED <<home, batch, received, failed>>
      BY <1>6 DEF AppendAndCheck, Goto, outcome
    <2>2. t \in Session /\ x \in Goroutines
      BY <1>0, <2>1, Kinds DEF Frame, Begun
    <2>3. Waits(x) /\ ~ WaitsNow(x) /\ \A m \in Message : m # x => (WaitsNow(m) <=> Waits(m))
      BY <1>0, <2>1, <2>2, Kinds DEF Waits
    <2>4. /\ ~ Settled(x) /\ (\A s \in Session : ~ InBuffer(x, s))
          /\ \A g \in Goroutines : x \notin batch[g]
      BY <1>0, <2>3 DEF OnePlace, PlaceOf
    <2> HIDE DEF t
    <2>5. /\ messageBuf'[t] = Append(messageBuf[t], x) /\ messageBuf[t] \in Seq(Message)
          /\ \A s \in Session : s # t => messageBuf'[s] = messageBuf[s]
      BY <1>0, <2>1, <2>2
    <2>6. \A m : InBufferNow(m, t) <=> m = x \/ InBuffer(m, t)
      BY <2>5, AppendElements DEF InBuffer
    <2>7. \A s \in Session : Distinct(messageBuf'[s])
      <3>1. \A i \in 1..Len(messageBuf[t]) : messageBuf[t][i] # x
        BY <2>2, <2>4 DEF InBuffer
      <3>2. Distinct(messageBuf'[t])
        BY <1>0, <2>2, <2>5, <3>1, AppendElements DEF OnePlace
      <3> QED
        BY <1>0, <2>5, <3>2 DEF OnePlace
    <2>8. \A m \in Message, s \in Session :
            InBufferNow(m, s) <=> InBuffer(m, s) \/ (m = x /\ s = t)
      BY ZenonT(60), <2>5, <2>6 DEF InBuffer
    <2> HIDE DEF InBufferNow, WaitsNow
    <2>9. ASSUME NEW m \in Message PROVE PlaceNow(m)
      <3>1. PlaceOf(m)
        BY <1>0 DEF OnePlace
      <3>2. SettledNow(m) <=> Settled(m)
        BY <2>1 DEF Settled
      <3> HIDE DEF SettledNow
      <3>3. CASE m = x
        BY <2>1, <2>2, <2>3, <2>4, <2>8, <3>1, <3>2, <3>3 DEF PlaceOf, t
      <3>4. CASE m # x
        BY <2>1, <2>3, <2>8, <3>1, <3>2, <3>4 DEF PlaceOf
      <3> QED
        BY <3>3, <3>4
    <2> QED
      BY <1>1, <2>7, <2>9
  <1>7. ASSUME NEW f \in Goroutines, Swap(f) PROVE OnePlace'
    <2> DEFINE t == home[f]
    <2>1. /\ \E place \in Mining : pc' = [pc EXCEPT ![f] = place]
          /\ batch' = [batch EXCEPT ![f] = Elements(messageBuf[t])]
          /\ messageBuf' = [messageBuf EXCEPT ![t] = <<>>]
          /\ UNCHANGED <<home, received, failed>> /\ pc[f] \in {"flush", "final"}
      BY <1>7 DEF Swap, Goto, Mining, Buffer, outcome
    <2>2. t \in Session
      BY <1>0, <2>1, Kinds DEF Frame, Begun
    <2>3. batch[f] = {}
      BY <1>0, <2>1 DEF TypeOK
    <2>4. \A m \in Message : WaitsNow(m) <=> Waits(m)
      BY <1>0, <2>1, Kinds DEF Waits, Mining
    <2> HIDE DEF t
    <2>5. /\ messageBuf'[t] = <<>>
          /\ \A s \in Session : s # t => messageBuf'[s] = messageBuf[s]
      BY <1>0, <2>1, <2>2
    <2>6. \A m \in Message, s \in Session : InBufferNow(m, s) <=> InBuffer(m, s) /\ s # t
      BY <2>5 DEF InBuffer
    <2>7. \A s \in Session : Distinct(messageBuf'[s])
      BY SMTT(30), <1>0, <2>5 DEF OnePlace, Distinct
    <2>8. \A m \in Message, g \in Goroutines :
            m \in batch'[g] <=> m \in batch[g] \/ (g = f /\ InBuffer(m, t))
      BY <1>0, <2>1, <2>3 DEF Elements, InBuffer
    <2> HIDE DEF InBufferNow, WaitsNow
    <2>9. ASSUME NEW m \in Message PROVE PlaceNow(m)
      <3>1. PlaceOf(m)
        BY <1>0 DEF OnePlace
      <3>2. SettledNow(m) <=> Settled(m)
        BY <2>1 DEF Settled
      <3> HIDE DEF SettledNow
      <3>3. CASE InBuffer(m, t)
        BY <2>1, <2>2, <2>4, <2>6, <2>8, <3>1, <3>2, <3>3 DEF PlaceOf
      <3>4. CASE ~ InBuffer(m, t)
        BY <2>1, <2>4, <2>6, <2>8, <3>1, <3>2, <3>4 DEF PlaceOf
      <3> QED
        BY <3>3, <3>4
    <2> QED
      BY <1>1, <2>7, <2>9
  <1>8. ASSUME NEW f \in Goroutines, Mine(f) PROVE OnePlace'
    <2>1. PICK sent \in SUBSET batch[f] :
            /\ batch' = [batch EXCEPT ![f] = batch[f] \ sent]
            /\ \A m \in Message \ sent : received'[m] = received[m]
            /\ \A m \in sent : /\ received'[m] \in {received[m], received[m] + 1}
                               /\ received'[m] = received[m] => m \in failed'
            /\ failed \subseteq failed' /\ failed' \subseteq failed \cup sent
      BY <1>0, <1>8, MineSettles
    <2>2. UNCHANGED <<pc, home, messageBuf>>
      BY <1>0, <1>8, MineSettles
    <2>3. \A s \in Session : Distinct(messageBuf'[s])
      BY <1>0, <2>2 DEF OnePlace, Distinct
    <2>4. \A m \in Message, s \in Session :
            (InBufferNow(m, s) <=> InBuffer(m, s)) /\ (WaitsNow(m) <=> Waits(m))
      BY <2>2 DEF InBuffer, Waits
    <2>5. \A m \in Message, g \in Goroutines :
            m \in batch'[g] <=> m \in batch[g] /\ (g = f => m \notin sent)
      BY <1>0, <2>1
    <2> HIDE DEF InBufferNow, WaitsNow
    <2>6. ASSUME NEW m \in Message PROVE PlaceNow(m)
      <3>1. PlaceOf(m)
        BY <1>0 DEF OnePlace
      <3>2. CASE m \in sent
        <4>1. m \in batch[f] /\ ~ Settled(m) /\ ~ Waits(m)
              /\ (\A g \in Goroutines : m \in batch[g] => g = f)
              /\ \A s \in Session : ~ InBuffer(m, s)
          BY <2>1, <3>1, <3>2 DEF PlaceOf
        <4>2. received[m] = 0
          BY <1>0, <4>1 DEF Settled
        <4>3. received'[m] \in {0, 1} /\ SettledNow(m)
          BY <2>1, <3>2, <4>2
        <4>4. \A g \in Goroutines : m \notin batch'[g]
          BY <2>5, <3>2, <4>1
        <4> HIDE DEF SettledNow
        <4>5. received'[m] <= 1
          BY <4>3
        <4>6. Session # {}
          BY DEF Session
        <4>7. ~ WaitsNow(m) /\ \A s \in Session : ~ InBufferNow(m, s)
          BY <2>4, <4>1, <4>6
        <4> QED
          BY <4>3, <4>4, <4>5, <4>7
      <3>3. CASE m \notin sent
        <4>1. SettledNow(m) <=> Settled(m)
          BY <2>1, <3>3 DEF Settled
        <4>2. received'[m] <= 1
          BY <2>1, <3>1, <3>3 DEF PlaceOf
        <4>3. \A g \in Goroutines : m \in batch'[g] <=> m \in batch[g]
          BY <2>5, <3>3
        <4>4. 1 \in Session
          BY DEF Session
        <4>5. WaitsNow(m) <=> Waits(m)
          BY <2>4, <4>4
        <4> HIDE DEF SettledNow
        <4> QED
          BY <2>2, <2>4, <3>1, <4>1, <4>2, <4>3, <4>5 DEF PlaceOf
      <3> QED
        BY <3>2, <3>3
    <2> QED
      BY <1>1, <2>3, <2>6
  <1> QED
    BY <1>0, <1>2, <1>3, <1>4, <1>5, <1>6, <1>7, <1>8, Steps

LEMMA InitOnePlace == Init => OnePlace
  <1> SUFFICES ASSUME Init PROVE OnePlace
    OBVIOUS
  <1>1. \A s \in Session : messageBuf[s] = <<>>
    BY DEF Init
  <1>2. \A s \in Session : Distinct(messageBuf[s]) /\ \A m \in Message : ~ InBuffer(m, s)
    BY <1>1 DEF Distinct, InBuffer
  <1>3. \A m \in Message : pc[m] = "none" /\ received[m] = 0 /\ m \notin failed
    BY Kinds DEF Init
  <1>4. \A g \in Goroutines : batch[g] = {}
    BY DEF Init
  <1>5. \A m \in Message : PlaceOf(m)
    BY <1>2, <1>3, <1>4 DEF PlaceOf, Waits, Settled
  <1> QED
    BY <1>2, <1>5 DEF OnePlace

LEMMA Invariant == Spec => []Inv
  <1>1. Init => Inv
    BY InitFrame, TypeInit, InitOnePlace DEF Inv
  <1>2. Inv /\ [Next]_vars => Inv'
    BY FrameNext, TypeNext, OnePlaceNext DEF Inv
  <1> QED
    BY <1>1, <1>2, PTL DEF Spec

-----------------------------------------------------------------------------
(* From the places to the counts.                                          *)

\* A set that has at most one element is counted by whether it has one.
LEMMA AtMostOne ==
  ASSUME NEW S, \A x, y \in S : x = y
  PROVE  Cardinality(S) = IF S = {} THEN 0 ELSE 1
  <1>1. CASE S = {}
    BY <1>1, FS_EmptySet
  <1>2. CASE S # {}
    <2>1. PICK x \in S : TRUE
      BY <1>2
    <2>2. S = {x}
      BY <2>1
    <2> QED
      BY <1>2, <2>2, FS_Singleton
  <1> QED
    BY <1>1, <1>2

LEMMA CountInBuffer ==
  ASSUME OnePlace, NEW m \in Message, NEW s \in Session
  PROVE  Occurrences(m, messageBuf[s]) = IF InBuffer(m, s) THEN 1 ELSE 0
  <1> DEFINE At == {i \in 1..Len(messageBuf[s]) : messageBuf[s][i] = m}
  <1>1. \A i, j \in At : i = j
    BY DEF OnePlace, Distinct
  <1>2. At # {} <=> InBuffer(m, s)
    BY DEF InBuffer
  <1>3. Occurrences(m, messageBuf[s]) = Cardinality(At)
    BY DEF Occurrences
  <1> HIDE DEF At
  <1> QED
    BY <1>1, <1>2, <1>3, AtMostOne

LEMMA CountInBatches ==
  ASSUME OnePlace, NEW m \in Message
  PROVE  Cardinality({g \in Goroutines : m \in batch[g]})
           = IF \E g \in Goroutines : m \in batch[g] THEN 1 ELSE 0
  <1> DEFINE Holders == {g \in Goroutines : m \in batch[g]}
  <1>1. \A g, h \in Holders : g = h
    BY DEF OnePlace, PlaceOf
  <1>2. Holders # {} <=> \E g \in Goroutines : m \in batch[g]
    OBVIOUS
  <1>3. Cardinality(Holders) = IF Holders = {} THEN 0 ELSE 1
    <2> HIDE DEF Holders
    <2> QED
      BY <1>1, AtMostOne
  <1> QED
    BY <1>2, <1>3

LEMMA InvMessageOnce == Inv => EachMessageOnce
  <1> SUFFICES ASSUME Inv, NEW m \in Message
               PROVE  /\ received[m] <= 1
                      /\ Held(m) = IF Waits(m) \/ Settled(m) THEN 0 ELSE 1
    BY DEF EachMessageOnce, Waits
  <1> DEFINE InBatch == \E g \in Goroutines : m \in batch[g]
  <1>1. OnePlace /\ PlaceOf(m) /\ Session = {1, 2}
    BY DEF Inv, OnePlace, Session
  <1>2. Held(m) = (IF InBuffer(m, 1) THEN 1 ELSE 0) + (IF InBuffer(m, 2) THEN 1 ELSE 0)
                    + (IF InBatch THEN 1 ELSE 0)
    <2>1. /\ Occurrences(m, messageBuf[1]) = IF InBuffer(m, 1) THEN 1 ELSE 0
          /\ Occurrences(m, messageBuf[2]) = IF InBuffer(m, 2) THEN 1 ELSE 0
      BY <1>1, CountInBuffer
    <2>2. Cardinality({g \in Goroutines : m \in batch[g]}) = IF InBatch THEN 1 ELSE 0
      BY <1>1, CountInBatches
    <2> QED
      BY <2>1, <2>2 DEF Held
  <1>3. /\ InBuffer(m, 1) => home[m] = 1 /\ ~ Waits(m) /\ ~ Settled(m) /\ ~ InBatch
        /\ InBuffer(m, 2) => home[m] = 2 /\ ~ Waits(m) /\ ~ Settled(m) /\ ~ InBatch
        /\ InBatch => ~ Waits(m) /\ ~ Settled(m)
        /\ Waits(m) \/ Settled(m) \/ InBuffer(m, 1) \/ InBuffer(m, 2) \/ InBatch
        /\ received[m] <= 1
    BY <1>1 DEF PlaceOf
  <1> HIDE DEF InBatch
  <1>4. ~ (InBuffer(m, 1) /\ InBuffer(m, 2))
    BY <1>3
  <1> QED
    BY <1>2, <1>3, <1>4

LEMMA InvWhole == Inv => OpenSessionIsWhole
  BY DEF Inv, Frame, Phase, Directory, OpenSessionIsWhole, Running, TypeOK, Session

-----------------------------------------------------------------------------
(* The theorems.                                                           *)

\* Every variable has its type, and a goroutine that mines nothing holds no
\* batch: palace_session.go.
THEOREM TypeCorrect == Spec => []TypeOK
  BY Invariant, PTL DEF Inv

\* A session that HandleChat can get from the registry has its directory and
\* has not been told to stop, whatever EndAll does at the same time.
THEOREM WholeSession == Spec => []OpenSessionIsWhole
  BY Invariant, InvWhole, PTL

\* Between IndexMessage, flushLoop and the end of the session a message is
\* neither lost nor taken twice, and the memory service stores it at most once.
THEOREM MessageOnce == Spec => []EachMessageOnce
  BY Invariant, InvMessageOnce, PTL

-----------------------------------------------------------------------------
(***************************************************************************)
(* The palace of the streams (internal/mempalace), for every set of        *)
(* streams, every capacity of the events channel and however many          *)
(* sessions there are. It shares nothing with the sessions of the chat.    *)
(***************************************************************************)

(***************************************************************************)
(* A start event names the stream of its session, and the start events are *)
(* in the order of their sessions: what is still to come, with the handler *)
(* or in the channel, is later than every session that has a file.         *)
(***************************************************************************)
Starts(e) == e.session \in 1..Len(sessions) /\ sessions[e.session] = e.stream
IsStart(i) == i \in 1..Len(events) /\ events[i].type = "start"

Numbered ==
  /\ \A i \in 1..Len(events) : IsStart(i) => Starts(events[i])
  /\ handler = "start" => event.type = "start" /\ Starts(event)
  /\ handler \in {"end", "archive"} => event.type = "end"
  /\ made \subseteq 0..Len(sessions)

InOrder ==
  /\ \A i, j \in 1..Len(events) :
       i < j /\ IsStart(i) /\ IsStart(j) => events[i].session < events[j].session
  /\ \A j \in 1..Len(events) :
       handler = "start" /\ IsStart(j) => event.session < events[j].session
  /\ \A t \in made : /\ \A j \in 1..Len(events) : IsStart(j) => t < events[j].session
                     /\ handler = "start" => t < event.session

(***************************************************************************)
(* The file of a broadcast, here or in the archive, is of its own sessions *)
(* alone, and an archived one is older than the one that is still here.    *)
(***************************************************************************)
OfOneStream ==
  /\ \A t \in made : Stream(t) \in Streams
  /\ \A x \in Streams : \A t \in activeFiles[x] : t \in made /\ Stream(t) = x
  /\ \A n \in Name : \A t \in archive[n] : t \in made /\ Stream(t) = n.stream
  /\ \A n \in Name : \A s \in archive[n], t \in activeFiles[n.stream] : s < t

(***************************************************************************)
(* Who will end session s, when it is the last that was started before the *)
(* events of the channel: the next of them, or the controller; or nobody,  *)
(* its end event being lost.                                               *)
(***************************************************************************)
Ends(e) == e.type = "end"
Last(s) == active /\ s = Len(sessions)
WillEnd(s) == IF events = <<>> THEN Last(s) ELSE Ends(events[1])

EndsFollow ==
  /\ \A i \in 1..(Len(events) - 1) :
       ~ Ends(events[i]) /\ ~ Ends(events[i + 1]) => events[i].session \in unended
  /\ LET k == Len(events) IN
       events # <<>> /\ ~ Ends(events[k])
         => Last(events[k].session) \/ events[k].session \in unended
  /\ handler = "start" => WillEnd(event.session) \/ event.session \in unended
  /\ handler = "start" /\ store # NoStore => store \in unended
  /\ handler = "select" /\ store # NoStore => WillEnd(store) \/ store \in unended
  /\ handler = "archive" => store = NoStore

(***************************************************************************)
(* A broadcast ends once, unless Twitch reports it live again: its end is  *)
(* in the channel, with the handler or in the archive's name, but never in *)
(* two.                                                                    *)
(***************************************************************************)
Queued(s) == \E i \in 1..Len(events) : Ends(events[i]) /\ events[i].stream = s
Handled(s) == handler \in {"end", "archive"} /\ event.stream = s
Archived(s) == \E n \in Name : n.stream = s /\ archive[n] # {}

EndsOnce ==
  /\ live \in past => live \in returned
  /\ streamID \in {Offline, live} \cup past
  /\ \A s \in Streams \ returned :
       /\ Queued(s) \/ Handled(s) \/ Archived(s) => s \in past /\ s # streamID
       /\ ~ (Queued(s) /\ Handled(s))
       /\ Archived(s) => ~ Queued(s) /\ ~ Handled(s)
  /\ \A i, j \in 1..Len(events) :
       Ends(events[i]) /\ Ends(events[j]) /\ events[i].stream = events[j].stream
         => i = j \/ events[i].stream \in returned

PalaceInv == /\ ConstantsOK /\ PalaceTypeOK
             /\ Numbered /\ InOrder /\ OfOneStream
             /\ EndsFollow /\ LeaksAreExplained
             /\ EndsOnce /\ SessionsAreKept

-----------------------------------------------------------------------------
(* What a step does to the channel and to the types.                       *)

LEMMA Emitted ==
  ASSUME ConstantsOK, PalaceTypeOK, NEW e \in Event, Emit(e)
  PROVE  /\ events' \in Seq(Event) /\ Len(events') <= EventCap /\ Len(events) \in Nat
         /\ \/ Full /\ Len(events) > 0 /\ events' = events
            \/ /\ ~ Full
               /\ Len(events') = Len(events) + 1 /\ events'[Len(events) + 1] = e
               /\ \A i \in 1..Len(events) : events'[i] = events[i]
  <1>0. /\ events \in Seq(Event) /\ Len(events) \in Nat /\ EventCap \in Nat \ {0}
        /\ Len(events) <= EventCap
    BY DEF PalaceTypeOK, ConstantsOK
  <1>1. CASE ~ Full
    <2>1. events' = Append(events, e)
      BY <1>1 DEF Emit
    <2>2. /\ events' \in Seq(Event) /\ Len(events') = Len(events) + 1
          /\ events'[Len(events) + 1] = e
          /\ \A i \in 1..Len(events) : events'[i] = events[i]
      BY <1>0, <2>1
    <2> QED
      BY <1>0, <1>1, <2>2 DEF Full
  <1>2. CASE Full
    BY <1>0, <1>2 DEF Emit, Full
  <1> QED
    BY <1>1, <1>2

LEMMA Received ==
  ASSUME PalaceTypeOK, Receive
  PROVE  /\ events' \in Seq(Event) /\ event' \in Event
         /\ Len(events) \in Nat /\ Len(events) >= 1 /\ Len(events') = Len(events) - 1
         /\ event' = events[1] /\ handler' = event'.type
         /\ \A i \in 1..Len(events') : events'[i] = events[i + 1] /\ i + 1 \in 1..Len(events)
  <1>0. /\ events \in Seq(Event) /\ events # <<>>
        /\ event' = Head(events) /\ events' = Tail(events) /\ handler' = Head(events).type
    BY DEF PalaceTypeOK, Receive
  <1>1. Head(events) = events[1] /\ Head(events) \in Event
    BY <1>0
  <1>2. /\ Tail(events) \in Seq(Event) /\ Len(events) \in Nat /\ Len(events) >= 1
        /\ Len(Tail(events)) = Len(events) - 1
        /\ \A i \in 1..Len(Tail(events)) : Tail(events)[i] = events[i + 1]
    BY <1>0
  <1> QED
    BY <1>0, <1>1, <1>2

\* What the poller announces is an event.
LEMMA Announced ==
  ASSUME ConstantsOK, PalaceTypeOK
  PROVE  /\ StreamStarts =>
              /\ StreamStatus \in Streams
              /\ [type |-> "start", stream |-> StreamStatus, session |-> Len(sessions) + 1]
                   \in Event
              /\ sessions' \in Seq(Streams) /\ Len(sessions') = Len(sessions) + 1
              /\ Len(sessions) \in Nat /\ Len(sessions') <= MaxSessions
              /\ sessions'[Len(sessions) + 1] = StreamStatus
              /\ \A i \in 1..Len(sessions) : sessions'[i] = sessions[i]
         /\ StreamEnds => /\ streamID \in Streams
                          /\ [type |-> "end", stream |-> streamID, session |-> 0] \in Event
  <1>0. /\ sessions \in Seq(Streams) /\ Len(sessions) \in Nat /\ MaxSessions \in Nat
        /\ live \in Streams \cup {Offline}
    BY DEF PalaceTypeOK, ConstantsOK
  <1>1. ASSUME StreamStarts
        PROVE  /\ StreamStatus \in Streams /\ sessions' = Append(sessions, StreamStatus)
               /\ Len(sessions) + 1 \in 0..MaxSessions
    BY <1>0, <1>1 DEF StreamStarts, StreamStatus
  <1>2. ASSUME StreamStarts
        PROVE  /\ sessions' \in Seq(Streams) /\ Len(sessions') = Len(sessions) + 1
               /\ sessions'[Len(sessions) + 1] = StreamStatus
               /\ \A i \in 1..Len(sessions) : sessions'[i] = sessions[i]
    BY <1>0, <1>1, <1>2
  <1>3. StreamEnds => streamID \in Streams
    BY DEF PalaceTypeOK, StreamEnds
  <1> QED
    BY <1>0, <1>1, <1>2, <1>3 DEF Event, ConstantsOK

LEMMA PalaceTypeNext ==
  ConstantsOK /\ PalaceTypeOK /\ Numbered /\ [PalaceNext]_palaceVars => PalaceTypeOK'
  <1> SUFFICES ASSUME ConstantsOK, PalaceTypeOK, Numbered, [PalaceNext]_palaceVars
               PROVE  PalaceTypeOK'
    OBVIOUS
  <1>1. ASSUME NEW s \in Streams, GoLive(s) PROVE PalaceTypeOK'
    BY <1>1 DEF GoLive, PalaceTypeOK, controller, files
  <1>2. CASE GoOffline
    BY <1>2 DEF GoOffline, PalaceTypeOK, controller, files
  <1>3. CASE Tick
    <2>1. /\ now' \in Time /\ 0..now \subseteq 0..now'
      BY <1>3 DEF Tick, PalaceTypeOK, Time, ConstantsOK
    <2> QED
      BY <1>3, <2>1 DEF Tick, PalaceTypeOK, twitch, controller, files
  <1>4. CASE Start
    <2>1. now \in 0..now
      BY DEF PalaceTypeOK, Time
    <2>2. CASE StreamStatus # Offline
      BY <1>4, <2>1, <2>2 DEF Start, StreamStatus, PalaceTypeOK, twitch, files
    <2>3. CASE StreamStatus = Offline
      BY <1>4, <2>3 DEF Start, PalaceTypeOK, twitch, files
    <2> QED
      BY <2>2, <2>3
  <1>5. CASE StreamStarts
    <2>1. now \in 0..now
      BY DEF PalaceTypeOK, Time
    <2>2. events' \in Seq(Event) /\ Len(events') <= EventCap
      BY <1>5, Announced, Emitted DEF StreamStarts
    <2>3. sessions' \in Seq(Streams) /\ Len(sessions') <= MaxSessions
      BY <1>5, Announced
    <2>4. /\ active' = TRUE /\ streamID' = live /\ startedAt' = now /\ live # Offline
          /\ UNCHANGED <<twitch, now, sameDir, started, unended, handler, event, store, open,
                         made, forgotten, files>>
      BY <1>5 DEF StreamStarts, StreamStatus
    <2> QED
      BY <2>1, <2>2, <2>3, <2>4 DEF PalaceTypeOK, twitch, files
  <1>6. CASE StreamEnds
    <2>1. events' \in Seq(Event) /\ Len(events') <= EventCap
      BY <1>6, Announced, Emitted DEF StreamEnds
    <2>3. unended' \subseteq Files
      <3>1. Len(sessions) \in Nat /\ Len(sessions) <= MaxSessions /\ unended \subseteq Files
        BY DEF PalaceTypeOK
      <3>2. Len(sessions) \in Files
        BY <3>1 DEF Files, Sessions, Earlier, ConstantsOK
      <3> QED
        BY <1>6, <3>1, <3>2 DEF StreamEnds
    <2>2. /\ active' = FALSE /\ streamID' = Offline
          /\ UNCHANGED <<twitch, now, sameDir, started, startedAt, sessions, handler, event,
                         store, open, made, forgotten, files>>
      BY <1>6 DEF StreamEnds
    <2> QED
      BY <2>1, <2>2, <2>3 DEF PalaceTypeOK, twitch, files
  <1>7. CASE Receive
    <2>1. /\ events' \in Seq(Event) /\ Len(events') <= EventCap /\ event' \in Event
          /\ handler' \in {"start", "end"}
      BY <1>7, Received DEF PalaceTypeOK, Event, ConstantsOK
    <2>2. UNCHANGED <<twitch, now, sameDir, started, active, streamID, startedAt, sessions,
                      unended, store, open, made, forgotten, files>>
      BY <1>7 DEF Receive
    <2> QED
      BY <2>1, <2>2 DEF PalaceTypeOK, twitch, files
  <1>8. CASE OpenStore \/ StoreInitFails
    <2>0. event.stream \in Streams /\ event.session \in Sessions /\ handler = "start"
      <3>1. handler = "start" /\ event \in Event /\ event.session \in 1..Len(sessions)
        BY <1>8 DEF OpenStore, StoreInitFails, PalaceTypeOK, Numbered, Starts
      <3>2. Len(sessions) <= MaxSessions /\ Len(sessions) \in Nat
        BY DEF PalaceTypeOK
      <3> QED
        BY <3>1, <3>2 DEF Event, Sessions, ConstantsOK
    <2>1. activeFiles' \in [Streams -> SUBSET Files]
      BY <1>8, <2>0 DEF OpenStore, StoreInitFails, PalaceTypeOK, Files
    <2>2. /\ open' \subseteq made' \cap Sessions /\ made' \subseteq Files
          /\ store' \in Sessions \cup {NoStore}
          /\ forgotten' \subseteq made' /\ handler' = "select"
      BY <1>8, <2>0 DEF OpenStore, StoreInitFails, PalaceTypeOK, Files
    <2>3. UNCHANGED <<twitch, now, sameDir, controller, event, archive>>
      BY <1>8 DEF OpenStore, StoreInitFails
    <2> QED
      BY <2>1, <2>2, <2>3 DEF PalaceTypeOK, twitch, controller
  <1>9. CASE CloseStore
    BY <1>9 DEF CloseStore, PalaceTypeOK, twitch, controller, files
  <1>10. CASE Archive
    <2>0. event.stream \in Streams
      BY <1>10 DEF Archive, PalaceTypeOK, Event
    <2>1. activeFiles' \in [Streams -> SUBSET Files]
      BY <1>10, <2>0 DEF Archive, PalaceTypeOK
    <2>2. archive' \in [Name -> SUBSET Files]
      BY <1>10, <2>0 DEF Archive, PalaceTypeOK
    <2>3. /\ handler' = "select"
          /\ UNCHANGED <<twitch, now, sameDir, controller, event, store, open, made,
                         forgotten>>
      BY <1>10 DEF Archive
    <2> QED
      BY <2>1, <2>2, <2>3 DEF PalaceTypeOK, twitch, controller
  <1>11. CASE ArchiveFails
    BY <1>11 DEF ArchiveFails, PalaceTypeOK, twitch, controller, files
  <1>12. CASE UNCHANGED palaceVars
    BY <1>12 DEF palaceVars, PalaceTypeOK, twitch, controller, files
  <1> QED
    BY <1>1, <1>2, <1>3, <1>4, <1>5, <1>6, <1>7, <1>8, <1>9, <1>10, <1>11, <1>12
       DEF PalaceNext, Poll, HandleSessionEvent

-----------------------------------------------------------------------------
(* The kinds of steps: what each does to the channel, the handler and the  *)
(* controller, without the data.                                           *)

Sees == \/ \E s \in Streams : GoLive(s)
        \/ GoOffline \/ Tick
        \/ UNCHANGED palaceVars

LEMMA PalaceKinds ==
  ASSUME [PalaceNext]_palaceVars
  PROVE  Sees \/ Start \/ StreamStarts \/ StreamEnds \/ HandleSessionEvent
  BY DEF PalaceNext, Poll, Sees

\* Twitch and the clock leave the palace alone.
LEMMA Apart ==
  ASSUME Sees
  PROVE  UNCHANGED <<started, active, streamID, startedAt, events, sessions, unended, handler,
                     event, store, open, made, forgotten, prior, activeFiles, archive>>
  BY DEF Sees, GoLive, GoOffline, Tick, palaceVars, twitch, controller, files

LEMMA NumberedNext ==
  ConstantsOK /\ PalaceTypeOK /\ Numbered /\ [PalaceNext]_palaceVars => Numbered'
  <1> DEFINE StartsNow(e) == e.session \in 1..Len(sessions') /\ sessions'[e.session] = e.stream
             Local == /\ \A i \in 1..Len(events') :
                           events'[i].type = "start" => StartsNow(events'[i])
                      /\ handler' = "start" => event'.type = "start" /\ StartsNow(event')
                      /\ handler' \in {"end", "archive"} => event'.type = "end"
                      /\ made' \subseteq 0..Len(sessions')
  <1> SUFFICES ASSUME ConstantsOK, PalaceTypeOK, Numbered, [PalaceNext]_palaceVars
               PROVE  Local
    BY DEF Numbered, IsStart, Starts
  <1>0. /\ \A i \in 1..Len(events) : events[i].type = "start" => Starts(events[i])
        /\ handler = "start" => event.type = "start" /\ Starts(event)
        /\ handler \in {"end", "archive"} => event.type = "end"
        /\ made \subseteq 0..Len(sessions)
    BY DEF Numbered, IsStart
  <1>1. CASE UNCHANGED <<events, sessions, handler, event, made>>
    BY <1>0, <1>1 DEF Starts
  <1>2. CASE Sees \/ Start
    BY <1>1, <1>2, Apart DEF Start
  <1>3. CASE StreamStarts
    <2> DEFINE e == [type |-> "start", stream |-> StreamStatus, session |-> Len(sessions) + 1]
    <2>0. Emit(e) /\ UNCHANGED <<handler, event, made>>
      BY <1>3 DEF StreamStarts
    <2>1. /\ e \in Event /\ Len(sessions') = Len(sessions) + 1 /\ Len(sessions) \in Nat
          /\ sessions'[Len(sessions) + 1] = StreamStatus
          /\ \A i \in 1..Len(sessions) : sessions'[i] = sessions[i]
      BY <1>3, Announced
    <2>2. \A x : Starts(x) => StartsNow(x)
      BY <2>1 DEF Starts
    <2>3. StartsNow(e)
      BY <2>1
    <2>4. ASSUME NEW i \in 1..Len(events')
          PROVE  events'[i] = e \/ (i \in 1..Len(events) /\ events'[i] = events[i])
      <3>1. e \in Event
        BY <2>1
      <3> HIDE DEF e
      <3> QED
        BY <2>0, <3>1, Emitted
    <2> HIDE DEF e, StartsNow
    <2>5. \A i \in 1..Len(events') : events'[i].type = "start" => StartsNow(events'[i])
      BY <1>0, <2>2, <2>3, <2>4
    <2>6. made' \subseteq 0..Len(sessions')
      BY <1>0, <2>0, <2>1
    <2> QED
      BY <1>0, <2>0, <2>2, <2>5, <2>6
  <1>4. CASE StreamEnds
    <2> DEFINE e == [type |-> "end", stream |-> streamID, session |-> 0]
    <2>0. Emit(e) /\ UNCHANGED <<handler, event, made, sessions>> /\ e \in Event
      BY <1>4, Announced DEF StreamEnds
    <2>1. e.type = "end"
      OBVIOUS
    <2> HIDE DEF e
    <2>2. ASSUME NEW i \in 1..Len(events')
          PROVE  events'[i] = e \/ (i \in 1..Len(events) /\ events'[i] = events[i])
      BY <2>0, Emitted
    <2>3. \A x : Starts(x) <=> StartsNow(x)
      BY <2>0 DEF Starts
    <2> HIDE DEF StartsNow
    <2>4. \A i \in 1..Len(events') : events'[i].type = "start" => StartsNow(events'[i])
      BY <1>0, <2>1, <2>2, <2>3
    <2> QED
      BY <1>0, <2>0, <2>3, <2>4
  <1>5. CASE Receive
    <2>1. UNCHANGED <<sessions, made>>
      BY <1>5 DEF Receive
    <2>2. /\ 1 \in 1..Len(events) /\ event' = events[1] /\ handler' = event'.type
          /\ \A i \in 1..Len(events') : events'[i] = events[i + 1] /\ i + 1 \in 1..Len(events)
          /\ event'.type \in {"start", "end"}
      BY <1>5, Received DEF Event
    <2>3. \A x : Starts(x) <=> StartsNow(x)
      BY <2>1 DEF Starts
    <2> HIDE DEF StartsNow
    <2>4. \A i \in 1..Len(events') : events'[i].type = "start" => StartsNow(events'[i])
      BY <1>0, <2>2, <2>3
    <2>5. handler' = "start" => event'.type = "start" /\ StartsNow(event')
      BY <1>0, <2>2, <2>3
    <2> QED
      BY <1>0, <2>1, <2>2, <2>4, <2>5
  <1>6. CASE OpenStore \/ StoreInitFails
    <2>1. /\ UNCHANGED <<events, sessions, event>> /\ handler' = "select"
          /\ made' \subseteq made \cup {event.session} /\ event.session \in 1..Len(sessions)
      BY <1>0, <1>6 DEF OpenStore, StoreInitFails, controller, Starts
    <2> QED
      BY <1>0, <2>1 DEF Starts
  <1>7. CASE CloseStore \/ Archive \/ ArchiveFails
    <2>1. /\ UNCHANGED <<events, sessions, event, made>>
          /\ handler' = "select" \/ (handler = "end" /\ handler' = "archive")
      BY <1>7 DEF CloseStore, Archive, ArchiveFails, controller
    <2> QED
      BY <1>0, <2>1 DEF Starts
  <1> QED
    BY <1>2, <1>3, <1>4, <1>5, <1>6, <1>7, PalaceKinds DEF HandleSessionEvent

-----------------------------------------------------------------------------
(* The sessions stay in order.                                             *)

LEMMA InOrderNext ==
  ConstantsOK /\ PalaceTypeOK /\ Numbered /\ InOrder /\ [PalaceNext]_palaceVars => InOrder'
  <1> DEFINE Start1(i) == i \in 1..Len(events') /\ events'[i].type = "start"
             InChannel == \A i, j \in 1..Len(events') :
               i < j /\ Start1(i) /\ Start1(j) => events'[i].session < events'[j].session
             InHand == \A j \in 1..Len(events') :
               handler' = "start" /\ Start1(j) => event'.session < events'[j].session
             Here(t) == /\ \A j \in 1..Len(events') : Start1(j) => t < events'[j].session
                        /\ handler' = "start" => t < event'.session
  <1> SUFFICES ASSUME ConstantsOK, PalaceTypeOK, Numbered, InOrder, [PalaceNext]_palaceVars
               PROVE  InChannel /\ InHand /\ \A t \in made' : Here(t)
    BY DEF InOrder, IsStart
  <1>0. /\ \A i, j \in 1..Len(events) :
             i < j /\ IsStart(i) /\ IsStart(j) => events[i].session < events[j].session
        /\ \A j \in 1..Len(events) :
             handler = "start" /\ IsStart(j) => event.session < events[j].session
        /\ \A t \in made : /\ \A j \in 1..Len(events) : IsStart(j) => t < events[j].session
                           /\ handler = "start" => t < event.session
    BY DEF InOrder
  <1>n. /\ \A i \in 1..Len(events) : IsStart(i) => Starts(events[i])
        /\ handler = "start" => Starts(event)
        /\ made \subseteq 0..Len(sessions) /\ Len(sessions) \in Nat /\ Len(events) \in Nat
    BY DEF Numbered, PalaceTypeOK
  <1>1. CASE UNCHANGED <<events, handler, event, made>>
    BY <1>0, <1>1 DEF IsStart
  <1>2. CASE Sees \/ Start
    BY <1>1, <1>2, Apart DEF Start
  <1>3. CASE StreamStarts
    <2> DEFINE e == [type |-> "start", stream |-> StreamStatus, session |-> Len(sessions) + 1]
    <2>0. Emit(e) /\ UNCHANGED <<handler, event, made>> /\ e \in Event
      BY <1>3, Announced DEF StreamStarts
    <2>1. e.session = Len(sessions) + 1
      OBVIOUS
    <2> HIDE DEF e
    <2>2. CASE events' = events
      BY <1>1, <2>0, <2>2
    <2>3. CASE /\ Len(events') = Len(events) + 1 /\ events'[Len(events) + 1] = e
               /\ \A i \in 1..Len(events) : events'[i] = events[i]
      <3>1. ASSUME NEW j \in 1..Len(events'), Start1(j)
            PROVE  IF j \in 1..Len(events)
                   THEN IsStart(j) /\ events'[j] = events[j]
                   ELSE j = Len(events) + 1 /\ events'[j].session = Len(sessions) + 1
        BY <1>n, <2>1, <2>3, <3>1 DEF IsStart
      <3>2. ASSUME NEW i \in 1..Len(events'), NEW j \in 1..Len(events'), i < j,
                   Start1(i), Start1(j)
            PROVE  events'[i].session < events'[j].session
        <4>1. i \in 1..Len(events) /\ IsStart(i) /\ events'[i] = events[i]
          BY <1>n, <2>3, <3>1, <3>2
        <4>2. events[i].session \in 1..Len(sessions)
          BY <1>n, <4>1 DEF Starts
        <4>3. CASE j \in 1..Len(events)
          BY <1>0, <3>1, <3>2, <4>1, <4>3
        <4>4. CASE j \notin 1..Len(events)
          BY <1>n, <3>1, <3>2, <4>1, <4>2, <4>4
        <4> QED
          BY <4>3, <4>4
      <3>3. ASSUME NEW j \in 1..Len(events'), handler' = "start", Start1(j)
            PROVE  event'.session < events'[j].session
        <4>1. event.session \in 1..Len(sessions) /\ event' = event /\ handler = "start"
          BY <1>n, <2>0, <3>3 DEF Starts
        <4> QED
          BY <1>0, <1>n, <3>1, <3>3, <4>1
      <3>4. ASSUME NEW t \in made' PROVE Here(t)
        <4>1. t \in made /\ t \in 0..Len(sessions)
          BY <1>n, <2>0, <3>4
        <4>2. ASSUME NEW j \in 1..Len(events'), Start1(j) PROVE t < events'[j].session
          BY <1>0, <1>n, <3>1, <4>1, <4>2
        <4> QED
          BY <1>0, <2>0, <4>1, <4>2
      <3> QED
        BY <3>2, <3>3, <3>4
    <2> QED
      BY <2>0, <2>2, <2>3, Emitted
  <1>4. CASE StreamEnds
    <2> DEFINE e == [type |-> "end", stream |-> streamID, session |-> 0]
    <2>0. Emit(e) /\ UNCHANGED <<handler, event, made>> /\ e \in Event
      BY <1>4, Announced DEF StreamEnds
    <2>1. e.type = "end"
      OBVIOUS
    <2> HIDE DEF e
    <2>2. ASSUME NEW j \in 1..Len(events'), Start1(j)
          PROVE  j \in 1..Len(events) /\ IsStart(j) /\ events'[j] = events[j]
      BY <2>0, <2>1, <2>2, Emitted DEF IsStart
    <2>3. InChannel
      BY <1>0, <2>2
    <2>4. InHand
      BY <1>0, <2>0, <2>2
    <2>5. ASSUME NEW t \in made' PROVE Here(t)
      BY <1>0, <2>0, <2>2, <2>5
    <2> QED
      BY <2>3, <2>4, <2>5
  <1>5. CASE Receive
    <2>1. /\ 1 \in 1..Len(events) /\ event' = events[1] /\ handler' = event'.type
          /\ \A i \in 1..Len(events') : events'[i] = events[i + 1] /\ i + 1 \in 1..Len(events)
          /\ made' = made
      BY <1>5, Received DEF Receive
    <2>2. ASSUME NEW j \in 1..Len(events'), Start1(j)
          PROVE  j + 1 \in 1..Len(events) /\ IsStart(j + 1) /\ events'[j] = events[j + 1]
                 /\ 1 < j + 1
      BY <2>1, <2>2 DEF IsStart
    <2>3. ASSUME NEW i \in 1..Len(events'), NEW j \in 1..Len(events'), i < j,
                 Start1(i), Start1(j)
          PROVE  events'[i].session < events'[j].session
      <3>1. i + 1 < j + 1
        BY <2>3
      <3>2. /\ i + 1 \in 1..Len(events) /\ IsStart(i + 1) /\ events'[i] = events[i + 1]
            /\ j + 1 \in 1..Len(events) /\ IsStart(j + 1) /\ events'[j] = events[j + 1]
        BY <2>2, <2>3
      <3> QED
        BY <1>0, <3>1, <3>2
    <2>4. handler' = "start" => IsStart(1)
      BY <2>1 DEF IsStart
    <2>5. ASSUME NEW j \in 1..Len(events'), handler' = "start", Start1(j)
          PROVE  event'.session < events'[j].session
      <3>1. /\ j + 1 \in 1..Len(events) /\ IsStart(j + 1) /\ 1 < j + 1
            /\ events'[j] = events[j + 1]
        BY <2>2, <2>5
      <3> QED
        BY <1>0, <2>1, <2>4, <2>5, <3>1
    <2>6. ASSUME NEW t \in made' PROVE Here(t)
      <3>1. ASSUME NEW j \in 1..Len(events'), Start1(j) PROVE t < events'[j].session
        BY <1>0, <2>1, <2>2, <2>6, <3>1
      <3>2. handler' = "start" => t < event'.session
        BY <1>0, <2>1, <2>4, <2>6
      <3> QED
        BY <3>1, <3>2
    <2> QED
      BY <2>3, <2>5, <2>6
  <1>6. CASE OpenStore \/ StoreInitFails
    <2>1. /\ UNCHANGED <<events, event>> /\ handler = "start" /\ handler' = "select"
          /\ made' \subseteq made \cup {event.session}
      BY <1>6 DEF OpenStore, StoreInitFails, controller
    <2>2. InChannel /\ InHand
      BY <1>0, <2>1 DEF IsStart
    <2>3. ASSUME NEW t \in made' PROVE Here(t)
      BY <1>0, <2>1, <2>3 DEF IsStart
    <2> QED
      BY <2>2, <2>3
  <1>7. CASE CloseStore \/ Archive \/ ArchiveFails
    <2>1. /\ UNCHANGED <<events, event, made>>
          /\ handler' = "select" \/ handler' = "archive"
      BY <1>7 DEF CloseStore, Archive, ArchiveFails, controller
    <2> QED
      BY <1>0, <2>1 DEF IsStart
  <1> QED
    BY <1>2, <1>3, <1>4, <1>5, <1>6, <1>7, PalaceKinds DEF HandleSessionEvent

-----------------------------------------------------------------------------
(* Who ends a session, and which handles leak.                             *)

LEMMA EndsFollowNext ==
  ConstantsOK /\ PalaceTypeOK /\ Numbered /\ EndsFollow /\ [PalaceNext]_palaceVars
    => EndsFollow'
  <1> DEFINE LastNow(s) == active' /\ s = Len(sessions')
             WillEndNow(s) == IF events' = <<>> THEN LastNow(s) ELSE Ends(events'[1])
             Follow ==
               /\ \A i \in 1..(Len(events') - 1) :
                    ~ Ends(events'[i]) /\ ~ Ends(events'[i + 1])
                      => events'[i].session \in unended'
               /\ events' # <<>> /\ ~ Ends(events'[Len(events')]) =>
                    \/ LastNow(events'[Len(events')].session)
                    \/ events'[Len(events')].session \in unended'
               /\ handler' = "start" =>
                    WillEndNow(event'.session) \/ event'.session \in unended'
               /\ handler' = "start" /\ store' # NoStore => store' \in unended'
               /\ handler' = "select" /\ store' # NoStore =>
                    WillEndNow(store') \/ store' \in unended'
               /\ handler' = "archive" => store' = NoStore
  <1> SUFFICES ASSUME ConstantsOK, PalaceTypeOK, Numbered, EndsFollow, [PalaceNext]_palaceVars
               PROVE  Follow
    BY DEF EndsFollow, Last, WillEnd, Ends
  <1>a. /\ events \in Seq(Event) /\ Len(events) \in Nat /\ Len(events') \in Nat
        /\ (events = <<>> <=> Len(events) = 0) /\ (events' = <<>> <=> Len(events') = 0)
    <2>1. PalaceTypeOK'
      BY PalaceTypeNext
    <2> QED
      BY <2>1 DEF PalaceTypeOK
  <1>0. /\ \A i \in 1..(Len(events) - 1) :
             ~ Ends(events[i]) /\ ~ Ends(events[i + 1]) => events[i].session \in unended
        /\ events # <<>> /\ ~ Ends(events[Len(events)]) =>
             Last(events[Len(events)].session) \/ events[Len(events)].session \in unended
        /\ handler = "start" => WillEnd(event.session) \/ event.session \in unended
        /\ handler = "start" /\ store # NoStore => store \in unended
        /\ handler = "select" /\ store # NoStore => WillEnd(store) \/ store \in unended
        /\ handler = "archive" => store = NoStore
    BY DEF EndsFollow
  <1>1. ASSUME UNCHANGED <<events, sessions, unended, handler, event, store>>, active => active'
        PROVE  Follow
    BY <1>0, <1>1 DEF WillEnd, Last, Ends
  <1>2. CASE Sees \/ Start
    BY <1>1, <1>2, Apart DEF Start
  \* An event that finds the channel full: whoever was last is not ended by it.
  <1>3. ASSUME UNCHANGED <<events, handler, event, store>>, events # <<>>,
               unended \subseteq unended',
               \A s \in {events[Len(events)].session} :
                  Last(s) \/ s \in unended => LastNow(s) \/ s \in unended'
        PROVE  Follow
    BY <1>0, <1>3 DEF WillEnd, Ends
  \* An event that comes last in the channel.
  <1>4. ASSUME NEW e, Len(events') = Len(events) + 1, events'[Len(events) + 1] = e,
               \A i \in 1..Len(events) : events'[i] = events[i],
               UNCHANGED <<handler, event, store, unended>>,
               ~ Ends(e) => ~ active /\ LastNow(e.session)
        PROVE  Follow
    <2>1. ASSUME NEW i \in 1..(Len(events') - 1), ~ Ends(events'[i]), ~ Ends(events'[i + 1])
          PROVE  events'[i].session \in unended'
      <3>1. CASE i = Len(events)
        <4>1. events'[i + 1] = e /\ events'[i] = events[Len(events)] /\ events # <<>>
          BY <1>a, <1>4, <2>1, <3>1
        <4> QED
          BY <1>0, <1>4, <2>1, <4>1 DEF Last
      <3>2. CASE i # Len(events)
        <4>1. i \in 1..(Len(events) - 1) /\ i \in 1..Len(events) /\ i + 1 \in 1..Len(events)
          BY <1>a, <1>4, <2>1, <3>2
        <4> QED
          BY <1>0, <1>4, <2>1, <4>1
      <3> QED
        BY <3>1, <3>2
    <2>2. events' # <<>> /\ events'[Len(events')] = e
      BY <1>a, <1>4
    <2>3. ASSUME NEW s, WillEnd(s) \/ s \in unended PROVE WillEndNow(s) \/ s \in unended'
      <3>1. CASE events = <<>>
        <4>1. events'[1] = e
          BY <1>a, <1>4, <3>1
        <4> QED
          BY <1>4, <2>2, <2>3, <3>1, <4>1 DEF WillEnd, Last, Ends
      <3>2. CASE events # <<>>
        <4>1. events'[1] = events[1]
          BY <1>a, <1>4, <3>2
        <4> QED
          BY <1>4, <2>2, <2>3, <3>2, <4>1 DEF WillEnd, Ends
      <3> QED
        BY <3>1, <3>2
    <2> QED
      BY <1>0, <1>4, <2>1, <2>2, <2>3
  <1>5. CASE StreamStarts
    <2> DEFINE e == [type |-> "start", stream |-> StreamStatus, session |-> Len(sessions) + 1]
    <2>1. /\ Emit(e) /\ e \in Event /\ e.session = Len(sessions) + 1
          /\ ~ active /\ active' /\ Len(sessions') = Len(sessions) + 1
          /\ UNCHANGED <<handler, event, store, unended>>
      BY <1>5, Announced DEF StreamStarts
    <2> HIDE DEF e
    <2>2. CASE Len(events) > 0 /\ events' = events
      BY <1>3, <1>a, <2>1, <2>2 DEF Last
    <2>3. CASE /\ Len(events') = Len(events) + 1 /\ events'[Len(events) + 1] = e
               /\ \A i \in 1..Len(events) : events'[i] = events[i]
      <3>1. LastNow(e.session)
        BY <2>1 DEF Last
      <3> QED
        BY <1>4, <2>1, <2>3, <3>1
    <2> QED
      BY <2>1, <2>2, <2>3, Emitted
  <1>6. CASE StreamEnds
    <2> DEFINE e == [type |-> "end", stream |-> streamID, session |-> 0]
    <2>1. /\ Emit(e) /\ e \in Event /\ Ends(e)
          /\ UNCHANGED <<handler, event, store, sessions>>
          /\ unended' = IF Full THEN unended \cup {Len(sessions)} ELSE unended
      BY <1>6, Announced DEF StreamEnds, Ends
    <2> HIDE DEF e
    <2>2. CASE Full /\ Len(events) > 0 /\ events' = events
      BY <1>3, <1>a, <2>1, <2>2 DEF Last
    <2>3. CASE /\ ~ Full
               /\ Len(events') = Len(events) + 1 /\ events'[Len(events) + 1] = e
               /\ \A i \in 1..Len(events) : events'[i] = events[i]
      BY <1>4, <2>1, <2>3
    <2> QED
      BY <2>1, <2>2, <2>3, Emitted
  <1>7. CASE Receive
    <2>1. /\ Len(events) >= 1 /\ Len(events') = Len(events) - 1 /\ events # <<>>
          /\ event' = events[1] /\ handler' = event'.type /\ event' \in Event
          /\ \A i \in 1..Len(events') : events'[i] = events[i + 1] /\ i + 1 \in 1..Len(events)
          /\ handler = "select" /\ UNCHANGED <<active, sessions, unended, store>>
      BY <1>7, Received DEF Receive
    <2>2. handler' \in {"start", "end"} /\ (handler' = "end" <=> Ends(events[1]))
      BY <2>1 DEF Event, Ends
    <2>3. ASSUME NEW i \in 1..(Len(events') - 1), ~ Ends(events'[i]), ~ Ends(events'[i + 1])
          PROVE  events'[i].session \in unended'
      <3>1. i \in 1..Len(events') /\ i + 1 \in 1..Len(events') /\ i + 1 \in 1..(Len(events) - 1)
        BY <1>a, <2>1
      <3> QED
        BY <1>0, <2>1, <2>3, <3>1
    <2>4. ASSUME events' # <<>>, ~ Ends(events'[Len(events')])
          PROVE  \/ LastNow(events'[Len(events')].session)
                 \/ events'[Len(events')].session \in unended'
      <3>1. Len(events') \in 1..Len(events') /\ Len(events') + 1 = Len(events)
        BY <1>a, <2>1, <2>4
      <3> QED
        BY <1>0, <2>1, <2>4, <3>1 DEF Last
    <2>5. ASSUME handler' = "start"
          PROVE  WillEndNow(event'.session) \/ event'.session \in unended'
      <3>1. CASE events' = <<>>
        <4>1. Len(events) = 1
          BY <1>a, <2>1, <3>1
        <4> QED
          BY <1>0, <2>1, <2>2, <2>5, <3>1, <4>1 DEF WillEnd, Last
      <3>2. CASE events' # <<>>
        <4>1. 1 \in 1..(Len(events) - 1) /\ 1 \in 1..Len(events')
          BY <1>a, <2>1, <3>2
        <4> QED
          BY <1>0, <2>1, <2>2, <2>5, <3>2, <4>1 DEF WillEnd, Ends
      <3> QED
        BY <3>1, <3>2
    <2>6. handler' = "start" /\ store' # NoStore => store' \in unended'
      BY <1>0, <2>1, <2>2 DEF WillEnd
    <2>7. handler' # "select" /\ handler' # "archive"
      BY <2>2
    <2> QED
      BY <2>3, <2>4, <2>5, <2>6, <2>7
  <1>8. ASSUME UNCHANGED <<events, active, sessions, unended, event>>,
               handler' = "select" \/ (handler' = "archive" /\ store' = NoStore),
               store' # NoStore => WillEnd(store') \/ store' \in unended
        PROVE  Follow
    BY <1>0, <1>8 DEF WillEnd, Last, Ends
  <1>9. CASE OpenStore \/ StoreInitFails \/ CloseStore \/ Archive \/ ArchiveFails
    <2>1. UNCHANGED <<events, active, sessions, unended, event>>
      BY <1>9 DEF OpenStore, StoreInitFails, CloseStore, Archive, ArchiveFails, controller
    <2>2. \/ handler' = "select" /\ handler = "start" /\ store' \in {store, event.session}
          \/ handler' = "archive" /\ store' = NoStore
          \/ handler' = "select" /\ handler = "archive" /\ store' = store
      BY <1>9 DEF OpenStore, StoreInitFails, CloseStore, Archive, ArchiveFails
    <2>3. store' # NoStore => WillEnd(store') \/ store' \in unended
      BY <1>0, <2>2
    <2> QED
      BY <1>8, <2>1, <2>2, <2>3
  <1> QED
    BY <1>2, <1>5, <1>6, <1>7, <1>9, PalaceKinds DEF HandleSessionEvent

LEMMA LeaksNext ==
  ConstantsOK /\ PalaceTypeOK /\ EndsFollow /\ LeaksAreExplained /\ [PalaceNext]_palaceVars
    => LeaksAreExplained'
  <1> SUFFICES ASSUME ConstantsOK, PalaceTypeOK, EndsFollow, LeaksAreExplained,
                      [PalaceNext]_palaceVars
               PROVE  /\ store' # NoStore => store' \in open'
                      /\ open' \subseteq {store'} \cup unended' \cup forgotten'
    BY DEF LeaksAreExplained
  <1>0. /\ store # NoStore => store \in open
        /\ open \subseteq {store} \cup unended \cup forgotten
        /\ NoStore \notin open
        /\ handler = "start" /\ store # NoStore => store \in unended
    BY DEF LeaksAreExplained, PalaceTypeOK, EndsFollow, Sessions, NoStore, ConstantsOK
  <1>1. CASE UNCHANGED <<store, open, unended, forgotten>>
    BY <1>0, <1>1
  <1>2. CASE StreamEnds
    BY <1>0, <1>2 DEF StreamEnds
  <1>3. CASE OpenStore
    BY <1>0, <1>3 DEF OpenStore, controller
  <1>4. CASE StoreInitFails
    BY <1>0, <1>4 DEF StoreInitFails, controller
  <1>5. CASE CloseStore
    BY <1>0, <1>5 DEF CloseStore, controller
  <1> QED
    BY <1>1, <1>2, <1>3, <1>4, <1>5, PalaceKinds, Apart
       DEF HandleSessionEvent, Start, StreamStarts, Receive, Archive, ArchiveFails, controller

-----------------------------------------------------------------------------
(* A stream ends once.                                                     *)

LEMMA EndsOnceNext ==
  ConstantsOK /\ PalaceTypeOK /\ Numbered /\ EndsOnce /\ [PalaceNext]_palaceVars
    => EndsOnce'
  <1> DEFINE QueuedNow(s) == \E i \in 1..Len(events') : Ends(events'[i]) /\ events'[i].stream = s
             HandledNow(s) == handler' \in {"end", "archive"} /\ event'.stream = s
             ArchivedNow(s) == \E n \in Name : n.stream = s /\ archive'[n] # {}
             Unique == \A i, j \in 1..Len(events') :
                         Ends(events'[i]) /\ Ends(events'[j])
                           /\ events'[i].stream = events'[j].stream
                           => i = j \/ events'[i].stream \in returned'
             Broadcasts == /\ live' \in past' => live' \in returned'
                           /\ streamID' \in {Offline, live'} \cup past'
             Over(s) == QueuedNow(s) \/ HandledNow(s) \/ ArchivedNow(s)
                          => s \in past' /\ s # streamID'
             Never(s) == /\ ~ (QueuedNow(s) /\ HandledNow(s))
                         /\ ArchivedNow(s) => ~ QueuedNow(s) /\ ~ HandledNow(s)
             Local == Broadcasts /\ Unique /\ \A s \in Streams \ returned' : Over(s) /\ Never(s)
  <1> SUFFICES ASSUME ConstantsOK, PalaceTypeOK, Numbered, EndsOnce, [PalaceNext]_palaceVars
               PROVE  Local
    BY DEF EndsOnce, Queued, Handled, Archived, Ends
  <1>0. /\ live \in past => live \in returned
        /\ streamID \in {Offline, live} \cup past
        /\ past \subseteq Streams /\ live \in Streams \cup {Offline} /\ Offline \notin Streams
    BY DEF EndsOnce, PalaceTypeOK, ConstantsOK
  <1>u. \A i, j \in 1..Len(events) :
          Ends(events[i]) /\ Ends(events[j]) /\ events[i].stream = events[j].stream
            => i = j \/ events[i].stream \in returned
    BY DEF EndsOnce
  <1>r. returned \subseteq returned'
    BY DEF PalaceNext, GoLive, GoOffline, Tick, Start, Poll, StreamStarts, StreamEnds,
       HandleSessionEvent, Receive, OpenStore, StoreInitFails, CloseStore, Archive,
       ArchiveFails, palaceVars, twitch
  <1>p. ASSUME NEW s \in Streams \ returned'
        PROVE  /\ Queued(s) \/ Handled(s) \/ Archived(s) => s \in past /\ s # streamID
               /\ ~ (Queued(s) /\ Handled(s))
               /\ Archived(s) => ~ Queued(s) /\ ~ Handled(s)
    BY <1>r DEF EndsOnce
  <1>q. ASSUME events' = events
        PROVE  Unique /\ \A s \in Streams : QueuedNow(s) <=> Queued(s)
    BY <1>u, <1>r, <1>q DEF Queued
  <1>h. ASSUME UNCHANGED <<handler, event>> PROVE \A s \in Streams : HandledNow(s) <=> Handled(s)
    BY <1>h DEF Handled
  <1>a. ASSUME archive' = archive PROVE \A s \in Streams : ArchivedNow(s) <=> Archived(s)
    BY <1>a DEF Archived
  <1> HIDE DEF QueuedNow, HandledNow, ArchivedNow, Unique
  <1>1. CASE Sees \/ Start
    <2>1. events' = events /\ handler' = handler /\ event' = event /\ archive' = archive
      BY <1>1, Apart DEF Start, files
    <2>2. /\ Unique
          /\ \A s \in Streams : /\ QueuedNow(s) <=> Queued(s)
                                /\ HandledNow(s) <=> Handled(s)
                                /\ ArchivedNow(s) <=> Archived(s)
      <3>1. UNCHANGED <<handler, event>>
        BY <2>1
      <3> QED
        BY <1>q, <1>h, <1>a, <2>1, <3>1
    <2>3. /\ Broadcasts
          /\ \A s \in Streams \ returned' : s \in past /\ s # streamID
                                             => s \in past' /\ s # streamID'
      <3>1. ASSUME NEW s \in Streams, GoLive(s)
            PROVE  /\ live' \in past' => live' \in returned'
                   /\ live \in past' \cup {Offline} /\ past \subseteq past'
                   /\ streamID' = streamID
        BY <1>0, <3>1 DEF GoLive, controller
      <3>2. CASE GoOffline
        BY <1>0, <3>2 DEF GoOffline, controller
      <3>3. CASE Tick \/ UNCHANGED palaceVars
        BY <1>0, <1>r, <3>3 DEF Tick, palaceVars, twitch, controller
      <3>4. CASE Start
        BY <1>0, <1>r, <3>4 DEF Start, StreamStatus, twitch
      <3>5. CASE \E s \in Streams : GoLive(s)
        BY <1>0, <3>1, <3>5
      <3> QED
        BY <1>1, <3>2, <3>3, <3>4, <3>5 DEF Sees
    <2> QED
      BY <1>p, <2>2, <2>3
  <1>2. CASE StreamStarts
    <2> DEFINE e == [type |-> "start", stream |-> StreamStatus, session |-> Len(sessions) + 1]
    <2>1. Emit(e) /\ e \in Event /\ ~ Ends(e)
      BY <1>2, Announced DEF StreamStarts, Ends
    <2>2. UNCHANGED <<live, past, handler, event, archive>> /\ streamID' = live
      BY <1>2 DEF StreamStarts, StreamStatus, twitch, files
    <2> HIDE DEF e
    <2>3. ASSUME NEW i \in 1..Len(events'), Ends(events'[i])
          PROVE  i \in 1..Len(events) /\ events'[i] = events[i]
      BY <2>1, <2>3, Emitted
    <2>4. Unique /\ \A s \in Streams : QueuedNow(s) => Queued(s)
      BY <1>u, <1>r, <2>3 DEF Unique, QueuedNow, Queued
    <2>5. \A s \in Streams : /\ HandledNow(s) <=> Handled(s)
                             /\ ArchivedNow(s) <=> Archived(s)
      BY <1>h, <1>a, <2>2
    <2>g. ASSUME NEW s \in Streams \ returned' PROVE Over(s) /\ Never(s)
      BY <1>0, <1>p, <1>r, <2>2, <2>4, <2>5
    <2>b. Broadcasts
      BY <1>0, <1>r, <2>2
    <2> QED
      BY <2>b, <2>g, <2>4
  <1>3. CASE StreamEnds
    <2> DEFINE e == [type |-> "end", stream |-> streamID, session |-> 0]
    <2>1. Emit(e) /\ e \in Event /\ e.stream = streamID /\ streamID \in Streams
      BY <1>3, Announced DEF StreamEnds, Ends
    <2>2. /\ UNCHANGED <<live, past, handler, event, archive>>
          /\ streamID' = Offline /\ live = Offline
      BY <1>3 DEF StreamEnds, StreamStatus, twitch, files
    <2> HIDE DEF e
    <2>3. /\ streamID \in past
          /\ \/ streamID \in returned'
             \/ ~ Queued(streamID) /\ ~ Handled(streamID) /\ ~ Archived(streamID)
      BY <1>0, <1>p, <2>1, <2>2
    <2>4. ASSUME NEW i \in 1..Len(events')
          PROVE  \/ i \in 1..Len(events) /\ events'[i] = events[i]
                 \/ i = Len(events) + 1 /\ events'[i].stream = streamID
      BY <2>1, Emitted
    <2>5. \A s \in Streams : QueuedNow(s) => Queued(s) \/ s = streamID
      BY <2>4 DEF QueuedNow, Queued
    <2>6. Unique
      <3> SUFFICES ASSUME NEW i \in 1..Len(events'), NEW j \in 1..Len(events'),
                          Ends(events'[i]), Ends(events'[j]),
                          events'[i].stream = events'[j].stream,
                          events'[i].stream \notin returned'
                   PROVE  i = j
        BY DEF Unique
      <3> QED
        BY <1>u, <1>r, <2>3, <2>4 DEF Queued
    <2>7. \A s \in Streams : /\ HandledNow(s) <=> Handled(s)
                             /\ ArchivedNow(s) <=> Archived(s)
      BY <1>h, <1>a, <2>2
    <2>g. ASSUME NEW s \in Streams \ returned' PROVE Over(s) /\ Never(s)
      BY <1>0, <1>p, <1>r, <2>1, <2>2, <2>3, <2>5, <2>7
    <2>b. Broadcasts
      BY <1>0, <1>r, <2>2, <2>3
    <2> QED
      BY <2>b, <2>g, <2>6
  <1>4. CASE Receive
    <2>1. /\ Len(events) \in Nat /\ Len(events) >= 1 /\ Len(events') = Len(events) - 1
          /\ event' = events[1] /\ handler' = event'.type /\ event' \in Event
          /\ \A i \in 1..Len(events') : events'[i] = events[i + 1] /\ i + 1 \in 1..Len(events)
      BY <1>4, Received
    <2>2. /\ handler = "select" /\ UNCHANGED <<live, past, streamID, archive>>
      BY <1>4 DEF Receive, twitch, files
    <2>3. handler' \in {"start", "end"}
      BY <2>1 DEF Event
    <2>4. Unique
      <3> SUFFICES ASSUME NEW i \in 1..Len(events'), NEW j \in 1..Len(events'),
                          Ends(events'[i]), Ends(events'[j]),
                          events'[i].stream = events'[j].stream,
                          events'[i].stream \notin returned'
                   PROVE  i = j
        BY DEF Unique
      <3>1. i + 1 = j + 1
        BY <1>u, <1>r, <2>1
      <3> QED
        BY <2>1, <3>1
    <2>5. \A s \in Streams : QueuedNow(s) => Queued(s)
      BY <2>1 DEF QueuedNow, Queued
    <2>6. ASSUME NEW s \in Streams \ returned', HandledNow(s) PROVE Queued(s) /\ ~ QueuedNow(s)
      <3>1. Ends(events[1]) /\ events[1].stream = s /\ 1 \in 1..Len(events)
        BY <2>1, <2>3, <2>6 DEF HandledNow, Ends
      <3>2. ASSUME NEW i \in 1..Len(events'), Ends(events'[i]), events'[i].stream = s
            PROVE  FALSE
        <4>1. i + 1 = 1
          BY <1>u, <1>r, <2>1, <2>6, <3>1, <3>2
        <4> QED
          BY <2>1, <4>1
      <3> QED
        BY <3>1, <3>2 DEF Queued, QueuedNow
    <2>7. \A s \in Streams : ArchivedNow(s) <=> Archived(s)
      BY <1>a, <2>2
    <2>g. ASSUME NEW s \in Streams \ returned' PROVE Over(s) /\ Never(s)
      BY <1>0, <1>p, <1>r, <2>2, <2>5, <2>6, <2>7
    <2>b. Broadcasts
      BY <1>0, <1>r, <2>2
    <2> QED
      BY <2>b, <2>g, <2>4
  <1>5. CASE OpenStore \/ StoreInitFails \/ CloseStore \/ ArchiveFails
    <2>1. /\ UNCHANGED <<live, past, streamID, events, archive, event>>
          /\ handler' = "select" \/ (handler = "end" /\ handler' = "archive")
      BY <1>5 DEF OpenStore, StoreInitFails, CloseStore, ArchiveFails, twitch,
         controller, files
    <2>2. \A s \in Streams : HandledNow(s) => Handled(s)
      BY <2>1 DEF HandledNow, Handled
    <2>3. Unique /\ \A s \in Streams : /\ QueuedNow(s) <=> Queued(s)
                                       /\ ArchivedNow(s) <=> Archived(s)
      BY <1>q, <1>a, <2>1
    <2>g. ASSUME NEW s \in Streams \ returned' PROVE Over(s) /\ Never(s)
      BY <1>0, <1>p, <1>r, <2>1, <2>2, <2>3
    <2>b. Broadcasts
      BY <1>0, <1>r, <2>1
    <2> QED
      BY <2>b, <2>g, <2>3
  <1>6. CASE Archive
    <2>1. /\ UNCHANGED <<live, past, streamID, events, event>>
          /\ handler = "archive" /\ handler' = "select"
      BY <1>6 DEF Archive, twitch, controller
    <2>2. \A s \in Streams : ~ HandledNow(s)
      BY <2>1 DEF HandledNow
    <2>3. \A s \in Streams : ArchivedNow(s) => Archived(s) \/ Handled(s)
      <3> SUFFICES ASSUME NEW n \in Name, archive'[n] # {}
                   PROVE  archive[n] # {} \/ n.stream = event.stream
        BY <2>1 DEF ArchivedNow, Archived, Handled
      <3> QED
        BY <1>6 DEF Archive, ArchiveName, PalaceTypeOK
    <2>4. Unique /\ \A s \in Streams : QueuedNow(s) <=> Queued(s)
      BY <1>q, <2>1
    <2>g. ASSUME NEW s \in Streams \ returned' PROVE Over(s) /\ Never(s)
      BY <1>0, <1>p, <1>r, <2>1, <2>2, <2>3, <2>4
    <2>b. Broadcasts
      BY <1>0, <1>r, <2>1
    <2> QED
      BY <2>b, <2>g, <2>4
  <1> QED
    BY <1>1, <1>2, <1>3, <1>4, <1>5, <1>6, PalaceKinds DEF HandleSessionEvent

-----------------------------------------------------------------------------
(* What becomes of the files.                                              *)

\* A session keeps its stream, and what a step makes is of the start in hand.
LEMMA SameStream ==
  ASSUME ConstantsOK, PalaceTypeOK, Numbered, [PalaceNext]_palaceVars
  PROVE  /\ \A t \in made : Stream(t)' = Stream(t)
         /\ returned \subseteq returned'
  <1>0. /\ made \subseteq 0..Len(sessions) /\ Len(sessions) \in Nat
        /\ sessions \in Seq(Streams) /\ prior \in Streams \cup {Offline}
    BY DEF Numbered, PalaceTypeOK
  <1>1. prior' = prior /\ returned \subseteq returned'
    BY DEF PalaceNext, GoLive, GoOffline, Tick, Start, Poll, StreamStarts, StreamEnds,
       HandleSessionEvent, Receive, OpenStore, StoreInitFails, CloseStore, Archive,
       ArchiveFails, palaceVars, twitch
  <1>2. \A i \in 1..Len(sessions) : sessions'[i] = sessions[i]
    <2>1. CASE StreamStarts
      BY <2>1, Announced
    <2>2. CASE UNCHANGED sessions
      BY <2>2
    <2> QED
      BY <2>1, <2>2, PalaceKinds, Apart
         DEF Start, StreamEnds, HandleSessionEvent, Receive, OpenStore, StoreInitFails,
             CloseStore, Archive, ArchiveFails, controller
  <1>3. ASSUME NEW t \in made
        PROVE  Stream(t)' = Stream(t)
    <2>1. CASE t = Earlier
      BY <1>0, <1>1, <2>1 DEF Stream
    <2>2. CASE t # Earlier
      <3>1. t \in 1..Len(sessions)
        BY <1>0, <2>2 DEF Earlier
      <3> QED
        BY <1>0, <1>2, <2>2, <3>1 DEF Stream
    <2> QED
      BY <2>1, <2>2
  <1> QED
    BY <1>1, <1>3

\* What a start in hand adds to the files: its session, later than all of them.
LEMMA Opened ==
  ASSUME ConstantsOK, PalaceTypeOK, Numbered, InOrder, OpenStore \/ StoreInitFails
  PROVE  /\ archive' = archive /\ event.stream \in Streams
         /\ \A t : t = event.session => Stream(t)' = event.stream
         /\ \A t \in made : t < event.session
         /\ \/ UNCHANGED <<made, activeFiles>>
            \/ /\ made' = made \cup {event.session}
               /\ \A x \in Streams : activeFiles'[x] =
                    activeFiles[x] \cup (IF x = event.stream THEN {event.session} ELSE {})
  <1>1. /\ handler = "start" /\ Starts(event) /\ event.stream \in Streams
        /\ UNCHANGED <<archive, sessions>> /\ activeFiles \in [Streams -> SUBSET Files]
    BY DEF OpenStore, StoreInitFails, controller, Numbered, PalaceTypeOK, Event
  <1>2. event.session # Earlier /\ sessions[event.session] = event.stream
    BY <1>1 DEF Starts, Earlier, PalaceTypeOK
  <1>3. ASSUME NEW t, t = event.session PROVE Stream(t)' = event.stream
    BY <1>1, <1>2, <1>3 DEF Stream
  <1>4. \A t \in made : t < event.session
    BY <1>1 DEF InOrder
  <1>5. \/ UNCHANGED <<made, activeFiles>>
        \/ /\ made' = made \cup {event.session}
           /\ activeFiles' = [activeFiles EXCEPT ![event.stream] = @ \cup {event.session}]
    BY DEF OpenStore, StoreInitFails
  <1> QED
    BY <1>1, <1>3, <1>4, <1>5

\* What os.Rename does.
LEMMA Moved ==
  ASSUME ConstantsOK, PalaceTypeOK, Archive
  PROVE  LET x == event.stream
             name == ArchiveName(event.stream)
         IN  /\ handler = "archive" /\ made' = made /\ x \in Streams
             /\ name \in Name /\ name.stream = x
             /\ activeFiles[x] # {} /\ activeFiles'[x] = {}
             /\ \A y \in Streams : y # x => activeFiles'[y] = activeFiles[y]
             /\ archive'[name] = activeFiles[x]
             /\ \A n \in Name : n # name => archive'[n] = archive[n]
  <1> DEFINE x == event.stream
             name == ArchiveName(event.stream)
  <1>1. /\ archive' = [archive EXCEPT ![name] = activeFiles[x]]
        /\ activeFiles' = [activeFiles EXCEPT ![x] = {}]
        /\ handler = "archive" /\ made' = made /\ activeFiles[x] # {}
    BY DEF Archive
  <1>2. x \in Streams /\ name \in Name /\ name.stream = x
    <2>1. event \in Event /\ startedAt \in Time
      BY <1>1 DEF PalaceTypeOK, Time, ConstantsOK
    <2> QED
      BY <2>1 DEF Event, Name, ArchiveName
  <1> HIDE DEF name, x
  <1>3. /\ activeFiles'[x] = {} /\ \A y \in Streams : y # x => activeFiles'[y] = activeFiles[y]
        /\ archive'[name] = activeFiles[x]
        /\ \A n \in Name : n # name => archive'[n] = archive[n]
    BY <1>1, <1>2 DEF PalaceTypeOK
  <1> QED
    BY <1>1, <1>2, <1>3 DEF name, x

LEMMA OfOneStreamNext ==
  ConstantsOK /\ PalaceTypeOK /\ Numbered /\ InOrder /\ OfOneStream /\ [PalaceNext]_palaceVars
    => OfOneStream'
  <1> DEFINE Here(x, t) == t \in made' /\ Stream(t)' = x
  <1> SUFFICES ASSUME ConstantsOK, PalaceTypeOK, Numbered, InOrder, OfOneStream,
                      [PalaceNext]_palaceVars
               PROVE  /\ \A t \in made' : Stream(t)' \in Streams
                      /\ \A x \in Streams : \A t \in activeFiles'[x] : Here(x, t)
                      /\ \A n \in Name : \A t \in archive'[n] : Here(n.stream, t)
                      /\ \A n \in Name :
                           \A s \in archive'[n], t \in activeFiles'[n.stream] : s < t
    BY DEF OfOneStream
  <1>0. /\ \A t \in made : Stream(t) \in Streams
        /\ \A x \in Streams : \A t \in activeFiles[x] : t \in made /\ Stream(t) = x
        /\ \A n \in Name : \A t \in archive[n] : t \in made /\ Stream(t) = n.stream
        /\ \A n \in Name : \A s \in archive[n], t \in activeFiles[n.stream] : s < t
        /\ \A n \in Name : n.stream \in Streams
    BY DEF OfOneStream, Name
  <1>s. \A t \in made : Stream(t)' = Stream(t)
    BY SameStream
  <1> HIDE DEF Here
  <1>h. \A t \in made : made \subseteq made' => Here(Stream(t), t)
    BY <1>s DEF Here
  <1>1. CASE UNCHANGED <<made, activeFiles, archive>>
    BY <1>0, <1>s, <1>h, <1>1
  <1>2. CASE OpenStore \/ StoreInitFails
    <2>0. /\ archive' = archive /\ event.stream \in Streams
          /\ \A t : t = event.session => Stream(t)' = event.stream
          /\ \A t \in made : t < event.session
      BY <1>2, Opened
    <2>1. CASE UNCHANGED <<made, activeFiles>>
      BY <1>1, <2>0, <2>1
    <2>2. CASE /\ made' = made \cup {event.session}
               /\ \A x \in Streams : activeFiles'[x] =
                    activeFiles[x] \cup (IF x = event.stream THEN {event.session} ELSE {})
      <3>1. \A t : t = event.session => Here(event.stream, t)
        BY <2>0, <2>2 DEF Here
      <3>2. ASSUME NEW x \in Streams, NEW t \in activeFiles'[x]
            PROVE  Here(x, t) /\ (t \in activeFiles[x] \/ t = event.session)
        BY <1>0, <1>h, <2>2, <3>1, <3>2
      <3>3. ASSUME NEW n \in Name, NEW s \in archive'[n], NEW t \in activeFiles'[n.stream]
            PROVE  s < t /\ Here(n.stream, s)
        <4>1. s \in archive[n] /\ s \in made
          BY <1>0, <2>0, <3>3
        <4> QED
          BY <1>0, <1>h, <2>0, <2>2, <3>2, <3>3, <4>1
      <3>4. ASSUME NEW n \in Name, NEW s \in archive'[n] PROVE Here(n.stream, s)
        BY <1>0, <1>h, <2>0, <2>2, <3>4
      <3>5. \A t \in made' : Stream(t)' \in Streams
        BY <1>0, <1>s, <2>0, <2>2
      <3> QED
        BY <3>2, <3>3, <3>4, <3>5
    <2> QED
      BY <1>2, <2>1, <2>2, Opened
  <1>3. CASE Archive
    <2> DEFINE x == event.stream
               name == ArchiveName(event.stream)
    <2>0. /\ made' = made /\ x \in Streams /\ name \in Name /\ name.stream = x
          /\ activeFiles'[x] = {}
          /\ \A y \in Streams : y # x => activeFiles'[y] = activeFiles[y]
          /\ archive'[name] = activeFiles[x]
          /\ \A n \in Name : n # name => archive'[n] = archive[n]
      BY <1>3, Moved
    <2> HIDE DEF name, x
    <2>1. ASSUME NEW y \in Streams, NEW t \in activeFiles'[y] PROVE Here(y, t)
      <3>1. y # x /\ t \in activeFiles[y]
        BY <2>0, <2>1
      <3> QED
        BY <1>0, <1>h, <2>0, <3>1
    <2>2. ASSUME NEW n \in Name, NEW t \in archive'[n] PROVE Here(n.stream, t)
      <3>1. CASE n = name
        BY <1>0, <1>h, <2>0, <2>2, <3>1
      <3>2. CASE n # name
        BY <1>0, <1>h, <2>0, <2>2, <3>2
      <3> QED
        BY <3>1, <3>2
    <2>3. ASSUME NEW n \in Name, NEW s \in archive'[n], NEW t \in activeFiles'[n.stream]
          PROVE  s < t
      <3>1. n.stream # x /\ n # name
        BY <2>0, <2>3
      <3>2. s \in archive[n] /\ t \in activeFiles[n.stream]
        BY <1>0, <2>0, <2>3, <3>1
      <3> QED
        BY <1>0, <3>2
    <2>4. \A t \in made' : Stream(t)' \in Streams
      BY <1>0, <1>s, <2>0
    <2> QED
      BY <2>1, <2>2, <2>3, <2>4
  <1> QED
    BY <1>1, <1>2, <1>3, PalaceKinds, Apart
       DEF HandleSessionEvent, Start, StreamStarts, StreamEnds, Receive, CloseStore,
          ArchiveFails, files

LEMMA KeptNext ==
  ConstantsOK /\ PalaceTypeOK /\ Numbered /\ InOrder /\ OfOneStream /\ EndsOnce
    /\ SessionsAreKept /\ [PalaceNext]_palaceVars
    => SessionsAreKept'
  <1> DEFINE KeptNow(s, x) == s \in activeFiles'[x] \/ \E n \in Name : s \in archive'[n]
             Replaced(s, x) == \E n \in Name : /\ n.stream = x /\ archive'[n] # {}
                                               /\ \A t \in archive'[n] : s < t
             Fine(s, x) == KeptNow(s, x) \/ (x \in returned' /\ Replaced(s, x))
  <1> SUFFICES ASSUME ConstantsOK, PalaceTypeOK, Numbered, InOrder, OfOneStream, EndsOnce,
                      SessionsAreKept, [PalaceNext]_palaceVars, NEW s \in made'
               PROVE  Fine(s, Stream(s)')
    BY DEF SessionsAreKept, Kept, Overwritten
  <1>s. /\ returned \subseteq returned'
        /\ s \in made => Stream(s)' = Stream(s) /\ Stream(s) \in Streams
    BY SameStream DEF OfOneStream
  <1>k. s \in made => Kept(s) \/ (Stream(s) \in returned /\ Overwritten(s))
    BY DEF SessionsAreKept
  <1>1. CASE UNCHANGED <<made, activeFiles, archive>>
    BY <1>s, <1>k, <1>1 DEF Kept, Overwritten
  <1>2. CASE OpenStore \/ StoreInitFails
    <2>0. /\ archive' = archive /\ event.stream \in Streams
          /\ \A t : t = event.session => Stream(t)' = event.stream
      BY <1>2, Opened
    <2>1. CASE UNCHANGED <<made, activeFiles>>
      BY <1>1, <2>0, <2>1
    <2>2. CASE /\ made' = made \cup {event.session}
               /\ \A x \in Streams : activeFiles'[x] =
                    activeFiles[x] \cup (IF x = event.stream THEN {event.session} ELSE {})
      <3>1. CASE s = event.session
        BY <2>0, <2>2, <3>1
      <3>2. CASE s \in made
        <4>1. CASE s \in activeFiles[Stream(s)]
          BY <1>s, <2>2, <3>2, <4>1
        <4>2. CASE s \notin activeFiles[Stream(s)]
          BY <1>s, <1>k, <2>0, <3>2, <4>2 DEF Kept, Overwritten
        <4> QED
          BY <4>1, <4>2
      <3> QED
        BY <2>2, <3>1, <3>2
    <2> QED
      BY <1>2, <2>1, <2>2, Opened
  <1>3. CASE Archive
    <2> DEFINE x == event.stream
               name == ArchiveName(event.stream)
    <2>0. /\ handler = "archive" /\ made' = made /\ x \in Streams
          /\ name \in Name /\ name.stream = x /\ activeFiles[x] # {}
          /\ \A y \in Streams : y # x => activeFiles'[y] = activeFiles[y]
          /\ archive'[name] = activeFiles[x]
          /\ \A n \in Name : n # name => archive'[n] = archive[n]
      BY <1>3, Moved
    <2>h. archive[name] = {} \/ x \in returned
      <3>1. Handled(x) /\ x \in Streams
        BY <2>0 DEF Handled
      <3>2. x \in returned \/ ~ Archived(x)
        BY <3>1 DEF EndsOnce
      <3> HIDE DEF name, x
      <3> QED
        BY <2>0, <3>2 DEF Archived
    <2> HIDE DEF name, x
    \* A file of the stream that os.Rename replaces is older than the new one.
    <2>1. ASSUME NEW u \in archive[name] PROVE \A t \in activeFiles[x] : u < t
      BY <2>0, <2>1 DEF OfOneStream
    <2>2. CASE s \in activeFiles[Stream(s)]
      BY <1>s, <2>0, <2>2
    <2>3. ASSUME NEW n \in Name, s \in archive[n] PROVE Fine(s, Stream(s)')
      <3>1. CASE n # name
        BY <2>0, <2>3, <3>1
      <3>2. CASE n = name
        <4>1. Stream(s) = x /\ x \in returned'
          BY <1>s, <2>0, <2>h, <2>3, <3>2 DEF OfOneStream
        <4>2. Replaced(s, x)
          BY <2>0, <2>1, <2>3, <3>2
        <4> QED
          BY <1>s, <2>0, <4>1, <4>2
      <3> QED
        BY <3>1, <3>2
    <2>4. ASSUME NEW n \in Name, n.stream = Stream(s), archive[n] # {},
                 \A t \in archive[n] : s < t
          PROVE  Replaced(s, Stream(s))
      <3>1. CASE n # name
        BY <2>0, <2>4, <3>1
      <3>2. CASE n = name
        <4>1. PICK u \in archive[name] : s < u
          BY <2>4, <3>2
        <4>2. \A t \in activeFiles[x] : s < t
          <5>1. s \in Int /\ u \in Int /\ \A t \in activeFiles[x] : t \in Int
            BY <2>0, <4>1 DEF PalaceTypeOK, Files, Sessions, Earlier, ConstantsOK
          <5> QED
            BY <2>1, <4>1, <5>1
        <4> QED
          BY <2>0, <2>4, <3>2, <4>2
      <3> QED
        BY <3>1, <3>2
    <2> QED
      BY <1>s, <1>k, <2>0, <2>2, <2>3, <2>4 DEF Kept, Overwritten
  <1> QED
    BY <1>1, <1>2, <1>3, PalaceKinds, Apart
       DEF HandleSessionEvent, Start, StreamStarts, StreamEnds, Receive, CloseStore,
          ArchiveFails, files

-----------------------------------------------------------------------------
LEMMA PalaceInvInit == ConstantsOK /\ PalaceInit => PalaceInv
  <1> SUFFICES ASSUME ConstantsOK, PalaceInit PROVE PalaceInv
    OBVIOUS
  <1>0. /\ MaxTime \in Nat /\ EventCap \in Nat /\ MaxSessions \in Nat
        /\ Offline \notin Streams
    BY DEF ConstantsOK
  <1>1. /\ live \in Streams \cup {Offline} /\ past = {} /\ returned = {}
        /\ prior \in Streams \cup {Offline}
        /\ now = 0 /\ sameDir \in BOOLEAN /\ started = FALSE
        /\ active = FALSE /\ streamID = Offline /\ startedAt = 0
        /\ events = <<>> /\ sessions = <<>> /\ unended = {}
        /\ handler = "select" /\ store = NoStore /\ open = {} /\ forgotten = {}
        /\ made = IF prior = Offline THEN {} ELSE {Earlier}
        /\ activeFiles = [s \in Streams |-> IF s = prior THEN {Earlier} ELSE {}]
        /\ archive = [n \in Name |-> {}]
    BY DEF PalaceInit
  <1>2. made \subseteq {Earlier} /\ Earlier \in Files
    BY <1>1 DEF Files
  <1>3. PalaceTypeOK
    <2>1. <<>> \in Seq(Event) /\ <<>> \in Seq(Streams) /\ Len(<<>>) = 0
      OBVIOUS
    <2>2. now \in Time /\ startedAt \in 0..now
      BY <1>0, <1>1 DEF Time
    <2>3. /\ activeFiles \in [Streams -> SUBSET Files]
          /\ archive \in [Name -> SUBSET Files]
      BY <1>1, <1>2
    <2>4. /\ events \in Seq(Event) /\ Len(events) <= EventCap
          /\ sessions \in Seq(Streams) /\ Len(sessions) <= MaxSessions
      BY <1>0, <1>1, <2>1
    <2>5. handler # "select" => event \in Event
      BY <1>1
    <2> QED
      BY <1>1, <1>2, <2>2, <2>3, <2>4, <2>5 DEF PalaceTypeOK
  <1>4. Numbered
    BY <1>1, <1>2 DEF Numbered, IsStart, Earlier
  <1>5. InOrder /\ EndsFollow /\ LeaksAreExplained
    BY <1>1 DEF InOrder, EndsFollow, LeaksAreExplained
  <1>6. EndsOnce
    BY <1>1 DEF EndsOnce, Queued, Handled, Archived
  <1>7. OfOneStream
    BY <1>0, <1>1 DEF OfOneStream, Stream
  <1>8. SessionsAreKept
    <2> SUFFICES ASSUME NEW s \in made PROVE Kept(s)
      BY DEF SessionsAreKept
    <2>1. s = Earlier /\ prior \in Streams
      BY <1>1
    <2> QED
      BY <1>1, <2>1 DEF Kept, Stream
  <1> QED
    BY <1>0, <1>3, <1>4, <1>5, <1>6, <1>7, <1>8 DEF PalaceInv, ConstantsOK

LEMMA PalaceInvNext == PalaceInv /\ [PalaceNext]_palaceVars => PalaceInv'
  <1> SUFFICES ASSUME PalaceInv, [PalaceNext]_palaceVars PROVE PalaceInv'
    OBVIOUS
  <1>1. ConstantsOK'
    BY DEF PalaceInv, ConstantsOK
  <1> QED
    BY <1>1, PalaceTypeNext, NumberedNext, InOrderNext, OfOneStreamNext, EndsFollowNext,
       LeaksNext, EndsOnceNext, KeptNext
       DEF PalaceInv

\* Every invariant holds, together with what it rests on.
LEMMA PalaceInvariant == PalaceSpec => []PalaceInv
  BY MemPalaceAssumption, PalaceInvInit, PalaceInvNext, PTL DEF PalaceSpec

(* In every reachable state the controller, the channel of its events, the *)
(* event goroutine and the files have their types.                         *)
THEOREM PalaceTypes == PalaceSpec => []PalaceTypeOK
  BY PalaceInvariant, PTL DEF PalaceInv

(* A database handle that nobody can close any more is that of a session   *)
(* whose own end event found the channel full, or whose Init failed with   *)
(* it open; every other handle is that of m.store. This holds whatever     *)
(* Twitch reports and whichever other events are dropped.                  *)
THEOREM LeaksExplained == PalaceSpec => []LeaksAreExplained
  BY PalaceInvariant, PTL DEF PalaceInv

(* No file of a session is lost, even where its archive is named by the    *)
(* starting time of the next stream, where events are dropped and where a  *)
(* killed bot left the file, but by one of the same broadcast that is      *)
(* later, when Twitch reported it live again after its end.                *)
THEOREM SessionsKept == PalaceSpec => []SessionsAreKept
  BY PalaceInvariant, PTL DEF PalaceInv

=============================================================================
