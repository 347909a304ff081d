---------------------------- MODULE PalaceSession ----------------------------
(***************************************************************************)
(* twitch/palace_session.go and twitch/session_registry.go: the chat that  *)
(* does not mention the bot is collected in a buffer and sent to the       *)
(* memory service (cmd/mempalace-wrapper), one request per room, by        *)
(* whichever of these comes first: the goroutine that fills the buffer, or *)
(* the loop that flushes it every 30 seconds and once more at the end.     *)
(*                                                                         *)
(* Four kinds of goroutine meet here: the callback of the IRC client, which*)
(* makes the session with the registry's lock held while the service       *)
(* answers; the goroutines of IndexMessage; flushLoop; and Shutdown, which *)
(* waits for that lock, ends the session and exits without waiting for     *)
(* anyone. A message that is handled between the two begins a second       *)
(* session in the directory that was just removed. A message is its number.*)
(***************************************************************************)
EXTENDS Integers, Sequences, FiniteSets

CONSTANTS
  Batch,        \* IndexMessage flushes a buffer of this length (10 in the code)
  MaxMessages   \* bound

ASSUME PalaceAssumption == Batch \in Nat \ {0} /\ MaxMessages \in Nat

Message == 1..MaxMessages
Session == 1..2                     \* Shutdown ends one, and then exits
Loop(s) == - s                      \* the goroutine of flushLoop
Loops == {Loop(s) : s \in Session}
Goroutines == Loops \cup Message    \* m: the one that indexes message m

VARIABLES
  main,         \* "up"; "stopping", "ending", "ended": in Shutdown; "exited"
  mu,           \* who holds the registry's lock: "free", "chat", "main"
  entry,        \* the registry's session for the channel, or 0
  begun,        \* sessions begun
  ended,        \* sessions whose stopCh is closed
  palaceDir,    \* the directory of the palace exists
  arrived,      \* messages handled so far
  pc,           \* per goroutine: its place
  home,         \* per goroutine: its session
  messageBuf,   \* per session
  batch,        \* per goroutine: the set it took from the buffer and has not sent
  received,     \* how often the memory service has stored a message
  failed        \* messages whose request failed, or had no answer

registry == <<main, mu, entry, begun, ended>>
outcome == <<received, failed>>
vars == <<registry, palaceDir, arrived, pc, home, messageBuf, batch, outcome>>

Running == main # "exited"

Init ==
  /\ main = "up" /\ mu = "free"
  /\ entry = 0 /\ begun = 0 /\ ended = {}
  /\ palaceDir = FALSE
  /\ arrived = 0
  /\ pc = [g \in Goroutines |-> "none"]
  /\ home = [g \in Goroutines |-> IF g \in Loops THEN - g ELSE 0]
  /\ messageBuf = [s \in Session |-> <<>>]
  /\ batch = [g \in Goroutines |-> {}]
  /\ received = [m \in Message |-> 0]
  /\ failed = {}

Goto(g, place) == pc' = [pc EXCEPT ![g] = place]
Elements(s) == {s[i] : i \in 1..Len(s)}
Buffer(g) == messageBuf[home[g]]

\* Where a goroutine goes when its flush has returned.
Flushed(g) == IF g \in Loops THEN "select" ELSE "done"

-----------------------------------------------------------------------------
(* Faulty variants of the operations below, one per bug the properties     *)
(* must tell from the code. No action of Next uses them.                   *)

\* The buffer is taken and left.
SwapHalf(g) ==
  /\ pc[g] \in {"flush", "final"} /\ Buffer(g) # <<>>
  /\ batch' = [batch EXCEPT ![g] = Elements(Buffer(g))]
  /\ Goto(g, IF pc[g] = "final" THEN "final mining" ELSE "mining")
  /\ UNCHANGED <<registry, palaceDir, arrived, home, messageBuf, outcome>>

\* Only the end of the session flushes a buffer that is not full.
TickInVain(s) ==
  /\ pc[Loop(s)] = "select"
  /\ Goto(Loop(s), "select")
  /\ UNCHANGED <<registry, palaceDir, arrived, home, messageBuf, batch, outcome>>

\* GetOrCreateSession without defer: after an error nobody unlocks.
InitFailsLocked ==
  /\ entry = 0 /\ mu = "free" /\ arrived < MaxMessages
  /\ mu' = "main"
  /\ arrived' = arrived + 1
  /\ UNCHANGED <<main, entry, begun, ended, palaceDir, pc, home, messageBuf, batch, outcome>>

\* EndAll releases the lock before it removes the directories.
EndAllUnlocked ==
  /\ main = "stopping" /\ mu = "free"
  /\ ended' = ended \cup ({entry} \ {0})
  /\ entry' = 0
  /\ main' = "ending"
  /\ UNCHANGED <<mu, begun, palaceDir, arrived, pc, home, messageBuf, batch, outcome>>

-----------------------------------------------------------------------------
(* HandleChat and GetOrCreateSession, in the callback of the IRC client,   *)
(* for a message that does not mention the bot: go session.IndexMessage.   *)

Index(m, s) ==
  /\ Goto(m, "append")
  /\ home' = [home EXCEPT ![m] = s]

HandleChat ==
  /\ entry # 0 /\ mu = "free" /\ arrived < MaxMessages
  /\ arrived' = arrived + 1
  /\ Index(arrived + 1, entry)
  /\ UNCHANGED <<registry, palaceDir, messageBuf, batch, outcome>>

\* The first message takes the lock, and init makes the directory.
BeginSession ==
  /\ entry = 0 /\ mu = "free" /\ arrived < MaxMessages
  /\ mu' = "chat"
  /\ palaceDir' = TRUE
  /\ arrived' = arrived + 1
  /\ UNCHANGED <<main, entry, begun, ended, pc, home, messageBuf, batch, outcome>>

\* init cannot make the directory, or the configuration in it: the message is
\* not indexed, and the next one tries again.
InitFails ==
  /\ entry = 0 /\ mu = "free" /\ arrived < MaxMessages
  /\ arrived' = arrived + 1
  /\ palaceDir' \in {palaceDir, TRUE}
  /\ UNCHANGED <<registry, pc, home, messageBuf, batch, outcome>>

\* registerDefaultRoutes: six requests, one after another, each answered or
\* not; then the loop is started and the session entered.
EnterSession ==
  LET s == begun + 1
  IN /\ mu = "chat"
     /\ mu' = "free"
     /\ entry' = s /\ begun' = s
     /\ pc' = [pc EXCEPT ![Loop(s)] = "select", ![arrived] = "append"]
     /\ home' = [home EXCEPT ![arrived] = s]
     /\ UNCHANGED <<main, ended, palaceDir, arrived, messageBuf, batch, outcome>>

-----------------------------------------------------------------------------
(* IndexMessage and flushLoop.                                             *)

AppendAndCheck(m) ==
  /\ pc[m] = "append"
  /\ messageBuf' = [messageBuf EXCEPT ![home[m]] = Append(@, m)]
  /\ Goto(m, IF Len(Buffer(m)) + 1 >= Batch THEN "flush" ELSE "done")
  /\ UNCHANGED <<registry, palaceDir, arrived, home, batch, outcome>>

\* The select of flushLoop: a tick, which may come although the ticker has
\* been stopped since, or the end of the session.
TakeTick(s) ==
  /\ pc[Loop(s)] = "select"
  /\ Goto(Loop(s), "flush")
  /\ UNCHANGED <<registry, palaceDir, arrived, home, messageBuf, batch, outcome>>

TakeStop(s) ==
  /\ pc[Loop(s)] = "select" /\ s \in ended
  /\ Goto(Loop(s), "final")
  /\ UNCHANGED <<registry, palaceDir, arrived, home, messageBuf, batch, outcome>>

-----------------------------------------------------------------------------
(* flush.                                                                  *)

NothingToFlush(g) ==
  /\ pc[g] \in {"flush", "final"} /\ Buffer(g) = <<>>
  /\ Goto(g, IF pc[g] = "final" THEN "done" ELSE Flushed(g))
  /\ UNCHANGED <<registry, palaceDir, arrived, home, messageBuf, batch, outcome>>

Swap(g) ==
  /\ pc[g] \in {"flush", "final"} /\ Buffer(g) # <<>>
  /\ batch' = [batch EXCEPT ![g] = Elements(Buffer(g))]
  /\ messageBuf' = [messageBuf EXCEPT ![home[g]] = <<>>]
  /\ Goto(g, IF pc[g] = "final" THEN "final mining" ELSE "mining")
  /\ UNCHANGED <<registry, palaceDir, arrived, home, outcome>>

\* The service's handleMine for one request: the palace's program stores the
\* messages, and may make a directory that is gone.
HandleMine(sent) ==
  /\ received' = [m \in Message |-> received[m] + (IF m \in sent THEN 1 ELSE 0)]
  /\ palaceDir' \in {palaceDir, TRUE}

\* determineRoom files a message by the service's route or by its keywords: the
\* messages of one room may be any part of the batch.
RoomMsgs(g) == (SUBSET batch[g]) \ {{}}

\* writeAndMine: a request for the messages of one room, the rooms in any
\* order. It fails, is carried out, or is carried out and its answer lost;
\* what the answer says is not looked at.
Mine(g) ==
  /\ pc[g] \in {"mining", "final mining"}
  /\ \E sent \in RoomMsgs(g), stored, answered \in BOOLEAN :
       /\ IF stored THEN HandleMine(sent) ELSE UNCHANGED <<received, palaceDir>>
       /\ failed' = IF stored /\ answered THEN failed ELSE failed \cup sent
       /\ batch' = [batch EXCEPT ![g] = @ \ sent]
  /\ UNCHANGED <<registry, arrived, pc, home, messageBuf>>

MineReturns(g) ==
  /\ pc[g] \in {"mining", "final mining"} /\ batch[g] = {}
  /\ Goto(g, IF pc[g] = "final mining" THEN "done" ELSE Flushed(g))
  /\ UNCHANGED <<registry, palaceDir, arrived, home, messageBuf, batch, outcome>>

-----------------------------------------------------------------------------
(* Shutdown: EndAll, with the registry's lock, closes stopCh, removes the  *)
(* palace's directory and empties the registry; then os.Exit, whatever the *)
(* goroutines are doing.                                                   *)

Interrupt ==
  /\ main = "up"
  /\ main' = "stopping"
  /\ UNCHANGED <<mu, entry, begun, ended, palaceDir, arrived, pc, home, messageBuf, batch, outcome>>

EndAll ==
  /\ main = "stopping" /\ mu = "free"
  /\ mu' = "main"
  /\ ended' = ended \cup ({entry} \ {0})
  /\ main' = "ending"
  /\ UNCHANGED <<entry, begun, palaceDir, arrived, pc, home, messageBuf, batch, outcome>>

\* RemoveAll of the session's directory may fail; the registry forgets it.
RemoveAll ==
  /\ main = "ending"
  /\ palaceDir' \in (IF ended = {} THEN {palaceDir} ELSE {palaceDir, FALSE})
  /\ entry' = IF mu = "main" THEN 0 ELSE entry
  /\ mu' = IF mu = "main" THEN "free" ELSE mu
  /\ main' = "ended"
  /\ UNCHANGED <<begun, ended, arrived, pc, home, messageBuf, batch, outcome>>

Exit ==
  /\ main = "ended"
  /\ main' = "exited"
  /\ UNCHANGED <<mu, entry, begun, ended, palaceDir, arrived, pc, home, messageBuf, batch, outcome>>

-----------------------------------------------------------------------------
Flush(g) == NothingToFlush(g) \/ Swap(g) \/ Mine(g) \/ MineReturns(g)

IndexMessage(m) == Running /\ (AppendAndCheck(m) \/ Flush(m))
FlushLoop(s) == Running /\ (TakeTick(s) \/ TakeStop(s) \/ Flush(Loop(s)))
Callback == Running /\ (HandleChat \/ BeginSession \/ InitFails)
Create == Running /\ EnterSession
Shutdown == EndAll \/ RemoveAll \/ Exit

Next ==
  \/ Callback \/ Create
  \/ \E m \in Message : IndexMessage(m)
  \/ \E s \in Session : FlushLoop(s)
  \/ Interrupt \/ Shutdown

Spec == Init /\ [][Next]_vars

\* Goroutines run; a request is answered or fails within two minutes, the
\* registration of a route within 30 seconds; a lock that is asked for again
\* and again goes to who waits for it.
FairSpec ==
  /\ Spec
  /\ WF_vars(Create) /\ SF_vars(Shutdown)
  /\ \A s \in Session : WF_vars(FlushLoop(s))
  /\ \A m \in Message : WF_vars(IndexMessage(m))

-----------------------------------------------------------------------------
Places == {"none", "append", "flush", "final", "select", "mining", "final mining", "done"}

(* Every variable has its type, and an idle goroutine holds no batch.      *)
TypeOK ==
  /\ main \in {"up", "stopping", "ending", "ended", "exited"}
  /\ mu \in {"free", "chat", "main"}
  /\ entry \in {0} \cup Session /\ begun \in {0} \cup Session /\ ended \subseteq Session
  /\ palaceDir \in BOOLEAN
  /\ arrived \in 0..MaxMessages
  /\ pc \in [Goroutines -> Places]
  /\ home \in [Goroutines -> {0} \cup Session]
  /\ messageBuf \in [Session -> Seq(Message)]
  /\ batch \in [Goroutines -> SUBSET Message]
  /\ \A g \in Goroutines : pc[g] \notin {"mining", "final mining"} => batch[g] = {}
  /\ received \in [Message -> Nat]
  /\ failed \subseteq Message

(* A message is in one place at a time, however the goroutines that append *)
(* and those that flush take turns: in a buffer, in one batch, or stored   *)
(* or failed; and it is never stored twice.                                *)
Occurrences(m, s) == Cardinality({i \in 1..Len(s) : s[i] = m})
Held(m) == Occurrences(m, messageBuf[1]) + Occurrences(m, messageBuf[2])
             + Cardinality({g \in Goroutines : m \in batch[g]})
Settled(m) == received[m] > 0 \/ m \in failed
EachMessageOnce ==
  \A m \in Message :
    /\ received[m] <= 1
    /\ Held(m) = IF pc[m] \in {"none", "append"} \/ Settled(m) THEN 0 ELSE 1

(* A session that a handler can get from the registry is whole: its loop   *)
(* has not been told to stop and its directory is there, although EndAll   *)
(* removes a directory of the same name, and the messages that come while  *)
(* it does begin a session anew.                                           *)
OpenSessionIsWhole ==
  entry # 0 /\ mu = "free" /\ Running => palaceDir /\ entry \notin ended

(* A message in the buffer is sent, as long as the bot is up: by the       *)
(* ticker if no other message ever comes.                                  *)
BufferedIsSettled ==
  \A m \in Message :
    (\E s \in Session : m \in Elements(messageBuf[s])) ~> (Settled(m) \/ main # "up")

(* An interrupt ends the process, although EndAll may have to wait for a   *)
(* session that is just being made, or could not be made.                  *)
InterruptEnds == (main = "stopping") ~> (main = "exited")

=============================================================================
