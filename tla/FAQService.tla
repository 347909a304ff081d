----------------------------- MODULE FAQService -----------------------------
(***************************************************************************)
(* faq/service.go and faq/matcher.go with the goroutines that call them:   *)
(* twitch/faq_processor.go is run for a chat message by HandleChat, in a   *)
(* goroutine of its own, and again as a consumer of the message broker,    *)
(* one message at a time in the order of the chat (BroadcastLog). A        *)
(* reconnect starts another broker for the same processor and leaves the   *)
(* one before to work off its messages.                                    *)
(*                                                                         *)
(* Each run is a check. Between its SELECT for an entry that is not on     *)
(* cooldown and the transaction that starts the cooldown it waits for the  *)
(* LLM, and other checks go on. The transaction writes its own NOW(),      *)
(* the time of its BEGIN, when it gets to its UPDATE.                      *)
(***************************************************************************)
EXTENDS Integers, Sequences

CONSTANTS
  Faqs, NoFaq,  \* active entries that have an embedding; none of them
  Users,        \* display names, which CheckMessage takes for the user ID
  Lines,        \* what may be written: [user, matches, forked]
  Cooldown,     \* cooldown_seconds, in ticks
  ResponseCap,  \* capacity of asyncResponseCh (10 in the code)
  MaxConnections, MaxMessages, MaxTime  \* bounds

\* A line's matches are the entries at or over the threshold, best first;
\* forked is what ShouldProcessMessage says of it.
ASSUME LinesAssumption ==
  /\ Lines \subseteq [user : Users, matches : Seq(Faqs), forked : BOOLEAN]
  /\ NoFaq \notin Faqs
ASSUME BoundAssumption ==
  /\ Cooldown \in Nat /\ ResponseCap \in Nat
  /\ MaxConnections \in Nat /\ MaxMessages \in Nat /\ MaxTime \in Nat

Id == 1..MaxMessages
Brokers == 1..MaxConnections
Checks == Id \X {"fork", "broker"}
Never == -1                    \* NULL

VARIABLES
  now,
  arrived,        \* history: the lines written so far
  via,            \* per line: the broker it was published to, one per connection
  pc,             \* per check: where its goroutine is
  faq,            \* per check: the matched entry
  at,             \* per check: NOW() of its SELECT, then of its transaction
  lastTriggered,  \* faq_entries.last_triggered_at
  userTriggered,  \* faq_user_cooldowns.triggered_at
  responseCh,     \* asyncResponseCh
  asked,          \* history: checks that matched an entry
  said, dropped,  \* history: checks whose answer was said, or dropped
  quiet           \* history: triggers recorded while no other check held the entry

chat == <<now, arrived, via>>
checks == <<pc, faq, at>>
tables == <<lastTriggered, userTriggered, quiet>>
answers == <<responseCh, asked, said, dropped>>
vars == <<chat, checks, tables, answers>>

Init ==
  /\ now = 0
  /\ arrived = <<>>
  /\ via = <<>>
  /\ pc = [c \in Checks |-> "none"]
  /\ faq = [c \in Checks |-> NoFaq]
  /\ at = [c \in Checks |-> 0]
  /\ lastTriggered = [f \in Faqs |-> Never]
  /\ userTriggered = [f \in Faqs |-> [u \in Users |-> Never]]
  /\ responseCh = <<>>
  /\ asked = {} /\ said = {} /\ dropped = {}
  /\ quiet = {}

User(c) == arrived[c[1]].user
Candidates(c) == arrived[c[1]].matches
Goto(c, place) == pc' = [pc EXCEPT ![c] = place]

\* processInternal returns: the locals of the check are gone.
Return(c) == /\ Goto(c, "done")
             /\ faq' = [faq EXCEPT ![c] = NoFaq]
             /\ at' = [at EXCEPT ![c] = 0]

\* The check has an entry in hand whose cooldown it has not started yet.
Holds(c, f) == pc[c] \in {"matched", "recording"} /\ faq[c] = f

-----------------------------------------------------------------------------
(* Faulty variants of the operations below, one per bug the properties     *)
(* must tell from the code. No action of Next uses them.                   *)

\* A match for a user that looks at the user's own cooldown only.
AvailableToUser(c) ==
  {i \in DOMAIN Candidates(c) : LET t == userTriggered[Candidates(c)[i]][User(c)]
                                IN t = Never \/ t < now - Cooldown}

\* The user's row fails and the entry's is kept: no transaction.
CommitEntryOnly(c) ==
  /\ pc[c] = "recording"
  /\ lastTriggered' = [lastTriggered EXCEPT ![faq[c]] = at[c]]
  /\ quiet' = quiet
  /\ Goto(c, "answering")
  /\ UNCHANGED <<chat, faq, at, userTriggered, answers>>

\* A failure to record the trigger is returned, not ignored.
TxFailureReturned(c) ==
  /\ pc[c] = "recording"
  /\ Return(c)
  /\ UNCHANGED <<chat, tables, answers>>

\* The send ignores the capacity of the channel.
RespondUnbounded(c) ==
  /\ pc[c] = "answering"
  /\ responseCh' = Append(responseCh, c)
  /\ Return(c)
  /\ UNCHANGED <<chat, tables, asked, said, dropped>>

-----------------------------------------------------------------------------
(* The chat.                                                               *)

\* OnPrivateMessage: publish to the broker of this connection, that of the last
\* line or, after reconnects, a new one; HandleChat forks a check.
OnPrivateMessage(line, broker) ==
  /\ Len(arrived) < MaxMessages
  /\ broker \in IF via = <<>> THEN {1} ELSE {via[Len(via)], via[Len(via)] + 1}
  /\ arrived' = Append(arrived, line)
  /\ via' = Append(via, broker)
  /\ LET id == Len(arrived) + 1
     IN pc' = [c \in Checks |->
                 CASE c = <<id, "broker">> -> "queued"
                   [] c = <<id, "fork">> /\ line.forked -> "checking"
                   [] OTHER -> pc[c]]
  /\ UNCHANGED <<now, faq, at, tables, answers>>

\* A broker calls ProcessMessage when its call before has returned.
ProcessMessage(id) ==
  /\ pc[<<id, "broker">>] = "queued"
  /\ \A i \in 1..(id - 1) : via[i] = via[id] => pc[<<i, "broker">>] = "done"
  /\ Goto(<<id, "broker">>, "checking")
  /\ UNCHANGED <<chat, faq, at, tables, answers>>

Tick == /\ now < MaxTime
        /\ now' = now + 1
        /\ UNCHANGED <<arrived, via, checks, tables, answers>>

\* handleAsyncResponses: an FAQ answer is only said, never stored again.
Say == /\ responseCh # <<>>
       /\ said' = said \cup {Head(responseCh)}
       /\ responseCh' = Tail(responseCh)
       /\ UNCHANGED <<chat, checks, tables, asked, dropped>>

-----------------------------------------------------------------------------
(* CheckMessage.                                                           *)

Passed(triggered) == triggered = Never \/ triggered < now - Cooldown

\* FindMatchForUser's WHERE clause: off the global and the user's cooldown.
Available(c) ==
  {i \in DOMAIN Candidates(c) : /\ Passed(lastTriggered[Candidates(c)[i]])
                                /\ Passed(userTriggered[Candidates(c)[i]][User(c)])}

\* Generate, or the query, fails.
CheckFails(c) ==
  /\ pc[c] = "checking"
  /\ Goto(c, "done")
  /\ UNCHANGED <<chat, faq, at, tables, answers>>

NoMatch(c) ==
  /\ pc[c] = "checking"
  /\ Available(c) = {}
  /\ Goto(c, "done")
  /\ UNCHANGED <<chat, faq, at, tables, answers>>

\* The best of the entries that are available.
FindMatch(c) ==
  /\ pc[c] = "checking"
  /\ \E best \in Available(c) :
       /\ \A i \in Available(c) : best <= i
       /\ faq' = [faq EXCEPT ![c] = Candidates(c)[best]]
  /\ at' = [at EXCEPT ![c] = now]
  /\ Goto(c, "matched")
  /\ asked' = asked \cup {c}
  /\ UNCHANGED <<chat, tables, responseCh, said, dropped>>

\* generateResponse has answered, or failed and the cached response is used;
\* RecordTriggerWithUser begins its transaction.
BeginTx(c) ==
  /\ pc[c] = "matched"
  /\ at' = [at EXCEPT ![c] = now]
  /\ Goto(c, "recording")
  /\ UNCHANGED <<chat, faq, tables, answers>>

\* Both rows, and the commit.
CommitTx(c) ==
  /\ pc[c] = "recording"
  /\ lastTriggered' = [lastTriggered EXCEPT ![faq[c]] = at[c]]
  /\ userTriggered' = [userTriggered EXCEPT ![faq[c]][User(c)] = at[c]]
  /\ quiet' = IF \E d \in Checks \ {c} : Holds(d, faq[c])
              THEN quiet
              ELSE quiet \cup {[faq |-> faq[c], at |-> at[c]]}
  /\ Goto(c, "answering")
  /\ UNCHANGED <<chat, faq, at, answers>>

\* The transaction is rolled back; the answer is given all the same.
TxFails(c) ==
  /\ pc[c] = "recording"
  /\ Goto(c, "answering")
  /\ UNCHANGED <<chat, faq, at, tables, answers>>

\* recordResponse's row in faq_responses, which nothing reads and whose failure
\* is ignored, is left out. processInternal's send does not wait: the answer is
\* dropped when the channel is full.
Respond(c) ==
  /\ pc[c] = "answering"
  /\ IF Len(responseCh) < ResponseCap
     THEN responseCh' = Append(responseCh, c) /\ UNCHANGED dropped
     ELSE dropped' = dropped \cup {c} /\ UNCHANGED responseCh
  /\ Return(c)
  /\ UNCHANGED <<chat, tables, asked, said>>

-----------------------------------------------------------------------------
Step(c) == \/ c[2] = "broker" /\ ProcessMessage(c[1])
           \/ CheckFails(c) \/ NoMatch(c) \/ FindMatch(c)
           \/ BeginTx(c) \/ CommitTx(c) \/ TxFails(c)
           \/ Respond(c)

Next ==
  \/ \E line \in Lines, broker \in Brokers : OnPrivateMessage(line, broker)
  \/ Tick \/ Say
  \/ \E c \in Checks : Step(c)

Spec == Init /\ [][Next]_vars

\* Goroutines run; the LLM and the database answer or fail.
FairSpec == /\ Spec
            /\ \A c \in Checks : WF_vars(Step(c))
            /\ WF_vars(Say)

-----------------------------------------------------------------------------
Time == 0..MaxTime
Places == {"none", "queued", "checking", "matched", "recording", "answering", "done"}

(* Every variable has its type, and the response channel its capacity.     *)
TypeOK ==
  /\ now \in Time
  /\ arrived \in Seq(Lines)
  /\ via \in Seq(Brokers) /\ Len(via) = Len(arrived)
  /\ pc \in [Checks -> Places]
  /\ faq \in [Checks -> Faqs \cup {NoFaq}]
  /\ at \in [Checks -> Time]
  /\ lastTriggered \in [Faqs -> Time \cup {Never}]
  /\ userTriggered \in [Faqs -> [Users -> Time \cup {Never}]]
  /\ responseCh \in Seq(Checks) /\ Len(responseCh) <= ResponseCap
  /\ asked \subseteq Checks /\ said \subseteq asked /\ dropped \subseteq asked
  /\ quiet \subseteq [faq : Faqs, at : Time]

(* RecordTriggerWithUser's transaction makes the two cooldowns one event:  *)
(* whenever an entry was last triggered, it was by a user whose own        *)
(* cooldown started at that very time, whatever fails or overlaps.         *)
TriggersAgree ==
  \A f \in Faqs :
    IF lastTriggered[f] = Never
    THEN \A u \in Users : userTriggered[f][u] = Never
    ELSE \E u \in Users : userTriggered[f][u] = lastTriggered[f]

(* The cooldown holds outside overlaps: once a trigger is recorded while   *)
(* no other check has the entry in hand, no check matches the entry again  *)
(* before the cooldown is over, although overlapping transactions may      *)
(* later move last_triggered_at backwards.                                 *)
Matches(c) == pc[c] = "checking" /\ pc'[c] = "matched"
CooldownOutsideOverlap ==
  [][\A c \in Checks : \A q \in quiet :
       Matches(c) /\ faq'[c] = q.faq => now > q.at + Cooldown]_vars

(* A matched entry is answered whatever fails after the match; only a full *)
(* response channel drops the answer. (Stated when chat has fallen silent.)*)
MatchedIsAnswered ==
  (\E c \in Checks : pc[c] = "matched") ~> (asked = said \cup dropped)

(* What the schema says of cooldown_seconds (database/migrations/          *)
(* 0008_faq_entries.sql:22): "Cooldown in seconds before this FAQ can      *)
(* trigger again (global cooldown)".                                       *)
OneTriggerPerCooldown ==
  [][\A f \in Faqs :
       lastTriggered[f] # Never /\ lastTriggered'[f] # lastTriggered[f] =>
         lastTriggered'[f] > lastTriggered[f] + Cooldown]_vars

=============================================================================
