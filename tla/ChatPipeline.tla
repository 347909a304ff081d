---------------------------- MODULE ChatPipeline ----------------------------
(***************************************************************************)
(* How the bot answers a mention: HandleChat (twitch/handleMessage.go) in  *)
(* the callback of the IRC client, one message at a time; ExecuteWebSearch *)
(* (ai/twitchchat/llm.go) in a goroutine per search; handleAsyncResponses  *)
(* (twitch/connection.go) in a goroutine per connection, for connections   *)
(* are replaced and their handlers are not.                                *)
(*                                                                         *)
(* The LLM's chat history is a slice that the callback and the searches    *)
(* read and write without a lock. A read and a write of the slice are      *)
(* steps of their own; each takes the whole of its header.                 *)
(***************************************************************************)
EXTENDS Integers, Sequences, FiniteSets, SequencesExt

CONSTANTS
  HistoryLimit,    \* manageChatHistory prunes at this length (10 in the code)
  ResponseCap,     \* capacity of asyncResponseCh (10 in the code)
  MaxMentions, MaxFaqAnswers, MaxConnections  \* bounds

ASSUME LimitAssumption == /\ HistoryLimit \in Nat \ {0} /\ ResponseCap \in Nat \ {0}
                          /\ MaxMentions \in Nat /\ MaxFaqAnswers \in Nat
                          /\ MaxConnections \in Nat

Mention == 1..MaxMentions
Faq == -MaxFaqAnswers .. -1    \* answers of the FAQ service, which share the channel
Nothing == 0
Callback == 0
Goroutines == {Callback} \cup Mention    \* m: the web search for mention m
Handlers == 1..MaxConnections

VARIABLES
  conn,             \* number of ConnectIRC calls
  alive,            \* irc.Client is connecting or connected
  mention,          \* number of mentions handled, the one in hand included
  at, entry, view,  \* per goroutine: its place, what it adds to the history, what it read
  chatHistory,
  asyncResponseCh,
  handling,         \* per handler: the response it took from the channel
  faqs,             \* answers of the FAQ service so far
  messageHistory,   \* what the LLM call in progress was given of the history
  disturbed,        \* history: a search wrote while the question was being added
  sent,             \* history: responses sent to the channel
  said              \* history: lines of searches and of the FAQ service given to Say

connection == <<conn, alive>>
locals == <<at, entry, view>>
vars == <<connection, mention, locals, chatHistory, asyncResponseCh, handling,
          faqs, messageHistory, disturbed, sent, said>>

Entry == [kind : {"question", "answer"}, of : Mention]
NoEntry == [kind |-> "none", of |-> Nothing]
Line == [kind : {"wait", "async"}, of : Mention \cup Faq]

Init ==
  /\ conn = 0 /\ alive = FALSE
  /\ mention = 0
  /\ at = [g \in Goroutines |-> "idle"]
  /\ entry = [g \in Goroutines |-> NoEntry]
  /\ view = [g \in Goroutines |-> <<>>]
  /\ chatHistory = <<>>
  /\ asyncResponseCh = <<>>
  /\ handling = [h \in Handlers |-> Nothing]
  /\ faqs = 0
  /\ messageHistory = <<>>
  /\ disturbed = FALSE
  /\ sent = <<>> /\ said = <<>>

Goto(g, place) == at' = [at EXCEPT ![g] = place]
Add(g, kind, m) == entry' = [entry EXCEPT ![g] = [kind |-> kind, of |-> m]]
Forget(g) == /\ entry' = [entry EXCEPT ![g] = NoEntry]
             /\ view' = [view EXCEPT ![g] = <<>>]
Say(kind, m) == said' = Append(said, [kind |-> kind, of |-> m])

\* A panic in the callback ends the process.
Up == at[Callback] # "panicked"

\* A search wrote the history while the callback was between its own first
\* read of it and its LLM call.
Asking == at[Callback] \in {"check", "prune", "append", "store", "context"}
          /\ entry[Callback].kind = "question"
Disturb(g) == disturbed' = (disturbed \/ (g # Callback /\ Asking))

-----------------------------------------------------------------------------
(* Faulty variants of the operations below, one per bug the properties     *)
(* must tell from the code. No action of Next uses them.                   *)

\* The goroutine of the search is started before "one second ..." is said.
SearchBeforeWait ==
  /\ at[Callback] = "search"
  /\ IF at[mention] = "idle"
     THEN Goto(mention, "searching") /\ UNCHANGED said
     ELSE Goto(Callback, "idle") /\ Say("wait", mention)
  /\ UNCHANGED <<connection, mention, entry, view, chatHistory, asyncResponseCh,
                 handling, faqs, messageHistory, disturbed, sent>>

\* The check forgets to prune.
CheckNothing(g) ==
  /\ at[g] = "check"
  /\ Goto(g, "append")
  /\ UNCHANGED <<connection, mention, entry, view, chatHistory, asyncResponseCh, handling,
                 faqs, messageHistory, disturbed, sent, said>>

\* The LLM is given the history without its newest entry.
ContextBefore ==
  /\ at[Callback] = "context"
  /\ messageHistory' = Front(chatHistory)
  /\ Goto(Callback, "llm") /\ Forget(Callback)
  /\ UNCHANGED <<connection, mention, chatHistory, asyncResponseCh, handling, faqs,
                 disturbed, sent, said>>

\* A search drops its answer when the channel is full, as an FAQ answer is.
SendOrDrop(m) ==
  /\ at[m] = "respond"
  /\ IF Len(asyncResponseCh) < ResponseCap
     THEN /\ asyncResponseCh' = Append(asyncResponseCh, m)
          /\ sent' = Append(sent, m)
     ELSE UNCHANGED <<asyncResponseCh, sent>>
  /\ Goto(m, "done") /\ Forget(m)
  /\ UNCHANGED <<connection, mention, chatHistory, handling, faqs, messageHistory,
                 disturbed, said>>

\* One more handler than there are connections.
ReceiveByOneMore(h) ==
  /\ h <= conn + 1 /\ handling[h] = Nothing
  /\ asyncResponseCh # <<>>
  /\ handling' = [handling EXCEPT ![h] = Head(asyncResponseCh)]
  /\ asyncResponseCh' = Tail(asyncResponseCh)
  /\ UNCHANGED <<connection, mention, locals, chatHistory, faqs, messageHistory,
                 disturbed, sent, said>>

\* A call to the LLM that fails is made again.
LLMRetried ==
  /\ at[Callback] = "llm"
  /\ Goto(Callback, "context")
  /\ messageHistory' = <<>>
  /\ UNCHANGED <<connection, mention, entry, view, chatHistory, asyncResponseCh, handling,
                 faqs, disturbed, sent, said>>

\* The answer of the FAQ service is sent without regard for the capacity.
FaqUnbounded ==
  /\ faqs < MaxFaqAnswers
  /\ faqs' = faqs + 1
  /\ asyncResponseCh' = Append(asyncResponseCh, - (faqs + 1))
  /\ sent' = Append(sent, - (faqs + 1))
  /\ UNCHANGED <<connection, mention, locals, chatHistory, handling, messageHistory,
                 disturbed, said>>

-----------------------------------------------------------------------------
(* Connections: main's loop and the IRC library, whose Connect runs the    *)
(* callback in its own goroutine and returns between two messages.         *)

\* A new client, and one more goroutine of handleAsyncResponses; Connect.
ConnectIRC ==
  /\ ~ alive /\ conn < MaxConnections
  /\ conn' = conn + 1
  /\ alive' = TRUE
  /\ UNCHANGED <<mention, locals, chatHistory, asyncResponseCh, handling, faqs,
                 messageHistory, disturbed, sent, said>>

\* "login authentication failed": main calls AuthTwitch and connects again.
AuthFailed ==
  /\ alive /\ at[Callback] = "idle"
  /\ alive' = FALSE
  /\ UNCHANGED <<conn, mention, locals, chatHistory, asyncResponseCh, handling, faqs,
                 messageHistory, disturbed, sent, said>>

-----------------------------------------------------------------------------
(* manageChatHistory(entry), by the callback or by a search.               *)

CheckLen(g) ==
  /\ at[g] = "check"
  /\ IF Len(chatHistory) >= HistoryLimit
     THEN Goto(g, "prune") /\ view' = [view EXCEPT ![g] = Tail(chatHistory)]
     ELSE Goto(g, "append") /\ UNCHANGED view
  /\ UNCHANGED <<connection, mention, entry, chatHistory, asyncResponseCh, handling,
                 faqs, messageHistory, disturbed, sent, said>>

Prune(g) ==
  /\ at[g] = "prune"
  /\ chatHistory' = view[g] /\ view' = [view EXCEPT ![g] = <<>>]
  /\ Goto(g, "append")
  /\ Disturb(g)
  /\ UNCHANGED <<connection, mention, entry, asyncResponseCh, handling,
                 faqs, messageHistory, sent, said>>

ReadToAppend(g) ==
  /\ at[g] = "append"
  /\ view' = [view EXCEPT ![g] = Append(chatHistory, entry[g])]
  /\ Goto(g, "store")
  /\ UNCHANGED <<connection, mention, entry, chatHistory, asyncResponseCh, handling,
                 faqs, messageHistory, disturbed, sent, said>>

Store(g) ==
  /\ at[g] = "store"
  /\ chatHistory' = view[g] /\ view' = [view EXCEPT ![g] = <<>>]
  /\ Goto(g, IF entry[g].kind = "question" THEN "context" ELSE "respond")
  /\ Disturb(g)
  /\ UNCHANGED <<connection, mention, entry, asyncResponseCh, handling,
                 faqs, messageHistory, sent, said>>

-----------------------------------------------------------------------------
(* HandleChat and SingleMessageResponse, for a mention.                    *)

HandleChat ==
  /\ alive /\ at[Callback] = "idle"
  /\ mention < MaxMentions
  /\ mention' = mention + 1
  /\ Goto(Callback, "palace")
  /\ UNCHANGED <<connection, entry, view, chatHistory, asyncResponseCh, handling, faqs,
                 messageHistory, disturbed, sent, said>>

\* cleanMessage takes the second and the third part of what RestreamBot says,
\* which may have fewer.
CleanPanics ==
  /\ alive /\ at[Callback] = "idle"
  /\ Goto(Callback, "panicked")
  /\ UNCHANGED <<connection, mention, entry, view, chatHistory, asyncResponseCh, handling,
                 faqs, messageHistory, disturbed, sent, said>>

\* A session, or none; four searches, each answered or not: the mention goes
\* on with what context there is.
GetContext ==
  /\ at[Callback] = "palace"
  /\ Goto(Callback, "insert")
  /\ UNCHANGED <<connection, mention, entry, view, chatHistory, asyncResponseCh, handling,
                 faqs, messageHistory, disturbed, sent, said>>

InsertMessage ==
  /\ at[Callback] = "insert"
  /\ Add(Callback, "question", mention)
  /\ Goto(Callback, "check")
  /\ disturbed' = FALSE
  /\ UNCHANGED <<connection, mention, view, chatHistory, asyncResponseCh, handling, faqs,
                 messageHistory, sent, said>>

InsertFails ==
  /\ at[Callback] = "insert"
  /\ Goto(Callback, "idle")
  /\ UNCHANGED <<connection, mention, entry, view, chatHistory, asyncResponseCh, handling,
                 faqs, messageHistory, disturbed, sent, said>>

\* callLLM reads the history once more for the messages of the LLM call.
BuildContext ==
  /\ at[Callback] = "context"
  /\ messageHistory' = chatHistory
  /\ Goto(Callback, "llm") /\ Forget(Callback)
  /\ UNCHANGED <<connection, mention, chatHistory, asyncResponseCh, handling, faqs,
                 disturbed, sent, said>>

\* The LLM fails: nothing is said and the question stays in the history.
LLMFails ==
  /\ at[Callback] = "llm"
  /\ Goto(Callback, "idle")
  /\ messageHistory' = <<>>
  /\ UNCHANGED <<connection, mention, entry, view, chatHistory, asyncResponseCh,
                 handling, faqs, disturbed, sent, said>>

\* An empty text or a tool call that does not parse: an apology that does not
\* enter the history.
Apologise ==
  /\ at[Callback] = "llm"
  /\ Goto(Callback, "respond")
  /\ messageHistory' = <<>>
  /\ UNCHANGED <<connection, mention, entry, view, chatHistory, asyncResponseCh,
                 handling, faqs, disturbed, sent, said>>

Text ==
  /\ at[Callback] = "llm"
  /\ Add(Callback, "answer", mention)
  /\ Goto(Callback, "check")
  /\ messageHistory' = <<>>
  /\ UNCHANGED <<connection, mention, view, chatHistory, asyncResponseCh,
                 handling, faqs, disturbed, sent, said>>

ToolCall ==
  /\ at[Callback] = "llm"
  /\ Goto(Callback, "search")
  /\ messageHistory' = <<>>
  /\ UNCHANGED <<connection, mention, entry, view, chatHistory, asyncResponseCh,
                 handling, faqs, disturbed, sent, said>>

\* InsertResponse may fail: the response is said all the same.
Reply ==
  /\ at[Callback] = "respond"
  /\ Goto(Callback, "idle") /\ Forget(Callback)
  /\ UNCHANGED <<connection, mention, chatHistory, asyncResponseCh, handling, faqs,
                 messageHistory, disturbed, sent, said>>

\* "one second and I will look that up for you", then the goroutine.
StartSearch ==
  /\ at[Callback] = "search"
  /\ Say("wait", mention)
  /\ at' = [at EXCEPT ![Callback] = "idle", ![mention] = "searching"]
  /\ UNCHANGED <<connection, mention, entry, view, chatHistory, asyncResponseCh,
                 handling, faqs, messageHistory, disturbed, sent>>

-----------------------------------------------------------------------------
(* ExecuteWebSearch for mention m.                                         *)

\* Search, or the LLM after it, fails: an excuse is sent that is not remembered.
SearchFails(m) ==
  /\ at[m] = "searching"
  /\ Goto(m, "respond")
  /\ UNCHANGED <<connection, mention, entry, view, chatHistory, asyncResponseCh,
                 handling, faqs, messageHistory, disturbed, sent, said>>

Summarise(m) ==
  /\ at[m] = "searching"
  /\ Add(m, "answer", m)
  /\ Goto(m, "check")
  /\ UNCHANGED <<connection, mention, view, chatHistory, asyncResponseCh,
                 handling, faqs, messageHistory, disturbed, sent, said>>

\* The send waits for room in the channel.
Send(m) ==
  /\ at[m] = "respond"
  /\ Len(asyncResponseCh) < ResponseCap
  /\ asyncResponseCh' = Append(asyncResponseCh, m)
  /\ sent' = Append(sent, m)
  /\ Goto(m, "done") /\ Forget(m)
  /\ UNCHANGED <<connection, mention, chatHistory, handling, faqs, messageHistory,
                 disturbed, said>>

\* processInternal of the FAQ processor: the send does not wait.
FaqAnswer ==
  /\ faqs < MaxFaqAnswers
  /\ faqs' = faqs + 1
  /\ IF Len(asyncResponseCh) < ResponseCap
     THEN /\ asyncResponseCh' = Append(asyncResponseCh, - (faqs + 1))
          /\ sent' = Append(sent, - (faqs + 1))
     ELSE UNCHANGED <<asyncResponseCh, sent>>
  /\ UNCHANGED <<connection, mention, locals, chatHistory, handling, messageHistory,
                 disturbed, said>>

-----------------------------------------------------------------------------
(* handleAsyncResponses, the goroutine of connection h.                    *)

Receive(h) ==
  /\ h <= conn /\ handling[h] = Nothing
  /\ asyncResponseCh # <<>>
  /\ handling' = [handling EXCEPT ![h] = Head(asyncResponseCh)]
  /\ asyncResponseCh' = Tail(asyncResponseCh)
  /\ UNCHANGED <<connection, mention, locals, chatHistory, faqs, messageHistory,
                 disturbed, sent, said>>

\* A search's answer is stored first, or fails to be; the line goes to the
\* client of the moment, of whichever connection.
SayAsync(h) ==
  /\ handling[h] # Nothing
  /\ Say("async", handling[h])
  /\ handling' = [handling EXCEPT ![h] = Nothing]
  /\ UNCHANGED <<connection, mention, locals, chatHistory, asyncResponseCh, faqs,
                 messageHistory, disturbed, sent>>

-----------------------------------------------------------------------------
ManageChatHistory(g) == CheckLen(g) \/ Prune(g) \/ ReadToAppend(g) \/ Store(g)
Answering == \/ GetContext \/ InsertMessage \/ InsertFails
             \/ BuildContext \/ LLMFails \/ Apologise \/ Text \/ ToolCall \/ Reply
             \/ StartSearch \/ ManageChatHistory(Callback)
ExecuteWebSearch(m) == SearchFails(m) \/ Summarise(m) \/ ManageChatHistory(m) \/ Send(m)
HandleAsyncResponses(h) == Receive(h) \/ SayAsync(h)

Next ==
  /\ Up
  /\ \/ ConnectIRC \/ AuthFailed
     \/ HandleChat \/ CleanPanics \/ Answering
     \/ \E m \in Mention : ExecuteWebSearch(m)
     \/ FaqAnswer
     \/ \E h \in Handlers : HandleAsyncResponses(h)

Spec == Init /\ [][Next]_vars

\* Goroutines run; the LLM, the search, the palace and the database answer or
\* fail.
FairSpec ==
  /\ Spec
  /\ WF_vars(Up /\ Answering)
  /\ \A m \in Mention : WF_vars(Up /\ ExecuteWebSearch(m)) /\ SF_vars(Up /\ Send(m))
  /\ \A h \in Handlers : WF_vars(Up /\ HandleAsyncResponses(h))

-----------------------------------------------------------------------------
Places == {"idle", "panicked", "palace", "insert", "check", "prune", "append", "store",
           "context", "llm", "respond", "search", "searching", "done"}

(* Every variable has its type, and the response channel its capacity.     *)
TypeOK ==
  /\ conn \in 0..MaxConnections /\ alive \in BOOLEAN
  /\ mention \in 0..MaxMentions
  /\ at \in [Goroutines -> Places]
  /\ entry \in [Goroutines -> Entry \cup {NoEntry}]
  /\ view \in [Goroutines -> Seq(Entry)]
  /\ chatHistory \in Seq(Entry)
  /\ asyncResponseCh \in Seq(Mention \cup Faq) /\ Len(asyncResponseCh) <= ResponseCap
  /\ handling \in [Handlers -> Mention \cup Faq \cup {Nothing}]
  /\ faqs \in 0..MaxFaqAnswers
  /\ messageHistory \in Seq(Entry)
  /\ disturbed \in BOOLEAN
  /\ sent \in Seq(Mention \cup Faq)
  /\ said \in Seq(Line)

(* manageChatHistory keeps the history near its limit, however many        *)
(* mentions there are. A search can push it past the limit twice and for   *)
(* good: by an append between another's check and append, and by a store   *)
(* of what it read before another pruned.                                  *)
Searches == {m \in Mention : at[m] # "idle"}
HistoryBound == Len(chatHistory) <= HistoryLimit + 2 * Cardinality(Searches)

(* The LLM is asked with the question as the last entry of its history,    *)
(* unless a search wrote the history while the question was being added.   *)
QuestionInContext ==
  at[Callback] = "llm" /\ ~ disturbed =>
    /\ messageHistory # <<>>
    /\ Last(messageHistory) = [kind |-> "question", of |-> mention]

(* A search says "one second" and then, in some later line, its answer:    *)
(* each at most once and never the answer first, whichever of the handlers *)
(* says it and however many connections there have been.                   *)
Lines(kind, m) == {i \in 1..Len(said) : said[i] = [kind |-> kind, of |-> m]}
SearchProtocol ==
  \A m \in Mention :
    /\ Cardinality(Lines("wait", m)) <= 1 /\ Cardinality(Lines("async", m)) <= 1
    /\ \A i \in Lines("async", m) : \E j \in Lines("wait", m) : j < i

(* As long as the bot has not reconnected, the answers of searches and of  *)
(* the FAQ service are said in the order they were sent to the channel:    *)
(* with a second handler they may overtake one another.                    *)
Nth(i) == Cardinality({j \in 1..i : said[j].kind = "async"})
AsyncInOrder ==
  conn <= 1 => \A i \in 1..Len(said) :
                 said[i].kind = "async" => /\ Nth(i) <= Len(sent)
                                           /\ said[i].of = sent[Nth(i)]

(* Every search that was promised an answer gives one, although the FAQ    *)
(* service competes for the channel and the bot may reconnect meanwhile.   *)
SearchIsAnswered ==
  \A m \in Mention : at[m] = "searching" ~> (Lines("async", m) # {} \/ ~ Up)

(* The callback, and with it the reading of the chat, is never held up for *)
(* good: whatever fails on the way of a mention, it returns for the next   *)
(* message, and no wait of it depends on the channel of the responses.     *)
CallbackReturns == (at[Callback] # "idle") ~> (at[Callback] = "idle" \/ ~ Up)

=============================================================================
