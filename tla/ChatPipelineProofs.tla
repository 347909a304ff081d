------------------------- MODULE ChatPipelineProofs -------------------------
(***************************************************************************)
(* Proofs about the answers to mentions, for every limit of the history,   *)
(* every capacity of the response channel and any number of mentions,      *)
(* answers of the FAQ service and connections.                             *)
(***************************************************************************)
EXTENDS ChatPipeline, FiniteSetTheorems, TLAPS

(***************************************************************************)
(* Where the goroutines are, and what they add to the history. The         *)
(* callback has one mention in hand, whose search it has not started.      *)
(***************************************************************************)
Managing == {"check", "prune", "append", "store"}    \* in manageChatHistory
SearchPlaces == Managing \cup {"idle", "searching", "respond", "done"}
CallbackPlaces == Places \ {"searching", "done"}

Stages ==
  /\ at[Callback] \in CallbackPlaces
  /\ at[Callback] \notin {"idle", "panicked"} => mention \in Mention /\ at[mention] = "idle"
  /\ at[Callback] \in Managing => entry[Callback] \in [kind : {"question", "answer"}, of : {mention}]
  /\ at[Callback] = "context" => entry[Callback] = [kind |-> "question", of |-> mention]
  /\ \A m \in Mention : /\ at[m] \in SearchPlaces
                        /\ m > mention => at[m] = "idle"
                        /\ at[m] \in Managing => entry[m] = [kind |-> "answer", of |-> m]

(***************************************************************************)
(* How long the history may be: a search adds at most one when it reads    *)
(* the history to append to it, and one when it stores what it read. While *)
(* the callback is between its check and its append there is room for one. *)
(***************************************************************************)
Appended == {m \in Mention : at[m] \in {"store", "respond", "done"}}
Stored == {m \in Mention : at[m] \in {"respond", "done"}}
Room == HistoryLimit + Cardinality(Appended) + Cardinality(Stored)

Lengths ==
  /\ Len(chatHistory) <= Room
  /\ at[Callback] = "append" => Len(chatHistory) < Room
  /\ \A g \in Goroutines : /\ at[g] = "prune" => Len(view[g]) < Room
                           /\ at[g] = "store" => Len(view[g]) <= Room

(***************************************************************************)
(* The question on its way into the messages of the LLM call.              *)
(***************************************************************************)
Ends(q, e) == q # <<>> /\ Last(q) = e

Question ==
  /\ at[Callback] = "store" => Ends(view[Callback], entry[Callback])
  /\ at[Callback] = "context" /\ ~ disturbed => Ends(chatHistory, entry[Callback])
  /\ at[Callback] = "llm" /\ ~ disturbed =>
       Ends(messageHistory, [kind |-> "question", of |-> mention])

(***************************************************************************)
(* The answer of a search is in one place: in the channel, with one        *)
(* handler, or said; and its promise has been said before.                 *)
(***************************************************************************)
Once(q, x) == \A i, j \in 1..Len(q) : q[i] = x /\ q[j] = x => i = j
In(q, x) == \E i \in 1..Len(q) : q[i] = x
Preceded(q, x, y) ==
  \A i \in 1..Len(q) : q[i] = x => \E j \in 1..Len(q) : j < i /\ q[j] = y
Wait(m) == [kind |-> "wait", of |-> m]
Async(m) == [kind |-> "async", of |-> m]

Promise(m) ==
  /\ Once(said, Wait(m))
  /\ In(said, Wait(m)) <=> at[m] # "idle"
  /\ Preceded(said, Async(m), Wait(m))

Answer(m) ==
  /\ Once(asyncResponseCh, m) /\ Once(said, Async(m))
  /\ \A g, h \in Handlers : handling[g] = m /\ handling[h] = m => g = h
  /\ In(asyncResponseCh, m) => /\ at[m] = "done" /\ ~ In(said, Async(m))
                               /\ \A h \in Handlers : handling[h] # m
  /\ (\E h \in Handlers : handling[h] = m) => at[m] = "done" /\ ~ In(said, Async(m))
  /\ In(said, Async(m)) => at[m] = "done"

Protocol == \A m \in Mention : Promise(m) /\ Answer(m)

(***************************************************************************)
(* With one handler, what was sent is what was said, then the response the *)
(* handler has in hand, then the channel.                                  *)
(***************************************************************************)
Count == Nth(Len(said))
Held == IF \E h \in Handlers : handling[h] # Nothing THEN 1 ELSE 0

Order ==
  conn <= 1 =>
    /\ \A h \in Handlers : h > conn => handling[h] = Nothing
    /\ \A i \in 1..Len(said) :
         said[i].kind = "async" => Nth(i) \in 1..Len(sent) /\ said[i].of = sent[Nth(i)]
    /\ Len(sent) = Count + Held + Len(asyncResponseCh)
    /\ \A h \in Handlers : handling[h] # Nothing => handling[h] = sent[Count + 1]
    /\ \A k \in 1..Len(asyncResponseCh) : asyncResponseCh[k] = sent[Count + Held + k]

Inv == TypeOK /\ Stages /\ Lengths /\ Question /\ Protocol /\ Order

-----------------------------------------------------------------------------
(* The steps, and what is known before each.                               *)

LEMMA Names ==
  /\ Goroutines = {Callback} \cup Mention /\ Callback \notin Mention
  /\ Nothing \notin Mention \cup Faq /\ Mention \cap Faq = {}
  /\ Mention \subseteq Nat
  BY LimitAssumption DEF Goroutines, Callback, Mention, Faq, Nothing

ManageStep == \E g \in Goroutines : CheckLen(g) \/ Prune(g) \/ ReadToAppend(g) \/ Store(g)
CallbackStep == \/ HandleChat \/ CleanPanics \/ GetContext \/ InsertMessage \/ InsertFails
                \/ BuildContext \/ LLMFails \/ Apologise \/ Text \/ ToolCall \/ Reply
SearchStep == \E m \in Mention : SearchFails(m) \/ Summarise(m)

\* Steps that change no goroutine of the history.
ResponseStep == \/ ConnectIRC \/ AuthFailed \/ FaqAnswer
                \/ \E h \in Handlers : Receive(h) \/ SayAsync(h)
                \/ UNCHANGED vars

LEMMA Steps ==
  ASSUME [Next]_vars
  PROVE  \/ ManageStep \/ CallbackStep \/ SearchStep \/ ResponseStep
         \/ StartSearch
         \/ \E m \in Mention : Send(m)
  BY Names DEF Next, Answering, ManageChatHistory, ExecuteWebSearch, HandleAsyncResponses,
         ManageStep, CallbackStep, SearchStep, ResponseStep

Responses == <<asyncResponseCh, handling, faqs, sent, said>>
History == <<mention, locals, chatHistory, messageHistory, disturbed>>

\* What a step leaves alone.
LEMMA Frames ==
  /\ ManageStep \/ CallbackStep \/ SearchStep => UNCHANGED <<connection, Responses>>
  /\ ResponseStep => UNCHANGED History
  /\ ManageStep \/ SearchStep => UNCHANGED mention
  /\ StartSearch \/ (\E m \in Mention : Send(m)) => UNCHANGED <<connection, faqs, mention>>
  BY DEF ManageStep, CallbackStep, SearchStep, ResponseStep, Responses, History, vars,
         CheckLen, Prune, ReadToAppend, Store, HandleChat, CleanPanics, GetContext,
         InsertMessage, InsertFails, BuildContext, LLMFails, Apologise, Text, ToolCall, Reply,
         SearchFails, Summarise, ConnectIRC, AuthFailed, FaqAnswer, Receive, SayAsync,
         StartSearch, Send, connection

-----------------------------------------------------------------------------
(* Types.                                                                  *)

LEMMA TypeInit == Init => TypeOK
  <1> SUFFICES ASSUME Init PROVE TypeOK
    OBVIOUS
  <1>1. <<>> \in Seq(Entry) /\ <<>> \in Seq(Mention \cup Faq) /\ <<>> \in Seq(Line)
    OBVIOUS
  <1>2. /\ 0 \in 0..MaxConnections /\ 0 \in 0..MaxMentions /\ 0 \in 0..MaxFaqAnswers
        /\ Len(asyncResponseCh) <= ResponseCap
    BY LimitAssumption DEF Init
  <1> QED
    BY <1>1, <1>2 DEF Init, TypeOK, Places, NoEntry

HistoryTypes ==
  /\ mention \in 0..MaxMentions
  /\ at \in [Goroutines -> Places]
  /\ entry \in [Goroutines -> Entry \cup {NoEntry}]
  /\ view \in [Goroutines -> Seq(Entry)]
  /\ chatHistory \in Seq(Entry)
  /\ messageHistory \in Seq(Entry)
  /\ disturbed \in BOOLEAN

ResponseTypes ==
  /\ conn \in 0..MaxConnections /\ alive \in BOOLEAN
  /\ asyncResponseCh \in Seq(Mention \cup Faq) /\ Len(asyncResponseCh) <= ResponseCap
  /\ handling \in [Handlers -> Mention \cup Faq \cup {Nothing}]
  /\ faqs \in 0..MaxFaqAnswers
  /\ sent \in Seq(Mention \cup Faq)
  /\ said \in Seq(Line)

LEMMA TypeParts == TypeOK <=> HistoryTypes /\ ResponseTypes
  BY DEF TypeOK, HistoryTypes, ResponseTypes

\* A goroutine that manages the history has an entry to add.
LEMMA HasEntry ==
  ASSUME Stages, NEW g \in Goroutines, at[g] \in Managing
  PROVE  entry[g] \in Entry
  <1>1. CASE g = Callback
    BY <1>1 DEF Stages, Entry, Managing
  <1>2. CASE g \in Mention
    <2>1. entry[g] = [kind |-> "answer", of |-> g]
      BY <1>2 DEF Stages
    <2>2. [kind |-> "answer", of |-> g] \in Entry
      BY <1>2 DEF Entry
    <2> QED
      BY <2>1, <2>2
  <1> QED
    BY <1>1, <1>2, Names

LEMMA HistoryTypesNext == TypeOK /\ Stages /\ [Next]_vars => HistoryTypes'
  <1> SUFFICES ASSUME TypeOK, Stages, [Next]_vars PROVE HistoryTypes'
    OBVIOUS
  <1>0. /\ HistoryTypes /\ <<>> \in Seq(Entry) /\ Callback \in Goroutines
        /\ \A q \in Seq(Entry), e \in Entry : Append(q, e) \in Seq(Entry)
        /\ \A q \in Seq(Entry) : q # <<>> => Tail(q) \in Seq(Entry)
    BY TypeParts, Names
  <1>1. ASSUME NEW g \in Goroutines, CheckLen(g) PROVE HistoryTypes'
    <2>1. CASE Len(chatHistory) >= HistoryLimit
      <3>1. Tail(chatHistory) \in Seq(Entry)
        BY <1>0, <2>1, LimitAssumption DEF HistoryTypes
      <3> QED
        BY <1>0, <1>1, <2>1, <3>1 DEF CheckLen, Goto, HistoryTypes, Places
    <2>2. CASE ~ (Len(chatHistory) >= HistoryLimit)
      BY <1>0, <1>1, <2>2 DEF CheckLen, Goto, HistoryTypes, Places
    <2> QED
      BY <2>1, <2>2
  <1>2. ASSUME NEW g \in Goroutines, Prune(g) PROVE HistoryTypes'
    BY <1>0, <1>2 DEF Prune, Goto, Disturb, HistoryTypes, Places
  <1>3. ASSUME NEW g \in Goroutines, ReadToAppend(g) PROVE HistoryTypes'
    <2>1. at[g] \in Managing
      BY <1>3 DEF ReadToAppend, Managing
    <2>2. Append(chatHistory, entry[g]) \in Seq(Entry)
      BY <1>0, <2>1, HasEntry DEF HistoryTypes
    <2> QED
      BY <1>0, <1>3, <2>2 DEF ReadToAppend, Goto, HistoryTypes, Places
  <1>4. ASSUME NEW g \in Goroutines, Store(g) PROVE HistoryTypes'
    BY <1>0, <1>4 DEF Store, Goto, Disturb, HistoryTypes, Places
  <1>5. CASE HandleChat
    <2>1. mention + 1 \in 0..MaxMentions
      BY <1>0, <1>5, LimitAssumption DEF HandleChat, HistoryTypes
    <2> QED
      BY <1>0, <1>5, <2>1 DEF HandleChat, Goto, HistoryTypes, Places
  <1>6. CASE CallbackStep /\ ~ HandleChat
    <2>1. /\ UNCHANGED <<mention, chatHistory>> /\ disturbed' \in BOOLEAN
          /\ messageHistory' \in {messageHistory, chatHistory, <<>>}
          /\ \E place \in Places : at' = [at EXCEPT ![Callback] = place]
          /\ view' = view \/ view' = [view EXCEPT ![Callback] = <<>>]
      BY <1>0, <1>6 DEF CallbackStep, CleanPanics, GetContext, InsertMessage, InsertFails,
           BuildContext, LLMFails, Apologise, Text, ToolCall, Reply, Goto, Add, Forget,
           HistoryTypes, Places
    <2>2. \/ entry' = entry \/ entry' = [entry EXCEPT ![Callback] = NoEntry]
          \/ /\ at[Callback] \in {"insert", "llm"}
             /\ \E kind \in {"question", "answer"} :
                  entry' = [entry EXCEPT ![Callback] = [kind |-> kind, of |-> mention]]
      BY <1>6 DEF CallbackStep, CleanPanics, GetContext, InsertMessage, InsertFails,
           BuildContext, LLMFails, Apologise, Text, ToolCall, Reply, Add, Forget
    <2>3. entry' \in [Goroutines -> Entry \cup {NoEntry}]
      <3>1. at[Callback] \in {"insert", "llm"} => mention \in Mention
        BY DEF Stages
      <3>2. \A kind \in {"question", "answer"}, m \in Mention :
              [kind |-> kind, of |-> m] \in Entry
        BY DEF Entry
      <3> QED
        BY SMTT(30), <1>0, <2>2, <3>1, <3>2 DEF HistoryTypes
    <2> QED
      BY <1>0, <2>1, <2>3 DEF HistoryTypes
  <1>7. CASE SearchStep
    <2>1. PICK m \in Mention : SearchFails(m) \/ Summarise(m)
      BY <1>7 DEF SearchStep
    <2>2. [kind |-> "answer", of |-> m] \in Entry
      BY DEF Entry
    <2>3. /\ \E place \in Places : at' = [at EXCEPT ![m] = place]
          /\ entry' = entry \/ entry' = [entry EXCEPT ![m] = [kind |-> "answer", of |-> m]]
          /\ UNCHANGED <<mention, view, chatHistory, messageHistory, disturbed>>
      BY <2>1 DEF SearchFails, Summarise, Goto, Add, Places
    <2>4. entry' \in [Goroutines -> Entry \cup {NoEntry}]
      BY <1>0, <2>2, <2>3 DEF HistoryTypes
    <2> QED
      BY <1>0, <2>3, <2>4 DEF HistoryTypes
  <1>8. CASE StartSearch
    <2>1. mention \in Mention
      BY <1>8 DEF Stages, StartSearch
    <2> QED
      BY <1>0, <1>8, <2>1, Names DEF StartSearch, HistoryTypes, Places
  <1>9. ASSUME NEW m \in Mention, Send(m) PROVE HistoryTypes'
    BY <1>0, <1>9, Names DEF Send, Goto, Forget, HistoryTypes, Places
  <1>10. CASE ResponseStep
    BY <1>0, <1>10, Frames DEF History, locals, HistoryTypes
  <1> QED
    BY <1>1, <1>2, <1>3, <1>4, <1>5, <1>6, <1>7, <1>8, <1>9, <1>10, Steps
       DEF ManageStep

LEMMA ResponseTypesNext == TypeOK /\ Stages /\ [Next]_vars => ResponseTypes'
  <1> SUFFICES ASSUME TypeOK, Stages, [Next]_vars PROVE ResponseTypes'
    OBVIOUS
  <1> DEFINE R == Mention \cup Faq
  <1>0. /\ conn \in 0..MaxConnections /\ alive \in BOOLEAN
        /\ asyncResponseCh \in Seq(R) /\ Len(asyncResponseCh) <= ResponseCap
        /\ handling \in [Handlers -> R \cup {Nothing}]
        /\ faqs \in 0..MaxFaqAnswers
        /\ sent \in Seq(R) /\ said \in Seq(Line)
        /\ HistoryLimit \in Nat /\ ResponseCap \in Nat /\ MaxFaqAnswers \in Nat
        /\ MaxConnections \in Nat
    BY LimitAssumption DEF TypeOK
  <1>a. \A x \in R : Append(asyncResponseCh, x) \in Seq(R) /\ Append(sent, x) \in Seq(R)
                     /\ Len(Append(asyncResponseCh, x)) = Len(asyncResponseCh) + 1
    BY <1>0
  <1>1. CASE ManageStep \/ CallbackStep \/ SearchStep
    BY <1>0, <1>1, Frames DEF connection, Responses, ResponseTypes
  <1>2. CASE StartSearch
    <2>1. [kind |-> "wait", of |-> mention] \in Line
      BY <1>2 DEF Stages, StartSearch, Line
    <2> QED
      BY <1>0, <1>2, <2>1 DEF StartSearch, Say, ResponseTypes, connection
  <1>3. ASSUME NEW m \in Mention, Send(m) PROVE ResponseTypes'
    <2>1. /\ asyncResponseCh' = Append(asyncResponseCh, m) /\ sent' = Append(sent, m)
          /\ Len(asyncResponseCh) < ResponseCap /\ Len(asyncResponseCh) \in Nat
      BY <1>0, <1>3 DEF Send
    <2>2. asyncResponseCh' \in Seq(R) /\ sent' \in Seq(R) /\ Len(asyncResponseCh') <= ResponseCap
      BY <1>0, <1>a, <2>1
    <2> QED
      BY <1>0, <1>3, <2>2 DEF Send, ResponseTypes, connection
  <1>4. CASE ConnectIRC \/ AuthFailed
    <2>1. conn' \in 0..MaxConnections /\ alive' \in BOOLEAN
      <3>1. /\ alive' \in BOOLEAN
            /\ conn' = conn \/ (conn' = conn + 1 /\ conn < MaxConnections)
        BY <1>4 DEF ConnectIRC, AuthFailed
      <3> QED
        BY <1>0, <3>1
    <2> QED
      BY <1>0, <1>4, <2>1 DEF ConnectIRC, AuthFailed, ResponseTypes
  <1>5. CASE FaqAnswer
    <2>1. - (faqs + 1) \in R /\ faqs + 1 \in 0..MaxFaqAnswers
      BY <1>0, <1>5 DEF FaqAnswer, Faq
    <2>2. /\ asyncResponseCh' \in Seq(R) /\ sent' \in Seq(R)
          /\ Len(asyncResponseCh') <= ResponseCap
      <3>1. Len(asyncResponseCh) \in Nat
        BY <1>0
      <3>2. \/ UNCHANGED <<asyncResponseCh, sent>>
            \/ /\ Len(asyncResponseCh) < ResponseCap
               /\ asyncResponseCh' = Append(asyncResponseCh, - (faqs + 1))
               /\ sent' = Append(sent, - (faqs + 1))
        BY <1>5 DEF FaqAnswer
      <3> DEFINE x == - (faqs + 1)
      <3>3. /\ x \in R
            /\ \/ UNCHANGED <<asyncResponseCh, sent>>
               \/ /\ Len(asyncResponseCh) < ResponseCap
                  /\ asyncResponseCh' = Append(asyncResponseCh, x)
                  /\ sent' = Append(sent, x)
        BY <2>1, <3>2
      <3> HIDE DEF R, x
      <3>4. Append(asyncResponseCh, x) \in Seq(R) /\ Append(sent, x) \in Seq(R)
            /\ Len(Append(asyncResponseCh, x)) = Len(asyncResponseCh) + 1
        BY <1>a, <3>3
      <3>5. CASE UNCHANGED <<asyncResponseCh, sent>>
        BY <1>0, <3>5
      <3>6. CASE Len(asyncResponseCh) < ResponseCap
                 /\ asyncResponseCh' = Append(asyncResponseCh, x) /\ sent' = Append(sent, x)
        <4>1. Len(asyncResponseCh') = Len(asyncResponseCh) + 1
          BY <3>4, <3>6
        <4> QED
          BY <1>0, <3>1, <3>4, <3>6, <4>1
      <3> QED
        BY <3>3, <3>5, <3>6
    <2> QED
      BY <1>0, <1>5, <2>1, <2>2 DEF FaqAnswer, ResponseTypes, connection
  <1>6. ASSUME NEW h \in Handlers, Receive(h) PROVE ResponseTypes'
    <2>1. /\ Head(asyncResponseCh) \in R /\ Tail(asyncResponseCh) \in Seq(R)
          /\ Len(Tail(asyncResponseCh)) <= ResponseCap
      <3>1. asyncResponseCh # <<>>
        BY <1>6 DEF Receive
      <3>2. /\ Head(asyncResponseCh) \in R /\ Tail(asyncResponseCh) \in Seq(R)
            /\ Len(asyncResponseCh) \in Nat
            /\ Len(Tail(asyncResponseCh)) = Len(asyncResponseCh) - 1
        BY <1>0, <3>1
      <3> QED
        BY <1>0, <3>2
    <2> QED
      BY <1>0, <1>6, <2>1 DEF Receive, ResponseTypes, connection
  <1>7. ASSUME NEW h \in Handlers, SayAsync(h) PROVE ResponseTypes'
    <2>1. handling[h] \in R
      BY <1>0, <1>7 DEF SayAsync
    <2>2. [kind |-> "async", of |-> handling[h]] \in Line
      BY <2>1 DEF Line
    <2> QED
      BY <1>0, <1>7, <2>2 DEF SayAsync, Say, ResponseTypes, connection
  <1>8. CASE UNCHANGED vars
    BY <1>0, <1>8 DEF vars, connection, ResponseTypes
  <1> QED
    BY <1>1, <1>2, <1>3, <1>4, <1>5, <1>6, <1>7, <1>8, Steps DEF ResponseStep

-----------------------------------------------------------------------------
(* Where the goroutines are.                                               *)

LEMMA InitStages == Init => Stages
  <1> SUFFICES ASSUME Init PROVE Stages
    OBVIOUS
  <1>1. \A g \in Goroutines : at[g] = "idle"
    BY DEF Init
  <1> QED
    BY <1>1, Names DEF Stages, CallbackPlaces, SearchPlaces, Managing, Places

\* A step of manageChatHistory.
LEMMA ManageMoves ==
  ASSUME ManageStep
  PROVE  \E g \in Goroutines, place \in Managing \cup {"context", "respond"} :
           /\ at[g] \in Managing /\ at' = [at EXCEPT ![g] = place]
           /\ place = "context" => entry[g].kind = "question"
           /\ UNCHANGED <<entry, mention, messageHistory>>
           /\ place = "respond" => entry[g].kind # "question"
  BY DEF ManageStep, CheckLen, Prune, ReadToAppend, Store, Goto, Managing

LEMMA StagesNext == TypeOK /\ Stages /\ [Next]_vars => Stages'
  <1> SUFFICES ASSUME TypeOK, Stages, [Next]_vars PROVE Stages'
    OBVIOUS
  <1>0. /\ at \in [Goroutines -> Places] /\ Callback \in Goroutines /\ Mention \subseteq Goroutines
        /\ entry \in [Goroutines -> Entry \cup {NoEntry}] /\ mention \in 0..MaxMentions
        /\ Callback \notin Mention
    BY Names DEF TypeOK
  <1>1. CASE ManageStep
    <2>1. PICK g \in Goroutines, place \in Managing \cup {"context", "respond"} :
            /\ at[g] \in Managing /\ at' = [at EXCEPT ![g] = place]
            /\ place = "context" => entry[g].kind = "question"
            /\ UNCHANGED <<entry, mention>>
      BY <1>1, ManageMoves
    <2>2. CASE g = Callback
      <3>1. /\ at'[Callback] = place /\ \A m \in Mention : at'[m] = at[m]
            /\ at[Callback] \notin {"idle", "panicked"} /\ place \in CallbackPlaces
        BY <1>0, <2>1, <2>2 DEF Managing, CallbackPlaces, Places
      <3>2. entry[Callback] \in [kind : {"question", "answer"}, of : {mention}]
        BY <2>1, <2>2 DEF Stages
      <3>3. place = "context" => entry[Callback] = [kind |-> "question", of |-> mention]
        BY <2>1, <2>2, <3>2
      <3> QED
        BY <2>1, <3>1, <3>2, <3>3 DEF Stages
    <2>3. CASE g \in Mention
      <3>1. entry[g] = [kind |-> "answer", of |-> g] /\ ~ (g > mention)
        BY <2>1, <2>3 DEF Stages, Managing
      <3>2. place # "context"
        BY <2>1, <3>1
      <3>3. place \in SearchPlaces
        BY <3>2 DEF SearchPlaces
      <3>4. at'[Callback] = at[Callback] /\ \A m \in Mention : at'[m] = IF m = g THEN place ELSE at[m]
        BY <1>0, <2>1, <2>3
      <3>5. at[g] # "idle"
        BY <2>1 DEF Managing
      <3> QED
        BY <2>1, <2>3, <3>1, <3>3, <3>4, <3>5 DEF Stages
    <2> QED
      BY <2>2, <2>3, Names
  <1>2. CASE HandleChat
    <2>1. /\ at' = [at EXCEPT ![Callback] = "palace"] /\ mention' = mention + 1
          /\ mention < MaxMentions /\ UNCHANGED entry
      BY <1>2 DEF HandleChat, Goto
    <2>2. mention' \in Mention /\ mention' > mention
      BY <1>0, <2>1, LimitAssumption DEF Mention
    <2>3. \A m \in Mention : m > mention' => m > mention
      BY <1>0, <2>1 DEF Mention
    <2> QED
      BY ZenonT(60), <1>0, <2>1, <2>2, <2>3 DEF Stages, CallbackPlaces, Places, Managing
  <1>3. CASE InsertMessage \/ Text
    <2>1. /\ at[Callback] \in {"insert", "llm"} /\ at' = [at EXCEPT ![Callback] = "check"]
          /\ \E kind \in {"question", "answer"} :
               entry' = [entry EXCEPT ![Callback] = [kind |-> kind, of |-> mention]]
          /\ UNCHANGED mention
      BY <1>3 DEF InsertMessage, Text, Goto, Add
    <2>2. /\ entry'[Callback] \in [kind : {"question", "answer"}, of : {mention}]
          /\ \A m \in Mention : entry'[m] = entry[m] /\ at'[m] = at[m]
          /\ at'[Callback] = "check"
      BY <1>0, <2>1
    <2> QED
      BY <2>1, <2>2 DEF Stages, CallbackPlaces, Places
  <1>4. CASE CallbackStep /\ ~ (HandleChat \/ InsertMessage \/ Text)
    <2>1. /\ UNCHANGED mention
          /\ entry' = entry \/ entry' = [entry EXCEPT ![Callback] = NoEntry]
          /\ \E place \in CallbackPlaces \ (Managing \cup {"context"}) :
               /\ at' = [at EXCEPT ![Callback] = place]
               /\ place \in {"idle", "panicked"} \/ at[Callback] \notin {"idle", "panicked"}
      BY <1>4 DEF CallbackStep, CleanPanics, GetContext, InsertFails, BuildContext, LLMFails,
           Apologise, ToolCall, Reply, Goto, Forget, CallbackPlaces, Places, Managing
    <2>2. PICK place \in CallbackPlaces \ (Managing \cup {"context"}) :
            /\ at' = [at EXCEPT ![Callback] = place]
            /\ place \in {"idle", "panicked"} \/ at[Callback] \notin {"idle", "panicked"}
      BY <2>1
    <2>3. /\ at'[Callback] = place
          /\ \A m \in Mention : entry'[m] = entry[m] /\ at'[m] = at[m]
      BY <1>0, <2>1, <2>2
    <2> QED
      BY <2>1, <2>2, <2>3 DEF Stages
  <1>5. CASE StartSearch
    <2>1. /\ at[Callback] = "search" /\ UNCHANGED <<mention, entry>>
          /\ at' = [at EXCEPT ![Callback] = "idle", ![mention] = "searching"]
      BY <1>5 DEF StartSearch
    <2>2. mention \in Mention
      BY <2>1 DEF Stages
    <2>3. /\ at'[Callback] = "idle"
          /\ \A m \in Mention : at'[m] = IF m = mention THEN "searching" ELSE at[m]
      BY <1>0, <2>1, <2>2
    <2>4. ~ (mention > mention)
      BY <1>0
    <2>5. /\ "idle" \in CallbackPlaces /\ "searching" \in SearchPlaces
          /\ "idle" \notin Managing /\ "searching" \notin Managing
      BY DEF CallbackPlaces, SearchPlaces, Managing, Places
    <2>6. ASSUME NEW m \in Mention
          PROVE  /\ at'[m] \in SearchPlaces
                 /\ m > mention => at'[m] = "idle"
                 /\ at'[m] \in Managing => entry[m] = [kind |-> "answer", of |-> m]
      BY <2>2, <2>3, <2>4, <2>5 DEF Stages
    <2>7. "idle" # "context"
      OBVIOUS
    <2> QED
      BY <2>1, <2>3, <2>5, <2>6, <2>7 DEF Stages
  <1>6. ASSUME NEW m \in Mention, SearchFails(m) \/ Summarise(m) \/ Send(m) PROVE Stages'
    <2>1. /\ at[m] \in {"searching", "respond"} /\ UNCHANGED mention
          /\ \/ \E place \in {"respond", "done"} :
                  /\ at' = [at EXCEPT ![m] = place]
                  /\ entry' = entry \/ entry' = [entry EXCEPT ![m] = NoEntry]
             \/ /\ at' = [at EXCEPT ![m] = "check"]
                /\ entry' = [entry EXCEPT ![m] = [kind |-> "answer", of |-> m]]
      BY <1>6 DEF SearchFails, Summarise, Send, Goto, Add, Forget
    <2>2. /\ at'[m] \in {"check", "respond", "done"}
          /\ at'[m] = "check" => entry'[m] = [kind |-> "answer", of |-> m]
          /\ at'[Callback] = at[Callback] /\ entry'[Callback] = entry[Callback]
          /\ \A l \in Mention : l # m => entry'[l] = entry[l] /\ at'[l] = at[l]
      BY <1>0, <2>1
    <2>3. ~ (m > mention) /\ at[m] # "idle"
      BY <2>1 DEF Stages
    <2> QED
      BY <2>1, <2>2, <2>3 DEF Stages, SearchPlaces, Managing
  <1>7. CASE ResponseStep
    BY <1>7, Frames DEF History, locals, Stages
  <1> QED
    BY <1>1, <1>2, <1>3, <1>4, <1>5, <1>6, <1>7, Steps DEF SearchStep

-----------------------------------------------------------------------------
(* The length of the history.                                              *)

\* Searches only go forward: the room grows, and it grows by one whenever a
\* search reads the history to append to it, or stores it.
LEMMA RoomNext ==
  ASSUME TypeOK, Stages, [Next]_vars
  PROVE  /\ Room \in Nat /\ Room' \in Nat /\ Room <= Room'
         /\ \A m \in Mention : ReadToAppend(m) \/ Store(m) => Room < Room'
  <1>0. /\ at \in [Goroutines -> Places] /\ Callback \in Goroutines /\ Mention \subseteq Goroutines
        /\ Callback \notin Mention /\ HistoryLimit \in Nat
    BY Names, LimitAssumption DEF TypeOK
  <1>1. IsFiniteSet(Mention)
    BY FS_Interval, LimitAssumption DEF Mention
  <1>2. Appended \subseteq Appended' /\ Stored \subseteq Stored'
    <2> SUFFICES ASSUME NEW m \in Mention
                 PROVE  /\ at[m] \in {"store", "respond", "done"} =>
                             at'[m] \in {"store", "respond", "done"}
                        /\ at[m] \in {"respond", "done"} => at'[m] \in {"respond", "done"}
      BY DEF Appended, Stored
    <2>1. CASE ManageStep
      <3>1. PICK g \in Goroutines, place \in Managing \cup {"context", "respond"} :
              /\ at[g] \in Managing /\ at' = [at EXCEPT ![g] = place]
              /\ place = "context" => entry[g].kind = "question"
        BY <2>1, ManageMoves
      <3>2. CASE g = m
        <4>1. at[m] \notin {"respond", "done"}
          BY <3>1, <3>2 DEF Managing
        <4>2. CASE at[m] = "store"
          <5>1. Store(m)
            BY <1>0, <2>1, <3>1, <3>2, <4>2 DEF ManageStep, CheckLen, Prune, ReadToAppend,
               Store, Goto
          <5>2. entry[m].kind = "answer"
            <6>1. entry[m] = [kind |-> "answer", of |-> m]
              BY <4>2 DEF Stages, Managing
            <6> QED
              BY <6>1
          <5>3. at'[m] = "respond"
            BY <1>0, <5>1, <5>2 DEF Store, Goto
          <5> QED
            BY <4>1, <5>3
        <4>3. CASE at[m] # "store"
          BY <4>1, <4>3
        <4> QED
          BY <4>2, <4>3
      <3>3. CASE g # m
        BY <1>0, <3>1, <3>3
      <3> QED
        BY <3>2, <3>3
    <2>2. CASE CallbackStep
      <3>1. \E place \in Places : at' = [at EXCEPT ![Callback] = place]
        BY <2>2 DEF CallbackStep, HandleChat, CleanPanics, GetContext, InsertMessage,
             InsertFails, BuildContext, LLMFails, Apologise, Text, ToolCall, Reply, Goto, Places
      <3> QED
        BY <1>0, <3>1
    <2>3. CASE SearchStep
      BY <1>0, <2>3 DEF SearchStep, SearchFails, Summarise, Goto
    <2>4. CASE StartSearch
      <3>1. /\ at[Callback] = "search" /\ at' = [at EXCEPT ![Callback] = "idle", ![mention] = "searching"]
        BY <2>4 DEF StartSearch
      <3>2. mention \in Mention /\ at[mention] = "idle"
        BY <3>1 DEF Stages
      <3>3. m # mention => at'[m] = at[m]
        BY <1>0, <3>1, <3>2
      <3> QED
        BY <3>2, <3>3
    <2>5. CASE \E l \in Mention : Send(l)
      BY <1>0, <2>5 DEF Send, Goto
    <2>6. CASE ResponseStep
      BY <2>6, Frames DEF History, locals
    <2> QED
      BY <2>1, <2>2, <2>3, <2>4, <2>5, <2>6, Steps
  <1>3. Appended' \subseteq Mention /\ Stored' \subseteq Mention
    BY DEF Appended, Stored
  <1>4. /\ Cardinality(Appended) \in Nat /\ Cardinality(Stored) \in Nat
        /\ Cardinality(Appended') \in Nat /\ Cardinality(Stored') \in Nat
        /\ Cardinality(Appended) <= Cardinality(Appended')
        /\ Cardinality(Stored) <= Cardinality(Stored')
        /\ Appended # Appended' => Cardinality(Appended) # Cardinality(Appended')
        /\ Stored # Stored' => Cardinality(Stored) # Cardinality(Stored')
    <2>1. IsFiniteSet(Appended') /\ IsFiniteSet(Stored')
      BY <1>1, <1>3, FS_Subset
    <2>2. IsFiniteSet(Appended) /\ IsFiniteSet(Stored)
      BY <1>2, <2>1, FS_Subset
    <2> QED
      BY <1>2, <2>1, <2>2, FS_Subset, FS_CardinalityType
  <1>5. ASSUME NEW m \in Mention, ReadToAppend(m) \/ Store(m)
        PROVE  Appended # Appended' \/ Stored # Stored'
    <2>1. CASE ReadToAppend(m)
      <3>1. m \notin Appended /\ m \in Appended'
        BY <1>0, <2>1 DEF ReadToAppend, Goto, Appended
      <3> QED
        BY <3>1
    <2>2. CASE Store(m)
      <3>1. entry[m].kind = "answer" /\ at[m] = "store"
        <4>1. at[m] = "store" /\ entry[m] = [kind |-> "answer", of |-> m]
          BY <2>2 DEF Store, Stages, Managing
        <4> QED
          BY <4>1
      <3>2. m \notin Stored /\ m \in Stored'
        BY <1>0, <2>2, <3>1 DEF Store, Goto, Stored
      <3> QED
        BY <3>2
    <2> QED
      BY <1>5, <2>1, <2>2
  <1>6. /\ Room = HistoryLimit + Cardinality(Appended) + Cardinality(Stored)
        /\ Room' = HistoryLimit + Cardinality(Appended') + Cardinality(Stored')
    BY DEF Room
  <1>7. Room \in Nat /\ Room' \in Nat /\ Room <= Room'
    BY <1>0, <1>4, <1>6
  <1>8. ASSUME NEW m \in Mention, ReadToAppend(m) \/ Store(m) PROVE Room < Room'
    <2>1. Appended # Appended' \/ Stored # Stored'
      BY <1>5, <1>8
    <2>2. \/ Cardinality(Appended) < Cardinality(Appended')
          \/ Cardinality(Stored) < Cardinality(Stored')
      BY <1>4, <2>1
    <2> QED
      BY <1>0, <1>4, <1>6, <2>2
  <1> QED
    BY <1>7, <1>8

LEMMA InitLengths == Init => Lengths
  <1> SUFFICES ASSUME Init PROVE Lengths
    OBVIOUS
  <1>1. \A g \in Goroutines : at[g] = "idle"
    BY DEF Init
  <1>2. Appended = {} /\ Stored = {}
    BY <1>1, Names DEF Appended, Stored
  <1>3. Room = HistoryLimit /\ HistoryLimit \in Nat
    BY <1>2, FS_EmptySet, LimitAssumption DEF Room
  <1> QED
    BY <1>1, <1>3, Names DEF Lengths, Init

LEMMA LengthsNext == TypeOK /\ Stages /\ Lengths /\ [Next]_vars => Lengths'
  <1> SUFFICES ASSUME TypeOK, Stages, Lengths, [Next]_vars PROVE Lengths'
    OBVIOUS
  <1>0. /\ at \in [Goroutines -> Places] /\ view \in [Goroutines -> Seq(Entry)]
        /\ chatHistory \in Seq(Entry) /\ Len(chatHistory) \in Nat
        /\ (\A g \in Goroutines : view[g] \in Seq(Entry) /\ Len(view[g]) \in Nat)
        /\ HistoryLimit \in Nat \ {0} /\ Callback \in Goroutines
        /\ Goroutines = {Callback} \cup Mention /\ Callback \notin Mention
    BY Names, LimitAssumption DEF TypeOK
  <1>1. /\ Room \in Nat /\ Room' \in Nat /\ Room <= Room' /\ HistoryLimit <= Room
        /\ \A m \in Mention : ReadToAppend(m) \/ Store(m) => Room < Room'
    <2>1. HistoryLimit <= Room
      <3>1. IsFiniteSet(Mention)
        BY FS_Interval, LimitAssumption DEF Mention
      <3>2. Appended \subseteq Mention /\ Stored \subseteq Mention
        BY DEF Appended, Stored
      <3>3. Cardinality(Appended) \in Nat /\ Cardinality(Stored) \in Nat
        BY <3>1, <3>2, FS_Subset, FS_CardinalityType
      <3> QED
        BY <1>0, <3>3 DEF Room
    <2> QED
      BY <2>1, RoomNext
  <1>2. /\ Len(chatHistory) <= Room
        /\ at[Callback] = "append" => Len(chatHistory) < Room
        /\ \A g \in Goroutines : /\ at[g] = "prune" => Len(view[g]) < Room
                                 /\ at[g] = "store" => Len(view[g]) <= Room
    BY DEF Lengths
  \* What has to be shown of the new state.
  <1> DEFINE Fits == /\ Len(chatHistory') <= Room'
                     /\ at'[Callback] = "append" => Len(chatHistory') < Room'
             ViewFits(g) == /\ at'[g] = "prune" => Len(view'[g]) < Room'
                            /\ at'[g] = "store" => Len(view'[g]) <= Room'
  <1> SUFFICES Fits /\ \A g \in Goroutines : ViewFits(g)
    BY DEF Lengths
  <1>3. ASSUME NEW g \in Goroutines, at'[g] = at[g], view'[g] = view[g] PROVE ViewFits(g)
    BY <1>0, <1>1, <1>2, <1>3
  <1>4. ASSUME UNCHANGED chatHistory, at'[Callback] # "append" \/ at[Callback] = "append"
        PROVE  Fits
    BY <1>0, <1>1, <1>2, <1>4
  <1>5. ASSUME NEW x \in Goroutines, CheckLen(x) PROVE Fits /\ \A g \in Goroutines : ViewFits(g)
    <2>1. \A g \in Goroutines \ {x} : at'[g] = at[g] /\ view'[g] = view[g]
      BY <1>0, <1>5 DEF CheckLen, Goto
    <2>2. UNCHANGED chatHistory /\ at[x] = "check"
      BY <1>5 DEF CheckLen
    <2>3. CASE Len(chatHistory) >= HistoryLimit
      <3>1. at'[x] = "prune" /\ view'[x] = Tail(chatHistory)
        BY <1>0, <1>5, <2>3 DEF CheckLen, Goto
      <3>2. Len(Tail(chatHistory)) = Len(chatHistory) - 1
        BY <1>0, <2>3
      <3>3. Len(view'[x]) < Room'
        BY <1>0, <1>1, <1>2, <3>1, <3>2
      <3>4. ViewFits(x)
        BY <3>1, <3>3
      <3>5. Fits
        BY <1>0, <1>4, <2>1, <2>2, <3>1
      <3> QED
        BY <1>3, <2>1, <3>4, <3>5
    <2>4. CASE ~ (Len(chatHistory) >= HistoryLimit)
      <3>1. at'[x] = "append"
        BY <1>0, <1>5, <2>4 DEF CheckLen, Goto
      <3>2. Len(chatHistory) < Room'
        BY <1>0, <1>1, <2>4
      <3>3. Fits /\ ViewFits(x)
        BY <1>1, <2>2, <3>1, <3>2, <1>0
      <3> QED
        BY <1>3, <2>1, <3>3
    <2> QED
      BY <2>3, <2>4
  <1>6. ASSUME NEW x \in Goroutines, Prune(x) PROVE Fits /\ \A g \in Goroutines : ViewFits(g)
    <2>1. /\ at[x] = "prune" /\ at'[x] = "append" /\ chatHistory' = view[x]
          /\ \A g \in Goroutines \ {x} : at'[g] = at[g] /\ view'[g] = view[g]
      BY <1>0, <1>6 DEF Prune, Goto
    <2>2. Len(view[x]) < Room'
      BY <1>0, <1>1, <1>2, <2>1
    <2>3. Fits /\ ViewFits(x)
      BY <1>0, <1>1, <2>1, <2>2
    <2> QED
      BY <1>3, <2>1, <2>3
  <1>7. ASSUME NEW x \in Goroutines, ReadToAppend(x) PROVE Fits /\ \A g \in Goroutines : ViewFits(g)
    <2>1. /\ at[x] = "append" /\ at'[x] = "store" /\ UNCHANGED chatHistory
          /\ view'[x] = Append(chatHistory, entry[x])
          /\ \A g \in Goroutines \ {x} : at'[g] = at[g] /\ view'[g] = view[g]
      BY <1>0, <1>7 DEF ReadToAppend, Goto
    <2>2. entry[x] \in Entry
      BY <2>1, HasEntry DEF Managing
    <2>3. Len(Append(chatHistory, entry[x])) = Len(chatHistory) + 1
      BY <1>0, <2>2
    <2>4. Len(chatHistory) < Room'
      <3>1. CASE x = Callback
        BY <1>0, <1>1, <1>2, <2>1, <3>1
      <3>2. CASE x \in Mention
        BY <1>0, <1>1, <1>2, <1>7, <3>2
      <3> QED
        BY <1>0, <3>1, <3>2
    <2>5. ViewFits(x)
      BY <1>0, <1>1, <2>1, <2>3, <2>4
    <2>6. Fits
      BY <1>0, <1>1, <1>4, <2>1
    <2> QED
      BY <1>3, <2>1, <2>5, <2>6
  <1>8. ASSUME NEW x \in Goroutines, Store(x) PROVE Fits /\ \A g \in Goroutines : ViewFits(g)
    <2>1. /\ at[x] = "store" /\ at'[x] \in {"context", "respond"} /\ chatHistory' = view[x]
          /\ \A g \in Goroutines \ {x} : at'[g] = at[g] /\ view'[g] = view[g]
      BY <1>0, <1>8 DEF Store, Goto
    <2>2. Len(view[x]) <= Room /\ ViewFits(x)
      BY <1>2, <2>1
    <2>3. Fits
      <3>1. CASE x = Callback
        BY <1>0, <1>1, <2>1, <2>2, <3>1
      <3>2. CASE x \in Mention
        BY <1>0, <1>1, <1>8, <2>1, <2>2, <3>2
      <3> QED
        BY <1>0, <3>1, <3>2
    <2> QED
      BY <1>3, <2>1, <2>2, <2>3
  <1>9. CASE CallbackStep
    <2>1. /\ UNCHANGED chatHistory
          /\ \E place \in Places \ {"append", "prune", "store"} : at' = [at EXCEPT ![Callback] = place]
          /\ view' = view \/ view' = [view EXCEPT ![Callback] = <<>>]
      BY <1>9 DEF CallbackStep, HandleChat, CleanPanics, GetContext, InsertMessage,
           InsertFails, BuildContext, LLMFails, Apologise, Text, ToolCall, Reply, Goto, Places,
           Forget
    <2>2. /\ at'[Callback] \notin {"append", "prune", "store"}
          /\ \A g \in Goroutines \ {Callback} : at'[g] = at[g] /\ view'[g] = view[g]
      BY <1>0, <2>1
    <2>3. ViewFits(Callback)
      BY <2>2
    <2> QED
      BY <1>3, <1>4, <2>1, <2>2, <2>3
  <1>10. ASSUME NEW m \in Mention, SearchFails(m) \/ Summarise(m) \/ Send(m)
         PROVE  Fits /\ \A g \in Goroutines : ViewFits(g)
    <2>1. /\ UNCHANGED chatHistory
          /\ at'[m] \in {"respond", "check", "done"}
          /\ \A g \in Goroutines \ {m} : at'[g] = at[g] /\ view'[g] = view[g]
      BY <1>0, <1>10 DEF SearchFails, Summarise, Send, Goto, Forget
    <2>2. ViewFits(m)
      BY <2>1
    <2> QED
      BY <1>0, <1>3, <1>4, <2>1, <2>2
  <1>11. CASE StartSearch
    <2>1. /\ UNCHANGED <<chatHistory, view>> /\ mention \in Mention
          /\ at' = [at EXCEPT ![Callback] = "idle", ![mention] = "searching"]
      BY <1>11 DEF StartSearch, Stages
    <2>2. /\ at'[Callback] = "idle" /\ at'[mention] = "searching"
          /\ \A g \in Goroutines \ {Callback, mention} : at'[g] = at[g]
      BY <1>0, <2>1
    <2>3. ViewFits(Callback) /\ ViewFits(mention)
      BY <2>2
    <2> QED
      BY <1>3, <1>4, <2>1, <2>2, <2>3
  <1>12. CASE ResponseStep
    BY <1>3, <1>4, <1>12, Frames DEF History, locals
  <1> QED
    BY <1>5, <1>6, <1>7, <1>8, <1>9, <1>10, <1>11, <1>12, Steps DEF SearchStep, ManageStep

LEMMA LengthsBound == TypeOK /\ Lengths => HistoryBound
  <1> SUFFICES ASSUME TypeOK, Lengths PROVE HistoryBound
    OBVIOUS
  <1>1. IsFiniteSet(Mention)
    BY FS_Interval, LimitAssumption DEF Mention
  <1>2. Searches \subseteq Mention /\ Appended \subseteq Searches /\ Stored \subseteq Searches
    BY DEF Searches, Appended, Stored
  <1>3. IsFiniteSet(Searches)
    BY <1>1, <1>2, FS_Subset
  <1>4. /\ Cardinality(Appended) <= Cardinality(Searches)
        /\ Cardinality(Stored) <= Cardinality(Searches)
        /\ IsFiniteSet(Appended) /\ IsFiniteSet(Stored)
    BY <1>2, <1>3, FS_Subset
  <1>5. /\ Cardinality(Appended) \in Nat /\ Cardinality(Stored) \in Nat
        /\ Cardinality(Searches) \in Nat
    BY <1>3, <1>4, FS_CardinalityType
  <1>6. Len(chatHistory) \in Nat /\ HistoryLimit \in Nat
        /\ Len(chatHistory) <= HistoryLimit + Cardinality(Appended) + Cardinality(Stored)
    BY LimitAssumption DEF TypeOK, Lengths, Room
  <1>7. Len(chatHistory) <= HistoryLimit + 2 * Cardinality(Searches)
    BY <1>4, <1>5, <1>6
  <1> QED
    BY <1>7 DEF HistoryBound

-----------------------------------------------------------------------------
(* The question in its context.                                            *)

LEMMA InitQuestion == Init => Question
  BY Names DEF Init, Question

LEMMA AppendEnds ==
  ASSUME NEW q \in Seq(Entry), NEW e \in Entry
  PROVE  Ends(Append(q, e), e)
  BY DEF Ends, Last

LEMMA QuestionNext == TypeOK /\ Stages /\ Question /\ [Next]_vars => Question'
  <1> SUFFICES ASSUME TypeOK, Stages, Question, [Next]_vars PROVE Question'
    OBVIOUS
  <1> DEFINE Asked == [kind |-> "question", of |-> mention]
             AskedNow == [kind |-> "question", of |-> mention']
             QuestionNow ==
               /\ at'[Callback] = "store" => Ends(view'[Callback], entry'[Callback])
               /\ at'[Callback] = "context" /\ ~ disturbed' => Ends(chatHistory', entry'[Callback])
               /\ at'[Callback] = "llm" /\ ~ disturbed' => Ends(messageHistory', AskedNow)
  <1> SUFFICES QuestionNow
    BY DEF Question, Ends
  <1>0. /\ at \in [Goroutines -> Places] /\ view \in [Goroutines -> Seq(Entry)]
        /\ chatHistory \in Seq(Entry) /\ entry \in [Goroutines -> Entry \cup {NoEntry}]
        /\ Goroutines = {Callback} \cup Mention /\ Callback \notin Mention
        /\ at[Callback] = "store" => Ends(view[Callback], entry[Callback])
        /\ at[Callback] = "context" /\ ~ disturbed => Ends(chatHistory, entry[Callback])
        /\ at[Callback] = "llm" /\ ~ disturbed => Ends(messageHistory, Asked)
        /\ at[Callback] = "context" => entry[Callback] = Asked
    BY Names DEF TypeOK, Question, Stages
  <1> HIDE DEF Asked
  \* The callback stays where it is, and the history is as it was or disturbed.
  <1>1. ASSUME at'[Callback] = at[Callback], view'[Callback] = view[Callback],
               entry'[Callback] = entry[Callback], UNCHANGED <<mention, messageHistory>>,
               disturbed => disturbed',
               at[Callback] = "context" => UNCHANGED chatHistory \/ disturbed'
        PROVE  QuestionNow
    BY <1>0, <1>1 DEF Asked
  <1>2. ASSUME NEW m \in Mention, CheckLen(m) \/ ReadToAppend(m) PROVE QuestionNow
    <2>1. /\ at'[Callback] = at[Callback] /\ view'[Callback] = view[Callback]
          /\ UNCHANGED <<entry, mention, messageHistory, disturbed, chatHistory>>
      BY <1>0, <1>2 DEF CheckLen, ReadToAppend, Goto
    <2> QED
      BY <1>1, <2>1
  <1>3. ASSUME NEW m \in Mention, Prune(m) \/ Store(m) PROVE QuestionNow
    <2>1. /\ at'[Callback] = at[Callback] /\ view'[Callback] = view[Callback]
          /\ UNCHANGED <<entry, mention, messageHistory>>
          /\ disturbed' = (disturbed \/ Asking)
      BY <1>0, <1>3 DEF Prune, Store, Goto, Disturb
    <2>2. at[Callback] = "context" => Asking
      <3>1. at[Callback] = "context" => entry[Callback].kind = "question"
        BY <1>0 DEF Asked
      <3> QED
        BY <3>1 DEF Asking
    <2> QED
      BY <1>1, <2>1, <2>2
  <1>4. CASE CheckLen(Callback) \/ Prune(Callback)
    BY <1>0, <1>4 DEF CheckLen, Prune, Goto
  <1>5. CASE ReadToAppend(Callback)
    <2>1. /\ at'[Callback] = "store" /\ view'[Callback] = Append(chatHistory, entry[Callback])
          /\ UNCHANGED entry /\ at[Callback] \in Managing
      BY <1>0, <1>5 DEF ReadToAppend, Goto, Managing
    <2>2. Ends(view'[Callback], entry'[Callback])
      BY <1>0, <2>1, HasEntry, AppendEnds
    <2> QED
      BY <2>1, <2>2
  <1>6. CASE Store(Callback)
    <2>1. /\ at[Callback] = "store" /\ at'[Callback] \in {"context", "respond"}
          /\ chatHistory' = view[Callback] /\ UNCHANGED entry
      BY <1>0, <1>6 DEF Store, Goto
    <2> QED
      BY <1>0, <2>1
  <1>7. CASE BuildContext
    <2>1. /\ at[Callback] = "context" /\ at'[Callback] = "llm"
          /\ messageHistory' = chatHistory /\ UNCHANGED <<mention, disturbed>>
      BY <1>0, <1>7 DEF BuildContext, Goto
    <2> QED
      BY <1>0, <2>1 DEF Asked
  <1>8. CASE CallbackStep /\ ~ BuildContext
    <2>1. \E place \in Places \ {"store", "context", "llm"} : at' = [at EXCEPT ![Callback] = place]
      BY <1>8 DEF CallbackStep, HandleChat, CleanPanics, GetContext, InsertMessage,
           InsertFails, LLMFails, Apologise, Text, ToolCall, Reply, Goto, Places
    <2>2. at'[Callback] \notin {"store", "context", "llm"}
      BY <1>0, <2>1
    <2> QED
      BY <2>2
  <1>9. ASSUME NEW m \in Mention, SearchFails(m) \/ Summarise(m) \/ Send(m) PROVE QuestionNow
    <2>1. /\ at'[Callback] = at[Callback] /\ view'[Callback] = view[Callback]
          /\ entry'[Callback] = entry[Callback]
          /\ UNCHANGED <<mention, messageHistory, disturbed, chatHistory>>
      BY <1>0, <1>9 DEF SearchFails, Summarise, Send, Goto, Add, Forget
    <2> QED
      BY <1>1, <2>1
  <1>10. CASE StartSearch
    <2>1. mention # Callback
      BY <1>10, Names DEF StartSearch, Stages
    <2>2. at'[Callback] = "idle"
      BY <1>0, <1>10, <2>1 DEF StartSearch
    <2> QED
      BY <2>2
  <1>11. CASE ResponseStep
    BY <1>1, <1>11, Frames DEF History, locals
  <1> QED
    BY <1>0, <1>2, <1>3, <1>4, <1>5, <1>6, <1>7, <1>8, <1>9, <1>10, <1>11, Steps
       DEF SearchStep, ManageStep

LEMMA QuestionAsked == Question => QuestionInContext
  BY DEF Question, QuestionInContext, Ends

-----------------------------------------------------------------------------
(* The lines of a search.                                                  *)

LEMMA AppendLine ==
  ASSUME NEW S, NEW q \in Seq(S), NEW x \in S
  PROVE  /\ \A y : In(Append(q, x), y) <=> In(q, y) \/ y = x
         /\ \A y : Once(q, y) /\ (y = x => ~ In(q, y)) => Once(Append(q, x), y)
         /\ \A y, z : Preceded(q, y, z) /\ (y = x => In(q, z)) => Preceded(Append(q, x), y, z)
  <1> DEFINE n == Len(q)
             p == Append(q, x)
  <1>1. /\ n \in Nat /\ Len(p) = n + 1 /\ p[n + 1] = x
        /\ \A i \in 1..n : p[i] = q[i]
    OBVIOUS
  <1>2. /\ \A i : i \in 1..(n + 1) <=> i \in 1..n \/ i = n + 1
        /\ n + 1 \notin 1..n /\ \A i \in 1..n : i < n + 1
    BY <1>1
  <1>3. /\ \A y : In(q, y) <=> \E i \in 1..n : q[i] = y
        /\ \A y : In(p, y) <=> \E i \in 1..Len(p) : p[i] = y
        /\ \A y : Once(q, y) <=> \A i, j \in 1..n : q[i] = y /\ q[j] = y => i = j
        /\ \A y : Once(p, y) <=> \A i, j \in 1..Len(p) : p[i] = y /\ p[j] = y => i = j
        /\ \A y, z : Preceded(q, y, z) <=>
             \A i \in 1..n : q[i] = y => \E j \in 1..n : j < i /\ q[j] = z
        /\ \A y, z : Preceded(p, y, z) <=>
             \A i \in 1..Len(p) : p[i] = y => \E j \in 1..Len(p) : j < i /\ p[j] = z
    BY DEF In, Once, Preceded
  <1> HIDE DEF n, p
  <1>4. \A y : In(p, y) <=> In(q, y) \/ y = x
    BY <1>1, <1>2, <1>3
  <1>5. ASSUME NEW y, Once(q, y), y = x => ~ In(q, y) PROVE Once(p, y)
    BY <1>1, <1>2, <1>3, <1>5
  <1>6. ASSUME NEW y, NEW z, Preceded(q, y, z), y = x => In(q, z) PROVE Preceded(p, y, z)
    <2> SUFFICES ASSUME NEW i \in 1..(n + 1), p[i] = y
                 PROVE  \E j \in 1..(n + 1) : j < i /\ p[j] = z
      BY <1>1, <1>3
    <2>1. CASE i \in 1..n
      BY <1>1, <1>2, <1>3, <1>6, <2>1
    <2>2. CASE i = n + 1
      BY <1>1, <1>2, <1>3, <1>6, <2>2
    <2> QED
      BY <1>2, <2>1, <2>2
  <1> QED
    BY <1>4, <1>5, <1>6 DEF p

LEMMA TailLine ==
  ASSUME NEW S, NEW q \in Seq(S), q # <<>>
  PROVE  /\ In(q, Head(q))
         /\ \A y : In(Tail(q), y) => In(q, y)
         /\ \A y : Once(q, y) => Once(Tail(q), y) /\ (y = Head(q) => ~ In(Tail(q), y))
  <1> DEFINE n == Len(q)
             p == Tail(q)
  <1>1. /\ n \in Nat \ {0} /\ Len(p) = n - 1 /\ Head(q) = q[1]
        /\ \A i \in 1..(n - 1) : p[i] = q[i + 1]
    OBVIOUS
  <1>2. /\ \A i \in 1..(n - 1) : i + 1 \in 1..n /\ i + 1 # 1
        /\ \A i, j \in 1..(n - 1) : i + 1 = j + 1 => i = j
        /\ 1 \in 1..n
    BY <1>1
  <1>3. /\ \A y : In(q, y) <=> \E i \in 1..n : q[i] = y
        /\ \A y : In(p, y) <=> \E i \in 1..Len(p) : p[i] = y
        /\ \A y : Once(q, y) <=> \A i, j \in 1..n : q[i] = y /\ q[j] = y => i = j
        /\ \A y : Once(p, y) <=> \A i, j \in 1..Len(p) : p[i] = y /\ p[j] = y => i = j
    BY DEF In, Once
  <1> HIDE DEF n, p
  <1>4. In(q, Head(q)) /\ \A y : In(p, y) => In(q, y)
    BY <1>1, <1>2, <1>3
  <1>5. ASSUME NEW y, Once(q, y) PROVE Once(p, y) /\ (y = Head(q) => ~ In(p, y))
    <2>1. \A i, j \in 1..n : q[i] = y /\ q[j] = y => i = j
      BY <1>3, <1>5
    <2>2. Once(p, y)
      BY <1>1, <1>2, <1>3, <2>1
    <2>3. ASSUME y = Head(q), NEW i \in 1..(n - 1), p[i] = y PROVE FALSE
      BY <1>1, <1>2, <2>1, <2>3
    <2> QED
      BY <1>1, <1>3, <2>2, <2>3
  <1> QED
    BY <1>4, <1>5 DEF p

\* A step that says and sends nothing starts no search and ends none.
LEMMA QuietSteps ==
  ASSUME TypeOK, Stages,
         ManageStep \/ CallbackStep \/ SearchStep \/ ConnectIRC \/ AuthFailed \/ UNCHANGED vars
  PROVE  /\ UNCHANGED <<asyncResponseCh, handling, said, sent>>
         /\ \A m \in Mention : /\ at'[m] = "idle" <=> at[m] = "idle"
                               /\ at[m] = "done" => at'[m] = "done"
  <1>0. /\ at \in [Goroutines -> Places] /\ Goroutines = {Callback} \cup Mention
        /\ Callback \notin Mention
    BY Names DEF TypeOK
  <1>1. CASE ManageStep
    <2>1. \E g \in Goroutines, place \in Managing \cup {"context", "respond"} :
            at[g] \in Managing /\ at' = [at EXCEPT ![g] = place]
      BY <1>1, ManageMoves
    <2> QED
      BY <1>0, <1>1, <2>1, Frames DEF Responses, Managing
  <1>2. CASE CallbackStep
    <2>1. \E place \in Places : at' = [at EXCEPT ![Callback] = place]
      BY <1>2 DEF CallbackStep, HandleChat, CleanPanics, GetContext, InsertMessage,
           InsertFails, BuildContext, LLMFails, Apologise, Text, ToolCall, Reply, Goto, Places
    <2> QED
      BY <1>0, <1>2, <2>1, Frames DEF Responses
  <1>3. CASE SearchStep
    BY <1>0, <1>3, Frames DEF Responses, SearchStep, SearchFails, Summarise, Goto
  <1>4. CASE ConnectIRC \/ AuthFailed \/ UNCHANGED vars
    BY <1>4 DEF ConnectIRC, AuthFailed, vars, locals
  <1> QED
    BY <1>1, <1>2, <1>3, <1>4

LEMMA InitProtocol == Init => Protocol
  <1> SUFFICES ASSUME Init, NEW m \in Mention PROVE Promise(m) /\ Answer(m)
    BY DEF Protocol
  <1>1. /\ said = <<>> /\ asyncResponseCh = <<>> /\ at[m] = "idle"
        /\ \A h \in Handlers : handling[h] = Nothing
    BY Names DEF Init
  <1>2. \A x, y : ~ In(<<>>, x) /\ Once(<<>>, x) /\ Preceded(<<>>, x, y)
    BY DEF In, Once, Preceded
  <1> QED
    BY <1>1, <1>2, Names DEF Promise, Answer

LEMMA ProtocolNext == TypeOK /\ Stages /\ Protocol /\ [Next]_vars => Protocol'
  <1> SUFFICES ASSUME TypeOK, Stages, Protocol, [Next]_vars PROVE Protocol'
    OBVIOUS
  <1> DEFINE R == Mention \cup Faq
             PromiseNow(m) ==
               /\ Once(said', Wait(m))
               /\ In(said', Wait(m)) <=> at'[m] # "idle"
               /\ Preceded(said', Async(m), Wait(m))
             AnswerNow(m) ==
               /\ Once(asyncResponseCh', m) /\ Once(said', Async(m))
               /\ \A g, h \in Handlers : handling'[g] = m /\ handling'[h] = m => g = h
               /\ In(asyncResponseCh', m) => /\ at'[m] = "done" /\ ~ In(said', Async(m))
                                             /\ \A h \in Handlers : handling'[h] # m
               /\ (\E h \in Handlers : handling'[h] = m) =>
                    at'[m] = "done" /\ ~ In(said', Async(m))
               /\ In(said', Async(m)) => at'[m] = "done"
  <1> SUFFICES ASSUME NEW m \in Mention PROVE PromiseNow(m) /\ AnswerNow(m)
    BY DEF Protocol, Promise, Answer, Once, In, Preceded, Wait, Async
  <1>0. /\ at \in [Goroutines -> Places] /\ Callback \in Goroutines /\ Mention \subseteq Goroutines
        /\ handling \in [Handlers -> R \cup {Nothing}] /\ Nothing \notin R
        /\ asyncResponseCh \in Seq(R) /\ said \in Seq(Line)
        /\ Callback \notin Mention
    BY Names DEF TypeOK
  <1>a. Promise(m) /\ Answer(m) /\ Async(m) # Wait(m)
    BY DEF Protocol, Async, Wait
  <1>1. CASE ManageStep \/ CallbackStep \/ SearchStep \/ ConnectIRC \/ AuthFailed \/ UNCHANGED vars
    <2>1. /\ UNCHANGED <<asyncResponseCh, handling, said, sent>>
          /\ at'[m] = "idle" <=> at[m] = "idle"
          /\ at[m] = "done" => at'[m] = "done"
      BY <1>1, QuietSteps
    <2> QED
      BY <1>a, <2>1 DEF Promise, Answer
  <1>2. CASE StartSearch
    <2>1. /\ said' = Append(said, Wait(mention)) /\ mention \in Mention
          /\ at[mention] = "idle" /\ UNCHANGED <<asyncResponseCh, handling>>
          /\ at' = [at EXCEPT ![Callback] = "idle", ![mention] = "searching"]
      BY <1>2 DEF StartSearch, Say, Stages, Wait
    <2>2. /\ at'[m] = "idle" <=> at[m] = "idle" /\ m # mention
          /\ at[m] = "done" => at'[m] = "done"
      BY <1>0, <2>1
    <2>3. Wait(mention) \in Line /\ (Wait(m) = Wait(mention) <=> m = mention)
          /\ Async(m) # Wait(mention)
      BY <2>1 DEF Wait, Async, Line
    <2>4. /\ \A y : In(said', y) <=> In(said, y) \/ y = Wait(mention)
          /\ \A y : Once(said, y) /\ (y = Wait(mention) => ~ In(said, y)) => Once(said', y)
          /\ \A y, z : Preceded(said, y, z) /\ (y = Wait(mention) => In(said, z)) =>
                       Preceded(said', y, z)
      BY <1>0, <2>1, <2>3, AppendLine
    <2>5. PromiseNow(m)
      BY <1>a, <2>1, <2>2, <2>3, <2>4 DEF Promise
    <2>6. AnswerNow(m)
      BY <1>a, <2>1, <2>2, <2>3, <2>4 DEF Answer
    <2> QED
      BY <2>5, <2>6
  <1>3. ASSUME NEW l \in Mention, Send(l) PROVE PromiseNow(m) /\ AnswerNow(m)
    <2>1. /\ at[l] = "respond" /\ at' = [at EXCEPT ![l] = "done"]
          /\ asyncResponseCh' = Append(asyncResponseCh, l) /\ UNCHANGED <<handling, said>>
      BY <1>3 DEF Send, Goto
    <2>2. /\ at'[m] = "idle" <=> at[m] = "idle"
          /\ at'[m] = "done" <=> at[m] = "done" \/ m = l
      BY <1>0, <2>1
    <2>3. l \in R
      OBVIOUS
    <2> HIDE DEF R
    <2>4. /\ \A y : In(asyncResponseCh', y) <=> In(asyncResponseCh, y) \/ y = l
          /\ \A y : Once(asyncResponseCh, y) /\ (y = l => ~ In(asyncResponseCh, y)) =>
                    Once(asyncResponseCh', y)
      BY <1>0, <2>1, <2>3, AppendLine
    <2>5. PromiseNow(m)
      BY <1>a, <2>1, <2>2 DEF Promise
    <2>6. AnswerNow(m)
      BY <1>a, <2>1, <2>2, <2>4 DEF Answer
    <2> QED
      BY <2>5, <2>6
  <1>4. CASE FaqAnswer
    <2> DEFINE f == - (faqs + 1)
    <2>1. /\ UNCHANGED <<at, handling, said>>
          /\ \/ UNCHANGED asyncResponseCh
             \/ asyncResponseCh' = Append(asyncResponseCh, f)
      BY <1>4 DEF FaqAnswer, locals
    <2>2. f \in Faq
      BY <1>4, LimitAssumption DEF FaqAnswer, Faq, TypeOK
    <2> HIDE DEF f
    <2>3. f \in R /\ f # m
      BY <2>2, Names
    <2> HIDE DEF R
    <2>4. /\ In(asyncResponseCh', m) <=> In(asyncResponseCh, m)
          /\ Once(asyncResponseCh, m) => Once(asyncResponseCh', m)
      <3>1. CASE UNCHANGED asyncResponseCh
        BY <3>1
      <3>2. CASE asyncResponseCh' = Append(asyncResponseCh, f)
        <4>1. /\ In(Append(asyncResponseCh, f), m) <=> In(asyncResponseCh, m) \/ m = f
              /\ Once(asyncResponseCh, m) /\ (m = f => ~ In(asyncResponseCh, m)) =>
                   Once(Append(asyncResponseCh, f), m)
          BY <1>0, <2>3, AppendLine
        <4> QED
          BY <2>3, <3>2, <4>1
      <3> QED
        BY <2>1, <3>1, <3>2
    <2> QED
      BY <1>a, <2>1, <2>4 DEF Promise, Answer
  <1>5. ASSUME NEW k \in Handlers, Receive(k) PROVE PromiseNow(m) /\ AnswerNow(m)
    <2> DEFINE x == Head(asyncResponseCh)
    <2>1. /\ asyncResponseCh # <<>> /\ asyncResponseCh' = Tail(asyncResponseCh)
          /\ handling' = [handling EXCEPT ![k] = x] /\ handling[k] = Nothing
          /\ UNCHANGED <<at, said>>
      BY <1>5 DEF Receive, locals
    <2> HIDE DEF R
    <2>2. /\ In(asyncResponseCh, x)
          /\ In(asyncResponseCh', m) => In(asyncResponseCh, m)
          /\ Once(asyncResponseCh, m) => /\ Once(asyncResponseCh', m)
                                         /\ m = x => ~ In(asyncResponseCh', m)
      BY <1>0, <2>1, TailLine
    <2> HIDE DEF x
    <2>3. \A h \in Handlers : handling'[h] = IF h = k THEN x ELSE handling[h]
      BY <1>0, <2>1
    <2>4. AnswerNow(m)
      <3>1. CASE m = x
        BY <1>a, <2>1, <2>2, <2>3, <3>1 DEF Answer
      <3>2. CASE m # x
        BY <1>a, <2>1, <2>2, <2>3, <3>2 DEF Answer
      <3> QED
        BY <3>1, <3>2
    <2> QED
      BY <1>a, <2>1, <2>4 DEF Promise
  <1>6. ASSUME NEW k \in Handlers, SayAsync(k) PROVE PromiseNow(m) /\ AnswerNow(m)
    <2> DEFINE x == handling[k]
    <2>1. /\ x # Nothing /\ said' = Append(said, Async(x))
          /\ handling' = [handling EXCEPT ![k] = Nothing]
          /\ UNCHANGED <<at, asyncResponseCh>>
      BY <1>6 DEF SayAsync, Say, locals, Async
    <2>2. x \in R
      BY <1>0, <2>1
    <2>3. Async(x) \in Line /\ (Async(m) = Async(x) <=> m = x) /\ Wait(m) # Async(x)
      BY <2>2 DEF Async, Wait, Line
    <2>4. /\ \A y : In(said', y) <=> In(said, y) \/ y = Async(x)
          /\ \A y : Once(said, y) /\ (y = Async(x) => ~ In(said, y)) => Once(said', y)
          /\ \A y, z : Preceded(said, y, z) /\ (y = Async(x) => In(said, z)) =>
                       Preceded(said', y, z)
      BY <1>0, <2>1, <2>3, AppendLine
    <2>5. \A h \in Handlers : handling'[h] = IF h = k THEN Nothing ELSE handling[h]
      BY <1>0, <2>1
    <2>6. handling[k] = x
      OBVIOUS
    <2> HIDE DEF x, R
    <2>7. m = x => /\ at[m] = "done" /\ ~ In(said, Async(m)) /\ ~ In(asyncResponseCh, m)
                   /\ \A h \in Handlers : handling[h] = m => h = k
      BY <1>a, <2>6 DEF Answer
    <2>8. PromiseNow(m)
      BY <1>a, <2>1, <2>3, <2>4, <2>7 DEF Promise
    <2>9. AnswerNow(m)
      <3>1. CASE m = x
        <4>1. \A h \in Handlers : handling'[h] # m
          BY <1>0, <2>5, <2>7, <3>1, Names
        <4> QED
          BY <1>a, <2>1, <2>3, <2>4, <2>7, <3>1, <4>1 DEF Answer
      <3>2. CASE m # x
        <4>1. \A h \in Handlers : handling'[h] = m => handling[h] = m
          BY <2>5, Names
        <4> QED
          BY <1>a, <2>1, <2>3, <2>4, <3>2, <4>1 DEF Answer
      <3> QED
        BY <3>1, <3>2
    <2> QED
      BY <2>8, <2>9
  <1> QED
    BY <1>1, <1>2, <1>3, <1>4, <1>5, <1>6, Steps DEF ResponseStep

\* A set of positions without two different ones has one at most.
LEMMA AtMostOne ==
  ASSUME NEW S, \A x, y \in S : x = y
  PROVE  Cardinality(S) <= 1
  <1>1. CASE S = {}
    BY <1>1, FS_EmptySet
  <1>2. CASE S # {}
    <2>1. PICK x \in S : TRUE
      BY <1>2
    <2>2. S = {x}
      BY <2>1
    <2> QED
      BY <2>2, FS_Singleton
  <1> QED
    BY <1>1, <1>2

LEMMA ProtocolHolds == Protocol => SearchProtocol
  <1> SUFFICES ASSUME Protocol, NEW m \in Mention
               PROVE  /\ Cardinality(Lines("wait", m)) <= 1
                      /\ Cardinality(Lines("async", m)) <= 1
                      /\ \A i \in Lines("async", m) : \E j \in Lines("wait", m) : j < i
    BY DEF SearchProtocol
  <1>1. /\ Lines("wait", m) = {i \in 1..Len(said) : said[i] = Wait(m)}
        /\ Lines("async", m) = {i \in 1..Len(said) : said[i] = Async(m)}
    BY DEF Lines, Wait, Async
  <1>2. /\ \A i, j \in Lines("wait", m) : i = j
        /\ \A i, j \in Lines("async", m) : i = j
        /\ \A i \in Lines("async", m) : \E j \in Lines("wait", m) : j < i
    BY <1>1 DEF Protocol, Promise, Answer, Once, Preceded
  <1> QED
    BY <1>2, AtMostOne

-----------------------------------------------------------------------------
(* The order of the answers.                                               *)

Asyncs(q, i) == Cardinality({j \in 1..i : q[j].kind = "async"})

LEMMA AsyncsAppend ==
  ASSUME NEW q \in Seq(Line), NEW x \in Line
  PROVE  /\ Len(q) \in Nat /\ Len(Append(q, x)) = Len(q) + 1
         /\ \A i \in 0..Len(q) : /\ Asyncs(q, i) \in Nat
                                 /\ Asyncs(Append(q, x), i) = Asyncs(q, i)
         /\ \A i \in 1..Len(q) : Append(q, x)[i] = q[i]
         /\ Append(q, x)[Len(q) + 1] = x
         /\ Asyncs(Append(q, x), Len(q) + 1)
              = Asyncs(q, Len(q)) + IF x.kind = "async" THEN 1 ELSE 0
  <1> DEFINE n == Len(q)
             p == Append(q, x)
             At(r, i) == {j \in 1..i : r[j].kind = "async"}
  <1>1. /\ n \in Nat /\ Len(p) = n + 1 /\ p[n + 1] = x
        /\ \A i \in 1..n : p[i] = q[i]
    OBVIOUS
  <1> HIDE DEF n, p
  <1>2. \A i \in 0..n : At(p, i) = At(q, i) /\ IsFiniteSet(At(q, i))
    <2> SUFFICES ASSUME NEW i \in 0..n PROVE At(p, i) = At(q, i) /\ IsFiniteSet(At(q, i))
      OBVIOUS
    <2>1. i \in Int /\ \A j \in 1..i : p[j] = q[j]
      BY <1>1
    <2>2. IsFiniteSet(1..i)
      BY <2>1, FS_Interval
    <2>3. At(q, i) \subseteq 1..i
      OBVIOUS
    <2>4. IsFiniteSet(At(q, i))
      BY <2>2, <2>3, FS_Subset
    <2>5. At(p, i) = At(q, i)
      BY <2>1
    <2> QED
      BY <2>4, <2>5
  <1>3. /\ x.kind = "async" => At(p, n + 1) = At(q, n) \cup {n + 1}
        /\ x.kind # "async" => At(p, n + 1) = At(q, n)
        /\ n + 1 \notin At(q, n)
    <2>1. \A j : j \in 1..(n + 1) <=> j \in 1..n \/ j = n + 1
      BY <1>1
    <2>2. n + 1 \notin 1..n
      BY <1>1
    <2> QED
      BY <1>1, <2>1, <2>2
  <1>4. \A i \in 0..n : /\ Cardinality(At(p, i)) = Cardinality(At(q, i))
                        /\ Cardinality(At(q, i)) \in Nat
    BY <1>2, FS_CardinalityType
  <1>5. Cardinality(At(p, n + 1)) = Cardinality(At(q, n)) + IF x.kind = "async" THEN 1 ELSE 0
    <2>1. IsFiniteSet(At(q, n)) /\ Cardinality(At(q, n)) \in Nat
      BY SMTT(30), <1>1, <1>2, <1>4
    <2>2. Cardinality(At(q, n) \cup {n + 1}) = Cardinality(At(q, n)) + 1
      BY <1>3, <2>1, FS_AddElement
    <2>3. CASE x.kind = "async"
      <3>1. At(p, n + 1) = At(q, n) \cup {n + 1}
        BY <1>3, <2>3
      <3> HIDE DEF At
      <3> QED
        BY <2>2, <2>3, <3>1
    <2>4. CASE x.kind # "async"
      <3>1. At(p, n + 1) = At(q, n)
        BY <1>3, <2>4
      <3> HIDE DEF At
      <3> QED
        BY <2>1, <2>4, <3>1
    <2> QED
      BY <2>3, <2>4
  <1> QED
    BY <1>1, <1>4, <1>5 DEF Asyncs, n, p

LEMMA InitOrder == Init => Order
  <1> SUFFICES ASSUME Init PROVE Order
    OBVIOUS
  <1>1. /\ said = <<>> /\ sent = <<>> /\ asyncResponseCh = <<>>
        /\ \A h \in Handlers : handling[h] = Nothing
    BY DEF Init
  <1>2. Held = 0
    BY <1>1 DEF Held
  <1>3. Count = 0
    <2>1. {j \in 1..Len(said) : said[j].kind = "async"} = {}
      BY <1>1
    <2> QED
      BY <2>1, FS_EmptySet DEF Count, Nth
  <1> QED
    BY <1>1, <1>2, <1>3 DEF Order

LEMMA AsyncsType ==
  ASSUME NEW q \in Seq(Line), NEW i \in Nat
  PROVE  Asyncs(q, i) \in Nat
  <1>1. IsFiniteSet(1..i)
    BY FS_Interval
  <1>2. IsFiniteSet({j \in 1..i : q[j].kind = "async"})
    BY <1>1, FS_Subset
  <1> QED
    BY <1>2, FS_CardinalityType DEF Asyncs

LEMMA OrderNext == TypeOK /\ Stages /\ Order /\ [Next]_vars => Order'
  <1> SUFFICES ASSUME TypeOK, Stages, Order, [Next]_vars, conn' <= 1 PROVE Order'
    BY DEF Order
  <1> DEFINE R == Mention \cup Faq
             n == Len(said)
             N == Asyncs(said, n)
             L == Len(asyncResponseCh)
             CountNow == Asyncs(said', Len(said'))
             HeldNow == IF \E h \in Handlers : handling'[h] # Nothing THEN 1 ELSE 0
             Idle == \A h \in Handlers : h > conn' => handling'[h] = Nothing
             SaidInOrder == \A i \in 1..Len(said') :
               said'[i].kind = "async" => /\ Asyncs(said', i) \in 1..Len(sent')
                                          /\ said'[i].of = sent'[Asyncs(said', i)]
             Lengthwise == Len(sent') = CountNow + HeldNow + Len(asyncResponseCh')
             InHand == \A h \in Handlers :
               handling'[h] # Nothing => handling'[h] = sent'[CountNow + 1]
             Waiting == \A k \in 1..Len(asyncResponseCh') :
               asyncResponseCh'[k] = sent'[CountNow + HeldNow + k]
             Goal == Idle /\ SaidInOrder /\ Lengthwise /\ InHand /\ Waiting
  <1> SUFFICES Goal
    BY DEF Order, Count, Held, Nth, Asyncs
  <1>0. /\ conn \in Nat
        /\ handling \in [Handlers -> R \cup {Nothing}] /\ Nothing \notin R
        /\ asyncResponseCh \in Seq(R) /\ sent \in Seq(R) /\ said \in Seq(Line)
        /\ L \in Nat /\ Len(sent) \in Nat /\ n \in Nat
        /\ \A h \in Handlers : h \in Nat \ {0}
    BY Names, LimitAssumption DEF TypeOK, Handlers
  <1>1. conn' = conn \/ (conn' = conn + 1 /\ ConnectIRC)
    <2>1. CASE ConnectIRC
      BY <2>1 DEF ConnectIRC
    <2>2. CASE ~ ConnectIRC
      BY <2>2, Frames, Steps DEF ResponseStep, AuthFailed, FaqAnswer, Receive, SayAsync, vars,
         connection
    <2> QED
      BY <2>1, <2>2
  <1>2. /\ \A h \in Handlers : h > conn => handling[h] = Nothing
        /\ \A i \in 1..n :
             said[i].kind = "async" => /\ Asyncs(said, i) \in 1..Len(sent)
                                       /\ said[i].of = sent[Asyncs(said, i)]
        /\ Len(sent) = N + Held + L
        /\ \A h \in Handlers : handling[h] # Nothing => handling[h] = sent[N + 1]
        /\ \A k \in 1..L : asyncResponseCh[k] = sent[N + Held + k]
        /\ conn <= 1
    <2>1. conn <= 1
      BY <1>0, <1>1
    <2> QED
      BY <2>1 DEF Order, Count, Nth, Asyncs
  <1>3. N \in Nat /\ Held \in {0, 1}
    BY <1>0, AsyncsType DEF Held
  <1>4. CASE ManageStep \/ CallbackStep \/ SearchStep \/ ConnectIRC \/ AuthFailed \/ UNCHANGED vars
    <2>1. UNCHANGED <<asyncResponseCh, handling, said, sent>> /\ conn' >= conn
      BY <1>0, <1>1, <1>4, QuietSteps
    <2>2. CountNow = N /\ HeldNow = Held
      BY <2>1 DEF Held
    <2>3. Idle
      BY <1>0, <1>1, <1>2, <2>1
    <2> HIDE DEF N
    <2>4. SaidInOrder /\ Lengthwise /\ InHand /\ Waiting
      BY <1>2, <2>1, <2>2
    <2> QED
      BY <2>3, <2>4
  <1>5. CASE StartSearch
    <2> DEFINE w == [kind |-> "wait", of |-> mention]
    <2>1. /\ said' = Append(said, w) /\ mention \in Mention
          /\ UNCHANGED <<asyncResponseCh, handling, sent, conn>>
      BY <1>5 DEF StartSearch, Say, Stages, connection
    <2>2. w \in Line /\ w.kind # "async"
      BY <2>1 DEF Line
    <2> HIDE DEF w
    <2>3. /\ Len(said') = n + 1 /\ said'[n + 1] = w /\ CountNow = N
          /\ \A i \in 1..n : said'[i] = said[i] /\ Asyncs(said', i) = Asyncs(said, i)
      <3>1. \A i \in 1..n : i \in 0..n
        BY <1>0
      <3> QED
        BY <1>0, <1>3, <2>1, <2>2, <3>1, AsyncsAppend
    <2>4. HeldNow = Held
      BY <2>1 DEF Held
    <2>5. \A i : i \in 1..(n + 1) => i \in 1..n \/ i = n + 1
      BY <1>0
    <2> HIDE DEF N, n
    <2>6. SaidInOrder
      BY <1>2, <2>1, <2>2, <2>3, <2>5
    <2> QED
      BY <1>2, <2>1, <2>3, <2>4, <2>6
  <1>6. ASSUME NEW x \in R,
               asyncResponseCh' = Append(asyncResponseCh, x), sent' = Append(sent, x),
               UNCHANGED <<handling, said, conn>>
        PROVE  Goal
    <2>1. /\ Len(asyncResponseCh') = L + 1 /\ asyncResponseCh'[L + 1] = x
          /\ \A i \in 1..L : asyncResponseCh'[i] = asyncResponseCh[i]
          /\ Len(sent') = Len(sent) + 1 /\ sent'[Len(sent) + 1] = x
          /\ \A i \in 1..Len(sent) : sent'[i] = sent[i]
      <3> HIDE DEF R
      <3> QED
        BY <1>0, <1>6
    <2>2. CountNow = N /\ HeldNow = Held
      BY <1>6 DEF Held
    <2> HIDE DEF N, L, n, CountNow, HeldNow
    <2>3. Idle
      BY <1>2, <1>6
    <2>4. SaidInOrder
      <3>1. \A i \in 1..Len(sent) : i \in 1..Len(sent')
        BY <1>0, <2>1
      <3> QED
        BY <1>2, <1>6, <2>1, <3>1 DEF n
    <2>5. Lengthwise
      BY <1>0, <1>2, <1>3, <2>1, <2>2
    <2>6. InHand
      <3> SUFFICES ASSUME NEW h \in Handlers, handling[h] # Nothing
                   PROVE  handling[h] = sent'[N + 1]
        BY <1>6, <2>2
      <3>1. Held = 1
        BY DEF Held
      <3>2. N + 1 \in 1..Len(sent)
        BY <1>0, <1>2, <1>3, <3>1
      <3> QED
        BY <1>2, <2>1, <3>2
    <2>7. Waiting
      <3> SUFFICES ASSUME NEW k \in 1..(L + 1)
                   PROVE  asyncResponseCh'[k] = sent'[N + Held + k]
        BY <2>1, <2>2
      <3>1. CASE k \in 1..L
        <4>1. N + Held + k \in 1..Len(sent)
          BY <1>0, <1>2, <1>3, <3>1
        <4> QED
          BY <1>2, <2>1, <3>1, <4>1
      <3>2. CASE k = L + 1
        <4>1. N + Held + k = Len(sent) + 1
          BY <1>0, <1>2, <1>3, <3>2
        <4> QED
          BY <2>1, <3>2, <4>1
      <3> QED
        BY <1>0, <3>1, <3>2
    <2> QED
      BY <2>3, <2>4, <2>5, <2>6, <2>7
  <1>7. ASSUME NEW m \in Mention, Send(m) PROVE Goal
    BY <1>6, <1>7 DEF Send, connection
  <1>8. CASE FaqAnswer
    <2> DEFINE x == - (faqs + 1)
    <2>1. /\ \/ UNCHANGED <<asyncResponseCh, sent>>
             \/ asyncResponseCh' = Append(asyncResponseCh, x) /\ sent' = Append(sent, x)
          /\ UNCHANGED <<handling, said, conn>>
      BY <1>8 DEF FaqAnswer, connection
    <2>2. x \in R
      BY <1>8, LimitAssumption DEF FaqAnswer, Faq, TypeOK
    <2> HIDE DEF x
    <2>3. CASE UNCHANGED <<asyncResponseCh, sent>>
      <3>1. CountNow = N /\ HeldNow = Held
        BY <2>1 DEF Held
      <3> HIDE DEF N
      <3> QED
        BY <1>2, <2>1, <2>3, <3>1
    <2>4. CASE asyncResponseCh' = Append(asyncResponseCh, x) /\ sent' = Append(sent, x)
      BY <1>6, <2>1, <2>2, <2>4
    <2> QED
      BY <2>1, <2>3, <2>4
  \* The handler that works is the first and the only one.
  <1>9. ASSUME NEW h \in Handlers, h <= conn PROVE h = 1 /\ conn = 1
    BY <1>0, <1>2, <1>9
  <1>10. ASSUME NEW k \in Handlers, Receive(k) PROVE Goal
    <2> DEFINE x == Head(asyncResponseCh)
    <2>1. /\ k <= conn /\ handling[k] = Nothing /\ asyncResponseCh # <<>>
          /\ handling' = [handling EXCEPT ![k] = x] /\ asyncResponseCh' = Tail(asyncResponseCh)
          /\ UNCHANGED <<said, sent, conn>>
      BY <1>10 DEF Receive, connection
    <2>2. k = 1 /\ conn = 1
      BY <1>9, <2>1
    <2>3. \A h \in Handlers \ {k} : h > conn
      BY <1>0, <2>2
    <2>4. \A h \in Handlers : handling[h] = Nothing
      BY <1>2, <2>1, <2>3
    <2>5. Held = 0
      BY <2>4 DEF Held
    <2>6. /\ x \in R /\ x = asyncResponseCh[1] /\ L >= 1
          /\ Len(asyncResponseCh') = L - 1
          /\ \A i \in 1..(L - 1) : asyncResponseCh'[i] = asyncResponseCh[i + 1]
      <3> HIDE DEF R
      <3> QED
        BY <1>0, <2>1
    <2> HIDE DEF x, L
    <2>7. /\ handling'[k] = x /\ \A h \in Handlers \ {k} : handling'[h] = Nothing
          /\ handling'[k] # Nothing
      BY <1>0, <2>1, <2>4, <2>6
    <2>8. CountNow = N /\ HeldNow = 1
      BY <2>1, <2>7
    <2> HIDE DEF N, n, CountNow, HeldNow
    <2>9. Idle
      BY <2>1, <2>2, <2>7
    <2>10. SaidInOrder
      BY <1>2, <2>1 DEF n
    <2>11. Lengthwise
      <3>1. Len(sent) = N + L
        BY <1>0, <1>2, <1>3, <2>5 DEF L
      <3>2. Len(sent) = N + 1 + (L - 1) /\ Len(sent') = Len(sent)
        BY <1>0, <1>3, <2>1, <3>1
      <3> QED
        BY <2>6, <2>8, <3>2
    <2>12. InHand
      <3>1. 1 \in 1..L
        BY <1>0, <2>6
      <3>2. x = sent[N + Held + 1]
        BY <1>2, <2>6, <3>1
      <3>3. N + Held + 1 = N + 1
        BY <1>3, <2>5
      <3> QED
        BY <2>1, <2>7, <2>8, <3>2, <3>3
    <2>13. Waiting
      <3> SUFFICES ASSUME NEW i \in 1..(L - 1)
                   PROVE  asyncResponseCh'[i] = sent[N + 1 + i]
        BY <2>1, <2>6, <2>8
      <3>1. i + 1 \in 1..L /\ N + Held + (i + 1) = N + 1 + i
        BY <1>0, <1>3, <2>5
      <3> QED
        BY <1>2, <2>6, <3>1
    <2> QED
      BY <2>9, <2>10, <2>11, <2>12, <2>13
  <1>11. ASSUME NEW k \in Handlers, SayAsync(k) PROVE Goal
    <2> DEFINE x == handling[k]
               l == [kind |-> "async", of |-> x]
    <2>1. /\ x # Nothing /\ said' = Append(said, l)
          /\ handling' = [handling EXCEPT ![k] = Nothing]
          /\ UNCHANGED <<asyncResponseCh, sent, conn>>
      BY <1>11 DEF SayAsync, Say, connection
    <2>2. k <= conn
      BY <1>0, <1>2, <2>1
    <2>3. \A h \in Handlers \ {k} : handling[h] = Nothing
      BY <1>0, <1>2, <1>9, <2>2
    <2>4. Held = 1 /\ x = sent[N + 1]
      BY <1>2, <2>1 DEF Held
    <2>5. l \in Line /\ l.kind = "async" /\ l.of = x
      <3>1. x \in R
        BY <1>0, <2>1
      <3> QED
        BY <3>1 DEF Line
    <2> HIDE DEF x, l
    <2>6. /\ Len(said') = n + 1 /\ said'[n + 1] = l /\ CountNow = N + 1
          /\ \A i \in 1..n : said'[i] = said[i] /\ Asyncs(said', i) = Asyncs(said, i)
      <3>1. \A i \in 1..n : i \in 0..n
        BY <1>0
      <3> QED
        BY <1>0, <1>3, <2>1, <2>5, <3>1, AsyncsAppend
    <2>7. \A h \in Handlers : handling'[h] = Nothing
      BY <1>0, <2>1, <2>3
    <2>8. HeldNow = 0
      BY <2>7
    <2>9. Asyncs(said', n + 1) = N + 1
      BY <2>6
    <2>10. \A i : i \in 1..(n + 1) => i \in 1..n \/ i = n + 1
      BY <1>0
    <2> HIDE DEF N, n, L, CountNow, HeldNow
    <2>11. N + 1 \in 1..Len(sent)
      BY <1>0, <1>2, <1>3, <2>4
    <2>12. SaidInOrder
      BY <1>2, <2>1, <2>4, <2>5, <2>6, <2>9, <2>10, <2>11
    <2>13. Lengthwise
      BY <1>0, <1>2, <1>3, <2>1, <2>4, <2>6, <2>8 DEF L
    <2>14. Waiting
      <3> SUFFICES ASSUME NEW i \in 1..L
                   PROVE  asyncResponseCh[i] = sent[N + 1 + 0 + i]
        BY <2>1, <2>6, <2>8 DEF L
      <3>1. N + 1 + 0 + i = N + Held + i
        BY <1>0, <1>3, <2>4
      <3> QED
        BY <1>2, <3>1
    <2> QED
      BY <2>7, <2>12, <2>13, <2>14
  <1> QED
    BY <1>4, <1>5, <1>7, <1>8, <1>10, <1>11, Steps DEF ResponseStep

LEMMA OrderHolds == TypeOK /\ Order => AsyncInOrder
  <1> SUFFICES ASSUME TypeOK, Order, conn <= 1, NEW i \in 1..Len(said), said[i].kind = "async"
               PROVE  Nth(i) <= Len(sent) /\ said[i].of = sent[Nth(i)]
    BY DEF AsyncInOrder
  <1>1. Nth(i) \in 1..Len(sent) /\ said[i].of = sent[Nth(i)]
    BY DEF Order
  <1> QED
    BY <1>1 DEF TypeOK

-----------------------------------------------------------------------------
(* The theorems.                                                           *)

LEMMA Invariant == Spec => []Inv
  <1>1. Init => Inv
    BY TypeInit, InitStages, InitLengths, InitQuestion, InitProtocol, InitOrder DEF Inv
  <1>2. Inv /\ [Next]_vars => Inv'
    <2> SUFFICES ASSUME Inv, [Next]_vars PROVE Inv'
      OBVIOUS
    <2>1. TypeOK'
      <3>1. HistoryTypes' /\ ResponseTypes'
        BY HistoryTypesNext, ResponseTypesNext DEF Inv
      <3>2. TypeOK' <=> HistoryTypes' /\ ResponseTypes'
        BY DEF TypeOK, HistoryTypes, ResponseTypes
      <3> QED
        BY <3>1, <3>2
    <2>2. Stages' /\ Lengths' /\ Question' /\ Protocol' /\ Order'
      BY StagesNext, LengthsNext, QuestionNext, ProtocolNext, OrderNext DEF Inv
    <2> QED
      BY <2>1, <2>2 DEF Inv
  <1> QED
    BY <1>1, <1>2, PTL DEF Spec

\* Every variable has its type, and asyncResponseCh its capacity.
THEOREM TypeCorrect == Spec => []TypeOK
  BY Invariant, PTL DEF Inv

\* However many mentions there are, manageChatHistory without a lock lets the
\* history grow past its limit by two for each search, and no further.
THEOREM HistoryIsBounded == Spec => []HistoryBound
  <1>1. Inv => HistoryBound
    BY LengthsBound DEF Inv
  <1> QED
    BY <1>1, Invariant, PTL

\* callLLM gives the LLM the question last, unless a search wrote the history
\* after manageChatHistory began to add it.
THEOREM QuestionIsAsked == Spec => []QuestionInContext
  <1>1. Inv => QuestionInContext
    BY QuestionAsked DEF Inv
  <1> QED
    BY <1>1, Invariant, PTL

\* "one second" and the answer of ExecuteWebSearch are said at most once and
\* in that order, through any number of reconnections.
THEOREM SearchKeepsProtocol == Spec => []SearchProtocol
  <1>1. Inv => SearchProtocol
    BY ProtocolHolds DEF Inv
  <1> QED
    BY <1>1, Invariant, PTL

\* Until the first reconnection handleAsyncResponses says what was sent to the
\* channel in the order of the sends.
THEOREM AnswersInOrder == Spec => []AsyncInOrder
  <1>1. Inv => AsyncInOrder
    BY OrderHolds DEF Inv
  <1> QED
    BY <1>1, Invariant, PTL

=============================================================================
