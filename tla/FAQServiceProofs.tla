-------------------------- MODULE FAQServiceProofs --------------------------
(***************************************************************************)
(* Proofs about the FAQ responder, for any entries, users, lines and       *)
(* cooldown, and any number of messages.                                   *)
(***************************************************************************)
EXTENDS FAQService, TLAPS

(***************************************************************************)
(* A check has a message: it begins, or waits for its broker, when the     *)
(* message has arrived.                                                    *)
(***************************************************************************)
Arrived == 1..Len(arrived)

Begun ==
  /\ \A c \in Checks : pc[c] # "none" => c[1] \in Arrived
  /\ \A c \in Checks : pc[c] \in {"matched", "recording", "answering"} =>
                         faq[c] \in Faqs /\ c \in asked
  /\ \A i \in 1..Len(responseCh) : responseCh[i] \in asked
  /\ \A c \in Checks : at[c] <= now

(***************************************************************************)
(* Whoever has an entry in hand has matched it after the cooldown of every *)
(* trigger that was recorded while nobody else had it, and the entry's     *)
(* cooldown has not been moved to before such a trigger.                   *)
(***************************************************************************)
Apart ==
  \A q \in quiet :
    /\ lastTriggered[q.faq] # Never /\ lastTriggered[q.faq] >= q.at
    /\ \A c \in Checks : Holds(c, q.faq) => at[c] > q.at + Cooldown

Inv == TypeOK /\ Begun /\ TriggersAgree /\ Apart

-----------------------------------------------------------------------------
(* Steps.                                                                  *)

\* What a check knows of its message.
LEMMA OfAMessage ==
  ASSUME TypeOK, NEW c \in Checks, c[1] \in Arrived
  PROVE  User(c) \in Users /\ Candidates(c) \in Seq(Faqs)
  <1>1. arrived[c[1]] \in Lines
    BY DEF TypeOK, Arrived
  <1> QED
    BY <1>1, LinesAssumption DEF User, Candidates

\* The entry that is matched is off its cooldown.
LEMMA MatchPasses ==
  ASSUME TypeOK, Begun, NEW c \in Checks, FindMatch(c)
  PROVE  /\ pc[c] = "checking" /\ pc' = [pc EXCEPT ![c] = "matched"]
         /\ at' = [at EXCEPT ![c] = now] /\ asked' = asked \cup {c}
         /\ \E f \in Faqs : faq' = [faq EXCEPT ![c] = f] /\ Passed(lastTriggered[f])
         /\ UNCHANGED <<chat, tables, responseCh, said, dropped>>
  <1>1. pc[c] = "checking" /\ c[1] \in Arrived
    BY DEF FindMatch, Begun
  <1>2. Candidates(c) \in Seq(Faqs)
    BY <1>1, OfAMessage
  <1>3. PICK best \in Available(c) : faq' = [faq EXCEPT ![c] = Candidates(c)[best]]
    BY DEF FindMatch
  <1>4. Candidates(c)[best] \in Faqs /\ Passed(lastTriggered[Candidates(c)[best]])
    BY <1>2, <1>3 DEF Available
  <1> QED
    BY <1>1, <1>3, <1>4 DEF FindMatch, Goto

\* A line arrives, for its broker and perhaps a fork, or a broker takes it up.
Starts == \/ \E line \in Lines, broker \in Brokers : OnPrivateMessage(line, broker)
          \/ \E id \in Id : ProcessMessage(id)

\* A check that ends without an entry, and one that has given its answer.
Ends(c) == CheckFails(c) \/ NoMatch(c)

LEMMA Cases ==
  ASSUME [Next]_vars
  PROVE  \/ Starts \/ Tick \/ Say
         \/ \E c \in Checks : \/ Ends(c) \/ FindMatch(c) \/ BeginTx(c) \/ CommitTx(c)
                              \/ TxFails(c) \/ Respond(c)
         \/ UNCHANGED vars
  BY DEF Next, Step, Ends, Starts, Checks

\* It is a check that had not started, of the message that arrives or of one
\* that has.
LEMMA Starting ==
  ASSUME TypeOK, Begun, Starts
  PROVE  /\ arrived' \in Seq(Lines) /\ via' \in Seq(Brokers) /\ Len(via') = Len(arrived')
         /\ pc' \in [Checks -> Places]
         /\ Arrived \subseteq 1..Len(arrived')
         /\ \A d \in Checks : \/ pc'[d] = pc[d]
                              \/ pc'[d] \in {"queued", "checking"} /\ d[1] \in 1..Len(arrived')
         /\ UNCHANGED <<now, faq, at, tables, answers>>
  <1>0. /\ arrived \in Seq(Lines) /\ via \in Seq(Brokers) /\ Len(via) = Len(arrived)
        /\ pc \in [Checks -> Places]
    BY DEF TypeOK
  <1>1. ASSUME NEW line \in Lines, NEW broker \in Brokers, OnPrivateMessage(line, broker)
        PROVE  /\ arrived' \in Seq(Lines) /\ via' \in Seq(Brokers) /\ Len(via') = Len(arrived')
               /\ pc' \in [Checks -> Places]
               /\ Arrived \subseteq 1..Len(arrived')
               /\ \A d \in Checks : \/ pc'[d] = pc[d]
                                    \/ /\ pc'[d] \in {"queued", "checking"}
                                       /\ d[1] \in 1..Len(arrived')
    <2> DEFINE id == Len(arrived) + 1
    <2>1. /\ arrived' = Append(arrived, line) /\ via' = Append(via, broker)
          /\ pc' = [c \in Checks |->
                     CASE c = <<id, "broker">> -> "queued"
                       [] c = <<id, "fork">> /\ line.forked -> "checking"
                       [] OTHER -> pc[c]]
      BY <1>1 DEF OnPrivateMessage
    <2>2. id \in 1..Len(arrived') /\ Arrived \subseteq 1..Len(arrived')
      BY <1>0, <2>1 DEF Arrived
    <2>3. /\ arrived' \in Seq(Lines) /\ via' \in Seq(Brokers)
          /\ Len(via') = Len(arrived')
      BY <1>0, <2>1
    <2>4. ASSUME NEW d \in Checks
          PROVE  /\ pc'[d] \in Places
                 /\ \/ pc'[d] = pc[d]
                    \/ pc'[d] \in {"queued", "checking"} /\ d[1] = id
      <3> DEFINE mine == <<id, "broker">>
                 fork == <<id, "fork">>
      <3>1. mine[1] = id /\ fork[1] = id /\ pc[d] \in Places
        BY <1>0
      <3>2. \/ d = mine /\ pc'[d] = "queued"
            \/ d = fork /\ pc'[d] = "checking"
            \/ pc'[d] = pc[d]
        BY <2>1
      <3> HIDE DEF mine, fork, id
      <3> QED
        BY <3>1, <3>2 DEF Places
    <2>5. pc' \in [Checks -> Places]
      <3> HIDE DEF id
      <3>1. pc' = [d \in Checks |-> pc'[d]]
        BY <2>1
      <3> QED
        BY <2>4, <3>1
    <2> HIDE DEF id
    <2> QED
      BY <2>2, <2>3, <2>4, <2>5
  <1>2. ASSUME NEW id \in Id, ProcessMessage(id)
        PROVE  /\ UNCHANGED <<arrived, via>>
               /\ pc' \in [Checks -> Places]
               /\ \A d \in Checks : \/ pc'[d] = pc[d]
                                    \/ pc'[d] = "checking" /\ d[1] \in Arrived
    <2> DEFINE mine == <<id, "broker">>
    <2>1. /\ mine \in Checks /\ pc[mine] = "queued" /\ pc' = [pc EXCEPT ![mine] = "checking"]
          /\ UNCHANGED <<arrived, via>>
      BY <1>2 DEF ProcessMessage, Goto, chat, Checks
    <2> HIDE DEF mine
    <2>2. mine[1] \in Arrived
      BY <2>1 DEF Begun
    <2> QED
      BY <1>0, <2>1, <2>2 DEF Places
  <1>3. UNCHANGED <<now, faq, at, tables, answers>>
    BY DEF Starts, OnPrivateMessage, ProcessMessage, chat
  <1> QED
    BY <1>0, <1>1, <1>2, <1>3 DEF Starts, Arrived

-----------------------------------------------------------------------------
(* Types, and the messages of the checks.                                  *)

LEMMA InitInv == Init => Inv
  <1> SUFFICES ASSUME Init PROVE Inv
    OBVIOUS
  <1>1. /\ <<>> \in Seq(Lines) /\ <<>> \in Seq(Brokers) /\ <<>> \in Seq(Checks)
        /\ 0 \in Time /\ Len(<<>>) = 0 /\ 0 <= ResponseCap
    BY BoundAssumption DEF Time
  <1>2. TypeOK
    BY <1>1 DEF Init, TypeOK, Places
  <1>3. Begun
    BY DEF Init, Begun
  <1>4. TriggersAgree /\ Apart
    BY DEF Init, TriggersAgree, Apart
  <1> QED
    BY <1>2, <1>3, <1>4 DEF Inv

LEMMA TypeNext == TypeOK /\ Begun /\ [Next]_vars => TypeOK'
  <1> SUFFICES ASSUME TypeOK, Begun, [Next]_vars PROVE TypeOK'
    OBVIOUS
  <1>0. /\ now \in Time /\ arrived \in Seq(Lines)
        /\ via \in Seq(Brokers) /\ Len(via) = Len(arrived)
        /\ pc \in [Checks -> Places] /\ faq \in [Checks -> Faqs \cup {NoFaq}]
        /\ at \in [Checks -> Time]
        /\ lastTriggered \in [Faqs -> Time \cup {Never}]
        /\ userTriggered \in [Faqs -> [Users -> Time \cup {Never}]]
        /\ responseCh \in Seq(Checks) /\ Len(responseCh) <= ResponseCap
        /\ asked \subseteq Checks /\ said \subseteq asked /\ dropped \subseteq asked
        /\ quiet \subseteq [faq : Faqs, at : Time]
        /\ 0 \in Time
    BY BoundAssumption DEF TypeOK, Time
  <1>1. CASE Starts
    BY <1>0, <1>1, Starting DEF TypeOK, tables, answers
  <1>3. CASE Tick
    <2>1. now + 1 \in Time
      BY <1>0, <1>3, BoundAssumption DEF Tick, Time
    <2> QED
      BY <1>0, <1>3, <2>1 DEF Tick, TypeOK, checks, tables, answers
  <1>4. CASE Say
    <2>1. responseCh # <<>> /\ responseCh' = Tail(responseCh) /\ said' = said \cup {Head(responseCh)}
          /\ UNCHANGED <<chat, checks, tables, asked, dropped>>
      BY <1>4 DEF Say
    <2>2. /\ Tail(responseCh) \in Seq(Checks) /\ Len(responseCh) \in Nat
          /\ Len(Tail(responseCh)) = Len(responseCh) - 1 /\ Head(responseCh) = responseCh[1]
          /\ 1 \in 1..Len(responseCh)
      BY <1>0, <2>1
    <2>3. Len(Tail(responseCh)) <= ResponseCap
      BY <1>0, <2>2, BoundAssumption
    <2>4. Head(responseCh) \in asked
      BY <2>2 DEF Begun
    <2> QED
      BY <1>0, <2>1, <2>2, <2>3, <2>4 DEF TypeOK, chat, checks, tables
  <1>5. ASSUME NEW c \in Checks, Ends(c) PROVE TypeOK'
    BY <1>0, <1>5 DEF Ends, CheckFails, NoMatch, Goto, TypeOK, Places, chat, tables, answers
  <1>6. ASSUME NEW c \in Checks, FindMatch(c) PROVE TypeOK'
    <2>1. PICK f \in Faqs : faq' = [faq EXCEPT ![c] = f]
      BY <1>6, MatchPasses
    <2>2. /\ pc' = [pc EXCEPT ![c] = "matched"] /\ at' = [at EXCEPT ![c] = now]
          /\ asked' = asked \cup {c} /\ UNCHANGED <<chat, tables, responseCh, said, dropped>>
      BY <1>6, MatchPasses
    <2>3. pc' \in [Checks -> Places] /\ faq' \in [Checks -> Faqs \cup {NoFaq}]
          /\ at' \in [Checks -> Time]
      BY <1>0, <2>1, <2>2 DEF Places
    <2> QED
      BY <1>0, <2>2, <2>3 DEF TypeOK, chat, tables
  <1>7. ASSUME NEW c \in Checks, BeginTx(c) PROVE TypeOK'
    BY <1>0, <1>7 DEF BeginTx, Goto, TypeOK, Places, chat, tables, answers
  <1>8. ASSUME NEW c \in Checks, CommitTx(c) PROVE TypeOK'
    <2>1. /\ pc' = [pc EXCEPT ![c] = "answering"]
          /\ lastTriggered' = [lastTriggered EXCEPT ![faq[c]] = at[c]]
          /\ userTriggered' = [userTriggered EXCEPT ![faq[c]][User(c)] = at[c]]
          /\ quiet' \subseteq quiet \cup {[faq |-> faq[c], at |-> at[c]]}
          /\ UNCHANGED <<chat, faq, at, answers>> /\ pc[c] = "recording"
      BY <1>8 DEF CommitTx, Goto
    <2>2. faq[c] \in Faqs /\ at[c] \in Time
      BY <1>0, <2>1 DEF Begun
    <2>3. [faq |-> faq[c], at |-> at[c]] \in [faq : Faqs, at : Time]
      BY <2>2
    <2>4. lastTriggered' \in [Faqs -> Time \cup {Never}]
      BY <1>0, <2>1, <2>2
    <2>5. userTriggered' \in [Faqs -> [Users -> Time \cup {Never}]]
      BY <1>0, <2>1, <2>2
    <2>6. pc' \in [Checks -> Places]
      BY <1>0, <2>1 DEF Places
    <2>7. quiet' \subseteq [faq : Faqs, at : Time]
      BY <1>0, <2>1, <2>3
    <2> QED
      BY <1>0, <2>1, <2>4, <2>5, <2>6, <2>7 DEF TypeOK, chat, answers
  <1>9. ASSUME NEW c \in Checks, TxFails(c) PROVE TypeOK'
    BY <1>0, <1>9 DEF TxFails, Goto, TypeOK, Places, chat, tables, answers
  <1>10. ASSUME NEW c \in Checks, Respond(c) PROVE TypeOK'
    <2>1. /\ \/ /\ Len(responseCh) < ResponseCap
                /\ responseCh' = Append(responseCh, c) /\ UNCHANGED dropped
             \/ dropped' = dropped \cup {c} /\ UNCHANGED responseCh
          /\ pc[c] = "answering" /\ UNCHANGED <<chat, tables, asked, said>>
      BY <1>10 DEF Respond
    <2>2. /\ pc' = [pc EXCEPT ![c] = "done"] /\ faq' = [faq EXCEPT ![c] = NoFaq]
          /\ at' = [at EXCEPT ![c] = 0]
      BY <1>10 DEF Respond, Return, Goto
    <2>3. c \in asked
      BY <2>1 DEF Begun
    <2>4. responseCh' \in Seq(Checks) /\ Len(responseCh') <= ResponseCap
      <3>1. CASE UNCHANGED responseCh
        BY <1>0, <3>1
      <3>2. CASE Len(responseCh) < ResponseCap /\ responseCh' = Append(responseCh, c)
        <4>1. Len(responseCh') = Len(responseCh) + 1 /\ Len(responseCh) \in Nat
          BY <1>0, <3>2
        <4> QED
          BY <1>0, <3>2, <4>1, BoundAssumption
      <3> QED
        BY <2>1, <3>1, <3>2
    <2>5. dropped' \subseteq asked
      BY <1>0, <2>1, <2>3
    <2>6. pc' \in [Checks -> Places] /\ faq' \in [Checks -> Faqs \cup {NoFaq}]
          /\ at' \in [Checks -> Time]
      BY <1>0, <2>2 DEF Places
    <2> QED
      BY <1>0, <2>1, <2>4, <2>5, <2>6 DEF TypeOK, chat, tables
  <1>11. CASE UNCHANGED vars
    BY <1>0, <1>11 DEF TypeOK, vars, chat, checks, tables, answers
  <1> QED
    BY <1>1, <1>3, <1>4, <1>5, <1>6, <1>7, <1>8, <1>9, <1>10, <1>11, Cases

LEMMA BegunNext == TypeOK /\ Begun /\ [Next]_vars => Begun'
  <1> SUFFICES ASSUME TypeOK, Begun, [Next]_vars PROVE Begun'
    OBVIOUS
  <1> DEFINE ArrivedNow == 1..Len(arrived')
             HasMessage(c) == pc'[c] # "none" => c[1] \in ArrivedNow
             HasEntry(c) == pc'[c] \in {"matched", "recording", "answering"} =>
                              faq'[c] \in Faqs /\ c \in asked'
             BegunNow ==
               /\ \A c \in Checks : HasMessage(c) /\ HasEntry(c) /\ at'[c] <= now'
               /\ \A i \in 1..Len(responseCh') : responseCh'[i] \in asked'
  <1> SUFFICES BegunNow
    BY DEF Begun, Arrived
  <1>0. /\ now \in Nat /\ arrived \in Seq(Lines)
        /\ pc \in [Checks -> Places] /\ faq \in [Checks -> Faqs \cup {NoFaq}]
        /\ at \in [Checks -> Time] /\ (\A c \in Checks : at[c] \in Nat)
        /\ responseCh \in Seq(Checks)
    BY BoundAssumption DEF TypeOK, Time
  <1>a. /\ \A c \in Checks : pc[c] # "none" => c[1] \in Arrived
        /\ \A c \in Checks : pc[c] \in {"matched", "recording", "answering"} =>
                               faq[c] \in Faqs /\ c \in asked
        /\ \A i \in 1..Len(responseCh) : responseCh[i] \in asked
        /\ \A c \in Checks : at[c] <= now
    BY DEF Begun
  <1>1. CASE Starts
    <2>1. /\ Arrived \subseteq ArrivedNow
          /\ \A c \in Checks : \/ pc'[c] = pc[c]
                               \/ pc'[c] \in {"queued", "checking"} /\ c[1] \in ArrivedNow
          /\ UNCHANGED <<now, faq, at, asked, responseCh>>
      BY <1>1, Starting DEF answers
    <2> HIDE DEF ArrivedNow
    <2>2. \A c \in Checks : HasMessage(c)
      BY <1>a, <2>1
    <2>3. \A c \in Checks : HasEntry(c)
      BY <1>a, <2>1
    <2> HIDE DEF HasMessage, HasEntry
    <2> QED
      BY <1>a, <2>1, <2>2, <2>3
  <1>3. CASE Tick
    <2>1. now' = now + 1 /\ UNCHANGED <<arrived, pc, faq, at, asked, responseCh>>
      BY <1>3 DEF Tick, checks, answers
    <2>2. \A c \in Checks : at[c] <= now'
      BY <1>0, <1>a, <2>1
    <2> QED
      BY <1>a, <2>1, <2>2 DEF Arrived
  <1>4. CASE Say
    <2>1. /\ responseCh # <<>> /\ responseCh' = Tail(responseCh)
          /\ UNCHANGED <<now, arrived, pc, faq, at, asked>>
      BY <1>4 DEF Say, chat, checks
    <2>2. \A i \in 1..Len(responseCh') : responseCh'[i] = responseCh[i + 1]
                                         /\ i + 1 \in 1..Len(responseCh)
      BY <1>0, <2>1
    <2> QED
      BY <1>a, <2>1, <2>2 DEF Arrived
  <1>5. ASSUME NEW c \in Checks, Ends(c) \/ TxFails(c) \/ CommitTx(c) PROVE BegunNow
    <2>1. /\ \E place \in {"done", "answering"} :
               /\ pc' = [pc EXCEPT ![c] = place]
               /\ place = "answering" => pc[c] = "recording"
          /\ pc[c] \in {"checking", "recording"}
          /\ UNCHANGED <<now, arrived, faq, at, asked, responseCh>>
      BY <1>5 DEF Ends, CheckFails, NoMatch, TxFails, CommitTx, Goto, chat, answers
    <2>2. /\ \A d \in Checks : pc'[d] # "none" => pc[d] # "none"
          /\ \A d \in Checks : pc'[d] \in {"matched", "recording", "answering"} =>
                                 pc[d] \in {"matched", "recording", "answering"}
      BY <1>0, <2>1
    <2> QED
      BY <1>a, <2>1, <2>2 DEF Arrived
  <1>6. ASSUME NEW c \in Checks, FindMatch(c) PROVE BegunNow
    <2>1. PICK f \in Faqs : faq' = [faq EXCEPT ![c] = f]
      BY <1>6, MatchPasses
    <2>2. /\ pc[c] = "checking" /\ pc' = [pc EXCEPT ![c] = "matched"]
          /\ at' = [at EXCEPT ![c] = now] /\ asked' = asked \cup {c}
          /\ UNCHANGED <<now, arrived, responseCh>>
      BY <1>6, MatchPasses DEF chat
    <2>3. \A d \in Checks : /\ d # c => pc'[d] = pc[d] /\ faq'[d] = faq[d] /\ at'[d] = at[d]
                            /\ d = c => faq'[d] = f /\ at'[d] = now
      BY <1>0, <2>1, <2>2
    <2>4. \A d \in Checks : at'[d] <= now
      BY <1>0, <1>a, <2>3
    <2>5. \A d \in Checks : HasMessage(d)
      <3>1. \A d \in Checks : pc'[d] # "none" => pc[d] # "none"
        BY <1>0, <2>2
      <3> QED
        BY <1>a, <2>2, <3>1 DEF Arrived
    <2>6. \A d \in Checks : HasEntry(d)
      <3>1. c \in asked'
        BY <2>2
      <3>2. \A d \in Checks : d # c => pc'[d] = pc[d]
        BY <1>0, <2>2
      <3> QED
        BY <1>a, <2>2, <2>3, <3>1, <3>2
    <2>7. \A i \in 1..Len(responseCh') : responseCh'[i] \in asked'
      BY <1>a, <2>2
    <2> HIDE DEF HasMessage, HasEntry
    <2> QED
      BY <2>2, <2>4, <2>5, <2>6, <2>7
  <1>7. ASSUME NEW c \in Checks, BeginTx(c) PROVE BegunNow
    <2>1. /\ pc[c] = "matched" /\ pc' = [pc EXCEPT ![c] = "recording"]
          /\ at' = [at EXCEPT ![c] = now]
          /\ UNCHANGED <<now, arrived, faq, asked, responseCh>>
      BY <1>7 DEF BeginTx, Goto, chat, answers
    <2>2. \A d \in Checks : /\ d # c => pc'[d] = pc[d] /\ at'[d] = at[d]
                            /\ d = c => at'[d] = now
      BY <1>0, <2>1
    <2>3. \A d \in Checks : at'[d] <= now
      <3>1. now <= now
        BY <1>0
      <3> QED
        BY <1>a, <2>2, <3>1
    <2> QED
      BY <1>a, <2>1, <2>2, <2>3 DEF Arrived
  <1>8. ASSUME NEW c \in Checks, Respond(c) PROVE BegunNow
    <2>1. /\ \/ responseCh' = Append(responseCh, c)
             \/ UNCHANGED responseCh
          /\ pc[c] = "answering" /\ UNCHANGED <<now, arrived, asked>>
      BY <1>8 DEF Respond, chat
    <2>2. /\ pc' = [pc EXCEPT ![c] = "done"] /\ faq' = [faq EXCEPT ![c] = NoFaq]
          /\ at' = [at EXCEPT ![c] = 0]
      BY <1>8 DEF Respond, Return, Goto
    <2>3. \A d \in Checks : /\ d # c => pc'[d] = pc[d] /\ faq'[d] = faq[d] /\ at'[d] = at[d]
                            /\ d = c => pc'[d] = "done" /\ at'[d] = 0
      BY <1>0, <2>2
    <2>4. \A d \in Checks : at'[d] <= now
      <3>1. 0 <= now
        BY <1>0
      <3> QED
        BY <1>a, <2>3, <3>1
    <2>5. \A i \in 1..Len(responseCh') : responseCh'[i] \in asked
      <3>1. CASE UNCHANGED responseCh
        BY <1>a, <3>1
      <3>2. CASE responseCh' = Append(responseCh, c)
        <4>1. /\ \A i \in 1..Len(responseCh') : i \in 1..Len(responseCh) \/ i = Len(responseCh) + 1
              /\ \A i \in 1..Len(responseCh) : responseCh'[i] = responseCh[i]
              /\ responseCh'[Len(responseCh) + 1] = c
          BY <1>0, <3>2
        <4> QED
          BY <1>a, <2>1, <4>1
      <3> QED
        BY <2>1, <3>1, <3>2
    <2> QED
      BY <1>a, <2>1, <2>3, <2>4, <2>5 DEF Arrived
  <1>9. CASE UNCHANGED vars
    BY <1>a, <1>9 DEF vars, chat, checks, tables, answers, Arrived
  <1> QED
    BY <1>1, <1>3, <1>4, <1>5, <1>6, <1>7, <1>8, <1>9, Cases

-----------------------------------------------------------------------------
(* The cooldowns.                                                          *)

LEMMA TriggersNext == TypeOK /\ Begun /\ TriggersAgree /\ [Next]_vars => TriggersAgree'
  <1> SUFFICES ASSUME TypeOK, Begun, TriggersAgree, [Next]_vars PROVE TriggersAgree'
    OBVIOUS
  <1>1. ASSUME NEW c \in Checks, CommitTx(c) PROVE TriggersAgree'
    <2>1. /\ pc[c] = "recording"
          /\ lastTriggered' = [lastTriggered EXCEPT ![faq[c]] = at[c]]
          /\ userTriggered' = [userTriggered EXCEPT ![faq[c]][User(c)] = at[c]]
      BY <1>1 DEF CommitTx
    <2>2. faq[c] \in Faqs /\ User(c) \in Users /\ at[c] \in Time
      BY <2>1, OfAMessage DEF Begun, TypeOK
    <2>3. at[c] # Never
      BY <2>2 DEF Time, Never
    <2>4. /\ lastTriggered \in [Faqs -> Time \cup {Never}]
          /\ userTriggered \in [Faqs -> [Users -> Time \cup {Never}]]
      BY DEF TypeOK
    <2> SUFFICES ASSUME NEW f \in Faqs
                 PROVE  IF lastTriggered'[f] = Never
                        THEN \A u \in Users : userTriggered'[f][u] = Never
                        ELSE \E u \in Users : userTriggered'[f][u] = lastTriggered'[f]
      BY DEF TriggersAgree
    <2>5. CASE f = faq[c]
      <3>1. lastTriggered'[f] = at[c] /\ userTriggered'[f][User(c)] = at[c]
        BY <2>1, <2>2, <2>4, <2>5
      <3> QED
        BY <2>2, <2>3, <3>1
    <2>6. CASE f # faq[c]
      <3>1. lastTriggered'[f] = lastTriggered[f] /\ userTriggered'[f] = userTriggered[f]
        BY <2>1, <2>2, <2>4, <2>6
      <3> QED
        BY <3>1 DEF TriggersAgree
    <2> QED
      BY <2>5, <2>6
  <1>2. ASSUME ~ \E c \in Checks : CommitTx(c) PROVE UNCHANGED tables
    BY <1>2, Cases, MatchPasses DEF Starts, OnPrivateMessage, ProcessMessage, Tick, Say, Ends,
       CheckFails, NoMatch, BeginTx, TxFails, Respond, vars
  <1> QED
    BY <1>1, <1>2 DEF TriggersAgree, tables

LEMMA ApartNext == TypeOK /\ Begun /\ Apart /\ [Next]_vars => Apart'
  <1> SUFFICES ASSUME TypeOK, Begun, Apart, [Next]_vars PROVE Apart'
    OBVIOUS
  <1> DEFINE HoldsNow(c, f) == pc'[c] \in {"matched", "recording"} /\ faq'[c] = f
             ApartNow(q) ==
               /\ lastTriggered'[q.faq] # Never /\ lastTriggered'[q.faq] >= q.at
               /\ \A c \in Checks : HoldsNow(c, q.faq) => at'[c] > q.at + Cooldown
  <1> SUFFICES \A q \in quiet' : ApartNow(q)
    BY DEF Apart, Holds
  <1>0. /\ pc \in [Checks -> Places] /\ faq \in [Checks -> Faqs \cup {NoFaq}]
        /\ at \in [Checks -> Time] /\ (\A c \in Checks : at[c] \in Nat /\ at[c] <= now)
        /\ now \in Nat /\ Cooldown \in Nat /\ NoFaq \notin Faqs
        /\ lastTriggered \in [Faqs -> Time \cup {Never}]
        /\ \A q \in quiet : q.faq \in Faqs /\ q.at \in Nat
    BY BoundAssumption, LinesAssumption DEF TypeOK, Begun, Time
  <1>a. \A q \in quiet :
          /\ lastTriggered[q.faq] # Never /\ lastTriggered[q.faq] >= q.at
          /\ \A c \in Checks : Holds(c, q.faq) => at[c] > q.at + Cooldown
    BY DEF Apart
  \* Nobody takes an entry in hand, and no time of one in hand is changed.
  <1>1. ASSUME UNCHANGED tables,
               \A d \in Checks : pc'[d] \in {"matched", "recording"} =>
                 /\ pc[d] \in {"matched", "recording"}
                 /\ faq'[d] = faq[d] /\ at'[d] = at[d]
        PROVE  \A q \in quiet' : ApartNow(q)
    BY <1>a, <1>1 DEF tables, Holds
  <1>2. CASE Starts
    <2>1. /\ \A d \in Checks : pc'[d] = pc[d] \/ pc'[d] \in {"queued", "checking"}
          /\ UNCHANGED <<tables, faq, at>>
      BY <1>0, <1>2, Starting
    <2>2. \A d \in Checks : pc'[d] \in {"matched", "recording"} => pc'[d] = pc[d]
      BY <2>1
    <2> QED
      BY <1>1, <2>1, <2>2
  <1>4. CASE Tick \/ Say \/ UNCHANGED vars
    <2>1. UNCHANGED <<tables, pc, faq, at>>
      BY <1>4 DEF Tick, Say, vars, checks
    <2> QED
      BY <1>1, <2>1
  <1>5. ASSUME NEW c \in Checks, Ends(c) \/ TxFails(c) \/ Respond(c)
        PROVE  \A q \in quiet' : ApartNow(q)
    <2>1. /\ \E place \in {"done", "answering"} : pc' = [pc EXCEPT ![c] = place]
          /\ \A d \in Checks \ {c} : faq'[d] = faq[d] /\ at'[d] = at[d]
          /\ UNCHANGED tables
      BY <1>0, <1>5 DEF Ends, CheckFails, NoMatch, TxFails, Respond, Return, Goto
    <2>2. pc'[c] \notin {"matched", "recording"} /\ \A d \in Checks \ {c} : pc'[d] = pc[d]
      BY <1>0, <2>1
    <2> QED
      BY <1>1, <2>1, <2>2
  <1>6. ASSUME NEW c \in Checks, FindMatch(c) PROVE \A q \in quiet' : ApartNow(q)
    <2>1. PICK f \in Faqs : faq' = [faq EXCEPT ![c] = f] /\ Passed(lastTriggered[f])
      BY <1>6, MatchPasses
    <2>2. /\ pc' = [pc EXCEPT ![c] = "matched"] /\ at' = [at EXCEPT ![c] = now]
          /\ UNCHANGED tables
      BY <1>6, MatchPasses
    <2> SUFFICES ASSUME NEW q \in quiet PROVE ApartNow(q)
      BY <2>2 DEF tables
    <2>3. ASSUME f = q.faq PROVE now > q.at + Cooldown
      <3>1. lastTriggered[f] \in Nat
        BY <1>0, <1>a, <2>3 DEF Time
      <3>2. lastTriggered[f] >= q.at /\ lastTriggered[f] < now - Cooldown
        BY <1>a, <2>1, <2>3 DEF Passed
      <3> QED
        BY <1>0, <3>1, <3>2
    <2>4. ASSUME NEW d \in Checks, HoldsNow(d, q.faq) PROVE at'[d] > q.at + Cooldown
      <3>1. CASE d = c
        BY <1>0, <2>1, <2>2, <2>3, <2>4, <3>1
      <3>2. CASE d # c
        <4>1. pc'[d] = pc[d] /\ faq'[d] = faq[d] /\ at'[d] = at[d]
          BY <1>0, <2>1, <2>2, <3>2
        <4> QED
          BY <1>a, <2>4, <4>1 DEF Holds
      <3> QED
        BY <3>1, <3>2
    <2> QED
      BY <1>a, <2>2, <2>4 DEF tables
  <1>7. ASSUME NEW c \in Checks, BeginTx(c) PROVE \A q \in quiet' : ApartNow(q)
    <2>1. /\ pc[c] = "matched" /\ pc' = [pc EXCEPT ![c] = "recording"]
          /\ at' = [at EXCEPT ![c] = now] /\ UNCHANGED <<faq, tables>>
      BY <1>7 DEF BeginTx, Goto
    <2> SUFFICES ASSUME NEW q \in quiet PROVE ApartNow(q)
      BY <2>1 DEF tables
    <2>2. ASSUME NEW d \in Checks, HoldsNow(d, q.faq) PROVE at'[d] > q.at + Cooldown
      <3>1. CASE d = c
        <4>1. Holds(c, q.faq)
          BY <2>1, <2>2, <3>1 DEF Holds
        <4>2. at[c] > q.at + Cooldown /\ at'[c] = now
          BY <1>0, <1>a, <2>1, <4>1
        <4> QED
          BY <1>0, <3>1, <4>2
      <3>2. CASE d # c
        <4>1. pc'[d] = pc[d] /\ faq'[d] = faq[d] /\ at'[d] = at[d]
          BY <1>0, <2>1, <3>2
        <4> QED
          BY <1>a, <2>2, <4>1 DEF Holds
      <3> QED
        BY <3>1, <3>2
    <2> QED
      BY <1>a, <2>1, <2>2 DEF tables
  <1>8. ASSUME NEW c \in Checks, CommitTx(c) PROVE \A q \in quiet' : ApartNow(q)
    <2>1. /\ pc[c] = "recording" /\ pc' = [pc EXCEPT ![c] = "answering"]
          /\ lastTriggered' = [lastTriggered EXCEPT ![faq[c]] = at[c]]
          /\ quiet' = IF \E d \in Checks \ {c} : Holds(d, faq[c])
                      THEN quiet
                      ELSE quiet \cup {[faq |-> faq[c], at |-> at[c]]}
          /\ UNCHANGED <<faq, at>>
      BY <1>8 DEF CommitTx, Goto
    <2>2. faq[c] \in Faqs /\ at[c] \in Nat
      BY <1>0, <2>1 DEF Begun
    <2>3. \A d \in Checks : \A f : HoldsNow(d, f) => d # c /\ Holds(d, f)
      BY <1>0, <2>1 DEF Holds
    <2>4. ASSUME NEW q \in quiet PROVE ApartNow(q)
      <3>1. \A d \in Checks : HoldsNow(d, q.faq) => at'[d] > q.at + Cooldown
        BY <1>a, <2>1, <2>3
      <3>2. CASE q.faq = faq[c]
        <4>1. at[c] > q.at + Cooldown
          BY <1>a, <2>1, <3>2 DEF Holds
        <4>2. lastTriggered'[q.faq] = at[c] /\ at[c] >= q.at
          BY <1>0, <2>1, <2>2, <3>2, <4>1
        <4>3. at[c] # Never
          BY <2>2 DEF Never
        <4> QED
          BY <3>1, <4>2, <4>3
      <3>3. CASE q.faq # faq[c]
        <4>1. lastTriggered'[q.faq] = lastTriggered[q.faq]
          BY <1>0, <2>1, <2>2, <3>3
        <4> QED
          BY <1>a, <3>1, <4>1
      <3> QED
        BY <3>2, <3>3
    <2>5. ASSUME ~ \E d \in Checks \ {c} : Holds(d, faq[c]),
                 NEW q, q = [faq |-> faq[c], at |-> at[c]]
          PROVE  ApartNow(q)
      <3>1. q.faq = faq[c] /\ q.at = at[c]
        BY <2>5
      <3>2. lastTriggered'[q.faq] = at[c] /\ at[c] # Never /\ at[c] >= q.at
        BY <1>0, <2>1, <2>2, <3>1 DEF Never
      <3>3. \A d \in Checks : ~ HoldsNow(d, q.faq)
        BY <2>3, <2>5, <3>1
      <3> QED
        BY <3>2, <3>3
    <2> QED
      BY <2>1, <2>4, <2>5
  <1> QED
    BY <1>2, <1>4, <1>5, <1>6, <1>7, <1>8, Cases

-----------------------------------------------------------------------------
(* The theorems.                                                           *)

LEMMA InvNext == Inv /\ [Next]_vars => Inv'
  BY TypeNext, BegunNext, TriggersNext, ApartNext DEF Inv

LEMMA Invariant == Spec => []Inv
  BY InitInv, InvNext, PTL DEF Spec

\* Every variable has its type, and asyncResponseCh its capacity.
THEOREM TypeCorrect == Spec => []TypeOK
  BY Invariant, PTL DEF Inv

\* RecordTriggerWithUser starts both cooldowns or neither: whenever an entry
\* was last triggered, the cooldown of some user began then.
THEOREM TriggersAreOne == Spec => []TriggersAgree
  BY Invariant, PTL DEF Inv

\* FindMatchForUser finds no entry before the cooldown of a trigger is over
\* that RecordTriggerWithUser recorded while no other check had the entry.
THEOREM CooldownHolds == Spec => CooldownOutsideOverlap
  <1> DEFINE Late == \A c \in Checks : \A q \in quiet :
                       Matches(c) /\ faq'[c] = q.faq => now > q.at + Cooldown
  <1>1. Inv /\ [Next]_vars => [Late]_vars
    <2> SUFFICES ASSUME Inv, Next, NEW c \in Checks, NEW q \in quiet, Matches(c), faq'[c] = q.faq
                 PROVE  now > q.at + Cooldown
      OBVIOUS
    <2>0. /\ TypeOK /\ Begun /\ Apart /\ pc \in [Checks -> Places]
          /\ faq \in [Checks -> Faqs \cup {NoFaq}] /\ now \in Nat /\ Cooldown \in Nat
          /\ lastTriggered \in [Faqs -> Time \cup {Never}]
          /\ q.faq \in Faqs /\ q.at \in Nat
      BY BoundAssumption DEF Inv, TypeOK, Time
    <2>1. pc[c] = "checking" /\ pc'[c] = "matched"
      BY DEF Matches
    <2>2. FindMatch(c)
      <3>1. ASSUME NEW d \in Checks, FindMatch(d) PROVE d = c
        BY <2>0, <2>1, <3>1, MatchPasses
      <3>2. ASSUME NEW d \in Checks,
                   Ends(d) \/ BeginTx(d) \/ CommitTx(d) \/ TxFails(d) \/ Respond(d)
            PROVE  FALSE
        BY <2>0, <2>1, <3>2 DEF Ends, CheckFails, NoMatch, BeginTx, CommitTx, TxFails, Respond,
           Return, Goto
      <3>3. ASSUME Starts PROVE FALSE
        BY <2>0, <2>1, <3>3, Starting
      <3>4. ASSUME Tick \/ Say \/ UNCHANGED vars PROVE FALSE
        BY <2>1, <3>4 DEF Tick, Say, vars, checks
      <3> QED
        BY <3>1, <3>2, <3>3, <3>4, Cases
    <2>3. PICK f \in Faqs : faq' = [faq EXCEPT ![c] = f] /\ Passed(lastTriggered[f])
      BY <2>0, <2>2, MatchPasses
    <2>4. f = q.faq
      BY <2>0, <2>3
    <2>5. lastTriggered[f] \in Nat /\ lastTriggered[f] >= q.at
      BY <2>0, <2>4 DEF Apart, Time
    <2>6. lastTriggered[f] < now - Cooldown
      BY <2>0, <2>3, <2>4 DEF Passed, Apart
    <2> QED
      BY <2>0, <2>5, <2>6
  <1> QED
    BY <1>1, Invariant, PTL DEF Spec, CooldownOutsideOverlap

=============================================================================
