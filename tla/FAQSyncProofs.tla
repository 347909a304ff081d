---------------------------- MODULE FAQSyncProofs ----------------------------
(***************************************************************************)
(* Proofs about the FAQ syncs, for every set of files, however many syncs  *)
(* run at the same time and whatever fails in them.                        *)
(***************************************************************************)
EXTENDS FAQSync, TLAPS

(***************************************************************************)
(* An ID stands for one question, wherever it is noted: in the table, in a *)
(* transaction, or with a sync that found it.                              *)
(***************************************************************************)
Known(id, q) ==
  \/ id \in DOMAIN table /\ table[id].question = q
  \/ \E s \in Syncs : id \in DOMAIN written[s] /\ written[s][id].question = q
  \/ \E s \in Syncs : q \in DOMAIN existing[s] /\ existing[s][q] = id

OneQuestion == \A id, q, p : Known(id, q) /\ Known(id, p) => q = p

\* A question has one row, committed or written, unless it is among twice.
Row(id, q) ==
  \/ id \in DOMAIN table /\ table[id].question = q
  \/ \E s \in Syncs : id \in DOMAIN written[s] /\ written[s][id].question = q

OneRow == \A id, other, q : Row(id, q) /\ Row(other, q) /\ id # other => q \in twice

(***************************************************************************)
(* How far a sync is: what it has processed and what is left make the      *)
(* file, what it has written is in the file, and what it deletes is not.   *)
(***************************************************************************)
Fields(s) ==
  /\ pc[s] = "idle" => /\ file[s] = <<>> /\ config[s] = <<>> /\ processed[s] = {}
                       /\ written[s] = NoMap /\ existing[s] = NoMap
                       /\ ~ aborted[s] /\ ~ errors[s]
  /\ pc[s] = "deletes" => config[s] = <<>>
  /\ pc[s] # "deletes" => deleted[s] = {}
  /\ deleted[s] \subseteq Obsolete(s)
  /\ aborted[s] => errors[s]

Reads(s) ==
  /\ Asked(file[s]) = processed[s] \cup Asked(config[s])
  /\ Range(config[s]) \subseteq Range(file[s])
  /\ processed[s] \cap Asked(config[s]) \subseteq twice
  /\ Repeated(config[s]) \subseteq twice

Writes(s) ==
  \A id \in DOMAIN written[s] :
    written[s][id] \in Range(file[s]) /\ written[s][id].question \in processed[s]

Progress == \A s \in Syncs : Fields(s) /\ Reads(s) /\ Writes(s)

(***************************************************************************)
(* What two syncs that run at the same time share is among twice, and so   *)
(* is what a sync asks for and has not found although it is in the table.  *)
(***************************************************************************)
Shared ==
  /\ \A s, r \in Syncs : s # r => Asked(file[s]) \cap Asked(file[r]) \subseteq twice
  /\ \A s \in Syncs : \A id \in DOMAIN table :
       table[id].question \in Asked(file[s]) =>
         table[id].question \in DOMAIN existing[s] \cup twice

\* A sync that runs alone has found the questions of the table, and, unless
\* something failed, has written a row for each question it has processed.
Alone ==
  \A s \in Running : alone[s] =>
    /\ Running = {s}
    /\ \A id \in DOMAIN table : table[id].question \in DOMAIN existing[s]
    /\ \A q \in DOMAIN existing[s] : existing[s][q] \in DOMAIN table
    /\ ~ errors[s] =>
         \A q \in processed[s] :
           /\ \E id \in DOMAIN written[s] : written[s][id].question = q
           /\ q \in DOMAIN existing[s] => existing[s][q] \in DOMAIN written[s]

Inv == /\ ConstantsOK /\ TypeOK /\ OneQuestion /\ OneRow
       /\ Progress /\ Shared /\ Alone

-----------------------------------------------------------------------------
(* Maps and lists.                                                         *)

\* Functions from part of D to R.
LEMMA MapsDef ==
  ASSUME NEW D, NEW R, NEW f
  PROVE  f \in Maps(D, R) <=> DOMAIN f \subseteq D /\ f \in [DOMAIN f -> R]
  <1>1. ASSUME f \in Maps(D, R) PROVE DOMAIN f \subseteq D /\ f \in [DOMAIN f -> R]
    <2>1. PICK X \in SUBSET D : f \in [X -> R]
      BY <1>1 DEF Maps
    <2> QED
      BY <2>1
  <1>2. ASSUME DOMAIN f \subseteq D, f \in [DOMAIN f -> R] PROVE f \in Maps(D, R)
    <2>1. DOMAIN f \in SUBSET D
      BY <1>2
    <2> QED
      BY <1>2, <2>1 DEF Maps
  <1> QED
    BY <1>1, <1>2

\* The map without an entry.
LEMMA NoMapType == /\ DOMAIN NoMap = {}
                   /\ \A D, R : NoMap \in Maps(D, R)
  <1>1. DOMAIN NoMap = {} /\ NoMap = [x \in DOMAIN NoMap |-> NoMap[x]]
    BY DEF NoMap
  <1>2. ASSUME NEW D, NEW R PROVE NoMap \in Maps(D, R)
    <2>1. DOMAIN NoMap \subseteq D /\ NoMap \in [DOMAIN NoMap -> R]
      BY <1>1
    <2> QED
      BY <2>1, MapsDef
  <1> QED
    BY <1>1, <1>2

\* One more entry in a map, or another value for one.
LEMMA PutIn ==
  ASSUME NEW f, NEW x, NEW v
  PROVE  /\ DOMAIN Put(f, x, v) = DOMAIN f \cup {x}
         /\ Put(f, x, v)[x] = v
         /\ \A y \in DOMAIN f : y # x => Put(f, x, v)[y] = f[y]
         /\ \A D, R : f \in Maps(D, R) /\ x \in D /\ v \in R => Put(f, x, v) \in Maps(D, R)
  <1> DEFINE g == Put(f, x, v)
  <1>1. /\ DOMAIN g = DOMAIN f \cup {x}
        /\ g[x] = v
        /\ \A y \in DOMAIN f : y # x => g[y] = f[y]
        /\ g = [y \in DOMAIN f \cup {x} |-> g[y]]
    BY DEF Put
  <1> HIDE DEF g
  <1>2. ASSUME NEW D, NEW R, f \in Maps(D, R), x \in D, v \in R PROVE g \in Maps(D, R)
    <2>1. DOMAIN f \subseteq D /\ f \in [DOMAIN f -> R]
      BY <1>2, MapsDef
    <2>2. \A y \in DOMAIN f \cup {x} : g[y] \in R
      BY <1>1, <1>2, <2>1
    <2>3. DOMAIN g \subseteq D /\ g \in [DOMAIN g -> R]
      BY <1>1, <1>2, <2>1, <2>2
    <2> QED
      BY <2>3, MapsDef
  <1> QED
    BY <1>1, <1>2 DEF g

\* The first of a list of entries, and the others.
LEMMA HeadAndTail ==
  ASSUME NEW q \in Seq(Entries), q # <<>>
  PROVE  /\ Head(q) \in Entries /\ Tail(q) \in Seq(Entries) /\ Head(q) \in Range(q)
         /\ Range(Tail(q)) \subseteq Range(q)
         /\ Asked(q) = {Head(q).question} \cup Asked(Tail(q))
         /\ Repeated(Tail(q)) \subseteq Repeated(q)
         /\ Head(q).question \in Asked(Tail(q)) => Head(q).question \in Repeated(q)
  <1> DEFINE t == Tail(q)
  <1>1. /\ Len(q) \in Nat /\ Len(q) >= 1 /\ Head(q) = q[1] /\ 1 \in 1..Len(q)
        /\ t \in Seq(Entries) /\ Len(t) = Len(q) - 1
        /\ DOMAIN q = 1..Len(q) /\ DOMAIN t = 1..Len(t)
        /\ \A i \in 1..Len(q) : q[i] \in Entries
    OBVIOUS
  <1>2. \A i \in 1..Len(t) : t[i] = q[i + 1] /\ i + 1 \in 1..Len(q) /\ i + 1 # 1
    BY <1>1
  <1>3. \A i \in 1..Len(q) : i = 1 \/ (i - 1 \in 1..Len(t) /\ t[i - 1] = q[i])
    <2> SUFFICES ASSUME NEW i \in 1..Len(q), i # 1 PROVE i - 1 \in 1..Len(t) /\ t[i - 1] = q[i]
      OBVIOUS
    <2>1. i - 1 \in 1..Len(t) /\ (i - 1) + 1 = i
      BY <1>1
    <2> QED
      BY <1>2, <2>1
  <1> HIDE DEF t
  <1>4. Range(q) = {q[1]} \cup Range(t)
    <2>1. ASSUME NEW i \in DOMAIN q PROVE q[i] \in {q[1]} \cup Range(t)
      BY <1>1, <1>3 DEF Range
    <2>2. q[1] \in Range(q)
      BY <1>1 DEF Range
    <2>3. ASSUME NEW i \in DOMAIN t PROVE t[i] \in Range(q)
      BY <1>1, <1>2 DEF Range
    <2> QED
      BY <2>1, <2>2, <2>3 DEF Range
  <1>5. Asked(q) = {q[1].question} \cup Asked(t)
    BY <1>4 DEF Asked
  <1>6. Repeated(t) \subseteq Repeated(q)
    <2> SUFFICES ASSUME NEW p \in Repeated(t) PROVE p \in Repeated(q)
      OBVIOUS
    <2>1. PICK i \in DOMAIN t, j \in DOMAIN t : i # j /\ t[i].question = p /\ t[j].question = p
      BY DEF Repeated
    <2>2. i + 1 \in DOMAIN q /\ j + 1 \in DOMAIN q /\ i + 1 # j + 1
      BY <1>1, <1>2, <2>1
    <2>3. q[i + 1].question = p /\ q[j + 1].question = p
      BY <1>1, <1>2, <2>1
    <2> QED
      BY <2>2, <2>3 DEF Repeated
  <1>7. ASSUME q[1].question \in Asked(t) PROVE q[1].question \in Repeated(q)
    <2>1. PICK i \in DOMAIN t : t[i].question = q[1].question
      BY <1>7 DEF Asked, Range
    <2>2. i + 1 \in DOMAIN q /\ 1 \in DOMAIN q /\ i + 1 # 1 /\ q[i + 1].question = q[1].question
      BY <1>1, <1>2, <2>1
    <2>3. q[1].question \in Questions
      BY <1>1 DEF Entries
    <2> QED
      BY <2>2, <2>3 DEF Repeated
  <1> QED
    BY <1>1, <1>4, <1>5, <1>6, <1>7 DEF t

\* gen_random_uuid.
LEMMA FreshID == ~ Ids \subseteq Used => Fresh \in Ids /\ Fresh \notin Used
  BY DEF Fresh

-----------------------------------------------------------------------------
(* Types.                                                                  *)

\* An entry that is processed.
LEMMA Processed ==
  ASSUME TypeOK, NEW s \in Syncs, Process(s)
  PROVE  /\ pc[s] = "entries" /\ config[s] \in Seq(Entries) /\ config[s] # <<>>
         /\ Entry(s) = Head(config[s]) /\ Entry(s) \in Entries /\ Entry(s).question \in Questions
         /\ config' = [config EXCEPT ![s] = Tail(config[s])]
         /\ processed' = [processed EXCEPT ![s] = processed[s] \cup {Entry(s).question}]
         /\ config' \in [Syncs -> Seq(Entries)] /\ processed' \in [Syncs -> SUBSET Questions]
  <1>1. /\ pc[s] = "entries" /\ config[s] \in Seq(Entries) /\ config[s] # <<>>
        /\ config \in [Syncs -> Seq(Entries)] /\ processed \in [Syncs -> SUBSET Questions]
        /\ config' = [config EXCEPT ![s] = Tail(config[s])]
        /\ processed' = [processed EXCEPT ![s] = processed[s] \cup {Entry(s).question}]
    BY DEF Process, TypeOK
  <1>2. Tail(config[s]) \in Seq(Entries) /\ Head(config[s]) \in Entries
    BY <1>1, HeadAndTail
  <1>3. Entry(s).question \in Questions
    BY <1>2 DEF Entry, Entries
  <1> QED
    BY <1>1, <1>2, <1>3 DEF Entry

\* What a sync may have found: each question with the ID of a row of it.
LEMMA Found ==
  ASSUME TypeOK, NEW ids \in ExistingEntries
  PROVE  /\ ids \in Maps(Questions, Ids)
         /\ \A q \in DOMAIN ids : ids[q] \in DOMAIN table /\ table[ids[q]].question = q
         /\ \A id \in DOMAIN table : table[id].question \in DOMAIN ids
  <1>1. /\ DOMAIN ids = {table[id].question : id \in DOMAIN table}
        /\ ids \in [DOMAIN ids -> DOMAIN table]
        /\ \A q \in DOMAIN ids : table[ids[q]].question = q
    BY DEF ExistingEntries
  <1>2. DOMAIN table \subseteq Ids /\ \A id \in DOMAIN table : table[id] \in Rows
    BY MapsDef DEF TypeOK
  <1>3. DOMAIN ids \subseteq Questions
    BY <1>1, <1>2 DEF Rows
  <1>4. ids \in [DOMAIN ids -> Ids]
    BY <1>1, <1>2
  <1> QED
    BY <1>1, <1>3, <1>4, MapsDef

\* The table after the COMMIT of s.
LEMMA AfterCommit ==
  ASSUME TypeOK, NEW s \in Syncs, ConstantsOK
  PROVE  /\ Committed(s) \in Maps(Ids, Rows)
         /\ DOMAIN Committed(s) = (DOMAIN table \cup DOMAIN written[s]) \ deleted[s]
         /\ \A id \in DOMAIN Committed(s) :
              /\ id \in DOMAIN written[s] =>
                   /\ Committed(s)[id].question = written[s][id].question
                   /\ Committed(s)[id].response = written[s][id].response
              /\ id \notin DOMAIN written[s] => id \in DOMAIN table /\ Committed(s)[id] = table[id]
              /\ id \in DOMAIN table => Committed(s)[id].triggered = table[id].triggered
  <1> DEFINE c == Committed(s)
  <1>0. /\ DOMAIN table \subseteq Ids /\ \A id \in DOMAIN table : table[id] \in Rows
        /\ DOMAIN written[s] \subseteq Ids /\ \A id \in DOMAIN written[s] : written[s][id] \in Entries
        /\ 0 \in 0..MaxTriggers
    BY MapsDef DEF TypeOK, ConstantsOK
  <1>1. /\ DOMAIN c = (DOMAIN table \cup DOMAIN written[s]) \ deleted[s]
        /\ c \in [DOMAIN c -> {c[id] : id \in DOMAIN c}]
        /\ \A id \in DOMAIN c :
             c[id] = IF id \in DOMAIN written[s]
                     THEN [question |-> written[s][id].question,
                           response |-> written[s][id].response,
                           triggered |-> IF id \in DOMAIN table THEN table[id].triggered ELSE 0]
                     ELSE table[id]
    BY DEF Committed
  <1> HIDE DEF c
  <1>2. ASSUME NEW id \in DOMAIN c, id \in DOMAIN written[s] 
        PROVE  /\ c[id] \in Rows
               /\ c[id].question = written[s][id].question
               /\ c[id].response = written[s][id].response
               /\ id \in DOMAIN table => c[id].triggered = table[id].triggered
    <2>1. written[s][id].question \in Questions /\ written[s][id].response \in Responses
      BY <1>0, <1>2 DEF Entries
    <2> DEFINE n == IF id \in DOMAIN table THEN table[id].triggered ELSE 0
    <2>2. n \in 0..MaxTriggers
      BY <1>0 DEF Rows
    <2>3. c[id] = [question |-> written[s][id].question,
                   response |-> written[s][id].response, triggered |-> n]
      BY <1>1, <1>2
    <2>4. id \in DOMAIN table => n = table[id].triggered
      OBVIOUS
    <2> HIDE DEF n
    <2> QED
      BY <2>1, <2>2, <2>3, <2>4 DEF Rows
  <1>3. ASSUME NEW id \in DOMAIN c, id \notin DOMAIN written[s]
        PROVE  id \in DOMAIN table /\ c[id] = table[id] /\ c[id] \in Rows
    BY <1>0, <1>1, <1>3
  <1>4. DOMAIN c \subseteq Ids /\ c \in [DOMAIN c -> Rows]
    BY <1>0, <1>1, <1>2, <1>3
  <1>5. c \in Maps(Ids, Rows)
    BY <1>4, MapsDef
  <1> QED
    BY <1>1, <1>2, <1>3, <1>5 DEF c

LEMMA TypeNext == ConstantsOK /\ TypeOK /\ [Next]_vars => TypeOK'
  <1> SUFFICES ASSUME ConstantsOK, TypeOK, [Next]_vars PROVE TypeOK'
    OBVIOUS
  <1>0. /\ table \in Maps(Ids, Rows)
        /\ config \in [Syncs -> Seq(Entries)] /\ file \in [Syncs -> Seq(Entries)]
        /\ existing \in [Syncs -> Maps(Questions, Ids)]
        /\ processed \in [Syncs -> SUBSET Questions]
        /\ written \in [Syncs -> Maps(Ids, Entries)] /\ deleted \in [Syncs -> SUBSET Ids]
        /\ pc \in [Syncs -> {"idle", "entries", "deletes"}]
        /\ aborted \in [Syncs -> BOOLEAN] /\ errors \in [Syncs -> BOOLEAN]
        /\ alone \in [Syncs -> BOOLEAN] /\ twice \subseteq Questions /\ begun \in 0..MaxSyncs
    BY DEF TypeOK
  <1>1. ASSUME NEW s \in Syncs, NEW entries \in Files, Begin(s, entries) PROVE TypeOK'
    <2>1. PICK ids \in ExistingEntries : existing' = [existing EXCEPT ![s] = ids]
      BY <1>1 DEF Begin
    <2>2. /\ pc' = [pc EXCEPT ![s] = "entries"]
          /\ config' = [config EXCEPT ![s] = entries] /\ file' = [file EXCEPT ![s] = entries]
          /\ alone' = [r \in Syncs |-> IF r = s THEN Running = {} ELSE alone[r] /\ r \notin Running]
          /\ UNCHANGED <<table, processed, written, deleted, aborted, errors>>
      BY <1>1 DEF Begin
    <2>3. ids \in Maps(Questions, Ids)
      BY Found
    <2>4. entries \in Seq(Entries)
      BY DEF ConstantsOK
    <2>5. twice' \subseteq Questions
      <3>1. Asked(entries) \subseteq Questions
        <4>1. \A e \in Range(entries) : e \in Entries
          BY <2>4 DEF Range
        <4> QED
          BY <4>1 DEF Asked, Entries
      <3>2. Repeated(entries) \subseteq Questions
        BY DEF Repeated
      <3> QED
        BY <1>0, <1>1, <3>1, <3>2 DEF Begin
    <2>6. begun' \in 0..MaxSyncs
      BY <1>0, <1>1 DEF Begin, ConstantsOK
    <2>7. existing' \in [Syncs -> Maps(Questions, Ids)]
      BY <1>0, <2>1, <2>3
    <2>8. alone' \in [Syncs -> BOOLEAN]
      BY <1>0, <2>2
    <2> QED
      BY <1>0, <2>2, <2>4, <2>5, <2>6, <2>7, <2>8 DEF TypeOK
  <1>2. ASSUME NEW s \in Syncs, EmbeddingFails(s) \/ WriteFails(s) PROVE TypeOK'
    <2>1. /\ Process(s) /\ UNCHANGED <<table, existing, written, deleted, pc, file, history>>
          /\ aborted' = aborted \/ aborted' = [aborted EXCEPT ![s] = TRUE]
          /\ errors' = [errors EXCEPT ![s] = TRUE]
      BY <1>2 DEF EmbeddingFails, WriteFails
    <2> QED
      BY <1>0, <2>1, Processed DEF TypeOK, history
  <1>3. ASSUME NEW s \in Syncs, UpdateEntry(s) \/ CreateEntry(s) PROVE TypeOK'
    <2>1. /\ Process(s)
          /\ UNCHANGED <<table, existing, deleted, pc, aborted, errors, file, history>>
      BY <1>3 DEF UpdateEntry, CreateEntry
    <2>2. PICK id : /\ written' = written \/ written' = [written EXCEPT ![s] = Put(written[s], id, Entry(s))]
                    /\ id \in Ids
      <3>1. CASE UpdateEntry(s)
        <4>1. existing[s][Entry(s).question] \in Ids
          BY <1>0, <3>1, MapsDef DEF UpdateEntry
        <4> QED
          BY <3>1, <4>1 DEF UpdateEntry
      <3>2. CASE CreateEntry(s)
        BY <3>2, FreshID DEF CreateEntry
      <3> QED
        BY <1>3, <3>1, <3>2
    <2>3. Put(written[s], id, Entry(s)) \in Maps(Ids, Entries)
      BY <1>0, <2>1, <2>2, PutIn, Processed
    <2>4. written' \in [Syncs -> Maps(Ids, Entries)]
      BY <1>0, <2>2, <2>3
    <2> QED
      BY <1>0, <2>1, <2>4, Processed DEF TypeOK, history
  <1>4. ASSUME NEW s \in Syncs, EntriesDone(s) \/ DeleteFails(s) PROVE TypeOK'
    BY <1>0, <1>4 DEF EntriesDone, DeleteFails, TypeOK, locals, history
  <1>5. ASSUME NEW s \in Syncs, NEW id \in Ids, DeleteEntry(s, id) PROVE TypeOK'
    BY <1>0, <1>5 DEF DeleteEntry, TypeOK, history
  <1>6. ASSUME NEW s \in Syncs, Commit(s) \/ RollBack(s) PROVE TypeOK'
    <2>1. /\ End(s) /\ UNCHANGED history
          /\ table' = table \/ table' = Committed(s)
      BY <1>6 DEF Commit, RollBack
    <2>2. table' \in Maps(Ids, Rows)
      BY <1>0, <2>1, AfterCommit
    <2>3. NoMap \in Maps(Ids, Entries) /\ NoMap \in Maps(Questions, Ids) /\ <<>> \in Seq(Entries)
      BY NoMapType
    <2> QED
      BY <1>0, <2>1, <2>2, <2>3 DEF End, TypeOK, history
  <1>7. ASSUME NEW id \in Ids, Trigger(id) PROVE TypeOK'
    <2>1. /\ id \in DOMAIN table /\ table[id].triggered < MaxTriggers
          /\ table' = [table EXCEPT ![id].triggered = @ + 1]
          /\ UNCHANGED <<pc, locals, history>>
      BY <1>7 DEF Trigger
    <2>2. DOMAIN table \subseteq Ids /\ table \in [DOMAIN table -> Rows]
      BY <1>0, MapsDef
    <2>3. DOMAIN table' = DOMAIN table /\ table' \in [DOMAIN table' -> Rows]
      BY <2>1, <2>2 DEF Rows, ConstantsOK
    <2>4. table' \in Maps(Ids, Rows)
      BY <2>2, <2>3, MapsDef
    <2> QED
      BY <1>0, <2>1, <2>4 DEF TypeOK, locals, history
  <1>8. CASE UNCHANGED vars
    BY <1>0, <1>8 DEF TypeOK, vars, locals, history
  <1> QED
    BY <1>1, <1>2, <1>3, <1>4, <1>5, <1>6, <1>7, <1>8 DEF Next, SyncFromConfig

-----------------------------------------------------------------------------
(* What a step does to each sync.                                          *)

\* The end of a sync.
LEMMA Ended ==
  ASSUME TypeOK, NEW s \in Syncs, End(s)
  PROVE  /\ pc'[s] = "idle" /\ config'[s] = <<>> /\ file'[s] = <<>>
         /\ existing'[s] = NoMap /\ processed'[s] = {} /\ written'[s] = NoMap
         /\ deleted'[s] = {} /\ aborted'[s] = FALSE /\ errors'[s] = FALSE
         /\ \A r \in Syncs : r # s =>
              /\ pc'[r] = pc[r] /\ config'[r] = config[r] /\ file'[r] = file[r]
              /\ existing'[r] = existing[r] /\ processed'[r] = processed[r]
              /\ written'[r] = written[r] /\ deleted'[r] = deleted[r]
              /\ aborted'[r] = aborted[r] /\ errors'[r] = errors[r]
  BY DEF End, TypeOK

LEMMA Finishes ==
  ASSUME ConstantsOK, TypeOK, NEW s \in Syncs, Commit(s) \/ RollBack(s)
  PROVE  /\ End(s) /\ pc[s] # "idle" /\ UNCHANGED history
         /\ DOMAIN table' \subseteq DOMAIN table \cup DOMAIN written[s]
         /\ \A id \in DOMAIN table' :
              \/ id \in DOMAIN table /\ table'[id].question = table[id].question
              \/ id \in DOMAIN written[s] /\ table'[id].question = written[s][id].question
  <1>1. CASE Commit(s)
    BY <1>1, AfterCommit DEF Commit
  <1>2. CASE RollBack(s)
    BY <1>2 DEF RollBack
  <1> QED
    BY <1>1, <1>2

\* The beginning of a sync.
LEMMA Begins ==
  ASSUME ConstantsOK, TypeOK, NEW s \in Syncs, NEW entries \in Files, Begin(s, entries)
  PROVE  /\ entries \in Seq(Entries) /\ pc[s] = "idle"
         /\ pc'[s] = "entries" /\ config'[s] = entries /\ file'[s] = entries
         /\ existing'[s] \in Maps(Questions, Ids)
         /\ \A q \in DOMAIN existing'[s] :
              existing'[s][q] \in DOMAIN table /\ table[existing'[s][q]].question = q
         /\ \A id \in DOMAIN table : table[id].question \in DOMAIN existing'[s]
         /\ \A r \in Syncs : r # s => /\ pc'[r] = pc[r] /\ config'[r] = config[r]
                                      /\ file'[r] = file[r] /\ existing'[r] = existing[r]
         /\ UNCHANGED <<table, processed, written, deleted, aborted, errors>>
         /\ \A r \in Syncs : alone'[r] = IF r = s THEN Running = {} ELSE alone[r] /\ r \notin Running
         /\ twice \subseteq twice' /\ Repeated(entries) \subseteq twice'
         /\ \A r \in Running : Asked(entries) \cap Asked(file[r]) \subseteq twice'
  <1>1. PICK ids \in ExistingEntries : existing' = [existing EXCEPT ![s] = ids]
    BY DEF Begin
  <1>2. existing'[s] = ids /\ \A r \in Syncs : r # s => existing'[r] = existing[r]
    BY <1>1 DEF TypeOK
  <1>3. /\ ids \in Maps(Questions, Ids)
        /\ \A q \in DOMAIN ids : ids[q] \in DOMAIN table /\ table[ids[q]].question = q
        /\ \A id \in DOMAIN table : table[id].question \in DOMAIN ids
    BY Found
  <1>4. /\ pc[s] = "idle"
        /\ pc' = [pc EXCEPT ![s] = "entries"]
        /\ config' = [config EXCEPT ![s] = entries] /\ file' = [file EXCEPT ![s] = entries]
        /\ alone' = [r \in Syncs |-> IF r = s THEN Running = {} ELSE alone[r] /\ r \notin Running]
        /\ twice' = twice \cup Repeated(entries)
                      \cup (Asked(entries) \cap UNION {Asked(file[r]) : r \in Running})
        /\ UNCHANGED <<table, processed, written, deleted, aborted, errors>>
    BY DEF Begin
  <1>5. /\ pc'[s] = "entries" /\ config'[s] = entries /\ file'[s] = entries
        /\ \A r \in Syncs : r # s => /\ pc'[r] = pc[r] /\ config'[r] = config[r]
                                     /\ file'[r] = file[r]
    BY <1>4 DEF TypeOK
  <1>6. \A r \in Running : Asked(entries) \cap Asked(file[r]) \subseteq twice'
    BY <1>4
  <1>7. entries \in Seq(Entries)
    BY DEF ConstantsOK
  <1> QED
    BY <1>2, <1>3, <1>4, <1>5, <1>6, <1>7

\* An entry that is processed: what becomes of the lists.
LEMMA Proceeds ==
  ASSUME TypeOK, NEW s \in Syncs, Process(s)
  PROVE  /\ config'[s] = Tail(config[s])
         /\ processed'[s] = processed[s] \cup {Entry(s).question}
         /\ \A r \in Syncs : r # s => config'[r] = config[r] /\ processed'[r] = processed[r]
  BY Processed DEF TypeOK

\* A row that is written, or an update that changes no row.
LEMMA WritesOne ==
  ASSUME TypeOK, OneQuestion, NEW s \in Syncs, UpdateEntry(s) \/ CreateEntry(s)
  PROVE  /\ Process(s) /\ ~ aborted[s]
         /\ UNCHANGED <<table, existing, deleted, pc, aborted, errors, file, history>>
         /\ \A r \in Syncs : r # s => written'[r] = written[r]
         /\ \/ /\ UpdateEntry(s) /\ written'[s] = written[s]
               /\ Entry(s).question \in DOMAIN existing[s]
               /\ existing[s][Entry(s).question] \notin DOMAIN table
            \/ \E id \in Ids :
                 /\ DOMAIN written'[s] = DOMAIN written[s] \cup {id}
                 /\ written'[s][id] = Entry(s)
                 /\ \A x \in DOMAIN written[s] : x # id => written'[s][x] = written[s][x]
                 /\ \/ /\ Entry(s).question \in DOMAIN existing[s]
                       /\ id = existing[s][Entry(s).question] /\ id \in DOMAIN table
                       /\ table[id].question = Entry(s).question
                    \/ /\ Entry(s).question \notin DOMAIN existing[s]
                       /\ id \notin Used
  <1>0. Process(s) /\ ~ aborted[s]
        /\ UNCHANGED <<table, existing, deleted, pc, aborted, errors, file, history>>
    BY DEF UpdateEntry, CreateEntry
  <1>a. written \in [Syncs -> Maps(Ids, Entries)]
    BY DEF TypeOK
  <1>1. CASE UpdateEntry(s)
    <2> DEFINE id == existing[s][Entry(s).question]
    <2>1. /\ Entry(s).question \in DOMAIN existing[s]
          /\ written' = IF id \in DOMAIN table
                        THEN [written EXCEPT ![s] = Put(written[s], id, Entry(s))] ELSE written
      BY <1>1 DEF UpdateEntry
    <2>2. Known(id, Entry(s).question)
      BY <2>1 DEF Known
    <2>3. id \in DOMAIN table => table[id].question = Entry(s).question
      BY <2>2 DEF OneQuestion, Known
    <2>4. CASE id \in DOMAIN table
      <3>1. written'[s] = Put(written[s], id, Entry(s)) /\ \A r \in Syncs : r # s => written'[r] = written[r]
        BY <1>a, <2>1, <2>4
      <3>2. id \in Ids
        BY <2>4, MapsDef DEF TypeOK
      <3>3. /\ DOMAIN written'[s] = DOMAIN written[s] \cup {id}
            /\ written'[s][id] = Entry(s)
            /\ \A x \in DOMAIN written[s] : x # id => written'[s][x] = written[s][x]
        BY <3>1 DEF Put
      <3> HIDE DEF id
      <3> QED
        BY <1>0, <2>1, <2>3, <2>4, <3>1, <3>2, <3>3 DEF id
    <2>5. CASE id \notin DOMAIN table
      BY <1>0, <1>1, <2>1, <2>5
    <2> QED
      BY <2>4, <2>5
  <1>2. CASE CreateEntry(s)
    <2>1. /\ Entry(s).question \notin DOMAIN existing[s] /\ Fresh \in Ids /\ Fresh \notin Used
          /\ written' = [written EXCEPT ![s] = Put(written[s], Fresh, Entry(s))]
      BY <1>2, FreshID DEF CreateEntry
    <2>2. written'[s] = Put(written[s], Fresh, Entry(s)) /\ \A r \in Syncs : r # s => written'[r] = written[r]
      BY <1>a, <2>1
    <2>3. /\ DOMAIN written'[s] = DOMAIN written[s] \cup {Fresh}
          /\ written'[s][Fresh] = Entry(s)
          /\ \A x \in DOMAIN written[s] : x # Fresh => written'[s][x] = written[s][x]
      BY <2>2 DEF Put
    <2> QED
      BY <1>0, <2>1, <2>2, <2>3
  <1> QED
    BY <1>1, <1>2

\* Steps that write nothing: the transaction and the table keep their rows,
\* and at most a deletion or an error is noted.
Notes(s) == \/ EmbeddingFails(s) \/ WriteFails(s) \/ EntriesDone(s) \/ DeleteFails(s)
            \/ \E id \in Ids : DeleteEntry(s, id)

LEMMA NotesNothing ==
  ASSUME TypeOK, NEW s \in Syncs, Notes(s)
  PROVE  /\ pc[s] # "idle" /\ UNCHANGED <<table, existing, written, file, history>>
         /\ \A r \in Syncs : pc'[r] = "idle" <=> pc[r] = "idle"
         /\ Process(s) \/ UNCHANGED <<config, processed>>
  <1>1. ASSUME NEW id \in Ids, DeleteEntry(s, id)
        PROVE  /\ pc[s] # "idle" /\ UNCHANGED <<table, existing, written, file, history>>
               /\ pc' = pc /\ UNCHANGED <<config, processed>>
    BY <1>1 DEF DeleteEntry
  <1>2. CASE EmbeddingFails(s) \/ WriteFails(s)
    BY <1>2, Processed DEF EmbeddingFails, WriteFails
  <1>3. CASE EntriesDone(s) \/ DeleteFails(s)
    BY <1>3 DEF EntriesDone, DeleteFails, locals, TypeOK
  <1> QED
    BY <1>1, <1>2, <1>3 DEF Notes

\* The steps, sorted by what they do to rows.
LEMMA Cases ==
  ASSUME [Next]_vars
  PROVE  \/ \E s \in Syncs, entries \in Files : Begin(s, entries)
         \/ \E s \in Syncs : Notes(s)
         \/ \E s \in Syncs : UpdateEntry(s) \/ CreateEntry(s)
         \/ \E s \in Syncs : Commit(s) \/ RollBack(s)
         \/ \E id \in Ids : Trigger(id)
         \/ UNCHANGED vars
  BY DEF Next, SyncFromConfig, Notes

\* A trigger changes no question.
LEMMA TriggerKeeps ==
  ASSUME NEW id \in Ids, Trigger(id)
  PROVE  /\ DOMAIN table' = DOMAIN table
         /\ \A x \in DOMAIN table : table'[x].question = table[x].question
         /\ UNCHANGED <<pc, locals, history>>
  <1>1. /\ table' = [table EXCEPT ![id].triggered = @ + 1]
        /\ UNCHANGED <<pc, locals, history>>
    BY DEF Trigger
  <1> QED
    BY <1>1

-----------------------------------------------------------------------------
(* IDs and questions.                                                      *)

\* No step makes an ID known for a question, but for that of a new row.
LEMMA KnownNext ==
  ASSUME ConstantsOK, TypeOK, OneQuestion, [Next]_vars
  PROVE  \E new, asked : 
           /\ \A q : ~ Known(new, q)
           /\ \A id, q : Known(id, q)' => Known(id, q) \/ (id = new /\ q = asked)
  <1> DEFINE KnownNow(id, q) ==
               \/ id \in DOMAIN table' /\ table'[id].question = q
               \/ \E s \in Syncs : id \in DOMAIN written'[s] /\ written'[s][id].question = q
               \/ \E s \in Syncs : q \in DOMAIN existing'[s] /\ existing'[s][q] = id
             Grow == \A id, q : KnownNow(id, q) => Known(id, q)
  <1>1. \A id, q : Known(id, q)' <=> KnownNow(id, q)
    BY DEF Known
  <1>2. \A id, q : Known(id, q) => id \in Used
    BY DEF Known, Used, Range
  <1>3. ASSUME NEW s \in Syncs, NEW entries \in Files, Begin(s, entries) PROVE Grow
    <2>1. /\ UNCHANGED <<table, written>>
          /\ \A q \in DOMAIN existing'[s] :
               existing'[s][q] \in DOMAIN table /\ table[existing'[s][q]].question = q
          /\ \A r \in Syncs : r # s => existing'[r] = existing[r]
      BY <1>3, Begins
    <2> QED
      BY <2>1 DEF Known
  <1>4. ASSUME NEW s \in Syncs, Notes(s) PROVE Grow
    BY <1>4, NotesNothing DEF Known
  <1>5. ASSUME NEW s \in Syncs, UpdateEntry(s) \/ CreateEntry(s)
        PROVE  Grow \/ \E new, asked :
                         /\ new \notin Used
                         /\ \A id, q : KnownNow(id, q) => Known(id, q) \/ (id = new /\ q = asked)
    <2>0. UNCHANGED <<table, existing>> /\ \A r \in Syncs : r # s => written'[r] = written[r]
      BY <1>5, WritesOne
    <2>1. CASE written'[s] = written[s]
      BY <2>0, <2>1 DEF Known
    <2>2. CASE written'[s] # written[s]
      <3>1. PICK id : /\ DOMAIN written'[s] = DOMAIN written[s] \cup {id}
                      /\ written'[s][id] = Entry(s)
                      /\ \A x \in DOMAIN written[s] : x # id => written'[s][x] = written[s][x]
                      /\ \/ id \in DOMAIN table /\ table[id].question = Entry(s).question
                         \/ id \notin Used
        BY <1>5, <2>2, WritesOne
      <3>2. \A x, q : KnownNow(x, q) => Known(x, q) \/ (x = id /\ q = Entry(s).question)
        BY <2>0, <3>1 DEF Known
      <3>3. CASE id \notin Used
        BY <3>2, <3>3
      <3>4. CASE id \in DOMAIN table /\ table[id].question = Entry(s).question
        BY <3>2, <3>4 DEF Known
      <3> QED
        BY <3>1, <3>3, <3>4
    <2> QED
      BY <2>1, <2>2
  <1>6. ASSUME NEW s \in Syncs, Commit(s) \/ RollBack(s) PROVE Grow
    <2>1. /\ written'[s] = NoMap /\ existing'[s] = NoMap
          /\ \A r \in Syncs : r # s => written'[r] = written[r] /\ existing'[r] = existing[r]
      BY <1>6, Finishes, Ended
    <2>2. /\ DOMAIN table' \subseteq DOMAIN table \cup DOMAIN written[s]
          /\ \A id \in DOMAIN table' :
               \/ id \in DOMAIN table /\ table'[id].question = table[id].question
               \/ id \in DOMAIN written[s] /\ table'[id].question = written[s][id].question
      BY <1>6, Finishes
    <2> QED
      BY <2>1, <2>2, NoMapType DEF Known
  <1>7. ASSUME NEW id \in Ids, Trigger(id) PROVE Grow
    BY <1>7, TriggerKeeps DEF Known, locals
  <1>8. ASSUME UNCHANGED vars PROVE Grow
    <2>1. UNCHANGED <<table, written, existing>>
      BY <1>8 DEF vars, locals
    <2> QED
      BY <2>1 DEF Known
  <1> DEFINE New == \E new, asked :
                      /\ new \notin Used
                      /\ \A id, q : KnownNow(id, q) => Known(id, q) \/ (id = new /\ q = asked)
  <1>9. Grow => New
    <2>1. PICK new : new \notin Used
      BY NoSetContainsEverything
    <2> QED
      BY <2>1
  <1>10. New => \E new, asked :
                  /\ \A q : ~ Known(new, q)
                  /\ \A id, q : Known(id, q)' => Known(id, q) \/ (id = new /\ q = asked)
    <2> HIDE DEF KnownNow
    <2> QED
      BY <1>1, <1>2
  <1>11. Grow \/ New
    <2> HIDE DEF Grow, New
    <2>1. CASE \E s \in Syncs : UpdateEntry(s) \/ CreateEntry(s)
      <3>1. PICK s \in Syncs : UpdateEntry(s) \/ CreateEntry(s)
        BY <2>1
      <3> QED
        BY <1>5, <3>1 DEF New
    <2> QED
      BY <1>3, <1>4, <1>6, <1>7, <1>8, <2>1, Cases
  <1> QED
    BY <1>9, <1>10, <1>11

LEMMA OneQuestionNext == ConstantsOK /\ TypeOK /\ OneQuestion /\ [Next]_vars => OneQuestion'
  <1> SUFFICES ASSUME ConstantsOK, TypeOK, OneQuestion, [Next]_vars,
                      NEW id, NEW q, NEW p, Known(id, q)', Known(id, p)'
               PROVE  q = p
    BY DEF OneQuestion
  <1>1. PICK new, asked :
          /\ \A r : ~ Known(new, r)
          /\ \A x, r : Known(x, r)' => Known(x, r) \/ (x = new /\ r = asked)
    BY KnownNext
  <1>2. /\ Known(id, q) \/ (id = new /\ q = asked)
        /\ Known(id, p) \/ (id = new /\ p = asked)
    BY <1>1
  <1> QED
    BY <1>1, <1>2 DEF OneQuestion

-----------------------------------------------------------------------------
(* Rows and what syncs share.                                              *)

LEMMA TwiceGrows == TypeOK /\ ConstantsOK /\ [Next]_vars => twice \subseteq twice'
  <1> SUFFICES ASSUME TypeOK, ConstantsOK, [Next]_vars PROVE twice \subseteq twice'
    OBVIOUS
  <1>1. ASSUME NEW s \in Syncs, NEW entries \in Files, Begin(s, entries)
        PROVE  twice \subseteq twice'
    BY <1>1 DEF Begin
  <1>2. ASSUME NEW s \in Syncs, Notes(s) PROVE twice' = twice
    BY <1>2, NotesNothing DEF history
  <1>3. ASSUME NEW s \in Syncs, UpdateEntry(s) \/ CreateEntry(s) PROVE twice' = twice
    BY <1>3 DEF UpdateEntry, CreateEntry, history
  <1>4. ASSUME NEW s \in Syncs, Commit(s) \/ RollBack(s) PROVE twice' = twice
    BY <1>4 DEF Commit, RollBack, history
  <1>5. ASSUME NEW id \in Ids, Trigger(id) PROVE twice' = twice
    BY <1>5 DEF Trigger, history
  <1>6. ASSUME UNCHANGED vars PROVE twice' = twice
    BY <1>6 DEF vars, history
  <1> QED
    BY <1>1, <1>2, <1>3, <1>4, <1>5, <1>6, Cases

\* A step adds no row, or one for a question that its sync has not found.
LEMMA RowNext ==
  ASSUME ConstantsOK, TypeOK, OneQuestion, [Next]_vars
  PROVE  \/ \A id, q : Row(id, q)' => Row(id, q)
         \/ \E s \in Syncs, new \in Ids :
              /\ Process(s) /\ Entry(s).question \notin DOMAIN existing[s]
              /\ \A id, q : Row(id, q)' => Row(id, q) \/ (id = new /\ q = Entry(s).question)
  <1> DEFINE RowNow(id, q) ==
               \/ id \in DOMAIN table' /\ table'[id].question = q
               \/ \E s \in Syncs : id \in DOMAIN written'[s] /\ written'[s][id].question = q
             Same == \A id, q : RowNow(id, q) => Row(id, q)
             More == \E s \in Syncs, new \in Ids :
                       /\ Process(s) /\ Entry(s).question \notin DOMAIN existing[s]
                       /\ \A id, q : RowNow(id, q) => Row(id, q) \/ (id = new /\ q = Entry(s).question)
  <1>1. \A id, q : Row(id, q)' <=> RowNow(id, q)
    BY DEF Row
  <1>2. ASSUME NEW s \in Syncs, NEW entries \in Files, Begin(s, entries) PROVE Same
    BY <1>2 DEF Begin, Row
  <1>3. ASSUME NEW s \in Syncs, Notes(s) PROVE Same
    BY <1>3, NotesNothing DEF Row
  <1>4. ASSUME NEW s \in Syncs, UpdateEntry(s) \/ CreateEntry(s) PROVE Same \/ More
    <2>0. UNCHANGED table /\ Process(s) /\ \A r \in Syncs : r # s => written'[r] = written[r]
      BY <1>4, WritesOne
    <2>1. CASE written'[s] = written[s]
      BY <2>0, <2>1 DEF Row
    <2>2. CASE written'[s] # written[s]
      <3>1. PICK id \in Ids :
              /\ DOMAIN written'[s] = DOMAIN written[s] \cup {id}
              /\ written'[s][id] = Entry(s)
              /\ \A x \in DOMAIN written[s] : x # id => written'[s][x] = written[s][x]
              /\ \/ id \in DOMAIN table /\ table[id].question = Entry(s).question
                 \/ Entry(s).question \notin DOMAIN existing[s]
        BY <1>4, <2>2, WritesOne
      <3>2. \A x, q : RowNow(x, q) => Row(x, q) \/ (x = id /\ q = Entry(s).question)
        BY <2>0, <3>1 DEF Row
      <3>3. CASE Entry(s).question \notin DOMAIN existing[s]
        <4> HIDE DEF RowNow
        <4> QED
          BY <2>0, <3>2, <3>3
      <3>4. CASE id \in DOMAIN table /\ table[id].question = Entry(s).question
        <4>1. Row(id, Entry(s).question)
          BY <3>4 DEF Row
        <4> HIDE DEF RowNow
        <4> QED
          BY <3>2, <4>1
      <3> QED
        BY <3>1, <3>3, <3>4
    <2> QED
      BY <2>1, <2>2
  <1>5. ASSUME NEW s \in Syncs, Commit(s) \/ RollBack(s) PROVE Same
    <2>1. written'[s] = NoMap /\ \A r \in Syncs : r # s => written'[r] = written[r]
      BY <1>5, Finishes, Ended
    <2>2. \A id \in DOMAIN table' :
            \/ id \in DOMAIN table /\ table'[id].question = table[id].question
            \/ id \in DOMAIN written[s] /\ table'[id].question = written[s][id].question
      BY <1>5, Finishes
    <2> QED
      BY <2>1, <2>2, NoMapType DEF Row
  <1>6. ASSUME NEW id \in Ids, Trigger(id) PROVE Same
    BY <1>6, TriggerKeeps DEF Row, locals
  <1>7. ASSUME UNCHANGED vars PROVE Same
    <2>1. UNCHANGED <<table, written>>
      BY <1>7 DEF vars, locals
    <2> QED
      BY <2>1 DEF Row
  <1> HIDE DEF RowNow
  <1>8. Same \/ More
    <2> HIDE DEF Same, More
    <2> QED
      BY <1>2, <1>3, <1>4, <1>5, <1>6, <1>7, Cases
  <1> QED
    BY <1>1, <1>8

LEMMA OneRowNext ==
  /\ ConstantsOK /\ TypeOK /\ OneQuestion /\ OneRow /\ Progress /\ Shared
  /\ [Next]_vars
  => OneRow'
  <1> SUFFICES ASSUME ConstantsOK, TypeOK, OneQuestion, OneRow, Progress, Shared, [Next]_vars,
                      NEW id, NEW other, NEW q,
                      Row(id, q)', Row(other, q)', id # other
               PROVE  q \in twice
    BY TwiceGrows DEF OneRow
  <1>1. CASE \A x, p : Row(x, p)' => Row(x, p)
    BY <1>1 DEF OneRow
  <1>2. ASSUME NEW s \in Syncs, NEW new \in Ids, Process(s), Entry(s).question \notin DOMAIN existing[s],
               \A x, p : Row(x, p)' => Row(x, p) \/ (x = new /\ p = Entry(s).question)
        PROVE  q \in twice
    <2> DEFINE e == Entry(s).question
    <2>1. ASSUME NEW x, Row(x, e) PROVE e \in twice
      <3>1. e \in Asked(config[s])
        <4>1. Asked(config[s]) = {Head(config[s]).question} \cup Asked(Tail(config[s]))
          BY <1>2, Processed, HeadAndTail
        <4> QED
          BY <4>1 DEF Entry
      <3>2. e \in Asked(file[s])
        BY <3>1 DEF Progress, Reads
      <3> HIDE DEF e
      <3>3. CASE x \in DOMAIN table /\ table[x].question = e
        <4>1. e \in DOMAIN existing[s] \cup twice
          BY <3>2, <3>3 DEF Shared
        <4> QED
          BY <1>2, <4>1 DEF e
      <3>4. ASSUME NEW r \in Syncs, x \in DOMAIN written[r], written[r][x].question = e
            PROVE  e \in twice
        <4>1. written[r][x] \in Range(file[r]) /\ e \in processed[r]
          BY <3>4 DEF Progress, Writes
        <4>2. e \in Asked(file[r])
          BY <3>4, <4>1 DEF Asked
        <4>3. CASE r # s
          BY <3>2, <4>2, <4>3 DEF Shared
        <4>4. CASE r = s
          BY <3>1, <4>1, <4>4 DEF Progress, Reads
        <4> QED
          BY <4>3, <4>4
      <3> QED
        BY <2>1, <3>3, <3>4 DEF Row
    <2>2. /\ Row(id, q) \/ (id = new /\ q = e)
          /\ Row(other, q) \/ (other = new /\ q = e)
      BY <1>2
    <2> HIDE DEF e
    <2> QED
      BY <2>1, <2>2 DEF OneRow
  <1> QED
    BY <1>1, <1>2, RowNext

-----------------------------------------------------------------------------
(* How far a sync is.                                                      *)

LocalsOf(s) == <<pc[s], config[s], file[s], existing[s], processed[s], written[s], deleted[s],
                 aborted[s], errors[s]>>

\* Only its own steps change a sync.
LEMMA OwnSteps ==
  ASSUME ConstantsOK, TypeOK, OneQuestion, [Next]_vars, NEW s \in Syncs
  PROVE  \/ UNCHANGED LocalsOf(s)
         \/ \E entries \in Files : Begin(s, entries)
         \/ Notes(s) \/ UpdateEntry(s) \/ CreateEntry(s) \/ Commit(s) \/ RollBack(s)
  <1>1. ASSUME NEW r \in Syncs, r # s, NEW entries \in Files, Begin(r, entries)
        PROVE  UNCHANGED LocalsOf(s)
    BY <1>1, Begins DEF LocalsOf
  <1>2. ASSUME NEW r \in Syncs, r # s, Notes(r) PROVE UNCHANGED LocalsOf(s)
    <2>1. ASSUME NEW id \in Ids, DeleteEntry(r, id) PROVE UNCHANGED LocalsOf(s)
      BY <1>2, <2>1 DEF DeleteEntry, LocalsOf, TypeOK
    <2>2. CASE EmbeddingFails(r) \/ WriteFails(r)
      BY <1>2, <2>2, Proceeds DEF EmbeddingFails, WriteFails, LocalsOf, TypeOK
    <2>3. CASE EntriesDone(r) \/ DeleteFails(r)
      BY <1>2, <2>3 DEF EntriesDone, DeleteFails, LocalsOf, locals, TypeOK
    <2> QED
      BY <1>2, <2>1, <2>2, <2>3 DEF Notes
  <1>3. ASSUME NEW r \in Syncs, r # s, UpdateEntry(r) \/ CreateEntry(r) PROVE UNCHANGED LocalsOf(s)
    <2>1. /\ Process(r) /\ written'[s] = written[s]
          /\ UNCHANGED <<existing, deleted, pc, aborted, errors, file>>
      BY <1>3, WritesOne
    <2> QED
      BY <1>3, <2>1, Proceeds DEF LocalsOf
  <1>4. ASSUME NEW r \in Syncs, r # s, Commit(r) \/ RollBack(r) PROVE UNCHANGED LocalsOf(s)
    <2>1. End(r)
      BY <1>4, Finishes
    <2> QED
      BY <1>4, <2>1, Ended DEF LocalsOf
  <1>5. ASSUME NEW id \in Ids, Trigger(id) PROVE UNCHANGED LocalsOf(s)
    BY <1>5, TriggerKeeps DEF LocalsOf, locals
  <1>6. ASSUME UNCHANGED vars PROVE UNCHANGED LocalsOf(s)
    BY <1>6 DEF LocalsOf, vars, locals
  <1> HIDE DEF LocalsOf
  <1> QED
    BY <1>1, <1>2, <1>3, <1>4, <1>5, <1>6, Cases

LEMMA FieldsNext ==
  ASSUME ConstantsOK, TypeOK, OneQuestion, [Next]_vars, NEW s \in Syncs, Fields(s)
  PROVE  Fields(s)'
  <1> USE DEF Fields, Obsolete
  <1>0. /\ pc \in [Syncs -> {"idle", "entries", "deletes"}]
        /\ deleted \in [Syncs -> SUBSET Ids]
        /\ aborted \in [Syncs -> BOOLEAN] /\ errors \in [Syncs -> BOOLEAN]
    BY DEF TypeOK
  <1>1. CASE UNCHANGED LocalsOf(s)
    BY <1>1 DEF LocalsOf
  <1>2. ASSUME NEW entries \in Files, Begin(s, entries) PROVE Fields(s)'
    <2>1. /\ pc[s] = "idle" /\ pc'[s] = "entries"
          /\ UNCHANGED <<deleted, aborted, errors>>
      BY <1>2, Begins
    <2> QED
      BY <2>1
  <1>3. CASE EmbeddingFails(s) \/ WriteFails(s)
    <2>1. /\ pc[s] = "entries" /\ pc' = pc /\ deleted' = deleted /\ errors'[s] = TRUE
      BY <1>0, <1>3, Processed DEF EmbeddingFails, WriteFails
    <2> QED
      BY <2>1
  <1>4. CASE EntriesDone(s)
    <2>1. /\ pc[s] = "entries" /\ config[s] = <<>> /\ pc'[s] = "deletes"
          /\ UNCHANGED <<config, deleted, aborted, errors, existing, processed>>
      BY <1>0, <1>4 DEF EntriesDone, locals
    <2> QED
      BY <2>1
  <1>5. ASSUME NEW id \in Ids, DeleteEntry(s, id) PROVE Fields(s)'
    <2>1. /\ pc[s] = "deletes" /\ pc' = pc /\ deleted'[s] = deleted[s] \cup {id}
          /\ id \in Obsolete(s)
          /\ UNCHANGED <<config, aborted, errors, existing, processed>>
      BY <1>0, <1>5 DEF DeleteEntry
    <2> QED
      BY <2>1
  <1>6. CASE DeleteFails(s)
    <2>1. /\ pc[s] = "deletes" /\ pc' = pc /\ errors'[s] = TRUE
          /\ UNCHANGED <<config, deleted, existing, processed>>
      BY <1>0, <1>6 DEF DeleteFails
    <2> QED
      BY <2>1
  <1>7. CASE UpdateEntry(s) \/ CreateEntry(s)
    <2>1. pc[s] = "entries" /\ UNCHANGED <<pc, deleted, aborted, errors>>
      BY <1>7, WritesOne, Processed
    <2> QED
      BY <2>1
  <1>8. CASE Commit(s) \/ RollBack(s)
    <2>1. /\ pc'[s] = "idle" /\ config'[s] = <<>> /\ file'[s] = <<>>
          /\ existing'[s] = NoMap /\ processed'[s] = {} /\ written'[s] = NoMap
          /\ deleted'[s] = {} /\ aborted'[s] = FALSE /\ errors'[s] = FALSE
      BY <1>8, Finishes, Ended
    <2> QED
      BY <2>1
  <1> QED
    BY <1>1, <1>2, <1>3, <1>4, <1>5, <1>6, <1>7, <1>8, OwnSteps DEF Notes

\* What an entry that is processed leaves.
LEMMA ReadsOn ==
  ASSUME TypeOK, NEW s \in Syncs, Reads(s), Process(s), twice \subseteq twice', file'[s] = file[s]
  PROVE  Reads(s)'
  <1> DEFINE c == config[s]
             e == Head(c)
  <1>1. /\ Range(Tail(c)) \subseteq Range(c)
        /\ Asked(c) = {e.question} \cup Asked(Tail(c))
        /\ Repeated(Tail(c)) \subseteq Repeated(c)
        /\ e.question \in Asked(Tail(c)) => e.question \in Repeated(c)
    BY Processed, HeadAndTail
  <1>2. config'[s] = Tail(c) /\ processed'[s] = processed[s] \cup {e.question}
    BY Proceeds DEF Entry
  <1>3. /\ Asked(file[s]) = processed[s] \cup Asked(c)
        /\ Range(c) \subseteq Range(file[s])
        /\ processed[s] \cap Asked(c) \subseteq twice
        /\ Repeated(c) \subseteq twice
    BY DEF Reads
  <1> HIDE DEF c, e
  <1>4. processed'[s] \cap Asked(Tail(c)) \subseteq twice'
    BY <1>1, <1>2, <1>3
  <1>5. Asked(file[s]) = processed'[s] \cup Asked(Tail(c))
    BY <1>1, <1>2, <1>3
  <1>6. Reads(s)' <=> /\ Asked(file'[s]) = processed'[s] \cup Asked(config'[s])
                      /\ Range(config'[s]) \subseteq Range(file'[s])
                      /\ processed'[s] \cap Asked(config'[s]) \subseteq twice'
                      /\ Repeated(config'[s]) \subseteq twice'
    BY DEF Reads, Asked, Range, Repeated
  <1> QED
    BY <1>1, <1>2, <1>3, <1>4, <1>5, <1>6

LEMMA ReadsNext ==
  ASSUME ConstantsOK, TypeOK, OneQuestion, [Next]_vars, NEW s \in Syncs, Reads(s), Fields(s)
  PROVE  Reads(s)'
  <1> DEFINE ReadsNow ==
               /\ Asked(file'[s]) = processed'[s] \cup Asked(config'[s])
               /\ Range(config'[s]) \subseteq Range(file'[s])
               /\ processed'[s] \cap Asked(config'[s]) \subseteq twice'
               /\ Repeated(config'[s]) \subseteq twice'
  <1>0. Reads(s)' <=> ReadsNow
    BY DEF Reads, Asked, Range, Repeated
  <1>1. CASE UNCHANGED <<config[s], file[s], processed[s]>>
    BY <1>0, <1>1, TwiceGrows DEF Reads
  <1>2. ASSUME NEW entries \in Files, Begin(s, entries) PROVE Reads(s)'
    <2>1. /\ config'[s] = entries /\ file'[s] = entries /\ processed'[s] = {}
          /\ Repeated(entries) \subseteq twice'
      BY <1>2, Begins DEF Fields
    <2> QED
      BY <1>0, <2>1
  <1>3. CASE Notes(s)
    <2>1. file'[s] = file[s] /\ (Process(s) \/ UNCHANGED <<config, processed>>)
      BY <1>3, NotesNothing
    <2> QED
      BY <1>1, <2>1, ReadsOn, TwiceGrows
  <1>4. CASE UpdateEntry(s) \/ CreateEntry(s)
    <2>1. file'[s] = file[s] /\ Process(s)
      BY <1>4, WritesOne
    <2> QED
      BY <2>1, ReadsOn, TwiceGrows
  <1>5. CASE Commit(s) \/ RollBack(s)
    <2>1. config'[s] = <<>> /\ file'[s] = <<>> /\ processed'[s] = {}
      BY <1>5, Finishes, Ended
    <2>2. Asked(<<>>) = {} /\ Repeated(<<>>) = {}
      BY DEF Asked, Range, Repeated
    <2> QED
      BY <1>0, <2>1, <2>2
  <1>6. CASE UNCHANGED LocalsOf(s)
    BY <1>1, <1>6 DEF LocalsOf
  <1> QED
    BY <1>2, <1>3, <1>4, <1>5, <1>6, OwnSteps

LEMMA WritesNext ==
  ASSUME ConstantsOK, TypeOK, OneQuestion, [Next]_vars, NEW s \in Syncs,
         Reads(s), Fields(s), Writes(s)
  PROVE  Writes(s)'
  <1> DEFINE WritesNow ==
               \A id \in DOMAIN written'[s] :
                 written'[s][id] \in Range(file'[s]) /\ written'[s][id].question \in processed'[s]
  <1>0. Writes(s)' <=> WritesNow
    BY DEF Writes, Range
  <1>1. CASE UNCHANGED LocalsOf(s)
    BY <1>0, <1>1 DEF LocalsOf, Writes
  <1>2. ASSUME NEW entries \in Files, Begin(s, entries) PROVE Writes(s)'
    <2>1. DOMAIN written'[s] = {}
      BY <1>2, Begins, NoMapType DEF Fields
    <2> QED
      BY <1>0, <2>1
  <1>3. CASE Notes(s)
    <2>1. UNCHANGED <<written, file>> /\ (Process(s) \/ processed' = processed)
      BY <1>3, NotesNothing
    <2>2. processed[s] \subseteq processed'[s]
      BY <2>1, Proceeds
    <2> QED
      BY <1>0, <2>1, <2>2 DEF Writes
  <1>4. CASE UpdateEntry(s) \/ CreateEntry(s)
    <2>1. /\ Process(s) /\ file' = file
          /\ processed'[s] = processed[s] \cup {Entry(s).question}
      BY <1>4, WritesOne, Proceeds
    <2>2. \A id \in DOMAIN written'[s] :
            \/ written'[s][id] = Entry(s)
            \/ id \in DOMAIN written[s] /\ written'[s][id] = written[s][id]
      BY <1>4, WritesOne
    <2>3. Entry(s) \in Range(file[s])
      BY <2>1, Processed, HeadAndTail DEF Reads
    <2> QED
      BY <1>0, <2>1, <2>2, <2>3 DEF Writes
  <1>5. CASE Commit(s) \/ RollBack(s)
    <2>1. DOMAIN written'[s] = {}
      BY <1>5, Finishes, Ended, NoMapType
    <2> QED
      BY <1>0, <2>1
  <1> QED
    BY <1>1, <1>2, <1>3, <1>4, <1>5, OwnSteps

LEMMA ProgressNext ==
  ConstantsOK /\ TypeOK /\ OneQuestion /\ Progress /\ [Next]_vars => Progress'
  BY FieldsNext, ReadsNext, WritesNext DEF Progress

LEMMA SharedNext ==
  ConstantsOK /\ TypeOK /\ OneQuestion /\ Progress /\ Shared /\ [Next]_vars => Shared'
  <1> SUFFICES ASSUME ConstantsOK, TypeOK, OneQuestion, Progress, Shared, [Next]_vars
               PROVE  Shared'
    OBVIOUS
  <1> DEFINE Apart(s, r) == Asked(file'[s]) \cap Asked(file'[r]) \subseteq twice'
             Finds(s, id) == table'[id].question \in Asked(file'[s]) =>
                               table'[id].question \in DOMAIN existing'[s] \cup twice'
  <1> SUFFICES /\ \A s, r \in Syncs : s # r => Apart(s, r)
               /\ \A s \in Syncs : \A id \in DOMAIN table' : Finds(s, id)
    BY DEF Shared, Asked, Range
  <1>0. /\ \A s, r \in Syncs : s # r => Asked(file[s]) \cap Asked(file[r]) \subseteq twice'
        /\ \A s \in Syncs : \A id \in DOMAIN table :
             table[id].question \in Asked(file[s]) =>
               table[id].question \in DOMAIN existing[s] \cup twice'
    BY TwiceGrows DEF Shared
  <1>a. Asked(<<>>) = {}
    BY DEF Asked, Range
  <1>1. ASSUME UNCHANGED <<file, existing>>, DOMAIN table' = DOMAIN table,
               \A id \in DOMAIN table : table'[id].question = table[id].question
        PROVE  /\ \A s, r \in Syncs : s # r => Apart(s, r)
               /\ \A s \in Syncs : \A id \in DOMAIN table' : Finds(s, id)
    BY <1>0, <1>1
  <1>2. ASSUME NEW t \in Syncs, NEW entries \in Files, Begin(t, entries)
        PROVE  /\ \A s, r \in Syncs : s # r => Apart(s, r)
               /\ \A s \in Syncs : \A id \in DOMAIN table' : Finds(s, id)
    <2>1. /\ file'[t] = entries /\ table' = table
          /\ \A r \in Syncs : r # t => file'[r] = file[r] /\ existing'[r] = existing[r]
          /\ \A id \in DOMAIN table : table[id].question \in DOMAIN existing'[t]
          /\ \A r \in Running : Asked(entries) \cap Asked(file[r]) \subseteq twice'
      BY <1>2, Begins
    <2>2. \A r \in Syncs : r \notin Running => Asked(file[r]) = {}
      BY <1>a DEF Progress, Fields, Running
    <2>3. \A r \in Syncs : r # t => Asked(entries) \cap Asked(file'[r]) \subseteq twice'
      BY <2>1, <2>2
    <2>4. ASSUME NEW s \in Syncs, NEW r \in Syncs, s # r PROVE Apart(s, r)
      <3>1. CASE s = t
        BY <2>1, <2>3, <2>4, <3>1
      <3>2. CASE r = t
        BY <2>1, <2>3, <2>4, <3>2
      <3>3. CASE s # t /\ r # t
        BY <1>0, <2>1, <2>4, <3>3
      <3> QED
        BY <3>1, <3>2, <3>3
    <2>5. ASSUME NEW s \in Syncs, NEW id \in DOMAIN table' PROVE Finds(s, id)
      <3>1. CASE s = t
        BY <2>1, <3>1
      <3>2. CASE s # t
        BY <1>0, <2>1, <3>2
      <3> QED
        BY <3>1, <3>2
    <2> QED
      BY <2>4, <2>5
  <1>3. ASSUME NEW t \in Syncs, Commit(t) \/ RollBack(t)
        PROVE  /\ \A s, r \in Syncs : s # r => Apart(s, r)
               /\ \A s \in Syncs : \A id \in DOMAIN table' : Finds(s, id)
    <2>1. /\ Asked(file'[t]) = {}
          /\ \A r \in Syncs : r # t => file'[r] = file[r] /\ existing'[r] = existing[r]
      BY <1>3, <1>a, Finishes, Ended
    <2>2. \A id \in DOMAIN table' :
            \/ id \in DOMAIN table /\ table'[id].question = table[id].question
            \/ id \in DOMAIN written[t] /\ table'[id].question = written[t][id].question
      BY <1>3, Finishes
    <2>3. \A id \in DOMAIN written[t] : written[t][id].question \in Asked(file[t])
      BY DEF Progress, Writes, Asked
    <2>4. ASSUME NEW s \in Syncs, NEW id \in DOMAIN table' PROVE Finds(s, id)
      <3>1. CASE s = t
        BY <2>1, <3>1
      <3>2. CASE s # t /\ id \in DOMAIN table /\ table'[id].question = table[id].question
        BY <1>0, <2>1, <3>2
      <3>3. CASE s # t /\ id \in DOMAIN written[t] /\ table'[id].question = written[t][id].question
        <4>1. Asked(file[s]) \cap Asked(file[t]) \subseteq twice'
          BY <1>0, <3>3
        <4> QED
          BY <2>1, <2>3, <3>3, <4>1
      <3> QED
        BY <2>2, <3>1, <3>2, <3>3
    <2> QED
      BY <1>0, <2>1, <2>4
  <1>4. ASSUME NEW t \in Syncs, Notes(t) \/ UpdateEntry(t) \/ CreateEntry(t)
        PROVE  UNCHANGED <<file, existing, table>>
    BY <1>4, NotesNothing, WritesOne
  <1>5. ASSUME NEW id \in Ids, Trigger(id)
        PROVE  /\ UNCHANGED <<file, existing>> /\ DOMAIN table' = DOMAIN table
               /\ \A x \in DOMAIN table : table'[x].question = table[x].question
    BY <1>5, TriggerKeeps DEF locals
  <1>6. ASSUME UNCHANGED vars PROVE UNCHANGED <<file, existing, table>>
    BY <1>6 DEF vars, locals
  <1> HIDE DEF Apart, Finds
  <1> QED
    BY <1>1, <1>2, <1>3, <1>4, <1>5, <1>6, Cases

-----------------------------------------------------------------------------
(* A sync that runs alone.                                                 *)

AloneSync(s) ==
  /\ Running = {s}
  /\ \A id \in DOMAIN table : table[id].question \in DOMAIN existing[s]
  /\ \A q \in DOMAIN existing[s] : existing[s][q] \in DOMAIN table

Written(s) ==
  ~ errors[s] =>
    \A q \in processed[s] :
      /\ \E id \in DOMAIN written[s] : written[s][id].question = q
      /\ q \in DOMAIN existing[s] => existing[s][q] \in DOMAIN written[s]

\* A sync that runs alone after a step has begun with it or has run alone before.
LEMMA AloneBefore ==
  ASSUME ConstantsOK, TypeOK, OneQuestion, [Next]_vars, NEW s \in Running', alone'[s]
  PROVE  \/ \E entries \in Files : Begin(s, entries) /\ Running = {}
         \/ s \in Running /\ alone[s]
  <1>0. s \in Syncs /\ pc'[s] # "idle"
    BY DEF Running
  <1>1. ASSUME NEW t \in Syncs, NEW entries \in Files, Begin(t, entries)
        PROVE  \/ Begin(s, entries) /\ Running = {}
               \/ s \in Running /\ alone[s]
    <2>1. CASE s = t
      BY <1>0, <1>1, <2>1, Begins
    <2>2. CASE s # t
      BY <1>0, <1>1, <2>2, Begins DEF Running
    <2> QED
      BY <2>1, <2>2
  <1>2. ASSUME NEW t \in Syncs, Notes(t) PROVE s \in Running /\ alone[s]
    BY <1>0, <1>2, NotesNothing DEF Running, history
  <1>3. ASSUME NEW t \in Syncs, UpdateEntry(t) \/ CreateEntry(t) PROVE s \in Running /\ alone[s]
    BY <1>0, <1>3, WritesOne DEF Running, history
  <1>4. ASSUME NEW t \in Syncs, Commit(t) \/ RollBack(t) PROVE s \in Running /\ alone[s]
    BY <1>0, <1>4, Finishes, Ended DEF Running, history
  <1>5. ASSUME NEW id \in Ids, Trigger(id) PROVE s \in Running /\ alone[s]
    BY <1>0, <1>5, TriggerKeeps DEF Running, history
  <1>6. ASSUME UNCHANGED vars PROVE s \in Running /\ alone[s]
    BY <1>0, <1>6 DEF Running, history, vars
  <1> QED
    BY <1>1, <1>2, <1>3, <1>4, <1>5, <1>6, Cases

\* While a sync runs alone only its own steps and triggers happen.
LEMMA AloneSteps ==
  ASSUME ConstantsOK, TypeOK, OneQuestion, [Next]_vars, NEW s \in Running, alone[s],
         s \in Running', alone'[s], Running = {s}
  PROVE  \/ Notes(s) \/ UpdateEntry(s) \/ CreateEntry(s)
         \/ \E id \in Ids : Trigger(id)
         \/ UNCHANGED vars
  <1>0. s \in Syncs /\ pc'[s] # "idle" /\ \A t \in Syncs : pc[t] # "idle" => t = s
    BY DEF Running
  <1>1. ASSUME NEW t \in Syncs, NEW entries \in Files, Begin(t, entries) PROVE FALSE
    <2>1. pc[t] = "idle" /\ (t # s => alone'[s] = (alone[s] /\ s \notin Running))
      BY <1>0, <1>1, Begins
    <2> QED
      BY <2>1 DEF Running
  <1>2. ASSUME NEW t \in Syncs, Commit(t) \/ RollBack(t) PROVE FALSE
    BY <1>0, <1>2, Finishes, Ended
  <1>3. ASSUME NEW t \in Syncs, Notes(t) \/ UpdateEntry(t) \/ CreateEntry(t) PROVE t = s
    BY <1>0, <1>3, NotesNothing, WritesOne, Processed
  <1> QED
    BY <1>1, <1>2, <1>3, Cases

LEMMA AloneSyncNext ==
  ASSUME ConstantsOK, TypeOK, OneQuestion, [Next]_vars, NEW s \in Running, alone[s],
         s \in Running', alone'[s], AloneSync(s)
  PROVE  AloneSync(s)'
  <1>0. s \in Syncs /\ Running = {s}
    BY DEF Running, AloneSync
  <1>1. ASSUME \A t \in Syncs : pc'[t] = "idle" <=> pc[t] = "idle", existing' = existing,
               DOMAIN table' = DOMAIN table,
               \A id \in DOMAIN table : table'[id].question = table[id].question
        PROVE  AloneSync(s)'
    <2>1. Running' = Running
      BY <1>1 DEF Running
    <2> QED
      BY <1>1, <2>1 DEF AloneSync
  <1>2. CASE Notes(s)
    BY <1>0, <1>1, <1>2, NotesNothing
  <1>3. CASE UpdateEntry(s) \/ CreateEntry(s)
    BY <1>0, <1>1, <1>3, WritesOne
  <1>4. ASSUME NEW id \in Ids, Trigger(id) PROVE AloneSync(s)'
    BY <1>1, <1>4, TriggerKeeps DEF locals
  <1>5. ASSUME UNCHANGED vars PROVE AloneSync(s)'
    <2>1. UNCHANGED <<table, pc, existing>>
      BY <1>5 DEF vars, locals
    <2> QED
      BY <1>1, <2>1
  <1> QED
    BY <1>0, <1>2, <1>3, <1>4, <1>5, AloneSteps

LEMMA WrittenNext ==
  ASSUME ConstantsOK, TypeOK, OneQuestion, [Next]_vars, NEW s \in Running, alone[s],
         s \in Running', alone'[s], AloneSync(s), Written(s)
  PROVE  Written(s)'
  <1>0. s \in Syncs /\ Running = {s}
    BY DEF Running, AloneSync
  <1> DEFINE WrittenNow ==
               ~ errors'[s] =>
                 \A q \in processed'[s] :
                   /\ \E id \in DOMAIN written'[s] : written'[s][id].question = q
                   /\ q \in DOMAIN existing'[s] => existing'[s][q] \in DOMAIN written'[s]
  <1> SUFFICES WrittenNow
    BY DEF Written
  <1>1. ASSUME UNCHANGED <<processed, written, existing>>, errors[s] => errors'[s] PROVE WrittenNow
    BY <1>1 DEF Written
  <1>2. CASE EmbeddingFails(s) \/ WriteFails(s) \/ DeleteFails(s)
    <2>1. errors'[s] = TRUE
      BY <1>0, <1>2 DEF EmbeddingFails, WriteFails, DeleteFails, TypeOK
    <2> QED
      BY <2>1
  <1>3. CASE EntriesDone(s) \/ \E id \in Ids : DeleteEntry(s, id)
    <2>1. UNCHANGED <<processed, written, existing, errors>>
      BY <1>3 DEF EntriesDone, DeleteEntry, locals
    <2> QED
      BY <1>1, <2>1
  <1>4. CASE UpdateEntry(s) \/ CreateEntry(s)
    <2> DEFINE e == Entry(s)
    <2>1. /\ UNCHANGED <<existing, errors>> /\ Process(s)
          /\ processed'[s] = processed[s] \cup {e.question}
      BY <1>0, <1>4, WritesOne, Proceeds
    <2>2. PICK id : /\ DOMAIN written'[s] = DOMAIN written[s] \cup {id}
                    /\ written'[s][id] = e
                    /\ \A x \in DOMAIN written[s] : x # id => written'[s][x] = written[s][x]
                    /\ \/ e.question \in DOMAIN existing[s] /\ id = existing[s][e.question]
                       \/ e.question \notin DOMAIN existing[s] /\ id \notin Used
      BY <1>0, <1>4, WritesOne DEF AloneSync
    <2>3. id \in DOMAIN written[s] => written[s][id].question = e.question
      <3>1. CASE e.question \in DOMAIN existing[s] /\ id = existing[s][e.question]
        <4>1. Known(id, e.question)
          BY <1>0, <3>1 DEF Known
        <4>2. id \in DOMAIN written[s] => Known(id, written[s][id].question)
          BY <1>0 DEF Known
        <4> QED
          BY <4>1, <4>2 DEF OneQuestion
      <3>2. CASE id \notin Used
        BY <1>0, <3>2 DEF Used
      <3> QED
        BY <2>2, <3>1, <3>2
    <2> HIDE DEF e
    <2>4. ASSUME ~ errors'[s], NEW q \in processed'[s]
          PROVE  /\ \E x \in DOMAIN written'[s] : written'[s][x].question = q
                 /\ q \in DOMAIN existing'[s] => existing'[s][q] \in DOMAIN written'[s]
      <3>1. CASE q = e.question
        BY <2>1, <2>2, <3>1
      <3>2. CASE q # e.question
        <4>1. q \in processed[s] /\ ~ errors[s]
          BY <2>1, <2>4, <3>2
        <4>2. PICK x \in DOMAIN written[s] : written[s][x].question = q
          BY <4>1 DEF Written
        <4>3. written'[s][x].question = q /\ x \in DOMAIN written'[s]
          BY <2>2, <2>3, <3>2, <4>2
        <4>4. q \in DOMAIN existing[s] => existing[s][q] \in DOMAIN written[s]
          BY <4>1 DEF Written
        <4> QED
          BY <2>1, <2>2, <4>3, <4>4
      <3> QED
        BY <3>1, <3>2
    <2> QED
      BY <2>4
  <1>5. ASSUME NEW id \in Ids, Trigger(id) PROVE WrittenNow
    BY <1>1, <1>5, TriggerKeeps DEF locals
  <1>6. ASSUME UNCHANGED vars PROVE WrittenNow
    <2>1. UNCHANGED <<processed, written, existing, errors>>
      BY <1>6 DEF vars, locals
    <2> QED
      BY <1>1, <2>1
  <1> HIDE DEF WrittenNow
  <1> QED
    BY <1>0, <1>2, <1>3, <1>4, <1>5, <1>6, AloneSteps DEF Notes

LEMMA AloneNext ==
  ConstantsOK /\ TypeOK /\ OneQuestion /\ Progress /\ Alone /\ [Next]_vars => Alone'
  <1> SUFFICES ASSUME ConstantsOK, TypeOK, OneQuestion, Progress, Alone, [Next]_vars,
                      NEW s \in Running', alone'[s]
               PROVE  AloneSync(s)' /\ Written(s)'
    BY DEF Alone, AloneSync, Written
  <1>1. ASSUME NEW entries \in Files, Begin(s, entries), Running = {}
        PROVE  AloneSync(s)' /\ Written(s)'
    <2>0. s \in Syncs
      BY DEF Running
    <2>1. /\ pc'[s] = "entries" /\ \A r \in Syncs : r # s => pc'[r] = pc[r]
          /\ \A id \in DOMAIN table : table[id].question \in DOMAIN existing'[s]
          /\ \A q \in DOMAIN existing'[s] : existing'[s][q] \in DOMAIN table
          /\ UNCHANGED <<table, processed>> /\ pc[s] = "idle"
      BY <1>1, <2>0, Begins
    <2>2. Running' = {s}
      BY <1>1, <2>0, <2>1 DEF Running
    <2>3. processed'[s] = {}
      BY <2>0, <2>1 DEF Progress, Fields
    <2> QED
      BY <2>1, <2>2, <2>3 DEF AloneSync, Written
  <1>2. CASE s \in Running /\ alone[s]
    <2>1. AloneSync(s) /\ Written(s)
      BY <1>2 DEF Alone, AloneSync, Written
    <2> QED
      BY <1>2, <2>1, AloneSyncNext, WrittenNext
  <1> QED
    BY <1>1, <1>2, AloneBefore

-----------------------------------------------------------------------------
LEMMA InvInit == Init => Inv
  <1> SUFFICES ASSUME Init PROVE Inv
    OBVIOUS
  <1>0. ConstantsOK
    BY ConstantsAssumption
  <1>1. TypeOK
    <2>1. NoMap \in Maps(Ids, Rows) /\ NoMap \in Maps(Questions, Ids) /\ NoMap \in Maps(Ids, Entries)
      BY NoMapType
    <2> QED
      BY <1>0, <2>1 DEF Init, TypeOK, ConstantsOK
  <1>2. Running = {} /\ DOMAIN table = {}
    BY NoMapType DEF Init, Running
  <1>3. Asked(<<>>) = {} /\ Repeated(<<>>) = {} /\ Range(<<>>) = {}
    BY DEF Asked, Range, Repeated
  <1>4. \A s \in Syncs :
          /\ config[s] = <<>> /\ file[s] = <<>> /\ processed[s] = {} /\ deleted[s] = {}
          /\ written[s] = NoMap /\ existing[s] = NoMap /\ pc[s] = "idle"
          /\ ~ aborted[s] /\ ~ errors[s]
    BY DEF Init
  <1>5. OneQuestion /\ OneRow
    BY <1>2, <1>4, NoMapType DEF OneQuestion, OneRow, Known, Row
  <1>6. Progress
    BY <1>3, <1>4, NoMapType DEF Progress, Fields, Reads, Writes, Obsolete
  <1>7. Shared /\ Alone
    BY <1>2, <1>3, <1>4 DEF Shared, Alone
  <1> QED
    BY <1>0, <1>1, <1>5, <1>6, <1>7 DEF Inv

LEMMA InvNext == Inv /\ [Next]_vars => Inv'
  <1> SUFFICES ASSUME Inv, [Next]_vars PROVE Inv'
    OBVIOUS
  <1>1. ConstantsOK'
    BY DEF Inv, ConstantsOK
  <1> QED
    BY <1>1, TypeNext, OneQuestionNext, OneRowNext, ProgressNext, SharedNext, AloneNext DEF Inv

(* The fields of a sync and the rows of the table have their types.        *)
THEOREM TypeCorrect == Spec => []TypeOK
  <1>1. Inv => TypeOK
    BY DEF Inv
  <1> QED
    BY <1>1, InvInit, InvNext, PTL DEF Spec

\* What a sync deletes it has found, and its file does not ask for it.
LEMMA DeletesUnasked ==
  ASSUME Inv, NEW s \in Syncs, pc[s] = "deletes", NEW id \in deleted[s]
  PROVE  \E q \in DOMAIN existing[s] : /\ existing[s][q] = id /\ q \notin Asked(file[s])
                                       /\ Known(id, q)
  <1>1. PICK q \in DOMAIN existing[s] \ processed[s] : id = existing[s][q]
    BY DEF Inv, Progress, Fields, Obsolete
  <1>2. Asked(file[s]) = processed[s]
    <2>1. config[s] = <<>>
      BY DEF Inv, Progress, Fields
    <2>2. Asked(<<>>) = {}
      BY DEF Asked, Range
    <2> QED
      BY <2>1, <2>2 DEF Inv, Progress, Reads
  <1> QED
    BY <1>1, <1>2 DEF Known

(* A question that stays in the file keeps its row, and with it its        *)
(* cooldown.                                                               *)
THEOREM ConfiguredKept == Spec => ConfiguredIsKept
  <1> DEFINE Keeps(s) == Commits(s) =>
                \A id \in DOMAIN table : table[id].question \in Asked(file[s]) =>
                  id \in DOMAIN table' /\ table'[id].triggered = table[id].triggered
  <1>1. ASSUME Inv, NEW s \in Syncs PROVE Keeps(s)
    <2> SUFFICES ASSUME Commits(s), NEW id \in DOMAIN table, table[id].question \in Asked(file[s])
                 PROVE  id \in DOMAIN table' /\ table'[id].triggered = table[id].triggered
      OBVIOUS
    <2>1. id \notin deleted[s]
      <3> SUFFICES ASSUME id \in deleted[s] PROVE FALSE
        OBVIOUS
      <3>1. PICK q : q \notin Asked(file[s]) /\ Known(id, q)
        BY <1>1, DeletesUnasked DEF Commits
      <3>2. Known(id, table[id].question)
        BY DEF Known
      <3> QED
        BY <1>1, <3>1, <3>2 DEF Inv, OneQuestion
    <2>2. table' = Committed(s)
      BY DEF Commits
    <2> QED
      BY <1>1, <2>1, <2>2, AfterCommit DEF Inv
  <1>2. Inv /\ [Next]_vars => [\A s \in Syncs : Keeps(s)]_vars
    BY <1>1
  <1> QED
    BY <1>2, InvInit, InvNext, PTL DEF Spec, ConfiguredIsKept

(* A sync that reports no error and ran alone has left exactly the file in *)
(* the table, but for questions that a file repeated or that overlapping   *)
(* syncs shared.                                                           *)
THEOREM CleanSyncFull == Spec => CleanSyncIsFull
  <1> DEFINE rows == {[question |-> r.question, response |-> r.response] : r \in Range(table')}
             Full(s) == \A q \in Asked(file[s]) :
                          \E e \in Range(file[s]) : e.question = q /\ e \in rows
             Only(s) == \A r \in rows : r \in Range(file[s]) \/ r.question \in twice
  <1>1. ASSUME Inv, NEW s \in Syncs, Commits(s), ~ errors[s], alone[s]
        PROVE  Full(s) /\ Only(s)
    <2>0. /\ pc[s] = "deletes" /\ s \in Running /\ ~ errors[s]
          /\ Obsolete(s) \subseteq deleted[s] /\ table' = Committed(s)
      BY <1>1 DEF Commits, Running
    <2>1. /\ DOMAIN table' = (DOMAIN table \cup DOMAIN written[s]) \ deleted[s]
          /\ \A id \in DOMAIN table' :
               /\ id \in DOMAIN written[s] => /\ table'[id].question = written[s][id].question
                                              /\ table'[id].response = written[s][id].response
               /\ id \notin DOMAIN written[s] => id \in DOMAIN table /\ table'[id] = table[id]
      BY <1>1, <2>0, AfterCommit DEF Inv
    <2>2. Asked(file[s]) = processed[s]
      <3>1. config[s] = <<>>
        BY <1>1, <2>0 DEF Inv, Progress, Fields
      <3>2. Asked(<<>>) = {}
        BY DEF Asked, Range
      <3> QED
        BY <1>1, <3>1, <3>2 DEF Inv, Progress, Reads
    <2>3. AloneSync(s) /\ Written(s)
      BY <1>1, <2>0 DEF Inv, Alone, AloneSync, Written
    <2>4. ASSUME NEW id \in DOMAIN written[s]
          PROVE  /\ id \in DOMAIN table' /\ written[s][id] \in Range(file[s])
                 /\ written[s][id] = [question |-> table'[id].question,
                                      response |-> table'[id].response]
      <3>1. written[s][id] \in Range(file[s]) /\ written[s][id].question \in Asked(file[s])
        BY <1>1, <2>2 DEF Inv, Progress, Writes
      <3>2. id \notin deleted[s]
        <4> SUFFICES ASSUME id \in deleted[s] PROVE FALSE
          OBVIOUS
        <4>1. PICK q : q \notin Asked(file[s]) /\ Known(id, q)
          BY <1>1, <2>0, DeletesUnasked
        <4>2. Known(id, written[s][id].question)
          BY DEF Known
        <4> QED
          BY <1>1, <3>1, <4>1, <4>2 DEF Inv, OneQuestion
      <3>3. written[s][id] \in Entries
        BY <1>1, MapsDef DEF Inv, TypeOK
      <3>4. written[s][id] = [question |-> written[s][id].question,
                              response |-> written[s][id].response]
        BY <3>3 DEF Entries
      <3>5. id \in DOMAIN table'
        BY <2>1, <3>2
      <3> QED
        BY <2>1, <3>1, <3>4, <3>5
    <2>5. Full(s)
      <3> SUFFICES ASSUME NEW q \in Asked(file[s])
                   PROVE  \E e \in Range(file[s]) : e.question = q /\ e \in rows
        OBVIOUS
      <3>1. PICK id \in DOMAIN written[s] : written[s][id].question = q
        BY <2>0, <2>2, <2>3 DEF Written
      <3>2. table'[id] \in Range(table')
        BY <2>4 DEF Range
      <3>3. written[s][id] \in rows
        BY <2>4, <3>2
      <3> QED
        BY <2>4, <3>1, <3>3
    <2>6. Only(s)
      <3> SUFFICES ASSUME NEW r \in rows PROVE r \in Range(file[s]) \/ r.question \in twice
        OBVIOUS
      <3>1. PICK id \in DOMAIN table' : r = [question |-> table'[id].question,
                                             response |-> table'[id].response]
        BY DEF Range
      <3>2. CASE id \in DOMAIN written[s]
        BY <2>4, <3>1, <3>2
      <3>3. CASE id \notin DOMAIN written[s]
        <4> DEFINE q == table[id].question
        <4>1. id \in DOMAIN table /\ id \notin deleted[s] /\ r.question = q
          BY <2>1, <3>1, <3>3
        <4>2. q \in DOMAIN existing[s] /\ existing[s][q] \in DOMAIN table
          BY <2>3, <4>1 DEF AloneSync
        <4>3. existing[s][q] # id
          <5> SUFFICES ASSUME existing[s][q] = id PROVE FALSE
            OBVIOUS
          <5>1. q \in processed[s]
            BY <2>0, <4>1, <4>2 DEF Obsolete
          <5> QED
            BY <2>0, <2>3, <3>3, <4>2, <5>1 DEF Written
        <4>4. table[existing[s][q]].question = q
          <5>1. Known(existing[s][q], q) /\ Known(existing[s][q], table[existing[s][q]].question)
            BY <4>2 DEF Known
          <5> QED
            BY <1>1, <5>1 DEF Inv, OneQuestion
        <4>5. Row(id, q) /\ Row(existing[s][q], q)
          BY <4>1, <4>2, <4>4 DEF Row
        <4> HIDE DEF q
        <4> QED
          BY <1>1, <4>1, <4>3, <4>5 DEF Inv, OneRow
      <3> QED
        BY <3>2, <3>3
    <2> QED
      BY <2>5, <2>6
  <1>2. Inv /\ [Next]_vars =>
          [\A s \in Syncs : Commits(s) /\ ~ errors[s] /\ alone[s] => Full(s) /\ Only(s)]_vars
    BY <1>1
  <1>3. [\A s \in Syncs : Commits(s) /\ ~ errors[s] /\ alone[s] => Full(s) /\ Only(s)]_vars
        <=> [\A s \in Syncs : Commits(s) /\ ~ errors[s] /\ alone[s] =>
               LET all == {[question |-> r.question, response |-> r.response] : r \in Range(table')}
               IN /\ \A q \in Asked(file[s]) :
                       \E e \in Range(file[s]) : e.question = q /\ e \in all
                  /\ \A r \in all : r \in Range(file[s]) \/ r.question \in twice]_vars
    OBVIOUS
  <1> QED
    BY <1>2, <1>3, InvInit, InvNext, PTL DEF Spec, CleanSyncIsFull
==============================================================================
