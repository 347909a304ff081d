------------------------------- MODULE FAQSync ------------------------------
(***************************************************************************)
(* faq/sync.go: `faq sync` writes the entries of a configuration file into *)
(* faq_entries, in one transaction that goes on for as long as the         *)
(* requests for the embeddings take. Meanwhile the bot records triggers in *)
(* the same rows, and a second sync may have been started.                 *)
(*                                                                         *)
(* PostgreSQL is external and taken at READ COMMITTED, its default: the    *)
(* rows a transaction has written are locked until it ends, nobody else    *)
(* sees them before its COMMIT, and a statement that fails makes all later *)
(* ones fail and turns the COMMIT into a rollback that reports an error.   *)
(***************************************************************************)
EXTENDS Integers, Sequences, Functions

CONSTANTS
  Syncs,      \* the processes that may run `faq sync`
  Questions, Responses,
  Files,      \* what may be in the file: sequences of [question, response]
  MaxSyncs, MaxTriggers, Ids  \* bounds: syncs, triggers, row IDs

Entries == [question : Questions, response : Responses]
ConstantsOK == Files \subseteq Seq(Entries) /\ MaxSyncs \in Nat /\ MaxTriggers \in Nat
ASSUME ConstantsAssumption == ConstantsOK

VARIABLES
  table,      \* faq_entries, committed: ID -> [question, response, triggered]
  config,     \* per sync: the entries it has not come to yet
  existing,   \* per sync: existingEntries, question -> ID
  processed,  \* per sync: processedQuestions
  written,    \* per sync: the rows of its transaction, ID -> entry
  deleted,    \* per sync: the IDs its transaction has deleted
  pc,         \* per sync: where SyncFromConfig is
  aborted,    \* per sync: a statement of its transaction has failed
  errors,     \* per sync: result.Errors is not empty
  file,       \* per sync: the file it was given; <<>> when it does not run
  alone,      \* history, per sync: no other has run at the same time
  twice,      \* history: questions that a file repeats, or two syncs shared
  begun       \* history: syncs so far

locals == <<config, existing, processed, written, deleted, aborted, errors, file>>
history == <<alone, twice, begun>>
vars == <<table, pc, locals, history>>

NoMap == [x \in {} |-> 0]

Init ==
  /\ table = NoMap
  /\ config = [s \in Syncs |-> <<>>] /\ file = [s \in Syncs |-> <<>>]
  /\ existing = [s \in Syncs |-> NoMap] /\ processed = [s \in Syncs |-> {}]
  /\ written = [s \in Syncs |-> NoMap] /\ deleted = [s \in Syncs |-> {}]
  /\ pc = [s \in Syncs |-> "idle"]
  /\ aborted = [s \in Syncs |-> FALSE] /\ errors = [s \in Syncs |-> FALSE]
  /\ alone = [s \in Syncs |-> TRUE] /\ twice = {} /\ begun = 0

Running == {s \in Syncs : pc[s] # "idle"}
Asked(entries) == {e.question : e \in Range(entries)}
Entry(s) == Head(config[s])
Put(f, id, v) == [x \in DOMAIN f \cup {id} |-> IF x = id THEN v ELSE f[x]]

\* The row is locked by a sync other than s.
Locked(s, id) == \E r \in Running \ {s} : id \in DOMAIN written[r] \cup deleted[r]

\* gen_random_uuid: an ID that nothing refers to.
Used == DOMAIN table \cup UNION {DOMAIN written[s] \cup Range(existing[s]) : s \in Syncs}
Fresh == CHOOSE id \in Ids : id \notin Used

\* The process ends; its transaction is over.
End(s) ==
  /\ pc' = [pc EXCEPT ![s] = "idle"]
  /\ config' = [config EXCEPT ![s] = <<>>] /\ file' = [file EXCEPT ![s] = <<>>]
  /\ existing' = [existing EXCEPT ![s] = NoMap] /\ processed' = [processed EXCEPT ![s] = {}]
  /\ written' = [written EXCEPT ![s] = NoMap] /\ deleted' = [deleted EXCEPT ![s] = {}]
  /\ aborted' = [aborted EXCEPT ![s] = FALSE] /\ errors' = [errors EXCEPT ![s] = FALSE]

-----------------------------------------------------------------------------
(* SyncFromConfig, a statement at a time.                                  *)

Repeated(entries) ==
  {q \in Questions : \E i, j \in DOMAIN entries :
                       i # j /\ entries[i].question = q /\ entries[j].question = q}

\* LoadConfig: validateConfig asks for one entry at least, but lets a question
\* be repeated.
Loads(entries) == entries # <<>>

\* What getExistingEntries may return: of rows with the same question the map
\* keeps the last, in an order the query does not ask for.
ExistingEntries ==
  {ids \in [{table[id].question : id \in DOMAIN table} -> DOMAIN table] :
     \A q \in DOMAIN ids : table[ids[q]].question = q}

\* BEGIN and the SELECT.
Begin(s, entries) ==
  /\ pc[s] = "idle" /\ begun < MaxSyncs /\ Loads(entries)
  /\ \E ids \in ExistingEntries : existing' = [existing EXCEPT ![s] = ids]
  /\ pc' = [pc EXCEPT ![s] = "entries"]
  /\ config' = [config EXCEPT ![s] = entries] /\ file' = [file EXCEPT ![s] = entries]
  /\ alone' = [r \in Syncs |-> IF r = s THEN Running = {} ELSE alone[r] /\ r \notin Running]
  /\ twice' = twice \cup Repeated(entries)
                \cup (Asked(entries) \cap UNION {Asked(file[r]) : r \in Running})
  /\ begun' = begun + 1
  /\ UNCHANGED <<table, processed, written, deleted, aborted, errors>>

\* The next entry: processed, whatever becomes of it.
Process(s) ==
  /\ pc[s] = "entries" /\ config[s] # <<>>
  /\ processed' = [processed EXCEPT ![s] = @ \cup {Entry(s).question}]
  /\ config' = [config EXCEPT ![s] = Tail(@)]

\* Faulty variant of the next one: only entries with an embedding count as
\* processed.
EmbeddingFailsUnprocessed(s) ==
  /\ pc[s] = "entries" /\ config[s] # <<>>
  /\ config' = [config EXCEPT ![s] = Tail(@)]
  /\ errors' = [errors EXCEPT ![s] = TRUE]
  /\ UNCHANGED <<table, existing, processed, written, deleted, pc, aborted, file, history>>

\* No embedding: the entry is left as it is in the table.
EmbeddingFails(s) ==
  /\ Process(s)
  /\ errors' = [errors EXCEPT ![s] = TRUE]
  /\ UNCHANGED <<table, existing, written, deleted, pc, aborted, file, history>>

\* Faulty variant of the next one: a question that has a row gets another.
CreateAnyway(s) ==
  /\ Process(s) /\ ~ aborted[s] /\ ~ Ids \subseteq Used
  /\ written' = [written EXCEPT ![s] = Put(@, Fresh, Entry(s))]
  /\ UNCHANGED <<table, existing, deleted, pc, aborted, errors, file, history>>

\* The embedding has come and a row exists: UPDATE ... WHERE id = $1, which
\* changes no row, and is no error, when another sync has deleted it.
UpdateEntry(s) ==
  /\ Process(s) /\ ~ aborted[s]
  /\ Entry(s).question \in DOMAIN existing[s]
  /\ LET id == existing[s][Entry(s).question]
     IN /\ ~ Locked(s, id)
        /\ written' = IF id \in DOMAIN table
                      THEN [written EXCEPT ![s] = Put(@, id, Entry(s))] ELSE written
  /\ UNCHANGED <<table, existing, deleted, pc, aborted, errors, file, history>>

\* The question had no row when the sync began: INSERT.
CreateEntry(s) ==
  /\ Process(s) /\ ~ aborted[s]
  /\ Entry(s).question \notin DOMAIN existing[s] /\ ~ Ids \subseteq Used
  /\ written' = [written EXCEPT ![s] = Put(@, Fresh, Entry(s))]
  /\ UNCHANGED <<table, existing, deleted, pc, aborted, errors, file, history>>

\* updateEntry or createEntry returns an error, as it does for all entries
\* after the first: the loop goes on.
WriteFails(s) ==
  /\ Process(s)
  /\ aborted' = [aborted EXCEPT ![s] = TRUE]
  /\ errors' = [errors EXCEPT ![s] = TRUE]
  /\ UNCHANGED <<table, existing, written, deleted, pc, file, history>>

\* The rows to delete: of the questions not in the file.
Obsolete(s) == {existing[s][q] : q \in DOMAIN existing[s] \ processed[s]}

EntriesDone(s) ==
  /\ pc[s] = "entries" /\ config[s] = <<>>
  /\ pc' = [pc EXCEPT ![s] = "deletes"]
  /\ UNCHANGED <<table, locals, history>>

\* DELETE, in the order of the map.
DeleteEntry(s, id) ==
  /\ pc[s] = "deletes" /\ ~ aborted[s]
  /\ id \in Obsolete(s) \ deleted[s] /\ ~ Locked(s, id)
  /\ deleted' = [deleted EXCEPT ![s] = @ \cup {id}]
  /\ UNCHANGED <<table, config, existing, processed, written, pc, aborted, errors, file, history>>

DeleteFails(s) ==
  /\ pc[s] = "deletes" /\ Obsolete(s) \ deleted[s] # {}
  /\ aborted' = [aborted EXCEPT ![s] = TRUE]
  /\ errors' = [errors EXCEPT ![s] = TRUE]
  /\ UNCHANGED <<table, config, existing, processed, written, deleted, pc, file, history>>

\* What the COMMIT of s makes of the table.
Committed(s) ==
  [id \in (DOMAIN table \cup DOMAIN written[s]) \ deleted[s] |->
     IF id \in DOMAIN written[s]
     THEN [question |-> written[s][id].question, response |-> written[s][id].response,
           triggered |-> IF id \in DOMAIN table THEN table[id].triggered ELSE 0]
     ELSE table[id]]

\* Every statement has succeeded, or failed and been noted.
Commit(s) ==
  /\ pc[s] = "deletes" /\ ~ aborted[s] /\ Obsolete(s) \subseteq deleted[s]
  /\ table' = Committed(s)
  /\ End(s)
  /\ UNCHANGED history

\* The COMMIT of an aborted transaction, BEGIN or the SELECT that fails, or the
\* end of the process at any point: nothing is written.
RollBack(s) ==
  /\ pc[s] # "idle"
  /\ End(s)
  /\ UNCHANGED <<table, history>>

-----------------------------------------------------------------------------
\* The bot: RecordTriggerWithUser, which waits for the lock of the row.
Trigger(id) ==
  /\ id \in DOMAIN table /\ table[id].triggered < MaxTriggers
  /\ \A s \in Syncs : id \notin DOMAIN written[s] \cup deleted[s]
  /\ table' = [table EXCEPT ![id].triggered = @ + 1]
  /\ UNCHANGED <<pc, locals, history>>

SyncFromConfig(s) ==
  \/ \E entries \in Files : Begin(s, entries)
  \/ EmbeddingFails(s) \/ UpdateEntry(s) \/ CreateEntry(s) \/ WriteFails(s)
  \/ EntriesDone(s) \/ \E id \in Ids : DeleteEntry(s, id)
  \/ DeleteFails(s) \/ Commit(s) \/ RollBack(s)

Next == (\E s \in Syncs : SyncFromConfig(s)) \/ (\E id \in Ids : Trigger(id))

Spec == Init /\ [][Next]_vars

-----------------------------------------------------------------------------
Maps(D, R) == UNION {[S -> R] : S \in SUBSET D}
Rows == [question : Questions, response : Responses, triggered : 0..MaxTriggers]

(* Every variable has its type.                                            *)
TypeOK ==
  /\ table \in Maps(Ids, Rows)
  /\ config \in [Syncs -> Seq(Entries)] /\ file \in [Syncs -> Seq(Entries)]
  /\ existing \in [Syncs -> Maps(Questions, Ids)]
  /\ processed \in [Syncs -> SUBSET Questions]
  /\ written \in [Syncs -> Maps(Ids, Entries)] /\ deleted \in [Syncs -> SUBSET Ids]
  /\ pc \in [Syncs -> {"idle", "entries", "deletes"}]
  /\ aborted \in [Syncs -> BOOLEAN] /\ errors \in [Syncs -> BOOLEAN]
  /\ alone \in [Syncs -> BOOLEAN] /\ twice \subseteq Questions /\ begun \in 0..MaxSyncs

Commits(s) == /\ pc[s] = "deletes" /\ pc'[s] = "idle"
              /\ Obsolete(s) \subseteq deleted[s] /\ table' = Committed(s)

(* A question that stays in the file keeps its row, and with it its        *)
(* cooldown: whichever embedding requests fail, whatever the bot triggers  *)
(* and whoever else syncs meanwhile, no sync deletes or renews the row of  *)
(* a question of its file.                                                 *)
ConfiguredIsKept ==
  [][\A s \in Syncs : Commits(s) =>
       \A id \in DOMAIN table : table[id].question \in Asked(file[s]) =>
         id \in DOMAIN table' /\ table'[id].triggered = table[id].triggered]_vars

(* A sync that reports no error and ran alone has left exactly the file in *)
(* the table: an answer from the file for each of its questions and no     *)
(* other row, except for questions that some file repeated or that two     *)
(* overlapping syncs once shared. Such a question gets two rows, and from  *)
(* then on every sync updates or deletes only one of them.                 *)
CleanSyncIsFull ==
  [][\A s \in Syncs : Commits(s) /\ ~ errors[s] /\ alone[s] =>
       LET rows == {[question |-> r.question, response |-> r.response] : r \in Range(table')}
       IN /\ \A q \in Asked(file[s]) :
               \E e \in Range(file[s]) : e.question = q /\ e \in rows
          /\ \A r \in rows : r \in Range(file[s]) \/ r.question \in twice]_vars

=============================================================================
