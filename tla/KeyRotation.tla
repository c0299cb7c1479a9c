----------------------------- MODULE KeyRotation -----------------------------
(***************************************************************************)
(* The encrypted columns and what maintains them: rotateEncryptionKey walks *)
(* the tables in pages and re-encrypts row by row under row locks, while    *)
(* payments go on writing, their logs are pruned, and pruneRequestMetadata  *)
(* deletes.  An action is one statement, or a transaction between two       *)
(* awaits; the rotation may die after any of them and be run again.         *)
(***************************************************************************)
EXTENDS Naturals, FiniteSets, Sequences

CONSTANTS
    Key,         \* the keys there are, those nobody has any more included
    Configs,     \* the key rings: what current and previous may be
    InitialRows, \* the tables the rotation may find
    Limit,       \* options.batch of the rotation
    AbortAfter,  \* ABORT_AFTER_UNREADABLE
    MaxLogs,     \* MAX_TRANSACTION_LOGS_PER_TRANSACTION
    PruneBatch,  \* LOG_RETENTION_PRUNE_BATCH
    Writer,      \* the transactions that update payments
    Pruner,      \* the calls of pruneRequestMetadata
    Batch,       \* options.batch of each of them
    Null,        \* null: no key
    MaxText,     \* bound: how often a value is written
    MaxId,       \* bound: the ids of requestMetadata
    MaxRuns      \* bound: how often the rotation is started

ASSUME BatchAssumption == Limit \in Nat \ {0} /\ Batch \in [Pruner -> Nat \ {0}]
ASSUME BoundAssumption == /\ AbortAfter \in Nat \ {0} /\ MaxLogs \in Nat \ {0}
                          /\ PruneBatch \in Nat \ {0} /\ MaxText \in Nat /\ MaxId \in Nat /\ MaxRuns \in Nat
ASSUME KeyAssumption == /\ Null \notin Key
                        /\ Configs \subseteq [current : Key \cup {Null}, previous : SUBSET Key]

VARIABLES
    keys,    \* the key ring of every process: current, previous
    rows,    \* the four tables: id to row
    rot,     \* the rotation: where handle() stands, and what it counted
    runs,    \* how often it was started
    writer,  \* each transaction that updates a payment, and the payload it read
    pruner,  \* each pruneRequestMetadata: its page, and how far it is
    nextId   \* the next id of requestMetadata

vars == <<keys, rows, rot, runs, writer, pruner, nextId>>

Table == {"transactions", "transactionAttempts", "transactionLogs", "requestMetadata"}

(* The tables in the order of the walk, with their columns.                 *)
ENCRYPTED_COLUMNS ==
    <<[table |-> "transactions", columns |-> {"payload"}],
      [table |-> "transactionAttempts", columns |-> {"payload", "callback_payload"}],
      [table |-> "transactionLogs", columns |-> {"old_values", "new_values"}],
      [table |-> "requestMetadata", columns |-> {"custom_metadata"}]>>

ColumnsOf(table) ==
    (CHOOSE e \in {ENCRYPTED_COLUMNS[i] : i \in DOMAIN ENCRYPTED_COLUMNS} : e.table = table).columns

---------------------------------------------------------------------------
(* A value is null, plain text, an envelope of either version under a key,  *)
(* or a container that is no JSON object; text stands for its content.      *)
Value == [form : {"null", "plain", "v1", "v2", "broken"}, key : Key \cup {Null}, text : Nat]

(* A row with the transaction it belongs to, and whether it is behind the   *)
(* cutoff of the pruning.                                                   *)
Row(t) == [values : [ColumnsOf(t) -> Value], of : Nat, stale : BOOLEAN]

AnyRow == Row("transactions") \cup Row("transactionAttempts") \cup Row("transactionLogs")
              \cup Row("requestMetadata")

IsDatabase(tables) ==
    /\ tables = [t \in Table |-> tables[t]]
    /\ \A t \in Table :
          /\ DOMAIN tables[t] \subseteq Nat \ {0} /\ IsFiniteSet(DOMAIN tables[t])
          /\ tables[t] \in [DOMAIN tables[t] -> Row(t)]

(* The tables exist, and the ids of the metadata were given in order.       *)
ASSUME RowsAssumption ==
    \A tables \in InitialRows :
        /\ IsDatabase(tables)
        /\ LET ids == DOMAIN tables["requestMetadata"] IN ids = 1 .. Cardinality(ids)

(* Each log starts from what the one before it left, and the last one left  *)
(* what its transaction holds.                                              *)
Chained(tables) ==
    \A i \in DOMAIN tables["transactionLogs"] :
        LET logs  == tables["transactionLogs"]
            later == {j \in DOMAIN logs : logs[j].of = logs[i].of /\ j > i}
        IN  logs[i].values["new_values"].text =
              IF later = {} THEN tables["transactions"][logs[i].of].values["payload"].text
              ELSE logs[CHOOSE j \in later : \A k \in later : j <= k].values["old_values"].text

LogsOf(logs, of) == {i \in DOMAIN logs : logs[i].of = of}

(* The logs there are belong to a transaction (a foreign key), and update() *)
(* wrote and pruned them: they chain, and one more update leaves none that  *)
(* is beyond the batch it prunes.  (Of a log that grew longer before there  *)
(* was pruning, the first batches leave the oldest entries and a gap.)      *)
ASSUME LogsAssumption ==
    \A tables \in InitialRows :
        /\ \A i \in DOMAIN tables["transactionLogs"] :
              tables["transactionLogs"][i].of \in DOMAIN tables["transactions"]
        /\ Chained(tables)
        /\ \A of \in DOMAIN tables["transactions"] :
              Cardinality(LogsOf(tables["transactionLogs"], of)) < MaxLogs + PruneBatch

Envelope(key, text) == [form |-> "v2", key |-> key, text |-> text]
NullValue == [form |-> "null", key |-> Null, text |-> 0]

all == ({keys.current} \cup keys.previous) \ {Null}

looksLikeEnvelope(value) == value.form \in {"v1", "v2"}

(* Of a v2 envelope the key id names the key, of a v1 every key is tried.   *)
decryptAny(value) == value.key \in all

read(value) == looksLikeEnvelope(value) => decryptAny(value)

isOwnEnvelope(value) == looksLikeEnvelope(value) /\ decryptAny(value)

isCurrentKey(value) == value.form = "v2" /\ value.key = keys.current

(* store() keeps an envelope of its own and encrypts everything else.       *)
store(value) ==
    IF value.form = "null" \/ isOwnEnvelope(value) THEN value
    ELSE Envelope(keys.current, value.text)

canStore == keys.current # Null

rekeyValue(value) ==
    CASE value.form = "null" -> "current"
      [] value.form = "plain" -> "plaintext"
      [] isCurrentKey(value) -> "current"
      [] looksLikeEnvelope(value) /\ ~isCurrentKey(value) /\ canStore /\ decryptAny(value) -> "rewritten"
      [] OTHER -> "unreadable"

(* The outcome of a column: only a nested property has a container.         *)
rekeyColumn(row, column) ==
    IF row.values[column].form = "broken" /\ column \notin {"old_values", "new_values"}
    THEN "plaintext"
    ELSE rekeyValue(row.values[column])

rekey(value) == Envelope(keys.current, value.text)

changes(row) == {c \in DOMAIN row.values : rekeyColumn(row, c) = "rewritten"}
failures(row) == {c \in DOMAIN row.values : rekeyColumn(row, c) = "unreadable"}

unchangedRow(row) ==
    CASE failures(row) # {} -> "unreadable"
      [] failures(row) = {} /\ \E c \in DOMAIN row.values : rekeyColumn(row, c) = "plaintext" -> "plaintext"
      [] OTHER -> "current"

rekeyRow(row) == IF changes(row) # {} THEN "rewritten" ELSE unchangedRow(row)

---------------------------------------------------------------------------
Status == {"rewritten", "current", "plaintext", "unreadable", "vanished"}

Counts == [{"processed"} \cup Status -> Nat]

emptyCounts == [processed |-> 0, rewritten |-> 0, current |-> 0, plaintext |-> 0,
                unreadable |-> 0, vanished |-> 0]

mergeCounts(into, from) == [s \in DOMAIN into |-> into[s] + from[s]]

Tally == [counts : Counts, lastId : Nat, values : Nat]

emptyBatch == [counts |-> emptyCounts, lastId |-> 0, values |-> 0]

(* Mutant: a row that vanished is not processed.                            *)
tallyWithoutVanished(batch, i, status, failed) ==
    [counts |-> [batch.counts EXCEPT !.processed = @ + (IF status = "vanished" THEN 0 ELSE 1),
                                     ![status] = @ + 1],
     lastId |-> i, values |-> batch.values + failed]

(* ReencryptTally.visit(): failed is how many columns could not be read.    *)
tally(batch, i, status, failed) ==
    [counts |-> [batch.counts EXCEPT !.processed = @ + 1, ![status] = @ + 1],
     lastId |-> i, values |-> batch.values + failed]

hopeless(counts) ==
    counts.unreadable >= AbortAfter /\ counts.rewritten = 0 /\ counts.current = 0

(* Mutant: cursor and counts start anew with every batch.                   *)
continueAnew(r, batch) ==
    LET counts == batch.counts
        after  == [r EXCEPT !.unreadable = @ \/ batch.values > 0, !.batch = emptyBatch, !.ids = {}]
    IN  CASE hopeless(counts) -> [after EXCEPT !.phase = "returned", !.stoppedEarly = TRUE]
          [] ~hopeless(counts) /\ batch.counts.processed >= Limit
               -> [after EXCEPT !.phase = "page", !.afterId = 0]
          [] OTHER -> IF r.at = Len(ENCRYPTED_COLUMNS) THEN [after EXCEPT !.phase = "returned"]
                      ELSE [after EXCEPT !.phase = "page", !.at = @ + 1, !.afterId = 0]

(* What handle() does with a batch: count, give up, go on behind its last   *)
(* row, or turn to the next table.                                          *)
continue(r, batch) ==
    LET counts == mergeCounts(r.tableCounts, batch.counts)
        after  == [r EXCEPT !.tableCounts = counts, !.unreadable = @ \/ batch.values > 0,
                            !.batch = emptyBatch, !.ids = {}]
    IN  CASE hopeless(counts) -> [after EXCEPT !.phase = "returned", !.stoppedEarly = TRUE]
          [] ~hopeless(counts) /\ batch.counts.processed >= Limit
               -> [after EXCEPT !.phase = "page", !.afterId = batch.lastId]
          [] OTHER -> IF r.at = Len(ENCRYPTED_COLUMNS) THEN [after EXCEPT !.phase = "returned"]
                      ELSE [after EXCEPT !.phase = "page", !.at = @ + 1, !.afterId = 0,
                                         !.tableCounts = emptyCounts]

(* After a row: the next of the page, or the end of the batch.              *)
visited(r, i, status, failed) ==
    LET batch == tally(r.batch, i, status, failed)
    IN  IF r.ids # {i} THEN [r EXCEPT !.phase = "visit", !.ids = @ \ {i}, !.batch = batch]
        ELSE continue(r, batch)

table == ENCRYPTED_COLUMNS[rot.at].table
id == CHOOSE i \in rot.ids : \A j \in rot.ids : i <= j

(* The n lowest of a set of ids.                                            *)
lowest(ids, n) == {i \in ids : Cardinality({j \in ids : j <= i}) <= n}

(* Mutant: a row is read without its lock.                                  *)
lockNone(t, i) == FALSE

(* Locked by the rotation or by an update: the others wait.                 *)
lockForUpdate(t, i) ==
    \/ rot.phase = "write" /\ table = t /\ id = i
    \/ \E w \in Writer : writer[w].phase = "write" /\ t = "transactions" /\ writer[w].id = i

---------------------------------------------------------------------------
Walk == [phase : {"idle", "page", "visit", "write", "returned", "dead"},
         at : DOMAIN ENCRYPTED_COLUMNS, afterId : Nat, ids : SUBSET Nat,
         seen : {NullValue} \cup AnyRow, batch : Tally, tableCounts : Counts,
         unreadable : BOOLEAN, stoppedEarly : BOOLEAN]

idle == [phase |-> "idle", at |-> 1, afterId |-> 0, ids |-> {}, seen |-> NullValue,
         batch |-> emptyBatch, tableCounts |-> emptyCounts, unreadable |-> FALSE,
         stoppedEarly |-> FALSE]

waiting == [phase |-> "idle", id |-> 0, seen |-> NullValue]

Init ==
    /\ keys \in Configs
    /\ rows \in InitialRows
    /\ rot = idle
    /\ runs = 0
    /\ writer = [w \in Writer |-> waiting]
    /\ pruner = [p \in Pruner |-> [phase |-> "idle", ids |-> {}]]
    /\ nextId = Cardinality(DOMAIN rows["requestMetadata"]) + 1

(* sisp rotate-key: the first run, or one after a run that ended or died.   *)
Rotate ==
    /\ rot.phase \in {"idle", "returned", "dead"}
    /\ runs < MaxRuns
    /\ runs' = runs + 1
    /\ rot' = [idle EXCEPT !.phase = "page"]
    /\ UNCHANGED <<keys, rows, writer, pruner, nextId>>

(* candidateIds: a page of ids, read without a lock.                        *)
CandidateIds ==
    /\ rot.phase = "page"
    /\ LET ids == lowest({i \in DOMAIN rows[table] : i > rot.afterId}, Limit)
       IN  rot' = IF ids = {} THEN continue(rot, emptyBatch)
                  ELSE [rot EXCEPT !.phase = "visit", !.ids = ids]
    /\ UNCHANGED <<keys, rows, runs, writer, pruner, nextId>>

(* withLockedRow: the row is locked and read, or is gone.                   *)
LockRow ==
    /\ rot.phase = "visit"
    /\ \/ /\ id \notin DOMAIN rows[table]
          /\ rot' = visited(rot, id, "vanished", 0)
       \/ /\ id \in DOMAIN rows[table]
          /\ ~lockForUpdate(table, id)
          /\ rot' = [rot EXCEPT !.phase = "write", !.seen = rows[table][id]]
    /\ UNCHANGED <<keys, rows, runs, writer, pruner, nextId>>

(* visitRow and the commit: the columns that changed are written, as the    *)
(* row was read.                                                            *)
WriteRow ==
    /\ rot.phase = "write"
    /\ id \in DOMAIN rows[table]
    /\ rows' = [rows EXCEPT ![table][id].values =
                  [c \in DOMAIN @ |-> IF c \in changes(rot.seen) THEN rekey(rot.seen.values[c]) ELSE @[c]]]
    /\ rot' = visited([rot EXCEPT !.seen = NullValue], id, rekeyRow(rot.seen), Cardinality(failures(rot.seen)))
    /\ UNCHANGED <<keys, runs, writer, pruner, nextId>>

(* The process of the rotation dies: an open transaction is rolled back.    *)
Die ==
    /\ rot.phase \in {"page", "visit", "write"}
    /\ rot' = [idle EXCEPT !.phase = "dead"]
    /\ UNCHANGED <<keys, rows, runs, writer, pruner, nextId>>

---------------------------------------------------------------------------
(* map(): a row is returned with every value decrypted, or not at all.      *)
readable(row) == \A c \in DOMAIN row.values : read(row.values[c])

newest(ids) == IF ids = {} THEN 0 ELSE CHOOSE i \in ids : \A j \in ids : j <= i

insert(t, i, row) == [j \in DOMAIN rows[t] \cup {i} |-> IF j = i THEN row ELSE rows[t][j]]

(* Transaction.update(), first half: the row is locked, read and mapped.    *)
LockTransaction(w) ==
    /\ writer[w].phase = "idle"
    /\ canStore
    /\ \E i \in DOMAIN rows["transactions"] :
          /\ ~lockForUpdate("transactions", i)
          /\ readable(rows["transactions"][i])
          /\ rows["transactions"][i].values["payload"].text < MaxText
          /\ writer' = [writer EXCEPT ![w] = [phase |-> "write", id |-> i,
                                                seen |-> rows["transactions"][i].values["payload"]]]
    /\ UNCHANGED <<keys, rows, rot, runs, pruner, nextId>>

(* The log entry of a change: the old and the new payload, encrypted.       *)
appendLog(old, new, of) ==
    [values |-> [c \in ColumnsOf("transactionLogs") |-> IF c = "old_values" THEN store(old) ELSE store(new)],
     of |-> of, stale |-> FALSE]

(* Mutant: the oldest logs are kept.                                        *)
pruneNewestLogs(logs, of) ==
    {i \in DOMAIN logs :
        /\ logs[i].of = of
        /\ LET older == Cardinality({j \in DOMAIN logs : logs[j].of = of /\ j < i})
           IN  older >= MaxLogs /\ older < MaxLogs + PruneBatch}

(* The logs of a transaction beyond its newest ones, a batch of them.       *)
pruneTransactionLogs(logs, of) ==
    {i \in DOMAIN logs :
        /\ logs[i].of = of
        /\ LET newer == Cardinality({j \in DOMAIN logs : logs[j].of = of /\ j > i})
           IN  newer >= MaxLogs /\ newer < MaxLogs + PruneBatch}

(* The attributes that change: of those, only the payload is encrypted.     *)
diff(old, new) == {a \in {"payload"} : old.text # new.text}

(* Transaction.update(), second half: write, log, prune, commit; without a  *)
(* change, only the commit.  What is stored was decrypted, so it is         *)
(* encrypted anew.                                                          *)
UpdateTransaction(w) ==
    LET of  == writer[w].id
        old == [writer[w].seen EXCEPT !.form = IF @ = "null" THEN @ ELSE "plain"]
    IN
    /\ writer[w].phase = "write"
    /\ \E text \in {old.text, old.text + 1} :
         LET new    == [old EXCEPT !.form = IF text = old.text THEN @ ELSE "plain", !.text = text]
             logs   == insert("transactionLogs", newest(DOMAIN rows["transactionLogs"]) + 1,
                              appendLog(old, new, of))
             pruned == pruneTransactionLogs(logs, of)
         IN  IF diff(old, new) = {} THEN rows' = rows
             ELSE /\ \A i \in pruned : ~lockForUpdate("transactionLogs", i)
                  /\ rows' = [rows EXCEPT
                        !["transactions"][of].values["payload"] = store(new),
                        !["transactionLogs"] = [i \in DOMAIN logs \ pruned |-> logs[i]]]
    /\ writer' = [writer EXCEPT ![w] = waiting]
    /\ UNCHANGED <<keys, rot, runs, pruner, nextId>>

(* TransactionAttempt.update() with a callback payload: one statement, and  *)
(* the row is mapped again, or the transaction is rolled back.              *)
UpdateAttempt ==
    /\ canStore
    /\ \E i \in DOMAIN rows["transactionAttempts"] :
          LET row == rows["transactionAttempts"][i] IN
          /\ ~lockForUpdate("transactionAttempts", i)
          /\ readable(row)
          /\ row.values["callback_payload"].text < MaxText
          /\ rows' = [rows EXCEPT !["transactionAttempts"][i].values["callback_payload"] =
                        store([form |-> "plain", key |-> Null, text |-> @.text + 1])]
    /\ UNCHANGED <<keys, rot, runs, writer, pruner, nextId>>

(* RequestMetadata.create().                                                *)
CreateMetadata ==
    /\ canStore
    /\ nextId <= MaxId
    /\ nextId' = nextId + 1
    /\ rows' = [rows EXCEPT !["requestMetadata"] =
                  insert("requestMetadata", nextId,
                    [values |-> [c \in {"custom_metadata"} |-> store([form |-> "plain", key |-> Null, text |-> 0])],
                     of |-> 0, stale |-> FALSE])]
    /\ UNCHANGED <<keys, rot, runs, writer, pruner>>

---------------------------------------------------------------------------
stale == {i \in DOMAIN rows["requestMetadata"] : rows["requestMetadata"][i].stale}

(* purgeOlderThan, first statement: a page of the rows behind the cutoff.   *)
SelectStale(p) ==
    /\ pruner[p].phase \in {"idle", "page"}
    /\ pruner' = [pruner EXCEPT ![p].ids = lowest(stale, Batch[p]),
                    ![p].phase = IF stale = {} THEN "returned" ELSE "delete"]
    /\ UNCHANGED <<keys, rows, rot, runs, writer, nextId>>

(* purgeOlderThan, the delete, and what pruneRequestMetadata does with the  *)
(* number of rows it removed.                                               *)
Purge(p) ==
    LET gone == pruner[p].ids \cap DOMAIN rows["requestMetadata"] IN
    /\ pruner[p].phase = "delete"
    /\ \A i \in gone : ~lockForUpdate("requestMetadata", i)
    /\ rows' = [rows EXCEPT !["requestMetadata"] = [i \in DOMAIN @ \ gone |-> @[i]]]
    /\ pruner' = [pruner EXCEPT ![p] = [phase |-> IF Cardinality(gone) < Batch[p] THEN "returned" ELSE "page",
                                         ids |-> {}]]
    /\ UNCHANGED <<keys, rot, runs, writer, nextId>>

Rotation == CandidateIds \/ LockRow \/ WriteRow
Update(w) == LockTransaction(w) \/ UpdateTransaction(w)
Prune(p) == SelectStale(p) \/ Purge(p)

Next ==
    \/ Rotate \/ Rotation \/ Die
    \/ \E w \in Writer : Update(w)
    \/ UpdateAttempt \/ CreateMetadata
    \/ \E p \in Pruner : Prune(p)

Spec == Init /\ [][Next]_vars

(* A run of the command goes on, and so does a transaction that has begun;  *)
(* the database queues those who wait for a lock.                           *)
FairSpec ==
    /\ Spec
    /\ WF_vars(Rotation) /\ SF_vars(LockRow)
    /\ \A w \in Writer : WF_vars(UpdateTransaction(w))

---------------------------------------------------------------------------

(* Every part of the state has its shape.                                   *)
TypeOK ==
    /\ keys \in [current : Key \cup {Null}, previous : SUBSET Key]
    /\ IsDatabase(rows)
    /\ rot \in Walk
    /\ runs \in Nat /\ nextId \in Nat
    /\ writer \in [Writer -> [phase : {"idle", "write"}, id : Nat, seen : Value]]
    /\ pruner \in [Pruner -> [phase : {"idle", "page", "delete", "returned"}, ids : SUBSET Nat]]

(* The exit code 0 of rotate-key is the permission to remove the old key:   *)
(* every envelope of every table is under the current one, whatever wrote,  *)
(* was pruned or died meanwhile (docs/07-security.md, rotate-key.ts).       *)
ExitZeroMeansRotated ==
    rot.phase = "returned" /\ ~rot.unreadable /\ ~rot.stoppedEarly =>
        \A t \in Table : \A i \in DOMAIN rows[t] : \A c \in ColumnsOf(t) :
            looksLikeEnvelope(rows[t][i].values[c]) => isCurrentKey(rows[t][i].values[c])

(* No step, and no order of steps, brings back a content that was           *)
(* overwritten or makes a readable value unreadable: the rotation writes a  *)
(* row as it is, not as it was (withLockedRow).                             *)
ContentKept ==
    [][\A t \in Table : \A i \in DOMAIN rows[t] \cap DOMAIN rows'[t] : \A c \in ColumnsOf(t) :
         LET old == rows[t][i].values[c]
             new == rows'[t][i].values[c]
         IN  new.text >= old.text /\ (read(old) => read(new))]_rows

(* The log of a payment is a chain: an entry starts from what the one       *)
(* before it left, and the last one left what is stored now.                *)
LogChain == Chained(rows)

(* A walk ends: its cursor moves on, whatever vanishes below it.            *)
RotationEnds == rot.phase = "page" ~> rot.phase \in {"returned", "dead"}

============================================================================
