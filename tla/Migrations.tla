----------------------------- MODULE Migrations -----------------------------
(* Bringing a database to the current schema: the knex migration runner      *)
(* (storage/knex/auto-migrate.ts and migrations/*.ts, behind `sisp migrate`  *)
(* and autoMigrate) and the Drizzle adapter's migrate() (drizzle-storage.ts  *)
(* and drizzle/migrations.ts).                                               *)
(*                                                                           *)
(* A run is a list of statements (todo) it sends one by one; between two     *)
(* statements another run may move and the process may die.  What the        *)
(* database does with the statements is external: PostgreSQL keeps the whole *)
(* knex run in one transaction, in which one failed statement makes every    *)
(* later one fail, and undoes it when the run dies; MySQL and SQLite keep    *)
(* every statement.  A table's keys are created after it, as one statement.  *)
EXTENDS Schema, Naturals, SequencesExt, FiniteSetsExt

CONSTANTS
  Runner,      \* processes that migrate the database
  Payment,     \* payments stored before transaction attempts existed
  Database,    \* the databases a first run may find
  MaxRestarts  \* bound: runs started again after an end or a death

VARIABLES
  client,      \* the database server in use
  together,    \* the runners are calls of one process
  db,          \* the database: tables, recorded migrations, the attempts of
               \* older payments, the rows of one limit; keyless: the tables
               \* that exist but whose keys nobody has created since
  runner,      \* the state of each run
  named,       \* MySQL: the runner whose connection holds the lock, or "none"
  first,       \* history: the database as the first run found it
  interrupted  \* history: some run died, failed, or met another one

vars == <<client, together, db, runner, named, first, interrupted>>

-----------------------------------------------------------------------------
(* The statements of a knex run. *)

Statement(do, table) == [do |-> do, table |-> table]

CreateIfMissing(t) ==
  <<Statement("hasTable", t), Statement("createTable", t),
    Statement("createKeys", t)>>

createSispTables ==
  CreateIfMissing("transactions") \o CreateIfMissing("transactionItems")
    \o CreateIfMissing("invoices") \o CreateIfMissing("requestMetadata")
    \o CreateIfMissing("rateLimits") \o CreateIfMissing("blacklist")

ensureNoDuplicateTransactionIdentifiers ==
  <<Statement("checkIdentifiers", "transactions")>>

(* Mutant: the attempts are inserted without counting them first. *)
backfillAttemptsUncounted ==
  <<Statement("insertAttempts", "transactionAttempts")>>

backfillAttempts ==
  <<Statement("countAttempts", "transactionAttempts"),
    Statement("insertAttempts", "transactionAttempts")>>

createAttemptsAndBackfill ==
  ensureNoDuplicateTransactionIdentifiers
    \o CreateIfMissing("transactionAttempts")
    \o backfillAttempts
    \o <<Statement("addKey", "transactions")>>

addRateLimitUniqueIndex ==
  <<Statement("requireTable", "rateLimits"),
    Statement("fillContexts", "rateLimits"),
    Statement("findDuplicates", "rateLimits"),
    Statement("updateKept", "rateLimits"),
    Statement("deleteDuplicates", "rateLimits"),
    Statement("addKeyInSavepoint", "rateLimits")>>

addPaymentIntentRequestHash ==
  <<Statement("requireTable", "paymentIntents"),
    Statement("hasColumn", "paymentIntents"),
    Statement("addColumn", "paymentIntents")>>

addTransactionPosId ==
  <<Statement("requireTable", "transactions"),
    Statement("hasColumn", "transactions"),
    Statement("addColumn", "transactions")>>

addRequestMetadataCreatedAtIndex ==
  <<Statement("requireTable", "requestMetadata"),
    Statement("addKey", "requestMetadata")>>

SISP_MIGRATIONS ==
  <<createSispTables, CreateIfMissing("transactionLogs"),
    createAttemptsAndBackfill, CreateIfMissing("paymentIntents"),
    addRateLimitUniqueIndex, addPaymentIntentRequestHash,
    addTransactionPosId, addRequestMetadataCreatedAtIndex>>

Migration == 1..8

(* The column and the key that a migration adds to a table it did not make. *)
NewColumn == [paymentIntents |-> "request_hash", transactions |-> "pos_id"]

NewKey ==
  [transactions    |-> uniqueName(<<"merchant_ref">>),
   rateLimits      |-> uniqueName(<<"identifier", "limit_type", "context">>),
   requestMetadata |-> indexName(<<"created_at">>)]

ensureMigrationsTable ==
  <<Statement("hasControl", "control"), Statement("createControl", "control"),
    Statement("selectExecuted", "control")>>

(* A migration, and the record of it. *)
UpAndRecord(i) == SISP_MIGRATIONS[i] \o <<Statement("record", i)>>

(* The statements of the migrations that the control table does not name.    *)
Script(executed) ==
  LET of(i) == IF i \in executed THEN <<>> ELSE UpAndRecord(i)
  IN  of(1) \o of(2) \o of(3) \o of(4) \o of(5) \o of(6) \o of(7) \o of(8)

(* The statements of the Drizzle adapter: every table, then the check of the *)
(* columns, then the keys (MySQL makes them with the table).                 *)
DrizzleScript ==
  LET forAll(do) == [i \in DOMAIN SISP_TABLE_SPECS |->
                       Statement(do, SISP_TABLE_SPECS[i])]
  IN  forAll("createIfNotExists") \o forAll("assertColumnsExist")
        \o (IF client = "mysql2" THEN <<>> ELSE forAll("createIndexes"))

-----------------------------------------------------------------------------
(* What a statement finds in the database. *)

Exists(t) == db.tables[t] # NoTable
Has(t, key) == key \in db.tables[t].keys
SumHits(rows) ==
  FoldSeq(LAMBDA hits, sum : hits + sum, 0, [i \in DOMAIN rows |-> rows[i].hits])
Latest(rows) == Max({row.blocked : row \in ToSet(rows)} \cup {0})

(* Two rows of the limited identifier and type share a context. *)
DuplicateLimits ==
  \E i, j \in DOMAIN db.limits :
    i # j /\ db.limits[i].context = db.limits[j].context

(* An attempt was made twice by the backfill, with all that it holds. *)
DuplicateAttempts == \E p \in db.payments : db.attempts[p] > 1

isUnique(key) == key[1] = "unique"

(* The data refuse the key. *)
KeyRefused(t, key) ==
  \/ t = "transactions" /\ key = NewKey[t] /\ db.sharedRef
  \/ t = "rateLimits" /\ key = NewKey[t] /\ DuplicateLimits
  \/ t = "transactionAttempts" /\ isUnique(key) /\ DuplicateAttempts

Transactional(r) == client = "pg" /\ runner[r].adapter = "knex"

Running(r) == runner[r].phase = "running"
Other(r) == Runner \ {r}

InSameProcess(r, s) == together \/ r = s

(* Mutant: the blocking instant of the duplicates is lost. *)
mergedUnblocked(rows) ==
  [context |-> "", hits |-> SumHits(rows), blocked |-> rows[1].blocked]

(* The row that is left of a limit after the merge. *)
merged(rows) ==
  [context |-> "", hits |-> SumHits(rows), blocked |-> Latest(rows)]

-----------------------------------------------------------------------------
(* What a database holds.                                                    *)

(* The unique keys the repositories rely on to settle a race. *)
UniqueKeys(t) == {key \in tableSpec[t].keys : isUnique(key)}

(* d: a database; excused: the tables that may lack their keys. *)
Keyed(d, t, excused) == UniqueKeys(t) \subseteq d.tables[t].keys \/ t \in excused

(* What a migration is for, found in the database. *)
Applied(d, m, excused) ==
  CASE m = 1 -> \A t \in {"transactions", "transactionItems", "invoices",
                         "requestMetadata", "rateLimits", "blacklist"} : d.tables[t] # NoTable
    [] m = 2 -> d.tables["transactionLogs"] # NoTable
    [] m = 3 -> /\ Keyed(d, "transactions", excused) /\ Keyed(d, "transactionAttempts", excused)
                /\ d.tables["transactionAttempts"] # NoTable
                /\ \A p \in d.payments :
                     \/ d.attempts[p] = 1
                     \/ d.attempts[p] > 1 /\ "transactionAttempts" \in excused
    [] m = 4 -> d.tables["paymentIntents"] # NoTable /\ Keyed(d, "paymentIntents", excused)
    [] m = 5 -> Keyed(d, "rateLimits", excused) /\ Len(d.limits) <= 1
    [] m = 6 -> "request_hash" \in d.tables["paymentIntents"].columns
    [] m = 7 -> "pos_id" \in d.tables["transactions"].columns
    [] m = 8 -> NewKey["requestMetadata"] \in d.tables["requestMetadata"].keys

Fields == {"tables", "control", "recorded", "keyless", "sharedRef", "payments",
           "attempts", "limits"}

TablesOf(d) ==
  /\ DOMAIN d = Fields /\ DOMAIN d.tables = Tables
  /\ \A t \in Tables : d.tables[t] = TableOf(d.tables[t].columns, d.tables[t].keys)

(* The databases a first run may find: what earlier releases, the Drizzle    *)
(* adapter or a run that died between two tables left (what one leaves that  *)
(* died before the keys of a table, Crash reaches).  A table has its columns *)
(* and all its unique keys, but the one of the rate limits, which releases   *)
(* before pos_id did not have; pos_id comes after the keys of 0003 and 0005; *)
(* an older payment has one attempt or, before 0003, none; and what is       *)
(* recorded was applied.                                                     *)
Found(d) ==
  /\ TablesOf(d)
  /\ \A t \in Tables : d.tables[t] # NoTable =>
       /\ KnexTable[t].columns \subseteq d.tables[t].columns
       /\ {key \in KnexTable[t].keys : isUnique(key)} \ {NewKey["rateLimits"]}
            \subseteq d.tables[t].keys
  /\ "pos_id" \in d.tables["transactions"].columns =>
       NewKey["transactions"] \in d.tables["transactions"].keys
  /\ d.tables["rateLimits"] # NoTable =>
       \/ NewKey["rateLimits"] \in d.tables["rateLimits"].keys
       \/ d.tables["transactions"] # NoTable /\ "pos_id" \notin d.tables["transactions"].columns
  /\ d.recorded \subseteq Migration /\ \A m \in d.recorded : Applied(d, m, {})
  /\ d.keyless = {}
  /\ d.payments \subseteq Payment
  /\ d.attempts \in [Payment -> Nat]
  /\ \E n \in {0, 1} : \A p \in d.payments : d.attempts[p] = n
  /\ (\E p \in d.payments : d.attempts[p] > 0) => d.tables["transactionAttempts"] # NoTable
  /\ d.limits \in Seq([context : {"", "null"}, hits : Nat, blocked : Nat])
  /\ d.limits # <<>> => d.tables["rateLimits"] # NoTable

ASSUME MigrationsAssumption == MaxRestarts \in Nat /\ \A d \in Database : Found(d)

-----------------------------------------------------------------------------
(* Runs begin and end. *)

Idle(adapter, restarts) ==
  [adapter |-> adapter, phase |-> "idle", todo |-> <<>>, before |-> first,
   aborted |-> FALSE, alone |-> TRUE, restarts |-> restarts]

NotAlone(r, moved) ==
  [s \in Runner |-> IF s # r /\ moved[s].phase = "running"
                    THEN [moved[s] EXCEPT !.alone = FALSE] ELSE moved[s]]

(* withMigrationLock: the run starts once its database lets it. *)
Free(r) ==
  \/ runner[r].adapter = "drizzle"
  \/ client = "pg" /\ \A s \in Other(r) : ~Running(s) \/ runner[s].adapter = "drizzle"
  \/ client = "better-sqlite3"
       /\ \A s \in Other(r) : InSameProcess(r, s) /\ runner[s].adapter = "knex" => ~Running(s)
  \/ client = "mysql2"

(* get_lock(?, 30): granted, or given up after 30 seconds; the answer is not *)
(* looked at.                                                                *)
GetLock(r) ==
  IF client = "mysql2" /\ runner[r].adapter = "knex" /\ named = "none"
  THEN named' = r ELSE named' = named

withMigrationLock(r) ==
  /\ runner[r].phase = "idle"
  /\ Free(r)
  /\ GetLock(r)
  /\ runner' = NotAlone(r, [runner EXCEPT
       ![r].phase = "running",
       ![r].before = IF Transactional(r) THEN db ELSE first,
       ![r].alone = \A s \in Other(r) : ~Running(s),
       ![r].todo = IF runner[r].adapter = "knex"
                   THEN ensureMigrationsTable ELSE DrizzleScript])
  /\ interrupted' = (interrupted \/ \E s \in Other(r) : Running(s))
  /\ UNCHANGED <<client, together, db, first>>

(* The lock of a finished MySQL run is released by whatever connection of    *)
(* the pool the statement gets: only the one that took it can.               *)
ReleaseLock(r) ==
  \/ named' = (IF named = r THEN "none" ELSE named)
  \/ named = r /\ client = "mysql2" /\ UNCHANGED named

Finish(r) ==
  /\ Running(r)
  /\ runner[r].todo = <<>>
  /\ ~runner[r].aborted
  /\ ReleaseLock(r)
  /\ runner' = [runner EXCEPT ![r].phase = "done"]
  /\ UNCHANGED <<client, together, db, first, interrupted>>

(* The statement throws: the run ends, and its transaction with it. *)
FailLeaving(r, changed) ==
  /\ runner' = [runner EXCEPT ![r].phase = "failed", ![r].todo = <<>>,
                              ![r].aborted = FALSE]
  /\ db' = IF Transactional(r) THEN runner[r].before ELSE changed
  /\ ReleaseLock(r)
  /\ interrupted' = TRUE
  /\ UNCHANGED <<client, together, first>>

Fail(r) == FailLeaving(r, db)

(* The process dies, with its connections. *)
Crash(r) ==
  LET gone == {s \in Runner : InSameProcess(r, s) /\ Running(s)} IN
  /\ Running(r)
  /\ interrupted' = TRUE
  /\ runner' = [s \in Runner |-> IF s \in gone
                  THEN [Idle(runner[s].adapter, runner[s].restarts)
                          EXCEPT !.phase = "crashed"]
                  ELSE runner[s]]
  /\ db' = IF \E s \in gone : Transactional(s)
           THEN runner[CHOOSE s \in gone : Transactional(s)].before ELSE db
  /\ named' = IF named \in gone THEN "none" ELSE named
  /\ UNCHANGED <<client, together, first>>

SumRestarts == MapThenSumSet(LAMBDA r : runner[r].restarts, Runner)

(* A run that did not get through is started again.  The process that ended  *)
(* gives its lock back.                                                      *)
Restart(r) ==
  /\ runner[r].phase \in {"failed", "crashed"}
  /\ SumRestarts < MaxRestarts
  /\ runner' = [runner EXCEPT ![r] = Idle(@.adapter, @.restarts + 1)]
  /\ named' = IF named = r THEN "none" ELSE named
  /\ UNCHANGED <<client, together, db, first, interrupted>>

-----------------------------------------------------------------------------
(* The statements.  Next statement in turn, some skipped, or failure. *)

(* A Drizzle run's statements wait for an open transaction of a knex run.    *)
Ready(r, do) ==
  /\ Running(r)
  /\ runner[r].todo # <<>>
  /\ Head(runner[r].todo).do = do
  /\ ~runner[r].aborted
  /\ \A s \in Other(r) : Running(s) => ~Transactional(s)

Subject(r) == Head(runner[r].todo).table

Proceed(r, skipped) ==
  runner' = [runner EXCEPT ![r].todo = SubSeq(@, skipped + 2, Len(@))]

(* The migration returns early: what follows is the record of it. *)
Return(r) ==
  LET todo == runner[r].todo IN
  Proceed(r, Min({i \in DOMAIN todo : todo[i].do = "record"}) - 2)

Kept == UNCHANGED <<client, together, named, first, interrupted>>

(* A statement that succeeds and leaves the database as `changed`. *)
Done(r, changed) == db' = changed /\ Proceed(r, 0) /\ Kept

(* ensureMigrationsTable, and the names already recorded. *)
HasControl(r) ==
  /\ Ready(r, "hasControl")
  /\ Proceed(r, IF db.control THEN 1 ELSE 0)
  /\ UNCHANGED db /\ Kept

CreateControl(r) ==
  /\ Ready(r, "createControl")
  /\ IF db.control THEN Fail(r) ELSE Done(r, [db EXCEPT !.control = TRUE])

SelectExecuted(r) ==
  /\ Ready(r, "selectExecuted")
  /\ runner' = [runner EXCEPT ![r].todo = Script(db.recorded)]
  /\ UNCHANGED db /\ Kept

(* The names of the control table are unique. *)
Record(r) ==
  /\ Ready(r, "record")
  /\ IF Subject(r) \in db.recorded THEN Fail(r)
     ELSE Done(r, [db EXCEPT !.recorded = @ \cup {Subject(r)}])

(* Mutant: a table that exists ends its migration. *)
HasTableReturning(r) ==
  /\ Ready(r, "hasTable")
  /\ IF Exists(Subject(r)) THEN Return(r) ELSE Proceed(r, 0)
  /\ UNCHANGED db /\ Kept

(* A table that exists keeps the keys it has: both statements are skipped. *)
HasTable(r) ==
  /\ Ready(r, "hasTable")
  /\ Proceed(r, IF Exists(Subject(r)) THEN 2 ELSE 0)
  /\ UNCHANGED db /\ Kept

CreateTable(r) ==
  LET t == Subject(r) IN
  /\ Ready(r, "createTable")
  /\ IF Exists(t) THEN Fail(r)
     ELSE Done(r, [db EXCEPT !.tables[t] = TableOf(KnexTable[t].columns, {}),
                             !.keyless = @ \cup {t}])

(* The unique keys are the first that knex sends; duplicate rows refuse the  *)
(* first of them.                                                            *)
CreateKeys(r) ==
  LET t == Subject(r)
      keys == KnexTable[t].keys
      uniques == {key \in keys : isUnique(key)} IN
  /\ Ready(r, "createKeys")
  /\ IF \E key \in uniques : KeyRefused(t, key) THEN Fail(r)
     ELSE IF keys \cap db.tables[t].keys # {}
     THEN FailLeaving(r, [db EXCEPT !.tables[t].keys = @ \cup uniques])
     ELSE Done(r, [db EXCEPT !.tables[t].keys = @ \cup keys,
                             !.keyless = @ \ {t}])

CheckIdentifiers(r) ==
  /\ Ready(r, "checkIdentifiers")
  /\ IF db.sharedRef THEN Fail(r) ELSE Done(r, db)

CountAttempts(r) ==
  /\ Ready(r, "countAttempts")
  /\ Proceed(r, IF \E p \in db.payments : db.attempts[p] > 0 THEN 1 ELSE 0)
  /\ UNCHANGED db /\ Kept

(* One attempt, numbered 1, for every payment, in one statement. *)
InsertAttempts(r) ==
  /\ Ready(r, "insertAttempts")
  /\ IF /\ \E p \in db.payments : db.attempts[p] > 0
        /\ Has("transactionAttempts", uniqueName(<<"transaction_id", "attempt_number">>))
     THEN Fail(r)
     ELSE Done(r, [db EXCEPT !.attempts =
            [p \in Payment |-> IF p \in db.payments THEN @[p] + 1 ELSE @[p]]])

RequireTable(r) ==
  /\ Ready(r, "requireTable")
  /\ IF Exists(Subject(r)) THEN Proceed(r, 0) ELSE Return(r)
  /\ UNCHANGED db /\ Kept

HasColumn(r) ==
  /\ Ready(r, "hasColumn")
  /\ IF NewColumn[Subject(r)] \in db.tables[Subject(r)].columns
     THEN Return(r) ELSE Proceed(r, 0)
  /\ UNCHANGED db /\ Kept

(* pos_id comes with an index of its own. *)
AddColumn(r) ==
  LET t == Subject(r)
      keys == IF t = "transactions" THEN Indexes({<<"pos_id">>}) ELSE {} IN
  /\ Ready(r, "addColumn")
  /\ IF NewColumn[t] \in db.tables[t].columns THEN Fail(r)
     ELSE Done(r, [db EXCEPT !.tables[t] =
                     TableOf(@.columns \cup {NewColumn[t]}, @.keys \cup keys)])

FillContexts(r) ==
  /\ Ready(r, "fillContexts")
  /\ Done(r, [db EXCEPT !.limits =
                [i \in DOMAIN @ |-> [@[i] EXCEPT !.context = ""]]])

FindDuplicates(r) ==
  /\ Ready(r, "findDuplicates")
  /\ Proceed(r, IF DuplicateLimits THEN 0 ELSE 2)
  /\ UNCHANGED db /\ Kept

(* The rows are read and the oldest one gets their sum and latest instant;   *)
(* with fewer than two rows left nothing is written.                         *)
UpdateKept(r) ==
  /\ Ready(r, "updateKept")
  /\ IF Len(db.limits) < 2
     THEN Proceed(r, 1) /\ UNCHANGED db /\ Kept
     ELSE Done(r, [db EXCEPT !.limits[1] = merged(db.limits)])

DeleteDuplicates(r) ==
  /\ Ready(r, "deleteDuplicates")
  /\ Done(r, [db EXCEPT !.limits = SubSeq(@, 1, 1)])

(* The key is there: the error is swallowed.  Inside PostgreSQL's            *)
(* transaction it still makes every later statement fail.                    *)
AddKey(r) ==
  LET t == Subject(r) IN
  /\ Ready(r, "addKey")
  /\ IF Has(t, NewKey[t])
     THEN /\ runner' = [runner EXCEPT ![r].todo = Tail(@),
                                      ![r].aborted = Transactional(r)]
          /\ UNCHANGED db /\ Kept
     ELSE IF KeyRefused(t, NewKey[t]) THEN Fail(r)
     ELSE Done(r, [db EXCEPT !.tables[t].keys = @ \cup {NewKey[t]}])

(* The same inside a transaction of its own, a savepoint on PostgreSQL. *)
AddKeyInSavepoint(r) ==
  LET t == Subject(r) IN
  /\ Ready(r, "addKeyInSavepoint")
  /\ IF ~Has(t, NewKey[t]) /\ KeyRefused(t, NewKey[t]) THEN Fail(r)
     ELSE Done(r, [db EXCEPT !.tables[t].keys = @ \cup {NewKey[t]}])

(* current transaction is aborted: the next statement is refused. *)
Refused(r) ==
  /\ Running(r)
  /\ runner[r].aborted
  /\ Fail(r)

-----------------------------------------------------------------------------
(* The statements of the Drizzle adapter. *)

CreateIfNotExists(r) ==
  LET t == Subject(r)
      keys == IF client = "mysql2" THEN tableSpec[t].keys ELSE inlineUniques(t)
  IN
  /\ Ready(r, "createIfNotExists")
  /\ Done(r, IF Exists(t) THEN db
             ELSE [db EXCEPT !.tables[t] = TableOf(tableSpec[t].columns, keys),
                             !.keyless = IF keys = tableSpec[t].keys
                                         THEN @ ELSE @ \cup {t}])

(* Mutant: the adapter asks whether its tables exist, not their columns. *)
assertTablesExist(r) ==
  /\ Ready(r, "assertColumnsExist")
  /\ IF Exists(Subject(r)) THEN Done(r, db) ELSE Fail(r)

assertColumnsExist(r) ==
  LET t == Subject(r) IN
  /\ Ready(r, "assertColumnsExist")
  /\ IF tableSpec[t].columns \subseteq db.tables[t].columns
     THEN Done(r, db) ELSE Fail(r)

CreateIndexes(r) ==
  LET t == Subject(r)
      missing == standaloneIndexes(t) \ db.tables[t].keys IN
  /\ Ready(r, "createIndexes")
  /\ IF \E key \in missing : KeyRefused(t, key) THEN Fail(r)
     ELSE Done(r, [db EXCEPT !.tables[t].keys = @ \cup missing,
                             !.keyless = @ \ {u \in {t} : inlineUniques(u)
                                            \subseteq db.tables[u].keys}])

-----------------------------------------------------------------------------
Init ==
  /\ client \in {"pg", "mysql2", "better-sqlite3"}
  /\ together \in IF client = "better-sqlite3" THEN BOOLEAN ELSE {FALSE}
  /\ db \in Database
  /\ first = db
  /\ runner \in {[r \in Runner |-> Idle(adapter[r], 0)] :
                   adapter \in [Runner -> {"knex", "drizzle"}]}
  /\ named = "none"
  /\ interrupted = FALSE

KnexStatement(r) ==
  \/ HasControl(r) \/ CreateControl(r) \/ SelectExecuted(r) \/ Record(r)
  \/ HasTable(r) \/ CreateTable(r) \/ CreateKeys(r)
  \/ CheckIdentifiers(r) \/ CountAttempts(r) \/ InsertAttempts(r)
  \/ RequireTable(r) \/ HasColumn(r) \/ AddColumn(r)
  \/ FillContexts(r) \/ FindDuplicates(r) \/ UpdateKept(r)
  \/ DeleteDuplicates(r) \/ AddKey(r) \/ AddKeyInSavepoint(r) \/ Refused(r)

DrizzleStatement(r) ==
  CreateIfNotExists(r) \/ assertColumnsExist(r) \/ CreateIndexes(r)

Next ==
  \E r \in Runner :
    \/ withMigrationLock(r) \/ KnexStatement(r) \/ DrizzleStatement(r)
    \/ Finish(r) \/ Crash(r) \/ Restart(r)

Spec == Init /\ [][Next]_vars

-----------------------------------------------------------------------------
(* Properties. *)

(* A table lacks its keys only where a run died, failed or met another one.  *)
Excused == IF interrupted THEN db.keyless ELSE {}

(* A migration that the control table records has been applied, whatever     *)
(* runs died or met in it: a rerun skips it for ever                         *)
(* (auto-migrate.ts:23-32).  The old payments have exactly one attempt each, *)
(* save where a death left the attempts without the key that refuses a       *)
(* second backfill.                                                          *)
RecordedIsApplied == \A m \in db.recorded : Applied(db, m, Excused)

(* Merging the duplicate rows of a limit never makes it milder: the hits     *)
(* add up to at least those counted before, the block lasts as long; and a   *)
(* merge no other run met and no death cut counts nothing twice              *)
(* (add-rate-limit-unique-index.ts:58-88).                                   *)
LimitsNotLoosened ==
  /\ SumHits(db.limits) >= SumHits(first.limits)
  /\ Latest(db.limits) = Latest(first.limits)
  /\ Len(db.limits) = 1 /\ ~interrupted =>
       SumHits(db.limits) = SumHits(first.limits)

(* A finished run of either adapter leaves every table with the columns the  *)
(* Drizzle adapter writes, and with the unique keys the repositories rely on *)
(* (drizzle-storage.ts:106-121, auto-migrate.ts:15-36).                      *)
FinishedIsCurrent ==
  \A r \in Runner : runner[r].phase = "done" =>
    \A t \in Tables : tableSpec[t].columns \subseteq db.tables[t].columns
                      /\ Keyed(db, t, Excused)

(* The keys that make 0003 and 0008 fail on PostgreSQL when already there.   *)
KeyBefore(r) ==
  \/ 3 \notin runner[r].before.recorded
       /\ NewKey["transactions"] \in runner[r].before.tables["transactions"].keys
  \/ 8 \notin runner[r].before.recorded
       /\ NewKey["requestMetadata"] \in runner[r].before.tables["requestMetadata"].keys

Fails(r) == Running(r) /\ runner'[r].phase = "failed"

Older(t) == ~(tableSpec[t].columns \subseteq db.tables[t].columns)

Cause(r) ==
  \/ db.sharedRef
  \/ Transactional(r) /\ KeyBefore(r)
  \/ runner[r].adapter = "drizzle"
       /\ (DuplicateLimits \/ DuplicateAttempts \/ \E t \in Tables : Older(t))

(* A run that met no other fails only for a reason rerunning cannot mend:    *)
(* duplicate data, a key already there on PostgreSQL, or, for Drizzle, a     *)
(* table of an older release.  A death at any point of an earlier run is no  *)
(* such reason: the rerun gets through (auto-migrate.ts:15-36).              *)
FailureHasCause ==
  [][\A r \in Runner : Fails(r) /\ runner[r].alone => Cause(r)]_vars

=============================================================================
