-------------------------- MODULE MigrationsProofs --------------------------
(***************************************************************************)
(* What is recorded is applied, a limit is never loosened, a finished run  *)
(* leaves the schema that the code writes to, and only known causes fail a *)
(* run: for any number of runs of either adapter at once, any payments,    *)
(* on every server, whatever dies and starts again.                        *)
(***************************************************************************)
EXTENDS Migrations, Integers, FiniteSetTheorems, SequenceTheorems, WellFoundedInduction, TLAPS

---------------------------------------------------------------------------
(* The statements of a run, in their order.                                 *)

Base ==
    [transactions |-> 110, transactionItems |-> 120, invoices |-> 130, requestMetadata |-> 140,
     rateLimits |-> 150, blacklist |-> 160, transactionLogs |-> 210, transactionAttempts |-> 310,
     paymentIntents |-> 410]

Slot ==
    [transactions |-> 1, transactionItems |-> 2, transactionAttempts |-> 3, paymentIntents |-> 4,
     invoices |-> 5, transactionLogs |-> 6, blacklist |-> 7, rateLimits |-> 8, requestMetadata |-> 9]

Required == [rateLimits |-> 501, paymentIntents |-> 601, transactions |-> 701, requestMetadata |-> 801]

Rank(s) ==
    CASE s.do = "hasControl" -> 1
      [] s.do = "createControl" -> 2
      [] s.do = "selectExecuted" -> 3
      [] s.do = "hasTable" -> Base[s.table] + 1
      [] s.do = "createTable" -> Base[s.table] + 2
      [] s.do = "createKeys" -> Base[s.table] + 3
      [] s.do = "checkIdentifiers" -> 301
      [] s.do = "countAttempts" -> 321
      [] s.do = "insertAttempts" -> 322
      [] s.do = "addKey" -> IF s.table = "transactions" THEN 331 ELSE 802
      [] s.do = "requireTable" -> Required[s.table]
      [] s.do = "fillContexts" -> 502
      [] s.do = "findDuplicates" -> 503
      [] s.do = "updateKept" -> 504
      [] s.do = "deleteDuplicates" -> 505
      [] s.do = "addKeyInSavepoint" -> 506
      [] s.do = "hasColumn" -> Required[s.table] + 1
      [] s.do = "addColumn" -> Required[s.table] + 2
      [] s.do = "record" -> 100 * s.table + 99
      [] s.do = "createIfNotExists" -> Slot[s.table]
      [] s.do = "assertColumnsExist" -> 10 + Slot[s.table]
      [] s.do = "createIndexes" -> 20 + Slot[s.table]
      [] OTHER -> 0

(* What a statement is always followed by, for the same table.              *)
Leads ==
    [hasControl |-> "createControl", hasTable |-> "createTable", createTable |-> "createKeys",
     countAttempts |-> "insertAttempts", hasColumn |-> "addColumn",
     fillContexts |-> "findDuplicates", findDuplicates |-> "updateKept",
     updateKept |-> "deleteDuplicates"]

Sorted(q) == \A i, j \in DOMAIN q : i < j => Rank(q[i]) < Rank(q[j])

Led(q) ==
    /\ \A i \in DOMAIN q : q[i].do \in DOMAIN Leads =>
          i + 1 \in DOMAIN q /\ q[i+1] = Statement(Leads[q[i].do], q[i].table)
    /\ \A i \in DOMAIN q : q[i].do = "addColumn" => i + 1 \in DOMAIN q /\ q[i+1].do = "record"
    /\ \A i \in DOMAIN q \ {1} : \A do \in DOMAIN Leads : q[i].do = Leads[do] => q[i-1].do = do

Preparing == ToSet(ensureMigrationsTable)
Select == Statement("selectExecuted", "control")
Statements(m) == ToSet(UpAndRecord(m))
KnexStatements == UNION {Statements(m) : m \in Migration}
DrizzleStatements ==
    {Statement(do, t) : do \in {"createIfNotExists", "assertColumnsExist", "createIndexes"}, t \in Tables}

(* Of a run R: what it has sent of its script, and what it sends next.      *)
Passed(R) ==
    IF R.adapter = "drizzle" THEN DrizzleStatements \ ToSet(R.todo)
    ELSE IF Select \in ToSet(R.todo) THEN {} ELSE KnexStatements \ ToSet(R.todo)

At(R, do, t) == R.todo # <<>> /\ R.todo[1] = Statement(do, t)

TodoOK(R, c) ==
    /\ Sorted(R.todo) /\ Led(R.todo)
    /\ R.todo \in Seq(
         IF R.adapter = "drizzle" THEN DrizzleStatements
          ELSE IF Select \in ToSet(R.todo) THEN Preparing ELSE KnexStatements)
    /\ R.adapter = "drizzle" /\ c # "mysql2" => \A t \in Tables :
          Statement("createIfNotExists", t) \in ToSet(R.todo) => Statement("createIndexes", t) \in ToSet(R.todo)

RunFields == {"adapter", "phase", "todo", "before", "aborted", "alone", "restarts"}
RunOK(R, c) ==
    /\ DOMAIN R = RunFields
    /\ R.adapter \in {"knex", "drizzle"}
    /\ R.phase \in {"idle", "running", "done", "failed", "crashed"}
    /\ R.aborted \in BOOLEAN /\ R.alone \in BOOLEAN /\ R.restarts \in Nat
    /\ R.phase # "running" => R.todo = <<>> /\ ~R.aborted
    /\ TodoOK(R, c)

---------------------------------------------------------------------------
(* What the statements of S did to the database d.                          *)
Effects(d, S) ==
    /\ \A t \in Tables : Statement("createTable", t) \in S => KnexTable[t].columns \subseteq d.tables[t].columns
    /\ Statement("insertAttempts", "transactionAttempts") \in S => \A p \in d.payments : d.attempts[p] >= 1
    /\ \A t \in {"transactions", "requestMetadata"} :
          Statement("addKey", t) \in S => NewKey[t] \in d.tables[t].keys
    /\ Statement("addKeyInSavepoint", "rateLimits") \in S => NewKey["rateLimits"] \in d.tables["rateLimits"].keys
    /\ Statement("deleteDuplicates", "rateLimits") \in S => Len(d.limits) <= 1
    /\ \A t \in DOMAIN NewColumn :
          Statement("addColumn", t) \in S => NewColumn[t] \in d.tables[t].columns
    /\ \A t \in Tables :
          Statement("assertColumnsExist", t) \in S => tableSpec[t].columns \subseteq d.tables[t].columns

LimitRow == [context : {"", "null"}, hits : Nat, blocked : Nat]
Limits == Seq(LimitRow)
NoContext(d) == \A i \in DOMAIN d.limits : d.limits[i].context = ""

(* Before a kept row is left alone, it is as strict as all were, in f.      *)
Top(d, f) ==
    /\ Len(d.limits) >= 1
    /\ d.limits[1].hits >= SumHits(f.limits) /\ d.limits[1].blocked = Latest(f.limits)

KnexUniques(t) == {key \in KnexTable[t].keys : isUnique(key)}
NewTransactions(d) == "pos_id" \in d.tables["transactions"].columns
AttemptNumberKey == uniqueName(<<"transaction_id", "attempt_number">>)
Twice(d) == \E p \in d.payments : d.attempts[p] > 1

(* What waits for its keys is left as it was made.                          *)
Asserted(d, R, f) ==
    /\ At(R, "createKeys", "transactions") =>
         (NewTransactions(d) => NewKey["transactions"] \in d.tables["transactions"].keys)
    /\ At(R, "findDuplicates", "rateLimits") => NoContext(d)
    /\ At(R, "deleteDuplicates", "rateLimits") => Top(d, f)

Holds(d, R, f) == Effects(d, Passed(R)) /\ Asserted(d, R, f)

(* The migrations the run R has not got through.                            *)
Ahead(R) == {m \in Migration : Statements(m) \cap ToSet(R.todo) # {}}

(* What a run that nobody disturbs finds.                                   *)
Quiet(d, R) ==
    /\ At(R, "createControl", "control") => ~d.control
    /\ \A t \in Tables : At(R, "createTable", t) => d.tables[t] = NoTable
    /\ \A t \in Tables : At(R, "createKeys", t) =>
          /\ d.tables[t].keys = {}
          /\ t = "rateLimits" => Len(d.limits) = 0
          /\ t = "transactionAttempts" => \A p \in d.payments : d.attempts[p] = 0
    /\ At(R, "insertAttempts", "transactionAttempts") => \A p \in d.payments : d.attempts[p] = 0
    /\ \A t \in DOMAIN NewColumn : At(R, "addColumn", t) => NewColumn[t] \notin d.tables[t].columns
    /\ Ahead(R) \cap d.recorded = {}

(* A database between two statements.                                       *)
DbShape(d) ==
    /\ TablesOf(d)
    /\ d.recorded \subseteq Migration /\ d.keyless \subseteq Tables
    /\ d.payments \subseteq Payment /\ d.attempts \in [Payment -> Nat]
    /\ d.limits \in Limits

Unmade(d, t) == t \in d.keyless
OldLimits(d) == d.tables["transactions"] # NoTable /\ ~NewTransactions(d)

TablesMade(d) ==
    /\ \A t \in Tables : d.tables[t] # NoTable =>
         /\ KnexTable[t].columns \subseteq d.tables[t].columns
         /\ t # "rateLimits" => KnexUniques(t) \subseteq d.tables[t].keys \/ t \in d.keyless
    /\ d.tables["rateLimits"] # NoTable =>
         KnexUniques("rateLimits") \subseteq d.tables["rateLimits"].keys \/ "rateLimits" \in d.keyless \/ OldLimits(d)
    /\ NewTransactions(d) =>
         NewKey["transactions"] \in d.tables["transactions"].keys \/ "transactions" \in d.keyless

RowsMade(d) ==
    /\ \A p, q \in d.payments : d.attempts[p] = d.attempts[q]
    /\ (\E p \in d.payments : d.attempts[p] > 0) => d.tables["transactionAttempts"] # NoTable
    /\ Twice(d) => /\ "transactionAttempts" \in d.keyless
                   /\ AttemptNumberKey \notin d.tables["transactionAttempts"].keys
    /\ Len(d.limits) > 0 => d.tables["rateLimits"] # NoTable

NotMilder(d, f) ==
    /\ SumHits(f.limits) \in Nat
    /\ SumHits(d.limits) >= SumHits(f.limits) /\ Latest(d.limits) = Latest(f.limits)

DbOK(d, f) ==
    /\ DbShape(d) /\ TablesMade(d) /\ RowsMade(d) /\ NotMilder(d, f)
    /\ Effects(d, UNION {Statements(m) : m \in d.recorded})

---------------------------------------------------------------------------
Live(r) == runner[r].phase \in {"running", "done"}
Undisturbed(r) == runner[r].alone \/ Transactional(r)

RunsHold == \A r \in Runner : Live(r) => Holds(db, runner[r], first)

OneTransaction ==
    \A r \in Runner : Running(r) /\ Transactional(r) =>
        /\ \A s \in Other(r) : Running(s) => runner[s].adapter = "drizzle"
        /\ DbOK(runner[r].before, first)
        /\ \A s \in Other(r) : Live(s) => Holds(runner[r].before, runner[s], first)
        /\ runner[r].before.recorded \subseteq db.recorded
        /\ \A t \in {"transactions", "requestMetadata"} :
              /\ Statement("addKey", t) \notin Passed(runner[r])
              /\ NewKey[t] \in db.tables[t].keys
              => NewKey[t] \in runner[r].before.tables[t].keys

AbortedHasCause ==
    \A r \in Runner : runner[r].aborted => Transactional(r) /\ KeyBefore(r)

Alone ==
    \A r \in Runner : Running(r) =>
        /\ runner[r].alone => \A s \in Other(r) : ~Running(s)
        /\ Undisturbed(r) => Quiet(db, runner[r])

(* The run that is about to create the keys of t.                           *)
Making(R, d, t) ==
    \/ At(R, "createKeys", t)
    \/ Statement("createIndexes", t) \in ToSet(R.todo) /\ inlineUniques(t) \subseteq d.tables[t].keys

KeyedBy == [transactions |-> {3}, transactionAttempts |-> {3}, paymentIntents |-> {4}, rateLimits |-> {5}]

(* What only a run that is not cut short leaves to do.                      *)
Settled(d, R, f) ==
    /\ \A t \in d.keyless : Making(R, d, t) /\ (t \in DOMAIN KeyedBy => KeyedBy[t] \cap d.recorded = {})
    /\ SumHits(d.limits) = SumHits(f.limits) \/ At(R, "deleteDuplicates", "rateLimits")
    /\ At(R, "deleteDuplicates", "rateLimits") => d.limits[1].hits = SumHits(f.limits)

Uninterrupted ==
    /\ \A r, s \in Runner : Running(r) /\ Running(s) => r = s
    /\ \A r \in Runner : Running(r) => Settled(db, runner[r], first)
    /\ (\A r \in Runner : ~Running(r)) => db.keyless = {} /\ SumHits(db.limits) = SumHits(first.limits)
    /\ (\E r \in Runner : runner[r].phase = "done") => db.keyless = {}

IInv ==
    /\ client \in {"pg", "mysql2", "better-sqlite3"}
    /\ together => client = "better-sqlite3"
    /\ together \in BOOLEAN /\ interrupted \in BOOLEAN
    /\ DOMAIN runner = Runner /\ \A r \in Runner : RunOK(runner[r], client)
    /\ DbOK(db, first)
    /\ RunsHold /\ OneTransaction /\ AbortedHasCause /\ Alone
    /\ ~interrupted => Uninterrupted
---------------------------------------------------------------------------
(* The scripts.                                                             *)

Verbs ==
    {"hasControl", "createControl", "selectExecuted", "hasTable", "createTable", "createKeys",
     "checkIdentifiers", "countAttempts", "insertAttempts", "addKey", "requireTable", "fillContexts",
     "findDuplicates", "updateKept", "deleteDuplicates", "addKeyInSavepoint", "hasColumn", "addColumn",
     "record", "createIfNotExists", "assertColumnsExist", "createIndexes"}
Sentence == [do : Verbs, table : Tables \cup Migration \cup {"control"}]

(* A part of a script that can be put after what ranks below lo.            *)
Part(q, lo, hi) ==
    /\ q \in Seq(Sentence) /\ Sorted(q) /\ Led(q)
    /\ \A i \in DOMAIN q : Rank(q[i]) \in Int /\ lo <= Rank(q[i]) /\ Rank(q[i]) < hi
    /\ 1 \in DOMAIN q => \A do \in DOMAIN Leads : q[1].do # Leads[do]

LEMMA TheTables ==
    Tables = {"transactions", "transactionItems", "invoices", "requestMetadata", "rateLimits",
              "blacklist", "transactionLogs", "transactionAttempts", "paymentIntents"}
BY DEF Tables, KnexTable

LEMMA Joined ==
    ASSUME NEW lo \in Int, NEW mid \in Int, NEW hi \in Int, lo <= mid, mid <= hi,
           NEW a, NEW b, Part(a, lo, mid), Part(b, mid, hi)
    PROVE  Part(a \o b, lo, hi)
<1> DEFINE q == a \o b
<1>1. a \in Seq(Sentence) /\ b \in Seq(Sentence) BY DEF Part
<1>2. q \in Seq(Sentence) /\ Len(q) = Len(a) + Len(b) /\ Len(a) \in Nat /\ Len(b) \in Nat
      /\ DOMAIN q = 1..(Len(a) + Len(b)) /\ DOMAIN a = 1..Len(a) /\ DOMAIN b = 1..Len(b)
  BY <1>1
<1>3. \A i \in DOMAIN q : IF i <= Len(a) THEN i \in DOMAIN a /\ q[i] = a[i]
                          ELSE i - Len(a) \in DOMAIN b /\ q[i] = b[i - Len(a)]
  BY <1>1, <1>2
<1> HIDE DEF q
<1>4. \A i \in DOMAIN q : Rank(q[i]) \in Int /\ lo <= Rank(q[i]) /\ Rank(q[i]) < hi
  <2>1. /\ \A i \in DOMAIN a : Rank(a[i]) \in Int /\ lo <= Rank(a[i]) /\ Rank(a[i]) < mid
        /\ \A i \in DOMAIN b : Rank(b[i]) \in Int /\ mid <= Rank(b[i]) /\ Rank(b[i]) < hi
    BY DEF Part
  <2> QED BY <2>1, <1>2, <1>3
<1>5. Sorted(q)
  <2> SUFFICES ASSUME NEW i \in DOMAIN q, NEW j \in DOMAIN q, i < j PROVE Rank(q[i]) < Rank(q[j])
    BY DEF Sorted
  <2>1. CASE j <= Len(a) BY <2>1, <1>2, <1>3 DEF Part, Sorted
  <2>2. CASE i > Len(a)
    <3>1. i - Len(a) \in DOMAIN b /\ j - Len(a) \in DOMAIN b /\ i - Len(a) < j - Len(a)
          /\ q[i] = b[i - Len(a)] /\ q[j] = b[j - Len(a)]
      BY <2>2, <1>2, <1>3
    <3> QED BY <3>1 DEF Part, Sorted
  <2>3. CASE i <= Len(a) /\ j > Len(a) BY <2>3, <1>2, <1>3 DEF Part
  <2> QED BY <2>1, <2>2, <2>3, <1>2
<1>6. Led(q)
  <2>1. ASSUME NEW i \in DOMAIN q, q[i].do \in DOMAIN Leads
        PROVE  i + 1 \in DOMAIN q /\ q[i+1] = Statement(Leads[q[i].do], q[i].table)
    <3>1. CASE i <= Len(a)
      <4>1. i \in DOMAIN a /\ q[i] = a[i] BY <3>1, <1>3
      <4>2. i + 1 \in DOMAIN a /\ a[i+1] = Statement(Leads[a[i].do], a[i].table) BY <4>1, <2>1 DEF Part, Led
      <4>3. q[i+1] = a[i+1] /\ i + 1 \in DOMAIN q BY <4>2, <1>2, <1>3
      <4> QED BY <4>1, <4>2, <4>3
    <3>2. CASE i > Len(a)
      <4> DEFINE k == i - Len(a)
      <4>1. k \in DOMAIN b /\ q[i] = b[k] BY <3>2, <1>2, <1>3
      <4>2. k + 1 \in DOMAIN b /\ b[k+1] = Statement(Leads[b[k].do], b[k].table) BY <4>1, <2>1 DEF Part, Led
      <4>3. q[i+1] = b[k+1] /\ i + 1 \in DOMAIN q BY <4>2, <3>2, <1>2, <1>3
      <4> QED BY <4>1, <4>2, <4>3
    <3> QED BY <3>1, <3>2, <1>2
  <2>2. ASSUME NEW i \in DOMAIN q, q[i].do = "addColumn" PROVE i + 1 \in DOMAIN q /\ q[i+1].do = "record"
    <3>1. CASE i <= Len(a)
      <4>1. i \in DOMAIN a /\ q[i] = a[i] BY <3>1, <1>3
      <4>2. i + 1 \in DOMAIN a /\ a[i+1].do = "record" BY <4>1, <2>2 DEF Part, Led
      <4>3. q[i+1] = a[i+1] /\ i + 1 \in DOMAIN q BY <4>2, <1>2, <1>3
      <4> QED BY <4>1, <4>2, <4>3
    <3>2. CASE i > Len(a)
      <4> DEFINE k == i - Len(a)
      <4>1. k \in DOMAIN b /\ q[i] = b[k] BY <3>2, <1>2, <1>3
      <4>2. k + 1 \in DOMAIN b /\ b[k+1].do = "record" BY <4>1, <2>2 DEF Part, Led
      <4>3. q[i+1] = b[k+1] /\ i + 1 \in DOMAIN q BY <4>2, <3>2, <1>2, <1>3
      <4> QED BY <4>1, <4>2, <4>3
    <3> QED BY <3>1, <3>2, <1>2
  <2>3. ASSUME NEW i \in DOMAIN q \ {1}, NEW do \in DOMAIN Leads, q[i].do = Leads[do] PROVE q[i-1].do = do
    <3>1. CASE i <= Len(a)
      <4>1. i \in DOMAIN a \ {1} /\ q[i] = a[i] /\ q[i-1] = a[i-1] BY <3>1, <1>2, <1>3
      <4>2. a[i-1].do = do BY <4>1, <2>3 DEF Part, Led
      <4> QED BY <4>1, <4>2
    <3>2. CASE i > Len(a)
      <4> DEFINE k == i - Len(a)
      <4>1. k \in DOMAIN b /\ q[i] = b[k] BY <3>2, <1>2, <1>3
      <4>2. k # 1 BY <4>1, <2>3 DEF Part
      <4>3. b[k-1].do = do BY <4>1, <4>2, <2>3 DEF Part, Led
      <4>4. q[i-1] = b[k-1] BY <4>1, <4>2, <3>2, <1>2, <1>3
      <4> QED BY <4>3, <4>4
    <3> QED BY <3>1, <3>2, <1>2
  <2> QED BY <2>1, <2>2, <2>3 DEF Led
<1>7. 1 \in DOMAIN q => \A do \in DOMAIN Leads : q[1].do # Leads[do]
  <2>1. CASE 1 \in DOMAIN a
    <3>1. q[1] = a[1] BY <2>1, <1>2, <1>3
    <3> QED BY <2>1, <3>1 DEF Part
  <2>2. CASE 1 \notin DOMAIN a
    <3>1. Len(a) = 0 BY <2>2, <1>2
    <3>2. 1 \in DOMAIN q => 1 \in DOMAIN b /\ q[1] = b[1] BY <3>1, <1>2, <1>3
    <3> QED BY <3>2 DEF Part
  <2> QED BY <2>1, <2>2
<1> QED BY <1>2, <1>4, <1>5, <1>6, <1>7 DEF Part, q

(* The ranks of the statements. *)
LEMMA Ranks ==
    /\ \A t \in Tables : /\ Rank(Statement("hasTable", t)) = Base[t] + 1
                         /\ Rank(Statement("createTable", t)) = Base[t] + 2
                         /\ Rank(Statement("createKeys", t)) = Base[t] + 3
                         /\ Base[t] \in Int /\ 110 <= Base[t] /\ Base[t] <= 410
    /\ \A m \in Migration : Rank(Statement("record", m)) = 100 * m + 99
    /\ Rank(Statement("checkIdentifiers", "transactions")) = 301
    /\ Rank(Statement("countAttempts", "transactionAttempts")) = 321
    /\ Rank(Statement("insertAttempts", "transactionAttempts")) = 322
    /\ Rank(Statement("addKey", "transactions")) = 331
    /\ Rank(Statement("addKey", "requestMetadata")) = 802
    /\ Rank(Statement("fillContexts", "rateLimits")) = 502
    /\ Rank(Statement("findDuplicates", "rateLimits")) = 503
    /\ Rank(Statement("updateKept", "rateLimits")) = 504
    /\ Rank(Statement("deleteDuplicates", "rateLimits")) = 505
    /\ Rank(Statement("addKeyInSavepoint", "rateLimits")) = 506
    /\ \A t \in DOMAIN Required : Rank(Statement("requireTable", t)) = Required[t]
    /\ \A t \in DOMAIN NewColumn : /\ Rank(Statement("hasColumn", t)) = Required[t] + 1
                                   /\ Rank(Statement("addColumn", t)) = Required[t] + 2
<1>1. \A t \in Tables : /\ Rank(Statement("hasTable", t)) = Base[t] + 1
                        /\ Rank(Statement("createTable", t)) = Base[t] + 2
                        /\ Rank(Statement("createKeys", t)) = Base[t] + 3
                        /\ Base[t] \in Int /\ 110 <= Base[t] /\ Base[t] <= 410
  BY TheTables DEF Rank, Statement, Base
<1>2. \A m \in Migration : Rank(Statement("record", m)) = 100 * m + 99
  BY DEF Rank, Statement
<1>3. /\ Rank(Statement("checkIdentifiers", "transactions")) = 301
    /\ Rank(Statement("countAttempts", "transactionAttempts")) = 321
    /\ Rank(Statement("insertAttempts", "transactionAttempts")) = 322
    /\ Rank(Statement("addKey", "transactions")) = 331
    /\ Rank(Statement("addKey", "requestMetadata")) = 802
    /\ Rank(Statement("fillContexts", "rateLimits")) = 502
    /\ Rank(Statement("findDuplicates", "rateLimits")) = 503
    /\ Rank(Statement("updateKept", "rateLimits")) = 504
    /\ Rank(Statement("deleteDuplicates", "rateLimits")) = 505
    /\ Rank(Statement("addKeyInSavepoint", "rateLimits")) = 506
  BY DEF Rank, Statement
<1>4. \A t \in DOMAIN Required : Rank(Statement("requireTable", t)) = Required[t]
  BY DEF Rank, Statement, Required
<1>5. \A t \in DOMAIN NewColumn : /\ Rank(Statement("hasColumn", t)) = Required[t] + 1
                                  /\ Rank(Statement("addColumn", t)) = Required[t] + 2
  BY DEF Rank, Statement, Required, NewColumn
<1> QED BY <1>1, <1>2, <1>3, <1>4, <1>5

(* One statement, and three that go together. *)
LEMMA Single ==
    ASSUME NEW s \in Sentence, s.do \notin DOMAIN Leads, s.do # "addColumn",
           \A do \in DOMAIN Leads : s.do # Leads[do],
           NEW lo \in Int, NEW hi \in Int, Rank(s) \in Int, lo <= Rank(s), Rank(s) < hi
    PROVE  Part(<<s>>, lo, hi)
<1>1. <<s>> \in Seq(Sentence) /\ DOMAIN <<s>> = {1} /\ <<s>>[1] = s OBVIOUS
<1> DEFINE q == <<s>>
<1> HIDE DEF q
<1>2. Sorted(q) BY <1>1 DEF Sorted, q
<1>3. Led(q) BY <1>1 DEF Led, q
<1> QED BY <1>1, <1>2, <1>3 DEF Part, q

LEMMA LeadsTo ==
    /\ DOMAIN Leads = {"hasControl", "hasTable", "createTable", "countAttempts", "hasColumn",
                       "fillContexts", "findDuplicates", "updateKept"}
    /\ Leads["hasControl"] = "createControl" /\ Leads["hasTable"] = "createTable"
    /\ Leads["createTable"] = "createKeys" /\ Leads["countAttempts"] = "insertAttempts"
    /\ Leads["hasColumn"] = "addColumn" /\ Leads["fillContexts"] = "findDuplicates"
    /\ Leads["findDuplicates"] = "updateKept" /\ Leads["updateKept"] = "deleteDuplicates"
BY DEF Leads

LEMMA TableParts ==
    \A t \in Tables : Part(CreateIfMissing(t), Base[t], Base[t] + 10)
<1> SUFFICES ASSUME NEW t \in Tables PROVE Part(CreateIfMissing(t), Base[t], Base[t] + 10)
  OBVIOUS
<1> DEFINE a == Statement("hasTable", t)
           b == Statement("createTable", t)
           c == Statement("createKeys", t)
           q == <<a, b, c>>
<1>1. CreateIfMissing(t) = q BY DEF CreateIfMissing
<1>2. a \in Sentence /\ b \in Sentence /\ c \in Sentence BY DEF Sentence, Verbs, Statement
<1>3. Rank(a) = Base[t] + 1 /\ Rank(b) = Base[t] + 2 /\ Rank(c) = Base[t] + 3 /\ Base[t] \in Int
  BY Ranks
<1>4. a.do = "hasTable" /\ b.do = "createTable" /\ c.do = "createKeys"
      /\ a.table = t /\ b.table = t /\ c.table = t
  BY DEF Statement
<1>5. b = Statement("createTable", a.table) /\ c = Statement("createKeys", b.table) BY <1>4
<1> HIDE DEF a, b, c
<1>6. q \in Seq(Sentence) /\ DOMAIN q = 1..3 /\ q[1] = a /\ q[2] = b /\ q[3] = c BY <1>2
<1> HIDE DEF q
<1>7. Sorted(q) BY <1>3, <1>6 DEF Sorted
<1>8. Led(q)
  <2>1. \A i \in DOMAIN q : q[i].do \in DOMAIN Leads =>
          i + 1 \in DOMAIN q /\ q[i+1] = Statement(Leads[q[i].do], q[i].table)
    BY <1>4, <1>5, <1>6, LeadsTo
  <2>2. \A i \in DOMAIN q : q[i].do # "addColumn" BY <1>4, <1>6
  <2>3. \A i \in DOMAIN q \ {1} : \A do \in DOMAIN Leads : q[i].do = Leads[do] => q[i-1].do = do
    BY <1>4, <1>6, LeadsTo
  <2> QED BY <2>1, <2>2, <2>3 DEF Led
<1>9. \A do \in DOMAIN Leads : q[1].do # Leads[do] BY <1>4, <1>6, LeadsTo
<1> QED BY <1>1, <1>3, <1>6, <1>7, <1>8, <1>9 DEF Part

LEMMA RecordPart ==
    \A m \in Migration : Part(<<Statement("record", m)>>, 100 * m + 99, 100 * m + 100)
<1> SUFFICES ASSUME NEW m \in Migration
             PROVE  Part(<<Statement("record", m)>>, 100 * m + 99, 100 * m + 100)
  OBVIOUS
<1> DEFINE s == Statement("record", m)
<1> SUFFICES Part(<<s>>, 100 * m + 99, 100 * m + 100) OBVIOUS
<1>1. s \in Sentence /\ s.do = "record" BY DEF Sentence, Verbs, Statement
<1>2. Rank(s) = 100 * m + 99 BY Ranks
<1>3. m \in Int BY DEF Migration
<1> HIDE DEF s
<1>4. 100 * m + 99 \in Int /\ 100 * m + 100 \in Int /\ 100 * m + 99 < 100 * m + 100 BY <1>3
<1> QED BY <1>1, <1>2, <1>4, LeadsTo, Single
  
(* The statements on the attempts and on the rate limits. *)
LEMMA BackfillPart == Part(backfillAttempts, 321, 331)
<1> DEFINE a == Statement("countAttempts", "transactionAttempts")
           b == Statement("insertAttempts", "transactionAttempts")
           q == <<a, b>>
<1>1. backfillAttempts = q BY DEF backfillAttempts
<1>2. a \in Sentence /\ b \in Sentence BY TheTables DEF Sentence, Verbs, Statement
<1>3. Rank(a) = 321 /\ Rank(b) = 322 BY Ranks
<1>4. a.do = "countAttempts" /\ b.do = "insertAttempts" /\ b = Statement("insertAttempts", a.table)
  BY DEF Statement
<1> HIDE DEF a, b
<1>5. q \in Seq(Sentence) /\ DOMAIN q = 1..2 /\ q[1] = a /\ q[2] = b BY <1>2
<1> HIDE DEF q
<1>6. Sorted(q) BY <1>3, <1>5 DEF Sorted
<1>7. Led(q) BY <1>4, <1>5, LeadsTo DEF Led
<1>8. \A do \in DOMAIN Leads : q[1].do # Leads[do] BY <1>4, <1>5, LeadsTo
<1> QED BY <1>1, <1>3, <1>5, <1>6, <1>7, <1>8 DEF Part

LEMMA LimitsPart == Part(addRateLimitUniqueIndex, 501, 599)
<1> DEFINE s(do) == Statement(do, "rateLimits")
           q == addRateLimitUniqueIndex
<1>1. q = <<s("requireTable"), s("fillContexts"), s("findDuplicates"), s("updateKept"),
            s("deleteDuplicates"), s("addKeyInSavepoint")>>
  BY DEF addRateLimitUniqueIndex
<1>2. \A do \in Verbs : s(do) \in Sentence /\ s(do).do = do /\ s(do).table = "rateLimits"
  BY TheTables DEF Sentence, Statement
<1>3. /\ Rank(s("requireTable")) = 501 /\ Rank(s("fillContexts")) = 502
      /\ Rank(s("findDuplicates")) = 503 /\ Rank(s("updateKept")) = 504
      /\ Rank(s("deleteDuplicates")) = 505 /\ Rank(s("addKeyInSavepoint")) = 506
  BY Ranks DEF Required
<1> HIDE DEF q
<1>4. q \in Seq(Sentence) /\ DOMAIN q = 1..6 /\ q[1] = s("requireTable") /\ q[2] = s("fillContexts")
      /\ q[3] = s("findDuplicates") /\ q[4] = s("updateKept") /\ q[5] = s("deleteDuplicates")
      /\ q[6] = s("addKeyInSavepoint")
  <2> HIDE DEF s
  <2> QED BY <1>1, <1>2 DEF Verbs
<1>5. q[1].do = "requireTable" /\ q[2].do = "fillContexts" /\ q[3].do = "findDuplicates"
      /\ q[4].do = "updateKept" /\ q[5].do = "deleteDuplicates" /\ q[6].do = "addKeyInSavepoint"
      /\ \A i \in 1..6 : q[i].table = "rateLimits"
  BY <1>4, <1>2 DEF Verbs
<1>6. Sorted(q)
  <2> HIDE DEF s
  <2> QED BY <1>3, <1>4 DEF Sorted
<1>7. Led(q)
  <2>1. \A i \in DOMAIN q : q[i].do \in DOMAIN Leads =>
          i + 1 \in DOMAIN q /\ q[i+1] = Statement(Leads[q[i].do], q[i].table)
    BY <1>4, <1>5, LeadsTo
  <2>2. \A i \in DOMAIN q : q[i].do # "addColumn" BY <1>4, <1>5
  <2>3. \A i \in DOMAIN q \ {1} : \A do \in DOMAIN Leads : q[i].do = Leads[do] => q[i-1].do = do
    BY <1>4, <1>5, LeadsTo
  <2> QED BY <2>1, <2>2, <2>3 DEF Led
<1>8. \A do \in DOMAIN Leads : q[1].do # Leads[do] BY <1>5, LeadsTo
<1> QED
  <2> HIDE DEF s
  <2> QED BY <1>3, <1>4, <1>6, <1>7, <1>8 DEF Part, q

LEMMA FourTogether ==
    ASSUME NEW a, NEW b, NEW c, NEW d
    PROVE  <<a, b, c>> \o <<d>> = <<a, b, c, d>>
<1> DEFINE p == <<a, b, c>>
           q == <<a, b, c, d>>
<1>1. p \in Seq({a, b, c, d}) /\ <<d>> \in Seq({a, b, c, d}) /\ q \in Seq({a, b, c, d})
  OBVIOUS
<1>2. Len(p \o <<d>>) = Len(q) BY <1>1
<1>3. \A i \in 1..Len(q) : (p \o <<d>>)[i] = q[i] BY <1>1
<1>4. p \o <<d>> \in Seq({a, b, c, d}) BY <1>1
<1> HIDE DEF p, q
<1> QED BY <1>1, <1>2, <1>3, <1>4, SeqEqual DEF p, q

(* A column, and the record of its migration. *)
LEMMA ColumnPart ==
    ASSUME NEW t \in DOMAIN NewColumn, NEW m \in Migration, Required[t] = 100 * m + 1
    PROVE  Part(<<Statement("requireTable", t), Statement("hasColumn", t), Statement("addColumn", t)>>
                  \o <<Statement("record", m)>>, 100 * m, 100 * m + 100)
<1> DEFINE a == Statement("requireTable", t)
           b == Statement("hasColumn", t)
           c == Statement("addColumn", t)
           d == Statement("record", m)
           q == <<a, b, c, d>>
<1>1. <<a, b, c>> \o <<d>> = q BY FourTogether
<1>2. a \in Sentence /\ b \in Sentence /\ c \in Sentence /\ d \in Sentence
  BY TheTables DEF Sentence, Verbs, Statement, NewColumn
<1>3. t \in DOMAIN Required BY DEF NewColumn, Required
<1>4. Rank(a) = 100 * m + 1 /\ Rank(b) = 100 * m + 2 /\ Rank(c) = 100 * m + 3 /\ Rank(d) = 100 * m + 99
  BY <1>3, Ranks DEF Migration
<1>5. a.do = "requireTable" /\ b.do = "hasColumn" /\ c.do = "addColumn" /\ d.do = "record"
      /\ c = Statement("addColumn", b.table)
  BY DEF Statement
<1>6. m \in Int BY DEF Migration
<1> HIDE DEF a, b, c, d
<1>7. q \in Seq(Sentence) /\ DOMAIN q = 1..4 /\ q[1] = a /\ q[2] = b /\ q[3] = c /\ q[4] = d BY <1>2
<1> HIDE DEF q
<1>8. Sorted(q) BY <1>4, <1>6, <1>7 DEF Sorted
<1>9. Led(q) BY <1>5, <1>7, LeadsTo DEF Led
<1>10. \A do \in DOMAIN Leads : q[1].do # Leads[do] BY <1>5, <1>7, LeadsTo
<1>11. \A i \in DOMAIN q : Rank(q[i]) \in Int /\ 100 * m <= Rank(q[i]) /\ Rank(q[i]) < 100 * m + 100
  BY <1>4, <1>6, <1>7
<1> QED BY <1>1, <1>7, <1>8, <1>9, <1>10, <1>11 DEF Part, a, b, c, d

LEMMA Widened ==
    ASSUME NEW lo \in Int, NEW hi \in Int, NEW low \in Int, NEW high \in Int, low <= lo, hi <= high,
           NEW q, Part(q, lo, hi)
    PROVE  Part(q, low, high)
<1>1. \A i \in DOMAIN q : Rank(q[i]) \in Int /\ lo <= Rank(q[i]) /\ Rank(q[i]) < hi BY DEF Part
<1>2. \A i \in DOMAIN q : Rank(q[i]) \in Int /\ low <= Rank(q[i]) /\ Rank(q[i]) < high BY <1>1
<1> QED BY <1>2 DEF Part

LEMMA Together ==
    ASSUME NEW a \in Seq(Sentence), NEW b \in Seq(Sentence)
    PROVE  a \o b \in Seq(Sentence) /\ ToSet(a \o b) = ToSet(a) \cup ToSet(b)
<1>1. /\ a \o b \in Seq(Sentence) /\ Len(a) \in Nat /\ Len(b) \in Nat
      /\ DOMAIN (a \o b) = 1..(Len(a) + Len(b)) /\ DOMAIN a = 1..Len(a) /\ DOMAIN b = 1..Len(b)
  OBVIOUS
<1>2. \A i \in DOMAIN (a \o b) : IF i <= Len(a) THEN i \in DOMAIN a /\ (a \o b)[i] = a[i]
                                 ELSE i - Len(a) \in DOMAIN b /\ (a \o b)[i] = b[i - Len(a)]
  BY <1>1
<1>3. \A i \in DOMAIN a : i \in DOMAIN (a \o b) /\ (a \o b)[i] = a[i] BY <1>1
<1>4. \A i \in DOMAIN b : i + Len(a) \in DOMAIN (a \o b) /\ (a \o b)[i + Len(a)] = b[i] BY <1>1
<1>5. ToSet(a \o b) \subseteq ToSet(a) \cup ToSet(b) BY <1>2 DEF ToSet
<1>6. ToSet(a) \subseteq ToSet(a \o b) BY <1>3 DEF ToSet
<1>7. ToSet(b) \subseteq ToSet(a \o b) BY <1>4 DEF ToSet
<1> QED BY <1>1, <1>5, <1>6, <1>7

LEMMA RecordLast ==
    ASSUME NEW m \in Migration, Part(SISP_MIGRATIONS[m], 100 * m, 100 * m + 99)
    PROVE  Part(UpAndRecord(m), 100 * m, 100 * m + 100)
<1>1. m \in Int BY DEF Migration
<1>2. Part(<<Statement("record", m)>>, 100 * m + 99, 100 * m + 100) BY RecordPart
<1>3. 100 * m \in Int /\ 100 * m + 99 \in Int /\ 100 * m + 100 \in Int /\ 100 * m <= 100 * m + 99
      /\ 100 * m + 99 <= 100 * m + 100
  BY <1>1
<1>4. Part(SISP_MIGRATIONS[m] \o <<Statement("record", m)>>, 100 * m, 100 * m + 100)
  BY <1>2, <1>3, Joined
<1> QED BY <1>4 DEF UpAndRecord

LEMMA SispTablesPart == Part(createSispTables, 100, 199)
<1> DEFINE c(t) == CreateIfMissing(t)
<1>1. \A t \in Tables : Part(c(t), Base[t], Base[t] + 10) BY TableParts
<1>2. /\ Part(c("transactions"), 110, 120) /\ Part(c("transactionItems"), 120, 130)
      /\ Part(c("invoices"), 130, 140) /\ Part(c("requestMetadata"), 140, 150)
      /\ Part(c("rateLimits"), 150, 160) /\ Part(c("blacklist"), 160, 170)
  <2> HIDE DEF c
  <2>1. Base["transactions"] = 110 /\ Base["transactionItems"] = 120 /\ Base["invoices"] = 130
        /\ Base["requestMetadata"] = 140 /\ Base["rateLimits"] = 150 /\ Base["blacklist"] = 160
    BY DEF Base
  <2>2. {"transactions", "transactionItems", "invoices", "requestMetadata", "rateLimits", "blacklist"}
          \subseteq Tables
    BY TheTables
  <2> QED BY <1>1, <2>1, <2>2
<1>3. createSispTables = c("transactions") \o c("transactionItems") \o c("invoices")
        \o c("requestMetadata") \o c("rateLimits") \o c("blacklist")
  BY DEF createSispTables
<1> HIDE DEF c
<1>4. Part(c("transactions") \o c("transactionItems"), 110, 130) BY <1>2, Joined
<1>5. Part(c("transactions") \o c("transactionItems") \o c("invoices"), 110, 140) BY <1>2, <1>4, Joined
<1>6. Part(c("transactions") \o c("transactionItems") \o c("invoices") \o c("requestMetadata"), 110, 150)
  BY <1>2, <1>5, Joined
<1>7. Part(c("transactions") \o c("transactionItems") \o c("invoices") \o c("requestMetadata")
             \o c("rateLimits"), 110, 160)
  BY <1>2, <1>6, Joined
<1>8. Part(createSispTables, 110, 170) BY <1>2, <1>3, <1>7, Joined
<1> QED BY <1>8, Widened

LEMMA AttemptsPart == Part(createAttemptsAndBackfill, 300, 399)
<1> DEFINE a == Statement("checkIdentifiers", "transactions")
           b == Statement("addKey", "transactions")
<1>1. a \in Sentence /\ b \in Sentence /\ a.do = "checkIdentifiers" /\ b.do = "addKey"
      /\ Rank(a) = 301 /\ Rank(b) = 331
  BY TheTables, Ranks DEF Sentence, Verbs, Statement
<1>2. createAttemptsAndBackfill =
        <<a>> \o CreateIfMissing("transactionAttempts") \o backfillAttempts \o <<b>>
  BY DEF createAttemptsAndBackfill, ensureNoDuplicateTransactionIdentifiers
<1> HIDE DEF a, b
<1>3. Part(<<a>>, 300, 310)
  <2>1. a.do \notin DOMAIN Leads /\ a.do # "addColumn" /\ \A do \in DOMAIN Leads : a.do # Leads[do]
    BY <1>1, LeadsTo
  <2> QED BY <1>1, <2>1, Single
<1>4. Part(<<b>>, 331, 399)
  <2>1. b.do \notin DOMAIN Leads /\ b.do # "addColumn" /\ \A do \in DOMAIN Leads : b.do # Leads[do]
    BY <1>1, LeadsTo
  <2> QED BY <1>1, <2>1, Single
<1>5. Part(CreateIfMissing("transactionAttempts"), 310, 320)
  <2>1. "transactionAttempts" \in Tables /\ Base["transactionAttempts"] = 310 BY TheTables DEF Base
  <2>2. Part(CreateIfMissing("transactionAttempts"), Base["transactionAttempts"],
             Base["transactionAttempts"] + 10)
    BY <2>1, TableParts
  <2>3. Base["transactionAttempts"] + 10 = 320 BY <2>1
  <2> QED BY <2>1, <2>2, <2>3
<1>6. Part(backfillAttempts, 320, 331) BY BackfillPart, Widened
<1>7. Part(<<a>> \o CreateIfMissing("transactionAttempts"), 300, 320) BY <1>3, <1>5, Joined
<1>8. Part(<<a>> \o CreateIfMissing("transactionAttempts") \o backfillAttempts, 300, 331)
  BY <1>6, <1>7, Joined
<1>9. Part(<<a>> \o CreateIfMissing("transactionAttempts") \o backfillAttempts \o <<b>>, 300, 399)
  BY <1>4, <1>8, Joined
<1> QED BY <1>2, <1>9

LEMMA UpParts == \A m \in Migration : Part(UpAndRecord(m), 100 * m, 100 * m + 100)
<1>1. Part(UpAndRecord(1), 100 * 1, 100 * 1 + 100)
  <2>1. SISP_MIGRATIONS[1] = createSispTables /\ 1 \in Migration BY DEF SISP_MIGRATIONS, Migration
  <2>2. Part(SISP_MIGRATIONS[1], 100 * 1, 100 * 1 + 99) BY <2>1, SispTablesPart
  <2> QED BY <2>1, <2>2, RecordLast
<1>2. Part(UpAndRecord(2), 100 * 2, 100 * 2 + 100)
  <2>1. SISP_MIGRATIONS[2] = CreateIfMissing("transactionLogs") /\ 2 \in Migration
    BY DEF SISP_MIGRATIONS, Migration
  <2>2. "transactionLogs" \in Tables /\ Base["transactionLogs"] = 210 BY TheTables DEF Base
  <2>3. Part(SISP_MIGRATIONS[2], Base["transactionLogs"], Base["transactionLogs"] + 10)
    BY <2>1, <2>2, TableParts
  <2>4. Part(SISP_MIGRATIONS[2], 100 * 2, 100 * 2 + 99) BY <2>2, <2>3, Widened
  <2> QED BY <2>1, <2>4, RecordLast
<1>3. Part(UpAndRecord(3), 100 * 3, 100 * 3 + 100)
  <2>1. SISP_MIGRATIONS[3] = createAttemptsAndBackfill /\ 3 \in Migration
    BY DEF SISP_MIGRATIONS, Migration
  <2>2. Part(SISP_MIGRATIONS[3], 100 * 3, 100 * 3 + 99) BY <2>1, AttemptsPart
  <2> QED BY <2>1, <2>2, RecordLast
<1>4. Part(UpAndRecord(4), 100 * 4, 100 * 4 + 100)
  <2>1. SISP_MIGRATIONS[4] = CreateIfMissing("paymentIntents") /\ 4 \in Migration
    BY DEF SISP_MIGRATIONS, Migration
  <2>2. "paymentIntents" \in Tables /\ Base["paymentIntents"] = 410 BY TheTables DEF Base
  <2>3. Part(SISP_MIGRATIONS[4], Base["paymentIntents"], Base["paymentIntents"] + 10)
    BY <2>1, <2>2, TableParts
  <2>4. Part(SISP_MIGRATIONS[4], 100 * 4, 100 * 4 + 99) BY <2>2, <2>3, Widened
  <2> QED BY <2>1, <2>4, RecordLast
<1>5. Part(UpAndRecord(5), 100 * 5, 100 * 5 + 100)
  <2>1. SISP_MIGRATIONS[5] = addRateLimitUniqueIndex /\ 5 \in Migration
    BY DEF SISP_MIGRATIONS, Migration
  <2>2. Part(SISP_MIGRATIONS[5], 100 * 5, 100 * 5 + 99) BY <2>1, LimitsPart, Widened
  <2> QED BY <2>1, <2>2, RecordLast
<1>6. Part(UpAndRecord(6), 100 * 6, 100 * 6 + 100)
  <2>1. SISP_MIGRATIONS[6] = addPaymentIntentRequestHash /\ 6 \in Migration
    BY DEF SISP_MIGRATIONS, Migration
  <2>2. "paymentIntents" \in DOMAIN NewColumn /\ Required["paymentIntents"] = 100 * 6 + 1
    BY DEF NewColumn, Required
  <2> QED BY <2>1, <2>2, ColumnPart DEF UpAndRecord, addPaymentIntentRequestHash
<1>7. Part(UpAndRecord(7), 100 * 7, 100 * 7 + 100)
  <2>1. SISP_MIGRATIONS[7] = addTransactionPosId /\ 7 \in Migration
    BY DEF SISP_MIGRATIONS, Migration
  <2>2. "transactions" \in DOMAIN NewColumn /\ Required["transactions"] = 100 * 7 + 1
    BY DEF NewColumn, Required
  <2> QED BY <2>1, <2>2, ColumnPart DEF UpAndRecord, addTransactionPosId
<1>8. Part(UpAndRecord(8), 100 * 8, 100 * 8 + 100)
  <2> DEFINE a == Statement("requireTable", "requestMetadata")
             b == Statement("addKey", "requestMetadata")
  <2>1. SISP_MIGRATIONS[8] = <<a, b>> /\ 8 \in Migration
    BY DEF SISP_MIGRATIONS, Migration, addRequestMetadataCreatedAtIndex
  <2>2. a \in Sentence /\ b \in Sentence BY TheTables DEF Sentence, Verbs, Statement
  <2>3. Rank(a) = 801 /\ Rank(b) = 802 BY Ranks DEF Required
  <2>4. a.do = "requireTable" /\ b.do = "addKey" BY DEF Statement
  <2> DEFINE q == <<a, b>>
  <2> HIDE DEF a, b
  <2>5. q \in Seq(Sentence) /\ DOMAIN q = 1..2 /\ q[1] = a /\ q[2] = b BY <2>2
  <2> HIDE DEF q
  <2>6. Sorted(q) BY <2>3, <2>5 DEF Sorted
  <2>7. Led(q) BY <2>4, <2>5, LeadsTo DEF Led
  <2>8. \A do \in DOMAIN Leads : q[1].do # Leads[do] BY <2>4, <2>5, LeadsTo
  <2>9. Part(q, 100 * 8, 100 * 8 + 99) BY <2>3, <2>5, <2>6, <2>7, <2>8 DEF Part
  <2> QED BY <2>1, <2>9, RecordLast DEF q
<1> QED BY <1>1, <1>2, <1>3, <1>4, <1>5, <1>6, <1>7, <1>8 DEF Migration

(* The script that is left when the migrations e are recorded.              *)
LEMMA ScriptIs ==
    ASSUME NEW e
    PROVE  /\ Part(Script(e), 100, 900)
           /\ ToSet(Script(e)) = UNION {Statements(m) : m \in Migration \ e}
<1> DEFINE of(i) == IF i \in e THEN <<>> ELSE UpAndRecord(i)
           S(i) == IF i \in e THEN {} ELSE Statements(i)
<1>1. Script(e) = of(1) \o of(2) \o of(3) \o of(4) \o of(5) \o of(6) \o of(7) \o of(8)
  BY DEF Script
<1>2. \A i \in Migration : Part(of(i), 100 * i, 100 * i + 100) /\ ToSet(of(i)) = S(i)
  <2> SUFFICES ASSUME NEW i \in Migration
               PROVE  Part(of(i), 100 * i, 100 * i + 100) /\ ToSet(of(i)) = S(i)
    OBVIOUS
  <2>1. CASE i \in e
    <3>1. of(i) = <<>> /\ S(i) = {} BY <2>1
    <3>2. <<>> \in Seq(Sentence) /\ DOMAIN <<>> = {} /\ ToSet(<<>>) = {} BY DEF ToSet
    <3>3. Part(<<>>, 100 * i, 100 * i + 100) BY <3>2 DEF Part, Sorted, Led
    <3> QED BY <3>1, <3>2, <3>3
  <2>2. CASE i \notin e BY <2>2, UpParts DEF Statements
  <2> QED BY <2>1, <2>2
<1> HIDE DEF of, S
<1>3. Part(of(1), 100, 200) /\ Part(of(2), 200, 300) /\ Part(of(3), 300, 400) /\ Part(of(4), 400, 500)
      /\ Part(of(5), 500, 600) /\ Part(of(6), 600, 700) /\ Part(of(7), 700, 800) /\ Part(of(8), 800, 900)
  BY <1>2 DEF Migration
<1>4. Part(of(1) \o of(2), 100, 300) BY <1>3, Joined
<1>5. Part(of(1) \o of(2) \o of(3), 100, 400) BY <1>3, <1>4, Joined
<1>6. Part(of(1) \o of(2) \o of(3) \o of(4), 100, 500) BY <1>3, <1>5, Joined
<1>7. Part(of(1) \o of(2) \o of(3) \o of(4) \o of(5), 100, 600) BY <1>3, <1>6, Joined
<1>8. Part(of(1) \o of(2) \o of(3) \o of(4) \o of(5) \o of(6), 100, 700) BY <1>3, <1>7, Joined
<1>9. Part(of(1) \o of(2) \o of(3) \o of(4) \o of(5) \o of(6) \o of(7), 100, 800)
  BY <1>3, <1>8, Joined
<1>10. Part(of(1) \o of(2) \o of(3) \o of(4) \o of(5) \o of(6) \o of(7) \o of(8), 100, 900)
  BY <1>3, <1>9, Joined
<1>11. ToSet(of(1) \o of(2) \o of(3) \o of(4) \o of(5) \o of(6) \o of(7) \o of(8))
         = S(1) \cup S(2) \cup S(3) \cup S(4) \cup S(5) \cup S(6) \cup S(7) \cup S(8)
  <2>1. \A i \in Migration : of(i) \in Seq(Sentence) /\ ToSet(of(i)) = S(i) BY <1>2 DEF Part
  <2>2. {1, 2, 3, 4, 5, 6, 7, 8} \subseteq Migration BY DEF Migration
  <2>3. /\ of(1) \in Seq(Sentence) /\ of(2) \in Seq(Sentence) /\ of(3) \in Seq(Sentence)
        /\ of(4) \in Seq(Sentence) /\ of(5) \in Seq(Sentence) /\ of(6) \in Seq(Sentence)
        /\ of(7) \in Seq(Sentence) /\ of(8) \in Seq(Sentence)
    BY <2>1, <2>2
  <2> DEFINE A(i) == ToSet(of(i))
  <2>4. A(1) = S(1) /\ A(2) = S(2) /\ A(3) = S(3) /\ A(4) = S(4) /\ A(5) = S(5) /\ A(6) = S(6)
        /\ A(7) = S(7) /\ A(8) = S(8)
    BY <2>1, <2>2
  <2>5. of(1) \o of(2) \in Seq(Sentence) /\ ToSet(of(1) \o of(2)) = A(1) \cup A(2) BY <2>3, Together
  <2>6. of(1) \o of(2) \o of(3) \in Seq(Sentence)
        /\ ToSet(of(1) \o of(2) \o of(3)) = A(1) \cup A(2) \cup A(3)
    BY <2>3, <2>5, Together
  <2>7. of(1) \o of(2) \o of(3) \o of(4) \in Seq(Sentence)
        /\ ToSet(of(1) \o of(2) \o of(3) \o of(4)) = A(1) \cup A(2) \cup A(3) \cup A(4)
    BY <2>3, <2>6, Together
  <2>8. of(1) \o of(2) \o of(3) \o of(4) \o of(5) \in Seq(Sentence)
        /\ ToSet(of(1) \o of(2) \o of(3) \o of(4) \o of(5)) = A(1) \cup A(2) \cup A(3) \cup A(4) \cup A(5)
    BY <2>3, <2>7, Together
  <2>9. of(1) \o of(2) \o of(3) \o of(4) \o of(5) \o of(6) \in Seq(Sentence)
        /\ ToSet(of(1) \o of(2) \o of(3) \o of(4) \o of(5) \o of(6))
             = A(1) \cup A(2) \cup A(3) \cup A(4) \cup A(5) \cup A(6)
    BY <2>3, <2>8, Together
  <2>10. of(1) \o of(2) \o of(3) \o of(4) \o of(5) \o of(6) \o of(7) \in Seq(Sentence)
         /\ ToSet(of(1) \o of(2) \o of(3) \o of(4) \o of(5) \o of(6) \o of(7))
              = A(1) \cup A(2) \cup A(3) \cup A(4) \cup A(5) \cup A(6) \cup A(7)
    BY <2>3, <2>9, Together
  <2>11. ToSet(of(1) \o of(2) \o of(3) \o of(4) \o of(5) \o of(6) \o of(7) \o of(8))
           = A(1) \cup A(2) \cup A(3) \cup A(4) \cup A(5) \cup A(6) \cup A(7) \cup A(8)
    BY <2>3, <2>10, Together
  <2> QED BY <2>4, <2>11
<1>12. S(1) \cup S(2) \cup S(3) \cup S(4) \cup S(5) \cup S(6) \cup S(7) \cup S(8)
         = UNION {Statements(m) : m \in Migration \ e}
  BY DEF S, Migration
<1> QED BY <1>1, <1>10, <1>11, <1>12

LEMMA MigrationsAreScripts == \A m \in Migration : SISP_MIGRATIONS[m] \in Seq(Sentence)
<1>1. /\ createSispTables \in Seq(Sentence) /\ createAttemptsAndBackfill \in Seq(Sentence)
      /\ addRateLimitUniqueIndex \in Seq(Sentence)
  BY SispTablesPart, AttemptsPart, LimitsPart DEF Part
<1>2. \A t \in Tables : CreateIfMissing(t) \in Seq(Sentence) BY TableParts DEF Part
<1>3. CreateIfMissing("transactionLogs") \in Seq(Sentence) /\ CreateIfMissing("paymentIntents") \in Seq(Sentence)
  BY <1>2, TheTables
<1>4. \A do \in Verbs : \A t \in Tables : Statement(do, t) \in Sentence BY DEF Sentence, Statement
<1>5. addPaymentIntentRequestHash \in Seq(Sentence)
  <2>1. Statement("requireTable", "paymentIntents") \in Sentence
        /\ Statement("hasColumn", "paymentIntents") \in Sentence
        /\ Statement("addColumn", "paymentIntents") \in Sentence
    BY <1>4, TheTables DEF Verbs
  <2> QED BY <2>1 DEF addPaymentIntentRequestHash
<1>6. addTransactionPosId \in Seq(Sentence)
  <2>1. Statement("requireTable", "transactions") \in Sentence
        /\ Statement("hasColumn", "transactions") \in Sentence
        /\ Statement("addColumn", "transactions") \in Sentence
    BY <1>4, TheTables DEF Verbs
  <2> QED BY <2>1 DEF addTransactionPosId
<1>7. addRequestMetadataCreatedAtIndex \in Seq(Sentence)
  <2>1. Statement("requireTable", "requestMetadata") \in Sentence
        /\ Statement("addKey", "requestMetadata") \in Sentence
    BY <1>4, TheTables DEF Verbs
  <2> QED BY <2>1 DEF addRequestMetadataCreatedAtIndex
<1> QED BY <1>1, <1>3, <1>5, <1>6, <1>7 DEF SISP_MIGRATIONS, Migration

(* Where the statements are that change what others rely on.                *)
LEMMA StatementsIn ==
    \A m \in Migration :
        /\ UpAndRecord(m) \in Seq(Sentence) /\ Statements(m) \subseteq Sentence
        /\ SISP_MIGRATIONS[m] \in Seq(Sentence)
        /\ Statement("record", m) \in Statements(m)
        /\ ToSet(SISP_MIGRATIONS[m]) \subseteq Statements(m)
        /\ \A s \in Statements(m) : Rank(s) \in Int /\ 100 * m <= Rank(s) /\ Rank(s) <= 100 * m + 99
        /\ \A s \in Statements(m) : s = Statement("record", m) \/ Rank(s) < 100 * m + 99
<1> SUFFICES ASSUME NEW m \in Migration
             PROVE  /\ UpAndRecord(m) \in Seq(Sentence) /\ Statements(m) \subseteq Sentence
                    /\ SISP_MIGRATIONS[m] \in Seq(Sentence)
                    /\ Statement("record", m) \in Statements(m)
                    /\ ToSet(SISP_MIGRATIONS[m]) \subseteq Statements(m)
                    /\ \A s \in Statements(m) :
                          Rank(s) \in Int /\ 100 * m <= Rank(s) /\ Rank(s) <= 100 * m + 99
                    /\ \A s \in Statements(m) : s = Statement("record", m) \/ Rank(s) < 100 * m + 99
  OBVIOUS
<1> DEFINE q == UpAndRecord(m)
           last == Statement("record", m)
<1>1. Part(q, 100 * m, 100 * m + 100) BY UpParts
<1>2. m \in Int BY DEF Migration
<1>3. SISP_MIGRATIONS[m] \in Seq(Sentence) BY MigrationsAreScripts
<1>4. last \in Sentence /\ Rank(last) = 100 * m + 99 BY Ranks DEF Sentence, Verbs, Statement
<1> DEFINE a == SISP_MIGRATIONS[m]
<1>5. q = a \o <<last>> BY DEF UpAndRecord
<1> HIDE DEF q, last, a
<1>6. a \in Seq(Sentence) /\ <<last>> \in Seq(Sentence) /\ Len(<<last>>) = 1 /\ <<last>>[1] = last
      /\ ToSet(<<last>>) = {last}
  BY <1>3, <1>4 DEF a, ToSet
<1>7. q \in Seq(Sentence) /\ ToSet(q) = ToSet(a) \cup {last} BY <1>5, <1>6, Together
<1>8. DOMAIN q = 1..Len(q) /\ Len(q) = Len(a) + 1 /\ Len(a) \in Nat /\ q[Len(q)] = last
  BY <1>5, <1>6
<1>9. \A s \in ToSet(q) : s \in Sentence BY <1>7 DEF ToSet
<1>10. \A s \in ToSet(q) : Rank(s) \in Int /\ 100 * m <= Rank(s) /\ Rank(s) < 100 * m + 100
  BY <1>1 DEF Part, ToSet
<1>11. \A s \in ToSet(q) : s = last \/ Rank(s) < 100 * m + 99
  <2> SUFFICES ASSUME NEW i \in DOMAIN q PROVE q[i] = last \/ Rank(q[i]) < 100 * m + 99
    BY DEF ToSet
  <2>1. CASE i = Len(q) BY <2>1, <1>8
  <2>2. CASE i < Len(q)
    <3>1. Rank(q[i]) < Rank(q[Len(q)]) BY <2>2, <1>1, <1>8 DEF Part, Sorted
    <3> QED BY <3>1, <1>4, <1>8
  <2> QED BY <2>1, <2>2, <1>8
<1>12. Statements(m) = ToSet(q) BY DEF Statements, q
<1> HIDE DEF Statements
<1>13. UpAndRecord(m) \in Seq(Sentence) /\ SISP_MIGRATIONS[m] \in Seq(Sentence) BY <1>7, <1>3 DEF q
<1>14. \A s \in ToSet(q) : Rank(s) <= 100 * m + 99 BY <1>10, <1>2
<1>15. last \in Statements(m) /\ ToSet(a) \subseteq Statements(m) /\ Statements(m) \subseteq Sentence
  BY <1>7, <1>9, <1>12
<1> QED BY <1>10, <1>11, <1>12, <1>13, <1>14, <1>15 DEF a, last

(* A table is made by the migration that Home names.                        *)
Home ==
    [transactions |-> 1, transactionItems |-> 1, invoices |-> 1, requestMetadata |-> 1,
     rateLimits |-> 1, blacklist |-> 1, transactionLogs |-> 2, transactionAttempts |-> 3,
     paymentIntents |-> 4]

LEMMA TriplesIn ==
    \A t \in Tables : {Statement("hasTable", t), Statement("createTable", t), Statement("createKeys", t)}
                        \subseteq Statements(Home[t])
<1> DEFINE c(t) == CreateIfMissing(t)
           three(t) == {Statement("hasTable", t), Statement("createTable", t), Statement("createKeys", t)}
<1>1. \A t \in Tables : c(t) \in Seq(Sentence) BY TableParts DEF Part
<1>2. ASSUME NEW t PROVE three(t) \subseteq ToSet(c(t))
  <2>1. DOMAIN c(t) = 1..3 /\ c(t)[1] = Statement("hasTable", t) /\ c(t)[2] = Statement("createTable", t)
        /\ c(t)[3] = Statement("createKeys", t)
    BY DEF CreateIfMissing
  <2> HIDE DEF c
  <2> QED BY <2>1 DEF ToSet
<1>3. \A m \in Migration : ToSet(SISP_MIGRATIONS[m]) \subseteq Statements(m) BY StatementsIn
<1>4. createSispTables = c("transactions") \o c("transactionItems") \o c("invoices")
        \o c("requestMetadata") \o c("rateLimits") \o c("blacklist")
  BY DEF createSispTables
<1>5. createAttemptsAndBackfill = <<Statement("checkIdentifiers", "transactions")>> \o c("transactionAttempts")
        \o backfillAttempts \o <<Statement("addKey", "transactions")>>
  BY DEF createAttemptsAndBackfill, ensureNoDuplicateTransactionIdentifiers
<1>6. SISP_MIGRATIONS[1] = createSispTables /\ SISP_MIGRATIONS[2] = c("transactionLogs")
      /\ SISP_MIGRATIONS[3] = createAttemptsAndBackfill /\ SISP_MIGRATIONS[4] = c("paymentIntents")
      /\ {1, 2, 3, 4} \subseteq Migration
  BY DEF SISP_MIGRATIONS, Migration
<1>7. <<Statement("checkIdentifiers", "transactions")>> \in Seq(Sentence)
      /\ <<Statement("addKey", "transactions")>> \in Seq(Sentence) /\ backfillAttempts \in Seq(Sentence)
  BY BackfillPart, TheTables DEF Sentence, Verbs, Statement, Part
<1> HIDE DEF c
<1> DEFINE C(t) == ToSet(c(t))
<1>8. /\ c("transactions") \in Seq(Sentence) /\ c("transactionItems") \in Seq(Sentence)
      /\ c("invoices") \in Seq(Sentence) /\ c("requestMetadata") \in Seq(Sentence)
      /\ c("rateLimits") \in Seq(Sentence) /\ c("blacklist") \in Seq(Sentence)
      /\ c("transactionAttempts") \in Seq(Sentence)
  BY <1>1, TheTables
<1>9. ToSet(createSispTables) = C("transactions") \cup C("transactionItems") \cup C("invoices")
        \cup C("requestMetadata") \cup C("rateLimits") \cup C("blacklist")
  <2>1. c("transactions") \o c("transactionItems") \in Seq(Sentence)
        /\ ToSet(c("transactions") \o c("transactionItems")) = C("transactions") \cup C("transactionItems")
    BY <1>8, Together
  <2>2. c("transactions") \o c("transactionItems") \o c("invoices") \in Seq(Sentence)
        /\ ToSet(c("transactions") \o c("transactionItems") \o c("invoices"))
             = C("transactions") \cup C("transactionItems") \cup C("invoices")
    BY <1>8, <2>1, Together
  <2>3. c("transactions") \o c("transactionItems") \o c("invoices") \o c("requestMetadata") \in Seq(Sentence)
        /\ ToSet(c("transactions") \o c("transactionItems") \o c("invoices") \o c("requestMetadata"))
             = C("transactions") \cup C("transactionItems") \cup C("invoices") \cup C("requestMetadata")
    BY <1>8, <2>2, Together
  <2>4. c("transactions") \o c("transactionItems") \o c("invoices") \o c("requestMetadata")
          \o c("rateLimits") \in Seq(Sentence)
        /\ ToSet(c("transactions") \o c("transactionItems") \o c("invoices") \o c("requestMetadata")
                   \o c("rateLimits"))
             = C("transactions") \cup C("transactionItems") \cup C("invoices") \cup C("requestMetadata")
                 \cup C("rateLimits")
    BY <1>8, <2>3, Together
  <2>5. ToSet(c("transactions") \o c("transactionItems") \o c("invoices") \o c("requestMetadata")
                   \o c("rateLimits") \o c("blacklist"))
             = C("transactions") \cup C("transactionItems") \cup C("invoices") \cup C("requestMetadata")
                 \cup C("rateLimits") \cup C("blacklist")
    BY <1>8, <2>4, Together
  <2> QED BY <1>4, <2>5
<1>10. C("transactionAttempts") \subseteq ToSet(createAttemptsAndBackfill)
  <2> DEFINE x == <<Statement("checkIdentifiers", "transactions")>>
             y == <<Statement("addKey", "transactions")>>
  <2>1. x \in Seq(Sentence) /\ y \in Seq(Sentence) BY <1>7
  <2> HIDE DEF x, y
  <2>2. x \o c("transactionAttempts") \in Seq(Sentence)
        /\ C("transactionAttempts") \subseteq ToSet(x \o c("transactionAttempts"))
    BY <1>8, <2>1, Together
  <2>3. x \o c("transactionAttempts") \o backfillAttempts \in Seq(Sentence)
        /\ C("transactionAttempts") \subseteq ToSet(x \o c("transactionAttempts") \o backfillAttempts)
    BY <1>7, <2>2, Together
  <2>4. C("transactionAttempts") \subseteq ToSet(x \o c("transactionAttempts") \o backfillAttempts \o y)
    BY <2>1, <2>3, Together
  <2> QED BY <1>5, <2>4 DEF x, y
<1> HIDE DEF three
<1>11. C("transactionLogs") \subseteq Statements(2) /\ C("paymentIntents") \subseteq Statements(4)
      /\ C("transactionAttempts") \subseteq Statements(3)
      /\ \A t \in {"transactions", "transactionItems", "invoices", "requestMetadata", "rateLimits", "blacklist"} :
            C(t) \subseteq Statements(1)
  BY <1>3, <1>6, <1>9, <1>10
<1>12. /\ \A t \in {"transactions", "transactionItems", "invoices", "requestMetadata", "rateLimits", "blacklist"} :
            Home[t] = 1
       /\ Home["transactionLogs"] = 2 /\ Home["transactionAttempts"] = 3 /\ Home["paymentIntents"] = 4
  BY DEF Home
<1>13. \A t \in Tables : C(t) \subseteq Statements(Home[t]) BY <1>11, <1>12, TheTables
<1>14. \A t : three(t) \subseteq C(t) BY <1>2
<1>15. \A t \in Tables : three(t) \subseteq Statements(Home[t]) BY <1>13, <1>14
<1> QED BY <1>15 DEF three

LEMMA EffectsIn ==
    /\ Statement("countAttempts", "transactionAttempts") \in Statements(3)
    /\ Statement("insertAttempts", "transactionAttempts") \in Statements(3)
    /\ Statement("addKey", "transactions") \in Statements(3)
    /\ Statement("updateKept", "rateLimits") \in Statements(5)
    /\ Statement("deleteDuplicates", "rateLimits") \in Statements(5)
    /\ Statement("addKeyInSavepoint", "rateLimits") \in Statements(5)
    /\ Statement("addColumn", "paymentIntents") \in Statements(6)
    /\ Statement("addColumn", "transactions") \in Statements(7)
    /\ Statement("addKey", "requestMetadata") \in Statements(8)
<1>1. \A m \in Migration : ToSet(SISP_MIGRATIONS[m]) \subseteq Statements(m) BY StatementsIn
<1>2. SISP_MIGRATIONS[3] = createAttemptsAndBackfill /\ SISP_MIGRATIONS[5] = addRateLimitUniqueIndex
      /\ SISP_MIGRATIONS[6] = addPaymentIntentRequestHash /\ SISP_MIGRATIONS[7] = addTransactionPosId
      /\ SISP_MIGRATIONS[8] = addRequestMetadataCreatedAtIndex /\ {3, 5, 6, 7, 8} \subseteq Migration
  BY DEF SISP_MIGRATIONS, Migration
<1>3. /\ Statement("updateKept", "rateLimits") \in ToSet(addRateLimitUniqueIndex)
      /\ Statement("deleteDuplicates", "rateLimits") \in ToSet(addRateLimitUniqueIndex)
      /\ Statement("addKeyInSavepoint", "rateLimits") \in ToSet(addRateLimitUniqueIndex)
  <2> DEFINE q == addRateLimitUniqueIndex
  <2>1. {4, 5, 6} \subseteq DOMAIN q /\ q[4] = Statement("updateKept", "rateLimits")
        /\ q[5] = Statement("deleteDuplicates", "rateLimits") /\ q[6] = Statement("addKeyInSavepoint", "rateLimits")
    BY DEF addRateLimitUniqueIndex
  <2> HIDE DEF q
  <2> QED BY <2>1 DEF ToSet, q
<1>4. Statement("addColumn", "paymentIntents") \in ToSet(addPaymentIntentRequestHash)
  <2> DEFINE q == addPaymentIntentRequestHash
  <2>1. 3 \in DOMAIN q /\ q[3] = Statement("addColumn", "paymentIntents") BY DEF addPaymentIntentRequestHash
  <2> HIDE DEF q
  <2> QED BY <2>1 DEF ToSet, q
<1>5. Statement("addColumn", "transactions") \in ToSet(addTransactionPosId)
  <2> DEFINE q == addTransactionPosId
  <2>1. 3 \in DOMAIN q /\ q[3] = Statement("addColumn", "transactions") BY DEF addTransactionPosId
  <2> HIDE DEF q
  <2> QED BY <2>1 DEF ToSet, q
<1>6. Statement("addKey", "requestMetadata") \in ToSet(addRequestMetadataCreatedAtIndex)
  <2> DEFINE q == addRequestMetadataCreatedAtIndex
  <2>1. 2 \in DOMAIN q /\ q[2] = Statement("addKey", "requestMetadata") BY DEF addRequestMetadataCreatedAtIndex
  <2> HIDE DEF q
  <2> QED BY <2>1 DEF ToSet, q
<1>7. /\ Statement("countAttempts", "transactionAttempts") \in ToSet(createAttemptsAndBackfill)
      /\ Statement("insertAttempts", "transactionAttempts") \in ToSet(createAttemptsAndBackfill)
      /\ Statement("addKey", "transactions") \in ToSet(createAttemptsAndBackfill)
  <2> DEFINE x == <<Statement("checkIdentifiers", "transactions")>>
             y == <<Statement("addKey", "transactions")>>
             c == CreateIfMissing("transactionAttempts")
             b == backfillAttempts
  <2>1. createAttemptsAndBackfill = x \o c \o b \o y
    BY DEF createAttemptsAndBackfill, ensureNoDuplicateTransactionIdentifiers
  <2>2. x \in Seq(Sentence) /\ y \in Seq(Sentence)
    BY TheTables DEF Sentence, Verbs, Statement
  <2>3. b \in Seq(Sentence) /\ c \in Seq(Sentence)
    <3>1. c \in Seq(Sentence) BY TableParts, TheTables DEF Part
    <3> QED BY <3>1, BackfillPart DEF Part
  <2>4. Statement("addKey", "transactions") \in ToSet(y)
    <3>1. 1 \in DOMAIN y /\ y[1] = Statement("addKey", "transactions") OBVIOUS
    <3> HIDE DEF y
    <3> QED BY <3>1 DEF ToSet
  <2>5. Statement("countAttempts", "transactionAttempts") \in ToSet(b)
        /\ Statement("insertAttempts", "transactionAttempts") \in ToSet(b)
    <3>1. {1, 2} \subseteq DOMAIN b /\ b[1] = Statement("countAttempts", "transactionAttempts")
          /\ b[2] = Statement("insertAttempts", "transactionAttempts")
      BY DEF backfillAttempts
    <3> HIDE DEF b
    <3> QED BY <3>1 DEF ToSet
  <2> HIDE DEF x, y, c, b
  <2>6. x \o c \in Seq(Sentence) BY <2>2, <2>3
  <2>7. x \o c \o b \in Seq(Sentence) /\ ToSet(b) \subseteq ToSet(x \o c \o b) BY <2>3, <2>6, Together
  <2>8. ToSet(x \o c \o b \o y) = ToSet(x \o c \o b) \cup ToSet(y) BY <2>2, <2>7, Together
  <2> QED BY <2>1, <2>4, <2>5, <2>7, <2>8
<1> QED BY <1>1, <1>2, <1>3, <1>4, <1>5, <1>6, <1>7

(* What a run sends first: the knex preparation, the Drizzle statements.    *)
LEMMA PreparingPart ==
    /\ Part(ensureMigrationsTable, 0, 100)
    /\ Preparing = {Statement("hasControl", "control"), Statement("createControl", "control"), Select}
    /\ Rank(Statement("hasControl", "control")) = 1 /\ Rank(Statement("createControl", "control")) = 2
    /\ Rank(Select) = 3
<1> DEFINE a == Statement("hasControl", "control")
           b == Statement("createControl", "control")
           q == <<a, b, Select>>
<1>1. ensureMigrationsTable = q BY DEF ensureMigrationsTable, Select
<1>2. a \in Sentence /\ b \in Sentence /\ Select \in Sentence BY DEF Sentence, Verbs, Statement, Select
<1>3. Rank(a) = 1 /\ Rank(b) = 2 /\ Rank(Select) = 3 BY DEF Rank, Statement, Select
<1>4. a.do = "hasControl" /\ b.do = "createControl" /\ Select.do = "selectExecuted"
      /\ b = Statement("createControl", a.table)
  BY DEF Statement, Select
<1> HIDE DEF a, b
<1>5. q \in Seq(Sentence) /\ DOMAIN q = 1..3 /\ q[1] = a /\ q[2] = b /\ q[3] = Select BY <1>2
<1>6. ToSet(q) = {a, b, Select}
  <2> HIDE DEF q
  <2> QED BY <1>5 DEF ToSet
<1> HIDE DEF q
<1>7. Sorted(q) BY <1>3, <1>5 DEF Sorted
<1>8. Led(q) BY <1>4, <1>5, LeadsTo DEF Led
<1>9. \A do \in DOMAIN Leads : q[1].do # Leads[do] BY <1>4, <1>5, LeadsTo
<1>10. Part(q, 0, 100) BY <1>3, <1>5, <1>7, <1>8, <1>9 DEF Part
<1> QED BY <1>1, <1>3, <1>6, <1>10 DEF Preparing, a, b

ForAll(do) == [i \in DOMAIN SISP_TABLE_SPECS |-> Statement(do, SISP_TABLE_SPECS[i])]

LEMMA Specs ==
    /\ DOMAIN SISP_TABLE_SPECS = 1..9
    /\ \A i \in 1..9 : SISP_TABLE_SPECS[i] \in Tables /\ Slot[SISP_TABLE_SPECS[i]] = i
    /\ \A t \in Tables : Slot[t] \in 1..9 /\ SISP_TABLE_SPECS[Slot[t]] = t
BY TheTables DEF SISP_TABLE_SPECS, Slot

LEMMA ForAllPart ==
    ASSUME NEW do \in {"createIfNotExists", "assertColumnsExist", "createIndexes"}, NEW base \in Int,
           \A t \in Tables : Rank(Statement(do, t)) = base + Slot[t]
    PROVE  /\ Part(ForAll(do), base + 1, base + 10)
           /\ ToSet(ForAll(do)) = {Statement(do, t) : t \in Tables}
<1> DEFINE q == ForAll(do)
<1>1. DOMAIN q = 1..9 /\ \A i \in 1..9 : q[i] = Statement(do, SISP_TABLE_SPECS[i])
  BY Specs DEF ForAll
<1>2. \A t \in Tables : Statement(do, t) \in Sentence /\ Statement(do, t).do = do
  BY DEF Sentence, Verbs, Statement
<1>3. \A i \in 1..9 : q[i] \in Sentence /\ q[i].do = do /\ Rank(q[i]) = base + i
  <2> HIDE DEF q
  <2> QED BY <1>1, <1>2, Specs
<1>4. q \in Seq(Sentence)
  <2>1. q = [i \in 1..9 |-> q[i]] BY Specs DEF ForAll
  <2> HIDE DEF q
  <2> QED BY <2>1, <1>3
<1>5. ToSet(q) = {Statement(do, t) : t \in Tables}
  <2> HIDE DEF q
  <2> QED BY <1>1, Specs DEF ToSet
<1> HIDE DEF q
<1>6. Sorted(q) BY <1>1, <1>3 DEF Sorted
<1>7. do \notin DOMAIN Leads /\ do # "addColumn" /\ \A led \in DOMAIN Leads : do # Leads[led] BY LeadsTo
<1>8. Led(q) BY <1>1, <1>3, <1>7 DEF Led
<1>9. \A i \in DOMAIN q : Rank(q[i]) \in Int /\ base + 1 <= Rank(q[i]) /\ Rank(q[i]) < base + 10
  BY <1>1, <1>3
<1>10. \A led \in DOMAIN Leads : q[1].do # Leads[led] BY <1>1, <1>3, <1>7
<1>11. Part(q, base + 1, base + 10) BY <1>4, <1>6, <1>8, <1>9, <1>10 DEF Part
<1> QED BY <1>5, <1>11 DEF q

LEMMA DrizzleRanks ==
    \A t \in Tables : /\ Rank(Statement("createIfNotExists", t)) = 0 + Slot[t]
                      /\ Rank(Statement("assertColumnsExist", t)) = 10 + Slot[t]
                      /\ Rank(Statement("createIndexes", t)) = 20 + Slot[t]
                      /\ Slot[t] \in 1..9
BY TheTables DEF Rank, Statement, Slot

LEMMA DrizzleIs ==
    /\ Part(DrizzleScript, 0, 100)
    /\ ToSet(DrizzleScript) \subseteq DrizzleStatements
    /\ \A t \in Tables : Statement("assertColumnsExist", t) \in ToSet(DrizzleScript)
    /\ client # "mysql2" => \A t \in Tables : Statement("createIndexes", t) \in ToSet(DrizzleScript)
<1> DEFINE a == ForAll("createIfNotExists")
           b == ForAll("assertColumnsExist")
           c == IF client = "mysql2" THEN <<>> ELSE ForAll("createIndexes")
<1>1. DrizzleScript = a \o b \o c BY DEF DrizzleScript, ForAll
<1>2. Part(a, 1, 10) /\ ToSet(a) = {Statement("createIfNotExists", t) : t \in Tables}
  <2>1. \A t \in Tables : Rank(Statement("createIfNotExists", t)) = 0 + Slot[t] BY DrizzleRanks
  <2>2. Part(a, 0 + 1, 0 + 10) /\ ToSet(a) = {Statement("createIfNotExists", t) : t \in Tables}
    BY <2>1, ForAllPart
  <2> HIDE DEF a
  <2> QED BY <2>2
<1>3. Part(b, 11, 20) /\ ToSet(b) = {Statement("assertColumnsExist", t) : t \in Tables}
  <2>1. \A t \in Tables : Rank(Statement("assertColumnsExist", t)) = 10 + Slot[t] BY DrizzleRanks
  <2>2. Part(b, 10 + 1, 10 + 10) /\ ToSet(b) = {Statement("assertColumnsExist", t) : t \in Tables}
    BY <2>1, ForAllPart
  <2> HIDE DEF b
  <2> QED BY <2>2
<1>4. Part(c, 21, 30) /\ ToSet(c) = IF client = "mysql2" THEN {} ELSE {Statement("createIndexes", t) : t \in Tables}
  <2>1. CASE client = "mysql2"
    <3>1. c = <<>> BY <2>1
    <3>2. <<>> \in Seq(Sentence) /\ DOMAIN <<>> = {} /\ ToSet(<<>>) = {} BY DEF ToSet
    <3>3. Part(<<>>, 21, 30) BY <3>2 DEF Part, Sorted, Led
    <3> QED BY <2>1, <3>1, <3>2, <3>3
  <2>2. CASE client # "mysql2"
    <3>1. \A t \in Tables : Rank(Statement("createIndexes", t)) = 20 + Slot[t] BY DrizzleRanks
    <3> DEFINE i == ForAll("createIndexes")
    <3>2. Part(i, 20 + 1, 20 + 10) /\ ToSet(i) = {Statement("createIndexes", t) : t \in Tables}
      BY <3>1, ForAllPart
    <3>3. c = i BY <2>2
    <3> HIDE DEF i, c
    <3> QED BY <2>2, <3>2, <3>3
  <2> QED BY <2>1, <2>2
<1> HIDE DEF a, b, c
<1>5. Part(a \o b, 1, 20)
  <2>1. Part(a, 1, 11) BY <1>2, Widened
  <2> QED BY <2>1, <1>3, Joined
<1>6. Part(a \o b \o c, 1, 30)
  <2>1. Part(a \o b, 1, 21) BY <1>5, Widened
  <2> QED BY <2>1, <1>4, Joined
<1>7. a \in Seq(Sentence) /\ b \in Seq(Sentence) /\ c \in Seq(Sentence) BY <1>2, <1>3, <1>4 DEF Part
<1>8. a \o b \in Seq(Sentence) /\ ToSet(a \o b) = ToSet(a) \cup ToSet(b) BY <1>7, Together
<1>9. ToSet(a \o b \o c) = ToSet(a) \cup ToSet(b) \cup ToSet(c) BY <1>7, <1>8, Together
<1>10. Part(a \o b \o c, 0, 100) BY <1>6, Widened
<1> DEFINE all == ToSet(a) \cup ToSet(b) \cup ToSet(c)
<1>11. all \subseteq DrizzleStatements BY <1>2, <1>3, <1>4 DEF DrizzleStatements
<1>12. \A t \in Tables : Statement("assertColumnsExist", t) \in all BY <1>3
<1>13. client # "mysql2" => \A t \in Tables : Statement("createIndexes", t) \in all BY <1>4
<1> QED BY <1>1, <1>9, <1>10, <1>11, <1>12, <1>13

AllStatements == Preparing \cup KnexStatements \cup DrizzleStatements

LEMMA AllRanked == \A s \in AllStatements : s \in Sentence /\ Rank(s) \in Int /\ s = Statement(s.do, s.table)
<1>1. \A s \in Sentence : s = Statement(s.do, s.table) BY DEF Sentence, Statement
<1>2. \A s \in KnexStatements : s \in Sentence /\ Rank(s) \in Int BY StatementsIn DEF KnexStatements
<1>3. \A s \in Preparing : s \in Sentence /\ Rank(s) \in Int
  BY PreparingPart DEF Sentence, Verbs, Statement, Select
<1>4. \A s \in DrizzleStatements : s \in Sentence /\ Rank(s) \in Int
  <2>1. \A t \in Tables : \A do \in {"createIfNotExists", "assertColumnsExist", "createIndexes"} :
          Statement(do, t) \in Sentence
    BY DEF Sentence, Verbs, Statement
  <2> QED BY <2>1, DrizzleRanks DEF DrizzleStatements
<1> QED BY <1>1, <1>2, <1>3, <1>4 DEF AllStatements

---------------------------------------------------------------------------
(* A run gets on with its script.                                           *)

(* The statements that go when the first k are sent or skipped.             *)
Gone(q, k) == {q[i] : i \in 1..k}

Lists(q, n) == n \in Nat /\ DOMAIN q = 1..n /\ \A i \in DOMAIN q : q[i] \in AllStatements
RestOf(q, n, k, p) ==
    /\ k \in Nat /\ k >= 1 /\ k <= n
    /\ DOMAIN p = 1..(n - k) /\ \A i \in 1..(n - k) : p[i] = q[i + k]

LEMMA CutAt ==
    ASSUME NEW q, NEW n, Lists(q, n), Sorted(q), Led(q), NEW k, NEW p, RestOf(q, n, k, p)
    PROVE  /\ Sorted(p) /\ Led(p)
           /\ ToSet(p) = ToSet(q) \ Gone(q, k)
           /\ \A i \in 1..k : q[i] \in ToSet(q)
           /\ 1 \in DOMAIN p =>
                /\ k + 1 \in DOMAIN q /\ p[1] = q[k+1]
                /\ \A do \in DOMAIN Leads : \A t : p[1] = Statement(Leads[do], t) => q[k] = Statement(do, t)
<1>1. /\ DOMAIN p = 1..(n - k) /\ DOMAIN q = 1..n /\ n \in Nat /\ k \in Nat /\ k >= 1 /\ k <= n
      /\ \A i \in 1..(n - k) : p[i] = q[i + k] /\ i + k \in DOMAIN q
  BY DEF Lists, RestOf
<1>2. \A i \in DOMAIN q : q[i] \in AllStatements BY DEF Lists
<1>3. Sorted(p) BY <1>1 DEF Sorted
<1>4. Led(p)
  <2>1. ASSUME NEW i \in DOMAIN p, p[i].do \in DOMAIN Leads
        PROVE  i + 1 \in DOMAIN p /\ p[i+1] = Statement(Leads[p[i].do], p[i].table)
    <3> DEFINE j == i + k
    <3>1. j \in DOMAIN q /\ p[i] = q[j] BY <1>1
    <3>2. j + 1 \in DOMAIN q /\ q[j+1] = Statement(Leads[q[j].do], q[j].table) BY <3>1, <2>1 DEF Led
    <3>3. i + 1 \in DOMAIN p /\ p[i+1] = q[j+1] BY <3>2, <1>1
    <3> QED BY <3>1, <3>2, <3>3
  <2>2. ASSUME NEW i \in DOMAIN p, p[i].do = "addColumn" PROVE i + 1 \in DOMAIN p /\ p[i+1].do = "record"
    <3> DEFINE j == i + k
    <3>1. j \in DOMAIN q /\ p[i] = q[j] BY <1>1
    <3>2. j + 1 \in DOMAIN q /\ q[j+1].do = "record" BY <3>1, <2>2 DEF Led
    <3>3. i + 1 \in DOMAIN p /\ p[i+1] = q[j+1] BY <3>2, <1>1
    <3> QED BY <3>1, <3>2, <3>3
  <2>3. ASSUME NEW i \in DOMAIN p \ {1}, NEW do \in DOMAIN Leads, p[i].do = Leads[do] PROVE p[i-1].do = do
    <3> DEFINE j == i + k
    <3>1. j \in DOMAIN q \ {1} /\ p[i] = q[j] BY <1>1
    <3>2. q[j-1].do = do BY <3>1, <2>3 DEF Led
    <3>3. p[i-1] = q[j-1] BY <1>1
    <3> QED BY <3>2, <3>3
  <2> QED BY <2>1, <2>2, <2>3 DEF Led
<1>5. ToSet(p) = ToSet(q) \ Gone(q, k)
  <2>1. ASSUME NEW s \in ToSet(p) PROVE s \in ToSet(q) /\ s \notin Gone(q, k)
    <3>1. PICK i \in 1..(n - k) : s = q[i + k] /\ i + k \in DOMAIN q BY <1>1 DEF ToSet
    <3>2. ASSUME NEW j \in 1..k PROVE q[j] # s
      <4>1. j \in DOMAIN q /\ j < i + k BY <1>1
      <4>2. Rank(q[j]) < Rank(q[i + k]) BY <3>1, <4>1 DEF Sorted
      <4>3. Rank(q[j]) \in Int /\ Rank(s) \in Int BY <1>2, <3>1, <4>1, AllRanked
      <4> QED BY <3>1, <4>2, <4>3
    <3> QED BY <3>1, <3>2 DEF ToSet, Gone
  <2>2. ASSUME NEW s \in ToSet(q), s \notin Gone(q, k) PROVE s \in ToSet(p)
    <3>1. PICK j \in DOMAIN q : s = q[j] BY DEF ToSet
    <3>2. j \notin 1..k BY <2>2, <3>1 DEF Gone
    <3>3. j - k \in DOMAIN p /\ p[j - k] = q[j] BY <3>2, <1>1
    <3> QED BY <3>1, <3>3 DEF ToSet
  <2> QED BY <2>1, <2>2
<1>6. ASSUME 1 \in DOMAIN p
      PROVE  /\ k + 1 \in DOMAIN q /\ p[1] = q[k+1]
             /\ \A do \in DOMAIN Leads : \A t : p[1] = Statement(Leads[do], t) => q[k] = Statement(do, t)
  <2>1. k + 1 \in DOMAIN q /\ p[1] = q[k+1] /\ k \in DOMAIN q
    <3>1. n - k >= 1 BY <1>1, <1>6
    <3> QED BY <3>1, <1>1
  <2>2. ASSUME NEW do \in DOMAIN Leads, NEW t, p[1] = Statement(Leads[do], t) PROVE q[k] = Statement(do, t)
    <3>1. q[k+1].do = Leads[do] /\ q[k+1].table = t BY <2>1, <2>2 DEF Statement
    <3>2. q[k].do = do
      <4>1. k + 1 \in DOMAIN q \ {1} /\ (k + 1) - 1 = k BY <2>1, <1>1
      <4>2. q[(k+1)-1].do = do BY <3>1, <4>1 DEF Led
      <4> QED BY <4>1, <4>2
    <3>3. q[k+1] = Statement(Leads[q[k].do], q[k].table) BY <2>1, <3>2 DEF Led
    <3>4. q[k].table = t BY <3>1, <3>3 DEF Statement
    <3>5. q[k] = Statement(q[k].do, q[k].table) BY <1>2, <2>1, AllRanked
    <3> QED BY <3>2, <3>4, <3>5
  <2> QED BY <2>1, <2>2
<1>7. \A i \in 1..k : q[i] \in ToSet(q) BY <1>1 DEF ToSet
<1> QED BY <1>3, <1>4, <1>5, <1>6, <1>7

LEMMA Cut ==
    ASSUME NEW q \in Seq(AllStatements), Sorted(q), Led(q), NEW k \in 1..Len(q)
    PROVE  LET p == SubSeq(q, k + 1, Len(q)) IN
           /\ p \in Seq(AllStatements) /\ Sorted(p) /\ Led(p)
           /\ ToSet(p) = ToSet(q) \ Gone(q, k)
           /\ \A i \in 1..k : q[i] \in ToSet(q)
           /\ p # <<>> => /\ k + 1 \in DOMAIN q /\ p[1] = q[k+1]
                          /\ \A do \in DOMAIN Leads : \A t : p[1] = Statement(Leads[do], t) =>
                                q[k] = Statement(do, t)
<1> DEFINE p == SubSeq(q, k + 1, Len(q))
           n == Len(q)
<1>1. /\ n \in Nat /\ DOMAIN q = 1..n /\ k \in Nat /\ k >= 1 /\ k <= n
      /\ \A i \in DOMAIN q : q[i] \in AllStatements
  OBVIOUS
<1>2. p \in Seq(AllStatements) /\ DOMAIN p = 1..(n - k) /\ \A i \in 1..(n - k) : p[i] = q[i + k]
  OBVIOUS
<1>3. p # <<>> => 1 \in DOMAIN p BY <1>2
<1> HIDE DEF p, n
<1>4. Lists(q, n) /\ RestOf(q, n, k, p) BY <1>1, <1>2 DEF Lists, RestOf
<1>5. /\ Sorted(p) /\ Led(p)
      /\ ToSet(p) = ToSet(q) \ Gone(q, k)
      /\ \A i \in 1..k : q[i] \in ToSet(q)
      /\ 1 \in DOMAIN p =>
           /\ k + 1 \in DOMAIN q /\ p[1] = q[k+1]
           /\ \A do \in DOMAIN Leads : \A t : p[1] = Statement(Leads[do], t) => q[k] = Statement(do, t)
  BY <1>4, CutAt
<1> QED BY <1>2, <1>3, <1>5 DEF p, n

(* A run R that has sent or skipped k statements.                           *)
Advanced(R, k) == [R EXCEPT !.todo = SubSeq(@, k + 1, Len(@))]

LEMMA TodoIsOf ==
    ASSUME NEW R, NEW c, RunOK(R, c)
    PROVE  /\ R.todo \in Seq(AllStatements) /\ Sorted(R.todo) /\ Led(R.todo)
           /\ Len(R.todo) \in Nat /\ DOMAIN R.todo = 1..Len(R.todo)
           /\ R.adapter = "drizzle" => R.todo \in Seq(DrizzleStatements)
           /\ R.adapter = "knex" /\ Select \in ToSet(R.todo) => R.todo \in Seq(Preparing)
           /\ R.adapter = "knex" /\ Select \notin ToSet(R.todo) => R.todo \in Seq(KnexStatements)
<1> DEFINE set == IF R.adapter = "drizzle" THEN DrizzleStatements
                  ELSE IF Select \in ToSet(R.todo) THEN Preparing ELSE KnexStatements
<1>1. TodoOK(R, c) BY DEF RunOK
<1>2. R.todo \in Seq(set) /\ Sorted(R.todo) /\ Led(R.todo) BY <1>1 DEF TodoOK
<1>3. set \subseteq AllStatements BY DEF AllStatements
<1>4. R.adapter = "drizzle" => set = DrizzleStatements OBVIOUS
<1>5. R.adapter = "knex" /\ Select \in ToSet(R.todo) => set = Preparing OBVIOUS
<1>6. R.adapter = "knex" /\ Select \notin ToSet(R.todo) => set = KnexStatements OBVIOUS
<1> HIDE DEF set
<1>7. R.todo \in Seq(AllStatements) BY <1>2, <1>3
<1> QED BY <1>2, <1>4, <1>5, <1>6, <1>7

LEMMA Within ==
    ASSUME NEW q, NEW S, q \in Seq(S)
    PROVE  /\ ToSet(q) \subseteq S
           /\ \A n \in 1..Len(q) : q[n] \in ToSet(q)
           /\ \A T : ToSet(q) \subseteq T => q \in Seq(T)
BY DEF ToSet

LEMMA SelectIsNoMigration == Select \notin KnexStatements
<1>1. ASSUME NEW m \in Migration, NEW s \in Statements(m) PROVE s # Select
  <2> DEFINE h == 100 * m
  <2>1. h \in Int /\ h >= 100 BY DEF Migration
  <2>2. Rank(s) \in Int /\ h <= Rank(s) BY StatementsIn
  <2> HIDE DEF h
  <2> QED BY <2>1, <2>2, PreparingPart
<1> QED BY <1>1 DEF KnexStatements

LEMMA Moves ==
    ASSUME NEW R, NEW c, RunOK(R, c), R.phase = "running",
           NEW k \in 1..Len(R.todo), Select \notin Gone(R.todo, k)
    PROVE  LET P == Advanced(R, k) IN
           /\ RunOK(P, c)
           /\ P = [R EXCEPT !.todo = P.todo]
           /\ DOMAIN P = RunFields /\ P.phase = "running" /\ P.adapter = R.adapter
           /\ P.aborted = R.aborted /\ P.alone = R.alone /\ P.before = R.before /\ P.restarts = R.restarts
           /\ P.todo = SubSeq(R.todo, k + 1, Len(R.todo))
           /\ ToSet(P.todo) = ToSet(R.todo) \ Gone(R.todo, k)
           /\ Passed(R) \subseteq Passed(P) /\ Passed(P) \subseteq Passed(R) \cup Gone(R.todo, k)
           /\ P.todo # <<>> =>
                /\ k + 1 \in DOMAIN R.todo /\ P.todo[1] = R.todo[k+1]
                /\ \A do \in DOMAIN Leads : \A t : At(P, Leads[do], t) => R.todo[k] = Statement(do, t)
<1> DEFINE q == R.todo
           p == SubSeq(q, k + 1, Len(q))
           P == Advanced(R, k)
<1>1. /\ q \in Seq(AllStatements) /\ Sorted(q) /\ Led(q) /\ k \in 1..Len(q)
      /\ q \in Seq(DrizzleStatements) \/ q \in Seq(Preparing) \/ q \in Seq(KnexStatements)
      /\ Len(q) \in Nat
  BY TodoIsOf DEF RunOK
<1>2. /\ DOMAIN P = RunFields /\ P.phase = "running" /\ P.adapter = R.adapter
      /\ P.aborted = R.aborted /\ P.alone = R.alone /\ P.before = R.before /\ P.restarts = R.restarts
      /\ P.todo = p
  BY DEF RunOK, RunFields, Advanced
<1>3. P = [R EXCEPT !.todo = P.todo] BY <1>2 DEF Advanced, RunOK, RunFields
<1> HIDE DEF q
<1>4. /\ p \in Seq(AllStatements) /\ Sorted(p) /\ Led(p)
      /\ ToSet(p) = ToSet(q) \ Gone(q, k)
      /\ \A i \in 1..k : q[i] \in ToSet(q)
      /\ p # <<>> => /\ k + 1 \in DOMAIN q /\ p[1] = q[k+1]
                     /\ \A do \in DOMAIN Leads : \A t : p[1] = Statement(Leads[do], t) =>
                           q[k] = Statement(do, t)
  BY <1>1, Cut
<1> HIDE DEF p, P
<1>5. R.todo = q BY DEF q
<1>6. Select \notin Gone(q, k) BY <1>5
<1>7. Passed(R) \subseteq Passed(P) /\ Passed(P) \subseteq Passed(R) \cup Gone(q, k)
  BY <1>2, <1>4, <1>5, <1>6 DEF Passed
<1>8. TodoOK(P, c)
  <2>1. TodoOK(R, c) BY DEF RunOK
  <2>2. P.todo \in Seq(IF P.adapter = "drizzle" THEN DrizzleStatements
                       ELSE IF Select \in ToSet(P.todo) THEN Preparing ELSE KnexStatements)
    <3> DEFINE S == IF R.adapter = "drizzle" THEN DrizzleStatements
                    ELSE IF Select \in ToSet(q) THEN Preparing ELSE KnexStatements
    <3>1. q \in Seq(S) BY <2>1, <1>5 DEF TodoOK
    <3>2. S = IF P.adapter = "drizzle" THEN DrizzleStatements
              ELSE IF Select \in ToSet(P.todo) THEN Preparing ELSE KnexStatements
      BY <1>2, <1>4, <1>6
    <3> HIDE DEF S
    <3>3. ToSet(p) \subseteq S BY <3>1, <1>4, Within
    <3>4. p \in Seq(S) BY <1>4, <3>3, Within
    <3> QED BY <3>2, <3>4, <1>2
  <2>3. ASSUME R.adapter = "drizzle", c # "mysql2", NEW t \in Tables,
               Statement("createIfNotExists", t) \in ToSet(p)
        PROVE  Statement("createIndexes", t) \in ToSet(p)
    <3> DEFINE a == Statement("createIfNotExists", t)
               b == Statement("createIndexes", t)
    <3>1. b \in ToSet(q) BY <2>1, <2>3, <1>4, <1>5 DEF TodoOK
    <3>2. b \notin Gone(q, k)
      <4>1. PICK j \in DOMAIN q : q[j] = a /\ j \notin 1..k
        BY <2>3, <1>4 DEF ToSet, Gone
      <4>2. Rank(a) < Rank(b) /\ Rank(a) \in Int /\ Rank(b) \in Int BY DrizzleRanks
      <4>3. \A i \in 1..k : i \in DOMAIN q /\ i < j BY <4>1, <1>1
      <4>4. \A i \in 1..k : Rank(q[i]) < Rank(a) BY <4>1, <4>3, <1>1 DEF Sorted
      <4>5. \A i \in 1..k : q[i] # b
        <5> SUFFICES ASSUME NEW i \in 1..k, q[i] = b PROVE FALSE OBVIOUS
        <5>1. Rank(b) < Rank(a) BY <4>4
        <5> QED BY <5>1, <4>2
      <4> QED BY <4>5 DEF Gone
    <3> QED BY <3>1, <3>2, <1>4
  <2> QED BY <2>2, <2>3, <1>2, <1>4 DEF TodoOK
<1>9. RunOK(P, c) BY <1>2, <1>8 DEF RunOK
<1>10. P.todo # <<>> =>
         /\ k + 1 \in DOMAIN q /\ P.todo[1] = q[k+1]
         /\ \A do \in DOMAIN Leads : \A t : At(P, Leads[do], t) => q[k] = Statement(do, t)
  BY <1>2, <1>4 DEF At
<1> QED BY <1>2, <1>3, <1>4, <1>5, <1>7, <1>9, <1>10 DEF P, p

---------------------------------------------------------------------------
(* What a run has sent stays done.                                          *)

(* The database d became e: nothing that a run relies on is taken back.     *)
Grown(d, e, f) ==
    /\ \A t \in Tables : /\ d.tables[t].columns \subseteq e.tables[t].columns
                         /\ d.tables[t].keys \subseteq e.tables[t].keys
    /\ d.recorded \subseteq e.recorded /\ e.payments = d.payments
    /\ \A p \in d.payments : e.attempts[p] >= d.attempts[p]
    /\ Len(e.limits) <= Len(d.limits)
    /\ NoContext(d) => NoContext(e)
    /\ Top(d, f) => Top(e, f)
    /\ d.tables["transactions"] # NoTable =>
         ((NewTransactions(d) => NewKey["transactions"] \in d.tables["transactions"].keys) =>
          (NewTransactions(e) => NewKey["transactions"] \in e.tables["transactions"].keys))

LEMMA LimitsAre ==
    ASSUME NEW q \in Limits
    PROVE  Len(q) \in Nat /\ DOMAIN q = 1..Len(q) /\ \A i \in DOMAIN q : q[i] \in LimitRow
BY DEF Limits

LEMMA TheColumns ==
    /\ DOMAIN NewColumn = {"paymentIntents", "transactions"}
    /\ DOMAIN NewColumn \subseteq Tables
    /\ {"transactions", "requestMetadata", "rateLimits", "transactionAttempts"} \subseteq Tables
BY TheTables DEF NewColumn

LEMMA EffectsOfBoth ==
    ASSUME NEW d, NEW S, NEW T, NEW U, Effects(d, S), Effects(d, T), U \subseteq S \cup T
    PROVE  Effects(d, U)
BY DEF Effects

LEMMA EffectsOfFewer ==
    ASSUME NEW d, NEW S, NEW U, Effects(d, S), U \subseteq S
    PROVE  Effects(d, U)
BY DEF Effects

LEMMA EffectsGrow ==
    ASSUME NEW d, NEW e, NEW f, NEW S, DbShape(d), DbShape(e), Grown(d, e, f), Effects(d, S)
    PROVE  Effects(e, S)
<1>1. \A t \in Tables : /\ d.tables[t].columns \subseteq e.tables[t].columns
                        /\ d.tables[t].keys \subseteq e.tables[t].keys
  BY DEF Grown
<1>2. \A p \in e.payments : p \in d.payments /\ d.attempts[p] \in Int /\ e.attempts[p] \in Int
                            /\ e.attempts[p] >= d.attempts[p]
  <2>1. e.payments = d.payments /\ \A p \in d.payments : e.attempts[p] >= d.attempts[p] BY DEF Grown
  <2>2. d.attempts \in [Payment -> Nat] /\ e.attempts \in [Payment -> Nat] /\ d.payments \subseteq Payment
    BY DEF DbShape
  <2> QED BY <2>1, <2>2
<1>3. Len(e.limits) \in Int /\ Len(d.limits) \in Int /\ Len(e.limits) <= Len(d.limits)
  <2> DEFINE a == d.limits
             b == e.limits
  <2>1. Len(b) <= Len(a) BY DEF Grown
  <2>2. a \in Limits /\ b \in Limits BY DEF DbShape
  <2> HIDE DEF a, b
  <2>3. Len(a) \in Int /\ Len(b) \in Int BY <2>2, LimitsAre
  <2> QED BY <2>1, <2>3 DEF a, b
<1>4. \A t \in Tables : Statement("createTable", t) \in S => KnexTable[t].columns \subseteq e.tables[t].columns
  BY <1>1 DEF Effects
<1>5. Statement("insertAttempts", "transactionAttempts") \in S => \A p \in e.payments : e.attempts[p] >= 1
  BY <1>2 DEF Effects
<1>6. \A t \in {"transactions", "requestMetadata"} :
        Statement("addKey", t) \in S => NewKey[t] \in e.tables[t].keys
  BY <1>1, TheColumns DEF Effects
<1>7. Statement("addKeyInSavepoint", "rateLimits") \in S => NewKey["rateLimits"] \in e.tables["rateLimits"].keys
  BY <1>1, TheColumns DEF Effects
<1>8. Statement("deleteDuplicates", "rateLimits") \in S => Len(e.limits) <= 1
  BY <1>3 DEF Effects
<1>9. \A t \in DOMAIN NewColumn :
        Statement("addColumn", t) \in S => NewColumn[t] \in e.tables[t].columns
  BY <1>1, TheColumns DEF Effects
<1>10. \A t \in Tables :
         Statement("assertColumnsExist", t) \in S => tableSpec[t].columns \subseteq e.tables[t].columns
  BY <1>1 DEF Effects
<1> QED BY <1>4, <1>5, <1>6, <1>7, <1>8, <1>9, <1>10 DEF Effects

(* What ranks before the next statement has been sent.                      *)
LEMMA SentBefore ==
    ASSUME NEW R, NEW c, RunOK(R, c), R.adapter = "knex", R.todo # <<>>, R.todo[1] \in KnexStatements,
           NEW s \in KnexStatements, Rank(s) < Rank(R.todo[1])
    PROVE  s \in Passed(R)
<1> DEFINE q == R.todo
<1>1. /\ q \in Seq(AllStatements) /\ Sorted(q) /\ Len(q) \in Nat /\ DOMAIN q = 1..Len(q)
      /\ Select \in ToSet(q) => q \in Seq(Preparing)
  BY TodoIsOf
<1> HIDE DEF q
<1>2. R.todo = q /\ q # <<>> BY DEF q
<1>3. 1 \in DOMAIN q BY <1>1, <1>2
<1>4. Select \notin ToSet(q)
  <2> SUFFICES ASSUME Select \in ToSet(q) PROVE FALSE OBVIOUS
  <2>1. q[1] \in Preparing BY <1>1, <1>3
  <2>2. Rank(q[1]) <= 3 BY <2>1, PreparingPart
  <2>3. PICK m \in Migration : q[1] \in Statements(m) BY <1>2 DEF KnexStatements
  <2> DEFINE h == 100 * m
  <2>4. h \in Int /\ h >= 100 BY DEF Migration
  <2>5. Rank(q[1]) \in Int /\ h <= Rank(q[1]) BY <2>3, StatementsIn
  <2> HIDE DEF h
  <2> QED BY <2>2, <2>4, <2>5
<1>5. s \notin ToSet(q)
  <2> SUFFICES ASSUME s \in ToSet(q) PROVE FALSE OBVIOUS
  <2>1. PICK i \in DOMAIN q : q[i] = s BY DEF ToSet
  <2>2. Rank(s) \in Int /\ Rank(q[1]) \in Int BY <1>2, AllRanked DEF AllStatements
  <2>3. CASE i = 1
    <3>1. Rank(s) < Rank(s) BY <2>1, <2>3, <1>2
    <3> QED BY <3>1, <2>2
  <2>4. CASE i # 1
    <3>1. 1 < i BY <2>4, <1>1
    <3>2. Rank(q[1]) < Rank(s) BY <3>1, <2>1, <1>1, <1>3 DEF Sorted
    <3>3. Rank(s) < Rank(q[1]) BY <1>2
    <3> QED BY <3>2, <3>3, <2>2
  <2> QED BY <2>3, <2>4
<1> QED BY <1>2, <1>4, <1>5 DEF Passed

LEMMA AtIsKnex ==
    ASSUME NEW R, NEW c, RunOK(R, c), NEW do, NEW t, At(R, do, t), Statement(do, t) \in KnexStatements
    PROVE  R.adapter = "knex" /\ R.todo # <<>> /\ R.todo[1] = Statement(do, t)
<1>1. R.todo # <<>> /\ R.todo[1] = Statement(do, t) BY DEF At
<1>2. R.adapter = "drizzle" => R.todo \in Seq(DrizzleStatements) BY TodoIsOf
<1>3. R.adapter \in {"knex", "drizzle"} BY DEF RunOK
<1>4. Statement(do, t) \notin DrizzleStatements
  <2> SUFFICES ASSUME Statement(do, t) \in DrizzleStatements PROVE FALSE OBVIOUS
  <2>1. PICK m \in Migration : Statement(do, t) \in Statements(m) BY DEF KnexStatements
  <2> DEFINE h == 100 * m
             s == Statement(do, t)
  <2>2. h \in Int /\ h >= 100 BY DEF Migration
  <2>3. Rank(s) \in Int /\ h <= Rank(s) BY <2>1, StatementsIn
  <2>4. Rank(s) <= 30 BY DrizzleRanks DEF DrizzleStatements
  <2> HIDE DEF h, s
  <2> QED BY <2>2, <2>3, <2>4
<1>5. R.adapter = "drizzle" => R.todo[1] \in DrizzleStatements
  <2> SUFFICES ASSUME R.adapter = "drizzle" PROVE R.todo[1] \in DrizzleStatements OBVIOUS
  <2>1. R.todo \in Seq(DrizzleStatements) /\ R.todo # <<>> BY <1>1, <1>2
  <2> QED BY <2>1
<1> QED BY <1>1, <1>3, <1>4, <1>5

LEMMA AnExistingTable ==
    ASSUME NEW d, NEW t \in Tables, KnexTable[t].columns \subseteq d.tables[t].columns
    PROVE  d.tables[t] # NoTable
<1>1. "id" \in KnexTable[t].columns
  BY TheTables DEF KnexTable, TableOf, createTransactionsTable, createTransactionItemsTable, createInvoicesTable,
     createRequestMetadataTable, createRateLimitsTable, createBlacklistTable, createTransactionLogsTable,
     createTransactionAttemptsTable, createPaymentIntentsTable
<1> QED BY <1>1 DEF NoTable, TableOf

LEMMA HoldsGrow ==
    ASSUME NEW d, NEW e, NEW f, NEW R, NEW c, RunOK(R, c), DbShape(d), DbShape(e), Grown(d, e, f), Holds(d, R, f)
    PROVE  Holds(e, R, f)
<1>1. Effects(e, Passed(R)) BY EffectsGrow DEF Holds
<1>2. Asserted(d, R, f) BY DEF Holds
<1>3. At(R, "findDuplicates", "rateLimits") => NoContext(e) BY <1>2 DEF Asserted, Grown
<1>4. At(R, "deleteDuplicates", "rateLimits") => Top(e, f) BY <1>2 DEF Asserted, Grown
<1>5. ASSUME At(R, "createKeys", "transactions")
      PROVE  NewTransactions(e) => NewKey["transactions"] \in e.tables["transactions"].keys
  <2>1. "transactions" \in Tables BY TheColumns
  <2> DEFINE a == Statement("createTable", "transactions")
             b == Statement("createKeys", "transactions")
  <2>2. a \in KnexStatements /\ b \in KnexStatements
    <3>1. Home["transactions"] \in Migration BY DEF Home, Migration
    <3> QED BY <2>1, <3>1, TriplesIn DEF KnexStatements
  <2>3. R.adapter = "knex" /\ R.todo # <<>> /\ R.todo[1] = b BY <1>5, <2>2, AtIsKnex
  <2>4. Rank(a) < Rank(b) BY <2>1, Ranks
  <2>5. a \in Passed(R) BY <2>2, <2>3, <2>4, SentBefore
  <2>6. KnexTable["transactions"].columns \subseteq d.tables["transactions"].columns
    BY <2>1, <2>5 DEF Holds, Effects
  <2>7. d.tables["transactions"] # NoTable BY <2>1, <2>6, AnExistingTable
  <2> QED BY <2>7, <1>2, <1>5 DEF Asserted, Grown
<1> QED BY <1>1, <1>3, <1>4, <1>5 DEF Holds, Asserted

---------------------------------------------------------------------------
(* The rows of a limit.  The fold that sums their hits takes them in an     *)
(* order nobody knows.                                                      *)

Pick(s) == CHOOSE x \in s : TRUE

(* it is what a fold makes of every part of D.                              *)
Sums(f, it, D) ==
    it = [s \in SUBSET D |-> IF s = {} THEN 0 ELSE f[Pick(s)] + it[s \ {Pick(s)}]]

SumOver(f, D) == (CHOOSE it : Sums(f, it, D))[D]

Hits(rows) == [i \in DOMAIN rows |-> rows[i].hits]

LEMMA SumHitsIsSum == ASSUME NEW rows PROVE SumHits(rows) = SumOver(Hits(rows), DOMAIN rows)
<1>1. DOMAIN Hits(rows) = DOMAIN rows BY DEF Hits
<1>2. SumHits(rows) = SumOver(Hits(rows), DOMAIN Hits(rows))
  BY DEF SumHits, Hits, FoldSeq, FoldFunction, FoldFunctionOnSet, MapThenFoldSet, SumOver, Sums, Pick
<1> QED BY <1>1, <1>2

(* Of the parts of a finite set that fail, one has no failing part.         *)
LEMMA Smallest ==
    ASSUME NEW D, IsFiniteSet(D), NEW T, T \subseteq SUBSET D, T # {}
    PROVE  \E W \in T : \A U \in T : U \subseteq W => U = W
<1>1. FiniteSubsetsOf(D) = SUBSET D BY FS_FiniteSubsetsOfFinite
<1>2. IsWellFoundedOn(StrictSubsetOrdering(D), SUBSET D)
  BY <1>1, FS_StrictSubsetOrderingWellFounded
<1>3. PICK W \in T : \A U \in T : ~(<<U, W>> \in StrictSubsetOrdering(D)) BY <1>2, WFMin
<1>4. \A U \in T : U \subseteq W => U = W BY <1>3 DEF StrictSubsetOrdering
<1> QED BY <1>4

LEMMA PickIsIn == ASSUME NEW s, s # {} PROVE Pick(s) \in s
BY DEF Pick

LEMMA SumsAt ==
    ASSUME NEW f, NEW D, NEW it, Sums(f, it, D), NEW s \in SUBSET D
    PROVE  it[s] = IF s = {} THEN 0 ELSE f[Pick(s)] + it[s \ {Pick(s)}]
<1> DEFINE at(u) == IF u = {} THEN 0 ELSE f[Pick(u)] + it[u \ {Pick(u)}]
<1>1. it = [u \in SUBSET D |-> at(u)] BY DEF Sums
<1> HIDE DEF at
<1>2. it[s] = at(s) BY <1>1
<1> QED BY <1>2 DEF at

LEMMA SumsAgree ==
    ASSUME NEW f, NEW D, NEW E, IsFiniteSet(D), NEW g, NEW h, Sums(f, g, D), Sums(f, h, E)
    PROVE  \A s \in SUBSET (D \cap E) : g[s] = h[s]
<1> DEFINE T == {s \in SUBSET (D \cap E) : g[s] # h[s]}
<1> SUFFICES ASSUME T # {} PROVE FALSE OBVIOUS
<1>1. T \subseteq SUBSET D OBVIOUS
<1>2. PICK W \in T : \A U \in T : U \subseteq W => U = W
  <2> HIDE DEF T
  <2> QED BY <1>1, Smallest
<1>3. W \in SUBSET D /\ W \in SUBSET E OBVIOUS
<1>4. /\ g[W] = IF W = {} THEN 0 ELSE f[Pick(W)] + g[W \ {Pick(W)}]
      /\ h[W] = IF W = {} THEN 0 ELSE f[Pick(W)] + h[W \ {Pick(W)}]
  BY <1>3, SumsAt
<1>5. W # {} BY <1>4
<1>6. Pick(W) \in W BY <1>5, PickIsIn
<1>7. W \ {Pick(W)} \notin T BY <1>2, <1>6
<1>8. g[W \ {Pick(W)}] = h[W \ {Pick(W)}] BY <1>3, <1>7
<1> QED BY <1>4, <1>5, <1>8

LEMMA SumsExist ==
    ASSUME NEW f, NEW D, IsFiniteSet(D)
    PROVE  \E it : Sums(f, it, D)
<1> DEFINE T == {s \in SUBSET D : ~\E it : Sums(f, it, s)}
<1> SUFFICES ASSUME T # {} PROVE FALSE OBVIOUS
<1>1. T \subseteq SUBSET D OBVIOUS
<1>2. PICK W \in T : \A U \in T : U \subseteq W => U = W
  <2> HIDE DEF T
  <2> QED BY <1>1, Smallest
<1> DEFINE of(U) == CHOOSE it : Sums(f, it, U)
           rest(s) == s \ {Pick(s)}
           at(s) == IF s = {} THEN 0 ELSE f[Pick(s)] + of(rest(s))[rest(s)]
           it == [s \in SUBSET W |-> at(s)]
<1>3. ASSUME NEW s \in SUBSET W, s # {}
      PROVE  /\ rest(s) \in SUBSET W /\ rest(s) # W /\ rest(s) \subseteq s
             /\ Sums(f, of(rest(s)), rest(s))
  <2>1. Pick(s) \in s BY <1>3, PickIsIn
  <2>2. rest(s) \in SUBSET W /\ rest(s) # W /\ rest(s) \subseteq s BY <2>1
  <2>3. rest(s) \notin T BY <1>2, <2>2
  <2>4. \E g : Sums(f, g, rest(s)) BY <2>2, <2>3
  <2> QED BY <2>2, <2>4
<1>4. ASSUME NEW s \in SUBSET W, s # {} PROVE of(rest(s))[rest(s)] = at(rest(s))
  <2> DEFINE U == rest(s)
  <2>1. U \in SUBSET W /\ Sums(f, of(U), U) BY <1>3, <1>4
  <2>2. of(U)[U] = IF U = {} THEN 0 ELSE f[Pick(U)] + of(U)[U \ {Pick(U)}]
    <3> HIDE DEF of, U
    <3> QED BY <2>1, SumsAt
  <2>3. CASE U = {} BY <2>2, <2>3
  <2>4. CASE U # {}
    <3>1. Sums(f, of(rest(U)), rest(U)) /\ rest(U) \subseteq U BY <1>3, <2>1, <2>4
    <3>2. IsFiniteSet(U) BY <2>1, FS_Subset
    <3>3. rest(U) \in SUBSET (U \cap rest(U)) BY <3>1
    <3> HIDE DEF of, U
    <3>4. of(U)[rest(U)] = of(rest(U))[rest(U)] BY <2>1, <3>1, <3>2, <3>3, SumsAgree
    <3> QED BY <2>2, <2>4, <3>4 DEF U
  <2> QED BY <2>3, <2>4
<1>5. ASSUME NEW s \in SUBSET W
      PROVE  it[s] = IF s = {} THEN 0 ELSE f[Pick(s)] + it[s \ {Pick(s)}]
  <2>1. it[s] = at(s) OBVIOUS
  <2>2. CASE s = {} BY <2>1, <2>2
  <2>3. CASE s # {}
    <3>1. rest(s) \in SUBSET W BY <1>3, <2>3
    <3>2. it[rest(s)] = at(rest(s)) BY <3>1
    <3>3. of(rest(s))[rest(s)] = at(rest(s)) BY <1>4, <2>3
    <3>4. at(s) = f[Pick(s)] + of(rest(s))[rest(s)] BY <2>3
    <3> QED BY <2>1, <2>3, <3>2, <3>3, <3>4
  <2> QED BY <2>2, <2>3
<1> DEFINE as(s) == IF s = {} THEN 0 ELSE f[Pick(s)] + it[s \ {Pick(s)}]
<1>6. it = [s \in SUBSET W |-> as(s)]
  <2>1. \A s \in SUBSET W : it[s] = as(s) BY <1>5
  <2>2. it = [s \in SUBSET W |-> at(s)] OBVIOUS
  <2> HIDE DEF as, at, it
  <2> QED BY <2>1, <2>2
<1>7. Sums(f, it, W)
  <2> HIDE DEF it
  <2> QED BY <1>6 DEF Sums
<1> QED BY <1>7

LEMMA SumUnfolds ==
    ASSUME NEW f, NEW D, IsFiniteSet(D)
    PROVE  SumOver(f, D) = IF D = {} THEN 0 ELSE f[Pick(D)] + SumOver(f, D \ {Pick(D)})
<1> DEFINE of(U) == CHOOSE it : Sums(f, it, U)
           E == D \ {Pick(D)}
<1>1. Sums(f, of(D), D) BY SumsExist
<1>2. IsFiniteSet(E) BY FS_Subset
<1>3. Sums(f, of(E), E) BY <1>2, SumsExist
<1>4. SumOver(f, D) = of(D)[D] /\ SumOver(f, E) = of(E)[E] BY DEF SumOver
<1> HIDE DEF of
<1>5. of(D)[D] = IF D = {} THEN 0 ELSE f[Pick(D)] + of(D)[E] BY <1>1, SumsAt
<1>6. of(D)[E] = of(E)[E]
  <2>1. E \in SUBSET (D \cap E) OBVIOUS
  <2> HIDE DEF E
  <2> QED BY <1>1, <1>3, <2>1, SumsAgree
<1> QED BY <1>4, <1>5, <1>6

LEMMA SumBounds ==
    ASSUME NEW f, NEW D, IsFiniteSet(D), \A x \in D : f[x] \in Nat
    PROVE  SumOver(f, D) \in Nat /\ \A x \in D : SumOver(f, D) >= f[x]
<1> DEFINE Bounds(s) == SumOver(f, s) \in Nat /\ \A x \in s : SumOver(f, s) >= f[x]
           T == {s \in SUBSET D : ~Bounds(s)}
<1> SUFFICES ASSUME T # {} PROVE FALSE OBVIOUS
<1>1. T \subseteq SUBSET D OBVIOUS
<1>2. PICK W \in T : \A U \in T : U \subseteq W => U = W
  <2> HIDE DEF T
  <2> QED BY <1>1, Smallest
<1>3. IsFiniteSet(W) BY FS_Subset
<1>4. SumOver(f, W) = IF W = {} THEN 0 ELSE f[Pick(W)] + SumOver(f, W \ {Pick(W)})
  BY <1>3, SumUnfolds
<1>5. W # {} BY <1>4
<1> DEFINE y == Pick(W)
           rest == SumOver(f, W \ {y})
<1>6. y \in W BY <1>5, PickIsIn
<1>7. W \ {y} \in SUBSET D /\ W \ {y} \notin T BY <1>2, <1>6
<1>8. rest \in Nat /\ \A x \in W \ {y} : rest >= f[x] BY <1>7
<1>9. SumOver(f, W) = f[y] + rest BY <1>4, <1>5
<1> HIDE DEF y, rest
<1>10. \A x \in W : f[x] \in Nat OBVIOUS
<1>11. \A x \in W : x = y \/ rest >= f[x] BY <1>8
<1>12. Bounds(W) BY <1>6, <1>8, <1>9, <1>10, <1>11
<1> QED BY <1>12

LEMMA HitsSum ==
    ASSUME NEW rows \in Limits
    PROVE  SumHits(rows) \in Nat /\ \A i \in DOMAIN rows : SumHits(rows) >= rows[i].hits
<1>1. /\ DOMAIN rows = 1..Len(rows) /\ Len(rows) \in Nat
      /\ \A i \in DOMAIN rows : rows[i] \in LimitRow
  BY LimitsAre
<1>2. IsFiniteSet(DOMAIN rows) BY <1>1, FS_Interval
<1>3. \A i \in DOMAIN rows : Hits(rows)[i] = rows[i].hits /\ rows[i].hits \in Nat BY <1>1 DEF Hits, LimitRow
<1>4. \A i \in DOMAIN rows : Hits(rows)[i] \in Nat BY <1>3
<1>5. SumOver(Hits(rows), DOMAIN rows) \in Nat
      /\ \A i \in DOMAIN rows : SumOver(Hits(rows), DOMAIN rows) >= Hits(rows)[i]
  BY <1>2, <1>4, SumBounds
<1> QED BY <1>3, <1>5, SumHitsIsSum

LEMMA HitsOfOne ==
    ASSUME NEW rows \in Limits, Len(rows) = 1
    PROVE  SumHits(rows) = rows[1].hits
<1>1. DOMAIN rows = {1} /\ rows[1] \in LimitRow
  <2>1. DOMAIN rows = 1..1 /\ 1 \in 1..1 BY LimitsAre
  <2> QED BY <2>1, LimitsAre
<1>2. IsFiniteSet({1}) /\ IsFiniteSet({}) BY FS_Singleton, FS_EmptySet
<1>3. Pick({1}) = 1 /\ {1} \ {Pick({1})} = {} BY PickIsIn
<1> DEFINE h == Hits(rows)
<1>4. h[1] = rows[1].hits /\ rows[1].hits \in Nat BY <1>1 DEF Hits, LimitRow
<1> HIDE DEF h
<1>5. SumOver(h, {}) = 0 BY <1>2, SumUnfolds
<1>6. SumOver(h, {1}) = h[1] + SumOver(h, {}) BY <1>2, <1>3, SumUnfolds
<1> QED BY <1>1, <1>4, <1>5, <1>6, SumHitsIsSum DEF h

(* Greatest(S, n): n is the greatest of S.                                  *)
Greatest(S, n) == n \in S /\ \A m \in S : n >= m

LEMMA GreatestExists ==
    ASSUME NEW S, IsFiniteSet(S), \A n \in S : n \in Nat, S # {}
    PROVE  \E n \in S : \A m \in S : n >= m
<1> DEFINE HasOne(s) == \E n \in s : \A m \in s : n >= m
           T == {s \in SUBSET S : s # {} /\ ~HasOne(s)}
<1> SUFFICES ASSUME T # {} PROVE FALSE
  <2>1. S \notin T OBVIOUS
  <2> QED BY <2>1
<1>1. T \subseteq SUBSET S OBVIOUS
<1>2. PICK W \in T : \A U \in T : U \subseteq W => U = W
  <2> HIDE DEF T
  <2> QED BY <1>1, Smallest
<1>3. PICK y \in W : TRUE OBVIOUS
<1> DEFINE U == W \ {y}
<1>4. U \in SUBSET S /\ U \notin T BY <1>2
<1>5. CASE U = {}
  <2>1. \A m \in W : m = y /\ m \in Nat BY <1>5
  <2>2. \A m \in W : y >= m BY <2>1
  <2> QED BY <1>3, <2>2
<1>6. CASE U # {}
  <2>1. PICK n \in U : \A m \in U : n >= m BY <1>4, <1>6
  <2>2. n \in W /\ n \in Nat /\ y \in Nat OBVIOUS
  <2>3. \A m \in W : m \in Nat /\ (m = y \/ n >= m) BY <2>1
  <2>4. CASE n >= y
    <3>1. \A m \in W : n >= m BY <2>3, <2>4
    <3> QED BY <2>2, <3>1
  <2>5. CASE ~(n >= y)
    <3>1. \A m \in W : y >= m BY <2>2, <2>3, <2>5
    <3> QED BY <1>3, <3>1
  <2> QED BY <2>4, <2>5
<1> QED BY <1>5, <1>6

Blocks(rows) == {row.blocked : row \in ToSet(rows)} \cup {0}

LEMMA LatestIsGreatest ==
    ASSUME NEW rows \in Limits
    PROVE  Latest(rows) \in Nat /\ Greatest(Blocks(rows), Latest(rows))
<1>1. /\ DOMAIN rows = 1..Len(rows) /\ Len(rows) \in Nat
      /\ \A i \in DOMAIN rows : rows[i] \in LimitRow
  BY LimitsAre
<1>2. IsFiniteSet(DOMAIN rows) BY <1>1, FS_Interval
<1> DEFINE D == DOMAIN rows
           at == [i \in D |-> rows[i].blocked]
           B == {at[i] : i \in D}
<1>3. IsFiniteSet(B)
  <2>1. IsFiniteSet(D) BY <1>2
  <2>2. DOMAIN at = D /\ at = [i \in D |-> at[i]] OBVIOUS
  <2> HIDE DEF at, D
  <2>3. at \in Surjection(D, B) BY <2>2 DEF Surjection
  <2> HIDE DEF B
  <2> QED BY <2>1, <2>3, FS_Surjection
<1>4. B = {row.blocked : row \in ToSet(rows)} BY DEF ToSet
<1>5. \A i \in DOMAIN rows : at[i] \in Nat BY <1>1 DEF LimitRow
<1>6. \A n \in B : n \in Nat BY <1>5
<1> HIDE DEF B
<1>7. IsFiniteSet(B \cup {0})
  <2>1. IsFiniteSet({0}) BY FS_Singleton
  <2> QED BY <1>3, <2>1, FS_Union
<1>8. B \cup {0} = Blocks(rows) BY <1>4 DEF Blocks
<1>9. Blocks(rows) # {} /\ \A n \in Blocks(rows) : n \in Nat
  <2>1. \A n \in B \cup {0} : n \in Nat BY <1>6
  <2>2. 0 \in B \cup {0} OBVIOUS
  <2> QED BY <1>8, <2>1, <2>2
<1>10. \E n \in Blocks(rows) : \A m \in Blocks(rows) : n >= m BY <1>7, <1>8, <1>9, GreatestExists
<1>11. Latest(rows) = CHOOSE n \in Blocks(rows) : \A m \in Blocks(rows) : n >= m
  BY DEF Latest, Max, Blocks
<1>12. Latest(rows) \in Blocks(rows) /\ \A m \in Blocks(rows) : Latest(rows) >= m BY <1>10, <1>11
<1> QED BY <1>9, <1>12 DEF Greatest

LEMMA OneGreatest ==
    ASSUME NEW S, S \subseteq Nat, NEW m, NEW n, Greatest(S, m), Greatest(S, n)
    PROVE  m = n
<1>1. m \in Nat /\ n \in Nat /\ m >= n /\ n >= m BY DEF Greatest
<1> QED BY <1>1

(* The latest block is the greatest one.                                    *)
LEMMA LatestIs ==
    ASSUME NEW rows \in Limits, NEW n \in Nat,
           n = 0 \/ \E i \in DOMAIN rows : rows[i].blocked = n,
           \A i \in DOMAIN rows : rows[i].blocked <= n
    PROVE  Latest(rows) = n
<1>1. \A i \in DOMAIN rows : rows[i].blocked \in Nat BY LimitsAre DEF LimitRow
<1>2. Blocks(rows) \subseteq Nat BY <1>1 DEF Blocks, ToSet
<1>3. n \in Blocks(rows) BY DEF Blocks, ToSet
<1>4. \A m \in Blocks(rows) : n >= m BY <1>1 DEF Blocks, ToSet
<1>5. Greatest(Blocks(rows), n) BY <1>3, <1>4 DEF Greatest
<1> QED BY <1>2, <1>5, LatestIsGreatest, OneGreatest

LEMMA LatestBounds ==
    ASSUME NEW rows \in Limits
    PROVE  /\ Latest(rows) \in Nat
           /\ \A i \in DOMAIN rows : rows[i].blocked <= Latest(rows)
           /\ Latest(rows) = 0 \/ \E i \in DOMAIN rows : rows[i].blocked = Latest(rows)
<1>1. Latest(rows) \in Nat /\ Greatest(Blocks(rows), Latest(rows)) BY LatestIsGreatest
<1>2. \A i \in DOMAIN rows : rows[i].blocked \in Nat /\ rows[i].blocked \in Blocks(rows)
  BY LimitsAre DEF LimitRow, Blocks, ToSet
<1>3. \A i \in DOMAIN rows : rows[i].blocked <= Latest(rows) BY <1>1, <1>2 DEF Greatest
<1>4. Latest(rows) \in Blocks(rows) BY <1>1 DEF Greatest
<1>5. Latest(rows) = 0 \/ \E i \in DOMAIN rows : rows[i].blocked = Latest(rows)
  BY <1>4 DEF Blocks, ToSet
<1> QED BY <1>1, <1>3, <1>5

---------------------------------------------------------------------------
(* A run moves on by one statement, and the invariant holds.                *)

(* Of the run R: it became P while the database d became e.                 *)
Fine(d, e, R, P, f) ==
    /\ Grown(d, e, f) /\ DbOK(e, f) /\ Holds(e, P, f)
    /\ Quiet(d, R) => Quiet(e, P)
    /\ Settled(d, R, f) => Settled(e, P, f)
    /\ e.keyless \subseteq d.keyless \cup {t \in Tables : d.tables[t] = NoTable}
    /\ R.adapter = "knex" => \A t \in {"transactions", "requestMetadata"} :
          Statement("addKey", t) \notin Passed(P) /\ NewKey[t] \in e.tables[t].keys
            => Statement("addKey", t) \notin Passed(R) /\ NewKey[t] \in d.tables[t].keys

(* A run that is done leaves no table out.                                  *)
LEMMA DoneHasAll ==
    ASSUME NEW d, NEW R, NEW c, NEW f, RunOK(R, c), R.phase = "done", Holds(d, R, f), NEW t \in Tables
    PROVE  d.tables[t] # NoTable
<1>1. R.todo = <<>> /\ R.adapter \in {"knex", "drizzle"} BY DEF RunOK
<1>2. ToSet(R.todo) = {} BY <1>1 DEF ToSet
<1>3. Effects(d, Passed(R)) BY DEF Holds
<1>4. CASE R.adapter = "knex"
  <2>1. Statement("createTable", t) \in KnexStatements
    <3>1. Home[t] \in Migration BY TheTables DEF Home, Migration
    <3> QED BY <3>1, TriplesIn DEF KnexStatements
  <2>2. Statement("createTable", t) \in Passed(R) BY <1>2, <1>4, <2>1 DEF Passed
  <2>3. KnexTable[t].columns \subseteq d.tables[t].columns BY <1>3, <2>2 DEF Effects
  <2> QED BY <2>3, AnExistingTable
<1>5. CASE R.adapter = "drizzle"
  <2>1. Statement("assertColumnsExist", t) \in DrizzleStatements BY DEF DrizzleStatements
  <2>2. Statement("assertColumnsExist", t) \in Passed(R) BY <1>2, <1>5, <2>1 DEF Passed
  <2>3. tableSpec[t].columns \subseteq d.tables[t].columns BY <1>3, <2>2 DEF Effects
  <2>4. "id" \in tableSpec[t].columns
    BY TheTables DEF tableSpec, TableOf, transactions, transactionItems, transactionAttempts, paymentIntents,
       invoices, transactionLogs, blacklist, rateLimits, requestMetadata
  <2> QED BY <2>3, <2>4 DEF NoTable, TableOf
<1> QED BY <1>1, <1>4, <1>5

LEMMA AdvanceHolds ==
    ASSUME IInv, NEW r \in Runner, NEW P, Running(r), \A s \in Other(r) : Running(s) => ~Transactional(s),
           RunOK(P, client), P.phase = "running", P.adapter = runner[r].adapter,
           P.alone = runner[r].alone, P.before = runner[r].before,
           P.aborted => Transactional(r) /\ KeyBefore(r),
           runner' = [runner EXCEPT ![r] = P], Kept, Fine(db, db', runner[r], P, first)
    PROVE  IInv'
<1>1. UNCHANGED <<client, together, named, first, interrupted>> BY DEF Kept
<1>2. /\ DOMAIN runner' = Runner /\ runner'[r] = P
      /\ \A s \in Runner : s # r => runner'[s] = runner[s]
  BY DEF IInv
<1>3. \A s \in Other(r) : s \in Runner /\ s # r BY DEF Other
<1>4. \A s \in Runner : Running(s)' <=> Running(s) BY <1>2 DEF Running
<1>5. \A s \in Runner : Transactional(s)' <=> Transactional(s) BY <1>1, <1>2 DEF Transactional
<1>6. \A s \in Runner : Live(s)' <=> Live(s) BY <1>2 DEF Live, Running
<1>7. \A s \in Runner : RunOK(runner[s], client) /\ runner[s].before = runner'[s].before BY <1>2 DEF IInv
<1>8. \A s \in Runner : RunOK(runner'[s], client') BY <1>1, <1>2, <1>7
<1>9. DbOK(db', first') /\ Grown(db, db', first) /\ DbShape(db') /\ DbShape(db)
  BY <1>1 DEF Fine, DbOK, IInv
<1>10. RunsHold'
  <2>1. ASSUME NEW s \in Runner, Live(s)' PROVE Holds(db', runner'[s], first')
    <3>1. CASE s = r BY <1>1, <1>2, <3>1 DEF Fine
    <3>2. CASE s # r
      <4>1. Holds(db, runner[s], first) BY <1>6, <2>1 DEF IInv, RunsHold
      <4>2. Holds(db', runner[s], first) BY <1>7, <1>9, <4>1, HoldsGrow
      <4> QED BY <1>1, <1>2, <3>2, <4>2
    <3> QED BY <3>1, <3>2
  <2> QED BY <2>1 DEF RunsHold
<1>11. OneTransaction'
  <2> SUFFICES ASSUME NEW q \in Runner, Running(q)', Transactional(q)'
               PROVE  /\ \A s \in Other(q) : Running(s)' => runner'[s].adapter = "drizzle"
                      /\ DbOK(runner'[q].before, first')
                      /\ \A s \in Other(q) : Live(s)' => Holds(runner'[q].before, runner'[s], first')
                      /\ runner'[q].before.recorded \subseteq db'.recorded
                      /\ \A t \in {"transactions", "requestMetadata"} :
                            /\ Statement("addKey", t) \notin Passed(runner'[q])
                            /\ NewKey[t] \in db'.tables[t].keys
                            => NewKey[t] \in runner'[q].before.tables[t].keys
    BY DEF OneTransaction, Other
  <2>1. Running(q) /\ Transactional(q) BY <1>4, <1>5
  <2>2. q = r BY <2>1 DEF Other
  <2>3. /\ \A s \in Other(r) : Running(s) => runner[s].adapter = "drizzle"
        /\ DbOK(runner[r].before, first)
        /\ \A s \in Other(r) : Live(s) => Holds(runner[r].before, runner[s], first)
        /\ runner[r].before.recorded \subseteq db.recorded
        /\ \A t \in {"transactions", "requestMetadata"} :
              /\ Statement("addKey", t) \notin Passed(runner[r])
              /\ NewKey[t] \in db.tables[t].keys
              => NewKey[t] \in runner[r].before.tables[t].keys
    BY <2>1, <2>2 DEF IInv, OneTransaction
  <2>4. P.before = runner[r].before OBVIOUS
  <2>5. \A s \in Other(r) : Running(s)' => runner'[s].adapter = "drizzle" BY <1>2, <1>3, <1>4, <2>3
  <2>6. \A s \in Other(r) : Live(s)' => Holds(P.before, runner'[s], first')
    BY <1>1, <1>2, <1>3, <1>6, <2>3, <2>4
  <2>7. P.before.recorded \subseteq db'.recorded BY <1>9, <2>3, <2>4 DEF Grown
  <2>8. runner[r].adapter = "knex" BY <2>1, <2>2 DEF Transactional
  <2>9. \A t \in {"transactions", "requestMetadata"} :
          Statement("addKey", t) \notin Passed(P) /\ NewKey[t] \in db'.tables[t].keys
            => Statement("addKey", t) \notin Passed(runner[r]) /\ NewKey[t] \in db.tables[t].keys
    BY <2>8 DEF Fine
  <2>10. \A t \in {"transactions", "requestMetadata"} :
           Statement("addKey", t) \notin Passed(P) /\ NewKey[t] \in db'.tables[t].keys
             => NewKey[t] \in P.before.tables[t].keys
    BY <2>3, <2>4, <2>9
  <2> QED BY <1>1, <1>2, <2>2, <2>3, <2>4, <2>5, <2>6, <2>7, <2>10
<1>12. AbortedHasCause'
  <2> SUFFICES ASSUME NEW s \in Runner, runner'[s].aborted PROVE Transactional(s)' /\ KeyBefore(s)'
    BY DEF AbortedHasCause
  <2>1. runner[s].before = runner'[s].before BY <1>7
  <2>2. Transactional(s) /\ KeyBefore(s) BY <1>2 DEF IInv, AbortedHasCause
  <2> QED BY <1>5, <2>1, <2>2 DEF KeyBefore
<1>13. Alone'
  <2> SUFFICES ASSUME NEW s \in Runner, Running(s)'
               PROVE  /\ runner'[s].alone => \A q \in Other(s) : ~Running(q)'
                      /\ Undisturbed(s)' => Quiet(db', runner'[s])
    BY DEF Alone
  <2>1. Running(s) /\ (runner'[s].alone <=> runner[s].alone) BY <1>2, <1>4
  <2>2. runner[s].alone => \A q \in Other(s) : ~Running(q) BY <2>1 DEF IInv, Alone
  <2>3. runner'[s].alone => \A q \in Other(s) : ~Running(q)' BY <1>4, <2>1, <2>2 DEF Other
  <2>4. ASSUME Undisturbed(s)' PROVE Quiet(db', runner'[s])
    <3>1. Undisturbed(s) BY <1>5, <2>1, <2>4 DEF Undisturbed
    <3>2. s = r BY <2>1, <2>2, <3>1 DEF Undisturbed, Other
    <3>3. Quiet(db, runner[r]) BY <2>1, <3>1, <3>2 DEF IInv, Alone
    <3> QED BY <1>2, <3>2, <3>3 DEF Fine
  <2> QED BY <2>3, <2>4
<1>14. ASSUME ~interrupted' PROVE Uninterrupted'
  <2>1. Uninterrupted BY <1>1, <1>14 DEF IInv
  <2>2. \A s, q \in Runner : Running(s)' /\ Running(q)' => s = q BY <1>4, <2>1 DEF Uninterrupted
  <2>3. \A s \in Runner : Running(s)' => Settled(db', runner'[s], first')
    <3>1. Settled(db, runner[r], first) BY <2>1 DEF Uninterrupted
    <3>2. Settled(db', P, first) BY <3>1 DEF Fine
    <3>3. \A s \in Runner : Running(s)' => s = r BY <1>4, <2>2
    <3> QED BY <1>1, <1>2, <3>2, <3>3
  <2>4. ~\A s \in Runner : ~Running(s)' BY <1>4
  <2>5. ASSUME NEW s \in Runner, runner'[s].phase = "done" PROVE db'.keyless = {}
    <3>1. runner[s].phase = "done" BY <1>2, <2>5
    <3>2. db.keyless = {} BY <2>1, <3>1 DEF Uninterrupted
    <3>3. Holds(db, runner[s], first) BY <3>1 DEF IInv, RunsHold, Live
    <3>4. \A t \in Tables : db.tables[t] # NoTable BY <1>7, <3>1, <3>3, DoneHasAll
    <3> QED BY <3>2, <3>4 DEF Fine
  <2> QED BY <2>2, <2>3, <2>4, <2>5 DEF Uninterrupted
<1>15. /\ client' \in {"pg", "mysql2", "better-sqlite3"}
       /\ together' => client' = "better-sqlite3"
       /\ together' \in BOOLEAN /\ interrupted' \in BOOLEAN
  BY <1>1 DEF IInv
<1> QED BY <1>2, <1>8, <1>9, <1>10, <1>11, <1>12, <1>13, <1>14, <1>15 DEF IInv

(* Runs that fail or die: the others go on.                                 *)
LEMMA EmptyTodo ==
    ASSUME NEW R, NEW c, R.todo = <<>>
    PROVE  TodoOK(R, c)
<1>1. DOMAIN R.todo = {} /\ ToSet(R.todo) = {} BY DEF ToSet
<1>2. \A S : R.todo \in Seq(S) OBVIOUS
<1>3. Sorted(R.todo) /\ Led(R.todo) BY <1>1 DEF Sorted, Led
<1> QED BY <1>1, <1>2, <1>3 DEF TodoOK

LEMMA EndHolds ==
    ASSUME IInv, NEW G, G \subseteq Runner, G # {}, DOMAIN runner' = Runner,
           \A g \in G : /\ Running(g) /\ RunOK(runner'[g], client)
                        /\ runner'[g].phase \in {"failed", "crashed"},
           \A s \in Runner \ G : runner'[s] = runner[s],
           UNCHANGED <<client, together, first>>, interrupted' = TRUE,
           \/ \E g \in G : Transactional(g) /\ db' = runner[g].before
           \/ db' = db
           \/ /\ Grown(db, db', first) /\ DbOK(db', first)
              /\ \A s \in Runner : Running(s) => ~Transactional(s)
    PROVE  IInv'
<1>1. UNCHANGED <<client, together, first>> /\ interrupted' = TRUE OBVIOUS
<1>2. \A s \in Runner : Running(s)' => Running(s) /\ s \in Runner \ G /\ runner'[s] = runner[s] BY DEF Running
<1>3. \A s \in Runner : Live(s)' => Live(s) /\ s \in Runner \ G /\ runner'[s] = runner[s] BY DEF Live
<1>4. \A s \in Runner : Running(s)' => (Transactional(s)' <=> Transactional(s)) BY <1>1, <1>2 DEF Transactional
<1>5. \A s \in Runner : RunOK(runner[s], client) BY DEF IInv
<1>6. \A s \in Runner : RunOK(runner'[s], client')
  <2> SUFFICES ASSUME NEW s \in Runner PROVE RunOK(runner'[s], client') OBVIOUS
  <2>1. CASE s \in G BY <1>1, <2>1
  <2>2. CASE s \notin G BY <1>1, <1>5, <2>2
  <2> QED BY <2>1, <2>2
<1>7. DbOK(db, first) /\ DbShape(db) BY DEF IInv, DbOK
(* One transaction at a time.                                               *)
<1>8. \A g, q \in Runner : Running(g) /\ Transactional(g) /\ Running(q) /\ Transactional(q) => q = g
  BY DEF IInv, OneTransaction, Transactional, Other
<1> DEFINE Undone == \E g \in G : Transactional(g) /\ db' = runner[g].before
           Grew == /\ Grown(db, db', first) /\ DbOK(db', first)
                   /\ \A s \in Runner : Running(s) => ~Transactional(s)
<1>9. Undone \/ db' = db \/ Grew OBVIOUS
<1>10. ASSUME Undone
       PROVE  /\ DbOK(db', first)
              /\ \A s \in Runner : Live(s)' => Holds(db', runner[s], first)
              /\ \A s \in Runner : ~(Running(s)' /\ Transactional(s)')
  <2>1. PICK g \in G : Transactional(g) /\ db' = runner[g].before BY <1>10
  <2>2. Running(g) /\ g \in Runner OBVIOUS
  <2>3. /\ DbOK(runner[g].before, first)
        /\ \A s \in Other(g) : Live(s) => Holds(runner[g].before, runner[s], first)
    BY <2>1, <2>2 DEF IInv, OneTransaction
  <2>4. \A s \in Runner : Live(s)' => s \in Other(g) /\ Live(s) BY <1>3 DEF Other
  <2>5. \A s \in Runner : ~(Running(s)' /\ Transactional(s)') BY <1>2, <1>4, <1>8, <2>1, <2>2
  <2> QED BY <2>1, <2>3, <2>4, <2>5
<1>11. ASSUME db' = db
       PROVE  /\ DbOK(db', first)
              /\ \A s \in Runner : Live(s)' => Holds(db', runner[s], first)
  BY <1>3, <1>7, <1>11 DEF IInv, RunsHold
<1>12. ASSUME Grew
       PROVE  /\ DbOK(db', first)
              /\ \A s \in Runner : Live(s)' => Holds(db', runner[s], first)
              /\ \A s \in Runner : ~(Running(s)' /\ Transactional(s)')
  <2>1. DbShape(db') /\ Grown(db, db', first) /\ DbOK(db', first) BY <1>12 DEF DbOK
  <2>2. ASSUME NEW s \in Runner, Live(s)' PROVE Holds(db', runner[s], first)
    <3>1. Holds(db, runner[s], first) BY <1>3, <2>2 DEF IInv, RunsHold
    <3> QED BY <1>5, <1>7, <2>1, <3>1, HoldsGrow
  <2>3. \A s \in Runner : ~(Running(s)' /\ Transactional(s)') BY <1>2, <1>4, <1>12
  <2> QED BY <2>1, <2>2, <2>3
<1>13. DbOK(db', first') BY <1>1, <1>9, <1>10, <1>11, <1>12
<1>14. RunsHold'
  <2>1. \A s \in Runner : Live(s)' => Holds(db', runner[s], first) BY <1>9, <1>10, <1>11, <1>12
  <2> QED BY <1>1, <1>3, <2>1 DEF RunsHold
<1>15. ASSUME NEW q \in Runner, Running(q)', Transactional(q)' PROVE db' = db /\ Running(q) /\ Transactional(q)
  BY <1>2, <1>4, <1>9, <1>10, <1>12, <1>15
<1>16. OneTransaction'
  <2> SUFFICES ASSUME NEW q \in Runner, Running(q)', Transactional(q)'
               PROVE  /\ \A s \in Other(q) : Running(s)' => runner'[s].adapter = "drizzle"
                      /\ DbOK(runner'[q].before, first')
                      /\ \A s \in Other(q) : Live(s)' => Holds(runner'[q].before, runner'[s], first')
                      /\ runner'[q].before.recorded \subseteq db'.recorded
                      /\ \A t \in {"transactions", "requestMetadata"} :
                            /\ Statement("addKey", t) \notin Passed(runner'[q])
                            /\ NewKey[t] \in db'.tables[t].keys
                            => NewKey[t] \in runner'[q].before.tables[t].keys
    BY DEF OneTransaction, Other
  <2>1. db' = db /\ Running(q) /\ Transactional(q) /\ runner'[q] = runner[q] BY <1>2, <1>15
  <2>2. /\ \A s \in Other(q) : Running(s) => runner[s].adapter = "drizzle"
        /\ DbOK(runner[q].before, first)
        /\ \A s \in Other(q) : Live(s) => Holds(runner[q].before, runner[s], first)
        /\ runner[q].before.recorded \subseteq db.recorded
        /\ \A t \in {"transactions", "requestMetadata"} :
              /\ Statement("addKey", t) \notin Passed(runner[q])
              /\ NewKey[t] \in db.tables[t].keys
              => NewKey[t] \in runner[q].before.tables[t].keys
    BY <2>1 DEF IInv, OneTransaction
  <2>3. \A s \in Other(q) : Running(s)' => runner'[s].adapter = "drizzle" BY <1>2, <2>2 DEF Other
  <2>4. \A s \in Other(q) : Live(s)' => Holds(runner'[q].before, runner'[s], first')
    BY <1>1, <1>3, <2>1, <2>2 DEF Other
  <2> QED BY <1>1, <2>1, <2>2, <2>3, <2>4
<1>17. AbortedHasCause'
  <2> SUFFICES ASSUME NEW s \in Runner, runner'[s].aborted PROVE Transactional(s)' /\ KeyBefore(s)'
    BY DEF AbortedHasCause
  <2>1. runner'[s].phase = "running" BY <1>6 DEF RunOK
  <2>2. runner'[s] = runner[s] BY <1>2, <2>1 DEF Running
  <2>3. Transactional(s) /\ KeyBefore(s) BY <2>2 DEF IInv, AbortedHasCause
  <2> QED BY <1>1, <2>2, <2>3 DEF KeyBefore, Transactional
<1>18. Alone'
  <2> SUFFICES ASSUME NEW s \in Runner, Running(s)'
               PROVE  /\ runner'[s].alone => \A q \in Other(s) : ~Running(q)'
                      /\ Undisturbed(s)' => Quiet(db', runner'[s])
    BY DEF Alone
  <2>1. Running(s) /\ s \notin G /\ runner'[s] = runner[s] BY <1>2
  <2>2. PICK g \in G : Running(g) /\ g \in Other(s) BY <2>1 DEF Other
  <2>3. ~runner[s].alone BY <2>1, <2>2 DEF IInv, Alone
  <2>4. ASSUME Undisturbed(s)' PROVE Quiet(db', runner'[s])
    <3>1. Transactional(s)' BY <2>1, <2>3, <2>4 DEF Undisturbed
    <3>2. db' = db /\ Transactional(s) BY <1>15, <3>1
    <3>3. Quiet(db, runner[s]) BY <2>1, <3>2 DEF IInv, Alone, Undisturbed
    <3> QED BY <2>1, <3>2, <3>3
  <2> QED BY <2>1, <2>3, <2>4
<1>19. /\ client' \in {"pg", "mysql2", "better-sqlite3"}
       /\ together' => client' = "better-sqlite3"
       /\ together' \in BOOLEAN /\ interrupted' \in BOOLEAN
  BY <1>1 DEF IInv
<1> QED BY <1>1, <1>6, <1>13, <1>14, <1>16, <1>17, <1>18, <1>19 DEF IInv

LEMMA GrownItself == ASSUME NEW d, NEW f, DbShape(d) PROVE Grown(d, d, f)
<1>1. Len(d.limits) \in Nat BY LimitsAre DEF DbShape
<1>2. \A p \in d.payments : d.attempts[p] \in Nat BY DEF DbShape
<1>3. \A p \in d.payments : d.attempts[p] >= d.attempts[p] BY <1>2
<1> QED BY <1>1, <1>3 DEF Grown

LEMMA FailHolds ==
    ASSUME IInv, NEW r \in Runner, NEW e, FailLeaving(r, e), Running(r),
           ~Transactional(r) => \A s \in Other(r) : Running(s) => ~Transactional(s),
           Grown(db, e, first), DbOK(e, first)
    PROVE  IInv'
<1>1. /\ runner' = [runner EXCEPT ![r].phase = "failed", ![r].todo = <<>>, ![r].aborted = FALSE]
      /\ db' = (IF Transactional(r) THEN runner[r].before ELSE e)
      /\ interrupted' = TRUE /\ UNCHANGED <<client, together, first>>
  BY DEF FailLeaving
<1> DEFINE R == runner[r]
           F == [R EXCEPT !.phase = "failed", !.todo = <<>>, !.aborted = FALSE]
<1>2. DOMAIN runner = Runner /\ RunOK(R, client) BY DEF IInv
<1>3. /\ DOMAIN runner' = Runner /\ runner'[r] = F
      /\ \A s \in Runner : s # r => runner'[s] = runner[s]
  BY <1>1, <1>2
<1>4. /\ DOMAIN F = RunFields /\ F.adapter = R.adapter /\ F.phase = "failed" /\ F.todo = <<>>
      /\ F.aborted = FALSE /\ F.alone = R.alone /\ F.restarts = R.restarts
  BY <1>2 DEF RunOK, RunFields
<1> HIDE DEF F
<1>5. RunOK(F, client) BY <1>2, <1>4, EmptyTodo DEF RunOK
<1> DEFINE G == {r}
<1>6. \A g \in G : Running(g) /\ RunOK(runner'[g], client) /\ runner'[g].phase \in {"failed", "crashed"}
  BY <1>3, <1>4, <1>5
<1>7. \A s \in Runner \ G : runner'[s] = runner[s] BY <1>3
<1>8. \/ \E g \in G : Transactional(g) /\ db' = runner[g].before
      \/ /\ Grown(db, db', first) /\ DbOK(db', first)
         /\ \A s \in Runner : Running(s) => ~Transactional(s)
  BY <1>1 DEF Other
<1> HIDE DEF G
<1>9. G \subseteq Runner /\ G # {} BY DEF G
<1> QED BY <1>1, <1>3, <1>6, <1>7, <1>8, <1>9, EndHolds

LEMMA CrashHolds ==
    ASSUME IInv, NEW r \in Runner, Crash(r)
    PROVE  IInv'
<1> DEFINE G == {s \in Runner : InSameProcess(r, s) /\ Running(s)}
           D(s) == [Idle(runner[s].adapter, runner[s].restarts) EXCEPT !.phase = "crashed"]
<1>1. /\ interrupted' = TRUE /\ UNCHANGED <<client, together, first>> /\ Running(r)
      /\ runner' = [s \in Runner |-> IF s \in G THEN D(s) ELSE runner[s]]
      /\ db' = (IF \E s \in G : Transactional(s)
                THEN runner[CHOOSE s \in G : Transactional(s)].before ELSE db)
  BY DEF Crash
<1>2. r \in G BY <1>1 DEF InSameProcess
<1>3. \A s \in Runner : RunOK(runner[s], client) BY DEF IInv
<1>4. ASSUME NEW s \in Runner PROVE RunOK(D(s), client) /\ D(s).phase = "crashed"
  <2>1. /\ DOMAIN D(s) = RunFields /\ D(s).adapter = runner[s].adapter /\ D(s).phase = "crashed"
        /\ D(s).todo = <<>> /\ D(s).aborted = FALSE /\ D(s).alone = TRUE
        /\ D(s).restarts = runner[s].restarts
    BY DEF Idle, RunFields
  <2> HIDE DEF D
  <2> QED BY <1>3, <2>1, EmptyTodo DEF RunOK
<1> HIDE DEF D
<1>5. /\ DOMAIN runner' = Runner
      /\ \A g \in G : Running(g) /\ RunOK(runner'[g], client) /\ runner'[g].phase \in {"failed", "crashed"}
      /\ \A s \in Runner \ G : runner'[s] = runner[s]
  BY <1>1, <1>4
<1>6. (\E g \in G : Transactional(g) /\ db' = runner[g].before) \/ db' = db
  <2>1. CASE \E s \in G : Transactional(s)
    <3> DEFINE g == CHOOSE s \in G : Transactional(s)
    <3>1. g \in G /\ Transactional(g) BY <2>1
    <3>2. db' = runner[g].before BY <1>1, <2>1
    <3> QED BY <3>1, <3>2
  <2>2. CASE ~\E s \in G : Transactional(s) BY <1>1, <2>2
  <2> QED BY <2>1, <2>2
<1>7. G \subseteq Runner /\ G # {} BY <1>2
<1> HIDE DEF G
<1> QED BY <1>1, <1>5, <1>6, <1>7, EndHolds

(* Runs that begin, finish, or are started again.                           *)
LEMMA AloneAsWell ==
    ASSUME NEW R, NEW c, RunOK(R, c)
    PROVE  LET A == [R EXCEPT !.alone = FALSE] IN
           /\ RunOK(A, c) /\ A.phase = R.phase /\ A.adapter = R.adapter /\ A.before = R.before
           /\ A.todo = R.todo /\ A.aborted = R.aborted /\ A.alone = FALSE
<1> DEFINE A == [R EXCEPT !.alone = FALSE]
<1>1. /\ DOMAIN A = RunFields /\ A.phase = R.phase /\ A.adapter = R.adapter /\ A.before = R.before
      /\ A.todo = R.todo /\ A.aborted = R.aborted /\ A.alone = FALSE /\ A.restarts = R.restarts
  BY DEF RunOK, RunFields
<1> HIDE DEF A
<1>2. TodoOK(A, c) BY <1>1 DEF TodoOK, RunOK
<1>3. RunOK(A, c) BY <1>1, <1>2 DEF RunOK
<1> QED BY <1>1, <1>3 DEF A

(* Runs with the same script.                                               *)
LEMMA SameScript ==
    ASSUME NEW R, NEW P, P.todo = R.todo, P.adapter = R.adapter
    PROVE  /\ Passed(P) = Passed(R)
           /\ \A d, f : Holds(d, R, f) => Holds(d, P, f)
           /\ \A d : Quiet(d, R) => Quiet(d, P)
<1>1. Passed(P) = Passed(R) BY DEF Passed
<1>2. \A do, t : At(P, do, t) <=> At(R, do, t) BY DEF At
<1>3. \A d, f : Holds(d, R, f) => Holds(d, P, f) BY <1>1, <1>2 DEF Holds, Asserted
<1>4. \A d : Quiet(d, R) => Quiet(d, P) BY <1>2 DEF Quiet, Ahead
<1> QED BY <1>1, <1>3, <1>4

Bare(P) == \A do \in DOMAIN Leads : \A t : ~At(P, Leads[do], t)

LEMMA BareRun ==
    ASSUME NEW P, Bare(P)
    PROVE  /\ \A t : /\ ~At(P, "createControl", t) /\ ~At(P, "createTable", t) /\ ~At(P, "createKeys", t)
                     /\ ~At(P, "insertAttempts", t) /\ ~At(P, "addColumn", t) /\ ~At(P, "findDuplicates", t)
                     /\ ~At(P, "updateKept", t) /\ ~At(P, "deleteDuplicates", t)
           /\ \A d, f : Asserted(d, P, f)
           /\ \A d : Ahead(P) \cap d.recorded = {} => Quiet(d, P)
<1>1. \A t : /\ ~At(P, "createControl", t) /\ ~At(P, "createTable", t) /\ ~At(P, "createKeys", t)
             /\ ~At(P, "insertAttempts", t) /\ ~At(P, "addColumn", t) /\ ~At(P, "findDuplicates", t)
             /\ ~At(P, "updateKept", t) /\ ~At(P, "deleteDuplicates", t)
  BY LeadsTo DEF Bare
<1>2. \A d, f : Asserted(d, P, f) BY <1>1 DEF Asserted
<1>3. \A d : Ahead(P) \cap d.recorded = {} => Quiet(d, P)
  BY <1>1 DEF Quiet
<1> QED BY <1>1, <1>2, <1>3

(* No other run sends a migration's statement.                              *)
LEMMA KnexApart == KnexStatements \cap DrizzleStatements = {} /\ KnexStatements \cap Preparing = {}
<1>1. ASSUME NEW s \in KnexStatements PROVE s \notin DrizzleStatements /\ s \notin Preparing
  <2>1. PICK m \in Migration : s \in Statements(m) BY DEF KnexStatements
  <2> DEFINE h == 100 * m
  <2>2. h \in Int /\ h >= 100 BY DEF Migration
  <2>3. Rank(s) \in Int /\ h <= Rank(s) BY <2>1, StatementsIn
  <2> HIDE DEF h
  <2>4. Rank(s) \in Int /\ Rank(s) >= 100 BY <2>2, <2>3
  <2>5. \A u \in DrizzleStatements : Rank(u) \in Int /\ Rank(u) <= 30
    <3>1. \A do \in {"createIfNotExists", "assertColumnsExist", "createIndexes"} : \A t \in Tables :
            Rank(Statement(do, t)) \in Int /\ Rank(Statement(do, t)) <= 30
      BY DrizzleRanks
    <3> QED BY <3>1 DEF DrizzleStatements
  <2>6. \A u \in Preparing : Rank(u) \in Int /\ Rank(u) <= 3 BY PreparingPart
  <2> QED BY <2>4, <2>5, <2>6
<1> QED BY <1>1

(* A run at its start.                                                      *)
LEMMA BeginsWell ==
    ASSUME NEW R, DOMAIN R = RunFields, R.adapter \in {"knex", "drizzle"}, R.phase = "running",
           R.aborted = FALSE, R.alone \in BOOLEAN, R.restarts \in Nat,
           R.todo = IF R.adapter = "knex" THEN ensureMigrationsTable ELSE DrizzleScript
    PROVE  /\ RunOK(R, client) /\ Bare(R)
           /\ \A d, f : Holds(d, R, f)
           /\ \A d : Quiet(d, R)
<1>1. /\ R.adapter = "knex" => /\ Part(R.todo, 0, 100) /\ ToSet(R.todo) = Preparing
      /\ R.adapter = "drizzle" =>
           /\ Part(R.todo, 0, 100) /\ ToSet(R.todo) \subseteq DrizzleStatements
           /\ \A t \in Tables : Statement("assertColumnsExist", t) \in ToSet(R.todo)
           /\ client # "mysql2" => \A t \in Tables : Statement("createIndexes", t) \in ToSet(R.todo)
  BY PreparingPart, DrizzleIs DEF Preparing
<1>2. Part(R.todo, 0, 100) BY <1>1
<1>3. /\ R.todo \in Seq(Sentence) /\ Sorted(R.todo) /\ Led(R.todo)
      /\ 1 \in DOMAIN R.todo => \A do \in DOMAIN Leads : R.todo[1].do # Leads[do]
  BY <1>2 DEF Part
<1>4. Bare(R)
  <2> SUFFICES ASSUME NEW do \in DOMAIN Leads, NEW t, At(R, Leads[do], t) PROVE FALSE BY DEF Bare
  <2>1. R.todo # <<>> /\ R.todo[1] = Statement(Leads[do], t) BY DEF At
  <2>2. 1 \in DOMAIN R.todo BY <1>3, <2>1
  <2>3. R.todo[1].do = Leads[do] BY <2>1 DEF Statement
  <2> QED BY <1>3, <2>2, <2>3
<1>5. Select \in Preparing BY PreparingPart
<1> DEFINE S == IF R.adapter = "drizzle" THEN DrizzleStatements
                ELSE IF Select \in ToSet(R.todo) THEN Preparing ELSE KnexStatements
<1>6. ToSet(R.todo) \subseteq S BY <1>1, <1>5
<1>7. R.todo \in Seq(S)
  <2> HIDE DEF S
  <2> QED BY <1>3, <1>6, Within
<1>8. TodoOK(R, client) BY <1>1, <1>3, <1>7 DEF TodoOK
<1>9. RunOK(R, client) BY <1>8 DEF RunOK
<1>10. \A s \in Passed(R) : s \in DrizzleStatements /\ s.do # "assertColumnsExist"
  <2>1. R.adapter = "knex" => Passed(R) = {} BY <1>1, <1>5 DEF Passed
  <2>2. R.adapter = "drizzle" => Passed(R) = DrizzleStatements \ ToSet(R.todo) BY DEF Passed
  <2>3. \A s \in DrizzleStatements : s.do = "assertColumnsExist" =>
          \E t \in Tables : s = Statement("assertColumnsExist", t)
    BY DEF DrizzleStatements, Statement
  <2> QED BY <1>1, <2>1, <2>2, <2>3
<1>11. \A do, t : Statement(do, t) \in Passed(R) => do \in {"createIfNotExists", "createIndexes"}
  <2> SUFFICES ASSUME NEW do, NEW t, Statement(do, t) \in Passed(R)
               PROVE  do \in {"createIfNotExists", "createIndexes"}
    OBVIOUS
  <2>1. Statement(do, t) \in DrizzleStatements /\ Statement(do, t).do # "assertColumnsExist" BY <1>10
  <2>2. \A s \in DrizzleStatements : s.do \in {"createIfNotExists", "assertColumnsExist", "createIndexes"}
    BY DEF DrizzleStatements, Statement
  <2>3. Statement(do, t).do = do BY DEF Statement
  <2> QED BY <2>1, <2>2, <2>3
<1>12. \A d : Effects(d, Passed(R)) BY <1>11 DEF Effects
<1>13. \A d, f : Holds(d, R, f) BY <1>4, <1>12, BareRun DEF Holds
<1>14. Ahead(R) = {}
  <2>1. \A m \in Migration : Statements(m) \subseteq KnexStatements BY DEF KnexStatements
  <2>2. ToSet(R.todo) \subseteq Preparing \/ ToSet(R.todo) \subseteq DrizzleStatements BY <1>1
  <2> QED BY <2>1, <2>2, KnexApart DEF Ahead
<1>15. \A d : Quiet(d, R) BY <1>4, <1>14, BareRun
<1> QED BY <1>4, <1>9, <1>13, <1>15

LEMMA LockHolds ==
    ASSUME IInv, NEW r \in Runner, withMigrationLock(r)
    PROVE  IInv'
<1> DEFINE R == runner[r]
           N == [R EXCEPT !.phase = "running",
                          !.before = IF Transactional(r) THEN db ELSE first,
                          !.alone = \A s \in Other(r) : ~Running(s),
                          !.todo = IF R.adapter = "knex" THEN ensureMigrationsTable ELSE DrizzleScript]
<1>1. /\ R.phase = "idle" /\ Free(r)
      /\ runner' = NotAlone(r, [runner EXCEPT ![r] = N])
      /\ interrupted' = (interrupted \/ \E s \in Other(r) : Running(s))
      /\ UNCHANGED <<client, together, db, first>>
  BY DEF withMigrationLock
<1>2. DOMAIN runner = Runner /\ \A s \in Runner : RunOK(runner[s], client) BY DEF IInv
<1>3. /\ DOMAIN N = RunFields /\ N.phase = "running" /\ N.adapter = R.adapter /\ N.aborted = R.aborted
      /\ N.restarts = R.restarts /\ N.alone = (\A s \in Other(r) : ~Running(s))
      /\ N.before = (IF Transactional(r) THEN db ELSE first)
      /\ N.todo = (IF R.adapter = "knex" THEN ensureMigrationsTable ELSE DrizzleScript)
  <2>1. DOMAIN R = RunFields BY <1>2 DEF RunOK
  <2> HIDE DEF R
  <2> QED BY <2>1 DEF RunFields
<1>4. ~Running(r) /\ R.aborted = FALSE /\ R.adapter \in {"knex", "drizzle"} /\ R.restarts \in Nat
  BY <1>1, <1>2 DEF RunOK, Running
<1> DEFINE A(s) == [runner[s] EXCEPT !.alone = FALSE]
<1>5. /\ DOMAIN runner' = Runner /\ runner'[r] = N
      /\ \A s \in Other(r) : runner'[s] = IF Running(s) THEN A(s) ELSE runner[s]
  <2> HIDE DEF N
  <2> QED BY <1>1, <1>2 DEF NotAlone, Other, Running
<1> HIDE DEF N
<1>6. /\ RunOK(N, client) /\ Bare(N)
      /\ \A d, f : Holds(d, N, f)
      /\ \A d : Quiet(d, N)
  <2>1. N.aborted = FALSE /\ N.alone \in BOOLEAN /\ N.adapter \in {"knex", "drizzle"} /\ N.restarts \in Nat
    BY <1>3, <1>4
  <2> HIDE DEF R
  <2>2. N.todo = IF N.adapter = "knex" THEN ensureMigrationsTable ELSE DrizzleScript BY <1>3
  <2> QED BY <1>3, <2>1, <2>2, BeginsWell
<1>7. \A s \in Other(r) : /\ s \in Runner /\ s # r
                          /\ RunOK(runner'[s], client) /\ runner'[s].phase = runner[s].phase
                          /\ runner'[s].adapter = runner[s].adapter /\ runner'[s].before = runner[s].before
                          /\ runner'[s].todo = runner[s].todo /\ runner'[s].aborted = runner[s].aborted
                          /\ Running(s) => runner'[s].alone = FALSE
  <2> SUFFICES ASSUME NEW s \in Other(r)
               PROVE  /\ s \in Runner /\ s # r
                      /\ RunOK(runner'[s], client) /\ runner'[s].phase = runner[s].phase
                      /\ runner'[s].adapter = runner[s].adapter /\ runner'[s].before = runner[s].before
                      /\ runner'[s].todo = runner[s].todo /\ runner'[s].aborted = runner[s].aborted
                      /\ Running(s) => runner'[s].alone = FALSE
    OBVIOUS
  <2>1. s \in Runner /\ s # r BY DEF Other
  <2>2. /\ RunOK(A(s), client) /\ A(s).phase = runner[s].phase
        /\ A(s).adapter = runner[s].adapter /\ A(s).before = runner[s].before
        /\ A(s).todo = runner[s].todo /\ A(s).aborted = runner[s].aborted /\ A(s).alone = FALSE
    BY <1>2, <2>1, AloneAsWell
  <2> HIDE DEF A
  <2> QED BY <1>2, <1>5, <2>1, <2>2
<1>8. \A s \in Runner : s = r \/ s \in Other(r) BY DEF Other
<1>9. /\ \A s \in Other(r) : /\ Running(s)' <=> Running(s)
                             /\ Live(s)' <=> Live(s)
                             /\ Transactional(s)' <=> Transactional(s)
      /\ Running(r)' /\ (Transactional(r)' <=> Transactional(r))
  BY <1>1, <1>3, <1>5, <1>7 DEF Running, Live, Transactional
<1>10. \A s \in Runner : RunOK(runner'[s], client') BY <1>1, <1>5, <1>6, <1>7, <1>8
<1>11. DbOK(db', first') BY <1>1 DEF IInv
<1>12. \A s \in Other(r) : /\ Passed(runner'[s]) = Passed(runner[s])
                           /\ \A d, f : Holds(d, runner[s], f) => Holds(d, runner'[s], f)
                           /\ \A d : Quiet(d, runner[s]) => Quiet(d, runner'[s])
  <2> SUFFICES ASSUME NEW s \in Other(r)
               PROVE  /\ Passed(runner'[s]) = Passed(runner[s])
                      /\ \A d, f : Holds(d, runner[s], f) => Holds(d, runner'[s], f)
                      /\ \A d : Quiet(d, runner[s]) => Quiet(d, runner'[s])
    OBVIOUS
  <2> DEFINE O == runner[s]
             P == runner'[s]
  <2>1. P.todo = O.todo /\ P.adapter = O.adapter BY <1>7
  <2> HIDE DEF O, P
  <2>2. /\ Passed(P) = Passed(O)
        /\ \A d, f : Holds(d, O, f) => Holds(d, P, f)
        /\ \A d : Quiet(d, O) => Quiet(d, P)
    BY <2>1, SameScript
  <2> QED BY <2>2 DEF O, P
<1>13. RunsHold'
  <2> SUFFICES ASSUME NEW s \in Runner, Live(s)' PROVE Holds(db', runner'[s], first')
    BY DEF RunsHold
  <2>1. CASE s = r BY <1>1, <1>5, <1>6, <2>1
  <2>2. CASE s \in Other(r)
    <3>1. Holds(db, runner[s], first) BY <1>9, <2>2 DEF IInv, RunsHold
    <3> QED BY <1>1, <1>12, <2>2, <3>1
  <2> QED BY <1>8, <2>1, <2>2
<1>14. OneTransaction'
  <2> SUFFICES ASSUME NEW q \in Runner, Running(q)', Transactional(q)'
               PROVE  /\ \A s \in Other(q) : Running(s)' => runner'[s].adapter = "drizzle"
                      /\ DbOK(runner'[q].before, first')
                      /\ \A s \in Other(q) : Live(s)' => Holds(runner'[q].before, runner'[s], first')
                      /\ runner'[q].before.recorded \subseteq db'.recorded
                      /\ \A t \in {"transactions", "requestMetadata"} :
                            /\ Statement("addKey", t) \notin Passed(runner'[q])
                            /\ NewKey[t] \in db'.tables[t].keys
                            => NewKey[t] \in runner'[q].before.tables[t].keys
    BY DEF OneTransaction, Other
  <2>1. CASE q = r
    <3>1. Transactional(r) /\ runner'[r].before = db BY <1>3, <1>5, <1>9, <2>1
    <3>2. \A s \in Other(r) : Running(s) => runner[s].adapter = "drizzle"
      BY <1>1, <3>1 DEF Free, Transactional
    <3>3. \A s \in Other(r) : Running(s)' => runner'[s].adapter = "drizzle" BY <1>7, <1>9, <3>2
    <3>4. \A s \in Other(r) : Live(s)' => Holds(db, runner'[s], first) BY <1>7, <1>9, <1>12 DEF IInv, RunsHold
    <3> QED BY <1>1, <1>11, <2>1, <3>1, <3>3, <3>4
  <2>2. CASE q \in Other(r)
    <3>1. Running(q) /\ Transactional(q) /\ q \in Runner BY <1>7, <1>9, <2>2
    <3>2. /\ \A s \in Other(q) : Running(s) => runner[s].adapter = "drizzle"
          /\ DbOK(runner[q].before, first)
          /\ \A s \in Other(q) : Live(s) => Holds(runner[q].before, runner[s], first)
          /\ runner[q].before.recorded \subseteq db.recorded
          /\ \A t \in {"transactions", "requestMetadata"} :
                /\ Statement("addKey", t) \notin Passed(runner[q])
                /\ NewKey[t] \in db.tables[t].keys
                => NewKey[t] \in runner[q].before.tables[t].keys
      BY <3>1 DEF IInv, OneTransaction
    <3>3. R.adapter = "drizzle" BY <1>1, <1>4, <2>2, <3>1 DEF Free, Transactional
    <3>4. \A s \in Other(q) : s = r \/ s \in Other(r) BY DEF Other
    <3>5. \A s \in Other(q) : Running(s)' => runner'[s].adapter = "drizzle"
      BY <1>3, <1>5, <1>7, <1>9, <3>2, <3>3, <3>4
    <3>6. runner'[q].before = runner[q].before /\ Passed(runner'[q]) = Passed(runner[q]) BY <1>7, <1>12, <2>2
    <3> DEFINE b == runner[q].before
    <3>7. ASSUME NEW s \in Other(q), Live(s)' PROVE Holds(b, runner'[s], first)
      <4>1. CASE s = r BY <1>5, <1>6, <4>1
      <4>2. CASE s \in Other(r)
        <5>1. Live(s) BY <1>9, <3>7, <4>2
        <5>2. Holds(b, runner[s], first) BY <3>2, <3>7, <5>1
        <5> QED BY <1>12, <4>2, <5>2
      <4> QED BY <3>4, <4>1, <4>2
    <3> QED BY <1>1, <3>2, <3>5, <3>6, <3>7
  <2> QED BY <1>8, <2>1, <2>2
<1>15. AbortedHasCause'
  <2> SUFFICES ASSUME NEW s \in Runner, runner'[s].aborted PROVE Transactional(s)' /\ KeyBefore(s)'
    BY DEF AbortedHasCause
  <2>1. s # r BY <1>3, <1>4, <1>5
  <2>2. s \in Other(r) /\ runner[s].aborted BY <1>7, <1>8, <2>1
  <2>3. Transactional(s) /\ KeyBefore(s) BY <2>2 DEF IInv, AbortedHasCause
  <2>4. runner'[s].before = runner[s].before BY <1>7, <2>2
  <2> QED BY <1>9, <2>2, <2>3, <2>4 DEF KeyBefore
<1>16. Alone'
  <2> SUFFICES ASSUME NEW s \in Runner, Running(s)'
               PROVE  /\ runner'[s].alone => \A q \in Other(s) : ~Running(q)'
                      /\ Undisturbed(s)' => Quiet(db', runner'[s])
    BY DEF Alone
  <2>1. CASE s = r
    <3>1. runner'[r].alone => \A q \in Other(r) : ~Running(q)' BY <1>3, <1>5, <1>9
    <3> QED BY <1>5, <1>6, <2>1, <3>1
  <2>2. CASE s \in Other(r)
    <3>1. Running(s) /\ runner'[s].alone = FALSE BY <1>7, <1>9, <2>2
    <3>2. ASSUME Undisturbed(s)' PROVE Quiet(db', runner'[s])
      <4>1. Transactional(s) BY <1>9, <2>2, <3>1, <3>2 DEF Undisturbed
      <4>2. Quiet(db, runner[s]) BY <3>1, <4>1 DEF IInv, Alone, Undisturbed
      <4> QED BY <1>1, <1>12, <2>2, <4>2
    <3> QED BY <3>1, <3>2
  <2> QED BY <1>8, <2>1, <2>2
<1>17. ASSUME ~interrupted' PROVE Uninterrupted'
  <2>1. Uninterrupted /\ \A s \in Other(r) : ~Running(s) BY <1>1, <1>17 DEF IInv
  <2>2. \A s \in Runner : ~Running(s) BY <1>4, <1>8, <2>1
  <2>3. db.keyless = {} /\ SumHits(db.limits) = SumHits(first.limits) BY <2>1, <2>2 DEF Uninterrupted
  <2>4. \A s \in Runner : Running(s)' => s = r BY <1>8, <1>9, <2>1
  <2>5. ~At(N, "deleteDuplicates", "rateLimits") BY <1>6, BareRun
  <2>6. Settled(db', N, first') BY <1>1, <2>3, <2>5 DEF Settled
  <2>7. db'.keyless = {} BY <1>1, <2>3
  <2> QED BY <1>5, <1>9, <2>4, <2>6, <2>7 DEF Uninterrupted
<1>18. /\ client' \in {"pg", "mysql2", "better-sqlite3"}
       /\ together' => client' = "better-sqlite3"
       /\ together' \in BOOLEAN /\ interrupted' \in BOOLEAN
  BY <1>1 DEF IInv
<1> QED BY <1>5, <1>10, <1>11, <1>13, <1>14, <1>15, <1>16, <1>17, <1>18 DEF IInv

LEMMA NothingSaid ==
    ASSUME NEW R, R.todo = <<>>
    PROVE  \A do, t : ~At(R, do, t) /\ Statement(do, t) \notin ToSet(R.todo)
BY DEF At, ToSet

(* A run that is at its end, or is to be started again: its phase changes.  *)
LEMMA FinishHolds ==
    ASSUME IInv, NEW r \in Runner, Finish(r)
    PROVE  IInv'
<1> DEFINE R == runner[r]
           N == [R EXCEPT !.phase = "done"]
<1>1. /\ Running(r) /\ R.todo = <<>> /\ ~R.aborted
      /\ runner' = [runner EXCEPT ![r] = N]
      /\ UNCHANGED <<client, together, db, first, interrupted>>
  BY DEF Finish
<1>2. DOMAIN runner = Runner /\ \A s \in Runner : RunOK(runner[s], client) BY DEF IInv
<1>3. /\ DOMAIN N = RunFields /\ N.phase = "done" /\ N.adapter = R.adapter /\ N.aborted = R.aborted
      /\ N.restarts = R.restarts /\ N.alone = R.alone /\ N.before = R.before /\ N.todo = R.todo
  <2>1. DOMAIN R = RunFields BY <1>2 DEF RunOK
  <2> HIDE DEF R
  <2> QED BY <2>1 DEF RunFields
<1>4. /\ DOMAIN runner' = Runner /\ runner'[r] = N
      /\ \A s \in Runner : s # r => runner'[s] = runner[s]
  <2> HIDE DEF N
  <2> QED BY <1>1, <1>2
<1> HIDE DEF N
<1>5. RunOK(N, client)
  <2>1. RunOK(R, client) BY <1>2
  <2>2. N.todo = <<>> /\ ~N.aborted BY <1>1, <1>3
  <2>3. TodoOK(N, client) BY <2>2, EmptyTodo
  <2> QED BY <1>3, <2>1, <2>2, <2>3 DEF RunOK
<1>6. \A d, f : Holds(d, R, f) => Holds(d, N, f)
  <2>1. N.todo = R.todo /\ N.adapter = R.adapter BY <1>3
  <2> HIDE DEF R
  <2> QED BY <2>1, SameScript
<1>7. \A s \in Runner : Running(s)' => s # r /\ Running(s) /\ runner'[s] = runner[s] BY <1>3, <1>4 DEF Running
<1>8. \A s \in Runner : /\ Live(s)' => Live(s)
                        /\ \A d : Live(s)' /\ Holds(d, runner[s], first) => Holds(d, runner'[s], first)
                        /\ Transactional(s)' <=> Transactional(s)
  BY <1>1, <1>3, <1>4, <1>6 DEF Running, Live, Transactional
<1>9. \A s \in Runner : RunOK(runner'[s], client') BY <1>1, <1>2, <1>4, <1>5
<1>10. RunsHold'
  <2> SUFFICES ASSUME NEW s \in Runner, Live(s)' PROVE Holds(db', runner'[s], first')
    BY DEF RunsHold
  <2>1. Holds(db, runner[s], first) BY <1>8 DEF IInv, RunsHold
  <2> QED BY <1>1, <1>8, <2>1
<1>11. OneTransaction'
  <2> SUFFICES ASSUME NEW q \in Runner, Running(q)', Transactional(q)'
               PROVE  /\ \A s \in Other(q) : Running(s)' => runner'[s].adapter = "drizzle"
                      /\ DbOK(runner'[q].before, first')
                      /\ \A s \in Other(q) : Live(s)' => Holds(runner'[q].before, runner'[s], first')
                      /\ runner'[q].before.recorded \subseteq db'.recorded
                      /\ \A t \in {"transactions", "requestMetadata"} :
                            /\ Statement("addKey", t) \notin Passed(runner'[q])
                            /\ NewKey[t] \in db'.tables[t].keys
                            => NewKey[t] \in runner'[q].before.tables[t].keys
    BY DEF OneTransaction, Other
  <2>1. Running(q) /\ Transactional(q) /\ runner'[q] = runner[q] BY <1>7, <1>8
  <2>2. /\ \A s \in Other(q) : Running(s) => runner[s].adapter = "drizzle"
        /\ DbOK(runner[q].before, first)
        /\ \A s \in Other(q) : Live(s) => Holds(runner[q].before, runner[s], first)
        /\ runner[q].before.recorded \subseteq db.recorded
        /\ \A t \in {"transactions", "requestMetadata"} :
              /\ Statement("addKey", t) \notin Passed(runner[q])
              /\ NewKey[t] \in db.tables[t].keys
              => NewKey[t] \in runner[q].before.tables[t].keys
    BY <2>1 DEF IInv, OneTransaction
  <2>3. \A s \in Other(q) : Running(s)' => runner'[s].adapter = "drizzle" BY <1>7, <2>2 DEF Other
  <2>4. \A s \in Other(q) : Live(s)' => Holds(runner'[q].before, runner'[s], first')
    BY <1>1, <1>8, <2>1, <2>2 DEF Other
  <2> QED BY <1>1, <2>1, <2>2, <2>3, <2>4
<1>12. AbortedHasCause'
  <2> SUFFICES ASSUME NEW s \in Runner, runner'[s].aborted PROVE Transactional(s)' /\ KeyBefore(s)'
    BY DEF AbortedHasCause
  <2>1. s # r BY <1>1, <1>3, <1>4
  <2>2. runner'[s] = runner[s] BY <1>4, <2>1
  <2>3. Transactional(s) /\ KeyBefore(s) BY <2>2 DEF IInv, AbortedHasCause
  <2> QED BY <1>8, <2>2, <2>3 DEF KeyBefore
<1>13. Alone'
  <2> SUFFICES ASSUME NEW s \in Runner, Running(s)'
               PROVE  /\ runner'[s].alone => \A q \in Other(s) : ~Running(q)'
                      /\ Undisturbed(s)' => Quiet(db', runner'[s])
    BY DEF Alone
  <2>1. Running(s) /\ runner'[s] = runner[s] BY <1>7
  <2>2. runner'[s].alone => \A q \in Other(s) : ~Running(q)' BY <1>7, <2>1 DEF IInv, Alone, Other
  <2>3. Undisturbed(s)' => Undisturbed(s) BY <1>8, <2>1 DEF Undisturbed
  <2>4. Undisturbed(s) => Quiet(db, runner[s]) BY <2>1 DEF IInv, Alone
  <2> QED BY <1>1, <2>1, <2>2, <2>3, <2>4
<1>14. ASSUME ~interrupted' PROVE Uninterrupted'
  <2>1. Uninterrupted BY <1>1, <1>14 DEF IInv
  <2>2. \A s \in Runner : ~Running(s)' BY <1>1, <1>7, <2>1 DEF Uninterrupted
  <2>3. Settled(db, R, first) BY <1>1, <2>1 DEF Uninterrupted
  <2>4. \A do, t : ~At(R, do, t) /\ Statement(do, t) \notin ToSet(R.todo) BY <1>1, NothingSaid
  <2>5. db.keyless = {} /\ SumHits(db.limits) = SumHits(first.limits) BY <2>3, <2>4 DEF Settled, Making
  <2> QED BY <1>1, <2>2, <2>5 DEF Uninterrupted
<1>15. /\ client' \in {"pg", "mysql2", "better-sqlite3"}
       /\ together' => client' = "better-sqlite3"
       /\ together' \in BOOLEAN /\ interrupted' \in BOOLEAN
       /\ DbOK(db', first')
  BY <1>1 DEF IInv
<1> QED BY <1>4, <1>9, <1>10, <1>11, <1>12, <1>13, <1>14, <1>15 DEF IInv

LEMMA RestartHolds ==
    ASSUME IInv, NEW r \in Runner, Restart(r)
    PROVE  IInv'
<1> DEFINE R == runner[r]
           N == Idle(R.adapter, R.restarts + 1)
<1>1. /\ R.phase \in {"failed", "crashed"}
      /\ runner' = [runner EXCEPT ![r] = N]
      /\ UNCHANGED <<client, together, db, first, interrupted>>
  BY DEF Restart
<1>2. DOMAIN runner = Runner /\ \A s \in Runner : RunOK(runner[s], client) BY DEF IInv
<1>3. /\ DOMAIN N = RunFields /\ N.phase = "idle" /\ N.adapter = R.adapter /\ N.aborted = FALSE
      /\ N.restarts = R.restarts + 1 /\ N.alone = TRUE /\ N.todo = <<>>
  BY DEF Idle, RunFields
<1>4. /\ DOMAIN runner' = Runner /\ runner'[r] = N
      /\ \A s \in Runner : s # r => runner'[s] = runner[s]
  <2> HIDE DEF N
  <2> QED BY <1>1, <1>2
<1> HIDE DEF N
<1>5. RunOK(N, client)
  <2>1. R.adapter \in {"knex", "drizzle"} /\ R.restarts \in Nat BY <1>2 DEF RunOK
  <2>2. TodoOK(N, client) BY <1>3, EmptyTodo
  <2>3. N.restarts \in Nat BY <1>3, <2>1
  <2>4. N.aborted \in BOOLEAN /\ N.alone \in BOOLEAN /\ ~N.aborted /\ N.todo = <<>> BY <1>3
  <2>5. N.phase \in {"idle", "running", "done", "failed", "crashed"} /\ N.adapter \in {"knex", "drizzle"}
    BY <1>3, <2>1
  <2> QED BY <1>3, <2>2, <2>3, <2>4, <2>5 DEF RunOK
<1>6. \A s \in Runner : /\ Running(s)' <=> Running(s)
                        /\ Live(s)' <=> Live(s)
                        /\ Live(s) => s # r /\ runner'[s] = runner[s]
                        /\ Transactional(s)' <=> Transactional(s)
  BY <1>1, <1>3, <1>4 DEF Running, Live, Transactional
<1>7. \A s \in Runner : Running(s) => runner'[s] = runner[s] BY <1>6 DEF Running, Live
<1>8. \A s \in Runner : RunOK(runner'[s], client') BY <1>1, <1>2, <1>4, <1>5
<1>9. RunsHold' BY <1>1, <1>6 DEF IInv, RunsHold
<1>10. OneTransaction'
  <2> SUFFICES ASSUME NEW q \in Runner, Running(q)', Transactional(q)'
               PROVE  /\ \A s \in Other(q) : Running(s)' => runner'[s].adapter = "drizzle"
                      /\ DbOK(runner'[q].before, first')
                      /\ \A s \in Other(q) : Live(s)' => Holds(runner'[q].before, runner'[s], first')
                      /\ runner'[q].before.recorded \subseteq db'.recorded
                      /\ \A t \in {"transactions", "requestMetadata"} :
                            /\ Statement("addKey", t) \notin Passed(runner'[q])
                            /\ NewKey[t] \in db'.tables[t].keys
                            => NewKey[t] \in runner'[q].before.tables[t].keys
    BY DEF OneTransaction, Other
  <2>1. Running(q) /\ Transactional(q) /\ runner'[q] = runner[q] BY <1>6, <1>7
  <2>2. /\ \A s \in Other(q) : Running(s) => runner[s].adapter = "drizzle"
        /\ DbOK(runner[q].before, first)
        /\ \A s \in Other(q) : Live(s) => Holds(runner[q].before, runner[s], first)
        /\ runner[q].before.recorded \subseteq db.recorded
        /\ \A t \in {"transactions", "requestMetadata"} :
              /\ Statement("addKey", t) \notin Passed(runner[q])
              /\ NewKey[t] \in db.tables[t].keys
              => NewKey[t] \in runner[q].before.tables[t].keys
    BY <2>1 DEF IInv, OneTransaction
  <2>3. \A s \in Other(q) : Running(s)' => runner'[s].adapter = "drizzle" BY <1>6, <1>7, <2>2 DEF Other
  <2>4. \A s \in Other(q) : Live(s)' => Holds(runner'[q].before, runner'[s], first')
    BY <1>1, <1>6, <2>1, <2>2 DEF Other
  <2> QED BY <1>1, <2>1, <2>2, <2>3, <2>4
<1>11. AbortedHasCause'
  <2> SUFFICES ASSUME NEW s \in Runner, runner'[s].aborted PROVE Transactional(s)' /\ KeyBefore(s)'
    BY DEF AbortedHasCause
  <2>1. s # r /\ runner'[s] = runner[s] BY <1>3, <1>4
  <2>2. Transactional(s) /\ KeyBefore(s) BY <2>1 DEF IInv, AbortedHasCause
  <2> QED BY <1>6, <2>1, <2>2 DEF KeyBefore
<1>12. Alone'
  <2> SUFFICES ASSUME NEW s \in Runner, Running(s)'
               PROVE  /\ runner'[s].alone => \A q \in Other(s) : ~Running(q)'
                      /\ Undisturbed(s)' => Quiet(db', runner'[s])
    BY DEF Alone
  <2>1. Running(s) /\ runner'[s] = runner[s] BY <1>6, <1>7
  <2>2. runner'[s].alone => \A q \in Other(s) : ~Running(q)' BY <1>6, <2>1 DEF IInv, Alone, Other
  <2>3. Undisturbed(s)' => Undisturbed(s) BY <1>6, <2>1 DEF Undisturbed
  <2>4. Undisturbed(s) => Quiet(db, runner[s]) BY <2>1 DEF IInv, Alone
  <2> QED BY <1>1, <2>1, <2>2, <2>3, <2>4
<1>13. ASSUME ~interrupted' PROVE Uninterrupted'
  <2>1. Uninterrupted BY <1>1, <1>13 DEF IInv
  <2>2. \A s \in Runner : runner'[s].phase = "done" => runner[s].phase = "done" BY <1>3, <1>4
  <2>3. \A s, q \in Runner : Running(s)' /\ Running(q)' => s = q BY <1>6, <2>1 DEF Uninterrupted
  <2>4. \A s \in Runner : Running(s)' => Settled(db', runner'[s], first')
    BY <1>1, <1>6, <1>7, <2>1 DEF Uninterrupted
  <2>5. (\A s \in Runner : ~Running(s)') => db'.keyless = {} /\ SumHits(db'.limits) = SumHits(first'.limits)
    BY <1>1, <1>6, <2>1 DEF Uninterrupted
  <2>6. (\E s \in Runner : runner'[s].phase = "done") => db'.keyless = {} BY <1>1, <2>1, <2>2 DEF Uninterrupted
  <2> QED BY <2>3, <2>4, <2>5, <2>6 DEF Uninterrupted
<1>14. /\ client' \in {"pg", "mysql2", "better-sqlite3"}
       /\ together' => client' = "better-sqlite3"
       /\ together' \in BOOLEAN /\ interrupted' \in BOOLEAN
       /\ DbOK(db', first')
  BY <1>1 DEF IInv
<1> QED BY <1>4, <1>8, <1>9, <1>10, <1>11, <1>12, <1>13, <1>14 DEF IInv

---------------------------------------------------------------------------
(* The database that a first run finds.                                     *)

LEMMA ByRank ==
    ASSUME NEW m \in Migration, NEW h \in Migration, NEW s \in Statements(m),
           100 * h <= Rank(s), Rank(s) <= 100 * h + 99
    PROVE  m = h
<1>1. Rank(s) \in Int /\ 100 * m <= Rank(s) /\ Rank(s) <= 100 * m + 99 BY StatementsIn
<1>2. m \in Int /\ h \in Int BY DEF Migration
<1> QED BY <1>1, <1>2

(* The migration that sends a statement others rely on.                     *)
LEMMA SentBy ==
    ASSUME NEW m \in Migration
    PROVE  /\ \A t \in Tables : Statement("createTable", t) \in Statements(m) => m = Home[t]
           /\ Statement("insertAttempts", "transactionAttempts") \in Statements(m) => m = 3
           /\ Statement("addKey", "transactions") \in Statements(m) => m = 3
           /\ Statement("addKey", "requestMetadata") \in Statements(m) => m = 8
           /\ Statement("addKeyInSavepoint", "rateLimits") \in Statements(m) => m = 5
           /\ Statement("deleteDuplicates", "rateLimits") \in Statements(m) => m = 5
           /\ Statement("addColumn", "paymentIntents") \in Statements(m) => m = 6
           /\ Statement("addColumn", "transactions") \in Statements(m) => m = 7
           /\ \A t \in Tables : Statement("assertColumnsExist", t) \notin Statements(m)
<1>1. \A t \in Tables : /\ Home[t] \in Migration /\ 100 * Home[t] <= Base[t] + 2
                        /\ Base[t] + 2 <= 100 * Home[t] + 99
  BY TheTables DEF Home, Migration, Base
<1>2. \A t \in Tables : Statement("createTable", t) \in Statements(m) => m = Home[t] BY <1>1, Ranks, ByRank
<1> DEFINE h == 100 * m
<1>3. \/ m = 1 /\ h = 100
      \/ m = 2 /\ h = 200
      \/ m = 3 /\ h = 300
      \/ m = 4 /\ h = 400
      \/ m = 5 /\ h = 500
      \/ m = 6 /\ h = 600
      \/ m = 7 /\ h = 700
      \/ m = 8 /\ h = 800
  <2>1. m \in Int /\ 1 <= m /\ m <= 8 BY DEF Migration
  <2>2. m = 1 \/ m = 2 \/ m = 3 \/ m = 4 \/ m = 5 \/ m = 6 \/ m = 7 \/ m = 8 BY <2>1
  <2> QED BY <2>2
<1>4. Statement("insertAttempts", "transactionAttempts") \in Statements(m) => m = 3
  <2> DEFINE s == Statement("insertAttempts", "transactionAttempts")
  <2>1. Rank(s) = 322 BY Ranks
  <2>2. s \in Statements(m) => h <= Rank(s) /\ Rank(s) <= h + 99 BY StatementsIn
  <2> HIDE DEF s, h
  <2>3. s \in Statements(m) => m = 3 BY <1>3, <2>1, <2>2
  <2> QED BY <2>3 DEF s
<1>5. Statement("addKey", "transactions") \in Statements(m) => m = 3
  <2> DEFINE s == Statement("addKey", "transactions")
  <2>1. Rank(s) = 331 BY Ranks
  <2>2. s \in Statements(m) => h <= Rank(s) /\ Rank(s) <= h + 99 BY StatementsIn
  <2> HIDE DEF s, h
  <2>3. s \in Statements(m) => m = 3 BY <1>3, <2>1, <2>2
  <2> QED BY <2>3 DEF s
<1>6. Statement("addKey", "requestMetadata") \in Statements(m) => m = 8
  <2> DEFINE s == Statement("addKey", "requestMetadata")
  <2>1. Rank(s) = 802 BY Ranks
  <2>2. s \in Statements(m) => h <= Rank(s) /\ Rank(s) <= h + 99 BY StatementsIn
  <2> HIDE DEF s, h
  <2>3. s \in Statements(m) => m = 8 BY <1>3, <2>1, <2>2
  <2> QED BY <2>3 DEF s
<1>7. Statement("addKeyInSavepoint", "rateLimits") \in Statements(m) => m = 5
  <2> DEFINE s == Statement("addKeyInSavepoint", "rateLimits")
  <2>1. Rank(s) = 506 BY Ranks
  <2>2. s \in Statements(m) => h <= Rank(s) /\ Rank(s) <= h + 99 BY StatementsIn
  <2> HIDE DEF s, h
  <2>3. s \in Statements(m) => m = 5 BY <1>3, <2>1, <2>2
  <2> QED BY <2>3 DEF s
<1>8. Statement("deleteDuplicates", "rateLimits") \in Statements(m) => m = 5
  <2> DEFINE s == Statement("deleteDuplicates", "rateLimits")
  <2>1. Rank(s) = 505 BY Ranks
  <2>2. s \in Statements(m) => h <= Rank(s) /\ Rank(s) <= h + 99 BY StatementsIn
  <2> HIDE DEF s, h
  <2>3. s \in Statements(m) => m = 5 BY <1>3, <2>1, <2>2
  <2> QED BY <2>3 DEF s
<1>9. Statement("addColumn", "paymentIntents") \in Statements(m) => m = 6
  <2> DEFINE s == Statement("addColumn", "paymentIntents")
  <2>1. Rank(s) = 603 BY Ranks, TheColumns DEF Required
  <2>2. s \in Statements(m) => h <= Rank(s) /\ Rank(s) <= h + 99 BY StatementsIn
  <2> HIDE DEF s, h
  <2>3. s \in Statements(m) => m = 6 BY <1>3, <2>1, <2>2
  <2> QED BY <2>3 DEF s
<1>10. Statement("addColumn", "transactions") \in Statements(m) => m = 7
  <2> DEFINE s == Statement("addColumn", "transactions")
  <2>1. Rank(s) = 703 BY Ranks, TheColumns DEF Required
  <2>2. s \in Statements(m) => h <= Rank(s) /\ Rank(s) <= h + 99 BY StatementsIn
  <2> HIDE DEF s, h
  <2>3. s \in Statements(m) => m = 7 BY <1>3, <2>1, <2>2
  <2> QED BY <2>3 DEF s
<1>11. ASSUME NEW t \in Tables, Statement("assertColumnsExist", t) \in Statements(m) PROVE FALSE
  <2> DEFINE s == Statement("assertColumnsExist", t)
  <2>1. Rank(s) <= 30 /\ Rank(s) \in Int BY DrizzleRanks
  <2>2. h \in Int /\ h >= 100 BY <1>3
  <2>3. h <= Rank(s) BY <1>11, StatementsIn
  <2> HIDE DEF s, h
  <2> QED BY <2>1, <2>2, <2>3
<1> QED BY <1>2, <1>4, <1>5, <1>6, <1>7, <1>8, <1>9, <1>10, <1>11

(* The keys by which the races are settled, and who makes them.             *)
LEMMA UniqueKeysAre ==
    /\ UniqueKeys("transactions") = {NewKey["transactions"]} /\ KnexUniques("transactions") = {}
    /\ UniqueKeys("rateLimits") = {NewKey["rateLimits"]} /\ KnexUniques("rateLimits") = {NewKey["rateLimits"]}
    /\ \A t \in Tables \ {"transactions"} : UniqueKeys(t) = KnexUniques(t)
    /\ \A t \in Tables \ {"rateLimits"} : NewKey["rateLimits"] \notin KnexUniques(t)
    /\ AttemptNumberKey \in KnexUniques("transactionAttempts")
    /\ \A t \in Tables : KnexUniques(t) \subseteq KnexTable[t].keys
    /\ NewKey["transactions"] \notin KnexTable["transactions"].keys
    /\ NewKey["requestMetadata"] \notin KnexTable["requestMetadata"].keys
<1>1. UniqueKeys("transactions") = {NewKey["transactions"]} /\ KnexUniques("transactions") = {}
      /\ NewKey["transactions"] \notin KnexTable["transactions"].keys
  BY DEF UniqueKeys, KnexUniques, isUnique, tableSpec, KnexTable, transactions, createTransactionsTable, TableOf,
     Uniques, Indexes, uniqueName, indexName, NewKey
<1>2. UniqueKeys("rateLimits") = {NewKey["rateLimits"]} /\ KnexUniques("rateLimits") = {NewKey["rateLimits"]}
  BY DEF UniqueKeys, KnexUniques, isUnique, tableSpec, KnexTable, rateLimits, createRateLimitsTable, TableOf,
     Uniques, Indexes, uniqueName, indexName, NewKey
<1>3. NewKey["requestMetadata"] \notin KnexTable["requestMetadata"].keys
  BY DEF KnexTable, createRequestMetadataTable, TableOf, Indexes, indexName, NewKey
<1>4. AttemptNumberKey \in KnexUniques("transactionAttempts")
  BY DEF KnexUniques, isUnique, KnexTable, createTransactionAttemptsTable, TableOf,
     Uniques, Indexes, uniqueName, indexName, AttemptNumberKey
<1>5. \A t \in Tables : KnexUniques(t) \subseteq KnexTable[t].keys BY DEF KnexUniques
<1>6. \A t \in Tables \ {"transactions", "requestMetadata"} : tableSpec[t].keys = KnexTable[t].keys
  <2>1. tableSpec["transactionItems"].keys = KnexTable["transactionItems"].keys
    BY DEF tableSpec, KnexTable, TableOf, transactionItems, createTransactionItemsTable
  <2>2. tableSpec["invoices"].keys = KnexTable["invoices"].keys
    BY DEF tableSpec, KnexTable, TableOf, invoices, createInvoicesTable
  <2>3. tableSpec["rateLimits"].keys = KnexTable["rateLimits"].keys
    BY DEF tableSpec, KnexTable, TableOf, rateLimits, createRateLimitsTable
  <2>4. tableSpec["blacklist"].keys = KnexTable["blacklist"].keys
    BY DEF tableSpec, KnexTable, TableOf, blacklist, createBlacklistTable
  <2>5. tableSpec["transactionLogs"].keys = KnexTable["transactionLogs"].keys
    BY DEF tableSpec, KnexTable, TableOf, transactionLogs, createTransactionLogsTable
  <2>6. tableSpec["transactionAttempts"].keys = KnexTable["transactionAttempts"].keys
    BY DEF tableSpec, KnexTable, TableOf, transactionAttempts, createTransactionAttemptsTable
  <2>7. tableSpec["paymentIntents"].keys = KnexTable["paymentIntents"].keys
    BY DEF tableSpec, KnexTable, TableOf, paymentIntents, createPaymentIntentsTable
  <2> QED BY <2>1, <2>2, <2>3, <2>4, <2>5, <2>6, <2>7, TheTables
<1>7. UniqueKeys("requestMetadata") = {} /\ KnexUniques("requestMetadata") = {}
  BY DEF UniqueKeys, KnexUniques, isUnique, tableSpec, KnexTable, requestMetadata, createRequestMetadataTable,
     TableOf, Indexes, indexName
<1>8. \A t \in Tables \ {"transactions"} : UniqueKeys(t) = KnexUniques(t)
  <2>1. \A t \in Tables \ {"transactions", "requestMetadata"} : UniqueKeys(t) = KnexUniques(t)
    BY <1>6 DEF UniqueKeys, KnexUniques
  <2> QED BY <1>7, <2>1
<1>9. \A t \in Tables \ {"rateLimits"} : NewKey["rateLimits"] \notin KnexUniques(t)
  <2>1. \A t \in Tables \ {"rateLimits", "transactions", "requestMetadata"} :
          NewKey["rateLimits"] \notin KnexTable[t].keys
    BY TheTables DEF KnexTable, TableOf, Uniques, Indexes, uniqueName, indexName, NewKey,
       createTransactionItemsTable, createInvoicesTable, createBlacklistTable, createTransactionLogsTable,
       createTransactionAttemptsTable, createPaymentIntentsTable
  <2> QED BY <1>1, <1>5, <1>7, <2>1
<1> QED BY <1>1, <1>2, <1>3, <1>4, <1>5, <1>8, <1>9

LEMMA KeyedIsKeyed ==
    ASSUME NEW d, NEW t, Keyed(d, t, {})
    PROVE  UniqueKeys(t) \subseteq d.tables[t].keys
BY DEF Keyed

LEMMA FoundEffects ==
    ASSUME NEW d, Found(d), NEW m \in d.recorded
    PROVE  Effects(d, Statements(m))
<1> DEFINE S == Statements(m)
<1>1. m \in Migration /\ Applied(d, m, {}) BY DEF Found
<1>2. /\ d.attempts \in [Payment -> Nat] /\ d.payments \subseteq Payment /\ DOMAIN d.tables = Tables
  BY DEF Found, TablesOf
<1>3. \A t \in Tables : d.tables[t] # NoTable => KnexTable[t].columns \subseteq d.tables[t].columns BY DEF Found
<1>4. /\ \A t \in Tables : Statement("createTable", t) \in S => m = Home[t]
      /\ Statement("insertAttempts", "transactionAttempts") \in S => m = 3
      /\ Statement("addKey", "transactions") \in S => m = 3
      /\ Statement("addKey", "requestMetadata") \in S => m = 8
      /\ Statement("addKeyInSavepoint", "rateLimits") \in S => m = 5
      /\ Statement("deleteDuplicates", "rateLimits") \in S => m = 5
      /\ Statement("addColumn", "paymentIntents") \in S => m = 6
      /\ Statement("addColumn", "transactions") \in S => m = 7
      /\ \A t \in Tables : Statement("assertColumnsExist", t) \notin S
  BY <1>1, SentBy
<1> HIDE DEF S
<1>5. m = 1 => \A t \in {"transactions", "transactionItems", "invoices", "requestMetadata", "rateLimits",
                         "blacklist"} : d.tables[t] # NoTable
  BY <1>1 DEF Applied
<1>6. m = 2 => d.tables["transactionLogs"] # NoTable BY <1>1 DEF Applied
<1>7. m = 3 => /\ Keyed(d, "transactions", {}) /\ d.tables["transactionAttempts"] # NoTable
               /\ \A p \in d.payments : d.attempts[p] = 1
  BY <1>1 DEF Applied
<1>8. m = 4 => d.tables["paymentIntents"] # NoTable BY <1>1 DEF Applied
<1>9. m = 5 => Keyed(d, "rateLimits", {}) /\ Len(d.limits) <= 1 BY <1>1 DEF Applied
<1>10. m = 6 => "request_hash" \in d.tables["paymentIntents"].columns BY <1>1 DEF Applied
<1>11. m = 7 => "pos_id" \in d.tables["transactions"].columns BY <1>1 DEF Applied
<1>12. m = 8 => NewKey["requestMetadata"] \in d.tables["requestMetadata"].keys BY <1>1 DEF Applied
<1>13. ASSUME NEW t \in Tables, Statement("createTable", t) \in S
       PROVE  KnexTable[t].columns \subseteq d.tables[t].columns
  <2>1. m = Home[t] BY <1>4, <1>13
  <2>2. d.tables[t] # NoTable BY <2>1, <1>5, <1>6, <1>7, <1>8, TheTables DEF Home
  <2> QED BY <1>3, <2>2
<1>14. Statement("insertAttempts", "transactionAttempts") \in S => \A p \in d.payments : d.attempts[p] >= 1
  BY <1>4, <1>7
<1>15. \A t \in {"transactions", "requestMetadata"} :
         Statement("addKey", t) \in S => NewKey[t] \in d.tables[t].keys
  BY <1>4, <1>7, <1>12, KeyedIsKeyed, UniqueKeysAre
<1>16. Statement("addKeyInSavepoint", "rateLimits") \in S => NewKey["rateLimits"] \in d.tables["rateLimits"].keys
  BY <1>4, <1>9, KeyedIsKeyed, UniqueKeysAre
<1>17. Statement("deleteDuplicates", "rateLimits") \in S => Len(d.limits) <= 1 BY <1>4, <1>9
<1>18. \A t \in DOMAIN NewColumn :
         Statement("addColumn", t) \in S => NewColumn[t] \in d.tables[t].columns
  <2>1. NewColumn["paymentIntents"] = "request_hash" /\ NewColumn["transactions"] = "pos_id" BY DEF NewColumn
  <2> QED BY <1>4, <1>10, <1>11, <2>1, TheColumns
<1> QED BY <1>4, <1>13, <1>14, <1>15, <1>16, <1>17, <1>18 DEF Effects, S

LEMMA EffectsOfAll ==
    ASSUME NEW d, NEW M, \A m \in M : Effects(d, Statements(m))
    PROVE  Effects(d, UNION {Statements(m) : m \in M})
BY DEF Effects

LEMMA FoundIsOK ==
    ASSUME NEW d, Found(d)
    PROVE  DbOK(d, d)
<1>1. /\ TablesOf(d) /\ d.recorded \subseteq Migration /\ d.payments \subseteq Payment
      /\ d.attempts \in [Payment -> Nat] /\ d.limits \in Limits
  BY DEF Found, Limits, LimitRow
<1>2. DbShape(d) BY <1>1 DEF DbShape, Found
<1>3. TablesMade(d)
  <2>1. \A t \in Tables : d.tables[t] # NoTable =>
          /\ KnexTable[t].columns \subseteq d.tables[t].columns
          /\ KnexUniques(t) \ {NewKey["rateLimits"]} \subseteq d.tables[t].keys
    BY DEF Found, KnexUniques
  <2>2. \A t \in Tables : d.tables[t] # NoTable =>
          /\ KnexTable[t].columns \subseteq d.tables[t].columns
          /\ t # "rateLimits" => KnexUniques(t) \subseteq d.tables[t].keys
    BY <2>1, UniqueKeysAre
  <2>3. d.tables["rateLimits"] # NoTable =>
          KnexUniques("rateLimits") \subseteq d.tables["rateLimits"].keys \/ OldLimits(d)
    <3>1. d.tables["rateLimits"] # NoTable =>
            \/ NewKey["rateLimits"] \in d.tables["rateLimits"].keys
            \/ d.tables["transactions"] # NoTable /\ "pos_id" \notin d.tables["transactions"].columns
      BY DEF Found
    <3> QED BY <3>1, UniqueKeysAre DEF OldLimits, NewTransactions
  <2>4. NewTransactions(d) => NewKey["transactions"] \in d.tables["transactions"].keys
    BY DEF Found, NewTransactions
  <2> QED BY <2>2, <2>3, <2>4 DEF TablesMade
<1>4. RowsMade(d)
  <2>1. PICK n \in {0, 1} : \A p \in d.payments : d.attempts[p] = n BY DEF Found
  <2>2. ~Twice(d) /\ \A p, q \in d.payments : d.attempts[p] = d.attempts[q] BY <2>1 DEF Twice
  <2>3. (\E p \in d.payments : d.attempts[p] > 0) => d.tables["transactionAttempts"] # NoTable BY DEF Found
  <2>4. d.limits # <<>> => d.tables["rateLimits"] # NoTable BY DEF Found
  <2>5. Len(d.limits) > 0 => d.limits # <<>>
    <3>1. Len(<<>>) = 0 OBVIOUS
    <3> QED BY <3>1
  <2> QED BY <2>2, <2>3, <2>4, <2>5 DEF RowsMade
<1>5. NotMilder(d, d)
  <2>1. SumHits(d.limits) \in Nat BY <1>1, HitsSum
  <2> QED BY <2>1 DEF NotMilder
<1>6. Effects(d, UNION {Statements(m) : m \in d.recorded}) BY FoundEffects, EffectsOfAll
<1> QED BY <1>2, <1>3, <1>4, <1>5, <1>6 DEF DbOK

LEMMA InitHolds == Init => IInv
<1> SUFFICES ASSUME Init PROVE IInv OBVIOUS
<1>1. /\ client \in {"pg", "mysql2", "better-sqlite3"}
      /\ together \in (IF client = "better-sqlite3" THEN BOOLEAN ELSE {FALSE})
      /\ db \in Database /\ first = db /\ interrupted = FALSE
  BY DEF Init
<1>2. PICK side \in [Runner -> {"knex", "drizzle"}] : runner = [r \in Runner |-> Idle(side[r], 0)]
  BY DEF Init
<1>3. DOMAIN runner = Runner /\ \A r \in Runner : runner[r] = Idle(side[r], 0) BY <1>2
<1>4. \A r \in Runner : RunOK(runner[r], client) /\ runner[r].phase = "idle" /\ runner[r].aborted = FALSE
  <2> SUFFICES ASSUME NEW r \in Runner
               PROVE  RunOK(runner[r], client) /\ runner[r].phase = "idle" /\ runner[r].aborted = FALSE
    OBVIOUS
  <2> DEFINE N == Idle(side[r], 0)
  <2>1. /\ DOMAIN N = RunFields /\ N.phase = "idle" /\ N.adapter = side[r] /\ N.aborted = FALSE
        /\ N.restarts = 0 /\ N.alone = TRUE /\ N.todo = <<>>
    BY DEF Idle, RunFields
  <2>2. side[r] \in {"knex", "drizzle"} BY <1>2
  <2> HIDE DEF N
  <2>3. RunOK(N, client)
    <3>1. TodoOK(N, client) BY <2>1, EmptyTodo
    <3>2. N.restarts \in Nat BY <2>1
    <3>3. N.aborted \in BOOLEAN /\ N.alone \in BOOLEAN /\ ~N.aborted /\ N.todo = <<>> BY <2>1
    <3>4. N.phase \in {"idle", "running", "done", "failed", "crashed"} /\ N.adapter \in {"knex", "drizzle"}
      BY <2>1, <2>2
    <3> QED BY <2>1, <3>1, <3>2, <3>3, <3>4 DEF RunOK
  <2> QED BY <1>3, <2>1, <2>3 DEF N
<1>5. DbOK(db, first) /\ db.keyless = {}
  <2>1. Found(db) BY <1>1, MigrationsAssumption
  <2> QED BY <1>1, <2>1, FoundIsOK DEF Found
<1>6. \A r \in Runner : ~Running(r) /\ ~Live(r) BY <1>4 DEF Running, Live
<1>7. RunsHold /\ OneTransaction /\ AbortedHasCause /\ Alone
  BY <1>4, <1>6 DEF RunsHold, OneTransaction, AbortedHasCause, Alone
<1>8. Uninterrupted BY <1>1, <1>5, <1>6 DEF Uninterrupted
<1>9. together \in BOOLEAN /\ (together => client = "better-sqlite3") BY <1>1
<1> QED BY <1>1, <1>3, <1>4, <1>5, <1>7, <1>8, <1>9 DEF IInv

---------------------------------------------------------------------------
(* A statement that is sent.                                                *)

LEMMA SendsNext ==
    ASSUME IInv, NEW r \in Runner, NEW do, Ready(r, do)
    PROVE  LET R == runner[r] IN
           /\ RunOK(R, client) /\ R.phase = "running" /\ R.aborted = FALSE /\ Running(r)
           /\ Len(R.todo) \in Nat /\ Len(R.todo) >= 1 /\ 1 \in DOMAIN R.todo
           /\ R.todo[1] = Statement(do, Subject(r)) /\ Subject(r) = R.todo[1].table
           /\ R.todo[1] \in ToSet(R.todo) /\ R.todo[1] \in AllStatements
           /\ DbOK(db, first) /\ Holds(db, R, first)
           /\ \A s \in Other(r) : Running(s) => ~Transactional(s)
<1> DEFINE R == runner[r]
<1>1. RunOK(R, client) /\ R.aborted \in BOOLEAN BY DEF IInv, RunOK
<1>2. /\ Running(r) /\ R.todo # <<>> /\ Head(R.todo).do = do /\ ~R.aborted
      /\ \A s \in Other(r) : Running(s) => ~Transactional(s)
  BY DEF Ready
<1>3. R.phase = "running" BY <1>2 DEF Running
<1>4. DbOK(db, first) /\ Holds(db, R, first) BY <1>2, <1>3 DEF IInv, RunsHold, Live
<1>5. R.todo \in Seq(AllStatements) /\ Len(R.todo) \in Nat /\ DOMAIN R.todo = 1..Len(R.todo)
  BY <1>1, TodoIsOf
<1> DEFINE q == R.todo
<1>6. q \in Seq(AllStatements) /\ q # <<>> /\ Head(q).do = do /\ Subject(r) = Head(q).table
  BY <1>2, <1>5 DEF Subject
<1> HIDE DEF q
<1>7. Len(q) >= 1 /\ Head(q) = q[1] /\ q[1] \in AllStatements /\ 1 \in DOMAIN q BY <1>6
<1>8. q[1] = Statement(q[1].do, q[1].table) BY <1>7, AllRanked
<1>9. q[1] \in ToSet(q) BY <1>7 DEF ToSet
<1> QED BY <1>1, <1>2, <1>3, <1>4, <1>5, <1>6, <1>7, <1>8, <1>9 DEF q

LEMMA ProceedHolds ==
    ASSUME IInv, NEW r \in Runner, NEW do, Ready(r, do), NEW n \in Nat, n + 1 \in 1..Len(runner[r].todo),
           Select \notin Gone(runner[r].todo, n + 1), Proceed(r, n), Kept,
           Fine(db, db', runner[r], Advanced(runner[r], n + 1), first)
    PROVE  IInv'
<1> DEFINE R == runner[r]
           P == Advanced(R, n + 1)
<1>1. /\ RunOK(R, client) /\ R.phase = "running" /\ R.aborted = FALSE /\ Running(r)
      /\ \A s \in Other(r) : Running(s) => ~Transactional(s)
  BY SendsNext
<1>2. n + 1 \in 1..Len(R.todo) /\ Select \notin Gone(R.todo, n + 1) OBVIOUS
<1>3. /\ RunOK(P, client) /\ P.phase = "running" /\ P.adapter = R.adapter
      /\ P.aborted = R.aborted /\ P.alone = R.alone /\ P.before = R.before
  <2> HIDE DEF R
  <2> QED BY <1>1, <1>2, Moves
<1>4. runner' = [runner EXCEPT ![r] = P]
  <2>1. (n + 1) + 1 = n + 2 OBVIOUS
  <2>2. runner' = [runner EXCEPT ![r].todo = SubSeq(@, n + 2, Len(@))] BY DEF Proceed
  <2>3. P = [R EXCEPT !.todo = SubSeq(@, n + 2, Len(@))] BY <2>1 DEF Advanced
  <2> QED BY <2>2, <2>3
<1>5. Fine(db, db', runner[r], P, first) OBVIOUS
<1> HIDE DEF P
<1> QED BY <1>1, <1>3, <1>4, <1>5, AdvanceHolds

(* One statement, two, three of the list.                                   *)
LEMMA GoneAre ==
    ASSUME NEW q
    PROVE  /\ Gone(q, 1) = {q[1]} /\ Gone(q, 2) = {q[1], q[2]} /\ Gone(q, 3) = {q[1], q[2], q[3]}
<1>1. 1..1 = {1} /\ 1..2 = {1, 2} /\ 1..3 = {1, 2, 3} OBVIOUS
<1> QED BY <1>1 DEF Gone

LEMMA SentIsPassed ==
    ASSUME NEW R, NEW c, RunOK(R, c), R.phase = "running", R.adapter = "knex",
           NEW k \in 1..Len(R.todo), Select \notin Gone(R.todo, k), NEW s \in KnexStatements, s \in Gone(R.todo, k)
    PROVE  s \in Passed(Advanced(R, k))
<1> DEFINE P == Advanced(R, k)
<1>1. P.adapter = R.adapter /\ ToSet(P.todo) = ToSet(R.todo) \ Gone(R.todo, k) BY Moves
<1>2. s \in ToSet(R.todo)
  <2>1. PICK i \in 1..k : s = R.todo[i] BY DEF Gone
  <2>2. Len(R.todo) \in Nat /\ DOMAIN R.todo = 1..Len(R.todo) BY TodoIsOf
  <2>3. i \in DOMAIN R.todo BY <2>2
  <2> QED BY <2>1, <2>3 DEF ToSet
<1>3. Select \notin ToSet(R.todo)
  <2> SUFFICES ASSUME Select \in ToSet(R.todo) PROVE FALSE OBVIOUS
  <2>1. R.todo \in Seq(Preparing) BY TodoIsOf
  <2>2. s \in Preparing BY <1>2, <2>1, Within
  <2>3. Rank(s) <= 3 BY <2>2, PreparingPart
  <2>4. PICK m \in Migration : s \in Statements(m) BY DEF KnexStatements
  <2> DEFINE h == 100 * m
  <2>5. h \in Int /\ h >= 100 BY DEF Migration
  <2>6. Rank(s) \in Int /\ h <= Rank(s) BY <2>4, StatementsIn
  <2> HIDE DEF h
  <2> QED BY <2>3, <2>5, <2>6
<1> HIDE DEF P
<1>4. s \in Passed(P) BY <1>1, <1>3 DEF Passed
<1> QED BY <1>4 DEF P

(* What the run sends next, when its last statement leads to it.            *)
OnlyAt(P, do, T) == \A x \in DOMAIN Leads : \A t : At(P, Leads[x], t) => x = do /\ t = T

LEMMA OnlyAfter ==
    ASSUME NEW R, NEW c, RunOK(R, c), R.phase = "running", NEW k \in 1..Len(R.todo), Select \notin Gone(R.todo, k),
           NEW do, NEW T, R.todo[k] = Statement(do, T)
    PROVE  /\ OnlyAt(Advanced(R, k), do, T)
           /\ do \notin DOMAIN Leads => Bare(Advanced(R, k))
<1> DEFINE P == Advanced(R, k)
<1>1. \A x \in DOMAIN Leads : \A t : At(P, Leads[x], t) => R.todo[k] = Statement(x, t)
  <2>1. P.todo # <<>> => \A x \in DOMAIN Leads : \A t : At(P, Leads[x], t) => R.todo[k] = Statement(x, t)
    BY Moves
  <2> HIDE DEF P
  <2> QED BY <2>1 DEF At
<1> HIDE DEF P
<1>2. \A x, t : Statement(x, t) = Statement(do, T) => x = do /\ t = T
  <2>1. \A x, t : Statement(x, t).do = x /\ Statement(x, t).table = t BY DEF Statement
  <2> QED BY <2>1
<1>3. OnlyAt(P, do, T) BY <1>1, <1>2 DEF OnlyAt
<1>4. do \notin DOMAIN Leads => Bare(P) BY <1>3 DEF OnlyAt, Bare
<1> QED BY <1>4, <1>3 DEF P

LEMMA OnlyRun ==
    ASSUME NEW P, NEW do, NEW T, OnlyAt(P, do, T)
    PROVE  \A t : /\ At(P, "createControl", t) => do = "hasControl" /\ t = T
                  /\ At(P, "createTable", t) => do = "hasTable" /\ t = T
                  /\ At(P, "createKeys", t) => do = "createTable" /\ t = T
                  /\ At(P, "insertAttempts", t) => do = "countAttempts" /\ t = T
                  /\ At(P, "addColumn", t) => do = "hasColumn" /\ t = T
                  /\ At(P, "findDuplicates", t) => do = "fillContexts" /\ t = T
                  /\ At(P, "updateKept", t) => do = "findDuplicates" /\ t = T
                  /\ At(P, "deleteDuplicates", t) => do = "updateKept" /\ t = T
BY LeadsTo DEF OnlyAt

LEMMA MovesFine ==
    ASSUME NEW R, NEW c, RunOK(R, c), R.phase = "running", NEW k \in 1..Len(R.todo), Select \notin Gone(R.todo, k),
           NEW d, NEW e, NEW f, DbOK(d, f), DbOK(e, f), Grown(d, e, f), Holds(d, R, f),
           Effects(e, Gone(R.todo, k)), Asserted(e, Advanced(R, k), f),
           Quiet(d, R) => Quiet(e, Advanced(R, k)),
           Settled(d, R, f) => Settled(e, Advanced(R, k), f),
           e.keyless \subseteq d.keyless \cup {t \in Tables : d.tables[t] = NoTable},
           R.adapter = "knex" => \A t \in {"transactions", "requestMetadata"} : NewKey[t] \in e.tables[t].keys =>
             NewKey[t] \in d.tables[t].keys \/ Statement("addKey", t) \in Passed(Advanced(R, k))
    PROVE  Fine(d, e, R, Advanced(R, k), f)
<1> DEFINE P == Advanced(R, k)
<1>1. Passed(R) \subseteq Passed(P) /\ Passed(P) \subseteq Passed(R) \cup Gone(R.todo, k) BY Moves
<1>2. /\ Asserted(e, P, f) /\ (Quiet(d, R) => Quiet(e, P)) /\ (Settled(d, R, f) => Settled(e, P, f))
      /\ R.adapter = "knex" => \A t \in {"transactions", "requestMetadata"} : NewKey[t] \in e.tables[t].keys =>
           NewKey[t] \in d.tables[t].keys \/ Statement("addKey", t) \in Passed(P)
  OBVIOUS
<1> HIDE DEF P
<1>3. DbShape(d) /\ DbShape(e) /\ Effects(d, Passed(R)) BY DEF DbOK, Holds
<1>4. Effects(e, Passed(R)) BY <1>3, EffectsGrow
<1>5. Effects(e, Passed(P)) BY <1>1, <1>4, EffectsOfBoth
<1>6. Fine(d, e, R, P, f) BY <1>1, <1>2, <1>5 DEF Fine, Holds
<1> QED BY <1>6 DEF P

(* The tables and the rows of a limit are left, or more keys are made.      *)
LEMMA StillSettled ==
    ASSUME NEW R, NEW c, RunOK(R, c), R.phase = "running", NEW k \in 1..Len(R.todo), Select \notin Gone(R.todo, k),
           NEW d, NEW e, NEW f, DbShape(d), e.keyless \subseteq d.keyless, e.recorded = d.recorded,
           SumHits(e.limits) = SumHits(d.limits),
           \A t \in Tables : d.tables[t].keys \subseteq e.tables[t].keys,
           R.todo[1].do \notin {"createKeys", "deleteDuplicates"},
           \A s \in Gone(R.todo, k) : s.do # "createIndexes",
           ~At(Advanced(R, k), "deleteDuplicates", "rateLimits"), Settled(d, R, f)
    PROVE  Settled(e, Advanced(R, k), f)
<1> DEFINE P == Advanced(R, k)
<1>1. ToSet(P.todo) = ToSet(R.todo) \ Gone(R.todo, k) BY Moves
<1>2. ~At(P, "deleteDuplicates", "rateLimits") OBVIOUS
<1> HIDE DEF P
<1>3. \A t : ~At(R, "createKeys", t) /\ ~At(R, "deleteDuplicates", t) BY DEF At, Statement
<1>4. \A t : Statement("createIndexes", t) \notin Gone(R.todo, k) BY DEF Statement
<1>5. ASSUME NEW t \in e.keyless
      PROVE  Making(P, e, t) /\ (t \in DOMAIN KeyedBy => KeyedBy[t] \cap e.recorded = {})
  <2>1. t \in d.keyless /\ t \in Tables BY <1>5 DEF DbShape
  <2>2. Making(R, d, t) /\ (t \in DOMAIN KeyedBy => KeyedBy[t] \cap d.recorded = {}) BY <2>1 DEF Settled
  <2>3. Statement("createIndexes", t) \in ToSet(R.todo) /\ inlineUniques(t) \subseteq d.tables[t].keys
    BY <1>3, <2>2 DEF Making
  <2>4. d.tables[t].keys \subseteq e.tables[t].keys BY <2>1
  <2> QED BY <1>1, <1>4, <2>2, <2>3, <2>4 DEF Making
<1>6. SumHits(e.limits) = SumHits(f.limits) BY <1>3 DEF Settled
<1>7. Settled(e, P, f) BY <1>2, <1>5, <1>6 DEF Settled
<1> QED BY <1>7 DEF P

(* The tables that the statements name.                                     *)
TableOfVerb(do) ==
    CASE do \in {"hasTable", "createTable", "createKeys", "createIfNotExists", "assertColumnsExist",
                 "createIndexes"} -> Tables
      [] do = "addKey" -> {"transactions", "requestMetadata"}
      [] do \in {"hasColumn", "addColumn"} -> DOMAIN NewColumn
      [] do = "requireTable" -> DOMAIN Required
      [] do \in {"countAttempts", "insertAttempts"} -> {"transactionAttempts"}
      [] do \in {"fillContexts", "findDuplicates", "updateKept", "deleteDuplicates", "addKeyInSavepoint"} ->
           {"rateLimits"}
      [] do = "record" -> Migration
      [] do \in {"hasControl", "createControl", "selectExecuted"} -> {"control"}
      [] do = "checkIdentifiers" -> {"transactions"}

Proper == {s \in Sentence : s = Statement(s.do, s.table) /\ s.table \in TableOfVerb(s.do)}

LEMMA TriplesProper == \A t \in Tables : CreateIfMissing(t) \in Seq(Proper)
<1> SUFFICES ASSUME NEW t \in Tables PROVE CreateIfMissing(t) \in Seq(Proper) OBVIOUS
<1>1. Statement("hasTable", t) \in Proper BY DEF Proper, Sentence, Verbs, Statement, TableOfVerb
<1>2. Statement("createTable", t) \in Proper BY DEF Proper, Sentence, Verbs, Statement, TableOfVerb
<1>3. Statement("createKeys", t) \in Proper BY DEF Proper, Sentence, Verbs, Statement, TableOfVerb
<1> QED BY <1>1, <1>2, <1>3 DEF CreateIfMissing

LEMMA SingleProper ==
    /\ Statement("checkIdentifiers", "transactions") \in Proper
    /\ Statement("countAttempts", "transactionAttempts") \in Proper
    /\ Statement("insertAttempts", "transactionAttempts") \in Proper
    /\ \A t \in {"transactions", "requestMetadata"} : Statement("addKey", t) \in Proper
    /\ \A do \in {"fillContexts", "findDuplicates", "updateKept", "deleteDuplicates", "addKeyInSavepoint"} :
          Statement(do, "rateLimits") \in Proper
    /\ \A t \in DOMAIN Required : Statement("requireTable", t) \in Proper
    /\ \A t \in DOMAIN NewColumn : Statement("hasColumn", t) \in Proper /\ Statement("addColumn", t) \in Proper
    /\ \A m \in Migration : Statement("record", m) \in Proper
<1>1. Statement("checkIdentifiers", "transactions") \in Proper
  BY TheColumns DEF Proper, Sentence, Verbs, Statement, TableOfVerb
<1>2. Statement("countAttempts", "transactionAttempts") \in Proper
  BY TheColumns DEF Proper, Sentence, Verbs, Statement, TableOfVerb
<1>3. Statement("insertAttempts", "transactionAttempts") \in Proper
  BY TheColumns DEF Proper, Sentence, Verbs, Statement, TableOfVerb
<1>4. \A t \in {"transactions", "requestMetadata"} : Statement("addKey", t) \in Proper
  BY TheColumns DEF Proper, Sentence, Verbs, Statement, TableOfVerb
<1>5. \A do \in {"fillContexts", "findDuplicates", "updateKept", "deleteDuplicates", "addKeyInSavepoint"} :
         Statement(do, "rateLimits") \in Proper
  BY TheColumns DEF Proper, Sentence, Verbs, Statement, TableOfVerb
<1>6. DOMAIN Required \subseteq Tables BY TheTables DEF Required
<1>7. \A t \in DOMAIN Required : Statement("requireTable", t) \in Proper
  BY <1>6 DEF Proper, Sentence, Verbs, Statement, TableOfVerb
<1>8. \A t \in DOMAIN NewColumn : Statement("hasColumn", t) \in Proper /\ Statement("addColumn", t) \in Proper
  BY TheColumns DEF Proper, Sentence, Verbs, Statement, TableOfVerb
<1>9. \A m \in Migration : Statement("record", m) \in Proper
  BY DEF Proper, Sentence, Verbs, Statement, TableOfVerb
<1> QED BY <1>1, <1>2, <1>3, <1>4, <1>5, <1>7, <1>8, <1>9

LEMMA BothProper == \A a, b \in Seq(Proper) : a \o b \in Seq(Proper)
OBVIOUS

LEMMA MigrationsProper == \A m \in Migration : Statements(m) \subseteq Proper
<1>1. createSispTables \in Seq(Proper) BY TriplesProper, BothProper, TheTables DEF createSispTables
<1>2. createAttemptsAndBackfill \in Seq(Proper)
  <2>1. ensureNoDuplicateTransactionIdentifiers \in Seq(Proper)
    BY SingleProper DEF ensureNoDuplicateTransactionIdentifiers
  <2>2. backfillAttempts \in Seq(Proper) BY SingleProper DEF backfillAttempts
  <2>3. <<Statement("addKey", "transactions")>> \in Seq(Proper) BY SingleProper
  <2>4. CreateIfMissing("transactionAttempts") \in Seq(Proper) BY TriplesProper, TheTables
  <2> QED BY <2>1, <2>2, <2>3, <2>4, BothProper DEF createAttemptsAndBackfill
<1>3. {"rateLimits", "paymentIntents", "transactions", "requestMetadata"} \subseteq DOMAIN Required
  BY DEF Required
<1>4. addRateLimitUniqueIndex \in Seq(Proper) BY <1>3, SingleProper DEF addRateLimitUniqueIndex
<1>5. addPaymentIntentRequestHash \in Seq(Proper) BY <1>3, SingleProper, TheColumns DEF addPaymentIntentRequestHash
<1>6. addTransactionPosId \in Seq(Proper) BY <1>3, SingleProper, TheColumns DEF addTransactionPosId
<1>7. addRequestMetadataCreatedAtIndex \in Seq(Proper)
  BY <1>3, SingleProper DEF addRequestMetadataCreatedAtIndex
<1>8. CreateIfMissing("transactionLogs") \in Seq(Proper) /\ CreateIfMissing("paymentIntents") \in Seq(Proper)
  BY TriplesProper, TheTables
<1>9. ASSUME NEW m \in Migration PROVE Statements(m) \subseteq Proper
  <2>1. SISP_MIGRATIONS[m] \in Seq(Proper)
    <3>1. m \in {1, 2, 3, 4, 5, 6, 7, 8} BY DEF Migration
    <3> DEFINE s == SISP_MIGRATIONS
    <3>2. /\ s[1] = createSispTables /\ s[2] = CreateIfMissing("transactionLogs")
          /\ s[3] = createAttemptsAndBackfill /\ s[4] = CreateIfMissing("paymentIntents")
          /\ s[5] = addRateLimitUniqueIndex /\ s[6] = addPaymentIntentRequestHash
          /\ s[7] = addTransactionPosId /\ s[8] = addRequestMetadataCreatedAtIndex
      BY DEF SISP_MIGRATIONS
    <3> HIDE DEF s
    <3>3. s[m] \in Seq(Proper) BY <3>1, <3>2, <1>1, <1>2, <1>4, <1>5, <1>6, <1>7, <1>8
    <3> QED BY <3>3 DEF s
  <2>2. <<Statement("record", m)>> \in Seq(Proper) BY SingleProper
  <2>3. UpAndRecord(m) \in Seq(Proper) BY <2>1, <2>2, BothProper DEF UpAndRecord
  <2> QED BY <2>3, Within DEF Statements
<1> QED BY <1>9

LEMMA AllProper == AllStatements \subseteq Proper
<1>1. KnexStatements \subseteq Proper BY MigrationsProper DEF KnexStatements
<1>2. Preparing \subseteq Proper
  BY PreparingPart DEF Proper, Sentence, Verbs, Statement, TableOfVerb, Select
<1>3. DrizzleStatements \subseteq Proper
  BY DEF DrizzleStatements, Proper, Sentence, Verbs, Statement, TableOfVerb
<1> QED BY <1>1, <1>2, <1>3 DEF AllStatements

(* Which runs send a statement.                                             *)
LEMMA VerbsOf ==
    /\ \A s \in DrizzleStatements : s.do \in {"createIfNotExists", "assertColumnsExist", "createIndexes"}
    /\ \A s \in Preparing : s.do \in {"hasControl", "createControl", "selectExecuted"}
    /\ \A s \in KnexStatements : s.do \notin {"createIfNotExists", "assertColumnsExist", "createIndexes",
                                              "hasControl", "createControl", "selectExecuted"}
<1>1. \A s \in DrizzleStatements : s.do \in {"createIfNotExists", "assertColumnsExist", "createIndexes"}
  BY DEF DrizzleStatements, Statement
<1>2. \A s \in Preparing : s.do \in {"hasControl", "createControl", "selectExecuted"}
  BY PreparingPart DEF Statement, Select
<1>3. ASSUME NEW s \in KnexStatements
      PROVE  s.do \notin {"createIfNotExists", "assertColumnsExist", "createIndexes",
                          "hasControl", "createControl", "selectExecuted"}
  <2>1. PICK m \in Migration : s \in Statements(m) BY DEF KnexStatements
  <2> DEFINE h == 100 * m
  <2>2. h \in Int /\ h >= 100 BY DEF Migration
  <2>3. Rank(s) \in Int /\ h <= Rank(s) BY <2>1, StatementsIn
  <2> HIDE DEF h
  <2>4. Rank(s) >= 100 BY <2>2, <2>3
  <2>5. s \in Proper BY <2>1, MigrationsProper
  <2>6. s.do \in {"hasControl", "createControl", "selectExecuted"} => s.table = "control"
    BY <2>5 DEF Proper, TableOfVerb
  <2>7. s.do \in {"hasControl", "createControl", "selectExecuted"} => Rank(s) <= 3
    BY <2>5, <2>6, PreparingPart DEF Proper, Select
  <2>8. s.do \in {"createIfNotExists", "assertColumnsExist", "createIndexes"} => s.table \in Tables
    BY <2>5 DEF Proper, TableOfVerb
  <2>9. s.do \in {"createIfNotExists", "assertColumnsExist", "createIndexes"} => Rank(s) <= 30
    <3> DEFINE t == s.table
    <3>1. s = Statement(s.do, t) BY <2>5 DEF Proper
    <3>2. \A u \in Tables : /\ Rank(Statement("createIfNotExists", u)) <= 30
                            /\ Rank(Statement("assertColumnsExist", u)) <= 30
                            /\ Rank(Statement("createIndexes", u)) <= 30
      BY DrizzleRanks
    <3> QED BY <2>8, <3>1, <3>2
  <2>10. ASSUME Rank(s) <= 30 PROVE FALSE
    <3>1. Rank(s) \in Int BY <2>3
    <3> QED BY <2>4, <2>10, <3>1
  <2>11. ASSUME Rank(s) <= 3 PROVE FALSE
    <3>1. Rank(s) \in Int BY <2>3
    <3> QED BY <2>4, <2>11, <3>1
  <2>12. s.do \notin {"hasControl", "createControl", "selectExecuted"} BY <2>7, <2>11
  <2>13. s.do \notin {"createIfNotExists", "assertColumnsExist", "createIndexes"} BY <2>9, <2>10
  <2> QED BY <2>12, <2>13
<1> QED BY <1>1, <1>2, <1>3

---------------------------------------------------------------------------
(* Statements that leave the database.                                      *)

Telling == {"createTable", "insertAttempts", "addKey", "addKeyInSavepoint", "deleteDuplicates", "addColumn",
            "assertColumnsExist"}

LEMMA EffectsNone ==
    ASSUME NEW d, NEW S, \A s \in S : s.do \notin Telling
    PROVE  Effects(d, S)
<1>1. \A do \in Telling : \A t : Statement(do, t) \notin S BY DEF Statement
<1> QED BY <1>1 DEF Effects, Telling

LEMMA StillFine ==
    ASSUME NEW R, NEW c, RunOK(R, c), R.phase = "running", NEW k \in 1..Len(R.todo), Select \notin Gone(R.todo, k),
           NEW d, NEW f, DbOK(d, f), Holds(d, R, f), Effects(d, Gone(R.todo, k)),
           NEW do, NEW T, R.todo[k] = Statement(do, T),
           do \notin {"createTable", "fillContexts", "updateKept"},
           do = "hasControl" => ~d.control,
           do = "hasTable" => d.tables[T] = NoTable,
           do = "countAttempts" => \A p \in d.payments : d.attempts[p] = 0,
           do = "hasColumn" => NewColumn[T] \notin d.tables[T].columns,
           R.todo[1].do \notin {"createKeys", "deleteDuplicates"},
           \A s \in Gone(R.todo, k) : s.do # "createIndexes"
    PROVE  Fine(d, d, R, Advanced(R, k), f)
<1> DEFINE P == Advanced(R, k)
<1>1. OnlyAt(P, do, T) BY OnlyAfter
<1>2. ToSet(P.todo) = ToSet(R.todo) \ Gone(R.todo, k) BY Moves
<1>3. DbShape(d) /\ Grown(d, d, f) BY GrownItself DEF DbOK
<1> HIDE DEF P
<1>4. \A t : /\ At(P, "createControl", t) => do = "hasControl" /\ t = T
             /\ At(P, "createTable", t) => do = "hasTable" /\ t = T
             /\ ~At(P, "createKeys", t)
             /\ At(P, "insertAttempts", t) => do = "countAttempts" /\ t = T
             /\ At(P, "addColumn", t) => do = "hasColumn" /\ t = T
             /\ ~At(P, "findDuplicates", t)
             /\ ~At(P, "deleteDuplicates", t)
  <2>1. \A t : /\ At(P, "createControl", t) => do = "hasControl" /\ t = T
               /\ At(P, "createTable", t) => do = "hasTable" /\ t = T
               /\ At(P, "createKeys", t) => do = "createTable" /\ t = T
               /\ At(P, "insertAttempts", t) => do = "countAttempts" /\ t = T
               /\ At(P, "addColumn", t) => do = "hasColumn" /\ t = T
               /\ At(P, "findDuplicates", t) => do = "fillContexts" /\ t = T
               /\ At(P, "deleteDuplicates", t) => do = "updateKept" /\ t = T
    BY <1>1, OnlyRun
  <2> QED BY <2>1
<1>5. Asserted(d, P, f) BY <1>4 DEF Asserted
<1>6. ASSUME Quiet(d, R) PROVE Quiet(d, P)
  <2>1. Ahead(P) \cap d.recorded = {} BY <1>2, <1>6 DEF Quiet, Ahead
  <2>2. At(P, "createControl", "control") => ~d.control BY <1>4
  <2>3. \A t \in Tables : At(P, "createTable", t) => d.tables[t] = NoTable BY <1>4
  <2>4. \A t \in Tables : ~At(P, "createKeys", t) BY <1>4
  <2>5. At(P, "insertAttempts", "transactionAttempts") => \A p \in d.payments : d.attempts[p] = 0 BY <1>4
  <2>6. \A t \in DOMAIN NewColumn : At(P, "addColumn", t) => NewColumn[t] \notin d.tables[t].columns BY <1>4
  <2> QED BY <2>1, <2>2, <2>3, <2>4, <2>5, <2>6 DEF Quiet
<1>7. ASSUME Settled(d, R, f) PROVE Settled(d, P, f)
  <2>1. ~At(P, "deleteDuplicates", "rateLimits") BY <1>4
  <2> QED BY <1>3, <1>7, <2>1, StillSettled DEF P
<1>8. Fine(d, d, R, Advanced(R, k), f)
  <2>1. Asserted(d, Advanced(R, k), f) BY <1>5 DEF P
  <2>2. Quiet(d, R) => Quiet(d, Advanced(R, k)) BY <1>6 DEF P
  <2>3. Settled(d, R, f) => Settled(d, Advanced(R, k), f) BY <1>7 DEF P
  <2> QED BY <1>3, <2>1, <2>2, <2>3, MovesFine
<1> QED BY <1>8

(* The statements of a run that go together.                                *)
LEMMA LedBy ==
    ASSUME NEW R, NEW c, RunOK(R, c), R.todo # <<>>, R.todo[1].do \in DOMAIN Leads
    PROVE  2 \in 1..Len(R.todo) /\ R.todo[2] = Statement(Leads[R.todo[1].do], R.todo[1].table)
<1>1. Led(R.todo) /\ DOMAIN R.todo = 1..Len(R.todo) /\ R.todo \in Seq(AllStatements) /\ Len(R.todo) \in Nat
  BY TodoIsOf
<1>2. 1 \in DOMAIN R.todo
  <2> DEFINE q == R.todo
  <2>1. q \in Seq(AllStatements) /\ q # <<>> /\ DOMAIN q = 1..Len(q) BY <1>1
  <2> HIDE DEF q
  <2>2. 1 \in DOMAIN q BY <2>1
  <2> QED BY <2>2 DEF q
<1>3. 1 + 1 = 2 OBVIOUS
<1> QED BY <1>1, <1>2, <1>3 DEF Led

LEMMA LedByBoth ==
    ASSUME NEW R, NEW c, RunOK(R, c), R.todo # <<>>, R.todo[1].do \in {"hasTable", "findDuplicates"}
    PROVE  /\ 2 \in 1..Len(R.todo) /\ 3 \in 1..Len(R.todo)
           /\ R.todo[2] = Statement(Leads[R.todo[1].do], R.todo[1].table)
           /\ R.todo[3] = Statement(Leads[R.todo[2].do], R.todo[1].table)
<1>1. R.todo[1].do \in DOMAIN Leads /\ Leads[R.todo[1].do] \in DOMAIN Leads BY LeadsTo
<1>2. 2 \in 1..Len(R.todo) /\ R.todo[2] = Statement(Leads[R.todo[1].do], R.todo[1].table) BY <1>1, LedBy
<1>3. R.todo[2].do \in DOMAIN Leads /\ R.todo[2].table = R.todo[1].table BY <1>1, <1>2 DEF Statement
<1>4. Led(R.todo) /\ DOMAIN R.todo = 1..Len(R.todo) BY TodoIsOf
<1>5. 2 + 1 = 3 OBVIOUS
<1> QED BY <1>2, <1>3, <1>4, <1>5 DEF Led

Plain == {"hasTable", "createTable", "createKeys", "checkIdentifiers", "countAttempts", "insertAttempts", "addKey",
          "requireTable", "fillContexts", "findDuplicates", "updateKept", "deleteDuplicates",
          "addKeyInSavepoint", "hasColumn", "addColumn", "record"}

(* What names the next statement, and of which run it is.                   *)
LEMMA SubjectIs ==
    ASSUME IInv, NEW r \in Runner, NEW do, Ready(r, do)
    PROVE  LET R == runner[r] IN
           /\ Subject(r) \in TableOfVerb(do)
           /\ do \in {"createIfNotExists", "assertColumnsExist", "createIndexes"} =>
                R.adapter = "drizzle" /\ R.todo \in Seq(DrizzleStatements)
           /\ do \in Plain => R.adapter = "knex" /\ R.todo[1] \in KnexStatements
                              /\ R.todo \in Seq(KnexStatements) /\ Select \notin ToSet(R.todo)
           /\ do \in {"hasControl", "createControl", "selectExecuted"} =>
                R.adapter = "knex" /\ R.todo \in Seq(Preparing) /\ Select \in ToSet(R.todo)
<1> DEFINE R == runner[r]
           s == R.todo[1]
<1>1. /\ RunOK(R, client) /\ R.todo[1] = Statement(do, Subject(r)) /\ Subject(r) = R.todo[1].table
      /\ R.todo[1] \in ToSet(R.todo) /\ R.todo[1] \in AllStatements
  BY SendsNext
<1>2. s.do = do /\ s.table = Subject(r) /\ s \in Proper BY <1>1, AllProper DEF Statement
<1>3. Subject(r) \in TableOfVerb(do) BY <1>2 DEF Proper
<1>4. R.adapter \in {"knex", "drizzle"} BY <1>1 DEF RunOK
<1>5. /\ R.adapter = "drizzle" => R.todo \in Seq(DrizzleStatements)
      /\ R.adapter = "knex" /\ Select \in ToSet(R.todo) => R.todo \in Seq(Preparing)
      /\ R.adapter = "knex" /\ Select \notin ToSet(R.todo) => R.todo \in Seq(KnexStatements)
  <2> HIDE DEF R
  <2> QED BY <1>1, TodoIsOf
<1>6. /\ R.adapter = "drizzle" => s \in DrizzleStatements
      /\ R.adapter = "knex" /\ Select \in ToSet(R.todo) => s \in Preparing
      /\ R.adapter = "knex" /\ Select \notin ToSet(R.todo) => s \in KnexStatements
  BY <1>1, <1>5, Within
<1>7. /\ s \in DrizzleStatements => do \in {"createIfNotExists", "assertColumnsExist", "createIndexes"}
      /\ s \in Preparing => do \in {"hasControl", "createControl", "selectExecuted"}
      /\ s \in KnexStatements => do \notin {"createIfNotExists", "assertColumnsExist", "createIndexes",
                                            "hasControl", "createControl", "selectExecuted"}
  BY <1>2, VerbsOf
<1> HIDE DEF s, R
<1>8. do \in {"createIfNotExists", "assertColumnsExist", "createIndexes"} => R.adapter = "drizzle"
  BY <1>4, <1>6, <1>7
<1>9. do \in Plain => R.adapter = "knex" /\ Select \notin ToSet(R.todo) BY <1>4, <1>6, <1>7 DEF Plain
<1>10. do \in {"hasControl", "createControl", "selectExecuted"} => R.adapter = "knex" /\ Select \in ToSet(R.todo)
  BY <1>4, <1>6, <1>7
<1> QED BY <1>3, <1>5, <1>6, <1>8, <1>9, <1>10 DEF R, s

(* The statements skipped, or the one that is answered without a change.    *)
LEMMA StillHolds ==
    ASSUME IInv, NEW r \in Runner, NEW next, Ready(r, next), NEW n \in {0, 1, 2}, Proceed(r, n),
           db' = db, Kept,
           n + 1 \in 1..Len(runner[r].todo), NEW do, NEW T, runner[r].todo[n + 1] = Statement(do, T),
           Effects(db, Gone(runner[r].todo, n + 1)),
           \A s \in Gone(runner[r].todo, n + 1) : s.do # "selectExecuted" /\ s.do # "createIndexes",
           next \notin {"createKeys", "deleteDuplicates"},
           do \notin {"createTable", "fillContexts", "updateKept"},
           do = "hasControl" => ~db.control,
           do = "hasTable" => db.tables[T] = NoTable,
           do = "countAttempts" => \A p \in db.payments : db.attempts[p] = 0,
           do = "hasColumn" => NewColumn[T] \notin db.tables[T].columns
    PROVE  IInv'
<1> DEFINE R == runner[r]
<1>1. /\ RunOK(R, client) /\ R.phase = "running" /\ R.todo[1] = Statement(next, Subject(r))
      /\ DbOK(db, first) /\ Holds(db, R, first)
  BY SendsNext
<1>2. Select \notin Gone(R.todo, n + 1)
  <2>1. Select.do = "selectExecuted" BY DEF Select, Statement
  <2> QED BY <2>1
<1>3. R.todo[1].do \notin {"createKeys", "deleteDuplicates"}
  <2>1. R.todo[1].do = next BY <1>1 DEF Statement
  <2> QED BY <2>1
<1>4. /\ n \in Nat /\ n + 1 \in 1..Len(R.todo) /\ R.todo[n + 1] = Statement(do, T)
      /\ Effects(db, Gone(R.todo, n + 1)) /\ \A s \in Gone(R.todo, n + 1) : s.do # "createIndexes"
  OBVIOUS
<1>5. Fine(db, db, R, Advanced(R, n + 1), first)
  <2> DEFINE k == n + 1
  <2>1. /\ k \in 1..Len(R.todo) /\ R.todo[k] = Statement(do, T)
        /\ Effects(db, Gone(R.todo, k)) /\ \A s \in Gone(R.todo, k) : s.do # "createIndexes"
        /\ Select \notin Gone(R.todo, k)
    BY <1>2, <1>4
  <2> HIDE DEF R, k
  <2>2. Fine(db, db, R, Advanced(R, k), first) BY <1>1, <1>3, <2>1, StillFine
  <2> QED BY <2>2 DEF k
<1>6. Fine(db, db', R, Advanced(R, n + 1), first) BY <1>5
<1> QED BY <1>2, <1>4, <1>6, ProceedHolds

(* The first statement goes alone.                                          *)
LEMMA StillOne ==
    ASSUME IInv, NEW r \in Runner, NEW do, Ready(r, do), Proceed(r, 0), db' = db, Kept,
           Effects(db, {Statement(do, Subject(r))}),
           do \notin {"createKeys", "deleteDuplicates", "selectExecuted", "createIndexes",
                      "createTable", "fillContexts", "updateKept"},
           do = "hasControl" => ~db.control,
           do = "hasTable" => db.tables[Subject(r)] = NoTable,
           do = "countAttempts" => \A p \in db.payments : db.attempts[p] = 0,
           do = "hasColumn" => NewColumn[Subject(r)] \notin db.tables[Subject(r)].columns
    PROVE  IInv'
<1> DEFINE q == runner[r].todo
<1>1. Len(q) \in Nat /\ Len(q) >= 1 /\ q[1] = Statement(do, Subject(r)) BY SendsNext
<1>2. Gone(q, 1) = {Statement(do, Subject(r))} BY <1>1, GoneAre
<1>3. \A s \in Gone(q, 1) : s.do # "selectExecuted" /\ s.do # "createIndexes" BY <1>2 DEF Statement
<1>4. 0 + 1 = 1 /\ 1 \in 1..Len(q) /\ 0 \in {0, 1, 2} BY <1>1
<1>5. Effects(db, Gone(q, 1)) BY <1>2
<1>6. /\ 0 + 1 \in 1..Len(q) /\ q[0 + 1] = Statement(do, Subject(r)) /\ Effects(db, Gone(q, 0 + 1))
      /\ \A s \in Gone(q, 0 + 1) : s.do # "selectExecuted" /\ s.do # "createIndexes"
  BY <1>1, <1>3, <1>4, <1>5
<1> QED BY <1>4, <1>6, StillHolds

LEMMA FailsAsWell ==
    ASSUME IInv, NEW r \in Runner, NEW do, Ready(r, do), Fail(r)
    PROVE  IInv'
<1>1. Running(r) /\ DbOK(db, first) /\ \A s \in Other(r) : Running(s) => ~Transactional(s) BY SendsNext
<1>2. Grown(db, db, first) BY <1>1, GrownItself DEF DbOK
<1>3. FailLeaving(r, db) BY DEF Fail
<1> QED BY <1>1, <1>2, <1>3, FailHolds

LEMMA RefusedHolds ==
    ASSUME IInv, NEW r \in Runner, Refused(r)
    PROVE  IInv'
<1>1. Running(r) /\ runner[r].aborted /\ FailLeaving(r, db) BY DEF Refused, Fail
<1>2. Transactional(r) BY <1>1 DEF IInv, AbortedHasCause
<1>3. DbOK(db, first) BY DEF IInv
<1>4. Grown(db, db, first) BY <1>3, GrownItself DEF DbOK
<1> QED BY <1>1, <1>2, <1>3, <1>4, FailHolds

LEMMA HasControlHolds ==
    ASSUME IInv, NEW r \in Runner, HasControl(r)
    PROVE  IInv'
<1> DEFINE q == runner[r].todo
<1>1. Ready(r, "hasControl") /\ db' = db /\ Kept BY DEF HasControl
<1>2. CASE ~db.control
  <2>1. Proceed(r, 0) BY <1>2 DEF HasControl
  <2>2. Effects(db, {Statement("hasControl", Subject(r))})
    <3>1. \A s \in {Statement("hasControl", Subject(r))} : s.do \notin Telling BY DEF Statement, Telling
    <3> QED BY <3>1, EffectsNone
  <2> QED BY <1>1, <1>2, <2>1, <2>2, StillOne
<1>3. CASE db.control
  <2>1. Proceed(r, 1) BY <1>3 DEF HasControl
  <2>2. RunOK(runner[r], client) /\ q[1] = Statement("hasControl", Subject(r)) /\ q # <<>>
    BY <1>1, SendsNext DEF Ready
  <2>3. q[1].do = "hasControl" /\ q[1].table = Subject(r) BY <2>2 DEF Statement
  <2>4. 2 \in 1..Len(q) /\ q[2] = Statement("createControl", Subject(r)) BY <2>2, <2>3, LedBy, LeadsTo
  <2>5. Gone(q, 2) = {Statement("hasControl", Subject(r)), Statement("createControl", Subject(r))}
    BY <2>2, <2>4, GoneAre
  <2>6. \A s \in Gone(q, 2) : s.do \in {"hasControl", "createControl"} BY <2>5 DEF Statement
  <2>7. Effects(db, Gone(q, 2)) BY <2>6, EffectsNone DEF Telling
  <2>8. 1 + 1 = 2 /\ 1 \in {0, 1, 2} OBVIOUS
  <2>9. \A s \in Gone(q, 2) : s.do # "selectExecuted" /\ s.do # "createIndexes" BY <2>6
  <2> QED BY <1>1, <2>1, <2>4, <2>7, <2>8, <2>9, StillHolds
<1> QED BY <1>2, <1>3

LEMMA HasTableHolds ==
    ASSUME IInv, NEW r \in Runner, HasTable(r)
    PROVE  IInv'
<1> DEFINE q == runner[r].todo
           T == Subject(r)
<1>1. Ready(r, "hasTable") /\ db' = db /\ Kept BY DEF HasTable
<1>2. CASE db.tables[T] = NoTable
  <2>1. Proceed(r, 0) BY <1>2 DEF HasTable, Exists
  <2>2. Effects(db, {Statement("hasTable", T)})
    <3>1. \A s \in {Statement("hasTable", T)} : s.do \notin Telling BY DEF Statement, Telling
    <3> QED BY <3>1, EffectsNone
  <2> QED BY <1>1, <1>2, <2>1, <2>2, StillOne
<1>3. CASE db.tables[T] # NoTable
  <2>1. Proceed(r, 2) BY <1>3 DEF HasTable, Exists
  <2>2. RunOK(runner[r], client) /\ q[1] = Statement("hasTable", T) /\ q # <<>> /\ DbOK(db, first)
    BY <1>1, SendsNext DEF Ready
  <2>3. q[1].do = "hasTable" /\ q[1].table = T BY <2>2 DEF Statement
  <2>4. 2 \in 1..Len(q) /\ q[2] = Statement("createTable", T) /\ 3 \in 1..Len(q)
        /\ q[3] = Statement(Leads[q[2].do], T)
    BY <2>2, <2>3, LedByBoth, LeadsTo
  <2>5. q[3] = Statement("createKeys", T)
    <3>1. q[2].do = "createTable" BY <2>4 DEF Statement
    <3> QED BY <2>4, <3>1, LeadsTo
  <2>6. Gone(q, 3) = {Statement("hasTable", T), Statement("createTable", T), Statement("createKeys", T)}
    BY <2>2, <2>4, <2>5, GoneAre
  <2>7. \A s \in Gone(q, 3) : s.do \in {"hasTable", "createTable", "createKeys"} /\ s.table = T
    BY <2>6 DEF Statement
  <2>8. Effects(db, Gone(q, 3))
    <3>1. T \in Tables BY <1>1, SubjectIs DEF TableOfVerb
    <3>2. KnexTable[T].columns \subseteq db.tables[T].columns BY <1>3, <2>2, <3>1 DEF DbOK, TablesMade
    <3>3. \A do \in Telling \ {"createTable"} : \A t : Statement(do, t) \notin Gone(q, 3)
      BY <2>7 DEF Statement, Telling
    <3>4. \A t : Statement("createTable", t) \in Gone(q, 3) => t = T BY <2>7 DEF Statement
    <3> QED BY <3>2, <3>3, <3>4 DEF Effects, Telling
  <2>9. 2 + 1 = 3 /\ 2 \in {0, 1, 2} OBVIOUS
  <2>10. \A s \in Gone(q, 3) : s.do # "selectExecuted" /\ s.do # "createIndexes" BY <2>7
  <2> QED BY <1>1, <2>1, <2>4, <2>5, <2>8, <2>9, <2>10, StillHolds
<1> QED BY <1>2, <1>3

LEMMA CheckIdentifiersHolds ==
    ASSUME IInv, NEW r \in Runner, CheckIdentifiers(r)
    PROVE  IInv'
<1>1. Ready(r, "checkIdentifiers") BY DEF CheckIdentifiers
<1>2. CASE db.sharedRef BY <1>1, <1>2, FailsAsWell DEF CheckIdentifiers
<1>3. CASE ~db.sharedRef
  <2>1. db' = db /\ Proceed(r, 0) /\ Kept BY <1>3 DEF CheckIdentifiers, Done
  <2>2. \A s \in {Statement("checkIdentifiers", Subject(r))} : s.do \notin Telling BY DEF Statement, Telling
  <2> QED BY <1>1, <2>1, <2>2, EffectsNone, StillOne
<1> QED BY <1>2, <1>3

LEMMA CountAttemptsHolds ==
    ASSUME IInv, NEW r \in Runner, CountAttempts(r)
    PROVE  IInv'
<1> DEFINE q == runner[r].todo
           T == Subject(r)
<1>1. Ready(r, "countAttempts") /\ db' = db /\ Kept BY DEF CountAttempts
<1>2. /\ RunOK(runner[r], client) /\ q[1] = Statement("countAttempts", T) /\ q # <<>> /\ DbOK(db, first)
  BY <1>1, SendsNext DEF Ready
<1>3. CASE \A p \in db.payments : db.attempts[p] = 0
  <2>1. ~\E p \in db.payments : db.attempts[p] > 0 BY <1>3
  <2>2. Proceed(r, 0) BY <2>1 DEF CountAttempts
  <2>3. \A s \in {Statement("countAttempts", T)} : s.do \notin Telling BY DEF Statement, Telling
  <2> QED BY <1>1, <1>3, <2>2, <2>3, EffectsNone, StillOne
<1>4. CASE ~\A p \in db.payments : db.attempts[p] = 0
  <2>1. \A p \in db.payments : db.attempts[p] \in Nat BY <1>2 DEF DbOK, DbShape
  <2>2. PICK p \in db.payments : db.attempts[p] > 0 BY <1>4, <2>1
  <2>3. Proceed(r, 1) BY <2>2 DEF CountAttempts
  <2>4. \A o \in db.payments : db.attempts[o] >= 1
    <3>1. \A o \in db.payments : db.attempts[o] = db.attempts[p] BY <1>2, <2>2 DEF DbOK, RowsMade
    <3> QED BY <2>1, <2>2, <3>1
  <2>5. q[1].do = "countAttempts" /\ q[1].table = T BY <1>2 DEF Statement
  <2>6. 2 \in 1..Len(q) /\ q[2] = Statement("insertAttempts", T) BY <1>2, <2>5, LedBy, LeadsTo
  <2>7. Gone(q, 2) = {Statement("countAttempts", T), Statement("insertAttempts", T)}
    BY <1>2, <2>6, GoneAre
  <2>8. \A s \in Gone(q, 2) : s.do \in {"countAttempts", "insertAttempts"} BY <2>7 DEF Statement
  <2>9. \A do \in Telling \ {"insertAttempts"} : \A t : Statement(do, t) \notin Gone(q, 2)
    BY <2>8 DEF Statement, Telling
  <2>10. Effects(db, Gone(q, 2)) BY <2>4, <2>9 DEF Effects, Telling
  <2>11. 1 + 1 = 2 /\ 1 \in {0, 1, 2} OBVIOUS
  <2>12. \A s \in Gone(q, 2) : s.do # "selectExecuted" /\ s.do # "createIndexes" BY <2>8
  <2> QED BY <1>1, <2>3, <2>6, <2>10, <2>11, <2>12, StillHolds
<1> QED BY <1>3, <1>4

(* A table is there when its column or its key is to be added.              *)
LEMMA TableIsThere ==
    ASSUME NEW R, NEW c, RunOK(R, c), R.adapter = "knex", R.todo # <<>>, R.todo[1] \in KnexStatements,
           Rank(R.todo[1]) >= 500, NEW d, NEW f, Holds(d, R, f), NEW T \in Tables
    PROVE  KnexTable[T].columns \subseteq d.tables[T].columns /\ d.tables[T] # NoTable
<1> DEFINE s == Statement("createTable", T)
<1>1. Home[T] \in Migration BY TheTables DEF Home, Migration
<1>2. s \in KnexStatements BY <1>1, TriplesIn DEF KnexStatements
<1>3. Rank(s) = Base[T] + 2 /\ Base[T] \in Int /\ Base[T] <= 410 BY Ranks
<1>4. Rank(R.todo[1]) \in Int BY AllRanked DEF AllStatements
<1>5. Rank(s) < Rank(R.todo[1]) BY <1>3, <1>4
<1>6. s \in Passed(R) BY <1>2, <1>5, SentBefore
<1>7. KnexTable[T].columns \subseteq d.tables[T].columns BY <1>6 DEF Holds, Effects
<1> QED BY <1>7, AnExistingTable

LEMMA RequireTableHolds ==
    ASSUME IInv, NEW r \in Runner, RequireTable(r)
    PROVE  IInv'
<1> DEFINE R == runner[r]
           T == Subject(r)
<1>1. Ready(r, "requireTable") /\ db' = db /\ Kept BY DEF RequireTable
<1>2. /\ RunOK(R, client) /\ R.todo[1] = Statement("requireTable", T) /\ R.todo # <<>> /\ Holds(db, R, first)
  BY <1>1, SendsNext DEF Ready
<1>3. T \in DOMAIN Required /\ R.adapter = "knex" /\ R.todo[1] \in KnexStatements
  BY <1>1, SubjectIs DEF TableOfVerb, Plain
<1>4. Rank(R.todo[1]) >= 500 /\ T \in Tables
  <2>1. \A t \in DOMAIN Required : Required[t] \in Int /\ Required[t] >= 500 /\ t \in Tables
    BY TheTables DEF Required
  <2>2. Rank(Statement("requireTable", T)) = Required[T] BY <1>3, Ranks
  <2> QED BY <1>2, <1>3, <2>1, <2>2
<1>5. db.tables[T] # NoTable
  <2> HIDE DEF R, T
  <2> QED BY <1>2, <1>3, <1>4, TableIsThere
<1>6. Proceed(r, 0) BY <1>5 DEF RequireTable, Exists
<1>7. \A s \in {Statement("requireTable", T)} : s.do \notin Telling BY DEF Statement, Telling
<1> QED BY <1>1, <1>6, <1>7, EffectsNone, StillOne

LEMMA HasColumnHolds ==
    ASSUME IInv, NEW r \in Runner, HasColumn(r)
    PROVE  IInv'
<1> DEFINE q == runner[r].todo
           T == Subject(r)
<1>1. Ready(r, "hasColumn") /\ db' = db /\ Kept BY DEF HasColumn
<1>2. /\ RunOK(runner[r], client) /\ q[1] = Statement("hasColumn", T) /\ q # <<>>
  BY <1>1, SendsNext DEF Ready
<1>3. CASE NewColumn[T] \notin db.tables[T].columns
  <2>1. Proceed(r, 0) BY <1>3 DEF HasColumn
  <2>2. \A s \in {Statement("hasColumn", T)} : s.do \notin Telling BY DEF Statement, Telling
  <2> QED BY <1>1, <1>3, <2>1, <2>2, EffectsNone, StillOne
<1>4. CASE NewColumn[T] \in db.tables[T].columns
  <2>1. q[1].do = "hasColumn" /\ q[1].table = T BY <1>2 DEF Statement
  <2>2. 2 \in 1..Len(q) /\ q[2] = Statement("addColumn", T) BY <1>2, <2>1, LedBy, LeadsTo
  <2>3. 3 \in DOMAIN q /\ q[3].do = "record"
    <3>1. Led(q) /\ DOMAIN q = 1..Len(q) BY <1>2, TodoIsOf
    <3>2. q[2].do = "addColumn" BY <2>2 DEF Statement
    <3>3. 2 + 1 = 3 OBVIOUS
    <3> QED BY <2>2, <3>1, <3>2, <3>3 DEF Led
  <2> DEFINE I == {i \in DOMAIN q : q[i].do = "record"}
  <2>4. Min(I) = 3
    <3>1. 3 \in I BY <2>3
    <3>2. DOMAIN q = 1..Len(q) /\ Len(q) \in Nat BY <1>2, TodoIsOf
    <3>3. 1 \notin I /\ 2 \notin I BY <2>1, <2>2 DEF Statement
    <3>4. I \subseteq Nat \ {0} BY <3>2
    <3> HIDE DEF I
    <3>5. \A i \in I : i \in Nat /\ 3 <= i BY <3>3, <3>4
    <3> QED BY <3>1, <3>5 DEF Min
  <2>5. Proceed(r, 1)
    <3>1. Proceed(r, Min(I) - 2) BY <1>4 DEF HasColumn, Return
    <3>2. 3 - 2 = 1 OBVIOUS
    <3> QED BY <2>4, <3>1, <3>2
  <2>6. Gone(q, 2) = {Statement("hasColumn", T), Statement("addColumn", T)} BY <1>2, <2>2, GoneAre
  <2>7. \A s \in Gone(q, 2) : s.do \in {"hasColumn", "addColumn"} /\ s.table = T BY <2>6 DEF Statement
  <2>8. \A do \in Telling \ {"addColumn"} : \A t : Statement(do, t) \notin Gone(q, 2)
    BY <2>7 DEF Statement, Telling
  <2>9. \A t : Statement("addColumn", t) \in Gone(q, 2) => t = T BY <2>7 DEF Statement
  <2>10. Effects(db, Gone(q, 2)) BY <1>4, <2>8, <2>9 DEF Effects, Telling
  <2>11. 1 + 1 = 2 /\ 1 \in {0, 1, 2} OBVIOUS
  <2>12. \A s \in Gone(q, 2) : s.do # "selectExecuted" /\ s.do # "createIndexes" BY <2>7
  <2> QED BY <1>1, <2>2, <2>5, <2>10, <2>11, <2>12, StillHolds
<1> QED BY <1>3, <1>4

LEMMA FindDuplicatesHolds ==
    ASSUME IInv, NEW r \in Runner, FindDuplicates(r)
    PROVE  IInv'
<1> DEFINE q == runner[r].todo
           T == Subject(r)
<1>1. Ready(r, "findDuplicates") /\ db' = db /\ Kept BY DEF FindDuplicates
<1>2. /\ RunOK(runner[r], client) /\ q[1] = Statement("findDuplicates", T) /\ q # <<>> /\ DbOK(db, first)
      /\ Holds(db, runner[r], first)
  BY <1>1, SendsNext DEF Ready
<1>3. CASE DuplicateLimits
  <2>1. Proceed(r, 0) BY <1>3 DEF FindDuplicates
  <2>2. \A s \in {Statement("findDuplicates", T)} : s.do \notin Telling BY DEF Statement, Telling
  <2> QED BY <1>1, <2>1, <2>2, EffectsNone, StillOne
<1>4. CASE ~DuplicateLimits
  <2>1. Proceed(r, 2) BY <1>4 DEF FindDuplicates
  <2>2. T = "rateLimits" BY <1>1, SubjectIs DEF TableOfVerb
  <2>3. NoContext(db) BY <1>2, <2>2 DEF Holds, Asserted, At
  <2>4. Len(db.limits) <= 1
    <3>1. Len(db.limits) \in Nat /\ DOMAIN db.limits = 1..Len(db.limits)
      BY <1>2, LimitsAre DEF DbOK, DbShape
    <3>2. \A i, j \in DOMAIN db.limits : i = j
      BY <1>4, <2>3 DEF DuplicateLimits, NoContext
    <3>3. Len(db.limits) >= 2 => 1 \in DOMAIN db.limits /\ 2 \in DOMAIN db.limits BY <3>1
    <3> QED BY <3>1, <3>2, <3>3
  <2>5. q[1].do = "findDuplicates" /\ q[1].table = T BY <1>2 DEF Statement
  <2>6. 2 \in 1..Len(q) /\ q[2] = Statement("updateKept", T) /\ 3 \in 1..Len(q)
        /\ q[3] = Statement(Leads[q[2].do], T)
    BY <1>2, <2>5, LedByBoth, LeadsTo
  <2>7. q[3] = Statement("deleteDuplicates", T)
    <3>1. q[2].do = "updateKept" BY <2>6 DEF Statement
    <3> QED BY <2>6, <3>1, LeadsTo
  <2>8. Gone(q, 3) = {Statement("findDuplicates", T), Statement("updateKept", T),
                      Statement("deleteDuplicates", T)}
    BY <1>2, <2>6, <2>7, GoneAre
  <2>9. \A s \in Gone(q, 3) : s.do \in {"findDuplicates", "updateKept", "deleteDuplicates"}
    BY <2>8 DEF Statement
  <2>10. \A do \in Telling \ {"deleteDuplicates"} : \A t : Statement(do, t) \notin Gone(q, 3)
    BY <2>9 DEF Statement, Telling
  <2>11. Effects(db, Gone(q, 3)) BY <2>4, <2>10 DEF Effects, Telling
  <2>12. 2 + 1 = 3 /\ 2 \in {0, 1, 2} OBVIOUS
  <2>13. \A s \in Gone(q, 3) : s.do # "selectExecuted" /\ s.do # "createIndexes" BY <2>9
  <2> QED BY <1>1, <2>1, <2>6, <2>7, <2>11, <2>12, <2>13, StillHolds
<1> QED BY <1>3, <1>4

(* With fewer than two rows, neither the update nor the deletion is sent.   *)
LEMMA FewRowsHold ==
    ASSUME IInv, NEW r \in Runner, UpdateKept(r), Len(db.limits) < 2
    PROVE  IInv'
<1> DEFINE q == runner[r].todo
           T == Subject(r)
<1>1. Ready(r, "updateKept") /\ db' = db /\ Kept /\ Proceed(r, 1) BY DEF UpdateKept
<1>2. /\ RunOK(runner[r], client) /\ q[1] = Statement("updateKept", T) /\ q # <<>> /\ DbOK(db, first)
  BY <1>1, SendsNext DEF Ready
<1>3. Len(db.limits) <= 1
  <2>1. Len(db.limits) \in Nat BY <1>2, LimitsAre DEF DbOK, DbShape
  <2> QED BY <2>1
<1>4. q[1].do = "updateKept" /\ q[1].table = T BY <1>2 DEF Statement
<1>5. 2 \in 1..Len(q) /\ q[2] = Statement("deleteDuplicates", T) BY <1>2, <1>4, LedBy, LeadsTo
<1>6. Gone(q, 2) = {Statement("updateKept", T), Statement("deleteDuplicates", T)} BY <1>2, <1>5, GoneAre
<1>7. \A s \in Gone(q, 2) : s.do \in {"updateKept", "deleteDuplicates"} BY <1>6 DEF Statement
<1>8. \A do \in Telling \ {"deleteDuplicates"} : \A t : Statement(do, t) \notin Gone(q, 2)
  BY <1>7 DEF Statement, Telling
<1>9. Effects(db, Gone(q, 2)) BY <1>3, <1>8 DEF Effects, Telling
<1>10. 1 + 1 = 2 /\ 1 \in {0, 1, 2} OBVIOUS
<1>11. \A s \in Gone(q, 2) : s.do # "selectExecuted" /\ s.do # "createIndexes" BY <1>7
<1> QED BY <1>1, <1>5, <1>9, <1>10, <1>11, StillHolds

LEMMA AssertColumnsHolds ==
    ASSUME IInv, NEW r \in Runner, assertColumnsExist(r)
    PROVE  IInv'
<1> DEFINE T == Subject(r)
<1>1. Ready(r, "assertColumnsExist") BY DEF assertColumnsExist
<1>2. CASE ~(tableSpec[T].columns \subseteq db.tables[T].columns)
  BY <1>1, <1>2, FailsAsWell DEF assertColumnsExist
<1>3. CASE tableSpec[T].columns \subseteq db.tables[T].columns
  <2>1. db' = db /\ Proceed(r, 0) /\ Kept BY <1>3 DEF assertColumnsExist, Done
  <2> DEFINE S == {Statement("assertColumnsExist", T)}
  <2>2. \A do \in Telling \ {"assertColumnsExist"} : \A t : Statement(do, t) \notin S BY DEF Statement, Telling
  <2>3. \A t : Statement("assertColumnsExist", t) \in S => t = T BY DEF Statement
  <2>4. Effects(db, S)
    <3> HIDE DEF S
    <3> QED BY <1>3, <2>2, <2>3 DEF Effects, Telling
  <2> QED BY <1>1, <2>1, <2>4, StillOne
<1> QED BY <1>2, <1>3

(* The migration a statement belongs to.                                    *)
LEMMA OneMigration ==
    ASSUME NEW m \in Migration, NEW n \in Migration, NEW s \in Statements(m), s \in Statements(n)
    PROVE  m = n
<1> DEFINE h == 100 * n
<1>1. Rank(s) \in Int /\ 100 * n <= Rank(s) /\ Rank(s) <= 100 * n + 99 BY StatementsIn
<1> QED BY <1>1, ByRank

LEMMA BareScript ==
    ASSUME NEW P, NEW e, P.todo = Script(e), P.adapter = "knex"
    PROVE  /\ P.todo \in Seq(KnexStatements) /\ Select \notin ToSet(P.todo)
           /\ Sorted(P.todo) /\ Led(P.todo) /\ Bare(P) /\ Ahead(P) \cap e = {}
           /\ Passed(P) \subseteq UNION {Statements(m) : m \in Migration \cap e}
<1> DEFINE q == P.todo
<1>1. Part(q, 100, 900) /\ ToSet(q) = UNION {Statements(m) : m \in Migration \ e} BY ScriptIs
<1>2. /\ q \in Seq(Sentence) /\ Sorted(q) /\ Led(q)
      /\ 1 \in DOMAIN q => \A do \in DOMAIN Leads : q[1].do # Leads[do]
  BY <1>1 DEF Part
<1>3. ToSet(q) \subseteq KnexStatements BY <1>1 DEF KnexStatements
<1>4. q \in Seq(KnexStatements)
  <2> HIDE DEF q
  <2> QED BY <1>2, <1>3, Within
<1>5. Select \notin ToSet(q) BY <1>3, SelectIsNoMigration
<1>6. Bare(P)
  <2> SUFFICES ASSUME NEW do \in DOMAIN Leads, NEW t, At(P, Leads[do], t) PROVE FALSE BY DEF Bare
  <2>1. q # <<>> /\ q[1] = Statement(Leads[do], t) BY DEF At
  <2>2. 1 \in DOMAIN q
    <3> HIDE DEF q
    <3> QED BY <1>2, <2>1
  <2>3. q[1].do = Leads[do] BY <2>1 DEF Statement
  <2> QED BY <1>2, <2>2, <2>3
<1>7. \A m \in Ahead(P) : m \notin e
  <2> SUFFICES ASSUME NEW m \in Ahead(P) PROVE m \notin e OBVIOUS
  <2>1. m \in Migration /\ \E s \in Statements(m) : s \in ToSet(q) BY DEF Ahead
  <2>2. PICK s \in Statements(m) : s \in ToSet(q) BY <2>1
  <2>3. PICK n \in Migration \ e : s \in Statements(n) BY <1>1, <2>2
  <2>4. m = n BY <2>1, <2>2, <2>3, OneMigration
  <2> QED BY <2>3, <2>4
<1>8. Passed(P) = KnexStatements \ ToSet(q) BY <1>5 DEF Passed
<1>9. \A s \in Passed(P) : \E m \in Migration \cap e : s \in Statements(m)
  <2> SUFFICES ASSUME NEW s \in Passed(P) PROVE \E m \in Migration \cap e : s \in Statements(m) OBVIOUS
  <2>1. s \in KnexStatements /\ s \notin ToSet(q) BY <1>8
  <2>2. PICK m \in Migration : s \in Statements(m) BY <2>1 DEF KnexStatements
  <2>3. m \in e BY <1>1, <2>1, <2>2
  <2> QED BY <2>2, <2>3
<1> QED BY <1>2, <1>4, <1>5, <1>6, <1>7, <1>9

LEMMA SelectHolds ==
    ASSUME IInv, NEW r \in Runner, SelectExecuted(r)
    PROVE  IInv'
<1> DEFINE R == runner[r]
           P == [R EXCEPT !.todo = Script(db.recorded)]
<1>1. Ready(r, "selectExecuted") /\ db' = db /\ Kept /\ runner' = [runner EXCEPT ![r] = P]
  BY DEF SelectExecuted
<1>2. /\ RunOK(R, client) /\ R.phase = "running" /\ R.aborted = FALSE /\ Running(r)
      /\ R.todo[1] = Statement("selectExecuted", Subject(r))
      /\ DbOK(db, first) /\ Holds(db, R, first) /\ \A s \in Other(r) : Running(s) => ~Transactional(s)
  BY <1>1, SendsNext
<1>3. R.adapter = "knex" /\ R.todo \in Seq(Preparing) /\ Select \in ToSet(R.todo) BY <1>1, SubjectIs
<1>4. /\ DOMAIN P = RunFields /\ P.phase = "running" /\ P.adapter = "knex" /\ P.aborted = FALSE
      /\ P.alone = R.alone /\ P.before = R.before /\ P.restarts = R.restarts /\ P.todo = Script(db.recorded)
      /\ R.alone \in BOOLEAN /\ R.restarts \in Nat
  BY <1>2, <1>3 DEF RunOK, RunFields
<1> HIDE DEF P
<1>5. /\ P.todo \in Seq(KnexStatements) /\ Select \notin ToSet(P.todo)
      /\ Sorted(P.todo) /\ Led(P.todo) /\ Bare(P) /\ Ahead(P) \cap db.recorded = {}
      /\ Passed(P) \subseteq UNION {Statements(m) : m \in Migration \cap db.recorded}
  BY <1>4, BareScript
<1>6. RunOK(P, client)
  <2>1. TodoOK(P, client) BY <1>4, <1>5 DEF TodoOK
  <2> QED BY <1>4, <2>1 DEF RunOK
<1>7. Holds(db, P, first)
  <2>1. Effects(db, UNION {Statements(m) : m \in db.recorded}) BY <1>2 DEF DbOK
  <2>2. Passed(P) \subseteq UNION {Statements(m) : m \in db.recorded} BY <1>5
  <2>3. Effects(db, Passed(P)) BY <2>1, <2>2, EffectsOfFewer
  <2> QED BY <1>5, <2>3, BareRun DEF Holds
<1>8. Quiet(db, P) BY <1>5, BareRun
<1>9. ASSUME Settled(db, R, first) PROVE Settled(db, P, first)
  <2>1. \A t : ~At(R, "createKeys", t) /\ ~At(R, "deleteDuplicates", t) BY <1>2 DEF At, Statement
  <2>2. \A t : Statement("createIndexes", t) \notin ToSet(R.todo)
    <3>1. ToSet(R.todo) \subseteq Preparing
      <4> HIDE DEF R
      <4> QED BY <1>3, Within
    <3> QED BY <3>1, VerbsOf DEF Statement
  <2>3. db.keyless = {} BY <1>9, <2>1, <2>2 DEF Settled, Making
  <2>4. SumHits(db.limits) = SumHits(first.limits) BY <1>9, <2>1 DEF Settled
  <2>5. ~At(P, "deleteDuplicates", "rateLimits") BY <1>5, BareRun
  <2> QED BY <2>3, <2>4, <2>5 DEF Settled
<1>10. \A t : Statement("addKey", t) \notin Passed(R) BY <1>3 DEF Passed
<1>11. Grown(db, db, first) BY <1>2, GrownItself DEF DbOK
<1>12. Fine(db, db, R, P, first) BY <1>2, <1>7, <1>8, <1>9, <1>10, <1>11 DEF Fine
<1>13. P.aborted => Transactional(r) /\ KeyBefore(r) BY <1>4
<1>14. Fine(db, db', R, P, first) BY <1>1, <1>12
<1>15. P.adapter = runner[r].adapter /\ P.alone = runner[r].alone /\ P.before = runner[r].before
  BY <1>3, <1>4
<1> QED BY <1>1, <1>2, <1>4, <1>6, <1>13, <1>14, <1>15, AdvanceHolds

(* The key is there: on PostgreSQL, the transaction is lost.                *)
LEMMA KeyIsThere ==
    ASSUME IInv, NEW r \in Runner, AddKey(r), Has(Subject(r), NewKey[Subject(r)])
    PROVE  IInv'
<1> DEFINE R == runner[r]
           T == Subject(r)
           A == Advanced(R, 1)
           P == [A EXCEPT !.aborted = Transactional(r)]
<1>1. /\ Ready(r, "addKey") /\ db' = db /\ Kept
      /\ runner' = [runner EXCEPT ![r].todo = Tail(@), ![r].aborted = Transactional(r)]
  BY DEF AddKey
<1>2. /\ RunOK(R, client) /\ R.phase = "running" /\ R.aborted = FALSE /\ Running(r)
      /\ Len(R.todo) \in Nat /\ Len(R.todo) >= 1
      /\ R.todo[1] = Statement("addKey", T) /\ R.todo[1] \in ToSet(R.todo)
      /\ DbOK(db, first) /\ Holds(db, R, first) /\ \A s \in Other(r) : Running(s) => ~Transactional(s)
  BY <1>1, SendsNext
<1>3. T \in {"transactions", "requestMetadata"} /\ R.adapter = "knex" /\ Select \notin ToSet(R.todo)
      /\ R.todo \in Seq(KnexStatements)
  BY <1>1, SubjectIs DEF TableOfVerb, Plain
<1>4. Gone(R.todo, 1) = {Statement("addKey", T)} BY <1>2, GoneAre
<1>5. Select \notin Gone(R.todo, 1) BY <1>4 DEF Select, Statement
<1>6. 1 \in 1..Len(R.todo) BY <1>2
<1>7. /\ RunOK(A, client) /\ A.phase = "running" /\ A.adapter = R.adapter /\ A.aborted = R.aborted
      /\ A.alone = R.alone /\ A.before = R.before
  <2> HIDE DEF R
  <2> QED BY <1>2, <1>5, <1>6, Moves
<1>8. runner' = [runner EXCEPT ![r] = P]
  <2> DEFINE q == R.todo
  <2>1. Tail(q) = SubSeq(q, 1 + 1, Len(q))
    <3> HIDE DEF q
    <3> QED OBVIOUS
  <2>2. DOMAIN R = RunFields BY <1>2 DEF RunOK
  <2>3. P = [R EXCEPT !.todo = Tail(@), !.aborted = Transactional(r)] BY <2>1, <2>2 DEF Advanced, RunFields
  <2> QED BY <1>1, <2>3
<1>9. Effects(db, Gone(R.todo, 1))
  <2> DEFINE S == {Statement("addKey", T)}
  <2>1. \A do \in Telling \ {"addKey"} : \A t : Statement(do, t) \notin S BY DEF Statement, Telling
  <2>2. \A t : Statement("addKey", t) \in S => t = T BY DEF Statement
  <2>3. NewKey[T] \in db.tables[T].keys BY DEF Has
  <2>4. Effects(db, S)
    <3> HIDE DEF S
    <3> QED BY <2>1, <2>2, <2>3 DEF Effects, Telling
  <2> QED BY <1>4, <2>4
<1>10. Fine(db, db, R, A, first)
  <2>1. \A s \in Gone(R.todo, 1) : s.do # "createIndexes" BY <1>4 DEF Statement
  <2>2. R.todo[1].do = "addKey" BY <1>2 DEF Statement
  <2> HIDE DEF R
  <2> QED BY <1>2, <1>5, <1>6, <1>9, <2>1, <2>2, StillFine
<1>11. /\ P.adapter = A.adapter /\ P.phase = A.phase /\ P.todo = A.todo /\ P.alone = A.alone
       /\ P.before = A.before /\ P.aborted = Transactional(r) /\ DOMAIN P = RunFields
       /\ P.restarts = A.restarts /\ Transactional(r) \in BOOLEAN
  BY <1>7 DEF RunOK, RunFields, Transactional
<1> HIDE DEF P, A
<1>12. RunOK(P, client)
  <2>1. TodoOK(P, client) BY <1>7, <1>11 DEF RunOK, TodoOK
  <2> QED BY <1>7, <1>11, <2>1 DEF RunOK
<1>13. Fine(db, db, R, P, first)
  <2>1. Passed(P) = Passed(A) BY <1>11, SameScript
  <2>2. Holds(db, A, first) => Holds(db, P, first) BY <1>11, SameScript
  <2>3. Quiet(db, A) => Quiet(db, P) BY <1>11, SameScript
  <2>4. Settled(db, A, first) => Settled(db, P, first)
    <3>1. \A do, t : At(A, do, t) <=> At(P, do, t) BY <1>11 DEF At
    <3>2. \A t : Making(A, db, t) <=> Making(P, db, t) BY <1>11, <3>1 DEF Making
    <3> QED BY <3>1, <3>2 DEF Settled
  <2> HIDE DEF R
  <2> QED BY <1>10, <2>1, <2>2, <2>3, <2>4 DEF Fine
<1>14. ASSUME Transactional(r) PROVE KeyBefore(r)
  <2>1. Statement("addKey", T) \notin Passed(R) BY <1>2, <1>3 DEF Passed
  <2>2. NewKey[T] \in db.tables[T].keys BY DEF Has
  <2>3. /\ R.before.recorded \subseteq db.recorded
        /\ NewKey[T] \in R.before.tables[T].keys
    BY <1>2, <1>3, <1>14, <2>1, <2>2 DEF IInv, OneTransaction
  <2>4. Quiet(db, R) BY <1>2, <1>14 DEF IInv, Alone, Undisturbed
  <2>5. T = "transactions" => 3 \in Ahead(R)
    BY <1>2, EffectsIn DEF Ahead, Migration
  <2>6. T = "requestMetadata" => 8 \in Ahead(R)
    BY <1>2, EffectsIn DEF Ahead, Migration
  <2>7. Ahead(R) \cap R.before.recorded = {} BY <2>3, <2>4 DEF Quiet
  <2> QED BY <1>3, <2>3, <2>5, <2>6, <2>7 DEF KeyBefore
<1>15. P.aborted => Transactional(r) /\ KeyBefore(r)
  BY <1>11, <1>14
<1>16. Fine(db, db', R, P, first) BY <1>1, <1>13
<1>17. P.phase = "running" /\ P.adapter = runner[r].adapter /\ P.alone = runner[r].alone
       /\ P.before = runner[r].before
  BY <1>7, <1>11
<1> QED BY <1>1, <1>2, <1>8, <1>12, <1>15, <1>16, <1>17, AdvanceHolds

---------------------------------------------------------------------------
(* Statements that change the database.                                     *)

(* A statement is done, whatever it leads to.                               *)
LEMMA DoneHolds ==
    ASSUME IInv, NEW r \in Runner, NEW do, Ready(r, do), do # "selectExecuted",
           NEW e, Done(r, e), DbOK(e, first), Grown(db, e, first), Effects(e, {Statement(do, Subject(r))}),
           Asserted(e, Advanced(runner[r], 1), first),
           Quiet(db, runner[r]) => Quiet(e, Advanced(runner[r], 1)),
           Settled(db, runner[r], first) => Settled(e, Advanced(runner[r], 1), first),
           e.keyless \subseteq db.keyless \cup {t \in Tables : db.tables[t] = NoTable},
           runner[r].adapter = "knex" => \A t \in {"transactions", "requestMetadata"} :
             NewKey[t] \in e.tables[t].keys => NewKey[t] \in db.tables[t].keys \/ (do = "addKey" /\ t = Subject(r))
    PROVE  IInv'
<1> DEFINE R == runner[r]
           P == Advanced(R, 1)
<1>1. db' = e /\ Proceed(r, 0) /\ Kept BY DEF Done
<1>2. /\ RunOK(R, client) /\ R.phase = "running" /\ Len(R.todo) \in Nat /\ Len(R.todo) >= 1
      /\ R.todo[1] = Statement(do, Subject(r)) /\ R.todo[1] \in ToSet(R.todo)
      /\ DbOK(db, first) /\ Holds(db, R, first)
  BY SendsNext
<1>3. Gone(R.todo, 1) = {Statement(do, Subject(r))} /\ 1 \in 1..Len(R.todo) BY <1>2, GoneAre
<1>4. Select \notin Gone(R.todo, 1) BY <1>3 DEF Select, Statement
<1>5. R.adapter = "knex" => \A t \in {"transactions", "requestMetadata"} : NewKey[t] \in e.tables[t].keys =>
        NewKey[t] \in db.tables[t].keys \/ Statement("addKey", t) \in Passed(P)
  <2> SUFFICES ASSUME R.adapter = "knex", NEW t \in {"transactions", "requestMetadata"},
                      NewKey[t] \in e.tables[t].keys, NewKey[t] \notin db.tables[t].keys
               PROVE  Statement("addKey", t) \in Passed(P)
    OBVIOUS
  <2>1. do = "addKey" /\ t = Subject(r) OBVIOUS
  <2>2. Statement("addKey", t) \in Gone(R.todo, 1) BY <1>3, <2>1
  <2>3. Statement("addKey", t) \in KnexStatements BY EffectsIn DEF KnexStatements, Migration
  <2> HIDE DEF R
  <2> QED BY <1>2, <1>3, <1>4, <2>2, <2>3, SentIsPassed
<1>6. Effects(e, Gone(R.todo, 1)) BY <1>3
<1>7. Fine(db, e, R, P, first)
  <2>1. /\ Asserted(e, P, first) /\ (Quiet(db, R) => Quiet(e, P))
        /\ Settled(db, R, first) => Settled(e, P, first)
        /\ e.keyless \subseteq db.keyless \cup {t \in Tables : db.tables[t] = NoTable}
    OBVIOUS
  <2> HIDE DEF R
  <2> QED BY <1>2, <1>3, <1>4, <1>5, <1>6, <2>1, MovesFine
<1>8. Fine(db, db', R, Advanced(R, 0 + 1), first)
  <2>1. 0 + 1 = 1 OBVIOUS
  <2> QED BY <1>1, <1>7, <2>1
<1>9. 0 \in Nat /\ 0 + 1 \in 1..Len(R.todo) /\ Select \notin Gone(R.todo, 0 + 1)
  <2>1. 0 + 1 = 1 /\ 0 \in Nat OBVIOUS
  <2> QED BY <1>3, <1>4, <2>1
<1> QED BY <1>1, <1>8, <1>9, ProceedHolds

(* What the next statement is led to by.                                    *)
LEMMA SendsOnly ==
    ASSUME IInv, NEW r \in Runner, NEW do, Ready(r, do), do # "selectExecuted"
    PROVE  /\ OnlyAt(Advanced(runner[r], 1), do, Subject(r))
           /\ do \notin DOMAIN Leads => Bare(Advanced(runner[r], 1))
           /\ ToSet(Advanced(runner[r], 1).todo) = ToSet(runner[r].todo) \ {Statement(do, Subject(r))}
<1> DEFINE R == runner[r]
<1>1. /\ RunOK(R, client) /\ R.phase = "running" /\ Len(R.todo) \in Nat /\ Len(R.todo) >= 1
      /\ R.todo[1] = Statement(do, Subject(r))
  BY SendsNext
<1>2. Gone(R.todo, 1) = {Statement(do, Subject(r))} /\ 1 \in 1..Len(R.todo) BY <1>1, GoneAre
<1>3. Select \notin Gone(R.todo, 1) BY <1>2 DEF Select, Statement
<1> HIDE DEF R
<1>4. OnlyAt(Advanced(R, 1), do, Subject(r)) /\ (do \notin DOMAIN Leads => Bare(Advanced(R, 1)))
  BY <1>1, <1>2, <1>3, OnlyAfter
<1>5. ToSet(Advanced(R, 1).todo) = ToSet(R.todo) \ Gone(R.todo, 1) BY <1>1, <1>2, <1>3, Moves
<1> QED BY <1>2, <1>4, <1>5 DEF R

(* A statement that does not lead to another.                               *)
LEMMA BareDone ==
    ASSUME IInv, NEW r \in Runner, NEW do, Ready(r, do), do \notin DOMAIN Leads, do # "selectExecuted",
           NEW e, Done(r, e), DbOK(e, first), Grown(db, e, first), Effects(e, {Statement(do, Subject(r))}),
           Ahead(Advanced(runner[r], 1)) \cap e.recorded \subseteq Ahead(runner[r]) \cap db.recorded,
           Settled(db, runner[r], first) => Settled(e, Advanced(runner[r], 1), first),
           e.keyless \subseteq db.keyless \cup {t \in Tables : db.tables[t] = NoTable},
           runner[r].adapter = "knex" => \A t \in {"transactions", "requestMetadata"} :
             NewKey[t] \in e.tables[t].keys => NewKey[t] \in db.tables[t].keys \/ (do = "addKey" /\ t = Subject(r))
    PROVE  IInv'
<1> DEFINE P == Advanced(runner[r], 1)
<1>1. Bare(P) BY SendsOnly
<1>2. Asserted(e, P, first) BY <1>1, BareRun
<1>3. Quiet(db, runner[r]) => Quiet(e, P)
  <2>1. Quiet(db, runner[r]) => Ahead(runner[r]) \cap db.recorded = {} BY DEF Quiet
  <2>2. Quiet(db, runner[r]) => Ahead(P) \cap e.recorded = {} BY <2>1
  <2>3. Ahead(P) \cap e.recorded = {} => Quiet(e, P) BY <1>1, BareRun
  <2> QED BY <2>2, <2>3
<1> QED BY <1>2, <1>3, DoneHolds

LEMMA AheadFewer ==
    ASSUME IInv, NEW r \in Runner, NEW do, Ready(r, do), do # "selectExecuted"
    PROVE  Ahead(Advanced(runner[r], 1)) \subseteq Ahead(runner[r])
BY SendsOnly DEF Ahead

(* A table grows.                                                           *)
LEMMA WiderTable ==
    ASSUME NEW d, NEW f, DbOK(d, f), NEW t \in Tables, NEW columns, NEW keys, NEW K, NEW e,
           DOMAIN e = Fields, e.tables = [d.tables EXCEPT ![t] = TableOf(columns, keys)],
           e.keyless = K, K \subseteq Tables, \A u \in d.keyless : u # t => u \in K,
           e.recorded = d.recorded, e.payments = d.payments, e.attempts = d.attempts, e.limits = d.limits,
           d.tables[t].columns \subseteq columns, d.tables[t].keys \subseteq keys,
           KnexTable[t].columns \subseteq columns,
           t # "rateLimits" => KnexUniques(t) \subseteq keys \/ t \in K,
           t = "rateLimits" => KnexUniques(t) \subseteq keys \/ t \in K \/ OldLimits(d),
           t = "transactions" =>
             /\ "pos_id" \in columns => NewKey[t] \in keys \/ t \in K
             /\ OldLimits(d) /\ "pos_id" \in columns =>
                  KnexUniques("rateLimits") \subseteq d.tables["rateLimits"].keys
             /\ d.tables[t] # NoTable =>
                  ((NewTransactions(d) => NewKey[t] \in d.tables[t].keys) =>
                   ("pos_id" \in columns => NewKey[t] \in keys)),
           t = "transactionAttempts" /\ Twice(d) => t \in K /\ AttemptNumberKey \notin keys
    PROVE  DbOK(e, f) /\ Grown(d, e, f)
<1>1. DbShape(d) /\ TablesMade(d) /\ RowsMade(d) /\ NotMilder(d, f)
      /\ Effects(d, UNION {Statements(m) : m \in d.recorded})
  BY DEF DbOK
<1>2. DOMAIN d.tables = Tables BY <1>1 DEF DbShape, TablesOf
<1>3. /\ DOMAIN e.tables = Tables /\ e.tables[t] = TableOf(columns, keys)
      /\ \A u \in Tables : u # t => e.tables[u] = d.tables[u]
  BY <1>2
<1>4. e.tables[t].columns = columns /\ e.tables[t].keys = keys BY <1>3 DEF TableOf
<1>5. DbShape(e) BY <1>1, <1>3, <1>4 DEF DbShape, TablesOf
<1>6. \A u \in Tables :
        d.tables[u].columns \subseteq e.tables[u].columns /\ d.tables[u].keys \subseteq e.tables[u].keys
  BY <1>3, <1>4
<1>7. \A u \in Tables : d.tables[u] # NoTable => e.tables[u] # NoTable
  <2> SUFFICES ASSUME NEW u \in Tables, e.tables[u] = NoTable PROVE d.tables[u] = NoTable OBVIOUS
  <2>1. d.tables[u].columns = {} /\ d.tables[u].keys = {} BY <1>6 DEF NoTable, TableOf
  <2>2. d.tables[u] = TableOf(d.tables[u].columns, d.tables[u].keys) BY <1>1 DEF DbShape, TablesOf
  <2> QED BY <2>1, <2>2 DEF NoTable
<1>8. "transactions" \in Tables /\ "rateLimits" \in Tables /\ "transactionAttempts" \in Tables BY TheTables
<1>9. Grown(d, e, f)
  <2>1. \A p \in d.payments : e.attempts[p] >= d.attempts[p] BY <1>1 DEF DbShape
  <2>2. Len(e.limits) <= Len(d.limits) BY <1>1, LimitsAre DEF DbShape
  <2>3. (NoContext(d) => NoContext(e)) /\ (Top(d, f) => Top(e, f)) BY DEF NoContext, Top
  <2>4. d.tables["transactions"] # NoTable =>
          ((NewTransactions(d) => NewKey["transactions"] \in d.tables["transactions"].keys) =>
           (NewTransactions(e) => NewKey["transactions"] \in e.tables["transactions"].keys))
    <3>1. CASE t = "transactions" BY <1>4, <3>1 DEF NewTransactions
    <3>2. CASE t # "transactions" BY <1>3, <1>8, <3>2 DEF NewTransactions
    <3> QED BY <3>1, <3>2
  <2> QED BY <1>6, <2>1, <2>2, <2>3, <2>4 DEF Grown
<1>10. TablesMade(e)
  <2>1. \A u \in Tables : e.tables[u] # NoTable => KnexTable[u].columns \subseteq e.tables[u].columns
    BY <1>1, <1>3, <1>4 DEF TablesMade
  <2>2. \A u \in Tables : e.tables[u] # NoTable /\ u # "rateLimits" =>
          KnexUniques(u) \subseteq e.tables[u].keys \/ u \in e.keyless
    BY <1>1, <1>3, <1>4 DEF TablesMade
  <2>3. OldLimits(d) => OldLimits(e) \/ KnexUniques("rateLimits") \subseteq d.tables["rateLimits"].keys
    <3>1. CASE t = "transactions" BY <1>4, <1>7, <1>8, <3>1 DEF OldLimits, NewTransactions
    <3>2. CASE t # "transactions" BY <1>3, <1>8, <3>2 DEF OldLimits, NewTransactions
    <3> QED BY <3>1, <3>2
  <2>4. e.tables["rateLimits"] # NoTable =>
          \/ KnexUniques("rateLimits") \subseteq e.tables["rateLimits"].keys
          \/ "rateLimits" \in e.keyless \/ OldLimits(e)
    <3> SUFFICES ASSUME e.tables["rateLimits"] # NoTable
                 PROVE  KnexUniques("rateLimits") \subseteq e.tables["rateLimits"].keys
                        \/ "rateLimits" \in e.keyless \/ OldLimits(e)
      OBVIOUS
    <3>1. \/ KnexUniques("rateLimits") \subseteq e.tables["rateLimits"].keys
          \/ "rateLimits" \in e.keyless \/ OldLimits(d)
      <4>1. CASE t = "rateLimits" BY <1>4, <4>1
      <4>2. CASE t # "rateLimits" BY <1>1, <1>3, <1>8, <4>2 DEF TablesMade
      <4> QED BY <4>1, <4>2
    <3>2. d.tables["rateLimits"].keys \subseteq e.tables["rateLimits"].keys BY <1>6, <1>8
    <3> QED BY <2>3, <3>1, <3>2
  <2>5. NewTransactions(e) => NewKey["transactions"] \in e.tables["transactions"].keys \/ "transactions" \in e.keyless
    <3>1. CASE t = "transactions" BY <1>4, <3>1 DEF NewTransactions
    <3>2. CASE t # "transactions" BY <1>1, <1>3, <1>8, <3>2 DEF NewTransactions, TablesMade
    <3> QED BY <3>1, <3>2
  <2> QED BY <2>1, <2>2, <2>4, <2>5 DEF TablesMade
<1>11. RowsMade(e)
  <2>1. \A p, q \in e.payments : e.attempts[p] = e.attempts[q] BY <1>1 DEF RowsMade
  <2>2. (\E p \in e.payments : e.attempts[p] > 0) => e.tables["transactionAttempts"] # NoTable
    BY <1>1, <1>7, <1>8 DEF RowsMade
  <2>3. Twice(e) => /\ "transactionAttempts" \in e.keyless
                    /\ AttemptNumberKey \notin e.tables["transactionAttempts"].keys
    <3>1. Twice(e) => Twice(d) BY DEF Twice
    <3>2. CASE t = "transactionAttempts" BY <1>4, <3>1, <3>2
    <3>3. CASE t # "transactionAttempts" BY <1>1, <1>3, <1>8, <3>1, <3>3 DEF RowsMade
    <3> QED BY <3>2, <3>3
  <2>4. Len(e.limits) > 0 => e.tables["rateLimits"] # NoTable BY <1>1, <1>7, <1>8 DEF RowsMade
  <2> QED BY <2>1, <2>2, <2>3, <2>4 DEF RowsMade
<1>12. NotMilder(e, f) BY <1>1 DEF NotMilder
<1>13. Effects(e, UNION {Statements(m) : m \in e.recorded}) BY <1>1, <1>5, <1>9, EffectsGrow
<1> QED BY <1>5, <1>9, <1>10, <1>11, <1>12, <1>13 DEF DbOK

(* The tables are left as they are.                                         *)
LEMMA SameTables ==
    ASSUME NEW d, NEW f, DbOK(d, f), NEW e, DOMAIN e = Fields, e.tables = d.tables, e.keyless = d.keyless
    PROVE  /\ TablesMade(e) /\ TablesOf(e)
           /\ \A t \in Tables : /\ d.tables[t].columns \subseteq e.tables[t].columns
                                /\ d.tables[t].keys \subseteq e.tables[t].keys
           /\ d.tables["transactions"] # NoTable =>
                ((NewTransactions(d) => NewKey["transactions"] \in d.tables["transactions"].keys) =>
                 (NewTransactions(e) => NewKey["transactions"] \in e.tables["transactions"].keys))
           /\ e.keyless \subseteq d.keyless \cup {t \in Tables : d.tables[t] = NoTable}
           /\ \A t \in Tables : NewKey[t] \in e.tables[t].keys => NewKey[t] \in d.tables[t].keys
<1>1. TablesMade(d) /\ TablesOf(d) BY DEF DbOK, DbShape
<1>2. (NewTransactions(e) <=> NewTransactions(d)) /\ (OldLimits(e) <=> OldLimits(d))
  BY DEF NewTransactions, OldLimits
<1>3. TablesMade(e) BY <1>1, <1>2 DEF TablesMade
<1>4. TablesOf(e) BY <1>1 DEF TablesOf
<1> QED BY <1>2, <1>3, <1>4

(* What one statement did.                                                  *)
LEMMA EffectsOfOne ==
    ASSUME NEW d, NEW do, NEW T,
           do = "createTable" => KnexTable[T].columns \subseteq d.tables[T].columns,
           do = "insertAttempts" => \A p \in d.payments : d.attempts[p] >= 1,
           do = "addKey" => NewKey[T] \in d.tables[T].keys,
           do = "addKeyInSavepoint" => NewKey["rateLimits"] \in d.tables["rateLimits"].keys,
           do = "deleteDuplicates" => Len(d.limits) <= 1,
           do = "addColumn" => NewColumn[T] \in d.tables[T].columns,
           do = "assertColumnsExist" => tableSpec[T].columns \subseteq d.tables[T].columns
    PROVE  Effects(d, {Statement(do, T)})
<1> DEFINE S == {Statement(do, T)}
<1>1. \A x, t : Statement(x, t) \in S => x = do /\ t = T
  <2>1. \A x, t : Statement(x, t).do = x /\ Statement(x, t).table = t BY DEF Statement
  <2> QED BY <2>1
<1> HIDE DEF S
<1>2. Effects(d, S) BY <1>1 DEF Effects
<1> QED BY <1>2 DEF S

LEMMA SettledOne ==
    ASSUME IInv, NEW r \in Runner, NEW do, Ready(r, do),
           do \notin {"createKeys", "deleteDuplicates", "createIndexes", "selectExecuted", "updateKept"},
           NEW e, e.keyless \subseteq db.keyless, e.recorded = db.recorded, SumHits(e.limits) = SumHits(db.limits),
           \A t \in Tables : db.tables[t].keys \subseteq e.tables[t].keys
    PROVE  Settled(db, runner[r], first) => Settled(e, Advanced(runner[r], 1), first)
<1> DEFINE R == runner[r]
<1>1. /\ RunOK(R, client) /\ R.phase = "running" /\ Len(R.todo) \in Nat /\ Len(R.todo) >= 1
      /\ R.todo[1] = Statement(do, Subject(r)) /\ DbOK(db, first)
  BY SendsNext
<1>2. Gone(R.todo, 1) = {Statement(do, Subject(r))} /\ 1 \in 1..Len(R.todo) BY <1>1, GoneAre
<1>3. Select \notin Gone(R.todo, 1) /\ \A s \in Gone(R.todo, 1) : s.do # "createIndexes"
  BY <1>2 DEF Select, Statement
<1>4. R.todo[1].do \notin {"createKeys", "deleteDuplicates"} BY <1>1 DEF Statement
<1>5. DbShape(db) BY <1>1 DEF DbOK
<1> HIDE DEF R
<1>6. ~At(Advanced(R, 1), "deleteDuplicates", "rateLimits")
  <2>1. OnlyAt(Advanced(R, 1), do, Subject(r)) BY <1>1, <1>2, <1>3, OnlyAfter
  <2> QED BY <2>1, OnlyRun
<1>7. Settled(db, R, first) => Settled(e, Advanced(R, 1), first)
  BY <1>1, <1>2, <1>3, <1>4, <1>5, <1>6, StillSettled
<1> QED BY <1>7 DEF R

(* A knex run leaves no table without its keys but the one it is creating.  *)
LEMMA KnexKeyless ==
    ASSUME NEW R, NEW c, RunOK(R, c), R.adapter = "knex", NEW d, NEW f, Settled(d, R, f)
    PROVE  \A t \in d.keyless : At(R, "createKeys", t)
<1>1. \A t : Statement("createIndexes", t) \notin ToSet(R.todo)
  <2>1. R.todo \in Seq(Preparing) \/ R.todo \in Seq(KnexStatements) BY TodoIsOf
  <2>2. ToSet(R.todo) \subseteq Preparing \/ ToSet(R.todo) \subseteq KnexStatements BY <2>1, Within
  <2> QED BY <2>2, VerbsOf DEF Statement
<1> QED BY <1>1 DEF Settled, Making

LEMMA CreateControlHolds ==
    ASSUME IInv, NEW r \in Runner, CreateControl(r)
    PROVE  IInv'
<1>1. Ready(r, "createControl") BY DEF CreateControl
<1>2. CASE db.control BY <1>1, <1>2, FailsAsWell DEF CreateControl
<1>3. CASE ~db.control
  <2> DEFINE e == [db EXCEPT !.control = TRUE]
  <2>1. Done(r, e) BY <1>3 DEF CreateControl
  <2>2. DbOK(db, first) BY <1>1, SendsNext
  <2>3. DbShape(db) /\ DOMAIN db = Fields BY <2>2 DEF DbOK, DbShape, TablesOf
  <2>4. /\ DOMAIN e = Fields /\ e.tables = db.tables /\ e.keyless = db.keyless /\ e.recorded = db.recorded
        /\ e.payments = db.payments /\ e.attempts = db.attempts /\ e.limits = db.limits
    BY <2>3 DEF Fields
  <2> HIDE DEF e
  <2>5. /\ TablesMade(e) /\ TablesOf(e)
        /\ \A t \in Tables : /\ db.tables[t].columns \subseteq e.tables[t].columns
                             /\ db.tables[t].keys \subseteq e.tables[t].keys
        /\ db.tables["transactions"] # NoTable =>
             ((NewTransactions(db) => NewKey["transactions"] \in db.tables["transactions"].keys) =>
              (NewTransactions(e) => NewKey["transactions"] \in e.tables["transactions"].keys))
        /\ e.keyless \subseteq db.keyless \cup {t \in Tables : db.tables[t] = NoTable}
        /\ \A t \in Tables : NewKey[t] \in e.tables[t].keys => NewKey[t] \in db.tables[t].keys
    BY <2>2, <2>4, SameTables
  <2>6. DbShape(e) BY <2>3, <2>4, <2>5 DEF DbShape
  <2>7. Grown(db, e, first)
    <3>1. \A p \in db.payments : e.attempts[p] >= db.attempts[p] BY <2>3, <2>4 DEF DbShape
    <3>2. Len(e.limits) <= Len(db.limits) BY <2>3, <2>4, LimitsAre DEF DbShape
    <3>3. (NoContext(db) => NoContext(e)) /\ (Top(db, first) => Top(e, first)) BY <2>4 DEF NoContext, Top
    <3> QED BY <2>4, <2>5, <3>1, <3>2, <3>3 DEF Grown
  <2>8. DbOK(e, first)
    <3>1. RowsMade(e) BY <2>2, <2>4 DEF DbOK, RowsMade, Twice
    <3>2. NotMilder(e, first) BY <2>2, <2>4 DEF DbOK, NotMilder
    <3>3. Effects(db, UNION {Statements(m) : m \in db.recorded}) BY <2>2 DEF DbOK
    <3>4. Effects(e, UNION {Statements(m) : m \in e.recorded}) BY <2>3, <2>4, <2>6, <2>7, <3>3, EffectsGrow
    <3> QED BY <2>5, <2>6, <3>1, <3>2, <3>4 DEF DbOK
  <2>9. Effects(e, {Statement("createControl", Subject(r))}) BY EffectsOfOne
  <2>10. Ahead(Advanced(runner[r], 1)) \cap e.recorded \subseteq Ahead(runner[r]) \cap db.recorded
    BY <1>1, <2>4, AheadFewer
  <2>11. Settled(db, runner[r], first) => Settled(e, Advanced(runner[r], 1), first)
    BY <1>1, <2>4, <2>5, SettledOne
  <2>12. "createControl" \notin DOMAIN Leads BY LeadsTo
  <2>13. \A t \in {"transactions", "requestMetadata"} :
           NewKey[t] \in e.tables[t].keys => NewKey[t] \in db.tables[t].keys
    BY <2>5, TheTables
  <2> QED BY <1>1, <2>1, <2>5, <2>7, <2>8, <2>9, <2>10, <2>11, <2>12, <2>13, BareDone
<1> QED BY <1>2, <1>3

(* All that a migration sends has been sent when it is recorded.            *)
LEMMA RecordHolds ==
    ASSUME IInv, NEW r \in Runner, Record(r)
    PROVE  IInv'
<1> DEFINE R == runner[r]
           m == Subject(r)
<1>1. Ready(r, "record") BY DEF Record
<1>2. CASE m \in db.recorded BY <1>1, <1>2, FailsAsWell DEF Record
<1>3. CASE m \notin db.recorded
  <2> DEFINE e == [db EXCEPT !.recorded = @ \cup {m}]
  <2>1. Done(r, e) BY <1>3 DEF Record
  <2>2. /\ DbOK(db, first) /\ RunOK(R, client) /\ R.phase = "running"
        /\ R.todo[1] = Statement("record", m) /\ R.todo # <<>> /\ Holds(db, R, first)
        /\ Len(R.todo) \in Nat /\ Len(R.todo) >= 1 /\ 1 \in DOMAIN R.todo
    BY <1>1, SendsNext DEF Ready
  <2>3. m \in Migration /\ R.adapter = "knex" /\ R.todo[1] \in KnexStatements
    BY <1>1, SubjectIs DEF TableOfVerb, Plain
  <2>4. DbShape(db) /\ DOMAIN db = Fields BY <2>2 DEF DbOK, DbShape, TablesOf
  <2>5. /\ DOMAIN e = Fields /\ e.tables = db.tables /\ e.keyless = db.keyless
        /\ e.recorded = db.recorded \cup {m}
        /\ e.payments = db.payments /\ e.attempts = db.attempts /\ e.limits = db.limits
    BY <2>4 DEF Fields
  <2> HIDE DEF e, m
  <2>6. /\ TablesMade(e) /\ TablesOf(e)
        /\ \A t \in Tables : /\ db.tables[t].columns \subseteq e.tables[t].columns
                             /\ db.tables[t].keys \subseteq e.tables[t].keys
        /\ db.tables["transactions"] # NoTable =>
             ((NewTransactions(db) => NewKey["transactions"] \in db.tables["transactions"].keys) =>
              (NewTransactions(e) => NewKey["transactions"] \in e.tables["transactions"].keys))
        /\ e.keyless \subseteq db.keyless \cup {t \in Tables : db.tables[t] = NoTable}
        /\ \A t \in Tables : NewKey[t] \in e.tables[t].keys => NewKey[t] \in db.tables[t].keys
    BY <2>2, <2>5, SameTables
  <2>7. DbShape(e) BY <2>3, <2>4, <2>5, <2>6 DEF DbShape
  <2>8. Grown(db, e, first)
    <3>1. \A p \in db.payments : e.attempts[p] >= db.attempts[p] BY <2>4, <2>5 DEF DbShape
    <3>2. Len(e.limits) <= Len(db.limits) BY <2>4, <2>5, LimitsAre DEF DbShape
    <3>3. (NoContext(db) => NoContext(e)) /\ (Top(db, first) => Top(e, first)) BY <2>5 DEF NoContext, Top
    <3> QED BY <2>5, <2>6, <3>1, <3>2, <3>3 DEF Grown
  <2> DEFINE h == 100 * m
  <2>9. /\ h \in Int /\ Rank(R.todo[1]) = h + 99
        /\ \A s \in Statements(m) : s = Statement("record", m) \/ (Rank(s) \in Int /\ Rank(s) < h + 99)
        /\ \A s \in Statements(m) : Rank(s) \in Int /\ h <= Rank(s) /\ Rank(s) <= h + 99
    <3>1. h \in Int BY <2>3 DEF Migration
    <3>2. Rank(R.todo[1]) = h + 99 BY <2>2, <2>3, Ranks
    <3>3. /\ \A s \in Statements(m) : Rank(s) \in Int /\ h <= Rank(s) /\ Rank(s) <= h + 99
          /\ \A s \in Statements(m) : s = Statement("record", m) \/ Rank(s) < h + 99
      BY <2>3, StatementsIn
    <3> QED BY <3>1, <3>2, <3>3
  <2> HIDE DEF h
  <2>10. Effects(e, Statements(m))
    <3>1. \A s \in Statements(m) : s = Statement("record", m) \/ s \in Passed(R)
      <4> SUFFICES ASSUME NEW s \in Statements(m), s # Statement("record", m) PROVE s \in Passed(R) OBVIOUS
      <4>1. s \in KnexStatements BY <2>3 DEF KnexStatements
      <4>2. Rank(s) < Rank(R.todo[1]) BY <2>9
      <4> HIDE DEF R
      <4> QED BY <2>2, <2>3, <4>1, <4>2, SentBefore
    <3>2. Effects(db, Passed(R)) BY <2>2 DEF Holds
    <3>3. Effects(e, Passed(R)) BY <2>4, <2>7, <2>8, <3>2, EffectsGrow
    <3>4. Effects(e, {Statement("record", m)}) BY EffectsOfOne
    <3>5. Statements(m) \subseteq Passed(R) \cup {Statement("record", m)} BY <3>1
    <3> QED BY <3>3, <3>4, <3>5, EffectsOfBoth
  <2>11. DbOK(e, first)
    <3>1. RowsMade(e) BY <2>2, <2>5 DEF DbOK, RowsMade, Twice
    <3>2. NotMilder(e, first) BY <2>2, <2>5 DEF DbOK, NotMilder
    <3>3. Effects(db, UNION {Statements(n) : n \in db.recorded}) BY <2>2 DEF DbOK
    <3>4. Effects(e, UNION {Statements(n) : n \in db.recorded}) BY <2>4, <2>7, <2>8, <3>3, EffectsGrow
    <3> DEFINE before == UNION {Statements(n) : n \in db.recorded}
               after == UNION {Statements(n) : n \in e.recorded}
    <3>5. \A s \in after : s \in before \/ s \in Statements(m)
      <4> SUFFICES ASSUME NEW s \in after PROVE s \in before \/ s \in Statements(m) OBVIOUS
      <4>1. PICK n \in e.recorded : s \in Statements(n) OBVIOUS
      <4>2. n \in db.recorded \/ n = m BY <2>5
      <4> QED BY <4>1, <4>2
    <3>6. Effects(e, after)
      <4>1. after \subseteq before \cup Statements(m) BY <3>5
      <4>2. Effects(e, before) BY <3>4
      <4> HIDE DEF before, after
      <4> QED BY <2>10, <4>1, <4>2, EffectsOfBoth
    <3> QED BY <2>6, <2>7, <3>1, <3>2, <3>6 DEF DbOK
  <2>12. Effects(e, {Statement("record", Subject(r))}) BY EffectsOfOne
  <2>13. Ahead(Advanced(R, 1)) \cap e.recorded \subseteq Ahead(R) \cap db.recorded
    <3> DEFINE P == Advanced(R, 1)
    <3>1. Ahead(P) \subseteq Ahead(R) BY <1>1, AheadFewer
    <3>2. m \notin Ahead(P)
      <4> SUFFICES ASSUME m \in Ahead(P) PROVE FALSE OBVIOUS
      <4>1. PICK s \in Statements(m) : s \in ToSet(P.todo) BY DEF Ahead
      <4>2. Gone(R.todo, 1) = {R.todo[1]} /\ 1 \in 1..Len(R.todo) BY <2>2, GoneAre
      <4>3. Select \notin Gone(R.todo, 1) BY <2>3, <4>2, SelectIsNoMigration
      <4>4. s \in ToSet(R.todo) /\ s # R.todo[1]
        <5>1. ToSet(P.todo) = ToSet(R.todo) \ Gone(R.todo, 1)
          <6> HIDE DEF R
          <6> QED BY <2>2, <4>2, <4>3, Moves
        <5> QED BY <4>1, <4>2, <5>1
      <4>5. PICK i \in DOMAIN R.todo : s = R.todo[i] BY <4>4 DEF ToSet
      <4>6. DOMAIN R.todo = 1..Len(R.todo) /\ Sorted(R.todo)
        <5> HIDE DEF R
        <5> QED BY <2>2, TodoIsOf
      <4>7. 1 < i BY <2>2, <4>4, <4>5, <4>6
      <4>8. Rank(R.todo[1]) < Rank(s) BY <2>2, <4>5, <4>6, <4>7 DEF Sorted
      <4>9. Rank(s) \in Int /\ Rank(s) <= h + 99 /\ h \in Int BY <2>9, <4>1
      <4> QED BY <2>9, <4>8, <4>9
    <3> QED BY <2>5, <3>1, <3>2
  <2>14. Settled(db, R, first) => Settled(e, Advanced(R, 1), first)
    <3> SUFFICES ASSUME Settled(db, R, first) PROVE Settled(e, Advanced(R, 1), first) OBVIOUS
    <3>1. \A t : ~At(R, "createKeys", t) /\ ~At(R, "deleteDuplicates", t) BY <2>2 DEF At, Statement
    <3>2. db.keyless = {}
      <4> HIDE DEF R
      <4> QED BY <2>2, <2>3, <3>1, KnexKeyless
    <3>3. ~At(Advanced(R, 1), "deleteDuplicates", "rateLimits")
      <4>1. Gone(R.todo, 1) = {R.todo[1]} /\ 1 \in 1..Len(R.todo) BY <2>2, GoneAre
      <4>2. Select \notin Gone(R.todo, 1) BY <2>3, <4>1, SelectIsNoMigration
      <4>3. OnlyAt(Advanced(R, 1), "record", m)
        <5> HIDE DEF R
        <5> QED BY <2>2, <4>1, <4>2, OnlyAfter
      <4> QED BY <4>3, OnlyRun
    <3>4. SumHits(e.limits) = SumHits(first.limits) BY <2>5, <3>1 DEF Settled
    <3> QED BY <2>5, <3>2, <3>3, <3>4 DEF Settled
  <2>15. "record" \notin DOMAIN Leads BY LeadsTo
  <2>16. \A t \in {"transactions", "requestMetadata"} :
           NewKey[t] \in e.tables[t].keys => NewKey[t] \in db.tables[t].keys
    BY <2>6, TheTables
  <2> QED BY <1>1, <2>1, <2>6, <2>8, <2>11, <2>12, <2>13, <2>14, <2>15, <2>16, BareDone
<1> QED BY <1>2, <1>3

(* A table is there once the statement that creates it has been sent.       *)
LEMMA TableBefore ==
    ASSUME NEW R, NEW c, RunOK(R, c), R.adapter = "knex", R.todo # <<>>, R.todo[1] \in KnexStatements,
           NEW d, NEW f, Holds(d, R, f), NEW T \in Tables, Rank(Statement("createTable", T)) < Rank(R.todo[1])
    PROVE  KnexTable[T].columns \subseteq d.tables[T].columns /\ d.tables[T] # NoTable
<1> DEFINE s == Statement("createTable", T)
<1>1. Home[T] \in Migration BY TheTables DEF Home, Migration
<1>2. s \in KnexStatements BY <1>1, TriplesIn DEF KnexStatements
<1>3. s \in Passed(R) BY <1>2, SentBefore
<1>4. KnexTable[T].columns \subseteq d.tables[T].columns BY <1>3 DEF Holds, Effects
<1> QED BY <1>4, AnExistingTable

(* Keys are added to a table, which may have waited for them.               *)
Keyful(d, t, X) == [d.tables EXCEPT ![t] = TableOf(d.tables[t].columns, d.tables[t].keys \cup X)]
WithKeys(d, t, X, K) == [d EXCEPT !.tables = Keyful(d, t, X), !.keyless = K]

AddingKeys(d, t, X, K) == [d EXCEPT !.tables[t].keys = @ \cup X, !.keyless = K]

LEMMA KeyfulIs ==
    ASSUME NEW d, DbShape(d), NEW t \in Tables, NEW X
    PROVE  [d.tables EXCEPT ![t].keys = @ \cup X] = Keyful(d, t, X)
<1> DEFINE T == d.tables
           x == TableOf(T[t].columns, T[t].keys \cup X)
           W == Keyful(d, t, X)
<1>1. DOMAIN T = Tables /\ T[t] = TableOf(T[t].columns, T[t].keys) BY DEF DbShape, TablesOf
<1>2. W = [T EXCEPT ![t] = x] BY DEF Keyful
<1> HIDE DEF T, W
<1>3. [T[t] EXCEPT !.keys = @ \cup X] = x BY <1>1 DEF TableOf
<1>4. [T EXCEPT ![t].keys = @ \cup X] = W BY <1>2, <1>3
<1> QED BY <1>4 DEF T, W

LEMMA KeysShape ==
    ASSUME NEW d, DbShape(d), NEW t \in Tables, NEW X
    PROVE  [d EXCEPT !.tables[t].keys = @ \cup X] = WithKeys(d, t, X, d.keyless)
<1> DEFINE W == Keyful(d, t, X)
<1>1. [d.tables EXCEPT ![t].keys = @ \cup X] = W BY KeyfulIs
<1>2. [d EXCEPT !.tables[t].keys = @ \cup X] = [d EXCEPT !.tables = W] BY <1>1
<1>3. DOMAIN d = Fields BY DEF DbShape, TablesOf
<1>4. [d EXCEPT !.tables = W] = [d EXCEPT !.tables = W, !.keyless = d.keyless]
  <2> HIDE DEF W
  <2> QED BY <1>3 DEF Fields
<1> QED BY <1>2, <1>4 DEF WithKeys

LEMMA AddingShape ==
    ASSUME NEW d, DbShape(d), NEW t \in Tables, NEW X, NEW K
    PROVE  AddingKeys(d, t, X, K) = WithKeys(d, t, X, K)
<1> DEFINE W == Keyful(d, t, X)
<1>1. [d.tables EXCEPT ![t].keys = @ \cup X] = W BY KeyfulIs
<1>2. [d EXCEPT !.tables[t].keys = @ \cup X, !.keyless = K] = [d EXCEPT !.tables = W, !.keyless = K] BY <1>1
<1> QED BY <1>2 DEF WithKeys, AddingKeys

LEMMA KeysAdded ==
    ASSUME NEW d, DbShape(d), NEW t \in Tables, NEW X, NEW K, NEW e, e = WithKeys(d, t, X, K)
    PROVE  /\ DOMAIN e = Fields /\ e.keyless = K
           /\ e.tables = Keyful(d, t, X)
           /\ e.recorded = d.recorded /\ e.payments = d.payments /\ e.attempts = d.attempts /\ e.limits = d.limits
           /\ e.tables[t].columns = d.tables[t].columns /\ e.tables[t].keys = d.tables[t].keys \cup X
           /\ \A u \in Tables : d.tables[u].keys \subseteq e.tables[u].keys
           /\ \A u \in Tables : u # t => e.tables[u] = d.tables[u]
<1> DEFINE x == TableOf(d.tables[t].columns, d.tables[t].keys \cup X)
           W == Keyful(d, t, X)
<1>1. DOMAIN d = Fields /\ DOMAIN d.tables = Tables BY DEF DbShape, TablesOf
<1>2. e = [d EXCEPT !.tables = W, !.keyless = K] BY DEF WithKeys
<1>3. W = [d.tables EXCEPT ![t] = x] BY DEF Keyful
<1>4. x.columns = d.tables[t].columns /\ x.keys = d.tables[t].keys \cup X BY DEF TableOf
<1> HIDE DEF x, W
<1>5. /\ DOMAIN e = Fields /\ e.tables = W /\ e.keyless = K
      /\ e.recorded = d.recorded /\ e.payments = d.payments /\ e.attempts = d.attempts /\ e.limits = d.limits
  BY <1>1, <1>2 DEF Fields
<1>6. W[t] = x /\ \A u \in Tables : u # t => W[u] = d.tables[u] BY <1>1, <1>3
<1>7. \A u \in Tables : d.tables[u].keys \subseteq W[u].keys BY <1>4, <1>6
<1> QED BY <1>4, <1>5, <1>6, <1>7 DEF W

LEMMA MoreKeys ==
    ASSUME NEW d, NEW f, DbOK(d, f), NEW t \in Tables, KnexTable[t].columns \subseteq d.tables[t].columns, NEW X,
           NEW e, e = WithKeys(d, t, X, d.keyless),
           t = "transactionAttempts" /\ Twice(d) => AttemptNumberKey \notin X
    PROVE  DbOK(e, f) /\ Grown(d, e, f) /\ e.keyless = d.keyless
<1> DEFINE columns == d.tables[t].columns
           keys == d.tables[t].keys \cup X
<1>1. DbShape(d) /\ TablesMade(d) /\ RowsMade(d) BY DEF DbOK
<1>2. /\ DOMAIN e = Fields /\ e.tables = [d.tables EXCEPT ![t] = TableOf(columns, keys)]
      /\ e.recorded = d.recorded /\ e.payments = d.payments /\ e.attempts = d.attempts /\ e.limits = d.limits
      /\ e.keyless = d.keyless
  <2>1. /\ DOMAIN e = Fields /\ e.tables = Keyful(d, t, X)
        /\ e.recorded = d.recorded /\ e.payments = d.payments /\ e.attempts = d.attempts /\ e.limits = d.limits
        /\ e.keyless = d.keyless
    BY <1>1, KeysAdded
  <2>2. Keyful(d, t, X) = [d.tables EXCEPT ![t] = TableOf(columns, keys)] BY DEF Keyful
  <2> HIDE DEF columns, keys
  <2> QED BY <2>1, <2>2
<1>3. d.tables[t] # NoTable BY AnExistingTable
<1>4. e.keyless \subseteq Tables BY <1>1, <1>2 DEF DbShape
<1>5. t # "rateLimits" => KnexUniques(t) \subseteq keys \/ t \in e.keyless BY <1>1, <1>2, <1>3 DEF TablesMade
<1>6. t = "rateLimits" => KnexUniques(t) \subseteq keys \/ t \in e.keyless \/ OldLimits(d)
  BY <1>1, <1>2, <1>3 DEF TablesMade
<1>7. t = "transactions" =>
        /\ "pos_id" \in columns => NewKey[t] \in keys \/ t \in e.keyless
        /\ ~(OldLimits(d) /\ "pos_id" \in columns)
        /\ (NewTransactions(d) => NewKey[t] \in d.tables[t].keys) => ("pos_id" \in columns => NewKey[t] \in keys)
  BY <1>1, <1>2 DEF TablesMade, NewTransactions, OldLimits
<1>8. t = "transactionAttempts" /\ Twice(d) => t \in e.keyless /\ AttemptNumberKey \notin keys
  BY <1>1, <1>2 DEF RowsMade
<1>9. /\ d.tables[t].columns \subseteq columns /\ d.tables[t].keys \subseteq keys
      /\ KnexTable[t].columns \subseteq columns
  OBVIOUS
<1>10. \A u \in d.keyless : u # t => u \in e.keyless BY <1>2
<1> HIDE DEF columns, keys
<1>11. DbOK(e, f) /\ Grown(d, e, f) BY <1>2, <1>4, <1>5, <1>6, <1>7, <1>8, <1>9, <1>10, WiderTable
<1> QED BY <1>2, <1>11

(* The key that a migration adds.                                           *)
LEMMA NewKeyHolds ==
    ASSUME IInv, NEW r \in Runner, NEW do \in {"addKey", "addKeyInSavepoint"}, Ready(r, do),
           Done(r, [db EXCEPT !.tables[Subject(r)].keys = @ \cup {NewKey[Subject(r)]}])
    PROVE  IInv'
<1> DEFINE R == runner[r]
           t == Subject(r)
           e == [db EXCEPT !.tables[t].keys = @ \cup {NewKey[t]}]
<1>1. /\ DbOK(db, first) /\ RunOK(R, client)
      /\ R.todo[1] = Statement(do, t) /\ R.todo # <<>> /\ Holds(db, R, first)
  BY SendsNext DEF Ready
<1>2. /\ R.adapter = "knex" /\ R.todo[1] \in KnexStatements
      /\ do = "addKey" => t \in {"transactions", "requestMetadata"}
      /\ do = "addKeyInSavepoint" => t = "rateLimits"
  BY SubjectIs DEF TableOfVerb, Plain
<1>3. t \in Tables BY <1>2, TheTables
<1>4. Rank(Statement("createTable", t)) < Rank(R.todo[1])
  <2>1. Rank(Statement("createTable", t)) = Base[t] + 2 BY <1>3, Ranks
  <2>2. Base["transactions"] = 110 /\ Base["requestMetadata"] = 140 /\ Base["rateLimits"] = 150 BY DEF Base
  <2>3. Rank(Statement("addKeyInSavepoint", "rateLimits")) = 506 BY DEF Rank, Statement
  <2>4. Rank(Statement("addKey", "transactions")) = 331 /\ Rank(Statement("addKey", "requestMetadata")) = 802 BY Ranks
  <2>5. CASE do = "addKey" BY <1>1, <1>2, <2>1, <2>2, <2>4, <2>5
  <2>6. CASE do = "addKeyInSavepoint" BY <1>1, <1>2, <2>1, <2>2, <2>3, <2>6
  <2> QED BY <2>5, <2>6
<1>5. KnexTable[t].columns \subseteq db.tables[t].columns
  <2> HIDE DEF R, t
  <2> QED BY <1>1, <1>2, <1>3, <1>4, TableBefore
<1>6. t # "transactionAttempts" BY <1>2
<1>7. e = WithKeys(db, t, {NewKey[t]}, db.keyless)
  <2>1. DbShape(db) BY <1>1 DEF DbOK
  <2> QED BY <1>3, <2>1, KeysShape
<1>8. DbOK(e, first) /\ Grown(db, e, first) /\ e.keyless = db.keyless
  <2> DEFINE X == {NewKey[t]}
  <2>1. e = WithKeys(db, t, X, db.keyless) BY <1>7
  <2>2. DbOK(db, first) BY <1>1
  <2> HIDE DEF t, e, X
  <2>3. DbOK(e, first) /\ Grown(db, e, first) /\ e.keyless = db.keyless BY <1>3, <1>5, <1>6, <2>1, <2>2, MoreKeys
  <2> QED BY <2>3
<1>9. /\ e.recorded = db.recorded /\ e.limits = db.limits
      /\ e.tables[t].keys = db.tables[t].keys \cup {NewKey[t]}
      /\ \A u \in Tables : db.tables[u].keys \subseteq e.tables[u].keys
      /\ \A u \in Tables : u # t => e.tables[u] = db.tables[u]
  <2>1. DbShape(db) BY <1>1 DEF DbOK
  <2> HIDE DEF t, e
  <2> QED BY <1>3, <1>7, <2>1, KeysAdded
<1>10. Done(r, e) OBVIOUS
<1> HIDE DEF e
<1>11. NewKey[t] \in e.tables[t].keys BY <1>9
<1>12. Effects(e, {Statement(do, t)})
  <2>1. do = "addKeyInSavepoint" => NewKey["rateLimits"] \in e.tables["rateLimits"].keys BY <1>2, <1>11
  <2> QED BY <1>2, <1>11, <2>1, EffectsOfOne
<1>13. do \notin DOMAIN Leads BY LeadsTo
<1>14. Ahead(Advanced(R, 1)) \cap e.recorded \subseteq Ahead(R) \cap db.recorded BY <1>9, AheadFewer
<1>15. Settled(db, R, first) => Settled(e, Advanced(R, 1), first) BY <1>8, <1>9, SettledOne
<1>16. e.keyless \subseteq db.keyless \cup {u \in Tables : db.tables[u] = NoTable} BY <1>8
<1>17. \A u \in {"transactions", "requestMetadata"} : NewKey[u] \in e.tables[u].keys =>
         NewKey[u] \in db.tables[u].keys \/ (do = "addKey" /\ u = Subject(r))
  <2> SUFFICES ASSUME NEW u \in {"transactions", "requestMetadata"}, NewKey[u] \in e.tables[u].keys,
                      NewKey[u] \notin db.tables[u].keys
               PROVE  do = "addKey" /\ u = t
    OBVIOUS
  <2>1. u \in Tables /\ u # "rateLimits" BY TheTables
  <2>2. u = t BY <1>9, <2>1
  <2> QED BY <1>2, <2>1, <2>2
<1> QED BY <1>8, <1>10, <1>12, <1>13, <1>14, <1>15, <1>16, <1>17, BareDone

LEMMA AddKeyHolds ==
    ASSUME IInv, NEW r \in Runner, AddKey(r)
    PROVE  IInv'
<1> DEFINE t == Subject(r)
<1>1. Ready(r, "addKey") BY DEF AddKey
<1>2. CASE Has(t, NewKey[t]) BY <1>2, KeyIsThere
<1>3. CASE ~Has(t, NewKey[t]) /\ KeyRefused(t, NewKey[t]) BY <1>1, <1>3, FailsAsWell DEF AddKey
<1>4. CASE ~Has(t, NewKey[t]) /\ ~KeyRefused(t, NewKey[t])
  <2>1. Done(r, [db EXCEPT !.tables[t].keys = @ \cup {NewKey[t]}]) BY <1>4 DEF AddKey
  <2> QED BY <1>1, <2>1, NewKeyHolds
<1> QED BY <1>2, <1>3, <1>4

LEMMA AddKeyInSavepointHolds ==
    ASSUME IInv, NEW r \in Runner, AddKeyInSavepoint(r)
    PROVE  IInv'
<1> DEFINE t == Subject(r)
<1>1. Ready(r, "addKeyInSavepoint") BY DEF AddKeyInSavepoint
<1>2. CASE ~Has(t, NewKey[t]) /\ KeyRefused(t, NewKey[t]) BY <1>1, <1>2, FailsAsWell DEF AddKeyInSavepoint
<1>3. CASE ~(~Has(t, NewKey[t]) /\ KeyRefused(t, NewKey[t]))
  <2>1. Done(r, [db EXCEPT !.tables[t].keys = @ \cup {NewKey[t]}]) BY <1>3 DEF AddKeyInSavepoint
  <2> QED BY <1>1, <2>1, NewKeyHolds
<1> QED BY <1>2, <1>3

(* A migration's table gets its keys, all at once or none.                  *)
LEMMA CreateKeysHolds ==
    ASSUME IInv, NEW r \in Runner, CreateKeys(r)
    PROVE  IInv'
<1> DEFINE R == runner[r]
           t == Subject(r)
           keys == KnexTable[t].keys
           uniques == {key \in keys : isUnique(key)}
<1>1. Ready(r, "createKeys") BY DEF CreateKeys
<1>2. /\ DbOK(db, first) /\ RunOK(R, client) /\ Running(r)
      /\ R.todo[1] = Statement("createKeys", t) /\ R.todo # <<>> /\ Holds(db, R, first)
      /\ Len(R.todo) \in Nat /\ Len(R.todo) >= 1 /\ R.phase = "running"
      /\ \A s \in Other(r) : Running(s) => ~Transactional(s)
  BY <1>1, SendsNext DEF Ready
<1>3. R.adapter = "knex" /\ R.todo[1] \in KnexStatements /\ t \in Tables
  BY <1>1, SubjectIs DEF TableOfVerb, Plain
<1>4. Rank(Statement("createTable", t)) < Rank(R.todo[1])
  <2>1. /\ Rank(Statement("createTable", t)) = Base[t] + 2 /\ Rank(Statement("createKeys", t)) = Base[t] + 3
        /\ Base[t] \in Int
    BY <1>3, Ranks
  <2> QED BY <1>2, <2>1
<1>5. KnexTable[t].columns \subseteq db.tables[t].columns /\ db.tables[t] # NoTable
  <2> HIDE DEF R, t
  <2> QED BY <1>2, <1>3, <1>4, TableBefore
<1>6. DbShape(db) /\ TablesMade(db) /\ RowsMade(db) BY <1>2 DEF DbOK
<1>7. uniques = KnexUniques(t) /\ uniques \subseteq keys BY DEF KnexUniques
<1>8. CASE \E key \in uniques : KeyRefused(t, key)
  <2>1. Fail(r) BY <1>8 DEF CreateKeys
  <2> QED BY <1>1, <2>1, FailsAsWell
<1>9. CASE ~\E key \in uniques : KeyRefused(t, key)
  <2>1. ~(t = "transactionAttempts" /\ Twice(db))
    <3> SUFFICES ASSUME t = "transactionAttempts", Twice(db) PROVE FALSE OBVIOUS
    <3>1. AttemptNumberKey \in uniques BY <1>7, UniqueKeysAre
    <3>2. DuplicateAttempts BY DEF Twice, DuplicateAttempts
    <3>3. KeyRefused(t, AttemptNumberKey) BY <3>1, <3>2 DEF KeyRefused
    <3> QED BY <1>9, <3>1, <3>3
  <2>2. CASE keys \cap db.tables[t].keys # {}
    <3> DEFINE e == [db EXCEPT !.tables[t].keys = @ \cup uniques]
    <3>1. FailLeaving(r, e) BY <1>9, <2>2 DEF CreateKeys
    <3>2. e = WithKeys(db, t, uniques, db.keyless) BY <1>3, <1>6, KeysShape
    <3> HIDE DEF e, t, uniques, R
    <3>3. DbOK(e, first) /\ Grown(db, e, first) BY <1>2, <1>3, <1>5, <2>1, <3>2, MoreKeys
    <3> QED BY <1>2, <3>1, <3>3, FailHolds
  <2>3. CASE ~(keys \cap db.tables[t].keys # {})
    <3> DEFINE K == db.keyless \ {t}
               e == [db EXCEPT !.tables[t].keys = @ \cup keys, !.keyless = @ \ {t}]
    <3>1. Done(r, e) BY <1>9, <2>3 DEF CreateKeys
    <3>2. e = WithKeys(db, t, keys, K)
      <4>1. e = AddingKeys(db, t, keys, K) BY DEF AddingKeys
      <4> HIDE DEF e, t, keys, K
      <4> QED BY <1>3, <1>6, <4>1, AddingShape
    <3>3. /\ DOMAIN e = Fields /\ e.keyless = K /\ e.tables = Keyful(db, t, keys)
          /\ e.recorded = db.recorded /\ e.payments = db.payments /\ e.attempts = db.attempts /\ e.limits = db.limits
          /\ e.tables[t].columns = db.tables[t].columns /\ e.tables[t].keys = db.tables[t].keys \cup keys
          /\ \A u \in Tables : db.tables[u].keys \subseteq e.tables[u].keys
          /\ \A u \in Tables : u # t => e.tables[u] = db.tables[u]
      <4> HIDE DEF e, t, keys, K
      <4> QED BY <1>3, <1>6, <3>2, KeysAdded
    <3>4. DbOK(e, first) /\ Grown(db, e, first)
      <4> DEFINE cs == db.tables[t].columns
                 ks == db.tables[t].keys \cup keys
      <4>1. e.tables = [db.tables EXCEPT ![t] = TableOf(cs, ks)] BY <3>3 DEF Keyful
      <4>2. K \subseteq Tables BY <1>6 DEF DbShape
      <4>3. KnexUniques(t) \subseteq ks BY <1>7
      <4>4. t = "transactions" => (NewTransactions(db) => NewKey[t] \in db.tables[t].keys)
        BY <1>2 DEF Holds, Asserted, At
      <4>5. t = "transactions" =>
              /\ "pos_id" \in cs => NewKey[t] \in ks
              /\ ~(OldLimits(db) /\ "pos_id" \in cs)
        BY <4>4 DEF NewTransactions, OldLimits
      <4>6. \A u \in db.keyless : u # t => u \in K OBVIOUS
      <4>7. db.tables[t].columns \subseteq cs /\ db.tables[t].keys \subseteq ks /\ KnexTable[t].columns \subseteq cs
        BY <1>5
      <4> HIDE DEF e, t, cs, ks, K, R, keys, uniques
      <4> QED BY <1>2, <1>3, <2>1, <3>3, <4>1, <4>2, <4>3, <4>5, <4>6, <4>7, WiderTable
    <3> HIDE DEF e
    <3>5. Effects(e, {Statement("createKeys", t)}) BY EffectsOfOne
    <3>6. Ahead(Advanced(R, 1)) \cap e.recorded \subseteq Ahead(R) \cap db.recorded BY <1>1, <3>3, AheadFewer
    <3>7. Settled(db, R, first) => Settled(e, Advanced(R, 1), first)
      <4> SUFFICES ASSUME Settled(db, R, first) PROVE Settled(e, Advanced(R, 1), first) OBVIOUS
      <4>1. \A u : At(R, "createKeys", u) => u = t BY <1>2 DEF At, Statement
      <4>2. \A u : ~At(R, "deleteDuplicates", u) BY <1>2 DEF At, Statement
      <4>3. e.keyless = {}
        <5>1. \A u \in db.keyless : At(R, "createKeys", u)
          <6> HIDE DEF R
          <6> QED BY <1>2, <1>3, KnexKeyless
        <5> QED BY <3>3, <4>1, <5>1
      <4>4. ~At(Advanced(R, 1), "deleteDuplicates", "rateLimits")
        <5>1. Gone(R.todo, 1) = {R.todo[1]} /\ 1 \in 1..Len(R.todo) BY <1>2, GoneAre
        <5>2. Select \notin Gone(R.todo, 1) BY <1>3, <5>1, SelectIsNoMigration
        <5>3. OnlyAt(Advanced(R, 1), "createKeys", t)
          <6> HIDE DEF R
          <6> QED BY <1>2, <5>1, <5>2, OnlyAfter
        <5> QED BY <5>3, OnlyRun
      <4>5. SumHits(e.limits) = SumHits(first.limits) BY <3>3, <4>2 DEF Settled
      <4> QED BY <4>3, <4>4, <4>5 DEF Settled
    <3>8. "createKeys" \notin DOMAIN Leads BY LeadsTo
    <3>9. e.keyless \subseteq db.keyless \cup {u \in Tables : db.tables[u] = NoTable} BY <3>3
    <3>10. \A u \in {"transactions", "requestMetadata"} : NewKey[u] \in e.tables[u].keys =>
             NewKey[u] \in db.tables[u].keys
      <4> SUFFICES ASSUME NEW u \in {"transactions", "requestMetadata"}, NewKey[u] \in e.tables[u].keys
                   PROVE  NewKey[u] \in db.tables[u].keys
        OBVIOUS
      <4>1. u \in Tables BY TheTables
      <4>2. NewKey[u] \notin KnexTable[u].keys BY UniqueKeysAre
      <4>3. CASE u = t BY <3>3, <4>2, <4>3
      <4>4. CASE u # t BY <3>3, <4>1, <4>4
      <4> QED BY <4>3, <4>4
    <3> QED BY <1>1, <3>1, <3>4, <3>5, <3>6, <3>7, <3>8, <3>9, <3>10, BareDone
  <2> QED BY <2>2, <2>3
<1> QED BY <1>8, <1>9

(* A table is replaced by a wider one.                                      *)
Replacing(d, t, x, K) == [d EXCEPT !.tables[t] = x, !.keyless = K]

LEMMA TableReplaced ==
    ASSUME NEW d, DbShape(d), NEW t \in Tables, NEW x, NEW K, NEW e, e = Replacing(d, t, x, K)
    PROVE  /\ DOMAIN e = Fields /\ e.keyless = K
           /\ e.tables = [d.tables EXCEPT ![t] = x]
           /\ e.recorded = d.recorded /\ e.payments = d.payments /\ e.attempts = d.attempts /\ e.limits = d.limits
           /\ e.tables[t] = x /\ \A u \in Tables : u # t => e.tables[u] = d.tables[u]
<1> DEFINE W == [d.tables EXCEPT ![t] = x]
<1>1. DOMAIN d = Fields /\ DOMAIN d.tables = Tables BY DEF DbShape, TablesOf
<1>2. e = [d EXCEPT !.tables = W, !.keyless = K] BY DEF Replacing
<1>3. W[t] = x /\ \A u \in Tables : u # t => W[u] = d.tables[u] BY <1>1
<1> HIDE DEF W
<1>4. /\ DOMAIN e = Fields /\ e.tables = W /\ e.keyless = K
      /\ e.recorded = d.recorded /\ e.payments = d.payments /\ e.attempts = d.attempts /\ e.limits = d.limits
  BY <1>1, <1>2 DEF Fields
<1> QED BY <1>3, <1>4 DEF W

LEMMA ReplacingOne ==
    ASSUME NEW d, DbShape(d), NEW t \in Tables, NEW x
    PROVE  [d EXCEPT !.tables[t] = x] = Replacing(d, t, x, d.keyless)
<1> DEFINE W == [d.tables EXCEPT ![t] = x]
<1>1. DOMAIN d = Fields BY DEF DbShape, TablesOf
<1>2. [d EXCEPT !.tables[t] = x] = [d EXCEPT !.tables = W] OBVIOUS
<1>3. Replacing(d, t, x, d.keyless) = [d EXCEPT !.tables = W, !.keyless = d.keyless] BY DEF Replacing
<1> HIDE DEF W
<1>4. [d EXCEPT !.tables = W] = [d EXCEPT !.tables = W, !.keyless = d.keyless] BY <1>1 DEF Fields
<1> QED BY <1>2, <1>3, <1>4

LEMMA AddColumnHolds ==
    ASSUME IInv, NEW r \in Runner, AddColumn(r)
    PROVE  IInv'
<1> DEFINE R == runner[r]
           t == Subject(r)
           X == IF t = "transactions" THEN Indexes({<<"pos_id">>}) ELSE {}
<1>1. Ready(r, "addColumn") BY DEF AddColumn
<1>2. /\ DbOK(db, first) /\ RunOK(R, client)
      /\ R.todo[1] = Statement("addColumn", t) /\ R.todo # <<>> /\ Holds(db, R, first)
  BY <1>1, SendsNext DEF Ready
<1>3. R.adapter = "knex" /\ R.todo[1] \in KnexStatements /\ t \in DOMAIN NewColumn
  BY <1>1, SubjectIs DEF TableOfVerb, Plain
<1>4. t \in {"paymentIntents", "transactions"} /\ t \in Tables BY <1>3, TheColumns
<1>5. Rank(R.todo[1]) \in Int /\ Rank(R.todo[1]) >= 600 /\ (t = "transactions" => Rank(R.todo[1]) = 703)
  <2>1. Rank(R.todo[1]) = Required[t] + 2 BY <1>2, <1>3, Ranks
  <2>2. Required["paymentIntents"] = 601 /\ Required["transactions"] = 701 BY DEF Required
  <2> QED BY <1>4, <2>1, <2>2
<1>6. KnexTable[t].columns \subseteq db.tables[t].columns /\ db.tables[t] # NoTable
  <2>1. Rank(R.todo[1]) >= 500 BY <1>5
  <2> HIDE DEF R, t
  <2> QED BY <1>2, <1>3, <1>4, <2>1, TableIsThere
<1>7. DbShape(db) /\ TablesMade(db) BY <1>2 DEF DbOK
<1>8. CASE NewColumn[t] \in db.tables[t].columns
  <2>1. Fail(r) BY <1>8 DEF AddColumn
  <2> QED BY <1>1, <2>1, FailsAsWell
<1>9. CASE NewColumn[t] \notin db.tables[t].columns
  <2> DEFINE cs == db.tables[t].columns \cup {NewColumn[t]}
             ks == db.tables[t].keys \cup X
             x == TableOf(cs, ks)
             e == [db EXCEPT !.tables[t] = x]
  <2>1. Done(r, e) BY <1>9 DEF AddColumn
  <2>2. e = Replacing(db, t, x, db.keyless)
    <3> HIDE DEF x, t
    <3> QED BY <1>4, <1>7, ReplacingOne
  <2>3. /\ DOMAIN e = Fields /\ e.keyless = db.keyless
        /\ e.tables = [db.tables EXCEPT ![t] = x]
        /\ e.recorded = db.recorded /\ e.payments = db.payments /\ e.attempts = db.attempts /\ e.limits = db.limits
        /\ e.tables[t] = x /\ \A u \in Tables : u # t => e.tables[u] = db.tables[u]
    <3> HIDE DEF x, e, t
    <3> QED BY <1>4, <1>7, <2>2, TableReplaced
  <2>4. DbOK(e, first) /\ Grown(db, e, first)
    <3>1. e.tables = [db.tables EXCEPT ![t] = TableOf(cs, ks)] BY <2>3
    <3>2. db.keyless \subseteq Tables /\ \A u \in db.keyless : u # t => u \in db.keyless BY <1>7 DEF DbShape
    <3>3. t # "rateLimits" /\ t # "transactionAttempts" BY <1>4
    <3>4. KnexUniques(t) \subseteq db.tables[t].keys \/ t \in db.keyless BY <1>4, <1>6, <1>7, <3>3 DEF TablesMade
    <3>5. t = "transactions" =>
            /\ "pos_id" \in cs => NewKey[t] \in ks \/ t \in db.keyless
            /\ OldLimits(db) /\ "pos_id" \in cs => KnexUniques("rateLimits") \subseteq db.tables["rateLimits"].keys
            /\ db.tables[t] # NoTable =>
                 ((NewTransactions(db) => NewKey[t] \in db.tables[t].keys) => ("pos_id" \in cs => NewKey[t] \in ks))
      <4> SUFFICES ASSUME t = "transactions"
                   PROVE  /\ NewKey["transactions"] \in db.tables["transactions"].keys
                          /\ NewKey["rateLimits"] \in db.tables["rateLimits"].keys
        BY UniqueKeysAre
      <4>1. Rank(R.todo[1]) = 703 BY <1>5
      <4>2. /\ Statement("addKey", "transactions") \in KnexStatements
            /\ Statement("addKeyInSavepoint", "rateLimits") \in KnexStatements
        BY EffectsIn DEF KnexStatements, Migration
      <4>3. /\ Rank(Statement("addKey", "transactions")) = 331
            /\ Rank(Statement("addKeyInSavepoint", "rateLimits")) = 506
        BY Ranks DEF Rank, Statement
      <4>4. /\ Statement("addKey", "transactions") \in Passed(R)
            /\ Statement("addKeyInSavepoint", "rateLimits") \in Passed(R)
        <5> HIDE DEF R
        <5>1. Rank(Statement("addKey", "transactions")) < Rank(R.todo[1]) BY <4>1, <4>3
        <5>2. Rank(Statement("addKeyInSavepoint", "rateLimits")) < Rank(R.todo[1]) BY <4>1, <4>3
        <5> QED BY <1>2, <1>3, <4>2, <5>1, <5>2, SentBefore
      <4> QED BY <1>2, <4>4 DEF Holds, Effects
    <3>6. db.tables[t].columns \subseteq cs /\ db.tables[t].keys \subseteq ks /\ KnexTable[t].columns \subseteq cs
          /\ (KnexUniques(t) \subseteq ks \/ t \in db.keyless)
      BY <1>6, <3>4
    <3> HIDE DEF e, t, cs, ks, x, R
    <3>7. DbOK(e, first) /\ Grown(db, e, first)
      BY <1>2, <1>4, <2>3, <3>1, <3>2, <3>3, <3>5, <3>6, WiderTable
    <3> QED BY <3>7
  <2>5. x.columns = cs /\ x.keys = ks BY DEF TableOf
  <2> HIDE DEF e, x
  <2>6. \A u \in Tables : db.tables[u].keys \subseteq e.tables[u].keys BY <2>3, <2>5
  <2>7. Effects(e, {Statement("addColumn", t)}) BY <2>3, <2>5, EffectsOfOne
  <2>8. Ahead(Advanced(R, 1)) \cap e.recorded \subseteq Ahead(R) \cap db.recorded BY <1>1, <2>3, AheadFewer
  <2>9. Settled(db, R, first) => Settled(e, Advanced(R, 1), first) BY <1>1, <2>3, <2>6, SettledOne
  <2>10. "addColumn" \notin DOMAIN Leads BY LeadsTo
  <2>11. e.keyless \subseteq db.keyless \cup {u \in Tables : db.tables[u] = NoTable} BY <2>3
  <2>12. \A u \in {"transactions", "requestMetadata"} : NewKey[u] \in e.tables[u].keys =>
           NewKey[u] \in db.tables[u].keys
    <3> SUFFICES ASSUME NEW u \in {"transactions", "requestMetadata"}, NewKey[u] \in e.tables[u].keys
                 PROVE  NewKey[u] \in db.tables[u].keys
      OBVIOUS
    <3>1. u \in Tables BY TheTables
    <3>2. NewKey["transactions"] \notin X
      BY DEF NewKey, Indexes, uniqueName, indexName
    <3>3. CASE u = t BY <1>4, <2>3, <2>5, <3>2, <3>3
    <3>4. CASE u # t BY <2>3, <3>1, <3>4
    <3> QED BY <3>3, <3>4
  <2> QED BY <1>1, <2>1, <2>4, <2>7, <2>8, <2>9, <2>10, <2>11, <2>12, BareDone
<1> QED BY <1>8, <1>9

(* What no run has recorded, as it would have made the table.               *)
LEMMA Unkeyed ==
    ASSUME NEW d, NEW f, DbOK(d, f), NEW t \in Tables, d.tables[t] = NoTable, t \in DOMAIN KeyedBy
    PROVE  KeyedBy[t] \cap d.recorded = {}
<1> DEFINE all == UNION {Statements(m) : m \in d.recorded}
<1>1. Effects(d, all) BY DEF DbOK
<1>2. d.tables[t].columns = {} /\ d.tables[t].keys = {} BY DEF NoTable, TableOf
<1>3. ~(KnexTable[t].columns \subseteq d.tables[t].columns)
  <2> SUFFICES ASSUME KnexTable[t].columns \subseteq d.tables[t].columns PROVE FALSE OBVIOUS
  <2>1. d.tables[t] # NoTable BY AnExistingTable
  <2> QED BY <2>1
<1>4. /\ DOMAIN KeyedBy = {"transactions", "transactionAttempts", "paymentIntents", "rateLimits"}
      /\ KeyedBy["transactions"] = {3} /\ KeyedBy["transactionAttempts"] = {3}
      /\ KeyedBy["paymentIntents"] = {4} /\ KeyedBy["rateLimits"] = {5}
  BY DEF KeyedBy
<1>5. \A m \in d.recorded : \A s \in Statements(m) : s \in all OBVIOUS
<1> HIDE DEF all
<1>6. CASE t = "transactions"
  <2>1. Statement("addKey", "transactions") \in Statements(3) BY EffectsIn
  <2>2. 3 \notin d.recorded BY <1>1, <1>2, <1>5, <1>6, <2>1 DEF Effects
  <2> QED BY <1>4, <1>6, <2>2
<1>7. CASE t = "transactionAttempts"
  <2>1. Home[t] = 3 BY <1>7 DEF Home
  <2>2. Statement("createTable", t) \in Statements(3) BY <2>1, TriplesIn
  <2>3. 3 \notin d.recorded BY <1>1, <1>3, <1>5, <2>2 DEF Effects
  <2> QED BY <1>4, <1>7, <2>3
<1>8. CASE t = "paymentIntents"
  <2>1. Home[t] = 4 BY <1>8 DEF Home
  <2>2. Statement("createTable", t) \in Statements(4) BY <2>1, TriplesIn
  <2>3. 4 \notin d.recorded BY <1>1, <1>3, <1>5, <2>2 DEF Effects
  <2> QED BY <1>4, <1>8, <2>3
<1>9. CASE t = "rateLimits"
  <2>1. Statement("addKeyInSavepoint", "rateLimits") \in Statements(5) BY EffectsIn
  <2>2. 5 \notin d.recorded BY <1>1, <1>2, <1>5, <1>9, <2>1 DEF Effects
  <2> QED BY <1>4, <1>9, <2>2
<1> QED BY <1>4, <1>6, <1>7, <1>8, <1>9

(* What the next statement leads to is the one after it.                    *)
LEMMA ThenNext ==
    ASSUME IInv, NEW r \in Runner, NEW do \in DOMAIN Leads, Ready(r, do)
    PROVE  At(Advanced(runner[r], 1), Leads[do], Subject(r))
<1> DEFINE R == runner[r]
           t == Subject(r)
           q == R.todo
           p == Advanced(R, 1).todo
<1>1. RunOK(R, client) /\ q # <<>> /\ q[1] = Statement(do, t) BY SendsNext DEF Ready
<1>2. q[1].do = do /\ q[1].table = t BY <1>1 DEF Statement
<1>3. 2 \in 1..Len(q) /\ q[2] = Statement(Leads[do], t)
  <2> HIDE DEF R, t
  <2> QED BY <1>1, <1>2, LedBy
<1>4. q \in Seq(AllStatements) /\ p = SubSeq(q, 1 + 1, Len(q))
  <2>1. DOMAIN R = RunFields BY <1>1 DEF RunOK
  <2>2. p = SubSeq(q, 1 + 1, Len(q)) BY <2>1 DEF Advanced, RunFields
  <2>3. q \in Seq(AllStatements)
    <3> HIDE DEF R
    <3> QED BY <1>1, TodoIsOf
  <2> QED BY <2>2, <2>3
<1>5. q \in Seq(AllStatements) /\ p = SubSeq(q, 2, Len(q)) /\ 2 \in 1..Len(q) BY <1>3, <1>4
<1>6. p # <<>> /\ p[1] = q[2]
  <2> HIDE DEF q, p
  <2>1. Len(q) \in Nat /\ Len(q) >= 2 BY <1>5
  <2>2. Len(p) = Len(q) - 1 /\ p[1] = q[2] BY <1>5, <2>1
  <2> QED BY <2>1, <2>2
<1> QED BY <1>3, <1>6 DEF At

(* Without their table, there are no attempts.                              *)
LEMMA NotTwice ==
    ASSUME NEW d, NEW f, DbOK(d, f), d.tables["transactionAttempts"] = NoTable
    PROVE  ~Twice(d)
<1> SUFFICES ASSUME Twice(d) PROVE FALSE OBVIOUS
<1>1. PICK p \in d.payments : d.attempts[p] > 1 BY DEF Twice
<1>2. d.attempts[p] \in Nat BY <1>1 DEF DbOK, DbShape
<1>3. d.attempts[p] > 0 BY <1>1, <1>2
<1> QED BY <1>3 DEF DbOK, RowsMade

LEMMA CreateTableHolds ==
    ASSUME IInv, NEW r \in Runner, CreateTable(r)
    PROVE  IInv'
<1> DEFINE R == runner[r]
           t == Subject(r)
           cs == KnexTable[t].columns
           x == TableOf(cs, {})
           K == db.keyless \cup {t}
           P == Advanced(R, 1)
<1>1. Ready(r, "createTable") BY DEF CreateTable
<1>2. /\ DbOK(db, first) /\ RunOK(R, client) /\ R.todo # <<>>
      /\ R.todo[1] = Statement("createTable", t) /\ 1 \in DOMAIN R.todo
  BY <1>1, SendsNext DEF Ready
<1>3. R.adapter = "knex" /\ t \in Tables BY <1>1, SubjectIs DEF TableOfVerb, Plain
<1>4. DbShape(db) /\ TablesMade(db) /\ RowsMade(db) BY <1>2 DEF DbOK
<1>5. CASE db.tables[t] # NoTable
  <2>1. Fail(r) BY <1>5 DEF CreateTable, Exists
  <2> QED BY <1>1, <2>1, FailsAsWell
<1>6. CASE db.tables[t] = NoTable
  <2> DEFINE e == [db EXCEPT !.tables[t] = x, !.keyless = @ \cup {t}]
  <2>1. Done(r, e) BY <1>6 DEF CreateTable, Exists
  <2>2. e = Replacing(db, t, x, K) BY DEF Replacing
  <2>3. /\ DOMAIN e = Fields /\ e.keyless = K
        /\ e.tables = [db.tables EXCEPT ![t] = x]
        /\ e.recorded = db.recorded /\ e.payments = db.payments /\ e.attempts = db.attempts /\ e.limits = db.limits
        /\ e.tables[t] = x /\ \A u \in Tables : u # t => e.tables[u] = db.tables[u]
    <3> HIDE DEF x, e, t, K
    <3> QED BY <1>3, <1>4, <2>2, TableReplaced
  <2>4. x.columns = cs /\ x.keys = {} BY DEF TableOf
  <2>5. db.tables[t].columns = {} /\ db.tables[t].keys = {} BY <1>6 DEF NoTable, TableOf
  <2>6. ~("transactionAttempts" = t /\ Twice(db)) BY <1>2, <1>6, NotTwice
  <2>7. DbOK(e, first) /\ Grown(db, e, first)
    <3> DEFINE ks == {}
    <3>1. e.tables = [db.tables EXCEPT ![t] = TableOf(cs, ks)] BY <2>3
    <3>2. K \subseteq Tables /\ t \in K /\ \A u \in db.keyless : u # t => u \in K BY <1>3, <1>4 DEF DbShape
    <3>3. ~OldLimits(db) \/ t # "transactions" BY <1>6 DEF OldLimits
    <3>4. db.tables[t].columns \subseteq cs /\ db.tables[t].keys \subseteq ks /\ KnexTable[t].columns \subseteq cs
      BY <2>5
    <3>5. t = "transactionAttempts" /\ Twice(db) => t \in K /\ AttemptNumberKey \notin ks BY <2>6
    <3>6. /\ DOMAIN e = Fields /\ e.keyless = K
          /\ e.recorded = db.recorded /\ e.payments = db.payments /\ e.attempts = db.attempts
          /\ e.limits = db.limits
      BY <2>3
    <3>7. db.tables[t] = NoTable BY <1>6
    <3> HIDE DEF e, t, cs, x, R, K, ks
    <3> QED BY <1>2, <1>3, <3>1, <3>2, <3>3, <3>4, <3>5, <3>6, <3>7, WiderTable
  <2> HIDE DEF e, x
  <2>8. Effects(e, {Statement("createTable", t)}) BY <2>3, <2>4, EffectsOfOne
  <2>9. OnlyAt(P, "createTable", t) /\ ToSet(P.todo) = ToSet(R.todo) \ {Statement("createTable", t)}
    BY <1>1, SendsOnly
  <2>10. \A u : /\ At(P, "createKeys", u) => u = t
                /\ ~At(P, "createControl", u) /\ ~At(P, "createTable", u) /\ ~At(P, "insertAttempts", u)
                /\ ~At(P, "addColumn", u) /\ ~At(P, "findDuplicates", u) /\ ~At(P, "deleteDuplicates", u)
    <3> HIDE DEF P, R, t
    <3> QED BY <2>9, OnlyRun
  <2>11. Asserted(e, P, first)
    <3>1. At(P, "createKeys", "transactions") => ~NewTransactions(e)
      <4> SUFFICES ASSUME At(P, "createKeys", "transactions") PROVE ~NewTransactions(e) OBVIOUS
      <4>1. t = "transactions" BY <2>10
      <4>2. "pos_id" \notin KnexTable["transactions"].columns
        BY DEF KnexTable, createTransactionsTable, TableOf, TIMESTAMPS
      <4> QED BY <2>3, <2>4, <4>1, <4>2 DEF NewTransactions
    <3> QED BY <2>10, <3>1 DEF Asserted
  <2>12. ASSUME Quiet(db, R) PROVE Quiet(e, P)
    <3>1. Ahead(P) \cap e.recorded = {}
      <4>1. Ahead(P) \subseteq Ahead(R) BY <1>1, AheadFewer
      <4> QED BY <2>3, <2>12, <4>1 DEF Quiet
    <3>2. t = "rateLimits" => Len(e.limits) = 0
      <4>1. Len(db.limits) \in Nat BY <1>4, LimitsAre DEF DbShape
      <4> QED BY <1>4, <1>6, <2>3, <4>1 DEF RowsMade
    <3>3. t = "transactionAttempts" => \A p \in e.payments : e.attempts[p] = 0
      <4>1. \A p \in db.payments : db.attempts[p] \in Nat BY <1>4 DEF DbShape
      <4> QED BY <1>4, <1>6, <2>3, <4>1 DEF RowsMade
    <3>4. e.tables[t].keys = {} BY <2>3, <2>4
    <3> QED BY <2>10, <3>1, <3>2, <3>3, <3>4 DEF Quiet
  <2>13. ASSUME Settled(db, R, first) PROVE Settled(e, P, first)
    <3>1. \A u : ~At(R, "createKeys", u) /\ ~At(R, "deleteDuplicates", u) BY <1>2 DEF At, Statement
    <3>2. db.keyless = {}
      <4> HIDE DEF R
      <4> QED BY <1>2, <1>3, <2>13, <3>1, KnexKeyless
    <3>3. e.keyless = {t} BY <2>3, <3>2
    <3>4. At(P, "createKeys", t) BY <1>1, LeadsTo, ThenNext
    <3>5. t \in DOMAIN KeyedBy => KeyedBy[t] \cap e.recorded = {}
      <4> HIDE DEF t
      <4> QED BY <1>2, <1>3, <1>6, <2>3, Unkeyed
    <3>6. SumHits(e.limits) = SumHits(first.limits) BY <2>3, <2>13, <3>1 DEF Settled
    <3> QED BY <2>10, <3>3, <3>4, <3>5, <3>6 DEF Settled, Making
  <2>14. e.keyless \subseteq db.keyless \cup {u \in Tables : db.tables[u] = NoTable} BY <1>3, <1>6, <2>3
  <2>15. \A u \in {"transactions", "requestMetadata"} : NewKey[u] \in e.tables[u].keys =>
           NewKey[u] \in db.tables[u].keys
    <3> SUFFICES ASSUME NEW u \in {"transactions", "requestMetadata"}, NewKey[u] \in e.tables[u].keys
                 PROVE  NewKey[u] \in db.tables[u].keys
      OBVIOUS
    <3>1. u \in Tables BY TheTables
    <3>2. u # t BY <2>3, <2>4
    <3> QED BY <2>3, <3>1, <3>2
  <2> QED BY <1>1, <2>1, <2>7, <2>8, <2>11, <2>12, <2>13, <2>14, <2>15, DoneHolds
<1> QED BY <1>5, <1>6
---------------------------------------------------------------------------
(* The attempts of the old payments.                                        *)

Backfilled(d, A) == [d EXCEPT !.attempts = A]

LEMMA BackfilledIs ==
    ASSUME NEW d, DbShape(d), NEW A, NEW e, e = Backfilled(d, A)
    PROVE  /\ DOMAIN e = Fields /\ e.attempts = A
           /\ e.tables = d.tables /\ e.keyless = d.keyless /\ e.recorded = d.recorded
           /\ e.payments = d.payments /\ e.limits = d.limits
<1>1. DOMAIN d = Fields BY DEF DbShape, TablesOf
<1> QED BY <1>1 DEF Backfilled, Fields

LEMMA BackfilledHolds ==
    ASSUME NEW d, NEW f, DbOK(d, f), NEW A \in [Payment -> Nat], \A p \in d.payments : A[p] = d.attempts[p] + 1,
           d.tables["transactionAttempts"] # NoTable,
           (\E p \in d.payments : d.attempts[p] > 0) =>
             /\ "transactionAttempts" \in d.keyless
             /\ AttemptNumberKey \notin d.tables["transactionAttempts"].keys,
           NEW e, e = Backfilled(d, A)
    PROVE  DbOK(e, f) /\ Grown(d, e, f) /\ Effects(e, {Statement("insertAttempts", "transactionAttempts")})
<1>1. DbShape(d) /\ TablesMade(d) /\ RowsMade(d) /\ NotMilder(d, f) BY DEF DbOK
<1>2. /\ DOMAIN e = Fields /\ e.attempts = A
      /\ e.tables = d.tables /\ e.keyless = d.keyless /\ e.recorded = d.recorded
      /\ e.payments = d.payments /\ e.limits = d.limits
  BY <1>1, BackfilledIs
<1>3. /\ TablesMade(e) /\ TablesOf(e)
      /\ \A t \in Tables : /\ d.tables[t].columns \subseteq e.tables[t].columns
                           /\ d.tables[t].keys \subseteq e.tables[t].keys
      /\ d.tables["transactions"] # NoTable =>
           ((NewTransactions(d) => NewKey["transactions"] \in d.tables["transactions"].keys) =>
            (NewTransactions(e) => NewKey["transactions"] \in e.tables["transactions"].keys))
  BY <1>2, SameTables
<1>4. \A p \in d.payments : p \in Payment /\ d.attempts[p] \in Nat BY <1>1 DEF DbShape
<1>5. DbShape(e) BY <1>1, <1>2, <1>3 DEF DbShape
<1>6. \A p \in d.payments : A[p] >= d.attempts[p] /\ A[p] >= 1 BY <1>4
<1>7. Len(d.limits) \in Nat BY <1>1, LimitsAre DEF DbShape
<1>8. Grown(d, e, f)
  <2>1. (NoContext(d) => NoContext(e)) /\ (Top(d, f) => Top(e, f)) BY <1>2 DEF NoContext, Top
  <2>2. Len(e.limits) <= Len(d.limits) BY <1>2, <1>7
  <2> QED BY <1>2, <1>3, <1>6, <2>1, <2>2 DEF Grown
<1>9. RowsMade(e)
  <2>1. \A p, q \in e.payments : e.attempts[p] = e.attempts[q] BY <1>1, <1>2, <1>4 DEF RowsMade
  <2>2. Twice(e) => \E p \in d.payments : d.attempts[p] > 0
    <3> SUFFICES ASSUME NEW p \in d.payments, A[p] > 1 PROVE d.attempts[p] > 0 BY <1>2 DEF Twice
    <3>1. d.attempts[p] \in Nat /\ A[p] = d.attempts[p] + 1 BY <1>4
    <3> QED BY <3>1
  <2>3. Len(e.limits) > 0 => e.tables["rateLimits"] # NoTable BY <1>1, <1>2 DEF RowsMade
  <2> QED BY <1>2, <2>1, <2>2, <2>3 DEF RowsMade
<1>10. NotMilder(e, f) BY <1>1, <1>2 DEF NotMilder
<1>11. Effects(e, UNION {Statements(m) : m \in e.recorded})
  <2> DEFINE all == UNION {Statements(m) : m \in d.recorded}
  <2>1. Effects(d, all) BY DEF DbOK
  <2> HIDE DEF all
  <2>2. Effects(e, all) BY <1>1, <1>5, <1>8, <2>1, EffectsGrow
  <2> QED BY <1>2, <2>2 DEF all
<1>12. Effects(e, {Statement("insertAttempts", "transactionAttempts")}) BY <1>2, <1>6, EffectsOfOne
<1> QED BY <1>3, <1>5, <1>8, <1>9, <1>10, <1>11, <1>12 DEF DbOK

LEMMA InsertAttemptsHolds ==
    ASSUME IInv, NEW r \in Runner, InsertAttempts(r)
    PROVE  IInv'
<1> DEFINE R == runner[r]
           t == "transactionAttempts"
           A == [p \in Payment |-> IF p \in db.payments THEN db.attempts[p] + 1 ELSE db.attempts[p]]
           e == [db EXCEPT !.attempts = A]
           made == \E p \in db.payments : db.attempts[p] > 0
<1>1. Ready(r, "insertAttempts") BY DEF InsertAttempts
<1>2. /\ DbOK(db, first) /\ RunOK(R, client)
      /\ R.todo[1] = Statement("insertAttempts", Subject(r)) /\ R.todo # <<>> /\ Holds(db, R, first)
  BY <1>1, SendsNext DEF Ready
<1>3. R.adapter = "knex" /\ R.todo[1] \in KnexStatements /\ Subject(r) = t
  BY <1>1, SubjectIs DEF TableOfVerb, Plain
<1>4. DbShape(db) /\ TablesMade(db) BY <1>2 DEF DbOK
<1>5. CASE made /\ Has(t, AttemptNumberKey)
  <2>1. Fail(r) BY <1>5 DEF InsertAttempts, AttemptNumberKey
  <2> QED BY <1>1, <2>1, FailsAsWell
<1>6. CASE ~(made /\ Has(t, AttemptNumberKey))
  <2>1. Done(r, e)
    <3>1. [p \in Payment |-> IF p \in db.payments THEN db.attempts[p] + 1 ELSE db.attempts[p]] = A OBVIOUS
    <3> QED BY <1>6 DEF InsertAttempts, AttemptNumberKey
  <2>2. t \in Tables BY TheTables
  <2>3. KnexTable[t].columns \subseteq db.tables[t].columns /\ db.tables[t] # NoTable
    <3>1. Base["transactionAttempts"] = 310 BY DEF Base
    <3>2. Rank(Statement("createTable", t)) = 312 BY <2>2, <3>1, Ranks
    <3>3. Rank(R.todo[1]) = 322 BY <1>2, <1>3, Ranks
    <3>4. Rank(Statement("createTable", t)) < Rank(R.todo[1]) BY <3>2, <3>3
    <3> HIDE DEF R, t
    <3> QED BY <1>2, <1>3, <2>2, <3>4, TableBefore
  <2>4. made => t \in db.keyless /\ AttemptNumberKey \notin db.tables[t].keys
    <3>1. made => AttemptNumberKey \notin db.tables[t].keys BY <1>6 DEF Has
    <3>2. KnexUniques(t) \subseteq db.tables[t].keys \/ t \in db.keyless BY <1>4, <2>2, <2>3 DEF TablesMade
    <3> QED BY <3>1, <3>2, UniqueKeysAre
  <2>5. \A p \in Payment : db.attempts[p] \in Nat BY <1>4 DEF DbShape
  <2>6. A \in [Payment -> Nat] /\ \A p \in db.payments : A[p] = db.attempts[p] + 1
    <3>1. \A p \in db.payments : p \in Payment BY <1>4 DEF DbShape
    <3> QED BY <2>5, <3>1
  <2>7. e = Backfilled(db, A) BY DEF Backfilled
  <2> HIDE DEF A, e
  <2>8. DbOK(e, first) /\ Grown(db, e, first) /\ Effects(e, {Statement("insertAttempts", t)})
    BY <1>2, <2>3, <2>4, <2>6, <2>7, BackfilledHolds
  <2>9. /\ e.tables = db.tables /\ e.keyless = db.keyless /\ e.recorded = db.recorded /\ e.limits = db.limits
    BY <1>4, <2>7, BackfilledIs
  <2>10. Ahead(Advanced(R, 1)) \cap e.recorded \subseteq Ahead(R) \cap db.recorded BY <1>1, <2>9, AheadFewer
  <2>11. Settled(db, R, first) => Settled(e, Advanced(R, 1), first) BY <1>1, <2>9, SettledOne
  <2>12. "insertAttempts" \notin DOMAIN Leads BY LeadsTo
  <2>13. \A u \in {"transactions", "requestMetadata"} : NewKey[u] \in e.tables[u].keys =>
           NewKey[u] \in db.tables[u].keys
    BY <2>9
  <2>14. e.keyless \subseteq db.keyless \cup {u \in Tables : db.tables[u] = NoTable} BY <2>9
  <2> QED BY <1>1, <1>3, <2>1, <2>8, <2>10, <2>11, <2>12, <2>13, <2>14, BareDone
<1> QED BY <1>5, <1>6

---------------------------------------------------------------------------
(* The rows of a limit.                                                     *)

Relimited(d, L) == [d EXCEPT !.limits = L]

LEMMA RelimitedHolds ==
    ASSUME NEW d, NEW f, DbOK(d, f), NEW L \in Limits, NEW e, e = Relimited(d, L), Len(L) <= Len(d.limits),
           NoContext(d) => NoContext(e), Top(d, f) => Top(e, f), NotMilder(e, f)
    PROVE  /\ DbOK(e, f) /\ Grown(d, e, f) /\ DbShape(d) /\ e.limits = L
           /\ e.tables = d.tables /\ e.keyless = d.keyless /\ e.recorded = d.recorded
<1>1. DbShape(d) /\ TablesMade(d) /\ RowsMade(d) BY DEF DbOK
<1>2. DOMAIN d = Fields BY <1>1 DEF DbShape, TablesOf
<1>3. /\ DOMAIN e = Fields /\ e.limits = L
      /\ e.tables = d.tables /\ e.keyless = d.keyless /\ e.recorded = d.recorded
      /\ e.payments = d.payments /\ e.attempts = d.attempts
  BY <1>2 DEF Relimited, Fields
<1>4. /\ TablesMade(e) /\ TablesOf(e)
      /\ \A t \in Tables : /\ d.tables[t].columns \subseteq e.tables[t].columns
                           /\ d.tables[t].keys \subseteq e.tables[t].keys
      /\ d.tables["transactions"] # NoTable =>
           ((NewTransactions(d) => NewKey["transactions"] \in d.tables["transactions"].keys) =>
            (NewTransactions(e) => NewKey["transactions"] \in e.tables["transactions"].keys))
  BY <1>3, SameTables
<1>5. DbShape(e) BY <1>1, <1>3, <1>4 DEF DbShape
<1>6. Grown(d, e, f)
  <2>1. \A p \in d.payments : d.attempts[p] \in Nat BY <1>1 DEF DbShape
  <2>2. \A p \in d.payments : e.attempts[p] >= d.attempts[p] BY <1>3, <2>1
  <2> QED BY <1>3, <1>4, <2>2 DEF Grown
<1>7. RowsMade(e)
  <2>1. Len(L) > 0 => Len(d.limits) > 0
    <3>1. d.limits \in Limits BY <1>1 DEF DbShape
    <3>2. Len(L) \in Nat /\ Len(d.limits) \in Nat BY <3>1, LimitsAre
    <3> QED BY <3>2
  <2> QED BY <1>1, <1>3, <2>1 DEF RowsMade, Twice
<1>8. Effects(e, UNION {Statements(m) : m \in e.recorded})
  <2> DEFINE all == UNION {Statements(m) : m \in d.recorded}
  <2>1. Effects(d, all) BY DEF DbOK
  <2> HIDE DEF all
  <2>2. Effects(e, all) BY <1>1, <1>5, <1>6, <2>1, EffectsGrow
  <2> QED BY <1>3, <2>2 DEF all
<1> QED BY <1>1, <1>3, <1>4, <1>5, <1>6, <1>7, <1>8 DEF DbOK

(* What the limits' statements share.                                       *)
LEMMA LimitsHold ==
    ASSUME IInv, NEW r \in Runner, NEW do, Ready(r, do), do \in {"fillContexts", "updateKept"},
           NEW L \in Limits, NEW e, e = Relimited(db, L), Done(r, e),
           DbOK(e, first), Grown(db, e, first),
           e.tables = db.tables, e.keyless = db.keyless, e.recorded = db.recorded,
           do = "fillContexts" => NoContext(e), do = "updateKept" => Top(e, first),
           Settled(db, runner[r], first) => Settled(e, Advanced(runner[r], 1), first)
    PROVE  IInv'
<1> DEFINE P == Advanced(runner[r], 1)
           t == Subject(r)
<1>1. do # "selectExecuted" /\ do \notin Telling BY DEF Telling
<1>2. Effects(e, {Statement(do, t)})
  <2>1. \A s \in {Statement(do, t)} : s.do \notin Telling BY <1>1 DEF Statement
  <2> QED BY <2>1, EffectsNone
<1>3. OnlyAt(P, do, t) BY <1>1, SendsOnly
<1>4. \A u : /\ ~At(P, "createControl", u) /\ ~At(P, "createTable", u) /\ ~At(P, "createKeys", u)
             /\ ~At(P, "insertAttempts", u) /\ ~At(P, "addColumn", u)
             /\ At(P, "findDuplicates", u) => do = "fillContexts"
             /\ At(P, "deleteDuplicates", u) => do = "updateKept"
  <2> HIDE DEF P, t
  <2> QED BY <1>3, OnlyRun
<1>5. Asserted(e, P, first) BY <1>4 DEF Asserted
<1>6. Quiet(db, runner[r]) => Quiet(e, P)
  <2>1. Ahead(P) \subseteq Ahead(runner[r]) BY <1>1, AheadFewer
  <2> QED BY <1>4, <2>1 DEF Quiet
<1>7. e.keyless \subseteq db.keyless \cup {u \in Tables : db.tables[u] = NoTable} OBVIOUS
<1>8. \A u \in {"transactions", "requestMetadata"} : NewKey[u] \in e.tables[u].keys =>
        NewKey[u] \in db.tables[u].keys
  OBVIOUS
<1> QED BY <1>1, <1>2, <1>5, <1>6, <1>7, <1>8, DoneHolds

LEMMA FillContextsHolds ==
    ASSUME IInv, NEW r \in Runner, FillContexts(r)
    PROVE  IInv'
<1> DEFINE q == db.limits
           n == Len(q)
           L == [i \in DOMAIN q |-> [q[i] EXCEPT !.context = ""]]
           e == [db EXCEPT !.limits = L]
<1>1. Ready(r, "fillContexts") /\ Done(r, e) BY DEF FillContexts
<1>2. DbOK(db, first) BY <1>1, SendsNext
<1>3. q \in Limits /\ NotMilder(db, first) BY <1>2 DEF DbOK, DbShape
<1>4. n \in Nat /\ DOMAIN q = 1..n /\ \A i \in 1..n : q[i] \in LimitRow BY <1>3, LimitsAre
<1>5. \A i \in 1..n : L[i] \in LimitRow /\ L[i].context = "" /\ L[i].hits = q[i].hits /\ L[i].blocked = q[i].blocked
  BY <1>4 DEF LimitRow
<1>6. L \in Limits /\ Len(L) = n /\ DOMAIN L = 1..n
  <2>1. DOMAIN L = 1..n /\ L = [i \in 1..n |-> L[i]] BY <1>4
  <2> HIDE DEF L
  <2>2. L \in [1..n -> LimitRow] BY <1>5, <2>1
  <2>3. L \in Seq(LimitRow) BY <1>4, <2>2
  <2> QED BY <1>4, <2>1, <2>3 DEF Limits
<1>7. SumHits(L) = SumHits(q)
  <2>1. Hits(L) = Hits(q) /\ DOMAIN L = DOMAIN q
    <3> HIDE DEF L, q, n
    <3> QED BY <1>4, <1>5, <1>6 DEF Hits
  <2>2. SumHits(L) = SumOver(Hits(L), DOMAIN L) /\ SumHits(q) = SumOver(Hits(q), DOMAIN q) BY SumHitsIsSum
  <2> QED BY <2>1, <2>2
<1>8. Latest(L) = Latest(q)
  <2> HIDE DEF L, q, n
  <2>1. /\ Latest(q) \in Nat /\ \A i \in DOMAIN q : q[i].blocked <= Latest(q)
        /\ Latest(q) = 0 \/ \E i \in DOMAIN q : q[i].blocked = Latest(q)
    BY <1>3, LatestBounds
  <2>2. \A i \in DOMAIN L : L[i].blocked <= Latest(q) BY <1>4, <1>5, <1>6, <2>1
  <2>3. Latest(q) = 0 \/ \E i \in DOMAIN L : L[i].blocked = Latest(q) BY <1>4, <1>5, <1>6, <2>1
  <2> QED BY <1>6, <2>1, <2>2, <2>3, LatestIs
<1>9. e = Relimited(db, L) /\ e.limits = L
  <2>1. DOMAIN db = Fields BY <1>2 DEF DbOK, DbShape, TablesOf
  <2> HIDE DEF L
  <2> QED BY <2>1 DEF Relimited, Fields
<1> HIDE DEF L, e
<1>10. NoContext(e) BY <1>5, <1>6, <1>9 DEF NoContext
<1>11. Top(db, first) => Top(e, first)
  <2> HIDE DEF n
  <2>1. n >= 1 => 1 \in 1..n BY <1>4
  <2>2. n = Len(q) BY DEF n
  <2> QED BY <1>4, <1>5, <1>6, <1>9, <2>1, <2>2 DEF Top
<1>12. NotMilder(e, first) BY <1>3, <1>7, <1>8, <1>9 DEF NotMilder
<1>13. Len(L) <= Len(db.limits) BY <1>4, <1>6
<1>14. /\ DbOK(e, first) /\ Grown(db, e, first)
       /\ e.tables = db.tables /\ e.keyless = db.keyless /\ e.recorded = db.recorded
  BY <1>2, <1>6, <1>9, <1>10, <1>11, <1>12, <1>13, RelimitedHolds
<1>15. Settled(db, runner[r], first) => Settled(e, Advanced(runner[r], 1), first)
  BY <1>1, <1>7, <1>9, <1>14, SettledOne
<1> QED BY <1>1, <1>6, <1>9, <1>10, <1>14, <1>15, LimitsHold

LEMMA UpdateKeptHolds ==
    ASSUME IInv, NEW r \in Runner, UpdateKept(r)
    PROVE  IInv'
<1> DEFINE R == runner[r]
           q == db.limits
           n == Len(q)
           x == merged(q)
           L == [q EXCEPT ![1] = x]
           e == [db EXCEPT !.limits = L]
<1>1. Ready(r, "updateKept") BY DEF UpdateKept
<1>2. DbOK(db, first) /\ RunOK(R, client) /\ R.todo # <<>> /\ R.todo[1] = Statement("updateKept", Subject(r))
  BY <1>1, SendsNext DEF Ready
<1>3. q \in Limits /\ NotMilder(db, first) BY <1>2 DEF DbOK, DbShape
<1>4. n \in Nat /\ DOMAIN q = 1..n /\ \A i \in 1..n : q[i] \in LimitRow BY <1>3, LimitsAre
<1>5. CASE n < 2 BY <1>5, FewRowsHold
<1>6. CASE ~(n < 2)
  <2>1. Done(r, e)
    <3>1. [db EXCEPT !.limits[1] = merged(db.limits)] = e OBVIOUS
    <3> QED BY <1>6, <3>1 DEF UpdateKept
  <2>2. n >= 2 /\ 1 \in 1..n BY <1>4, <1>6
  <2>3. /\ SumHits(q) \in Nat /\ Latest(q) \in Nat
        /\ \A i \in 1..n : q[i].blocked <= Latest(q)
    BY <1>3, <1>4, HitsSum, LatestBounds
  <2>4. x \in LimitRow /\ x.context = "" /\ x.hits = SumHits(q) /\ x.blocked = Latest(q)
    BY <2>3 DEF merged, LimitRow
  <2> HIDE DEF x
  <2>5. DOMAIN L = 1..n /\ L[1] = x /\ \A i \in 1..n : i # 1 => L[i] = q[i] BY <1>4, <2>2
  <2>6. L \in Limits /\ Len(L) = n
    <3>1. L = [i \in 1..n |-> L[i]] /\ \A i \in 1..n : L[i] \in LimitRow BY <1>4, <2>4, <2>5
    <3> HIDE DEF L, q, n
    <3>2. L \in [1..n -> LimitRow] BY <2>5, <3>1
    <3>3. L \in Seq(LimitRow) BY <1>4, <3>2
    <3> QED BY <1>4, <2>5, <3>3 DEF Limits
  <2>7. SumHits(L) \in Nat /\ SumHits(L) >= SumHits(q)
    <3> HIDE DEF L
    <3>1. SumHits(L) \in Nat /\ \A i \in DOMAIN L : SumHits(L) >= L[i].hits BY <2>6, HitsSum
    <3> QED BY <2>2, <2>4, <2>5, <3>1
  <2>8. Latest(L) = Latest(q)
    <3> HIDE DEF L, q, n
    <3>1. \A i \in DOMAIN L : L[i].blocked <= Latest(q)
      <4>1. x.blocked <= Latest(q)
        <5>1. x.blocked = Latest(q) BY <2>4
        <5>2. Latest(q) \in Nat BY <2>3
        <5> QED BY <5>1, <5>2
      <4> QED BY <2>3, <2>5, <4>1
    <3>2. \E i \in DOMAIN L : L[i].blocked = Latest(q) BY <2>2, <2>4, <2>5
    <3> QED BY <2>3, <2>6, <3>1, <3>2, LatestIs
  <2>9. e = Relimited(db, L) /\ e.limits = L
    <3>1. DOMAIN db = Fields BY <1>2 DEF DbOK, DbShape, TablesOf
    <3> HIDE DEF L
    <3> QED BY <3>1 DEF Relimited, Fields
  <2> HIDE DEF L, e
  <2>10. NoContext(db) => NoContext(e)
    <3>1. (\A i \in 1..n : q[i].context = "") => \A i \in 1..n : L[i].context = "" BY <2>4, <2>5
    <3> QED BY <1>4, <2>5, <2>9, <3>1 DEF NoContext
  <2>11. Top(e, first)
    <3>1. Len(L) >= 1 BY <2>2, <2>6
    <3>2. L[1].hits = SumHits(q) /\ L[1].blocked = Latest(q) BY <2>4, <2>5
    <3> QED BY <1>3, <2>9, <3>1, <3>2 DEF Top, NotMilder
  <2>12. NotMilder(e, first)
    <3>1. Latest(e.limits) = Latest(first.limits) BY <1>3, <2>8, <2>9 DEF NotMilder
    <3>2. SumHits(first.limits) \in Nat BY <1>3 DEF NotMilder
    <3>3. SumHits(e.limits) >= SumHits(first.limits) BY <1>3, <2>3, <2>7, <2>9, <3>2 DEF NotMilder
    <3> QED BY <3>1, <3>2, <3>3 DEF NotMilder
  <2>13. Len(L) <= Len(db.limits) BY <1>4, <2>6
  <2>14. /\ DbOK(e, first) /\ Grown(db, e, first)
         /\ e.tables = db.tables /\ e.keyless = db.keyless /\ e.recorded = db.recorded
    BY <1>2, <2>6, <2>9, <2>10, <2>11, <2>12, <2>13, RelimitedHolds
  <2>15. ASSUME Settled(db, R, first) PROVE Settled(e, Advanced(R, 1), first)
    <3>1. \A u : ~At(R, "createKeys", u) /\ ~At(R, "deleteDuplicates", u) BY <1>2 DEF At, Statement
    <3>2. R.adapter = "knex" /\ Subject(r) = "rateLimits" BY <1>1, SubjectIs DEF TableOfVerb, Plain
    <3>3. e.keyless = {}
      <4>1. db.keyless = {}
        <5> HIDE DEF R
        <5> QED BY <1>2, <2>15, <3>1, <3>2, KnexKeyless
      <4> QED BY <2>14, <4>1
    <3>4. At(Advanced(R, 1), "deleteDuplicates", "rateLimits") BY <1>1, <3>2, LeadsTo, ThenNext
    <3>5. e.limits[1].hits = SumHits(first.limits)
      <4>1. SumHits(q) = SumHits(first.limits) BY <2>15, <3>1 DEF Settled
      <4> QED BY <2>4, <2>5, <2>9, <4>1
    <3> QED BY <3>3, <3>4, <3>5 DEF Settled
  <2> QED BY <1>1, <2>1, <2>6, <2>9, <2>11, <2>14, <2>15, LimitsHold
<1> QED BY <1>5, <1>6

LEMMA DeleteDuplicatesHolds ==
    ASSUME IInv, NEW r \in Runner, DeleteDuplicates(r)
    PROVE  IInv'
<1> DEFINE R == runner[r]
           q == db.limits
           L == SubSeq(q, 1, 1)
           e == [db EXCEPT !.limits = L]
<1>1. Ready(r, "deleteDuplicates") /\ Done(r, e) BY DEF DeleteDuplicates
<1>2. /\ DbOK(db, first) /\ RunOK(R, client) /\ R.todo # <<>> /\ Holds(db, R, first)
      /\ R.todo[1] = Statement("deleteDuplicates", Subject(r))
  BY <1>1, SendsNext DEF Ready
<1>3. R.adapter = "knex" /\ Subject(r) = "rateLimits" BY <1>1, SubjectIs DEF TableOfVerb, Plain
<1>4. At(R, "deleteDuplicates", "rateLimits") BY <1>2, <1>3 DEF At
<1>5. Top(db, first) BY <1>2, <1>4 DEF Holds, Asserted
<1>6. q \in Limits /\ NotMilder(db, first) BY <1>2 DEF DbOK, DbShape
<1>7. Len(q) \in Nat /\ DOMAIN q = 1..Len(q) /\ \A i \in 1..Len(q) : q[i] \in LimitRow BY <1>6, LimitsAre
<1>8. Len(q) >= 1 /\ 1 \in 1..Len(q) BY <1>5, <1>7 DEF Top
<1>9. L \in Limits /\ Len(L) = 1 /\ DOMAIN L = {1} /\ L[1] = q[1]
  <2> HIDE DEF q
  <2>1. \A i \in 1..1 : q[i] \in LimitRow BY <1>7, <1>8
  <2>2. L \in Seq(LimitRow) /\ Len(L) = 1 /\ L[1] = q[1]
    <3>1. 1 - 1 + 1 = 1 /\ 1 + 1 - 1 = 1 OBVIOUS
    <3> QED BY <2>1, <3>1, SubSeqProperties
  <2>3. DOMAIN L = 1..1
    <3> HIDE DEF L
    <3> QED BY <2>2
  <2> QED BY <2>2, <2>3 DEF Limits
<1>10. e = Relimited(db, L) /\ e.limits = L
  <2>1. DOMAIN db = Fields BY <1>2 DEF DbOK, DbShape, TablesOf
  <2> HIDE DEF L
  <2> QED BY <2>1 DEF Relimited, Fields
<1> HIDE DEF L, e
<1>11. SumHits(L) = q[1].hits BY <1>9, HitsOfOne
<1>12. Latest(L) = q[1].blocked
  <2>1. q[1].blocked \in Nat BY <1>7, <1>8 DEF LimitRow
  <2>2. \A i \in DOMAIN L : L[i].blocked <= q[1].blocked BY <1>9, <2>1
  <2>3. \E i \in DOMAIN L : L[i].blocked = q[1].blocked BY <1>9
  <2> HIDE DEF q
  <2> QED BY <1>9, <2>1, <2>2, <2>3, LatestIs
<1>13. e.limits = L /\ Len(e.limits) = 1 /\ L[1] = q[1]
  <2>1. e.limits = L BY <1>10
  <2>2. Len(L) = 1 /\ L[1] = q[1] BY <1>9
  <2> QED BY <2>1, <2>2
<1>14. NoContext(db) => NoContext(e) BY <1>7, <1>8, <1>9, <1>10 DEF NoContext
<1>15. Top(e, first)
  <2>1. Len(e.limits) >= 1 BY <1>13
  <2>2. e.limits[1] = db.limits[1] BY <1>9, <1>10
  <2> QED BY <1>5, <2>1, <2>2 DEF Top
<1>16. NotMilder(e, first) BY <1>5, <1>6, <1>10, <1>11, <1>12 DEF Top, NotMilder
<1>17. Len(L) <= Len(db.limits) BY <1>7, <1>8, <1>9
<1>18. /\ DbOK(e, first) /\ Grown(db, e, first)
       /\ e.tables = db.tables /\ e.keyless = db.keyless /\ e.recorded = db.recorded
  <2>1. L \in Limits BY <1>9
  <2>2. e = Relimited(db, L) BY <1>10
  <2> QED BY <1>2, <1>14, <1>15, <1>16, <1>17, <2>1, <2>2, RelimitedHolds
<1>19. "deleteDuplicates" \notin DOMAIN Leads BY LeadsTo
<1>20. ASSUME Settled(db, R, first) PROVE Settled(e, Advanced(R, 1), first)
  <2>1. \A u : ~At(R, "createKeys", u) BY <1>2 DEF At, Statement
  <2>2. e.keyless = {}
    <3>1. db.keyless = {}
      <4> HIDE DEF R
      <4> QED BY <1>2, <1>3, <1>20, <2>1, KnexKeyless
    <3> QED BY <1>18, <3>1
  <2>3. \A u : ~At(Advanced(R, 1), "deleteDuplicates", u)
    <3>1. Bare(Advanced(R, 1)) BY <1>1, <1>19, SendsOnly
    <3> QED BY <3>1, BareRun
  <2>4. SumHits(e.limits) = SumHits(first.limits) BY <1>4, <1>10, <1>11, <1>20 DEF Settled
  <2> QED BY <2>2, <2>3, <2>4 DEF Settled
<1>21. Effects(e, {Statement("deleteDuplicates", Subject(r))})
  <2>1. Len(e.limits) <= 1 BY <1>13
  <2> QED BY <2>1, EffectsOfOne
<1>22. Ahead(Advanced(R, 1)) \cap e.recorded \subseteq Ahead(R) \cap db.recorded BY <1>1, <1>18, AheadFewer
<1>23. e.keyless \subseteq db.keyless \cup {u \in Tables : db.tables[u] = NoTable} BY <1>18
<1>24. \A u \in {"transactions", "requestMetadata"} : NewKey[u] \in e.tables[u].keys =>
         NewKey[u] \in db.tables[u].keys
  BY <1>18
<1> QED BY <1>1, <1>18, <1>19, <1>20, <1>21, <1>22, <1>23, <1>24, BareDone

---------------------------------------------------------------------------
(* The statements of the Drizzle adapter.                                   *)

LEMMA SpecsAre ==
    \A t \in Tables :
        /\ KnexTable[t].columns \subseteq tableSpec[t].columns
        /\ KnexUniques(t) \subseteq UniqueKeys(t) /\ UniqueKeys(t) \subseteq tableSpec[t].keys
        /\ inlineUniques(t) \subseteq tableSpec[t].keys
        /\ t \in {"transactions", "rateLimits", "transactionAttempts"} => inlineUniques(t) = {}
<1>1. ASSUME NEW t \in Tables PROVE KnexTable[t].columns \subseteq tableSpec[t].columns
  <2>1. CASE t = "transactions"
    BY <2>1 DEF KnexTable, tableSpec, createTransactionsTable, transactions, CUSTOMER_COLUMNS, TableOf, TIMESTAMPS
  <2>2. CASE t = "transactionItems"
    BY <2>2 DEF KnexTable, tableSpec, createTransactionItemsTable, transactionItems, TableOf, TIMESTAMPS
  <2>3. CASE t = "invoices"
    BY <2>3 DEF KnexTable, tableSpec, createInvoicesTable, invoices, TableOf, TIMESTAMPS
  <2>4. CASE t = "requestMetadata"
    BY <2>4 DEF KnexTable, tableSpec, createRequestMetadataTable, requestMetadata, TableOf, TIMESTAMPS
  <2>5. CASE t = "rateLimits"
    BY <2>5 DEF KnexTable, tableSpec, createRateLimitsTable, rateLimits, TableOf, TIMESTAMPS
  <2>6. CASE t = "blacklist"
    BY <2>6 DEF KnexTable, tableSpec, createBlacklistTable, blacklist, TableOf, TIMESTAMPS
  <2>7. CASE t = "transactionLogs"
    BY <2>7 DEF KnexTable, tableSpec, createTransactionLogsTable, transactionLogs, TableOf, TIMESTAMPS
  <2>8. CASE t = "transactionAttempts"
    BY <2>8 DEF KnexTable, tableSpec, createTransactionAttemptsTable, transactionAttempts, TableOf, TIMESTAMPS
  <2>9. CASE t = "paymentIntents"
    BY <2>9 DEF KnexTable, tableSpec, createPaymentIntentsTable, paymentIntents, TableOf, TIMESTAMPS
  <2> QED BY <2>1, <2>2, <2>3, <2>4, <2>5, <2>6, <2>7, <2>8, <2>9, TheTables
<1>2. ASSUME NEW t \in Tables
      PROVE  KnexUniques(t) \subseteq UniqueKeys(t) /\ UniqueKeys(t) \subseteq tableSpec[t].keys
  <2>1. UniqueKeys(t) \subseteq tableSpec[t].keys BY DEF UniqueKeys
  <2>2. CASE t = "transactions" BY <2>1, <2>2, UniqueKeysAre
  <2>3. CASE t # "transactions" BY <2>1, <2>3, UniqueKeysAre
  <2> QED BY <2>1, <2>2, <2>3
<1>3. ASSUME NEW t \in Tables PROVE inlineUniques(t) \subseteq tableSpec[t].keys
  <2>1. CASE t = "paymentIntents"
    BY <2>1 DEF inlineUniques, tableSpec, paymentIntents, TableOf, Uniques
  <2>2. CASE t = "invoices" BY <2>2 DEF inlineUniques, tableSpec, invoices, TableOf, Uniques
  <2>3. CASE t # "paymentIntents" /\ t # "invoices" BY <2>3 DEF inlineUniques
  <2> QED BY <2>1, <2>2, <2>3
<1>4. \A t \in {"transactions", "rateLimits", "transactionAttempts"} : inlineUniques(t) = {} BY DEF inlineUniques
<1> QED BY <1>1, <1>2, <1>3, <1>4

LEMMA CreateIfNotExistsHolds ==
    ASSUME IInv, NEW r \in Runner, CreateIfNotExists(r)
    PROVE  IInv'
<1> DEFINE R == runner[r]
           t == Subject(r)
           cs == tableSpec[t].columns
           ks == IF client = "mysql2" THEN tableSpec[t].keys ELSE inlineUniques(t)
           x == TableOf(cs, ks)
           K == IF ks = tableSpec[t].keys THEN db.keyless ELSE db.keyless \cup {t}
           e == [db EXCEPT !.tables[t] = x, !.keyless = K]
           P == Advanced(R, 1)
           S == {Statement("createIfNotExists", t)}
<1>1. Ready(r, "createIfNotExists") /\ Done(r, IF Exists(t) THEN db ELSE e) BY DEF CreateIfNotExists
<1>2. /\ DbOK(db, first) /\ RunOK(R, client) /\ R.todo # <<>>
      /\ R.todo[1] = Statement("createIfNotExists", t) /\ R.todo[1] \in ToSet(R.todo)
  BY <1>1, SendsNext DEF Ready
<1>3. R.adapter = "drizzle" /\ t \in Tables BY <1>1, SubjectIs DEF TableOfVerb
<1>4. DbShape(db) BY <1>2 DEF DbOK
<1>5. \A s \in S : s.do \notin Telling BY DEF Statement, Telling
<1>6. "createIfNotExists" \notin DOMAIN Leads BY LeadsTo
<1>7. CASE db.tables[t] # NoTable
  <2>1. db' = db /\ Proceed(r, 0) /\ Kept BY <1>1, <1>7 DEF Done, Exists
  <2> QED BY <1>1, <1>5, <2>1, EffectsNone, StillOne
<1>8. CASE db.tables[t] = NoTable
  <2>1. Done(r, e) BY <1>1, <1>8 DEF Exists
  <2>2. e = Replacing(db, t, x, K) BY DEF Replacing
  <2>3. /\ DOMAIN e = Fields /\ e.keyless = K
        /\ e.tables = [db.tables EXCEPT ![t] = x]
        /\ e.recorded = db.recorded /\ e.payments = db.payments /\ e.attempts = db.attempts /\ e.limits = db.limits
        /\ e.tables[t] = x /\ \A u \in Tables : u # t => e.tables[u] = db.tables[u]
    <3> HIDE DEF x, e, t, K
    <3> QED BY <1>3, <1>4, <2>2, TableReplaced
  <2>4. x.columns = cs /\ x.keys = ks BY DEF TableOf
  <2>5. db.tables[t].columns = {} /\ db.tables[t].keys = {} BY <1>8 DEF NoTable, TableOf
  <2>6. UniqueKeys(t) \subseteq ks \/ t \in K
    <3>1. CASE ks = tableSpec[t].keys BY <1>3, <3>1, SpecsAre
    <3>2. CASE ks # tableSpec[t].keys BY <3>2
    <3> QED BY <3>1, <3>2
  <2>7. DbOK(e, first) /\ Grown(db, e, first)
    <3>1. e.tables = [db.tables EXCEPT ![t] = TableOf(cs, ks)] BY <2>3
    <3>2. K \subseteq Tables /\ \A u \in db.keyless : u # t => u \in K BY <1>3, <1>4 DEF DbShape
    <3>3. ~OldLimits(db) \/ t # "transactions" BY <1>8 DEF OldLimits
    <3>4. db.tables[t].columns \subseteq cs /\ db.tables[t].keys \subseteq ks /\ KnexTable[t].columns \subseteq cs
      BY <1>3, <2>5, SpecsAre
    <3>5. ~(t = "transactionAttempts" /\ Twice(db)) BY <1>2, <1>8, NotTwice
    <3>6. KnexUniques(t) \subseteq ks \/ t \in K BY <1>3, <2>6, SpecsAre
    <3>7. t = "transactions" => NewKey[t] \in ks \/ t \in K BY <2>6, UniqueKeysAre
    <3>8. db.tables[t] = NoTable BY <1>8
    <3>9. /\ DOMAIN e = Fields /\ e.keyless = K
          /\ e.recorded = db.recorded /\ e.payments = db.payments /\ e.attempts = db.attempts
          /\ e.limits = db.limits
      BY <2>3
    <3> HIDE DEF e, t, cs, ks, x, R, K
    <3> QED BY <1>2, <1>3, <3>1, <3>2, <3>3, <3>4, <3>5, <3>6, <3>7, <3>8, <3>9, WiderTable
  <2>8. e.keyless \subseteq db.keyless \cup {u \in Tables : db.tables[u] = NoTable} BY <1>3, <1>8, <2>3
  <2>9. K = db.keyless \/ (K = db.keyless \cup {t} /\ client # "mysql2" /\ ks = inlineUniques(t)) OBVIOUS
  <2> HIDE DEF e, x, K
  <2>10. Settled(db, R, first) => Settled(e, P, first)
    <3> SUFFICES ASSUME Settled(db, R, first) PROVE Settled(e, P, first) OBVIOUS
    <3>1. \A u : ~At(R, "createKeys", u) /\ ~At(R, "deleteDuplicates", u) BY <1>2 DEF At, Statement
    <3>2. \A u : ~At(P, "deleteDuplicates", u)
      <4>1. Bare(P) BY <1>1, <1>6, SendsOnly
      <4> QED BY <4>1, BareRun
    <3>3. ToSet(P.todo) = ToSet(R.todo) \ S BY <1>1, SendsOnly
    <3>4. \A u : Statement("createIndexes", u) \in ToSet(R.todo) => Statement("createIndexes", u) \in ToSet(P.todo)
      BY <3>3 DEF Statement
    <3>5. \A u \in Tables : db.tables[u].keys \subseteq e.tables[u].keys BY <2>7 DEF Grown
    <3>6. ASSUME NEW u \in db.keyless
          PROVE  Making(P, e, u) /\ (u \in DOMAIN KeyedBy => KeyedBy[u] \cap e.recorded = {})
      <4>1. u \in Tables BY <1>4 DEF DbShape
      <4>2. Making(R, db, u) /\ (u \in DOMAIN KeyedBy => KeyedBy[u] \cap db.recorded = {}) BY DEF Settled
      <4>3. Statement("createIndexes", u) \in ToSet(R.todo) /\ inlineUniques(u) \subseteq db.tables[u].keys
        BY <3>1, <4>2 DEF Making
      <4>4. Making(P, e, u) BY <3>4, <3>5, <4>1, <4>3 DEF Making
      <4> QED BY <2>3, <4>2, <4>4
    <3>7. ASSUME client # "mysql2", ks = inlineUniques(t)
          PROVE  Making(P, e, t) /\ (t \in DOMAIN KeyedBy => KeyedBy[t] \cap e.recorded = {})
      <4>1. Statement("createIfNotExists", t) \in ToSet(R.todo) BY <1>2
      <4>2. Statement("createIndexes", t) \in ToSet(R.todo) BY <1>2, <1>3, <3>7, <4>1 DEF RunOK, TodoOK
      <4>3. inlineUniques(t) \subseteq e.tables[t].keys BY <2>3, <2>4, <3>7
      <4>4. Making(P, e, t) BY <3>4, <4>2, <4>3 DEF Making
      <4>5. t \in DOMAIN KeyedBy => KeyedBy[t] \cap e.recorded = {}
        <5> HIDE DEF t
        <5> QED BY <1>2, <1>3, <1>8, <2>3, Unkeyed
      <4> QED BY <4>4, <4>5
    <3>8. \A u \in e.keyless : Making(P, e, u) /\ (u \in DOMAIN KeyedBy => KeyedBy[u] \cap e.recorded = {})
      <4> HIDE DEF P, t, ks
      <4> QED BY <2>3, <2>9, <3>6, <3>7
    <3>9. SumHits(e.limits) = SumHits(first.limits) BY <2>3, <3>1 DEF Settled
    <3> QED BY <3>2, <3>8, <3>9 DEF Settled
  <2>11. Effects(e, S) BY <1>5, EffectsNone
  <2>12. Ahead(P) \cap e.recorded \subseteq Ahead(R) \cap db.recorded BY <1>1, <2>3, AheadFewer
  <2>13. R.adapter # "knex" BY <1>3
  <2> QED BY <1>1, <1>6, <2>1, <2>7, <2>8, <2>10, <2>11, <2>12, <2>13, BareDone
<1> QED BY <1>7, <1>8

(* The columns of a table have been asserted before its keys are made.      *)
LEMMA TableAsserted ==
    ASSUME NEW R, NEW c, RunOK(R, c), R.adapter = "drizzle", R.todo # <<>>, NEW d, NEW f, Holds(d, R, f),
           NEW t \in Tables, R.todo[1] = Statement("createIndexes", t)
    PROVE  tableSpec[t].columns \subseteq d.tables[t].columns
<1> DEFINE s == Statement("assertColumnsExist", t)
           q == R.todo
<1>1. Rank(s) = 10 + Slot[t] /\ Rank(q[1]) = 20 + Slot[t] /\ Slot[t] \in 1..9 BY DrizzleRanks
<1>2. Rank(s) < Rank(q[1]) /\ Rank(s) \in Int /\ Rank(q[1]) \in Int BY <1>1
<1>3. /\ Sorted(q) /\ DOMAIN q = 1..Len(q) /\ Len(q) \in Nat /\ q \in Seq(AllStatements)
  BY TodoIsOf
<1>4. s \notin ToSet(q)
  <2> SUFFICES ASSUME NEW i \in DOMAIN q, q[i] = s PROVE FALSE BY DEF ToSet
  <2> HIDE DEF q, s
  <2>1. i \in Nat /\ 1 <= i /\ 1 \in DOMAIN q BY <1>3
  <2>2. i = 1 \/ 1 < i BY <2>1
  <2>3. CASE i = 1 BY <1>2, <2>3
  <2>4. CASE 1 < i
    <3>1. Rank(q[1]) < Rank(q[i]) BY <1>3, <2>1, <2>4 DEF Sorted
    <3> QED BY <1>2, <3>1
  <2> QED BY <2>2, <2>3, <2>4
<1>5. s \in Passed(R)
  <2>1. s \in DrizzleStatements BY DEF DrizzleStatements
  <2> QED BY <1>4, <2>1 DEF Passed
<1> QED BY <1>5 DEF Holds, Effects

LEMMA CreateIndexesHolds ==
    ASSUME IInv, NEW r \in Runner, CreateIndexes(r)
    PROVE  IInv'
<1> DEFINE R == runner[r]
           t == Subject(r)
           missing == standaloneIndexes(t) \ db.tables[t].keys
           K == db.keyless \ {u \in {t} : inlineUniques(u) \subseteq db.tables[u].keys}
           e == [db EXCEPT !.tables[t].keys = @ \cup missing, !.keyless = K]
           P == Advanced(R, 1)
           S == {Statement("createIndexes", t)}
<1>1. Ready(r, "createIndexes") BY DEF CreateIndexes
<1>2. /\ DbOK(db, first) /\ RunOK(R, client) /\ R.todo # <<>> /\ Holds(db, R, first)
      /\ R.todo[1] = Statement("createIndexes", t)
  BY <1>1, SendsNext DEF Ready
<1>3. R.adapter = "drizzle" /\ t \in Tables BY <1>1, SubjectIs DEF TableOfVerb
<1>4. DbShape(db) /\ TablesMade(db) /\ RowsMade(db) BY <1>2 DEF DbOK
<1>5. CASE \E key \in missing : KeyRefused(t, key)
  <2>1. Fail(r) BY <1>5 DEF CreateIndexes
  <2> QED BY <1>1, <2>1, FailsAsWell
<1>6. CASE ~\E key \in missing : KeyRefused(t, key)
  <2>1. Done(r, e) BY <1>6 DEF CreateIndexes
  <2>2. e = WithKeys(db, t, missing, K)
    <3>1. e = AddingKeys(db, t, missing, K) BY DEF AddingKeys
    <3> HIDE DEF e, t, missing, K
    <3> QED BY <1>3, <1>4, <3>1, AddingShape
  <2>3. /\ DOMAIN e = Fields /\ e.keyless = K /\ e.tables = Keyful(db, t, missing)
        /\ e.recorded = db.recorded /\ e.payments = db.payments /\ e.attempts = db.attempts /\ e.limits = db.limits
        /\ e.tables[t].columns = db.tables[t].columns /\ e.tables[t].keys = db.tables[t].keys \cup missing
        /\ \A u \in Tables : db.tables[u].keys \subseteq e.tables[u].keys
        /\ \A u \in Tables : u # t => e.tables[u] = db.tables[u]
    <3> HIDE DEF e, t, missing, K
    <3> QED BY <1>3, <1>4, <2>2, KeysAdded
  <2>4. tableSpec[t].columns \subseteq db.tables[t].columns
    <3> HIDE DEF R, t
    <3> QED BY <1>2, <1>3, TableAsserted
  <2>5. KnexTable[t].columns \subseteq db.tables[t].columns BY <1>3, <2>4, SpecsAre
  <2>6. db.tables[t] # NoTable
    <3> HIDE DEF t
    <3> QED BY <1>3, <2>5, AnExistingTable
  <2>7. inlineUniques(t) \subseteq db.tables[t].keys => UniqueKeys(t) \subseteq db.tables[t].keys \cup missing
    <3>1. UniqueKeys(t) \subseteq tableSpec[t].keys BY <1>3, SpecsAre
    <3> QED BY <3>1 DEF standaloneIndexes
  <2>8. DbOK(e, first) /\ Grown(db, e, first)
    <3> DEFINE cs == db.tables[t].columns
               ks == db.tables[t].keys \cup missing
    <3>1. e.tables = [db.tables EXCEPT ![t] = TableOf(cs, ks)] BY <2>3 DEF Keyful
    <3>2. K \subseteq Tables /\ \A u \in db.keyless : u # t => u \in K BY <1>4 DEF DbShape
    <3>3. db.tables[t].columns \subseteq cs /\ db.tables[t].keys \subseteq ks /\ KnexTable[t].columns \subseteq cs
      BY <2>5
    <3>4. KnexUniques(t) \subseteq UniqueKeys(t) BY <1>3, SpecsAre
    <3>5. inlineUniques(t) = {} => UniqueKeys(t) \subseteq ks BY <2>7
    <3>6. KnexUniques(t) \subseteq ks \/ t \in K
      <4>1. CASE inlineUniques(t) \subseteq db.tables[t].keys BY <2>7, <3>4, <4>1
      <4>2. CASE ~(inlineUniques(t) \subseteq db.tables[t].keys)
        <5>1. t # "rateLimits" BY <1>3, <4>2, SpecsAre
        <5>2. KnexUniques(t) \subseteq db.tables[t].keys \/ t \in db.keyless BY <1>3, <1>4, <2>6, <5>1 DEF TablesMade
        <5> QED BY <4>2, <5>2
      <4> QED BY <4>1, <4>2
    <3>7. t = "transactions" =>
            /\ NewKey[t] \in ks
            /\ ~(OldLimits(db) /\ "pos_id" \in cs)
      <4> SUFFICES ASSUME t = "transactions"
                   PROVE  NewKey[t] \in ks /\ ~(OldLimits(db) /\ "pos_id" \in cs)
        OBVIOUS
      <4>1. inlineUniques(t) = {} BY <1>3, SpecsAre
      <4>2. NewKey[t] \in ks BY <3>5, <4>1, UniqueKeysAre
      <4> QED BY <4>2 DEF OldLimits, NewTransactions
    <3>8. ~(t = "transactionAttempts" /\ Twice(db))
      <4> SUFFICES ASSUME t = "transactionAttempts", Twice(db) PROVE FALSE OBVIOUS
      <4>1. inlineUniques(t) = {} BY <1>3, SpecsAre
      <4>2. AttemptNumberKey \in UniqueKeys(t) BY <1>3, <3>4, UniqueKeysAre
      <4>3. AttemptNumberKey \in tableSpec[t].keys BY <1>3, <4>2, SpecsAre
      <4>4. AttemptNumberKey \notin db.tables[t].keys BY <1>4 DEF RowsMade
      <4>5. AttemptNumberKey \in missing BY <4>1, <4>3, <4>4 DEF standaloneIndexes
      <4>6. isUnique(AttemptNumberKey) BY <4>2 DEF UniqueKeys
      <4>7. DuplicateAttempts BY DEF Twice, DuplicateAttempts
      <4>8. KeyRefused(t, AttemptNumberKey) BY <4>6, <4>7 DEF KeyRefused
      <4> QED BY <1>6, <4>5, <4>8
    <3>9. /\ DOMAIN e = Fields /\ e.keyless = K
          /\ e.recorded = db.recorded /\ e.payments = db.payments /\ e.attempts = db.attempts
          /\ e.limits = db.limits
      BY <2>3
    <3> HIDE DEF e, t, cs, ks, K, R, missing
    <3> QED BY <1>2, <1>3, <3>1, <3>2, <3>3, <3>6, <3>7, <3>8, <3>9, WiderTable
  <2>9. "createIndexes" \notin DOMAIN Leads BY LeadsTo
  <2>10. e.keyless \subseteq db.keyless \cup {u \in Tables : db.tables[u] = NoTable} BY <2>3
  <2> HIDE DEF e
  <2>11. Settled(db, R, first) => Settled(e, P, first)
    <3> SUFFICES ASSUME Settled(db, R, first) PROVE Settled(e, P, first) OBVIOUS
    <3>1. \A u : ~At(R, "createKeys", u) /\ ~At(R, "deleteDuplicates", u) BY <1>2 DEF At, Statement
    <3>2. \A u : ~At(P, "deleteDuplicates", u)
      <4>1. Bare(P) BY <1>1, <2>9, SendsOnly
      <4> QED BY <4>1, BareRun
    <3>3. ToSet(P.todo) = ToSet(R.todo) \ S BY <1>1, SendsOnly
    <3>4. ASSUME NEW u \in e.keyless
          PROVE  Making(P, e, u) /\ (u \in DOMAIN KeyedBy => KeyedBy[u] \cap e.recorded = {})
      <4>1. u \in db.keyless /\ u \in K BY <2>3
      <4>2. u \in Tables BY <1>4, <4>1 DEF DbShape
      <4>3. Making(R, db, u) /\ (u \in DOMAIN KeyedBy => KeyedBy[u] \cap db.recorded = {}) BY <4>1 DEF Settled
      <4>4. Statement("createIndexes", u) \in ToSet(R.todo) /\ inlineUniques(u) \subseteq db.tables[u].keys
        BY <3>1, <4>3 DEF Making
      <4>5. u # t BY <4>1, <4>4
      <4>6. Statement("createIndexes", u) \in ToSet(P.todo) BY <3>3, <4>4, <4>5 DEF Statement
      <4>7. inlineUniques(u) \subseteq e.tables[u].keys BY <2>3, <4>2, <4>4
      <4> QED BY <2>3, <4>3, <4>6, <4>7 DEF Making
    <3>5. SumHits(e.limits) = SumHits(first.limits) BY <2>3, <3>1 DEF Settled
    <3> QED BY <3>2, <3>4, <3>5 DEF Settled
  <2>12. Effects(e, S)
    <3>1. \A s \in S : s.do \notin Telling BY DEF Statement, Telling
    <3> QED BY <3>1, EffectsNone
  <2>13. Ahead(P) \cap e.recorded \subseteq Ahead(R) \cap db.recorded BY <1>1, <2>3, AheadFewer
  <2>14. R.adapter # "knex" BY <1>3
  <2> QED BY <1>1, <2>1, <2>8, <2>9, <2>10, <2>11, <2>12, <2>13, <2>14, BareDone
<1> QED BY <1>5, <1>6

---------------------------------------------------------------------------
(* The invariant, and what it says of the migrations.                       *)

LEMMA NextHolds == IInv /\ [Next]_vars => IInv'
<1> SUFFICES ASSUME IInv, [Next]_vars PROVE IInv' OBVIOUS
<1>1. CASE UNCHANGED vars
  BY <1>1
  DEF vars, IInv, RunsHold, OneTransaction, AbortedHasCause, Alone, Uninterrupted, Live, Undisturbed,
      Running, Transactional, Other, KeyBefore
<1>2. ASSUME NEW r \in Runner,
             \/ withMigrationLock(r) \/ Finish(r) \/ Crash(r) \/ Restart(r)
             \/ HasControl(r) \/ CreateControl(r) \/ SelectExecuted(r) \/ Record(r)
             \/ HasTable(r) \/ CreateTable(r) \/ CreateKeys(r)
      PROVE  IInv'
  BY <1>2, LockHolds, FinishHolds, CrashHolds, RestartHolds, HasControlHolds, CreateControlHolds, SelectHolds,
     RecordHolds, HasTableHolds, CreateTableHolds, CreateKeysHolds
<1>3. ASSUME NEW r \in Runner,
             \/ CheckIdentifiers(r) \/ CountAttempts(r) \/ InsertAttempts(r)
             \/ RequireTable(r) \/ HasColumn(r) \/ AddColumn(r)
             \/ AddKey(r) \/ AddKeyInSavepoint(r) \/ Refused(r)
      PROVE  IInv'
  BY <1>3, CheckIdentifiersHolds, CountAttemptsHolds, InsertAttemptsHolds, RequireTableHolds, HasColumnHolds,
     AddColumnHolds, AddKeyHolds, AddKeyInSavepointHolds, RefusedHolds
<1>4. ASSUME NEW r \in Runner,
             \/ FillContexts(r) \/ FindDuplicates(r) \/ UpdateKept(r) \/ DeleteDuplicates(r)
             \/ CreateIfNotExists(r) \/ assertColumnsExist(r) \/ CreateIndexes(r)
      PROVE  IInv'
  BY <1>4, FillContextsHolds, FindDuplicatesHolds, UpdateKeptHolds, DeleteDuplicatesHolds, CreateIfNotExistsHolds,
     AssertColumnsHolds, CreateIndexesHolds
<1> QED BY <1>1, <1>2, <1>3, <1>4 DEF Next, KnexStatement, DrizzleStatement

(* Whatever runs die, fail or meet, no table loses what a run of either     *)
(* adapter relies on, and the rows of a limit are at least as strict.       *)
THEOREM Inductive == Spec => []IInv
<1>1. Init => IInv BY InitHolds
<1>2. IInv /\ [Next]_vars => IInv' BY NextHolds
<1> QED BY <1>1, <1>2, PTL DEF Spec

(* A table that is left without its keys is excused.                        *)
LEMMA RecordedKeyed ==
    ASSUME IInv, NEW t \in db.keyless
    PROVE  /\ t \in DOMAIN KeyedBy /\ KeyedBy[t] \cap db.recorded # {} => t \in Excused
           /\ (\E r \in Runner : runner[r].phase = "done") => t \in Excused
<1>1. CASE interrupted BY <1>1 DEF Excused
<1>2. CASE ~interrupted
  <2>1. Uninterrupted BY <1>2 DEF IInv
  <2>2. CASE \E r \in Runner : Running(r) BY <2>1, <2>2 DEF Uninterrupted, Settled
  <2>3. CASE \A r \in Runner : ~Running(r) BY <2>1, <2>3 DEF Uninterrupted
  <2> QED BY <2>1, <2>2, <2>3 DEF Uninterrupted
<1>3. interrupted \in BOOLEAN BY DEF IInv
<1> QED BY <1>1, <1>2, <1>3

LEMMA InvRecordedIsApplied == IInv => RecordedIsApplied
<1> SUFFICES ASSUME IInv, NEW m \in db.recorded PROVE Applied(db, m, Excused) BY DEF RecordedIsApplied
<1> DEFINE all == UNION {Statements(n) : n \in db.recorded}
<1>1. DbOK(db, first) BY DEF IInv
<1>2. DbShape(db) /\ TablesMade(db) /\ RowsMade(db) /\ Effects(db, all) BY <1>1 DEF DbOK
<1>3. \A s \in Statements(m) : s \in all OBVIOUS
<1>4. m \in Migration BY <1>2 DEF DbShape
<1> HIDE DEF all
<1>5. ASSUME NEW t \in Tables, Home[t] = m PROVE db.tables[t] # NoTable
  <2>1. Statement("createTable", t) \in Statements(m) BY <1>5, TriplesIn
  <2>2. KnexTable[t].columns \subseteq db.tables[t].columns BY <1>2, <1>3, <2>1 DEF Effects
  <2> QED BY <2>2, AnExistingTable
<1>6. /\ DOMAIN KeyedBy = {"transactions", "transactionAttempts", "paymentIntents", "rateLimits"}
      /\ KeyedBy["transactions"] = {3} /\ KeyedBy["transactionAttempts"] = {3}
      /\ KeyedBy["paymentIntents"] = {4} /\ KeyedBy["rateLimits"] = {5}
  BY DEF KeyedBy
<1>7. ASSUME NEW t \in Tables, t # "rateLimits", t # "transactions", db.tables[t] # NoTable,
             t \in DOMAIN KeyedBy, m \in KeyedBy[t]
      PROVE  Keyed(db, t, Excused) /\ (t \in db.keyless => t \in Excused)
  <2>1. KnexUniques(t) \subseteq db.tables[t].keys \/ t \in db.keyless BY <1>2, <1>7 DEF TablesMade
  <2>2. t \in db.keyless => t \in Excused BY <1>7, RecordedKeyed
  <2>3. UniqueKeys(t) = KnexUniques(t) BY <1>7, UniqueKeysAre
  <2> QED BY <2>1, <2>2, <2>3 DEF Keyed
<1>8. CASE m = 1
  <2>1. \A t \in {"transactions", "transactionItems", "invoices", "requestMetadata", "rateLimits", "blacklist"} :
          t \in Tables /\ Home[t] = 1
    BY TheTables DEF Home
  <2> QED BY <1>5, <1>8, <2>1 DEF Applied
<1>9. CASE m = 2
  <2>1. "transactionLogs" \in Tables /\ Home["transactionLogs"] = 2 BY TheTables DEF Home
  <2> QED BY <1>5, <1>9, <2>1 DEF Applied
<1>10. CASE m = 3
  <2>1. "transactionAttempts" \in Tables /\ Home["transactionAttempts"] = 3 BY TheTables DEF Home
  <2>2. db.tables["transactionAttempts"] # NoTable BY <1>5, <1>10, <2>1
  <2>3. /\ Keyed(db, "transactionAttempts", Excused)
        /\ "transactionAttempts" \in db.keyless => "transactionAttempts" \in Excused
    BY <1>6, <1>7, <1>10, <2>1, <2>2
  <2>4. NewKey["transactions"] \in db.tables["transactions"].keys BY <1>2, <1>3, <1>10, EffectsIn DEF Effects
  <2>5. Keyed(db, "transactions", Excused) BY <2>4, UniqueKeysAre DEF Keyed
  <2>6. \A p \in db.payments : db.attempts[p] = 1 \/ (db.attempts[p] > 1 /\ "transactionAttempts" \in Excused)
    <3> SUFFICES ASSUME NEW p \in db.payments
                 PROVE  db.attempts[p] = 1 \/ (db.attempts[p] > 1 /\ "transactionAttempts" \in Excused)
      OBVIOUS
    <3>1. db.attempts[p] >= 1 BY <1>2, <1>3, <1>10, EffectsIn DEF Effects
    <3>2. db.attempts[p] \in Nat BY <1>2 DEF DbShape
    <3>3. db.attempts[p] = 1 \/ db.attempts[p] > 1 BY <3>1, <3>2
    <3>4. CASE db.attempts[p] > 1 BY <1>2, <2>3, <3>4 DEF RowsMade, Twice
    <3> QED BY <3>3, <3>4
  <2> QED BY <1>10, <2>2, <2>3, <2>5, <2>6 DEF Applied
<1>11. CASE m = 4
  <2>1. "paymentIntents" \in Tables /\ Home["paymentIntents"] = 4 BY TheTables DEF Home
  <2>2. db.tables["paymentIntents"] # NoTable BY <1>5, <1>11, <2>1
  <2>3. Keyed(db, "paymentIntents", Excused) BY <1>6, <1>7, <1>11, <2>1, <2>2
  <2> QED BY <1>11, <2>2, <2>3 DEF Applied
<1>12. CASE m = 5
  <2>1. NewKey["rateLimits"] \in db.tables["rateLimits"].keys BY <1>2, <1>3, <1>12, EffectsIn DEF Effects
  <2>2. Len(db.limits) <= 1 BY <1>2, <1>3, <1>12, EffectsIn DEF Effects
  <2>3. Keyed(db, "rateLimits", Excused) BY <2>1, UniqueKeysAre DEF Keyed
  <2> QED BY <1>12, <2>2, <2>3 DEF Applied
<1>13. CASE m = 6
  <2>1. NewColumn["paymentIntents"] \in db.tables["paymentIntents"].columns
    BY <1>2, <1>3, <1>13, EffectsIn, TheColumns DEF Effects
  <2> QED BY <1>13, <2>1 DEF Applied, NewColumn
<1>14. CASE m = 7
  <2>1. NewColumn["transactions"] \in db.tables["transactions"].columns
    BY <1>2, <1>3, <1>14, EffectsIn, TheColumns DEF Effects
  <2> QED BY <1>14, <2>1 DEF Applied, NewColumn
<1>15. CASE m = 8
  <2>1. NewKey["requestMetadata"] \in db.tables["requestMetadata"].keys
    BY <1>2, <1>3, <1>15, EffectsIn DEF Effects
  <2> QED BY <1>15, <2>1 DEF Applied
<1> QED BY <1>4, <1>8, <1>9, <1>10, <1>11, <1>12, <1>13, <1>14, <1>15 DEF Migration

(* A migration that the control table records has been applied: what a      *)
(* rerun skips for ever (auto-migrate.ts:23-32) need not be done again.     *)
THEOREM RecordedIsAppliedHolds == Spec => []RecordedIsApplied
BY Inductive, InvRecordedIsApplied, PTL

LEMMA InvLimitsNotLoosened == IInv => LimitsNotLoosened
<1> SUFFICES ASSUME IInv PROVE LimitsNotLoosened OBVIOUS
<1>1. DbOK(db, first) BY DEF IInv
<1>2. NotMilder(db, first) /\ db.limits \in Limits BY <1>1 DEF DbOK, DbShape
<1>3. ASSUME Len(db.limits) = 1, ~interrupted PROVE SumHits(db.limits) = SumHits(first.limits)
  <2>1. Uninterrupted BY <1>3 DEF IInv
  <2>2. SumHits(db.limits) = db.limits[1].hits BY <1>2, <1>3, HitsOfOne
  <2>3. CASE \E r \in Runner : Running(r) BY <2>1, <2>2, <2>3 DEF Uninterrupted, Settled
  <2>4. CASE \A r \in Runner : ~Running(r) BY <2>1, <2>4 DEF Uninterrupted
  <2> QED BY <2>3, <2>4
<1> QED BY <1>2, <1>3 DEF LimitsNotLoosened, NotMilder

(* The merge of a limit's rows never makes it milder, and counts nothing    *)
(* twice when no run met it or died in it                                   *)
(* (add-rate-limit-unique-index.ts:58-88).                                  *)
THEOREM LimitsNotLoosenedHolds == Spec => []LimitsNotLoosened
BY Inductive, InvLimitsNotLoosened, PTL

(* The columns the Drizzle adapter writes, as the migrations make them.     *)
LEMMA ColumnsAre ==
    \A t \in Tables : tableSpec[t].columns =
      KnexTable[t].columns \cup (IF t \in DOMAIN NewColumn THEN {NewColumn[t]} ELSE {})
<1>1. DOMAIN NewColumn = {"paymentIntents", "transactions"} BY TheColumns
<1> SUFFICES ASSUME NEW t \in Tables
             PROVE  tableSpec[t].columns =
                      KnexTable[t].columns \cup (IF t \in DOMAIN NewColumn THEN {NewColumn[t]} ELSE {})
  OBVIOUS
<1>2. CASE t = "transactions"
  BY <1>1, <1>2 DEF KnexTable, tableSpec, createTransactionsTable, transactions, CUSTOMER_COLUMNS, TableOf,
                    TIMESTAMPS, NewColumn
<1>3. CASE t = "transactionItems"
  BY <1>1, <1>3 DEF KnexTable, tableSpec, createTransactionItemsTable, transactionItems, TableOf, TIMESTAMPS
<1>4. CASE t = "invoices"
  BY <1>1, <1>4 DEF KnexTable, tableSpec, createInvoicesTable, invoices, TableOf, TIMESTAMPS
<1>5. CASE t = "requestMetadata"
  BY <1>1, <1>5 DEF KnexTable, tableSpec, createRequestMetadataTable, requestMetadata, TableOf, TIMESTAMPS
<1>6. CASE t = "rateLimits"
  BY <1>1, <1>6 DEF KnexTable, tableSpec, createRateLimitsTable, rateLimits, TableOf, TIMESTAMPS
<1>7. CASE t = "blacklist"
  BY <1>1, <1>7 DEF KnexTable, tableSpec, createBlacklistTable, blacklist, TableOf, TIMESTAMPS
<1>8. CASE t = "transactionLogs"
  BY <1>1, <1>8 DEF KnexTable, tableSpec, createTransactionLogsTable, transactionLogs, TableOf, TIMESTAMPS
<1>9. CASE t = "transactionAttempts"
  BY <1>1, <1>9 DEF KnexTable, tableSpec, createTransactionAttemptsTable, transactionAttempts, TableOf, TIMESTAMPS
<1>10. CASE t = "paymentIntents"
  BY <1>1, <1>10 DEF KnexTable, tableSpec, createPaymentIntentsTable, paymentIntents, TableOf, TIMESTAMPS, NewColumn
<1> QED BY <1>2, <1>3, <1>4, <1>5, <1>6, <1>7, <1>8, <1>9, <1>10, TheTables

(* What a run that is done has sent.                                        *)
LEMMA DoneColumns ==
    ASSUME NEW d, NEW R, NEW c, NEW f, RunOK(R, c), R.phase = "done", Holds(d, R, f), NEW t \in Tables
    PROVE  tableSpec[t].columns \subseteq d.tables[t].columns
<1>1. R.todo = <<>> /\ R.adapter \in {"knex", "drizzle"} BY DEF RunOK
<1>2. \A do, u : Statement(do, u) \notin ToSet(R.todo) BY <1>1, NothingSaid
<1>3. CASE R.adapter = "drizzle"
  <2>1. Statement("assertColumnsExist", t) \in DrizzleStatements BY DEF DrizzleStatements
  <2>2. Statement("assertColumnsExist", t) \in Passed(R) BY <1>2, <1>3, <2>1 DEF Passed
  <2> QED BY <2>2 DEF Holds, Effects
<1>4. CASE R.adapter = "knex"
  <2>1. Passed(R) = KnexStatements
    <3>1. Select \notin ToSet(R.todo) BY <1>2 DEF Select
    <3>2. ToSet(R.todo) = {} BY <1>1 DEF ToSet
    <3> QED BY <1>4, <3>1, <3>2 DEF Passed
  <2>2. Effects(d, KnexStatements) BY <2>1 DEF Holds
  <2>3. KnexTable[t].columns \subseteq d.tables[t].columns
    <3>1. Home[t] \in Migration BY TheTables DEF Home, Migration
    <3>2. Statement("createTable", t) \in KnexStatements BY <3>1, TriplesIn DEF KnexStatements
    <3> QED BY <2>2, <3>2 DEF Effects
  <2>4. t \in DOMAIN NewColumn => NewColumn[t] \in d.tables[t].columns
    <3>1. t \in DOMAIN NewColumn => Statement("addColumn", t) \in KnexStatements
      BY EffectsIn, TheColumns DEF KnexStatements, Migration
    <3> QED BY <2>2, <3>1 DEF Effects
  <2> QED BY <2>3, <2>4, ColumnsAre
<1> QED BY <1>1, <1>3, <1>4

LEMMA InvFinishedIsCurrent == IInv => FinishedIsCurrent
<1> SUFFICES ASSUME IInv, NEW r \in Runner, runner[r].phase = "done", NEW t \in Tables
             PROVE  tableSpec[t].columns \subseteq db.tables[t].columns /\ Keyed(db, t, Excused)
  BY DEF FinishedIsCurrent
<1> DEFINE R == runner[r]
<1>1. DbOK(db, first) /\ RunOK(R, client) /\ Holds(db, R, first) BY DEF IInv, RunsHold, Live
<1>2. TablesMade(db) BY <1>1 DEF DbOK
<1>3. \A u \in Tables : tableSpec[u].columns \subseteq db.tables[u].columns
  <2> HIDE DEF R
  <2>1. R.phase = "done" BY DEF R
  <2> QED BY <1>1, <2>1, DoneColumns
<1>4. NewTransactions(db)
  <2>1. "pos_id" \in tableSpec["transactions"].columns BY DEF tableSpec, transactions, TableOf
  <2>2. "transactions" \in Tables BY TheTables
  <2> QED BY <1>3, <2>1, <2>2 DEF NewTransactions
<1>5. db.tables[t] # NoTable
  <2>1. KnexTable[t].columns \subseteq db.tables[t].columns BY <1>3, SpecsAre
  <2> QED BY <2>1, AnExistingTable
<1>6. t \in db.keyless => t \in Excused BY RecordedKeyed
<1>7. UniqueKeys(t) \subseteq db.tables[t].keys \/ t \in db.keyless
  <2>1. CASE t = "transactions" BY <1>2, <1>4, <2>1, UniqueKeysAre DEF TablesMade
  <2>2. CASE t = "rateLimits" BY <1>2, <1>4, <1>5, <2>2, UniqueKeysAre DEF TablesMade, OldLimits
  <2>3. CASE t # "transactions" /\ t # "rateLimits" BY <1>2, <1>5, <2>3, UniqueKeysAre DEF TablesMade
  <2> QED BY <2>1, <2>2, <2>3
<1> QED BY <1>3, <1>6, <1>7 DEF Keyed

(* A run that is done, of either adapter, has every table as the Drizzle    *)
(* adapter writes it, whatever other runs died or met it                    *)
(* (drizzle-storage.ts:106-121, auto-migrate.ts:15-36).                     *)
THEOREM FinishedIsCurrentHolds == Spec => []FinishedIsCurrent
BY Inductive, InvFinishedIsCurrent, PTL

---------------------------------------------------------------------------
(* Why a run fails.                                                         *)

(* Only a statement that throws fails, and its own run.                     *)
LEMMA OwnFailure ==
    ASSUME IInv, NEW r \in Runner, Fails(r), NEW s \in Runner
    PROVE  /\ \A e : FailLeaving(s, e) => s = r
           /\ \A n : ~Proceed(s, n)
           /\ \A n, b : runner' # [runner EXCEPT ![s].todo = n, ![s].aborted = b]
           /\ \A n : runner' # [runner EXCEPT ![s].todo = n]
<1>1. runner[r].phase = "running" /\ runner'[r].phase = "failed" BY DEF Fails, Running
<1>2. DOMAIN runner = Runner /\ DOMAIN runner[s] = RunFields BY DEF IInv, RunOK
<1>3. ASSUME NEW e, FailLeaving(s, e) PROVE s = r
  <2>1. s # r => runner'[r] = runner[r] BY <1>2, <1>3 DEF FailLeaving
  <2> QED BY <1>1, <2>1
<1>4. ASSUME NEW x, runner' = [runner EXCEPT ![s].todo = x] PROVE FALSE
  <2>1. runner'[r] = IF r = s THEN [runner[s] EXCEPT !.todo = x] ELSE runner[r] BY <1>2, <1>4
  <2>2. runner'[r].phase = runner[r].phase BY <1>2, <2>1 DEF RunFields
  <2> QED BY <1>1, <2>2
<1>5. ASSUME NEW x, NEW b, runner' = [runner EXCEPT ![s].todo = x, ![s].aborted = b] PROVE FALSE
  <2>1. runner'[r] = IF r = s THEN [runner[s] EXCEPT !.todo = x, !.aborted = b] ELSE runner[r] BY <1>2, <1>5
  <2>2. runner'[r].phase = runner[r].phase BY <1>2, <2>1 DEF RunFields
  <2> QED BY <1>1, <2>2
<1>6. ASSUME NEW n, Proceed(s, n) PROVE FALSE
  <2>1. runner' = [runner EXCEPT ![s].todo = SubSeq(runner[s].todo, n + 2, Len(runner[s].todo))]
    BY <1>6 DEF Proceed
  <2> DEFINE x == SubSeq(runner[s].todo, n + 2, Len(runner[s].todo))
  <2> HIDE DEF x
  <2>2. runner' = [runner EXCEPT ![s].todo = x] BY <2>1 DEF x
  <2> QED BY <1>4, <2>2
<1> QED BY <1>3, <1>4, <1>5, <1>6

(* The runs that begin, end or die fail for no statement.                   *)
LEMMA NoFailure ==
    ASSUME IInv, NEW r \in Runner, Fails(r), NEW s \in Runner
    PROVE  ~(withMigrationLock(s) \/ Finish(s) \/ Crash(s) \/ Restart(s))
<1>1. runner[r].phase = "running" /\ runner'[r].phase = "failed" BY DEF Fails, Running
<1>2. DOMAIN runner = Runner /\ \A u \in Runner : DOMAIN runner[u] = RunFields BY DEF IInv, RunOK
<1>3. ASSUME withMigrationLock(s) PROVE FALSE
  <2>1. s # r BY <1>1, <1>3 DEF withMigrationLock
  <2>2. PICK m : DOMAIN m = Runner /\ m[r] = runner[r] /\ runner' = NotAlone(s, m)
    <3> DEFINE b == IF Transactional(s) THEN db ELSE first
               a == \A u \in Other(s) : ~Running(u)
               q == IF runner[s].adapter = "knex" THEN ensureMigrationsTable ELSE DrizzleScript
               m == [runner EXCEPT ![s].phase = "running", ![s].before = b, ![s].alone = a, ![s].todo = q]
    <3>1. runner' = NotAlone(s, m) BY <1>3 DEF withMigrationLock
    <3>2. DOMAIN m = Runner /\ m[r] = runner[r]
      <4> HIDE DEF b, a, q
      <4> QED BY <1>2, <2>1
    <3> HIDE DEF m
    <3> QED BY <3>1, <3>2
  <2>3. runner'[r] = IF r # s /\ m[r].phase = "running" THEN [m[r] EXCEPT !.alone = FALSE] ELSE m[r]
    BY <2>2 DEF NotAlone
  <2>4. runner'[r].phase = "running" BY <1>1, <1>2, <2>2, <2>3 DEF RunFields
  <2> QED BY <1>1, <2>4
<1>4. ASSUME Finish(s) PROVE FALSE
  <2>1. runner' = [runner EXCEPT ![s].phase = "done"] BY <1>4 DEF Finish
  <2>2. runner'[r].phase \in {"running", "done"} BY <1>1, <1>2, <2>1 DEF RunFields
  <2> QED BY <1>1, <2>2
<1>5. ASSUME Crash(s) PROVE FALSE
  <2> DEFINE gone == {u \in Runner : InSameProcess(s, u) /\ Running(u)}
             I == Idle(runner[r].adapter, runner[r].restarts)
  <2>1. runner'[r] = IF r \in gone THEN [I EXCEPT !.phase = "crashed"] ELSE runner[r] BY <1>5 DEF Crash
  <2>2. [I EXCEPT !.phase = "crashed"].phase = "crashed" BY DEF Idle
  <2> QED BY <1>1, <2>1, <2>2
<1>6. ASSUME Restart(s) PROVE FALSE
  <2>1. s # r BY <1>1, <1>6 DEF Restart
  <2>2. runner'[r] = runner[r] BY <1>2, <1>6, <2>1 DEF Restart
  <2> QED BY <1>1, <2>2
<1> QED BY <1>3, <1>4, <1>5, <1>6

(* A statement of a run that nobody met throws.                             *)
LEMMA FailsAt ==
    ASSUME IInv, NEW r \in Runner, Fails(r), runner[r].alone, NEW s \in Runner, NEW do, Ready(s, do),
           NEW e, FailLeaving(s, e)
    PROVE  /\ s = r /\ RunOK(runner[r], client) /\ Quiet(db, runner[r]) /\ Holds(db, runner[r], first)
           /\ DbOK(db, first) /\ runner[r].todo # <<>> /\ runner[r].todo[1] = Statement(do, Subject(r))
           /\ At(runner[r], do, Subject(r)) /\ Subject(r) \in TableOfVerb(do) /\ Ready(r, do)
           /\ Statement(do, Subject(r)) \in ToSet(runner[r].todo)
<1>1. s = r BY OwnFailure
<1>2. Ready(r, do) /\ runner[r].todo # <<>> /\ Running(r) BY <1>1 DEF Ready
<1>3. /\ RunOK(runner[r], client) /\ runner[r].todo[1] = Statement(do, Subject(r))
      /\ runner[r].todo[1] \in ToSet(runner[r].todo)
      /\ DbOK(db, first) /\ Holds(db, runner[r], first)
  BY <1>2, SendsNext
<1>4. Quiet(db, runner[r]) BY <1>2 DEF IInv, Alone, Undisturbed
<1>5. Subject(r) \in TableOfVerb(do) BY <1>2, SubjectIs
<1> QED BY <1>1, <1>2, <1>3, <1>4, <1>5 DEF At

(* One row of a limit is no duplicate.                                      *)
LEMMA NoDuplicates ==
    ASSUME DbShape(db), Len(db.limits) <= 1
    PROVE  ~DuplicateLimits
<1>1. Len(db.limits) \in Nat /\ DOMAIN db.limits = 1..Len(db.limits) BY LimitsAre DEF DbShape
<1>2. \A i, j \in DOMAIN db.limits : i = j BY <1>1
<1> QED BY <1>2 DEF DuplicateLimits

(* The statements that make tables.                                         *)
LEMMA TablesCause ==
    ASSUME IInv, NEW r \in Runner, Fails(r), runner[r].alone, NEW s \in Runner,
           HasControl(s) \/ CreateControl(s) \/ SelectExecuted(s) \/ Record(s)
             \/ HasTable(s) \/ CreateTable(s) \/ CreateKeys(s)
    PROVE  Cause(r)
<1> DEFINE R == runner[r]
           t == Subject(r)
<1>1. /\ \A e : FailLeaving(s, e) => s = r
      /\ \A n : ~Proceed(s, n)
      /\ \A n : runner' # [runner EXCEPT ![s].todo = n]
      /\ \A e : ~Done(s, e)
  BY OwnFailure DEF Done
<1>2. ~HasControl(s) /\ ~HasTable(s) BY <1>1 DEF HasControl, HasTable
<1>3. ~SelectExecuted(s) BY <1>1 DEF SelectExecuted
<1>4. CASE CreateControl(s)
  <2>1. db.control /\ FailLeaving(s, db) /\ Ready(s, "createControl") BY <1>1, <1>4 DEF CreateControl, Fail
  <2>2. Quiet(db, R) /\ At(R, "createControl", t) /\ t \in TableOfVerb("createControl") BY <2>1, FailsAt
  <2>3. t = "control" BY <2>2 DEF TableOfVerb
  <2> QED BY <2>1, <2>2, <2>3 DEF Quiet
<1>5. CASE Record(s)
  <2>1. Subject(s) \in db.recorded /\ FailLeaving(s, db) /\ Ready(s, "record") BY <1>1, <1>5 DEF Record, Fail
  <2>2. /\ s = r /\ Quiet(db, R) /\ t \in TableOfVerb("record") /\ Statement("record", t) \in ToSet(R.todo)
    BY <2>1, FailsAt
  <2>3. t \in Migration BY <2>2 DEF TableOfVerb
  <2>4. Statement("record", t) \in Statements(t) BY <2>3, StatementsIn
  <2>5. t \in Ahead(R) BY <2>2, <2>3, <2>4 DEF Ahead
  <2> QED BY <2>1, <2>2, <2>5 DEF Quiet
<1>6. CASE CreateTable(s)
  <2>1. Exists(Subject(s)) /\ FailLeaving(s, db) /\ Ready(s, "createTable") BY <1>1, <1>6 DEF CreateTable, Fail
  <2>2. s = r /\ Quiet(db, R) /\ At(R, "createTable", t) /\ t \in TableOfVerb("createTable") BY <2>1, FailsAt
  <2>3. t \in Tables BY <2>2 DEF TableOfVerb
  <2> QED BY <2>1, <2>2, <2>3 DEF Quiet, Exists
<1>7. CASE CreateKeys(s)
  <2> DEFINE keys == KnexTable[Subject(s)].keys
             uniques == {key \in keys : isUnique(key)}
  <2>1. Ready(s, "createKeys") BY <1>7 DEF CreateKeys
  <2>2. PICK e : FailLeaving(s, e)
    <3>1. Fail(s) \/ FailLeaving(s, [db EXCEPT !.tables[Subject(s)].keys = @ \cup uniques])
      BY <1>1, <1>7 DEF CreateKeys
    <3> QED BY <3>1 DEF Fail
  <2>3. /\ s = r /\ Quiet(db, R) /\ At(R, "createKeys", t) /\ t \in TableOfVerb("createKeys")
        /\ DbOK(db, first)
    BY <2>1, <2>2, FailsAt
  <2>4. t \in Tables /\ DbShape(db) BY <2>3 DEF TableOfVerb, DbOK
  <2>5. /\ db.tables[t].keys = {}
        /\ t = "rateLimits" => Len(db.limits) = 0
        /\ t = "transactionAttempts" => \A p \in db.payments : db.attempts[p] = 0
    BY <2>3, <2>4 DEF Quiet
  <2>6. PICK key \in uniques : KeyRefused(t, key)
    <3>1. keys \cap db.tables[Subject(s)].keys = {} BY <2>3, <2>5
    <3>2. \E key \in uniques : KeyRefused(Subject(s), key) BY <1>1, <1>7, <3>1 DEF CreateKeys
    <3> QED BY <2>3, <3>2
  <2>7. ~(t = "rateLimits" /\ DuplicateLimits)
    <3>1. t = "rateLimits" => Len(db.limits) <= 1 BY <2>5
    <3> QED BY <2>4, <3>1, NoDuplicates
  <2>8. ~(t = "transactionAttempts" /\ DuplicateAttempts)
    <3>1. t = "transactionAttempts" => \A p \in db.payments : ~(db.attempts[p] > 1) BY <2>5
    <3> QED BY <3>1 DEF DuplicateAttempts
  <2> QED BY <2>6, <2>7, <2>8 DEF KeyRefused, Cause
<1> QED BY <1>2, <1>3, <1>4, <1>5, <1>6, <1>7

(* The statements that check, fill and add.                                 *)
LEMMA RowsCause ==
    ASSUME IInv, NEW r \in Runner, Fails(r), runner[r].alone, NEW s \in Runner,
           CheckIdentifiers(s) \/ CountAttempts(s) \/ InsertAttempts(s)
             \/ RequireTable(s) \/ HasColumn(s) \/ AddColumn(s)
             \/ FillContexts(s) \/ FindDuplicates(s) \/ UpdateKept(s) \/ DeleteDuplicates(s)
    PROVE  Cause(r)
<1> DEFINE R == runner[r]
           t == Subject(r)
<1>1. /\ \A e : FailLeaving(s, e) => s = r
      /\ \A n : ~Proceed(s, n)
      /\ \A e : ~Done(s, e)
  BY OwnFailure DEF Done
<1>2. ~CountAttempts(s) /\ ~FillContexts(s) /\ ~FindDuplicates(s) /\ ~UpdateKept(s) /\ ~DeleteDuplicates(s)
  BY <1>1 DEF CountAttempts, FillContexts, FindDuplicates, UpdateKept, DeleteDuplicates
<1>3. ~RequireTable(s) /\ ~HasColumn(s) BY <1>1 DEF RequireTable, HasColumn, Return
<1>4. CASE CheckIdentifiers(s) BY <1>1, <1>4 DEF CheckIdentifiers, Cause
<1>5. CASE InsertAttempts(s)
  <2>1. (\E p \in db.payments : db.attempts[p] > 0) /\ FailLeaving(s, db) /\ Ready(s, "insertAttempts")
    BY <1>1, <1>5 DEF InsertAttempts, Fail
  <2>2. Quiet(db, R) /\ At(R, "insertAttempts", t) /\ t \in TableOfVerb("insertAttempts") BY <2>1, FailsAt
  <2>3. t = "transactionAttempts" BY <2>2 DEF TableOfVerb
  <2>4. \A p \in db.payments : db.attempts[p] = 0 BY <2>2, <2>3 DEF Quiet
  <2>5. \A p \in db.payments : ~(db.attempts[p] > 0) BY <2>4
  <2> QED BY <2>1, <2>5
<1>6. CASE AddColumn(s)
  <2>1. NewColumn[Subject(s)] \in db.tables[Subject(s)].columns /\ FailLeaving(s, db) /\ Ready(s, "addColumn")
    BY <1>1, <1>6 DEF AddColumn, Fail
  <2>2. s = r /\ Quiet(db, R) /\ At(R, "addColumn", t) /\ t \in TableOfVerb("addColumn") BY <2>1, FailsAt
  <2>3. t \in DOMAIN NewColumn BY <2>2 DEF TableOfVerb
  <2> QED BY <2>1, <2>2, <2>3 DEF Quiet
<1> QED BY <1>2, <1>3, <1>4, <1>5, <1>6

(* The statements that add a key, and those of the Drizzle adapter.         *)
LEMMA KeysCause ==
    ASSUME IInv, NEW r \in Runner, Fails(r), runner[r].alone, NEW s \in Runner,
           AddKey(s) \/ AddKeyInSavepoint(s) \/ Refused(s)
             \/ CreateIfNotExists(s) \/ assertColumnsExist(s) \/ CreateIndexes(s)
    PROVE  Cause(r)
<1> DEFINE R == runner[r]
           t == Subject(r)
<1>1. /\ \A e : FailLeaving(s, e) => s = r
      /\ \A n, b : runner' # [runner EXCEPT ![s].todo = n, ![s].aborted = b]
      /\ \A e : ~Done(s, e)
  BY OwnFailure DEF Done
<1>2. ~CreateIfNotExists(s) BY <1>1 DEF CreateIfNotExists
<1>3. CASE AddKey(s)
  <2>1. Ready(s, "addKey") BY <1>3 DEF AddKey
  <2>2. ~Has(Subject(s), NewKey[Subject(s)])
    <3> SUFFICES ASSUME Has(Subject(s), NewKey[Subject(s)]) PROVE FALSE OBVIOUS
    <3>1. runner' = [runner EXCEPT ![s].todo = Tail(runner[s].todo), ![s].aborted = Transactional(s)]
      BY <1>3 DEF AddKey
    <3> DEFINE n == Tail(runner[s].todo)
               b == Transactional(s)
    <3> HIDE DEF n, b
    <3>2. runner' = [runner EXCEPT ![s].todo = n, ![s].aborted = b] BY <3>1 DEF n, b
    <3> QED BY <1>1, <3>2
  <2>3. KeyRefused(Subject(s), NewKey[Subject(s)]) /\ FailLeaving(s, db) BY <1>1, <1>3, <2>2 DEF AddKey, Fail
  <2>4. s = r /\ t \in TableOfVerb("addKey") BY <2>1, <2>3, FailsAt
  <2>5. t \in {"transactions", "requestMetadata"} BY <2>4 DEF TableOfVerb
  <2> QED BY <2>3, <2>4, <2>5 DEF KeyRefused, Cause
<1>4. CASE AddKeyInSavepoint(s)
  <2>1. /\ Ready(s, "addKeyInSavepoint") /\ FailLeaving(s, db)
        /\ KeyRefused(Subject(s), NewKey[Subject(s)])
    BY <1>1, <1>4 DEF AddKeyInSavepoint, Fail
  <2>2. /\ s = r /\ t \in TableOfVerb("addKeyInSavepoint") /\ RunOK(R, client) /\ Holds(db, R, first)
        /\ DbOK(db, first) /\ R.todo # <<>> /\ R.todo[1] = Statement("addKeyInSavepoint", t)
        /\ Ready(r, "addKeyInSavepoint")
    BY <2>1, FailsAt
  <2>3. t = "rateLimits" BY <2>2 DEF TableOfVerb
  <2>4. Len(db.limits) <= 1
    <3> DEFINE x == Statement("deleteDuplicates", "rateLimits")
    <3>1. R.adapter = "knex" /\ R.todo[1] \in KnexStatements BY <2>2, SubjectIs DEF Plain
    <3>2. x \in KnexStatements BY EffectsIn DEF KnexStatements, Migration
    <3>3. Rank(x) = 505 /\ Rank(R.todo[1]) = 506 BY <2>2, <2>3, Ranks
    <3>4. Rank(x) < Rank(R.todo[1]) BY <3>3
    <3>5. x \in Passed(R)
      <4> HIDE DEF R, x
      <4> QED BY <2>2, <3>1, <3>2, <3>4, SentBefore
    <3> QED BY <2>2, <3>5 DEF Holds, Effects
  <2>5. ~DuplicateLimits BY <2>2, <2>4, NoDuplicates DEF DbOK
  <2> QED BY <2>1, <2>2, <2>3, <2>5 DEF KeyRefused
<1>5. CASE Refused(s)
  <2>1. s = r /\ runner[s].aborted BY <1>1, <1>5 DEF Refused, Fail
  <2> QED BY <2>1 DEF IInv, AbortedHasCause, Cause
<1>6. CASE assertColumnsExist(s)
  <2>1. /\ Ready(s, "assertColumnsExist") /\ FailLeaving(s, db)
        /\ ~(tableSpec[Subject(s)].columns \subseteq db.tables[Subject(s)].columns)
    BY <1>1, <1>6 DEF assertColumnsExist, Fail
  <2>2. s = r /\ t \in TableOfVerb("assertColumnsExist") /\ Ready(r, "assertColumnsExist") BY <2>1, FailsAt
  <2>3. t \in Tables /\ R.adapter = "drizzle" BY <2>2, SubjectIs DEF TableOfVerb
  <2> QED BY <2>1, <2>2, <2>3 DEF Cause, Older
<1>7. CASE CreateIndexes(s)
  <2>1. /\ Ready(s, "createIndexes") /\ FailLeaving(s, db)
        /\ \E key : KeyRefused(Subject(s), key)
    BY <1>1, <1>7 DEF CreateIndexes, Fail
  <2>2. s = r /\ Ready(r, "createIndexes") BY <2>1, FailsAt
  <2>3. R.adapter = "drizzle" BY <2>2, SubjectIs
  <2> QED BY <2>1, <2>3 DEF KeyRefused, Cause
<1> QED BY <1>2, <1>3, <1>4, <1>5, <1>6, <1>7

LEMMA NextHasCause ==
    IInv /\ [Next]_vars
      => [\A r \in Runner : Fails(r) /\ runner[r].alone => Cause(r)]_vars
<1> SUFFICES ASSUME IInv, Next, NEW r \in Runner, Fails(r), runner[r].alone
             PROVE  Cause(r)
  OBVIOUS
<1>1. PICK s \in Runner :
        \/ withMigrationLock(s) \/ KnexStatement(s) \/ DrizzleStatement(s)
        \/ Finish(s) \/ Crash(s) \/ Restart(s)
  BY DEF Next
<1>2. KnexStatement(s) \/ DrizzleStatement(s) BY <1>1, NoFailure
<1>3. CASE DrizzleStatement(s) BY <1>3, KeysCause DEF DrizzleStatement
<1>4. CASE KnexStatement(s)
  <2>1. CASE HasControl(s) \/ CreateControl(s) \/ SelectExecuted(s) \/ Record(s)
               \/ HasTable(s) \/ CreateTable(s) \/ CreateKeys(s)
    BY <2>1, TablesCause
  <2>2. CASE CheckIdentifiers(s) \/ CountAttempts(s) \/ InsertAttempts(s)
               \/ RequireTable(s) \/ HasColumn(s) \/ AddColumn(s)
               \/ FillContexts(s) \/ FindDuplicates(s) \/ UpdateKept(s) \/ DeleteDuplicates(s)
    BY <2>2, RowsCause
  <2>3. CASE AddKey(s) \/ AddKeyInSavepoint(s) \/ Refused(s) BY <2>3, KeysCause
  <2> QED BY <1>4, <2>1, <2>2, <2>3 DEF KnexStatement
<1> QED BY <1>2, <1>3, <1>4

(* A run that met no other fails for a reason that running it again does    *)
(* not mend; the death of an earlier run, at any statement, is none         *)
(* (auto-migrate.ts:15-36).                                                 *)
THEOREM FailureHasCauseHolds == Spec => FailureHasCause
<1>1. IInv /\ [Next]_vars
        => [\A r \in Runner : Fails(r) /\ runner[r].alone => Cause(r)]_vars
  BY NextHasCause
<1> QED BY <1>1, Inductive, PTL DEF Spec, FailureHasCause

=============================================================================
