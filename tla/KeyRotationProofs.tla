------------------------- MODULE KeyRotationProofs -------------------------
(***************************************************************************)
(* The rotation loses nothing, and its exit code 0 is the permission to    *)
(* remove the old key; the logs of a payment stay a chain: for any tables, *)
(* key rings, pages and numbers of transactions, pruners and runs,         *)
(* whatever dies.                                                          *)
(***************************************************************************)
EXTENDS KeyRotation, Integers, FiniteSetTheorems, WellFoundedInduction, TLAPS

(* A row without an envelope of another key.                                *)
Done(t, i) ==
    \A c \in ColumnsOf(t) :
        looksLikeEnvelope(rows[t][i].values[c]) => isCurrentKey(rows[t][i].values[c])

(* What is locked is still as it was read, and has one owner.               *)
RotationHolds ==
    rot.phase = "write" => id \in DOMAIN rows[table] /\ rot.seen = rows[table][id]

WritersHold ==
    \A w \in Writer : writer[w].phase = "write" =>
        /\ canStore
        /\ writer[w].id \in DOMAIN rows["transactions"]
        /\ writer[w].seen = rows["transactions"][writer[w].id].values["payload"]
        /\ ~(rot.phase = "write" /\ table = "transactions" /\ id = writer[w].id)

OneWriter ==
    \A v, w \in Writer :
        writer[v].phase = "write" /\ writer[w].phase = "write" /\ writer[v].id = writer[w].id => v = w

(* Ids of metadata are given once.                                          *)
MetadataIds == 0 < nextId /\ \A i \in DOMAIN rows["requestMetadata"] : i < nextId

PageShape ==
    /\ IsFiniteSet(rot.ids)
    /\ rot.phase = "page" => rot.batch = emptyBatch /\ rot.ids = {}
    /\ rot.phase \in {"visit", "write"} => rot.ids # {}

(* A walk that could read everything so far has done the tables before this *)
(* one, the pages before this one, and of this page what it no longer       *)
(* lists; a page that is short ends the table.                              *)
Clean == ~rot.unreadable /\ rot.batch.values = 0

Walked ==
    rot.phase \in {"page", "visit", "write"} /\ Clean =>
        /\ \A k \in 1 .. rot.at - 1 : \A i \in DOMAIN rows[ENCRYPTED_COLUMNS[k].table] :
              Done(ENCRYPTED_COLUMNS[k].table, i)
        /\ \A i \in DOMAIN rows[table] : i <= rot.afterId => Done(table, i)
        /\ rot.phase # "page" =>
              \A i \in DOMAIN rows[table] \ rot.ids :
                  \/ rot.batch.counts.processed + Cardinality(rot.ids) < Limit
                  \/ \E j \in rot.ids : i <= j
                  => Done(table, i)

Held == RotationHolds /\ WritersHold /\ OneWriter /\ MetadataIds /\ PageShape

IInv == TypeOK /\ Held /\ Walked /\ ExitZeroMeansRotated

---------------------------------------------------------------------------
(* Finite sets of ids.                                                      *)
LEMMA LeastId ==
    ASSUME NEW S, S \subseteq Nat, S # {}
    PROVE  \E x \in S : \A y \in S : x <= y
<1> DEFINE R == OpToRel(<, Nat)
<1>1. \A x, y \in Nat : x < y => <<x, y>> \in R BY DEF OpToRel
<1>2. IsWellFoundedOn(R, Nat) BY NatLessThanWellFounded
<1> HIDE DEF R
<1>3. PICK x \in S : \A y \in S : ~(<<y, x>> \in R) BY <1>2, WFMin
<1>4. \A y \in S : ~(y < x) BY <1>1, <1>3
<1> QED BY <1>3, <1>4

LEMMA PartOf ==
    ASSUME NEW S, IsFiniteSet(S), NEW T, T \subseteq S
    PROVE  /\ IsFiniteSet(T) /\ Cardinality(T) \in Nat /\ Cardinality(S) \in Nat
           /\ Cardinality(T) <= Cardinality(S)
           /\ T # S => Cardinality(T) < Cardinality(S)
<1>1. IsFiniteSet(T) /\ Cardinality(T) <= Cardinality(S) /\ (Cardinality(S) = Cardinality(T) => S = T)
  BY FS_Subset
<1>2. Cardinality(T) \in Nat /\ Cardinality(S) \in Nat BY <1>1, FS_CardinalityType
<1> QED BY <1>1, <1>2

LEMMA PairIsFinite == \A a, b : IsFiniteSet({a, b})
<1> SUFFICES ASSUME NEW a, NEW b PROVE IsFiniteSet({a, b}) OBVIOUS
<1>1. IsFiniteSet({a}) BY FS_Singleton
<1>2. IsFiniteSet({a} \cup {b}) BY <1>1, FS_AddElement
<1>3. {a} \cup {b} = {a, b} OBVIOUS
<1> QED BY <1>2, <1>3

LEMMA GreatestId ==
    ASSUME NEW S, S \subseteq Nat, S # {}, IsFiniteSet(S)
    PROVE  \E x \in S : \A y \in S : y <= x
<1> DEFINE From(x) == {j \in S : j >= x}
           T == {Cardinality(From(x)) : x \in S}
<1>1. \A x, y \in S : x < y => From(y) \subseteq From(x) /\ From(y) # From(x)
  <2>1. ASSUME NEW x \in S, NEW y \in S, x < y PROVE From(y) \subseteq From(x)
    <3>1. ASSUME NEW j \in S, j >= y PROVE j >= x
      <4>1. j \in Nat /\ x \in Nat /\ y \in Nat OBVIOUS
      <4> QED BY <2>1, <3>1, <4>1
    <3> QED BY <3>1
  <2>2. ASSUME NEW x \in S, NEW y \in S, x < y PROVE x \in From(x) /\ x \notin From(y) BY <2>2
  <2> QED BY <2>1, <2>2
<1>2. \A x : From(x) \subseteq S OBVIOUS
<1> HIDE DEF From
<1>3. \A x : IsFiniteSet(From(x)) /\ Cardinality(From(x)) \in Nat BY <1>2, PartOf
<1>4. T \subseteq Nat /\ T # {} BY <1>3
<1>5. PICK m \in T : \A n \in T : m <= n BY <1>4, LeastId
<1>6. PICK x \in S : m = Cardinality(From(x)) BY <1>5
<1>7. ASSUME NEW y \in S, x < y PROVE FALSE
  <2>1. From(y) \subseteq From(x) /\ From(y) # From(x) BY <1>1, <1>7
  <2>2. Cardinality(From(y)) < Cardinality(From(x)) BY <1>3, <2>1, PartOf
  <2>3. Cardinality(From(y)) \in T OBVIOUS
  <2>4. m <= Cardinality(From(y)) BY <1>5, <2>3
  <2> QED BY <1>3, <1>6, <2>2, <2>4
<1> HIDE DEF T
<1>8. \A y \in S : y <= x BY <1>7
<1> QED BY <1>8

(* A page is what comes first; one that is not full is all there is.        *)
LEMMA PageOfLowest ==
    ASSUME NEW S, S \subseteq Nat, IsFiniteSet(S), NEW n \in Nat \ {0}
    PROVE  /\ lowest(S, n) \subseteq S /\ IsFiniteSet(lowest(S, n))
           /\ Cardinality(lowest(S, n)) < n => lowest(S, n) = S
           /\ \A i \in S \ lowest(S, n) : \A j \in lowest(S, n) : j < i
           /\ S # {} => lowest(S, n) # {}
<1> DEFINE UpTo(i) == {j \in S : j <= i}
           L == lowest(S, n)
<1>1. L = {i \in S : Cardinality(UpTo(i)) <= n} BY DEF lowest
<1>2. \A i : UpTo(i) \subseteq S OBVIOUS
<1>3. ASSUME NEW i \in S, NEW j \in S, i <= j PROVE UpTo(i) \subseteq UpTo(j)
  <2>1. ASSUME NEW k \in S, k <= i PROVE k <= j
    <3>1. i \in Nat /\ j \in Nat /\ k \in Nat OBVIOUS
    <3> QED BY <1>3, <2>1, <3>1
  <2> QED BY <2>1
<1>4. \A i, j \in S : j \in UpTo(i) <=> j <= i OBVIOUS
<1> HIDE DEF UpTo, L
<1>5. \A i : IsFiniteSet(UpTo(i)) /\ Cardinality(UpTo(i)) \in Nat BY <1>2, PartOf
<1>6. L \subseteq S BY <1>1
<1>7. IsFiniteSet(L) /\ Cardinality(L) \in Nat BY <1>6, PartOf
<1>8. ASSUME NEW i \in S \ L, NEW j \in L PROVE j < i
  <2>1. SUFFICES ASSUME i <= j PROVE FALSE BY <1>6
  <2>2. UpTo(i) \subseteq UpTo(j) BY <1>3, <1>6, <2>1
  <2>3. Cardinality(UpTo(i)) <= Cardinality(UpTo(j)) BY <1>5, <2>2, PartOf
  <2>4. Cardinality(UpTo(j)) <= n /\ ~(Cardinality(UpTo(i)) <= n) BY <1>1
  <2> QED BY <1>5, <2>3, <2>4
<1>9. ASSUME S \ L # {} PROVE ~(Cardinality(L) < n)
  <2>1. PICK i \in S \ L : \A k \in S \ L : i <= k BY <1>9, LeastId
  <2>2. UpTo(i) \subseteq L \cup {i}
    <3>1. SUFFICES ASSUME NEW j \in UpTo(i), j \notin L PROVE j = i OBVIOUS
    <3>2. j \in S /\ j <= i BY <1>2, <1>4, <3>1
    <3>3. i <= j BY <2>1, <3>1, <3>2
    <3>4. i \in Nat /\ j \in Nat BY <3>2
    <3> QED BY <3>2, <3>3, <3>4
  <2>3. IsFiniteSet(L \cup {i}) /\ Cardinality(L \cup {i}) = Cardinality(L) + 1
    BY <1>7, <2>1, FS_AddElement
  <2>4. Cardinality(UpTo(i)) <= Cardinality(L) + 1 BY <2>2, <2>3, PartOf
  <2>5. ~(Cardinality(UpTo(i)) <= n) BY <1>1, <2>1
  <2> QED BY <1>5, <1>7, <2>4, <2>5
<1>10. ASSUME S # {} PROVE L # {}
  <2>1. PICK i \in S : \A k \in S : i <= k BY <1>10, LeastId
  <2>2. UpTo(i) \subseteq {i}
    <3>1. SUFFICES ASSUME NEW j \in UpTo(i) PROVE j = i OBVIOUS
    <3>2. j \in S /\ j <= i BY <1>2, <1>4
    <3>3. i <= j BY <2>1, <3>2
    <3>4. i \in Nat /\ j \in Nat BY <3>2
    <3> QED BY <3>2, <3>3, <3>4
  <2>3. IsFiniteSet({i}) /\ Cardinality({i}) = 1 BY FS_Singleton
  <2>4. Cardinality(UpTo(i)) <= 1 BY <2>2, <2>3, PartOf
  <2>5. Cardinality(UpTo(i)) <= n BY <1>5, <2>4
  <2> QED BY <1>1, <2>1, <2>5
<1>11. Cardinality(L) < n => L = S BY <1>6, <1>9
<1> QED BY <1>6, <1>7, <1>8, <1>10, <1>11 DEF L

---------------------------------------------------------------------------
(* The shape of tables and walks.                                           *)
LEMMA ColumnsOfTables ==
    /\ DOMAIN ENCRYPTED_COLUMNS = 1 .. 4 /\ Len(ENCRYPTED_COLUMNS) = 4
    /\ ENCRYPTED_COLUMNS[1].table = "transactions"
    /\ ENCRYPTED_COLUMNS[2].table = "transactionAttempts"
    /\ ENCRYPTED_COLUMNS[3].table = "transactionLogs"
    /\ ENCRYPTED_COLUMNS[4].table = "requestMetadata"
    /\ ColumnsOf("transactions") = {"payload"}
    /\ ColumnsOf("transactionAttempts") = {"payload", "callback_payload"}
    /\ ColumnsOf("transactionLogs") = {"old_values", "new_values"}
    /\ ColumnsOf("requestMetadata") = {"custom_metadata"}
<1> DEFINE E == {ENCRYPTED_COLUMNS[i] : i \in DOMAIN ENCRYPTED_COLUMNS}
           entry(t, columns) == [table |-> t, columns |-> columns]
<1>1. /\ DOMAIN ENCRYPTED_COLUMNS = 1 .. 4 /\ Len(ENCRYPTED_COLUMNS) = 4
      /\ ENCRYPTED_COLUMNS[1] = entry("transactions", {"payload"})
      /\ ENCRYPTED_COLUMNS[2] = entry("transactionAttempts", {"payload", "callback_payload"})
      /\ ENCRYPTED_COLUMNS[3] = entry("transactionLogs", {"old_values", "new_values"})
      /\ ENCRYPTED_COLUMNS[4] = entry("requestMetadata", {"custom_metadata"})
  BY DEF ENCRYPTED_COLUMNS
<1>2. \A t : ColumnsOf(t) = (CHOOSE e \in E : e.table = t).columns BY DEF ColumnsOf
<1>3. \A e \in E : \E i \in 1 .. 4 : e = ENCRYPTED_COLUMNS[i] BY <1>1
<1>4. \A i \in 1 .. 4 : ENCRYPTED_COLUMNS[i] \in E BY <1>1
<1> HIDE DEF E
<1>5. ASSUME NEW t, \E e \in E : e.table = t
      PROVE  \E e \in E : e.table = t /\ ColumnsOf(t) = e.columns
  <2>1. \E e : e \in E /\ e.table = t BY <1>5
  <2> DEFINE c == CHOOSE e \in E : e.table = t
  <2>2. c \in E /\ c.table = t BY <2>1
  <2> QED BY <1>2, <2>2
<1>6. \A e \in E : \/ e = entry("transactions", {"payload"})
                   \/ e = entry("transactionAttempts", {"payload", "callback_payload"})
                   \/ e = entry("transactionLogs", {"old_values", "new_values"})
                   \/ e = entry("requestMetadata", {"custom_metadata"})
  <2>1. \A i \in 1 .. 4 : i = 1 \/ i = 2 \/ i = 3 \/ i = 4 OBVIOUS
  <2> HIDE DEF entry
  <2> QED BY <1>1, <1>3, <2>1
<1>7. \A i \in 1 .. 4 : \E e \in E : e.table = ENCRYPTED_COLUMNS[i].table BY <1>4
<1>8. ColumnsOf("transactions") = {"payload"}
  <2>1. \E e \in E : e.table = "transactions" BY <1>1, <1>7
  <2> QED BY <1>5, <1>6, <2>1
<1>9. ColumnsOf("transactionAttempts") = {"payload", "callback_payload"}
  <2>1. \E e \in E : e.table = "transactionAttempts" BY <1>1, <1>7
  <2> QED BY <1>5, <1>6, <2>1
<1>10. ColumnsOf("transactionLogs") = {"old_values", "new_values"}
  <2>1. \E e \in E : e.table = "transactionLogs" BY <1>1, <1>7
  <2> QED BY <1>5, <1>6, <2>1
<1>11. ColumnsOf("requestMetadata") = {"custom_metadata"}
  <2>1. \E e \in E : e.table = "requestMetadata" BY <1>1, <1>7
  <2> QED BY <1>5, <1>6, <2>1
<1> QED BY <1>1, <1>8, <1>9, <1>10, <1>11

LEMMA TableOfWalk ==
    /\ \A k \in 1 .. 4 : ENCRYPTED_COLUMNS[k].table \in Table
    /\ \A t \in Table : \E k \in 1 .. 4 : t = ENCRYPTED_COLUMNS[k].table
    /\ \A r \in Walk : r.at \in 1 .. 4
    /\ \A t \in Table : Row(t) \subseteq AnyRow
BY ColumnsOfTables DEF Table, Walk, AnyRow

LEMMA CountsType ==
    /\ emptyCounts \in Counts /\ emptyBatch \in Tally
    /\ \A a, b \in Counts : mergeCounts(a, b) \in Counts
BY DEF emptyCounts, Counts, Status, emptyBatch, Tally, mergeCounts

(* What follows a batch: the next page, the next table, or the end.         *)
LEMMA Continued ==
    ASSUME NEW r \in Walk, NEW b \in Tally
    PROVE  LET k == continue(r, b) IN
           /\ k \in Walk /\ k.phase \in {"page", "returned"} /\ k.ids = {} /\ k.batch = emptyBatch
           /\ k.unreadable <=> r.unreadable \/ b.values > 0
           /\ k.phase = "page" =>
                \/ b.counts.processed >= Limit /\ k.at = r.at /\ k.afterId = b.lastId
                \/ b.counts.processed < Limit /\ r.at < 4 /\ k.at = r.at + 1 /\ k.afterId = 0
           /\ k.phase = "returned" => k.stoppedEarly \/ (b.counts.processed < Limit /\ r.at = 4)
<1> DEFINE counts == mergeCounts(r.tableCounts, b.counts)
           failing == r.unreadable \/ b.values > 0
           after == [r EXCEPT !.tableCounts = counts, !.unreadable = failing,
                              !.batch = emptyBatch, !.ids = {}]
           full == b.counts.processed >= Limit
           k == continue(r, b)
<1>1. counts \in Counts /\ emptyCounts \in Counts /\ emptyBatch \in Tally /\ b.lastId \in Nat
  BY CountsType DEF Walk, Tally
<1>2. b.counts.processed \in Nat /\ Limit \in Nat BY BatchAssumption DEF Tally, Counts
<1>3. failing \in BOOLEAN OBVIOUS
<1>4. k = CASE hopeless(counts) -> [after EXCEPT !.phase = "returned", !.stoppedEarly = TRUE]
            [] ~hopeless(counts) /\ full -> [after EXCEPT !.phase = "page", !.afterId = b.lastId]
            [] OTHER -> IF r.at = Len(ENCRYPTED_COLUMNS) THEN [after EXCEPT !.phase = "returned"]
                        ELSE [after EXCEPT !.phase = "page", !.at = @ + 1, !.afterId = 0,
                                           !.tableCounts = emptyCounts]
  BY DEF continue
<1> HIDE DEF counts, failing
<1>5. after \in Walk /\ after.at = r.at /\ after.ids = {} /\ after.batch = emptyBatch
      /\ after.unreadable = failing
  BY <1>1, <1>3 DEF Walk
<1> HIDE DEF after, full, k
<1>6. r.at \in 1 .. 4 /\ Len(ENCRYPTED_COLUMNS) = 4 /\ DOMAIN ENCRYPTED_COLUMNS = 1 .. 4
  BY TableOfWalk, ColumnsOfTables
<1>7. CASE hopeless(counts)
  <2>1. k = [after EXCEPT !.phase = "returned", !.stoppedEarly = TRUE] BY <1>4, <1>7
  <2>2. k \in Walk /\ k.phase = "returned" /\ k.ids = {} /\ k.batch = emptyBatch
        /\ k.unreadable = failing /\ k.stoppedEarly = TRUE
    BY <1>5, <2>1 DEF Walk
  <2> QED BY <2>2 DEF k, failing
<1>8. CASE ~hopeless(counts) /\ full
  <2>1. k = [after EXCEPT !.phase = "page", !.afterId = b.lastId] BY <1>4, <1>8
  <2>2. k \in Walk /\ k.phase = "page" /\ k.ids = {} /\ k.batch = emptyBatch
        /\ k.unreadable = failing /\ k.at = r.at /\ k.afterId = b.lastId
    BY <1>1, <1>5, <2>1 DEF Walk
  <2> QED BY <1>8, <2>2 DEF k, full, failing
<1>9. CASE ~hopeless(counts) /\ ~full /\ r.at = 4
  <2>1. k = [after EXCEPT !.phase = "returned"] BY <1>4, <1>6, <1>9
  <2>2. k \in Walk /\ k.phase = "returned" /\ k.ids = {} /\ k.batch = emptyBatch
        /\ k.unreadable = failing
    BY <1>5, <2>1 DEF Walk
  <2>3. b.counts.processed < Limit BY <1>2, <1>9 DEF full
  <2> QED BY <1>9, <2>2, <2>3 DEF k, failing
<1>10. CASE ~hopeless(counts) /\ ~full /\ r.at # 4
  <2>1. k = [after EXCEPT !.phase = "page", !.at = r.at + 1, !.afterId = 0, !.tableCounts = emptyCounts]
    BY <1>4, <1>5, <1>6, <1>10
  <2>2. r.at + 1 \in DOMAIN ENCRYPTED_COLUMNS /\ r.at < 4 BY <1>6, <1>10
  <2>3. k \in Walk /\ k.phase = "page" /\ k.ids = {} /\ k.batch = emptyBatch
        /\ k.unreadable = failing /\ k.at = r.at + 1 /\ k.afterId = 0
    BY <1>1, <1>5, <2>1, <2>2 DEF Walk
  <2>4. b.counts.processed < Limit BY <1>2, <1>10 DEF full
  <2> QED BY <2>2, <2>3, <2>4 DEF k, failing
<1> QED BY <1>7, <1>8, <1>9, <1>10

LEMMA Tallied ==
    ASSUME NEW from \in Tally, NEW n \in Nat, NEW status \in Status, NEW failed \in Nat
    PROVE  /\ tally(from, n, status, failed) \in Tally
           /\ tally(from, n, status, failed).counts.processed = from.counts.processed + 1
           /\ tally(from, n, status, failed).lastId = n
           /\ tally(from, n, status, failed).values = from.values + failed
<1> DEFINE counts == [from.counts EXCEPT !.processed = @ + 1, ![status] = @ + 1]
<1>1. from.counts \in [{"processed"} \cup Status -> Nat] /\ from.values \in Nat BY DEF Tally, Counts
<1>2. status # "processed" BY DEF Status
<1>3. counts \in Counts /\ counts.processed = from.counts.processed + 1 BY <1>1, <1>2 DEF Counts
<1>4. tally(from, n, status, failed) = [counts |-> counts, lastId |-> n, values |-> from.values + failed]
  BY DEF tally
<1> HIDE DEF counts
<1> QED BY <1>1, <1>3, <1>4 DEF Tally

(* What follows a row: the next row of the page, or what follows its batch. *)
LEMMA Visited ==
    ASSUME NEW r \in Walk, NEW i \in r.ids, NEW status \in Status, NEW failed \in Nat
    PROVE  LET v == visited(r, i, status, failed)
               b == tally(r.batch, i, status, failed)
           IN
           /\ v \in Walk
           /\ r.ids = {i} => v = continue(r, b)
           /\ r.ids # {i} =>
                /\ v.phase = "visit" /\ v.ids = r.ids \ {i} /\ v.at = r.at /\ v.afterId = r.afterId
                /\ v.unreadable = r.unreadable /\ v.batch = b
<1> DEFINE b == tally(r.batch, i, status, failed)
<1>1. r.batch \in Tally /\ i \in Nat BY DEF Walk
<1>2. b \in Tally BY <1>1, Tallied
<1>3. visited(r, i, status, failed) =
        IF r.ids # {i} THEN [r EXCEPT !.phase = "visit", !.ids = @ \ {i}, !.batch = b]
        ELSE continue(r, b)
  BY DEF visited
<1> HIDE DEF b
<1>4. CASE r.ids = {i}
  <2>1. visited(r, i, status, failed) = continue(r, b) BY <1>3, <1>4
  <2> QED BY <1>2, <1>4, <2>1, Continued DEF b
<1>5. CASE r.ids # {i}
  <2> DEFINE v == visited(r, i, status, failed)
  <2>1. v = [r EXCEPT !.phase = "visit", !.ids = @ \ {i}, !.batch = b] BY <1>3, <1>5
  <2> HIDE DEF v
  <2>2. /\ v \in Walk /\ v.phase = "visit" /\ v.ids = r.ids \ {i} /\ v.at = r.at
        /\ v.afterId = r.afterId /\ v.unreadable = r.unreadable /\ v.batch = b
    BY <1>2, <2>1 DEF Walk
  <2> QED BY <1>5, <2>2 DEF b, v
<1> QED BY <1>4, <1>5

LEMMA AfterVisit ==
    ASSUME NEW r \in Walk, NEW i \in r.ids, NEW status \in Status, NEW failed \in Nat
    PROVE  visited(r, i, status, failed) \in Walk /\ visited(r, i, status, failed).phase # "write"
<1>1. r.batch \in Tally /\ i \in Nat BY DEF Walk
<1>2. tally(r.batch, i, status, failed) \in Tally BY <1>1, Tallied
<1>3. continue(r, tally(r.batch, i, status, failed)).phase # "write" BY <1>2, Continued
<1>4. r.ids = {i} => visited(r, i, status, failed) = continue(r, tally(r.batch, i, status, failed))
  BY Visited
<1>5. r.ids # {i} => visited(r, i, status, failed).phase = "visit" BY Visited
<1>6. visited(r, i, status, failed) \in Walk BY Visited
<1> QED BY <1>3, <1>4, <1>5, <1>6

LEMMA PageHasLowest ==
    ASSUME rot \in Walk, rot.ids # {}
    PROVE  id \in rot.ids /\ id \in Nat
<1>1. rot.ids \subseteq Nat BY DEF Walk
<1>2. \E i \in rot.ids : \A j \in rot.ids : i <= j BY <1>1, LeastId
<1> QED BY <1>1, <1>2 DEF id

---------------------------------------------------------------------------
(* Values.                                                                  *)
LEMMA ColumnTypes ==
    ASSUME IsDatabase(rows), NEW t \in Table, NEW i \in DOMAIN rows[t]
    PROVE  /\ rows[t][i] \in Row(t) /\ rows[t][i].values \in [ColumnsOf(t) -> Value]
           /\ \A c \in ColumnsOf(t) : rows[t][i].values[c] \in Value
           /\ i \in Nat \ {0}
<1>1. rows[t][i] \in Row(t) BY DEF IsDatabase
<1>2. rows[t][i].values \in [ColumnsOf(t) -> Value] BY <1>1 DEF Row
<1>3. i \in Nat \ {0} BY DEF IsDatabase
<1> QED BY <1>1, <1>2, <1>3

(* What store() writes is under the current key.                            *)
LEMMA Stored ==
    ASSUME TypeOK, NEW v \in Value, v.form \in {"null", "plain"}
    PROVE  /\ store(v) \in Value /\ store(v).text = v.text
           /\ looksLikeEnvelope(store(v)) => isCurrentKey(store(v))
           /\ canStore => read(store(v))
<1>1. keys.current \in Key \cup {Null} BY DEF TypeOK
<1>2. CASE v.form = "null"
  <2>1. store(v) = v BY <1>2 DEF store
  <2> QED BY <1>2, <2>1 DEF looksLikeEnvelope, read
<1>3. CASE v.form = "plain"
  <2>1. ~isOwnEnvelope(v) /\ v.form # "null" BY <1>3 DEF isOwnEnvelope, looksLikeEnvelope
  <2>2. store(v) = [form |-> "v2", key |-> keys.current, text |-> v.text]
    BY <2>1 DEF store, Envelope
  <2>3. store(v) \in Value /\ store(v).text = v.text /\ isCurrentKey(store(v))
    BY <1>1, <2>2 DEF Value, isCurrentKey
  <2>4. canStore => read(store(v)) BY <2>2 DEF canStore, read, decryptAny, all
  <2> QED BY <2>3, <2>4
<1> QED BY <1>2, <1>3

(* What the rotation makes of a value.                                      *)
LEMMA Rekeyed ==
    ASSUME TypeOK, NEW v \in Value
    PROVE  /\ rekeyValue(v) \in {"current", "plaintext", "rewritten", "unreadable"}
           /\ (rekeyValue(v) \in {"current", "plaintext"} /\ looksLikeEnvelope(v)) => isCurrentKey(v)
           /\ rekeyValue(v) = "rewritten" =>
                /\ rekey(v) \in Value /\ rekey(v).text = v.text
                /\ isCurrentKey(rekey(v)) /\ read(rekey(v))
<1>1. keys.current \in Key \cup {Null} BY DEF TypeOK
<1>2. rekey(v) = [form |-> "v2", key |-> keys.current, text |-> v.text] BY DEF rekey, Envelope
<1>3. rekey(v) \in Value /\ rekey(v).text = v.text /\ isCurrentKey(rekey(v))
  BY <1>1, <1>2 DEF Value, isCurrentKey
<1>4. canStore => read(rekey(v)) BY <1>2 DEF canStore, read, decryptAny, all
<1> DEFINE isNull == v.form = "null"
           isPlain == v.form = "plain"
           isCurrent == isCurrentKey(v)
           isRewritten == looksLikeEnvelope(v) /\ ~isCurrentKey(v) /\ canStore /\ decryptAny(v)
<1>5. rekeyValue(v) = CASE isNull -> "current" [] isPlain -> "plaintext" [] isCurrent -> "current"
                        [] isRewritten -> "rewritten" [] OTHER -> "unreadable"
  BY DEF rekeyValue
<1>6. /\ isNull \/ isPlain => ~looksLikeEnvelope(v)
      /\ isNull => ~isPlain /\ ~isCurrent /\ ~isRewritten
      /\ isPlain => ~isCurrent /\ ~isRewritten
      /\ isRewritten => canStore /\ ~isCurrent
      /\ isCurrent <=> isCurrentKey(v)
  BY DEF looksLikeEnvelope, isCurrentKey
<1> HIDE DEF isNull, isPlain, isCurrent, isRewritten
<1>7. /\ isNull => rekeyValue(v) = "current"
      /\ isPlain => rekeyValue(v) = "plaintext"
      /\ isCurrent => rekeyValue(v) = "current"
      /\ isRewritten => rekeyValue(v) = "rewritten"
      /\ ~(isNull \/ isPlain \/ isCurrent \/ isRewritten) => rekeyValue(v) = "unreadable"
  BY <1>5, <1>6
<1> QED BY <1>3, <1>4, <1>6, <1>7

(* Of a row: what changes is rewritten, and what is left is done unless it  *)
(* failed.                                                                  *)
LEMMA RowRekeyed ==
    ASSUME TypeOK, NEW t \in Table, NEW row \in Row(t)
    PROVE  /\ changes(row) \subseteq ColumnsOf(t) /\ failures(row) \subseteq ColumnsOf(t)
           /\ \A c \in changes(row) :
                /\ row.values[c] \in Value
                /\ rekey(row.values[c]) \in Value /\ rekey(row.values[c]).text = row.values[c].text
                /\ isCurrentKey(rekey(row.values[c])) /\ read(rekey(row.values[c]))
           /\ \A c \in ColumnsOf(t) \ (changes(row) \cup failures(row)) :
                looksLikeEnvelope(row.values[c]) => isCurrentKey(row.values[c])
           /\ rekeyRow(row) \in Status
           /\ IsFiniteSet(failures(row)) /\ Cardinality(failures(row)) \in Nat
           /\ Cardinality(failures(row)) = 0 => failures(row) = {}
<1>1. row.values \in [ColumnsOf(t) -> Value] BY DEF Row
<1>2. changes(row) \subseteq ColumnsOf(t) /\ failures(row) \subseteq ColumnsOf(t)
  BY <1>1 DEF changes, failures
<1>3. \A c \in ColumnsOf(t) : row.values[c] \in Value BY <1>1
<1>4. \A c \in changes(row) : rekeyValue(row.values[c]) = "rewritten"
  BY DEF changes, rekeyColumn
<1>5. \A c \in ColumnsOf(t) \ (changes(row) \cup failures(row)) :
        \/ row.values[c].form = "broken"
        \/ rekeyValue(row.values[c]) \in {"current", "plaintext"}
  <2>1. ASSUME NEW c \in ColumnsOf(t) \ (changes(row) \cup failures(row)), row.values[c].form # "broken"
        PROVE  rekeyValue(row.values[c]) \in {"current", "plaintext"}
    <3>1. c \in DOMAIN row.values /\ rekeyColumn(row, c) \notin {"rewritten", "unreadable"}
      BY <1>1 DEF changes, failures
    <3>2. rekeyColumn(row, c) = rekeyValue(row.values[c]) BY <2>1 DEF rekeyColumn
    <3> QED BY <1>3, <3>1, <3>2, Rekeyed
  <2> QED BY <2>1
<1>6. IsFiniteSet(ColumnsOf(t))
  <2>1. \A a : IsFiniteSet({a}) BY FS_Singleton
  <2>2. CASE t = "transactions" BY <2>1, <2>2, ColumnsOfTables
  <2>3. CASE t = "transactionAttempts"
    <3>1. IsFiniteSet({"payload", "callback_payload"}) BY PairIsFinite
    <3> QED BY <2>3, <3>1, ColumnsOfTables
  <2>4. CASE t = "transactionLogs"
    <3>1. IsFiniteSet({"old_values", "new_values"}) BY PairIsFinite
    <3> QED BY <2>4, <3>1, ColumnsOfTables
  <2>5. CASE t = "requestMetadata" BY <2>1, <2>5, ColumnsOfTables
  <2> QED BY <2>2, <2>3, <2>4, <2>5 DEF Table
<1>7. IsFiniteSet(failures(row)) /\ Cardinality(failures(row)) \in Nat BY <1>2, <1>6, PartOf
<1>8. Cardinality(failures(row)) = 0 => failures(row) = {} BY <1>7, FS_EmptySet
<1>9. rekeyRow(row) \in Status
  <2>1. unchangedRow(row) \in {"unreadable", "plaintext", "current"} BY DEF unchangedRow
  <2> QED BY <2>1 DEF rekeyRow, Status
<1>10. \A c \in ColumnsOf(t) \ (changes(row) \cup failures(row)) :
         looksLikeEnvelope(row.values[c]) => isCurrentKey(row.values[c])
  BY <1>3, <1>5, Rekeyed DEF looksLikeEnvelope
<1>11. \A c \in changes(row) :
         /\ row.values[c] \in Value
         /\ rekey(row.values[c]) \in Value /\ rekey(row.values[c]).text = row.values[c].text
         /\ isCurrentKey(rekey(row.values[c])) /\ read(rekey(row.values[c]))
  BY <1>2, <1>3, <1>4, Rekeyed
<1> QED BY <1>2, <1>7, <1>8, <1>9, <1>10, <1>11

---------------------------------------------------------------------------
(* A table that is replaced.                                                *)
Replaces(db, t, new, after) == after = [db EXCEPT ![t] = new]

LEMMA Replaced ==
    ASSUME NEW db, IsDatabase(db), NEW t \in Table, NEW new,
           DOMAIN new \subseteq Nat \ {0}, IsFiniteSet(DOMAIN new), new \in [DOMAIN new -> Row(t)],
           NEW after, Replaces(db, t, new, after)
    PROVE  /\ IsDatabase(after) /\ after[t] = new
           /\ \A u \in Table \ {t} : after[u] = db[u]
<1>1. DOMAIN db = Table BY DEF IsDatabase
<1>2. DOMAIN after = Table /\ after = [u \in Table |-> after[u]] BY <1>1 DEF Replaces
<1>3. after[t] = new /\ \A u \in Table \ {t} : after[u] = db[u] BY <1>1 DEF Replaces
<1>4. ASSUME NEW u \in Table
      PROVE  /\ DOMAIN after[u] \subseteq Nat \ {0} /\ IsFiniteSet(DOMAIN after[u])
             /\ after[u] \in [DOMAIN after[u] -> Row(u)]
  <2>1. CASE u = t BY <1>3, <2>1
  <2>2. CASE u # t
    <3>1. after[u] = db[u] BY <1>3, <2>2
    <3> QED BY <3>1 DEF IsDatabase
  <2> QED BY <2>1, <2>2
<1>5. IsDatabase(after) BY <1>2, <1>4 DEF IsDatabase
<1> QED BY <1>3, <1>5

(* One value of one row that is written.                                    *)
LEMMA Written ==
    ASSUME NEW db, IsDatabase(db), NEW t \in Table, NEW i \in DOMAIN db[t],
           NEW values \in [ColumnsOf(t) -> Value]
    PROVE  LET new == [db[t] EXCEPT ![i].values = values] IN
           /\ DOMAIN new = DOMAIN db[t] /\ DOMAIN new \subseteq Nat \ {0} /\ IsFiniteSet(DOMAIN new)
           /\ new \in [DOMAIN new -> Row(t)]
           /\ new[i].values = values /\ new[i].of = db[t][i].of
           /\ \A j \in DOMAIN db[t] \ {i} : new[j] = db[t][j]
<1> DEFINE row == [db[t][i] EXCEPT !.values = values]
           new == [db[t] EXCEPT ![i] = row]
<1>1. db[t] \in [DOMAIN db[t] -> Row(t)] /\ DOMAIN db[t] \subseteq Nat \ {0}
      /\ IsFiniteSet(DOMAIN db[t])
  BY DEF IsDatabase
<1>2. db[t][i] \in Row(t) BY <1>1
<1>3. row \in Row(t) /\ row.values = values /\ row.of = db[t][i].of BY <1>2 DEF Row
<1> HIDE DEF row
<1>4. DOMAIN new = DOMAIN db[t] /\ new \in [DOMAIN db[t] -> Row(t)] /\ new[i] = row
      /\ \A j \in DOMAIN db[t] \ {i} : new[j] = db[t][j]
  BY <1>1, <1>3
<1> QED BY <1>1, <1>3, <1>4 DEF row

---------------------------------------------------------------------------
(* The walk.  No step leaves a row undone that was done, or makes one that  *)
(* is not done.                                                             *)
NoneUndone ==
    \A t \in Table : \A i \in DOMAIN rows'[t] :
        (i \in DOMAIN rows[t] => Done(t, i)) => Done(t, i)'

(* A step that does not move the walk.                                      *)
LEMMA WalkedKept ==
    ASSUME TypeOK, Walked, ExitZeroMeansRotated, NoneUndone, UNCHANGED <<keys, rot>>
    PROVE  Walked' /\ ExitZeroMeansRotated'
<1>1. ExitZeroMeansRotated'
  <2>1. SUFFICES ASSUME rot.phase = "returned", ~rot.unreadable, ~rot.stoppedEarly,
                        NEW t \in Table, NEW i \in DOMAIN rows'[t]
                 PROVE  Done(t, i)'
    BY DEF ExitZeroMeansRotated, Done
  <2>2. i \in DOMAIN rows[t] => Done(t, i) BY <2>1 DEF ExitZeroMeansRotated, Done
  <2> QED BY <2>2 DEF NoneUndone
<1>2. Walked'
  <2>1. SUFFICES ASSUME rot.phase \in {"page", "visit", "write"}, Clean
                 PROVE  /\ \A k \in 1 .. rot.at - 1 : \A i \in DOMAIN rows'[ENCRYPTED_COLUMNS[k].table] :
                             Done(ENCRYPTED_COLUMNS[k].table, i)'
                        /\ \A i \in DOMAIN rows'[table] : i <= rot.afterId => Done(table, i)'
                        /\ rot.phase # "page" =>
                              \A i \in DOMAIN rows'[table] \ rot.ids :
                                  \/ rot.batch.counts.processed + Cardinality(rot.ids) < Limit
                                  \/ \E j \in rot.ids : i <= j
                                  => Done(table, i)'
    BY DEF Walked, Clean, table
  <2>2. rot \in Walk /\ rot.at \in 1 .. 4 BY TableOfWalk DEF TypeOK
  <2>3. \A k \in 1 .. rot.at - 1 : k \in 1 .. 4 BY <2>2
  <2>4. \A k \in 1 .. rot.at - 1 : ENCRYPTED_COLUMNS[k].table \in Table BY <2>3, TableOfWalk
  <2>5. table \in Table BY <2>2, TableOfWalk DEF table
  <2>6. \A k \in 1 .. rot.at - 1 : \A i \in DOMAIN rows'[ENCRYPTED_COLUMNS[k].table] :
          Done(ENCRYPTED_COLUMNS[k].table, i)'
    <3>1. SUFFICES ASSUME NEW k \in 1 .. rot.at - 1, NEW i \in DOMAIN rows'[ENCRYPTED_COLUMNS[k].table]
                   PROVE  Done(ENCRYPTED_COLUMNS[k].table, i)'
      OBVIOUS
    <3>2. i \in DOMAIN rows[ENCRYPTED_COLUMNS[k].table] => Done(ENCRYPTED_COLUMNS[k].table, i)
      BY <2>1 DEF Walked
    <3> QED BY <2>4, <3>2 DEF NoneUndone
  <2>7. ASSUME NEW i \in DOMAIN rows'[table], i \in DOMAIN rows[table] => Done(table, i)
        PROVE  Done(table, i)'
    <3> DEFINE t == table
    <3>1. t \in Table /\ t' = t BY <2>5 DEF table
    <3>2. i \in DOMAIN rows'[t] /\ (i \in DOMAIN rows[t] => Done(t, i)) BY <2>7
    <3> QED BY <2>5, <2>7 DEF NoneUndone, Done, table
  <2>8. /\ \A i \in DOMAIN rows[table] : i <= rot.afterId => Done(table, i)
        /\ rot.phase # "page" =>
              \A i \in DOMAIN rows[table] \ rot.ids :
                  \/ rot.batch.counts.processed + Cardinality(rot.ids) < Limit
                  \/ \E j \in rot.ids : i <= j
                  => Done(table, i)
    BY <2>1 DEF Walked
  <2> QED BY <2>6, <2>7, <2>8
<1> QED BY <1>1, <1>2

(* A batch that ends: what it leaves behind is done.                        *)
LEMMA Ended ==
    ASSUME IsDatabase(rows'), NEW r \in Walk, NEW b \in Tally, rot' = continue(r, b),
           ~r.unreadable /\ b.values = 0 =>
               /\ \A k \in 1 .. r.at - 1 : \A i \in DOMAIN rows'[ENCRYPTED_COLUMNS[k].table] :
                    Done(ENCRYPTED_COLUMNS[k].table, i)'
               /\ \A i \in DOMAIN rows'[ENCRYPTED_COLUMNS[r.at].table] :
                    b.counts.processed < Limit \/ i <= b.lastId => Done(ENCRYPTED_COLUMNS[r.at].table, i)'
    PROVE  Walked' /\ ExitZeroMeansRotated' /\ PageShape'
<1> DEFINE T(k) == ENCRYPTED_COLUMNS[k].table
           AllDone(k) == \A i \in DOMAIN rows'[T(k)] : Done(T(k), i)'
           short == b.counts.processed < Limit
           clean == ~r.unreadable /\ b.values = 0
<1>1. /\ rot' \in Walk /\ rot'.phase \in {"page", "returned"} /\ rot'.ids = {} /\ rot'.batch = emptyBatch
      /\ rot'.unreadable <=> r.unreadable \/ b.values > 0
      /\ rot'.phase = "page" =>
           \/ b.counts.processed >= Limit /\ rot'.at = r.at /\ rot'.afterId = b.lastId
           \/ short /\ r.at < 4 /\ rot'.at = r.at + 1 /\ rot'.afterId = 0
      /\ rot'.phase = "returned" => rot'.stoppedEarly \/ (short /\ r.at = 4)
  BY Continued
<1>2. b.values \in Nat BY DEF Tally
<1>3. ~rot'.unreadable => clean BY <1>1, <1>2
<1>4. r.at \in 1 .. 4 BY TableOfWalk
<1>5. clean => /\ \A k \in 1 .. r.at - 1 : AllDone(k)
               /\ short => AllDone(r.at)
               /\ \A i \in DOMAIN rows'[T(r.at)] : i <= b.lastId => Done(T(r.at), i)'
  OBVIOUS
<1> HIDE DEF clean, short, AllDone
<1>6. PageShape' BY <1>1, FS_EmptySet DEF PageShape
<1>7. ExitZeroMeansRotated'
  <2>1. SUFFICES ASSUME rot'.phase = "returned", ~rot'.unreadable, ~rot'.stoppedEarly
                 PROVE  \A t \in Table : \A i \in DOMAIN rows'[t] : Done(t, i)'
    BY DEF ExitZeroMeansRotated, Done
  <2>2. clean /\ short /\ r.at = 4 BY <1>1, <1>3, <2>1
  <2>3. \A k \in 1 .. 4 : k \in 1 .. r.at - 1 \/ k = r.at BY <2>2
  <2>4. \A k \in 1 .. 4 : AllDone(k) BY <1>5, <2>2, <2>3
  <2> QED BY <2>4, TableOfWalk DEF AllDone
<1>8. Walked'
  <2>1. SUFFICES ASSUME rot'.phase = "page", ~rot'.unreadable, NEW at \in 1 .. 4, at = rot'.at
                 PROVE  /\ \A k \in 1 .. at - 1 : AllDone(k)
                        /\ \A i \in DOMAIN rows'[T(at)] : i <= rot'.afterId => Done(T(at), i)'
    <3>1. rot'.at \in 1 .. 4 BY <1>1, TableOfWalk
    <3>2. ~(rot'.phase \in {"visit", "write"}) BY <1>1
    <3> QED BY <1>1, <3>1, <3>2 DEF Walked, Clean, AllDone, Done, table
  <2>2. clean BY <1>3, <2>1
  <2>3. CASE b.counts.processed >= Limit /\ rot'.at = r.at /\ rot'.afterId = b.lastId
    <3>1. at = r.at /\ rot'.afterId = b.lastId BY <2>1, <2>3
    <3> QED BY <1>5, <2>2, <3>1
  <2>4. CASE short /\ r.at < 4 /\ rot'.at = r.at + 1 /\ rot'.afterId = 0
    <3>1. \A k \in 1 .. at - 1 : k \in 1 .. r.at - 1 \/ k = r.at BY <1>4, <2>1, <2>4
    <3>2. \A k \in 1 .. at - 1 : AllDone(k) BY <1>5, <2>2, <2>4, <3>1
    <3>3. T(at) \in Table BY TableOfWalk
    <3>4. DOMAIN rows'[T(at)] \subseteq Nat \ {0} BY <3>3 DEF IsDatabase
    <3>5. \A i \in DOMAIN rows'[T(at)] : ~(i <= rot'.afterId) BY <2>4, <3>4
    <3> QED BY <3>2, <3>5
  <2> QED BY <1>1, <2>1, <2>3, <2>4
<1> QED BY <1>6, <1>7, <1>8

(* A row that was visited: the walk goes on behind it.                      *)
LEMMA Advanced ==
    ASSUME TypeOK, Walked, PageShape, NoneUndone, UNCHANGED keys, IsDatabase(rows'),
           rot.phase \in {"visit", "write"},
           NEW r \in Walk, r.at = rot.at, r.afterId = rot.afterId, r.ids = rot.ids,
           r.batch = rot.batch, r.unreadable = rot.unreadable,
           NEW i \in rot.ids, NEW status \in Status, NEW failed \in Nat,
           rot' = visited(r, i, status, failed),
           failed = 0 /\ i \in DOMAIN rows'[ENCRYPTED_COLUMNS[r.at].table] =>
               Done(ENCRYPTED_COLUMNS[r.at].table, i)'
    PROVE  Walked' /\ ExitZeroMeansRotated' /\ PageShape'
<1> DEFINE b == tally(r.batch, i, status, failed)
           T(k) == ENCRYPTED_COLUMNS[k].table
<1>1. /\ i \in Nat /\ rot.batch \in Tally /\ rot.at \in 1 .. 4 /\ rot.batch.counts.processed \in Nat
      /\ rot.batch.values \in Nat /\ Limit \in Nat
  <2>1. rot \in Walk /\ rot.at \in 1 .. 4 BY TableOfWalk DEF TypeOK
  <2>2. i \in Nat /\ rot.batch \in Tally BY <2>1 DEF Walk
  <2> QED BY <2>1, <2>2, BatchAssumption DEF Tally, Counts
<1>2. /\ b \in Tally /\ b.counts.processed = rot.batch.counts.processed + 1 /\ b.lastId = i
      /\ b.values = rot.batch.values + failed
  <2>1. r.batch \in Tally /\ r.batch.counts.processed \in Nat /\ r.batch.values \in Nat BY <1>1
  <2>2. i \in Nat /\ status \in Status /\ failed \in Nat BY <1>1
  <2>3. \A p \in Tally, n \in Nat, s \in Status, f \in Nat :
          /\ tally(p, n, s, f) \in Tally
          /\ tally(p, n, s, f).counts.processed = p.counts.processed + 1
          /\ tally(p, n, s, f).lastId = n /\ tally(p, n, s, f).values = p.values + f
    BY Tallied
  <2>4. b \in Tally /\ b.lastId = i BY <2>1, <2>2, <2>3
  <2>5. b.counts.processed = r.batch.counts.processed + 1
    <3>1. PICK p \in Tally : p = r.batch BY <2>1
    <3>2. tally(p, i, status, failed).counts.processed = p.counts.processed + 1 BY <2>2, <2>3
    <3> QED BY <3>1, <3>2
  <2>6. b.values = r.batch.values + failed BY <2>1, <2>2, <2>3
  <2> QED BY <2>4, <2>5, <2>6
<1>3. /\ rot' \in Walk
      /\ rot.ids = {i} => rot' = continue(r, b)
      /\ rot.ids # {i} =>
           /\ rot'.phase = "visit" /\ rot'.ids = rot.ids \ {i} /\ rot'.at = rot.at
           /\ rot'.afterId = rot.afterId /\ rot'.unreadable = rot.unreadable /\ rot'.batch = b
  BY Visited
<1> HIDE DEF b
<1>4. IsFiniteSet(rot.ids) BY DEF PageShape
<1>5. /\ Cardinality(rot.ids) \in Nat /\ IsFiniteSet(rot.ids \ {i})
      /\ Cardinality(rot.ids \ {i}) = Cardinality(rot.ids) - 1
  BY <1>4, FS_CardinalityType, FS_RemoveElement
<1>6. r.at \in 1 .. 4 /\ T(r.at) \in Table /\ table = T(r.at) BY <1>1, TableOfWalk DEF table
<1>7. ASSUME ~r.unreadable, b.values = 0
      PROVE  /\ \A k \in 1 .. r.at - 1 : \A j \in DOMAIN rows'[T(k)] : Done(T(k), j)'
             /\ \A j \in DOMAIN rows'[T(r.at)] : j <= rot.afterId \/ j = i => Done(T(r.at), j)'
             /\ \A j \in DOMAIN rows'[T(r.at)] \ (rot.ids \ {i}) :
                  \/ rot.batch.counts.processed + Cardinality(rot.ids) < Limit
                  \/ \E m \in rot.ids : j <= m
                  => Done(T(r.at), j)'
  <2>1. rot.batch.values = 0 /\ failed = 0 BY <1>1, <1>2, <1>7
  <2>2. /\ \A k \in 1 .. r.at - 1 : \A j \in DOMAIN rows[T(k)] : Done(T(k), j)
        /\ \A j \in DOMAIN rows[T(r.at)] : j <= rot.afterId => Done(T(r.at), j)
        /\ \A j \in DOMAIN rows[T(r.at)] \ rot.ids :
             \/ rot.batch.counts.processed + Cardinality(rot.ids) < Limit
             \/ \E m \in rot.ids : j <= m
             => Done(T(r.at), j)
    BY <1>6, <1>7, <2>1 DEF Walked, Clean
  <2>3. \A k \in 1 .. r.at - 1 : T(k) \in Table
    <3>1. \A k \in 1 .. r.at - 1 : k \in 1 .. 4 BY <1>1
    <3> QED BY <3>1, TableOfWalk
  <2>4. \A k \in 1 .. r.at - 1 : \A j \in DOMAIN rows'[T(k)] : Done(T(k), j)'
    BY <2>2, <2>3 DEF NoneUndone
  <2>5. i \in DOMAIN rows'[T(r.at)] => Done(T(r.at), i)'
    BY <2>1
  <2>6. \A j \in DOMAIN rows'[T(r.at)] :
          (j \in DOMAIN rows[T(r.at)] => Done(T(r.at), j)) => Done(T(r.at), j)'
    BY <1>6 DEF NoneUndone
  <2> QED BY <2>2, <2>4, <2>5, <2>6
<1>8. CASE rot.ids = {i}
  <2>1. Cardinality(rot.ids) = 1 BY <1>8, FS_Singleton
  <2>2. b.counts.processed < Limit => rot.batch.counts.processed + Cardinality(rot.ids) < Limit
    BY <1>2, <2>1
  <2>3. ASSUME ~r.unreadable, b.values = 0
        PROVE  /\ \A k \in 1 .. r.at - 1 : \A j \in DOMAIN rows'[T(k)] : Done(T(k), j)'
               /\ \A j \in DOMAIN rows'[T(r.at)] :
                    b.counts.processed < Limit \/ j <= b.lastId => Done(T(r.at), j)'
    BY <1>2, <1>7, <1>8, <2>2, <2>3
  <2>4. rot' = continue(r, b) BY <1>3, <1>8
  <2> HIDE DEF T
  <2>5. ~r.unreadable <=> ~rot.unreadable OBVIOUS
  <2> QED BY <1>2, <2>3, <2>4, <2>5, Ended DEF T
<1>9. CASE rot.ids # {i}
  <2>1. /\ rot'.phase = "visit" /\ rot'.ids = rot.ids \ {i} /\ rot'.at = rot.at
        /\ rot'.afterId = rot.afterId /\ rot'.unreadable = rot.unreadable /\ rot'.batch = b
    BY <1>3, <1>9
  <2>2. rot.ids \ {i} # {} BY <1>9
  <2>3. PageShape' BY <1>5, <2>1, <2>2 DEF PageShape
  <2>4. ExitZeroMeansRotated' BY <2>1 DEF ExitZeroMeansRotated
  <2>5. b.counts.processed + Cardinality(rot.ids \ {i}) = rot.batch.counts.processed + Cardinality(rot.ids)
    BY <1>1, <1>2, <1>5
  <2>6. Walked'
    <3>1. SUFFICES ASSUME ~r.unreadable, b.values = 0
                   PROVE  /\ \A k \in 1 .. r.at - 1 : \A j \in DOMAIN rows'[T(k)] : Done(T(k), j)'
                          /\ \A j \in DOMAIN rows'[T(r.at)] : j <= rot.afterId => Done(T(r.at), j)'
                          /\ \A j \in DOMAIN rows'[T(r.at)] \ (rot.ids \ {i}) :
                               \/ b.counts.processed + Cardinality(rot.ids \ {i}) < Limit
                               \/ \E m \in rot.ids \ {i} : j <= m
                               => Done(T(r.at), j)'
      <4>1. Clean' => ~r.unreadable /\ b.values = 0 BY <2>1 DEF Clean
      <4>2. table' = T(r.at) BY <2>1 DEF table
      <4>3. ASSUME NEW k, NEW j, Done(T(k), j)' PROVE Done(ENCRYPTED_COLUMNS[k].table, j)' BY <4>3
      <4>4. ASSUME NEW j, Done(T(r.at), j)' PROVE Done(table, j)' BY <4>2, <4>4 DEF Done
      <4>5. rot'.at - 1 = r.at - 1 /\ rot'.afterId = rot.afterId /\ rot'.ids = rot.ids \ {i}
            /\ rot'.batch.counts.processed = b.counts.processed
        BY <2>1
      <4> QED BY <4>1, <4>2, <4>3, <4>4, <4>5 DEF Walked
    <3>2. \A j : (\E m \in rot.ids \ {i} : j <= m) => \E m \in rot.ids : j <= m OBVIOUS
    <3> QED BY <1>7, <2>5, <3>1, <3>2
  <2> QED BY <2>3, <2>4, <2>6
<1> QED BY <1>8, <1>9

---------------------------------------------------------------------------
(* What no step may do to a value.                                          *)
Kept ==
    \A t \in Table : \A i \in DOMAIN rows[t] \cap DOMAIN rows'[t] : \A c \in ColumnsOf(t) :
        LET old == rows[t][i].values[c]
            new == rows'[t][i].values[c]
        IN  new.text >= old.text /\ (read(old) => read(new))

Fine == IInv' /\ Kept

LEMMA RowsLeft ==
    ASSUME TypeOK, UNCHANGED <<keys, rows>>
    PROVE  Kept /\ NoneUndone
<1>1. ASSUME NEW t \in Table, NEW i \in DOMAIN rows[t], NEW c \in ColumnsOf(t)
      PROVE  rows[t][i].values[c].text >= rows[t][i].values[c].text
  <2>1. rows[t][i].values[c] \in Value BY ColumnTypes DEF TypeOK
  <2>2. rows[t][i].values[c].text \in Nat BY <2>1 DEF Value
  <2> QED BY <2>2
<1>2. Kept BY <1>1 DEF Kept
<1>3. NoneUndone BY DEF NoneUndone, Done, isCurrentKey
<1> QED BY <1>2, <1>3

(* A step of others, which leaves a row that the rotation has locked alone. *)
LEMMA OthersStep ==
    ASSUME IInv, UNCHANGED <<keys, rot>>, NoneUndone,
           rot.phase = "write" => id \in DOMAIN rows'[table] /\ rows'[table][id] = rows[table][id]
    PROVE  RotationHolds' /\ PageShape' /\ Walked' /\ ExitZeroMeansRotated'
<1>1. TypeOK /\ RotationHolds /\ PageShape /\ Walked /\ ExitZeroMeansRotated BY DEF IInv, Held
<1>2. Walked' /\ ExitZeroMeansRotated' BY <1>1, WalkedKept
<1>3. PageShape' BY <1>1 DEF PageShape
<1>4. RotationHolds' BY <1>1 DEF RotationHolds, table, id
<1> QED BY <1>2, <1>3, <1>4

LEMMA StutterFine ==
    ASSUME IInv, UNCHANGED vars
    PROVE  Fine
<1>1. TypeOK /\ UNCHANGED <<keys, rows, rot, runs, writer, pruner, nextId>> BY DEF IInv, vars
<1>2. Kept BY <1>1, RowsLeft
<1>3. TypeOK' /\ Held'
  BY <1>1 DEF IInv, Held, TypeOK, RotationHolds, WritersHold, OneWriter, MetadataIds, PageShape,
              table, id, canStore
<1>4. Walked' /\ ExitZeroMeansRotated' BY <1>1, RowsLeft, WalkedKept DEF IInv
<1> QED BY <1>2, <1>3, <1>4 DEF Fine, IInv

LEMMA IdleIsAWalk == idle \in Walk
<1>1. emptyCounts \in Counts /\ emptyBatch \in Tally BY CountsType
<1>2. 1 \in DOMAIN ENCRYPTED_COLUMNS BY ColumnsOfTables
<1> QED BY <1>1, <1>2 DEF idle, Walk

LEMMA InitFine == Init => IInv
<1> SUFFICES ASSUME Init PROVE IInv OBVIOUS
<1> USE DEF Init
<1>1. keys \in [current : Key \cup {Null}, previous : SUBSET Key] BY KeyAssumption
<1>2. IsDatabase(rows) BY RowsAssumption
<1>3. nextId \in Nat /\ MetadataIds
  <2> DEFINE ids == DOMAIN rows["requestMetadata"]
             n == Cardinality(ids)
  <2>1. ids = 1 .. n BY RowsAssumption
  <2>2. IsFiniteSet(ids) BY <1>2 DEF IsDatabase, Table
  <2>3. n \in Nat BY <2>2, FS_CardinalityType
  <2>4. nextId = n + 1 OBVIOUS
  <2> HIDE DEF n
  <2>5. \A i \in ids : i < n + 1 BY <2>1, <2>3
  <2> QED BY <2>3, <2>4, <2>5 DEF MetadataIds
<1>4. waiting \in [phase : {"idle", "write"}, id : Nat, seen : Value]
  BY DEF waiting, NullValue, Value
<1>5. writer \in [Writer -> [phase : {"idle", "write"}, id : Nat, seen : Value]] BY <1>4
<1>6. pruner \in [Pruner -> [phase : {"idle", "page", "delete", "returned"}, ids : SUBSET Nat]]
  OBVIOUS
<1>7. TypeOK BY <1>1, <1>2, <1>3, <1>5, <1>6, IdleIsAWalk DEF TypeOK
<1>8. rot.phase = "idle" /\ rot.ids = {} BY DEF idle
<1>9. RotationHolds /\ Walked /\ ExitZeroMeansRotated BY <1>8 DEF RotationHolds, Walked, ExitZeroMeansRotated
<1>10. PageShape BY <1>8, FS_EmptySet DEF PageShape
<1>11. \A w \in Writer : writer[w].phase = "idle" BY DEF waiting
<1>12. WritersHold /\ OneWriter BY <1>11 DEF WritersHold, OneWriter
<1> QED BY <1>3, <1>7, <1>9, <1>10, <1>12 DEF IInv, Held

---------------------------------------------------------------------------
(* The steps of the rotation.                                               *)
LEMMA NewRun ==
    ASSUME IInv, NEW phase \in {"page", "dead"}, rot' = [idle EXCEPT !.phase = phase],
           runs' \in Nat, UNCHANGED <<keys, rows, writer, pruner, nextId>>
    PROVE  Fine
<1>1. TypeOK /\ Held BY DEF IInv
<1>2. /\ rot' \in Walk /\ rot'.phase = phase /\ rot'.ids = {} /\ rot'.at = 1 /\ rot'.afterId = 0
      /\ rot'.batch = emptyBatch
  BY IdleIsAWalk DEF idle, Walk
<1>3. TypeOK' BY <1>1, <1>2 DEF TypeOK
<1>4. PageShape' BY <1>2, FS_EmptySet DEF PageShape
<1>5. RotationHolds' /\ ExitZeroMeansRotated' BY <1>2 DEF RotationHolds, ExitZeroMeansRotated
<1>6. WritersHold' /\ OneWriter' /\ MetadataIds'
  BY <1>1, <1>2 DEF Held, WritersHold, OneWriter, MetadataIds, canStore
<1>7. Walked'
  <2>1. table' = "transactions" BY <1>2, ColumnsOfTables DEF table
  <2>2. DOMAIN rows["transactions"] \subseteq Nat \ {0} BY <1>1 DEF TypeOK, IsDatabase, Table
  <2>3. \A i \in DOMAIN rows'[table'] : ~(i <= rot'.afterId) BY <1>2, <2>1, <2>2
  <2>4. \A k \in 1 .. rot'.at - 1 : FALSE BY <1>2
  <2> QED BY <1>2, <2>3, <2>4 DEF Walked
<1>8. Kept BY <1>1, RowsLeft
<1> QED BY <1>3, <1>4, <1>5, <1>6, <1>7, <1>8 DEF Fine, IInv, Held

LEMMA RotateFine ==
    ASSUME IInv, Rotate
    PROVE  Fine
<1>1. runs' \in Nat BY DEF IInv, TypeOK, Rotate
<1> QED BY <1>1, NewRun DEF Rotate

LEMMA DieFine ==
    ASSUME IInv, Die
    PROVE  Fine
<1>1. runs' \in Nat BY DEF IInv, TypeOK, Die
<1> QED BY <1>1, NewRun DEF Die

LEMMA CandidateIdsFine ==
    ASSUME IInv, CandidateIds
    PROVE  Fine
<1> DEFINE behind == {i \in DOMAIN rows[table] : i > rot.afterId}
           page == lowest(behind, Limit)
<1>1. TypeOK /\ Held /\ Walked /\ ExitZeroMeansRotated BY DEF IInv
<1>2. rot \in Walk /\ rot.at \in 1 .. 4 /\ table \in Table /\ rot.phase = "page"
      /\ UNCHANGED <<keys, rows, runs, writer, pruner, nextId>>
  BY <1>1, TableOfWalk DEF TypeOK, CandidateIds, table
<1>3. rot.batch = emptyBatch /\ rot.ids = {} BY <1>1, <1>2 DEF Held, PageShape
<1>4. /\ emptyBatch \in Tally /\ emptyBatch.counts.processed = 0 /\ emptyBatch.values = 0
  BY CountsType DEF emptyBatch, emptyCounts
<1>5. Kept BY <1>1, <1>2, RowsLeft
<1>6. behind \subseteq Nat /\ IsFiniteSet(behind) /\ Limit \in Nat \ {0} /\ rot.afterId \in Nat
      /\ DOMAIN rows[table] \subseteq Nat
  <2>1. DOMAIN rows[table] \subseteq Nat /\ IsFiniteSet(DOMAIN rows[table])
    BY <1>1, <1>2 DEF TypeOK, IsDatabase
  <2> QED BY <1>2, <2>1, FS_Subset, BatchAssumption DEF Walk
<1>7. /\ page \subseteq behind /\ IsFiniteSet(page)
      /\ Cardinality(page) < Limit => page = behind
      /\ \A i \in behind \ page : \A j \in page : j < i
      /\ behind # {} => page # {}
  BY <1>6, PageOfLowest
<1>8. WritersHold' /\ OneWriter' /\ MetadataIds' /\ RotationHolds'
  <2>1. rot'.phase # "write"
    <3>1. CASE page = {}
      <4>1. rot' = continue(rot, emptyBatch) BY <1>2, <3>1 DEF CandidateIds
      <4> QED BY <1>2, <1>4, <4>1, Continued
    <3>2. CASE page # {}
      <4>1. rot' = [rot EXCEPT !.phase = "visit", !.ids = page] BY <1>2, <3>2 DEF CandidateIds
      <4> QED BY <1>2, <4>1 DEF Walk
    <3> QED BY <3>1, <3>2
  <2> QED BY <1>1, <1>2, <2>1 DEF Held, WritersHold, OneWriter, MetadataIds, RotationHolds, canStore
<1>9. CASE page = {}
  <2>1. rot' = continue(rot, emptyBatch) BY <1>9 DEF CandidateIds
  <2>2. rot' \in Walk BY <1>2, <1>4, <2>1, Continued
  <2>3. TypeOK' BY <1>1, <1>2, <2>2 DEF TypeOK
  <2>4. behind = {} BY <1>7, <1>9
  <2>5. \A i \in DOMAIN rows[table] : i <= rot.afterId BY <1>6, <2>4
  <2>6. ASSUME ~rot.unreadable
        PROVE  /\ \A k \in 1 .. rot.at - 1 : \A i \in DOMAIN rows[ENCRYPTED_COLUMNS[k].table] :
                    Done(ENCRYPTED_COLUMNS[k].table, i)
               /\ \A i \in DOMAIN rows[table] : Done(table, i)
    <3>1. Clean BY <1>3, <1>4, <2>6 DEF Clean
    <3> QED BY <1>1, <1>2, <2>5, <3>1 DEF Walked
  <2>7. PICK r \in Walk : r = rot BY <1>2
  <2>8. ~r.unreadable =>
          /\ \A k \in 1 .. r.at - 1 : \A i \in DOMAIN rows'[ENCRYPTED_COLUMNS[k].table] :
               Done(ENCRYPTED_COLUMNS[k].table, i)'
          /\ \A i \in DOMAIN rows'[ENCRYPTED_COLUMNS[r.at].table] : Done(ENCRYPTED_COLUMNS[r.at].table, i)'
    BY <1>2, <2>6, <2>7 DEF Done, table, isCurrentKey
  <2>9. IsDatabase(rows') BY <2>3 DEF TypeOK
  <2>10. rot' = continue(r, emptyBatch) BY <2>1, <2>7
  <2>11. Walked' /\ ExitZeroMeansRotated' /\ PageShape' BY <1>4, <2>8, <2>9, <2>10, Ended
  <2> QED BY <1>5, <1>8, <2>3, <2>11 DEF Fine, IInv, Held
<1>10. CASE page # {}
  <2>1. rot' = [rot EXCEPT !.phase = "visit", !.ids = page] BY <1>10 DEF CandidateIds
  <2>2. page \subseteq Nat BY <1>6, <1>7
  <2> HIDE DEF page
  <2>3. /\ rot' \in Walk /\ rot'.phase = "visit" /\ rot'.ids = page /\ rot'.at = rot.at
        /\ rot'.afterId = rot.afterId /\ rot'.unreadable = rot.unreadable /\ rot'.batch = rot.batch
    BY <1>2, <2>1, <2>2 DEF Walk
  <2>4. TypeOK' BY <1>1, <1>2, <2>3 DEF TypeOK
  <2>5. PageShape' BY <1>7, <1>10, <2>3 DEF PageShape
  <2>6. ExitZeroMeansRotated' BY <2>3 DEF ExitZeroMeansRotated
  <2>7. Walked'
    <3>1. SUFFICES ASSUME Clean
                   PROVE  /\ \A k \in 1 .. rot.at - 1 : \A i \in DOMAIN rows[ENCRYPTED_COLUMNS[k].table] :
                               Done(ENCRYPTED_COLUMNS[k].table, i)
                          /\ \A i \in DOMAIN rows[table] : i <= rot.afterId => Done(table, i)
                          /\ \A i \in DOMAIN rows[table] \ page :
                               \/ 0 + Cardinality(page) < Limit
                               \/ \E j \in page : i <= j
                               => Done(table, i)
      <4>1. \A t, i : Done(t, i)' <=> Done(t, i) BY <1>2 DEF Done, isCurrentKey
      <4>2. table' = table BY <2>3 DEF table
      <4>3. ASSUME NEW i PROVE Done(table, i)' <=> Done(table, i)
        BY <1>2, <4>2 DEF Done, isCurrentKey
      <4>4. Clean' <=> Clean BY <2>3 DEF Clean
      <4>5. rot'.batch.counts.processed = 0 BY <1>3, <1>4, <2>3
      <4> QED BY <1>2, <2>3, <4>1, <4>2, <4>3, <4>4, <4>5 DEF Walked
    <3>2. /\ \A k \in 1 .. rot.at - 1 : \A i \in DOMAIN rows[ENCRYPTED_COLUMNS[k].table] :
               Done(ENCRYPTED_COLUMNS[k].table, i)
          /\ \A i \in DOMAIN rows[table] : i <= rot.afterId => Done(table, i)
      BY <1>1, <1>2, <3>1 DEF Walked
    <3>3. Cardinality(page) \in Nat BY <1>7, FS_CardinalityType
    <3>4. ASSUME NEW i \in DOMAIN rows[table] \ page,
                 0 + Cardinality(page) < Limit \/ \E j \in page : i <= j
          PROVE  i <= rot.afterId
      <4>1. SUFFICES ASSUME i \in behind PROVE FALSE BY <1>6
      <4>2. CASE Cardinality(page) < Limit BY <1>7, <3>4, <4>1, <4>2
      <4>3. CASE \E j \in page : i <= j
        <5>1. PICK j \in page : i <= j BY <4>3
        <5>2. j < i BY <1>7, <3>4, <4>1
        <5>3. i \in Nat /\ j \in Nat BY <1>6, <1>7, <4>1
        <5> QED BY <5>1, <5>2, <5>3
      <4> QED BY <3>3, <3>4, <4>2, <4>3
    <3> QED BY <3>2, <3>4
  <2> QED BY <1>5, <1>8, <2>4, <2>5, <2>6, <2>7 DEF Fine, IInv, Held
<1> QED BY <1>9, <1>10

(* A value that is left alone, or written anew under the current key.       *)
Better(old, new) ==
    \/ new = old
    \/ /\ new.text >= old.text /\ (read(old) => read(new))
       /\ looksLikeEnvelope(new) => isCurrentKey(new)

LEMMA ValueByValue ==
    ASSUME TypeOK, UNCHANGED keys,
           \A t \in Table : \A i \in DOMAIN rows'[t] : \A c \in ColumnsOf(t) :
               /\ i \in DOMAIN rows[t] => Better(rows[t][i].values[c], rows'[t][i].values[c])
               /\ (i \notin DOMAIN rows[t] /\ looksLikeEnvelope(rows'[t][i].values[c])) =>
                    isCurrentKey(rows'[t][i].values[c])
    PROVE  Kept /\ NoneUndone
<1>1. ASSUME NEW t \in Table, NEW i \in DOMAIN rows[t] \cap DOMAIN rows'[t], NEW c \in ColumnsOf(t)
      PROVE  /\ rows'[t][i].values[c].text >= rows[t][i].values[c].text
             /\ read(rows[t][i].values[c]) => read(rows'[t][i].values[c])
  <2>1. rows[t][i].values[c].text \in Nat BY ColumnTypes DEF TypeOK, Value
  <2>2. Better(rows[t][i].values[c], rows'[t][i].values[c]) OBVIOUS
  <2>3. CASE rows'[t][i].values[c] = rows[t][i].values[c] BY <2>1, <2>3
  <2>4. CASE rows'[t][i].values[c] # rows[t][i].values[c] BY <2>2, <2>4 DEF Better
  <2> QED BY <2>3, <2>4
<1>2. Kept BY <1>1 DEF Kept
<1>3. ASSUME NEW t \in Table, NEW i \in DOMAIN rows'[t], i \in DOMAIN rows[t] => Done(t, i),
             NEW c \in ColumnsOf(t), looksLikeEnvelope(rows'[t][i].values[c])
      PROVE  isCurrentKey(rows'[t][i].values[c])
  <2>1. CASE i \notin DOMAIN rows[t] BY <1>3, <2>1
  <2>2. CASE i \in DOMAIN rows[t]
    <3>1. looksLikeEnvelope(rows[t][i].values[c]) => isCurrentKey(rows[t][i].values[c])
      BY <1>3, <2>2 DEF Done
    <3>2. Better(rows[t][i].values[c], rows'[t][i].values[c]) BY <2>2
    <3>3. CASE rows'[t][i].values[c] = rows[t][i].values[c] BY <1>3, <3>1, <3>3
    <3>4. CASE rows'[t][i].values[c] # rows[t][i].values[c] BY <1>3, <3>2, <3>4 DEF Better
    <3> QED BY <3>3, <3>4
  <2> QED BY <2>1, <2>2
<1>4. NoneUndone BY <1>3 DEF NoneUndone, Done, isCurrentKey
<1> QED BY <1>2, <1>4

(* One row that is written.                                                 *)
Writes(t, i, values) == rows' = [rows EXCEPT ![t] = [rows[t] EXCEPT ![i].values = values]]

LEMMA RowWritten ==
    ASSUME TypeOK, UNCHANGED keys, NEW t \in Table, NEW i \in DOMAIN rows[t],
           NEW values \in [ColumnsOf(t) -> Value],
           \A c \in ColumnsOf(t) : Better(rows[t][i].values[c], values[c]),
           Writes(t, i, values)
    PROVE  /\ IsDatabase(rows') /\ Kept /\ NoneUndone
           /\ \A u \in Table : DOMAIN rows'[u] = DOMAIN rows[u]
           /\ \A u \in Table : \A j \in DOMAIN rows[u] :
                u # t \/ j # i => rows'[u][j] = rows[u][j]
           /\ rows'[t][i].values = values /\ rows'[t][i].of = rows[t][i].of
<1> DEFINE new == [rows[t] EXCEPT ![i].values = values]
<1>1. IsDatabase(rows) BY DEF TypeOK
<1>2. /\ DOMAIN new = DOMAIN rows[t] /\ DOMAIN new \subseteq Nat \ {0} /\ IsFiniteSet(DOMAIN new)
      /\ new \in [DOMAIN new -> Row(t)]
      /\ new[i].values = values /\ new[i].of = rows[t][i].of
      /\ \A j \in DOMAIN rows[t] \ {i} : new[j] = rows[t][j]
  BY <1>1, Written
<1>3. rows' = [rows EXCEPT ![t] = new] BY DEF Writes
<1> HIDE DEF new
<1>4. IsDatabase(rows') /\ rows'[t] = new /\ \A u \in Table \ {t} : rows'[u] = rows[u]
  <2>1. Replaces(rows, t, new, rows') BY <1>3 DEF Replaces
  <2> QED BY <1>1, <1>2, <2>1, Replaced
<1>5. /\ \A u \in Table : DOMAIN rows'[u] = DOMAIN rows[u]
      /\ \A u \in Table : \A j \in DOMAIN rows[u] : u # t \/ j # i => rows'[u][j] = rows[u][j]
      /\ rows'[t][i].values = values /\ rows'[t][i].of = rows[t][i].of
  BY <1>2, <1>4
<1>6. ASSUME NEW u \in Table, NEW j \in DOMAIN rows'[u], NEW c \in ColumnsOf(u)
      PROVE  j \in DOMAIN rows[u] /\ Better(rows[u][j].values[c], rows'[u][j].values[c])
  <2>1. j \in DOMAIN rows[u] BY <1>5
  <2>2. CASE u # t \/ j # i
    <3>1. rows'[u][j] = rows[u][j] BY <1>5, <2>1, <2>2
    <3> QED BY <2>1, <3>1 DEF Better
  <2>3. CASE u = t /\ j = i
    <3>1. rows'[u][j].values = values BY <1>5, <2>3
    <3> QED BY <2>1, <2>3, <3>1
  <2> QED BY <2>2, <2>3
<1>7. Kept /\ NoneUndone BY <1>6, ValueByValue
<1> QED BY <1>4, <1>5, <1>7

LEMMA LockRowFine ==
    ASSUME IInv, LockRow
    PROVE  Fine
<1>1. TypeOK /\ Held /\ Walked /\ ExitZeroMeansRotated BY DEF IInv
<1>2. rot \in Walk /\ rot.at \in 1 .. 4 /\ table \in Table /\ rot.phase = "visit"
      /\ UNCHANGED <<keys, rows, runs, writer, pruner, nextId>>
  BY <1>1, TableOfWalk DEF TypeOK, LockRow, table
<1>3. rot.ids # {} /\ IsFiniteSet(rot.ids) BY <1>1, <1>2 DEF Held, PageShape
<1>4. id \in rot.ids BY <1>2, <1>3, PageHasLowest
<1>5. Kept /\ NoneUndone BY <1>1, <1>2, RowsLeft
<1>6. IsDatabase(rows') BY <1>1, <1>2 DEF TypeOK
<1>7. CASE id \notin DOMAIN rows[table] /\ rot' = visited(rot, id, "vanished", 0)
  <2>1. PICK r \in Walk : r = rot BY <1>2
  <2>2. PICK i \in rot.ids : i = id BY <1>4
  <2>3. rot' = visited(r, i, "vanished", 0) BY <1>7, <2>1, <2>2
  <2>4. i \notin DOMAIN rows'[ENCRYPTED_COLUMNS[r.at].table] BY <1>2, <1>7, <2>1, <2>2 DEF table
  <2>5. "vanished" \in Status /\ 0 \in Nat BY DEF Status
  <2>6. Walked' /\ ExitZeroMeansRotated' /\ PageShape'
    BY <1>1, <1>2, <1>5, <1>6, <2>1, <2>3, <2>4, <2>5, Advanced DEF Held
  <2>7. rot' \in Walk /\ rot'.phase # "write" BY <2>1, <2>3, <2>5, AfterVisit
  <2>8. TypeOK' BY <1>1, <1>2, <2>7 DEF TypeOK
  <2>9. RotationHolds' /\ WritersHold' /\ OneWriter' /\ MetadataIds'
    BY <1>1, <1>2, <2>7 DEF Held, RotationHolds, WritersHold, OneWriter, MetadataIds, canStore
  <2> QED BY <1>5, <2>6, <2>8, <2>9 DEF Fine, IInv, Held
<1>8. CASE /\ id \in DOMAIN rows[table] /\ ~lockForUpdate(table, id)
           /\ rot' = [rot EXCEPT !.phase = "write", !.seen = rows[table][id]]
  <2>1. rows[table][id] \in AnyRow BY <1>1, <1>2, <1>8, ColumnTypes, TableOfWalk DEF TypeOK
  <2>2. /\ rot' \in Walk /\ rot'.phase = "write" /\ rot'.ids = rot.ids /\ rot'.at = rot.at
        /\ rot'.afterId = rot.afterId /\ rot'.unreadable = rot.unreadable /\ rot'.batch = rot.batch
        /\ rot'.seen = rows[table][id]
    BY <1>2, <1>8, <2>1 DEF Walk
  <2>3. id' = id /\ table' = table BY <2>2 DEF id, table
  <2>4. TypeOK' BY <1>1, <1>2, <2>2 DEF TypeOK
  <2>5. RotationHolds' BY <1>2, <1>8, <2>2, <2>3 DEF RotationHolds
  <2>6. \A w \in Writer : writer[w].phase = "write" => ~(table = "transactions" /\ id = writer[w].id)
    BY <1>8 DEF lockForUpdate
  <2>7. WritersHold' /\ OneWriter' /\ MetadataIds'
    BY <1>1, <1>2, <2>3, <2>6 DEF Held, WritersHold, OneWriter, MetadataIds, canStore
  <2>8. PageShape' BY <1>3, <2>2 DEF PageShape
  <2>9. ExitZeroMeansRotated' BY <2>2 DEF ExitZeroMeansRotated
  <2>10. Walked'
    <3>1. \A t, i : Done(t, i)' <=> Done(t, i) BY <1>2 DEF Done, isCurrentKey
    <3>2. ASSUME NEW i PROVE Done(table, i)' <=> Done(table, i)
      BY <1>2, <2>3 DEF Done, isCurrentKey
    <3>3. Clean' <=> Clean BY <2>2 DEF Clean
    <3> QED BY <1>1, <1>2, <2>2, <2>3, <3>1, <3>2, <3>3 DEF Walked
  <2> QED BY <1>5, <2>4, <2>5, <2>7, <2>8, <2>9, <2>10 DEF Fine, IInv, Held
<1> QED BY <1>7, <1>8 DEF LockRow

LEMMA WriteRowFine ==
    ASSUME IInv, WriteRow
    PROVE  Fine
<1> DEFINE row == rows[table][id]
           values == [c \in DOMAIN row.values |->
                        IF c \in changes(row) THEN rekey(row.values[c]) ELSE row.values[c]]
<1>1. TypeOK /\ Held /\ Walked /\ ExitZeroMeansRotated /\ IsDatabase(rows) BY DEF IInv, TypeOK
<1>2. rot \in Walk /\ rot.at \in 1 .. 4 /\ table \in Table /\ rot.phase = "write"
      /\ UNCHANGED <<keys, runs, writer, pruner, nextId>>
  BY <1>1, TableOfWalk DEF TypeOK, WriteRow, table
<1>3. rot.ids # {} /\ IsFiniteSet(rot.ids) BY <1>1, <1>2 DEF Held, PageShape
<1>4. id \in rot.ids BY <1>2, <1>3, PageHasLowest
<1>5. id \in DOMAIN rows[table] /\ rot.seen = row BY <1>1, <1>2 DEF Held, RotationHolds
<1>6. row \in Row(table) /\ row.values \in [ColumnsOf(table) -> Value]
  BY <1>1, <1>2, <1>5, ColumnTypes
<1>7. /\ changes(row) \subseteq ColumnsOf(table) /\ failures(row) \subseteq ColumnsOf(table)
      /\ \A c \in changes(row) :
           /\ row.values[c] \in Value
           /\ rekey(row.values[c]) \in Value /\ rekey(row.values[c]).text = row.values[c].text
           /\ isCurrentKey(rekey(row.values[c])) /\ read(rekey(row.values[c]))
      /\ \A c \in ColumnsOf(table) \ (changes(row) \cup failures(row)) :
           looksLikeEnvelope(row.values[c]) => isCurrentKey(row.values[c])
      /\ rekeyRow(row) \in Status
      /\ Cardinality(failures(row)) \in Nat
      /\ Cardinality(failures(row)) = 0 => failures(row) = {}
  BY <1>1, <1>2, <1>6, RowRekeyed
<1>8. rows' = [rows EXCEPT ![table] = [rows[table] EXCEPT ![id].values = values]]
  BY <1>5 DEF WriteRow
<1>9. /\ values \in [ColumnsOf(table) -> Value]
      /\ \A c \in changes(row) : values[c] = rekey(row.values[c])
      /\ \A c \in ColumnsOf(table) \ changes(row) : values[c] = row.values[c]
  BY <1>6, <1>7
<1>10. rot' = visited([rot EXCEPT !.seen = NullValue], id, rekeyRow(row), Cardinality(failures(row)))
  BY <1>5 DEF WriteRow
<1> HIDE DEF row, values
<1>11. \A c \in ColumnsOf(table) : Better(row.values[c], values[c])
  <2>1. ASSUME NEW c \in changes(row) PROVE Better(row.values[c], values[c])
    <3>1. values[c] = rekey(row.values[c]) /\ row.values[c].text \in Nat
      BY <1>7, <1>9 DEF Value
    <3> QED BY <1>7, <3>1 DEF Better
  <2>2. ASSUME NEW c \in ColumnsOf(table) \ changes(row) PROVE Better(row.values[c], values[c])
    BY <1>9 DEF Better
  <2> QED BY <2>1, <2>2
<1>12. PICK t \in Table : t = table BY <1>2
<1>13. PICK i \in DOMAIN rows[t] : i = id BY <1>5, <1>12
<1>14. PICK new \in [ColumnsOf(t) -> Value] : new = values BY <1>9, <1>12
<1>15. /\ IsDatabase(rows') /\ Kept /\ NoneUndone
       /\ \A u \in Table : DOMAIN rows'[u] = DOMAIN rows[u]
       /\ \A u \in Table : \A j \in DOMAIN rows[u] : u # t \/ j # i => rows'[u][j] = rows[u][j]
       /\ rows'[t][i].values = new
  <2>1. \A c \in ColumnsOf(t) : Better(rows[t][i].values[c], new[c])
    BY <1>11, <1>12, <1>13, <1>14 DEF row
  <2>2. Writes(t, i, new) BY <1>8, <1>12, <1>13, <1>14 DEF Writes
  <2> QED BY <1>1, <1>2, <2>1, <2>2, RowWritten
<1>16. PICK r \in Walk : r = [rot EXCEPT !.seen = NullValue]
  <2>1. [rot EXCEPT !.seen = NullValue] \in Walk BY <1>2 DEF Walk
  <2> QED BY <2>1
<1>17. /\ r.at = rot.at /\ r.afterId = rot.afterId /\ r.ids = rot.ids
       /\ r.batch = rot.batch /\ r.unreadable = rot.unreadable
  BY <1>2, <1>16 DEF Walk
<1>18. PICK status \in Status : status = rekeyRow(row) BY <1>7
<1>19. PICK failed \in Nat : failed = Cardinality(failures(row)) BY <1>7
<1>20. rot' = visited(r, i, status, failed) /\ i \in rot.ids /\ t = ENCRYPTED_COLUMNS[r.at].table
  BY <1>4, <1>10, <1>12, <1>13, <1>16, <1>17, <1>18, <1>19 DEF table
<1>21. failed = 0 /\ i \in DOMAIN rows'[ENCRYPTED_COLUMNS[r.at].table] =>
         Done(ENCRYPTED_COLUMNS[r.at].table, i)'
  <2>1. SUFFICES ASSUME failed = 0 PROVE Done(t, i)' BY <1>20 DEF Done
  <2>2. \A c \in ColumnsOf(t) : looksLikeEnvelope(new[c]) => isCurrentKey(new[c])
    <3>1. failures(row) = {} BY <1>7, <1>19, <2>1
    <3>2. ASSUME NEW c \in ColumnsOf(t), looksLikeEnvelope(new[c]) PROVE isCurrentKey(new[c])
      <4>1. CASE c \in changes(row) BY <1>7, <1>9, <1>14, <4>1
      <4>2. CASE c \notin changes(row) BY <1>7, <1>9, <1>12, <1>14, <3>1, <3>2, <4>2
      <4> QED BY <4>1, <4>2
    <3> QED BY <3>2
  <2> QED BY <1>2, <1>15, <2>2 DEF Done, isCurrentKey
<1>22. Walked' /\ ExitZeroMeansRotated' /\ PageShape'
  <2>1. PageShape BY <1>1 DEF Held
  <2>2. /\ \A u \in rot.ids : u = i => u \in r.ids
        /\ rot.phase \in {"visit", "write"}
    BY <1>2, <1>17
  <2> QED BY <1>1, <1>2, <1>15, <1>17, <1>20, <1>21, <2>1, <2>2, Advanced
<1>23. rot' \in Walk /\ rot'.phase # "write" BY <1>17, <1>20, AfterVisit
<1>24. TypeOK' BY <1>1, <1>2, <1>15, <1>23 DEF TypeOK
<1>25. RotationHolds' BY <1>23 DEF RotationHolds
<1>26. MetadataIds' BY <1>1, <1>2, <1>15 DEF Held, MetadataIds, Table
<1>27. WritersHold'
  <2>1. SUFFICES ASSUME NEW w \in Writer, writer[w].phase = "write"
                 PROVE  /\ canStore
                        /\ writer[w].id \in DOMAIN rows'["transactions"]
                        /\ writer[w].seen = rows'["transactions"][writer[w].id].values["payload"]
    BY <1>2, <1>23 DEF WritersHold, canStore
  <2>2. /\ canStore /\ writer[w].id \in DOMAIN rows["transactions"]
        /\ writer[w].seen = rows["transactions"][writer[w].id].values["payload"]
        /\ ~(table = "transactions" /\ id = writer[w].id)
    BY <1>1, <1>2, <2>1 DEF Held, WritersHold
  <2>3. "transactions" # t \/ writer[w].id # i BY <1>12, <1>13, <2>2
  <2>4. rows'["transactions"][writer[w].id] = rows["transactions"][writer[w].id]
    BY <1>15, <2>2, <2>3 DEF Table
  <2> QED BY <1>15, <2>2, <2>4 DEF Table
<1>28. OneWriter' BY <1>1, <1>2 DEF Held, OneWriter
<1> QED BY <1>15, <1>22, <1>24, <1>25, <1>26, <1>27, <1>28 DEF Fine, IInv, Held

---------------------------------------------------------------------------
(* The steps of everybody else.                                             *)
LEMMA SelectStaleFine ==
    ASSUME IInv, NEW p \in Pruner, SelectStale(p)
    PROVE  Fine
<1>1. TypeOK /\ Held /\ Walked /\ ExitZeroMeansRotated BY DEF IInv
<1>2. UNCHANGED <<keys, rows, rot, runs, writer, nextId>> BY DEF SelectStale
<1>3. Kept /\ NoneUndone BY <1>1, <1>2, RowsLeft
<1>4. lowest(stale, Batch[p]) \subseteq Nat
  <2>1. stale \subseteq Nat BY <1>1 DEF stale, TypeOK, IsDatabase, Table
  <2> QED BY <2>1 DEF lowest
<1>5. pruner' \in [Pruner -> [phase : {"idle", "page", "delete", "returned"}, ids : SUBSET Nat]]
  <2>1. PICK ids \in SUBSET Nat : ids = lowest(stale, Batch[p]) BY <1>4
  <2>2. PICK phase \in {"returned", "delete"} : phase = IF stale = {} THEN "returned" ELSE "delete"
    OBVIOUS
  <2>3. pruner' = [pruner EXCEPT ![p].ids = ids, ![p].phase = phase] BY <2>1, <2>2 DEF SelectStale
  <2> QED BY <1>1, <2>3 DEF TypeOK
<1>6. TypeOK' BY <1>1, <1>2, <1>5 DEF TypeOK
<1>7. rot.phase = "write" => id \in DOMAIN rows'[table] /\ rows'[table][id] = rows[table][id]
  BY <1>1, <1>2 DEF Held, RotationHolds
<1>8. RotationHolds' /\ PageShape' /\ Walked' /\ ExitZeroMeansRotated'
  BY <1>2, <1>3, <1>7, OthersStep
<1>9. WritersHold' /\ OneWriter' /\ MetadataIds'
  BY <1>1, <1>2 DEF Held, WritersHold, OneWriter, MetadataIds, canStore, table, id
<1> QED BY <1>3, <1>6, <1>8, <1>9 DEF Fine, IInv, Held

LEMMA LockTransactionFine ==
    ASSUME IInv, NEW w \in Writer, LockTransaction(w)
    PROVE  Fine
<1>1. TypeOK /\ Held /\ Walked /\ ExitZeroMeansRotated /\ IsDatabase(rows) BY DEF IInv, TypeOK
<1>2. UNCHANGED <<keys, rows, rot, runs, pruner, nextId>> /\ canStore BY DEF LockTransaction
<1>3. Kept /\ NoneUndone BY <1>1, <1>2, RowsLeft
<1>4. PICK i \in DOMAIN rows["transactions"] :
        /\ ~lockForUpdate("transactions", i)
        /\ writer' = [writer EXCEPT ![w] = [phase |-> "write", id |-> i,
                                              seen |-> rows["transactions"][i].values["payload"]]]
  BY DEF LockTransaction
<1>5. "transactions" \in Table /\ "payload" \in ColumnsOf("transactions") BY ColumnsOfTables DEF Table
<1>6. rows["transactions"][i].values["payload"] \in Value /\ i \in Nat
  BY <1>1, <1>5, ColumnTypes
<1>7. writer \in [Writer -> [phase : {"idle", "write"}, id : Nat, seen : Value]] BY <1>1 DEF TypeOK
<1>8. writer' \in [Writer -> [phase : {"idle", "write"}, id : Nat, seen : Value]] BY <1>4, <1>6, <1>7
<1>9. TypeOK' BY <1>1, <1>2, <1>8 DEF TypeOK
<1>10. rot.phase = "write" => id \in DOMAIN rows'[table] /\ rows'[table][id] = rows[table][id]
  BY <1>1, <1>2 DEF Held, RotationHolds
<1>11. RotationHolds' /\ PageShape' /\ Walked' /\ ExitZeroMeansRotated'
  BY <1>2, <1>3, <1>10, OthersStep
<1>12. /\ writer'[w].id = i /\ writer'[w].seen = rows["transactions"][i].values["payload"]
       /\ \A v \in Writer \ {w} : writer'[v] = writer[v]
  BY <1>4, <1>7
<1>13. /\ ~(rot.phase = "write" /\ table = "transactions" /\ id = i)
       /\ \A v \in Writer : ~(writer[v].phase = "write" /\ writer[v].id = i)
  BY <1>4 DEF lockForUpdate
<1>14. table' = table /\ id' = id BY <1>2 DEF table, id
<1>15. WritersHold'
  <2>1. \A v \in Writer \ {w} : writer[v].phase = "write" =>
          /\ writer[v].id \in DOMAIN rows["transactions"]
          /\ writer[v].seen = rows["transactions"][writer[v].id].values["payload"]
          /\ ~(rot.phase = "write" /\ table = "transactions" /\ id = writer[v].id)
    BY <1>1 DEF Held, WritersHold
  <2> QED BY <1>2, <1>12, <1>13, <1>14, <2>1 DEF WritersHold, canStore
<1>16. OneWriter' BY <1>1, <1>12, <1>13 DEF Held, OneWriter
<1>17. MetadataIds' BY <1>1, <1>2 DEF Held, MetadataIds
<1> QED BY <1>3, <1>9, <1>11, <1>15, <1>16, <1>17 DEF Fine, IInv, Held

LEMMA UpdateAttemptFine ==
    ASSUME IInv, UpdateAttempt
    PROVE  Fine
<1> DEFINE t == "transactionAttempts"
<1>1. TypeOK /\ Held /\ Walked /\ ExitZeroMeansRotated /\ IsDatabase(rows) BY DEF IInv, TypeOK
<1>2. UNCHANGED <<keys, rot, runs, writer, pruner, nextId>> /\ canStore BY DEF UpdateAttempt
<1>3. PICK i \in DOMAIN rows[t] :
        /\ ~lockForUpdate(t, i)
        /\ rows' = [rows EXCEPT ![t][i].values["callback_payload"] =
                      store([form |-> "plain", key |-> Null, text |-> @.text + 1])]
  BY DEF UpdateAttempt
<1> DEFINE old == rows[t][i].values["callback_payload"]
           plain == [form |-> "plain", key |-> Null, text |-> old.text + 1]
<1>4. t \in Table /\ "callback_payload" \in ColumnsOf(t) BY ColumnsOfTables DEF Table
<1>5. /\ rows[t][i].values \in [ColumnsOf(t) -> Value] /\ old \in Value /\ old.text \in Nat
  BY <1>1, <1>4, ColumnTypes DEF Value
<1>6. plain \in Value /\ plain.form = "plain" /\ plain.text = old.text + 1 BY <1>5 DEF Value
<1>7. rows' = [rows EXCEPT ![t] = [rows[t] EXCEPT ![i].values =
                 [rows[t][i].values EXCEPT !["callback_payload"] = store(plain)]]]
  BY <1>3
<1> HIDE DEF t, old, plain
<1>8. /\ store(plain) \in Value /\ store(plain).text = plain.text
      /\ looksLikeEnvelope(store(plain)) => isCurrentKey(store(plain))
      /\ read(store(plain))
  BY <1>1, <1>2, <1>6, Stored
<1>9. Better(old, store(plain))
  <2>1. store(plain).text >= old.text BY <1>5, <1>6, <1>8
  <2> QED BY <1>8, <2>1 DEF Better
<1>10. PICK values \in [ColumnsOf(t) -> Value] :
         /\ values = [rows[t][i].values EXCEPT !["callback_payload"] = store(plain)]
         /\ values["callback_payload"] = store(plain)
         /\ \A c \in ColumnsOf(t) \ {"callback_payload"} : values[c] = rows[t][i].values[c]
  <2> DEFINE was == rows[t][i].values
             v == [was EXCEPT !["callback_payload"] = store(plain)]
  <2>1. was \in [ColumnsOf(t) -> Value] BY <1>5
  <2>2. v \in [ColumnsOf(t) -> Value] /\ v["callback_payload"] = store(plain)
        /\ \A c \in ColumnsOf(t) \ {"callback_payload"} : v[c] = was[c]
    <3> HIDE DEF was
    <3> QED BY <1>4, <1>8, <2>1
  <2> QED BY <2>2
<1>11. \A c \in ColumnsOf(t) : Better(rows[t][i].values[c], values[c])
  <2>1. ASSUME NEW c \in ColumnsOf(t), c # "callback_payload"
        PROVE  Better(rows[t][i].values[c], values[c])
    BY <1>10, <2>1 DEF Better
  <2>2. Better(rows[t][i].values["callback_payload"], values["callback_payload"])
    BY <1>9, <1>10 DEF old
  <2> QED BY <2>1, <2>2
<1>12. Writes(t, i, values) BY <1>7, <1>10 DEF Writes
<1>13. /\ IsDatabase(rows') /\ Kept /\ NoneUndone
       /\ \A u \in Table : DOMAIN rows'[u] = DOMAIN rows[u]
       /\ \A u \in Table : \A j \in DOMAIN rows[u] : u # t \/ j # i => rows'[u][j] = rows[u][j]
  BY <1>1, <1>2, <1>4, <1>11, <1>12, RowWritten
<1>14. TypeOK' BY <1>1, <1>2, <1>13 DEF TypeOK
<1>15. rot.phase = "write" => id \in DOMAIN rows'[table] /\ rows'[table][id] = rows[table][id]
  <2>1. SUFFICES ASSUME rot.phase = "write"
                 PROVE  id \in DOMAIN rows'[table] /\ rows'[table][id] = rows[table][id]
    OBVIOUS
  <2>2. table # t \/ id # i BY <1>3, <2>1 DEF lockForUpdate
  <2>3. id \in DOMAIN rows[table] BY <1>1, <2>1 DEF Held, RotationHolds
  <2>4. table \in Table BY <1>1, TableOfWalk DEF TypeOK, table
  <2> QED BY <1>13, <2>2, <2>3, <2>4
<1>16. RotationHolds' /\ PageShape' /\ Walked' /\ ExitZeroMeansRotated'
  BY <1>2, <1>13, <1>15, OthersStep
<1>17. WritersHold'
  <2>1. "transactions" \in Table /\ "transactions" # t BY DEF Table, t
  <2>2. DOMAIN rows'["transactions"] = DOMAIN rows["transactions"] BY <1>13, <2>1
  <2>3. \A j \in DOMAIN rows["transactions"] : rows'["transactions"][j] = rows["transactions"][j]
    BY <1>13, <2>1
  <2> QED BY <1>1, <1>2, <2>2, <2>3 DEF Held, WritersHold, canStore, table, id
<1>18. OneWriter' BY <1>1, <1>2 DEF Held, OneWriter
<1>19. MetadataIds' BY <1>1, <1>2, <1>13 DEF Held, MetadataIds, Table
<1> QED BY <1>13, <1>14, <1>16, <1>17, <1>18, <1>19 DEF Fine, IInv, Held

LEMMA CreateMetadataFine ==
    ASSUME IInv, CreateMetadata
    PROVE  Fine
<1> DEFINE t == "requestMetadata"
           plain == [form |-> "plain", key |-> Null, text |-> 0]
           row == [values |-> [c \in {"custom_metadata"} |-> store(plain)], of |-> 0, stale |-> FALSE]
           new == insert(t, nextId, row)
<1>1. TypeOK /\ Held /\ Walked /\ ExitZeroMeansRotated /\ IsDatabase(rows) BY DEF IInv, TypeOK
<1>2. /\ UNCHANGED <<keys, rot, runs, writer, pruner>> /\ canStore /\ nextId' = nextId + 1
      /\ rows' = [rows EXCEPT ![t] = new]
  BY DEF CreateMetadata
<1>3. t \in Table /\ ColumnsOf(t) = {"custom_metadata"} BY ColumnsOfTables DEF Table
<1>4. plain \in Value /\ plain.form = "plain" BY DEF Value
<1>5. /\ store(plain) \in Value
      /\ looksLikeEnvelope(store(plain)) => isCurrentKey(store(plain))
  BY <1>1, <1>4, Stored
<1>6. row \in Row(t) /\ \A c \in ColumnsOf(t) : row.values[c] = store(plain)
  BY <1>3, <1>5 DEF Row
<1>7. /\ nextId \in Nat /\ nextId \notin DOMAIN rows[t] /\ \A j \in DOMAIN rows[t] : j < nextId
  <2>1. nextId \in Nat /\ DOMAIN rows[t] \subseteq Nat BY <1>1, <1>3 DEF TypeOK, IsDatabase
  <2>2. \A j \in DOMAIN rows[t] : j < nextId BY <1>1 DEF Held, MetadataIds
  <2> QED BY <2>1, <2>2
<1>8. nextId # 0 BY <1>1 DEF Held, MetadataIds
<1> HIDE DEF row, t, plain
<1>9. /\ DOMAIN new = DOMAIN rows[t] \cup {nextId} /\ new[nextId] = row
      /\ \A j \in DOMAIN rows[t] : new[j] = rows[t][j]
  BY <1>7 DEF insert
<1>10. /\ DOMAIN new \subseteq Nat \ {0} /\ IsFiniteSet(DOMAIN new) /\ new \in [DOMAIN new -> Row(t)]
  <2>1. DOMAIN rows[t] \subseteq Nat \ {0} /\ IsFiniteSet(DOMAIN rows[t])
        /\ rows[t] \in [DOMAIN rows[t] -> Row(t)]
    BY <1>1, <1>3 DEF IsDatabase
  <2>2. IsFiniteSet(DOMAIN new) BY <1>9, <2>1, FS_AddElement
  <2>3. new = [j \in DOMAIN new |-> new[j]] BY DEF insert
  <2>4. \A j \in DOMAIN new : new[j] \in Row(t) BY <1>6, <1>9, <2>1
  <2> HIDE DEF new
  <2> QED BY <1>7, <1>8, <1>9, <2>1, <2>2, <2>3, <2>4
<1> HIDE DEF new
<1>11. Replaces(rows, t, new, rows') BY <1>2 DEF Replaces, new, t, row, plain
<1>12. IsDatabase(rows') /\ rows'[t] = new /\ \A u \in Table \ {t} : rows'[u] = rows[u]
  BY <1>1, <1>3, <1>10, <1>11, Replaced
<1>13. Kept /\ NoneUndone
  <2>1. ASSUME NEW u \in Table, NEW j \in DOMAIN rows'[u], NEW c \in ColumnsOf(u)
        PROVE  /\ j \in DOMAIN rows[u] => Better(rows[u][j].values[c], rows'[u][j].values[c])
               /\ (j \notin DOMAIN rows[u] /\ looksLikeEnvelope(rows'[u][j].values[c])) =>
                    isCurrentKey(rows'[u][j].values[c])
    <3>1. CASE j \in DOMAIN rows[u]
      <4>1. rows'[u][j] = rows[u][j] BY <1>9, <1>12, <3>1
      <4> QED BY <3>1, <4>1 DEF Better
    <3>2. CASE j \notin DOMAIN rows[u]
      <4>1. u = t /\ j = nextId BY <1>9, <1>12, <3>2
      <4>2. rows'[u][j].values[c] = store(plain) BY <1>6, <1>9, <1>12, <4>1
      <4> QED BY <1>5, <3>2, <4>2
    <3> QED BY <3>1, <3>2
  <2> QED BY <1>1, <1>2, <2>1, ValueByValue
<1>14. nextId' \in Nat BY <1>2, <1>7
<1>15. TypeOK' BY <1>1, <1>2, <1>12, <1>14 DEF TypeOK
<1>16. \A u \in Table : \A j \in DOMAIN rows[u] : j \in DOMAIN rows'[u] /\ rows'[u][j] = rows[u][j]
  BY <1>9, <1>12
<1>17. rot.phase = "write" => id \in DOMAIN rows'[table] /\ rows'[table][id] = rows[table][id]
  <2>1. table \in Table BY <1>1, TableOfWalk DEF TypeOK, table
  <2> QED BY <1>1, <1>16, <2>1 DEF Held, RotationHolds
<1>18. RotationHolds' /\ PageShape' /\ Walked' /\ ExitZeroMeansRotated'
  BY <1>2, <1>13, <1>17, OthersStep
<1>19. WritersHold'
  <2>1. "transactions" \in Table BY DEF Table
  <2> QED BY <1>1, <1>2, <1>16, <2>1 DEF Held, WritersHold, canStore, table, id
<1>20. OneWriter' BY <1>1, <1>2 DEF Held, OneWriter
<1>21. MetadataIds'
  <2>1. ASSUME NEW j \in DOMAIN rows'[t] PROVE j < nextId + 1
    <3>1. CASE j = nextId BY <1>7, <3>1
    <3>2. CASE j \in DOMAIN rows[t]
      <4>1. j \in Nat /\ j < nextId BY <1>1, <1>3, <1>7, <3>2 DEF IsDatabase
      <4> QED BY <1>7, <4>1
    <3> QED BY <1>9, <1>12, <3>1, <3>2
  <2>2. 0 < nextId + 1 BY <1>7
  <2> QED BY <1>2, <2>1, <2>2 DEF MetadataIds, t
<1> QED BY <1>13, <1>15, <1>18, <1>19, <1>20, <1>21 DEF Fine, IInv, Held

LEMMA PurgeFine ==
    ASSUME IInv, NEW p \in Pruner, Purge(p)
    PROVE  Fine
<1> DEFINE t == "requestMetadata"
           gone == pruner[p].ids \cap DOMAIN rows[t]
           new == [i \in DOMAIN rows[t] \ gone |-> rows[t][i]]
<1>1. TypeOK /\ Held /\ Walked /\ ExitZeroMeansRotated /\ IsDatabase(rows) BY DEF IInv, TypeOK
<1>2. /\ UNCHANGED <<keys, rot, runs, writer, nextId>>
      /\ rows' = [rows EXCEPT ![t] = new]
      /\ \A i \in gone : ~lockForUpdate(t, i)
  BY DEF Purge
<1>3. t \in Table /\ t # "transactions" /\ "transactions" \in Table BY DEF Table
<1>4. pruner' \in [Pruner -> [phase : {"idle", "page", "delete", "returned"}, ids : SUBSET Nat]]
  <2>1. PICK phase \in {"returned", "page"} :
          phase = IF Cardinality(gone) < Batch[p] THEN "returned" ELSE "page"
    OBVIOUS
  <2>2. pruner' = [pruner EXCEPT ![p] = [phase |-> phase, ids |-> {}]] BY <2>1 DEF Purge
  <2> QED BY <1>1, <2>2 DEF TypeOK
<1>5. /\ DOMAIN rows[t] \subseteq Nat \ {0} /\ IsFiniteSet(DOMAIN rows[t])
      /\ rows[t] \in [DOMAIN rows[t] -> Row(t)]
  BY <1>1, <1>3 DEF IsDatabase
<1>6. Replaces(rows, t, new, rows') BY <1>2 DEF Replaces
<1> HIDE DEF gone, t
<1>7. /\ DOMAIN new = DOMAIN rows[t] \ gone /\ \A i \in DOMAIN new : new[i] = rows[t][i]
      /\ new \in [DOMAIN new -> Row(t)] /\ DOMAIN new \subseteq Nat \ {0}
  BY <1>5
<1>8. IsFiniteSet(DOMAIN new) BY <1>5, <1>7, FS_Subset
<1> HIDE DEF new
<1>9. IsDatabase(rows') /\ rows'[t] = new /\ \A u \in Table \ {t} : rows'[u] = rows[u]
  BY <1>1, <1>3, <1>6, <1>7, <1>8, Replaced
<1>10. \A u \in Table : \A j \in DOMAIN rows'[u] : j \in DOMAIN rows[u] /\ rows'[u][j] = rows[u][j]
  BY <1>7, <1>9
<1>11. Kept /\ NoneUndone
  <2>1. ASSUME NEW u \in Table, NEW j \in DOMAIN rows'[u], NEW c \in ColumnsOf(u)
        PROVE  j \in DOMAIN rows[u] /\ Better(rows[u][j].values[c], rows'[u][j].values[c])
    BY <1>10 DEF Better
  <2> QED BY <1>1, <1>2, <2>1, ValueByValue
<1>12. TypeOK' BY <1>1, <1>2, <1>4, <1>9 DEF TypeOK
<1>13. rot.phase = "write" => id \in DOMAIN rows'[table] /\ rows'[table][id] = rows[table][id]
  <2>1. SUFFICES ASSUME rot.phase = "write"
                 PROVE  id \in DOMAIN rows'[table] /\ rows'[table][id] = rows[table][id]
    OBVIOUS
  <2>2. table # t \/ id \notin gone BY <1>2, <2>1 DEF lockForUpdate
  <2>3. id \in DOMAIN rows[table] BY <1>1, <2>1 DEF Held, RotationHolds
  <2>4. table \in Table BY <1>1, TableOfWalk DEF TypeOK, table
  <2> QED BY <1>7, <1>9, <2>2, <2>3, <2>4
<1>14. RotationHolds' /\ PageShape' /\ Walked' /\ ExitZeroMeansRotated'
  BY <1>2, <1>11, <1>13, OthersStep
<1>15. WritersHold'
  <2>1. rows'["transactions"] = rows["transactions"] BY <1>3, <1>9 DEF t
  <2> QED BY <1>1, <1>2, <2>1 DEF Held, WritersHold, canStore, table, id
<1>16. OneWriter' BY <1>1, <1>2 DEF Held, OneWriter
<1>17. MetadataIds' BY <1>1, <1>2, <1>3, <1>10 DEF Held, MetadataIds, t
<1> QED BY <1>11, <1>12, <1>14, <1>15, <1>16, <1>17 DEF Fine, IInv, Held

(* The id of a new row is new.                                              *)
LEMMA NewestIsLast ==
    ASSUME NEW S, S \subseteq Nat, IsFiniteSet(S)
    PROVE  newest(S) \in Nat /\ \A i \in S : i <= newest(S)
<1>1. CASE S = {} BY <1>1 DEF newest
<1>2. CASE S # {}
  <2>1. \E x \in S : \A y \in S : y <= x BY <1>2, GreatestId
  <2>2. newest(S) \in S /\ \A i \in S : i <= newest(S) BY <1>2, <2>1 DEF newest
  <2> QED BY <2>2
<1> QED BY <1>1, <1>2

(* The logs after an update: those that are left, and the new one,         *)
(* encrypted under the current key.                                         *)
Appends(logs, old, new, of) ==
    logs = insert("transactionLogs", newest(DOMAIN rows["transactionLogs"]) + 1, appendLog(old, new, of))

Keeps(logs, pruned, kept) == kept = [j \in DOMAIN logs \ pruned |-> logs[j]]

AreLogs(kept, pruned) ==
    /\ DOMAIN kept \subseteq Nat \ {0} /\ IsFiniteSet(DOMAIN kept)
    /\ kept \in [DOMAIN kept -> Row("transactionLogs")]
    /\ DOMAIN rows["transactionLogs"] \ pruned \subseteq DOMAIN kept
    /\ \A j \in DOMAIN kept \cap DOMAIN rows["transactionLogs"] : kept[j] = rows["transactionLogs"][j]
    /\ \A j \in DOMAIN kept \ DOMAIN rows["transactionLogs"] : \A c \in ColumnsOf("transactionLogs") :
         looksLikeEnvelope(kept[j].values[c]) => isCurrentKey(kept[j].values[c])

LEMMA LogsAfter ==
    ASSUME TypeOK, NEW old \in Value, NEW new \in Value, NEW of \in Nat, NEW pruned,
           old.form \in {"null", "plain"}, new.form \in {"null", "plain"},
           NEW logs, Appends(logs, old, new, of), NEW kept, Keeps(logs, pruned, kept)
    PROVE  AreLogs(kept, pruned)
<1> DEFINE t == "transactionLogs"
           i == newest(DOMAIN rows[t]) + 1
           row == appendLog(old, new, of)
<1>1. t \in Table /\ IsDatabase(rows) BY DEF Table, TypeOK
<1>2. /\ DOMAIN rows[t] \subseteq Nat \ {0} /\ IsFiniteSet(DOMAIN rows[t])
      /\ rows[t] \in [DOMAIN rows[t] -> Row(t)]
  BY <1>1 DEF IsDatabase
<1>3. newest(DOMAIN rows[t]) \in Nat /\ \A j \in DOMAIN rows[t] : j <= newest(DOMAIN rows[t])
  BY <1>2, NewestIsLast
<1>4. i \in Nat \ {0} /\ i \notin DOMAIN rows[t]
  <2>1. ASSUME i \in DOMAIN rows[t] PROVE FALSE
    <3>1. i <= newest(DOMAIN rows[t]) BY <1>3, <2>1
    <3> QED BY <1>3, <3>1
  <2> QED BY <1>3, <2>1
<1>5. /\ store(old) \in Value /\ store(new) \in Value
      /\ looksLikeEnvelope(store(old)) => isCurrentKey(store(old))
      /\ looksLikeEnvelope(store(new)) => isCurrentKey(store(new))
  BY Stored
<1>6. row \in Row(t)
  <2>1. PICK a \in Value, b \in Value : a = store(old) /\ b = store(new) BY <1>5
  <2>2. row = [values |-> [c \in ColumnsOf(t) |-> IF c = "old_values" THEN a ELSE b],
               of |-> of, stale |-> FALSE]
    BY <2>1 DEF appendLog
  <2>3. PICK values \in [ColumnsOf(t) -> Value] :
          values = [c \in ColumnsOf(t) |-> IF c = "old_values" THEN a ELSE b]
    OBVIOUS
  <2>4. row = [values |-> values, of |-> of, stale |-> FALSE] BY <2>2, <2>3
  <2> HIDE DEF row
  <2> QED BY <2>4 DEF Row
<1>7. \A c \in ColumnsOf(t) : row.values[c] = store(old) \/ row.values[c] = store(new)
  BY DEF appendLog
<1> HIDE DEF row
<1>8. \A c \in ColumnsOf(t) : looksLikeEnvelope(row.values[c]) => isCurrentKey(row.values[c])
  <2>1. ASSUME NEW c \in ColumnsOf(t) PROVE looksLikeEnvelope(row.values[c]) => isCurrentKey(row.values[c])
    <3>1. CASE row.values[c] = store(old) BY <1>5, <3>1
    <3>2. CASE row.values[c] = store(new) BY <1>5, <3>2
    <3> QED BY <1>7, <3>1, <3>2
  <2> QED BY <2>1
<1>9. logs = insert(t, i, row) BY DEF row, Appends
<1> HIDE DEF i, t
<1>10. /\ DOMAIN logs = DOMAIN rows[t] \cup {i} /\ logs[i] = row
       /\ \A j \in DOMAIN rows[t] : logs[j] = rows[t][j]
  BY <1>4, <1>9 DEF insert
<1>11. DOMAIN logs \subseteq Nat \ {0} /\ IsFiniteSet(DOMAIN logs)
  <2>1. IsFiniteSet(DOMAIN rows[t] \cup {i}) BY <1>2, FS_AddElement
  <2> QED BY <1>2, <1>4, <1>10, <2>1
<1>12. \A j \in DOMAIN logs : logs[j] \in Row(t) BY <1>2, <1>6, <1>10
<1>13. DOMAIN kept = DOMAIN logs \ pruned /\ \A j \in DOMAIN kept : kept[j] = logs[j] BY DEF Keeps
<1>14. DOMAIN kept \subseteq DOMAIN logs BY <1>13
<1>15. IsFiniteSet(DOMAIN kept) BY <1>11, <1>14, FS_Subset
<1>16. kept \in [DOMAIN kept -> Row(t)] BY <1>12, <1>13 DEF Keeps
<1>17. DOMAIN rows[t] \ pruned \subseteq DOMAIN kept BY <1>10, <1>13
<1>18. \A j \in DOMAIN kept \cap DOMAIN rows[t] : kept[j] = rows[t][j] BY <1>10, <1>13
<1>19. \A j \in DOMAIN kept \ DOMAIN rows[t] : kept[j] = row BY <1>10, <1>13
<1> QED BY <1>8, <1>11, <1>14, <1>15, <1>16, <1>17, <1>18, <1>19 DEF t, AreLogs

(* A payload that is written, and the logs with it.                         *)
Pays(of, v, logs) ==
    rows' = [rows EXCEPT !["transactions"][of].values["payload"] = v, !["transactionLogs"] = logs]

LEMMA PaymentWritten ==
    ASSUME TypeOK, UNCHANGED keys, NEW of \in DOMAIN rows["transactions"],
           NEW v \in Value, Better(rows["transactions"][of].values["payload"], v),
           NEW kept,
           DOMAIN kept \subseteq Nat \ {0}, IsFiniteSet(DOMAIN kept),
           kept \in [DOMAIN kept -> Row("transactionLogs")],
           \A j \in DOMAIN kept \cap DOMAIN rows["transactionLogs"] : kept[j] = rows["transactionLogs"][j],
           \A j \in DOMAIN kept \ DOMAIN rows["transactionLogs"] : \A c \in ColumnsOf("transactionLogs") :
                looksLikeEnvelope(kept[j].values[c]) => isCurrentKey(kept[j].values[c]),
           Pays(of, v, kept)
    PROVE  /\ IsDatabase(rows') /\ Kept /\ NoneUndone
           /\ DOMAIN rows'["transactions"] = DOMAIN rows["transactions"]
           /\ \A j \in DOMAIN rows["transactions"] \ {of} : rows'["transactions"][j] = rows["transactions"][j]
           /\ rows'["transactions"][of].values["payload"] = v
           /\ rows'["transactionLogs"] = kept
           /\ \A u \in Table \ {"transactions", "transactionLogs"} : rows'[u] = rows[u]
<1> DEFINE t == "transactions"
           l == "transactionLogs"
           values == [rows[t][of].values EXCEPT !["payload"] = v]
           new == [rows[t] EXCEPT ![of].values = values]
           db == [rows EXCEPT ![t] = new]
<1>1. t \in Table /\ l \in Table /\ t # l /\ IsDatabase(rows) /\ ColumnsOf(t) = {"payload"}
  BY ColumnsOfTables DEF Table, TypeOK
<1>2. rows[t][of].values \in [ColumnsOf(t) -> Value] BY <1>1, ColumnTypes
<1>3. values \in [ColumnsOf(t) -> Value] /\ values["payload"] = v BY <1>1, <1>2
<1>4. rows' = [db EXCEPT ![l] = kept] BY <1>1 DEF IsDatabase, Pays
<1> HIDE DEF values
<1>5. /\ DOMAIN new = DOMAIN rows[t] /\ DOMAIN new \subseteq Nat \ {0} /\ IsFiniteSet(DOMAIN new)
      /\ new \in [DOMAIN new -> Row(t)]
      /\ new[of].values = values
      /\ \A j \in DOMAIN rows[t] \ {of} : new[j] = rows[t][j]
  BY <1>1, <1>3, Written
<1> HIDE DEF new
<1>6. Replaces(rows, t, new, db) BY DEF Replaces
<1> HIDE DEF db
<1>7. IsDatabase(db) /\ db[t] = new /\ \A u \in Table \ {t} : db[u] = rows[u]
  BY <1>1, <1>5, <1>6, Replaced
<1>8. Replaces(db, l, kept, rows') BY <1>4 DEF Replaces
<1>9. IsDatabase(rows') /\ rows'[l] = kept /\ \A u \in Table \ {l} : rows'[u] = db[u]
  BY <1>1, <1>7, <1>8, Replaced
<1>10. rows'[t] = new /\ \A u \in Table \ {t, l} : rows'[u] = rows[u] BY <1>1, <1>7, <1>9
<1>11. Kept /\ NoneUndone
  <2>1. ASSUME NEW u \in Table, NEW j \in DOMAIN rows'[u], NEW c \in ColumnsOf(u)
        PROVE  /\ j \in DOMAIN rows[u] => Better(rows[u][j].values[c], rows'[u][j].values[c])
               /\ (j \notin DOMAIN rows[u] /\ looksLikeEnvelope(rows'[u][j].values[c])) =>
                    isCurrentKey(rows'[u][j].values[c])
    <3>1. CASE u \notin {t, l}
      <4>1. rows'[u] = rows[u] BY <1>10, <3>1
      <4> QED BY <4>1 DEF Better
    <3>2. CASE u = t /\ j = of
      <4>1. rows'[u][j].values[c] = v /\ c = "payload" BY <1>1, <1>3, <1>5, <1>10, <3>2
      <4> QED BY <3>2, <4>1
    <3>3. CASE u = t /\ j # of
      <4>1. j \in DOMAIN rows[u] /\ rows'[u][j] = rows[u][j] BY <1>5, <1>10, <3>3
      <4> QED BY <4>1 DEF Better
    <3>4. CASE u = l /\ j \in DOMAIN rows[u]
      <4>1. rows'[u][j] = rows[u][j] BY <1>9, <3>4
      <4> QED BY <3>4, <4>1 DEF Better
    <3>5. CASE u = l /\ j \notin DOMAIN rows[u] BY <1>9, <3>5
    <3> QED BY <3>1, <3>2, <3>3, <3>4, <3>5
  <2> QED BY <2>1, ValueByValue
<1> QED BY <1>3, <1>5, <1>9, <1>10, <1>11

(* What update() writes of a payment: the payload, and its log.             *)
Updates(of, old, new, v, logs, pruned, kept) ==
    /\ old.form \in {"null", "plain"} /\ old.text = rows["transactions"][of].values["payload"].text
    /\ new.form \in {"null", "plain"} /\ new.text >= old.text
    /\ v = store(new)
    /\ Appends(logs, old, new, of)
    /\ pruned = pruneTransactionLogs(logs, of) /\ \A j \in pruned : ~lockForUpdate("transactionLogs", j)
    /\ Keeps(logs, pruned, kept)
    /\ Pays(of, v, kept)

LEMMA PaymentUpdated ==
    ASSUME IInv, NEW w \in Writer, UpdateTransaction(w)
    PROVE  \/ rows' = rows
           \/ \E old \in Value, new \in Value, v \in Value : \E logs, pruned, kept :
                Updates(writer[w].id, old, new, v, logs, pruned, kept)
<1> DEFINE l == "transactionLogs"
           of == writer[w].id
           seen == writer[w].seen
           old == [seen EXCEPT !.form = IF @ = "null" THEN @ ELSE "plain"]
           New(text) == [old EXCEPT !.form = IF text = old.text THEN @ ELSE "plain", !.text = text]
           Logs(text) == insert(l, newest(DOMAIN rows[l]) + 1, appendLog(old, New(text), of))
           Pruned(text) == pruneTransactionLogs(Logs(text), of)
<1>1. TypeOK /\ Held BY DEF IInv
<1>2. writer[w].phase = "write" BY DEF UpdateTransaction
<1>3. PICK text \in {old.text, old.text + 1} :
        IF diff(old, New(text)) = {} THEN rows' = rows
        ELSE /\ \A i \in Pruned(text) : ~lockForUpdate(l, i)
             /\ rows' = [rows EXCEPT
                   !["transactions"][of].values["payload"] = store(New(text)),
                   !["transactionLogs"] = [i \in DOMAIN Logs(text) \ Pruned(text) |-> Logs(text)[i]]]
  BY DEF UpdateTransaction
<1>4. writer \in [Writer -> [phase : {"idle", "write"}, id : Nat, seen : Value]] BY <1>1 DEF TypeOK
<1>5. of \in Nat /\ seen \in Value BY <1>4
<1>6. seen = rows["transactions"][of].values["payload"] BY <1>1, <1>2 DEF Held, WritersHold
<1>7. CASE diff(old, New(text)) = {} BY <1>3, <1>7
<1>8. CASE diff(old, New(text)) # {}
  <2>1. old \in Value /\ old.form \in {"null", "plain"} /\ old.text = seen.text /\ old.text \in Nat
    <3> HIDE DEF seen
    <3> QED BY <1>5 DEF Value
  <2>2. text \in Nat /\ text >= old.text BY <1>3, <2>1
  <2> HIDE DEF old
  <2>3. PICK new \in Value : new = New(text) /\ new.form \in {"null", "plain"} /\ new.text = text
    <3>1. PICK form \in {"null", "plain"} : form = IF text = old.text THEN old.form ELSE "plain"
      BY <2>1
    <3>2. New(text) = [old EXCEPT !.form = form, !.text = text] BY <3>1
    <3>3. PICK was \in Value : was = old BY <2>1
    <3>4. [was EXCEPT !.form = form, !.text = text] \in Value BY <2>2 DEF Value
    <3>5. /\ [was EXCEPT !.form = form, !.text = text].form = form
          /\ [was EXCEPT !.form = form, !.text = text].text = text
      BY DEF Value
    <3> HIDE DEF New
    <3> QED BY <3>2, <3>3, <3>4, <3>5
  <2>4. PICK logs : logs = insert(l, newest(DOMAIN rows[l]) + 1, appendLog(old, new, of)) OBVIOUS
  <2>5. PICK pruned : pruned = pruneTransactionLogs(logs, of) OBVIOUS
  <2>6. PICK kept : kept = [i \in DOMAIN logs \ pruned |-> logs[i]] OBVIOUS
  <2>7. PICK v \in Value : v = store(new) BY <1>1, <2>3, Stored
  <2>8. Pays(of, v, kept) /\ \A j \in pruned : ~lockForUpdate(l, j)
    BY <1>3, <1>8, <2>3, <2>4, <2>5, <2>6, <2>7 DEF Pays
  <2>9. PICK was \in Value : was = old /\ was.form \in {"null", "plain"} /\ was.text = seen.text
                             /\ text >= was.text
    BY <2>1, <2>2
  <2>10. Appends(logs, was, new, of) BY <2>4, <2>9 DEF Appends
  <2>11. Keeps(logs, pruned, kept) BY <2>6 DEF Keeps
  <2>12. Updates(of, was, new, v, logs, pruned, kept)
    BY <1>6, <2>3, <2>5, <2>7, <2>8, <2>9, <2>10, <2>11 DEF Updates
  <2> QED BY <2>12
<1> QED BY <1>7, <1>8

(* An update that writes, of a row that is as the writer read it.           *)
LEMMA UpdateWritten ==
    ASSUME IInv, UNCHANGED keys, canStore, NEW of \in DOMAIN rows["transactions"],
           NEW old \in Value, NEW new \in Value, NEW v \in Value, NEW logs, NEW pruned, NEW kept,
           Updates(of, old, new, v, logs, pruned, kept)
    PROVE  /\ AreLogs(kept, pruned)
           /\ IsDatabase(rows') /\ Kept /\ NoneUndone
           /\ DOMAIN rows'["transactions"] = DOMAIN rows["transactions"]
           /\ \A j \in DOMAIN rows["transactions"] \ {of} :
                rows'["transactions"][j] = rows["transactions"][j]
           /\ rows'["transactions"][of].values["payload"] = v
           /\ rows'["transactionLogs"] = kept
           /\ \A u \in Table \ {"transactions", "transactionLogs"} : rows'[u] = rows[u]
<1>1. TypeOK BY DEF IInv
<1>2. of \in Nat BY <1>1 DEF TypeOK, IsDatabase, Table
<1>3. /\ v.text = new.text
      /\ looksLikeEnvelope(v) => isCurrentKey(v)
      /\ read(v)
  BY <1>1, Stored DEF Updates
<1>4. Better(rows["transactions"][of].values["payload"], v) BY <1>3 DEF Better, Updates
<1>5. AreLogs(kept, pruned) BY <1>1, <1>2, LogsAfter DEF Updates
<1>6. Pays(of, v, kept) BY DEF Updates
<1> QED BY <1>1, <1>4, <1>5, <1>6, PaymentWritten DEF AreLogs

LEMMA UpdateTransactionFine ==
    ASSUME IInv, NEW w \in Writer, UpdateTransaction(w)
    PROVE  Fine
<1> DEFINE t == "transactions"
           l == "transactionLogs"
           of == writer[w].id
<1>1. TypeOK /\ Held /\ Walked /\ ExitZeroMeansRotated /\ IsDatabase(rows) BY DEF IInv, TypeOK
<1>2. /\ UNCHANGED <<keys, rot, runs, pruner, nextId>> /\ writer[w].phase = "write"
      /\ writer' = [writer EXCEPT ![w] = waiting]
  BY DEF UpdateTransaction
<1>3. t \in Table /\ l \in Table /\ t # l BY DEF Table
<1>4. writer \in [Writer -> [phase : {"idle", "write"}, id : Nat, seen : Value]] BY <1>1 DEF TypeOK
<1>5. canStore /\ of \in DOMAIN rows[t] /\ ~(rot.phase = "write" /\ table = t /\ id = of)
  BY <1>1, <1>2 DEF Held, WritersHold
<1>6. /\ writer'[w] = waiting /\ \A v \in Writer \ {w} : writer'[v] = writer[v]
      /\ writer' \in [Writer -> [phase : {"idle", "write"}, id : Nat, seen : Value]]
  <2>1. waiting \in [phase : {"idle", "write"}, id : Nat, seen : Value]
    BY DEF waiting, NullValue, Value
  <2> HIDE DEF of
  <2> QED BY <1>2, <1>4, <2>1
<1>7. waiting.phase = "idle" BY DEF waiting
<1>8. SUFFICES ASSUME IsDatabase(rows'), Kept, NoneUndone,
                       DOMAIN rows'[t] = DOMAIN rows[t],
                       \A j \in DOMAIN rows[t] \ {of} : rows'[t][j] = rows[t][j],
                       \A j \in DOMAIN rows[l] : lockForUpdate(l, j) =>
                           j \in DOMAIN rows'[l] /\ rows'[l][j] = rows[l][j],
                       \A u \in Table \ {t, l} : rows'[u] = rows[u]
                PROVE  Fine
  <2>1. CASE rows' = rows
    <3>1. Kept /\ NoneUndone BY <1>1, <1>2, <2>1, RowsLeft
    <3>2. IsDatabase(rows') BY <1>1, <2>1
    <3> QED BY <1>8, <2>1, <3>1, <3>2
  <2>2. CASE rows' # rows
    <3>1. PICK old \in Value, new \in Value, v \in Value :
            \E logs, pruned, kept : Updates(of, old, new, v, logs, pruned, kept)
      BY <2>2, PaymentUpdated
    <3>2. PICK logs, pruned, kept : Updates(of, old, new, v, logs, pruned, kept) BY <3>1
    <3>3. PICK at \in DOMAIN rows[t] : at = of BY <1>5
    <3>4. Updates(at, old, new, v, logs, pruned, kept) BY <3>2, <3>3
    <3>5. /\ AreLogs(kept, pruned)
          /\ IsDatabase(rows') /\ Kept /\ NoneUndone
          /\ DOMAIN rows'["transactions"] = DOMAIN rows["transactions"]
          /\ \A j \in DOMAIN rows["transactions"] \ {at} :
               rows'["transactions"][j] = rows["transactions"][j]
          /\ rows'["transactionLogs"] = kept
          /\ \A u \in Table \ {"transactions", "transactionLogs"} : rows'[u] = rows[u]
      BY <1>2, <1>5, <3>4, UpdateWritten
    <3>6. \A j \in DOMAIN rows[l] : lockForUpdate(l, j) =>
             j \in DOMAIN rows'[l] /\ rows'[l][j] = rows[l][j]
      BY <3>2, <3>5 DEF AreLogs, Updates
    <3> QED BY <1>8, <3>3, <3>5, <3>6
  <2> QED BY <2>1, <2>2
<1> HIDE DEF t, l, of
<1>9. TypeOK' BY <1>1, <1>2, <1>6, <1>8 DEF TypeOK
<1>10. rot.phase = "write" => id \in DOMAIN rows'[table] /\ rows'[table][id] = rows[table][id]
  <2>1. SUFFICES ASSUME rot.phase = "write"
                 PROVE  id \in DOMAIN rows'[table] /\ rows'[table][id] = rows[table][id]
    OBVIOUS
  <2>2. id \in DOMAIN rows[table] BY <1>1, <2>1 DEF Held, RotationHolds
  <2>3. table \in Table BY <1>1, TableOfWalk DEF TypeOK, table
  <2>4. CASE table = t BY <1>5, <1>8, <2>1, <2>2, <2>4
  <2>5. CASE table = l
    <3>1. lockForUpdate(table, id) BY <2>1 DEF lockForUpdate
    <3> QED BY <1>8, <2>2, <2>5, <3>1
  <2>6. CASE table \notin {t, l} BY <1>8, <2>2, <2>3, <2>6
  <2> QED BY <2>4, <2>5, <2>6
<1>11. RotationHolds' /\ PageShape' /\ Walked' /\ ExitZeroMeansRotated'
  BY <1>2, <1>8, <1>10, OthersStep
<1>12. OneWriter' BY <1>1, <1>6, <1>7 DEF Held, OneWriter
<1>13. table' = table /\ id' = id /\ (canStore' <=> canStore) BY <1>2 DEF table, id, canStore
<1>14. WritersHold'
  <2>1. SUFFICES ASSUME NEW v \in Writer, writer'[v].phase = "write"
                 PROVE  /\ canStore /\ writer'[v].id \in DOMAIN rows'["transactions"]
                        /\ writer'[v].seen = rows'["transactions"][writer'[v].id].values["payload"]
                        /\ ~(rot.phase = "write" /\ table = "transactions" /\ id = writer'[v].id)
    BY <1>2, <1>13 DEF WritersHold
  <2>2. v # w /\ writer'[v] = writer[v] BY <1>6, <1>7, <2>1
  <2>3. /\ canStore /\ writer[v].id \in DOMAIN rows["transactions"]
        /\ writer[v].seen = rows["transactions"][writer[v].id].values["payload"]
        /\ ~(rot.phase = "write" /\ table = "transactions" /\ id = writer[v].id)
    BY <1>1, <2>1, <2>2 DEF Held, WritersHold
  <2>4. writer[v].id # of BY <1>1, <1>2, <2>1, <2>2 DEF Held, OneWriter, of
  <2>5. rows'["transactions"][writer[v].id] = rows["transactions"][writer[v].id]
    BY <1>8, <2>3, <2>4 DEF t
  <2> QED BY <1>8, <2>2, <2>3, <2>5 DEF t
<1>15. MetadataIds'
  <2>1. rows'["requestMetadata"] = rows["requestMetadata"] BY <1>8 DEF Table, t, l
  <2> QED BY <1>1, <1>2, <2>1 DEF Held, MetadataIds
<1> QED BY <1>8, <1>9, <1>11, <1>12, <1>14, <1>15 DEF Fine, IInv, Held

---------------------------------------------------------------------------
(* The logs of a transaction are a chain.  They are read from their ends    *)
(* here, rather than by the next later one: the last log left the payload,  *)
(* and of two that follow each other the second starts from the first.      *)
OldText(log) == log.values["old_values"].text
NewText(log) == log.values["new_values"].text
TextOf(db, of) == db["transactions"][of].values["payload"].text

Follows(S, i, k) == i < k /\ \A j \in S : j <= i \/ k <= j

ChainOf(logs, of, text) ==
    \A i \in LogsOf(logs, of) :
        /\ (\A j \in LogsOf(logs, of) : j <= i) => NewText(logs[i]) = text
        /\ \A k \in LogsOf(logs, of) :
             Follows(LogsOf(logs, of), i, k) => NewText(logs[i]) = OldText(logs[k])

(* One batch of the pruning is all that it may have to remove.              *)
Few(logs, of) == Cardinality(LogsOf(logs, of)) < MaxLogs + PruneBatch

ChainsOf(db) ==
    /\ \A i \in DOMAIN db["transactionLogs"] :
          db["transactionLogs"][i].of \in DOMAIN db["transactions"]
    /\ \A of \in DOMAIN db["transactions"] :
          /\ ChainOf(db["transactionLogs"], of, TextOf(db, of))
          /\ Few(db["transactionLogs"], of)

LEMMA LogIds ==
    ASSUME NEW db, IsDatabase(db)
    PROVE  /\ DOMAIN db["transactionLogs"] \subseteq Nat \ {0}
           /\ IsFiniteSet(DOMAIN db["transactionLogs"])
BY DEF IsDatabase, Table

(* The ids after one are a set with a least element, or empty.              *)
LEMMA ChainedByFollowing ==
    ASSUME NEW db, IsDatabase(db),
           \A i \in DOMAIN db["transactionLogs"] :
              db["transactionLogs"][i].of \in DOMAIN db["transactions"]
    PROVE  Chained(db) <=>
             \A of \in DOMAIN db["transactions"] : ChainOf(db["transactionLogs"], of, TextOf(db, of))
<1> DEFINE logs == db["transactionLogs"]
           Later(i) == {j \in DOMAIN logs : logs[j].of = logs[i].of /\ j > i}
           next(i) == CHOOSE j \in Later(i) : \A k \in Later(i) : j <= k
           Left(i) == IF Later(i) = {} THEN TextOf(db, logs[i].of) ELSE OldText(logs[next(i)])
<1>1. DOMAIN logs \subseteq Nat BY LogIds
<1>2. Chained(db) <=> \A i \in DOMAIN logs : NewText(logs[i]) = Left(i)
  BY DEF Chained, TextOf, OldText, NewText
<1>3. ASSUME NEW of \in DOMAIN db["transactions"], NEW i \in LogsOf(logs, of)
      PROVE  /\ i \in DOMAIN logs /\ logs[i].of = of
             /\ \A j : j \in Later(i) <=> j \in LogsOf(logs, of) /\ j > i
             /\ Later(i) = {} <=> \A j \in LogsOf(logs, of) : j <= i
             /\ Later(i) # {} => next(i) \in Later(i) /\ Follows(LogsOf(logs, of), i, next(i))
             /\ \A k \in LogsOf(logs, of) :
                  Follows(LogsOf(logs, of), i, k) => Later(i) # {} /\ k = next(i)
  <2>1. i \in DOMAIN logs /\ logs[i].of = of BY <1>3 DEF LogsOf
  <2>2. \A j : j \in Later(i) <=> j \in LogsOf(logs, of) /\ j > i BY <2>1 DEF LogsOf
  <2>3. LogsOf(logs, of) \subseteq Nat BY <1>1 DEF LogsOf
  <2> DEFINE L == Later(i)
             S == LogsOf(logs, of)
  <2>4. next(i) = CHOOSE j \in L : \A k \in L : j <= k OBVIOUS
  <2>5. \A j : j \in L <=> j \in S /\ j > i BY <2>2
  <2>6. S \subseteq Nat /\ i \in S BY <2>3
  <2> HIDE DEF L, S, next
  <2>7. L \subseteq Nat BY <2>5, <2>6
  <2>8. L = {} <=> \A j \in S : j <= i
    <3>1. \A j \in S : j > i <=> ~(j <= i) BY <2>6
    <3> QED BY <2>5, <3>1
  <2>9. L # {} => next(i) \in L /\ \A k \in L : next(i) <= k
    <3>1. SUFFICES ASSUME L # {} PROVE next(i) \in L /\ \A k \in L : next(i) <= k OBVIOUS
    <3>2. \E j \in L : \A k \in L : j <= k BY <2>7, <3>1, LeastId
    <3> QED BY <2>4, <3>2
  <2>10. L # {} => Follows(S, i, next(i))
    <3>1. SUFFICES ASSUME L # {} PROVE Follows(S, i, next(i)) OBVIOUS
    <3>2. next(i) \in Nat /\ i < next(i) BY <2>5, <2>6, <2>9, <3>1
    <3>3. ASSUME NEW j \in S PROVE j <= i \/ next(i) <= j
      <4>1. CASE j > i BY <2>5, <2>9, <3>1, <4>1
      <4>2. CASE ~(j > i) BY <2>6, <4>2
      <4> QED BY <4>1, <4>2
    <3> QED BY <3>2, <3>3 DEF Follows
  <2>11. ASSUME NEW k \in S, Follows(S, i, k) PROVE L # {} /\ k = next(i)
    <3>1. k \in L BY <2>5, <2>6, <2>11 DEF Follows
    <3>2. PICK n \in L : n = next(i) /\ n <= k BY <2>9, <3>1
    <3>3. n \in S /\ n \in Nat /\ k \in Nat /\ ~(n <= i) BY <2>5, <2>6, <2>7, <3>1
    <3>4. k <= n BY <2>11, <3>3 DEF Follows
    <3>5. k = n BY <3>2, <3>3, <3>4
    <3> QED BY <3>1, <3>2, <3>5
  <2> QED BY <2>1, <2>2, <2>8, <2>9, <2>10, <2>11 DEF L, S
<1> HIDE DEF Later, next
<1>4. ASSUME \A i \in DOMAIN logs : NewText(logs[i]) = Left(i),
             NEW of \in DOMAIN db["transactions"]
      PROVE  ChainOf(logs, of, TextOf(db, of))
  <2> SUFFICES ASSUME NEW i \in LogsOf(logs, of)
               PROVE  /\ (\A j \in LogsOf(logs, of) : j <= i) => NewText(logs[i]) = TextOf(db, of)
                      /\ \A k \in LogsOf(logs, of) :
                           Follows(LogsOf(logs, of), i, k) => NewText(logs[i]) = OldText(logs[k])
    BY DEF ChainOf
  <2>1. NewText(logs[i]) = Left(i) /\ logs[i].of = of BY <1>3, <1>4
  <2> QED BY <1>3, <2>1
<1>5. ASSUME \A of \in DOMAIN db["transactions"] : ChainOf(logs, of, TextOf(db, of)),
             NEW i \in DOMAIN logs
      PROVE  NewText(logs[i]) = Left(i)
  <2>1. PICK of \in DOMAIN db["transactions"] : of = logs[i].of OBVIOUS
  <2>2. i \in LogsOf(logs, of) BY <2>1 DEF LogsOf
  <2>3. ChainOf(logs, of, TextOf(db, of)) BY <1>5
  <2>4. CASE Later(i) = {}
    <3>1. NewText(logs[i]) = TextOf(db, of) BY <1>3, <2>2, <2>3, <2>4 DEF ChainOf
    <3> QED BY <2>1, <2>4, <3>1
  <2>5. CASE Later(i) # {}
    <3>1. next(i) \in LogsOf(logs, of) /\ Follows(LogsOf(logs, of), i, next(i))
      BY <1>3, <2>2, <2>5
    <3>2. NewText(logs[i]) = OldText(logs[next(i)]) BY <2>2, <2>3, <3>1 DEF ChainOf
    <3> QED BY <2>5, <3>2
  <2> QED BY <2>4, <2>5
<1> QED BY <1>2, <1>4, <1>5

(* Only the texts of the logs and the payloads, and whose they are, matter. *)
LEMMA SameChain ==
    ASSUME NEW logs, NEW after, NEW of, NEW text,
           LogsOf(after, of) = LogsOf(logs, of),
           \A i \in LogsOf(logs, of) :
               OldText(after[i]) = OldText(logs[i]) /\ NewText(after[i]) = NewText(logs[i])
    PROVE  /\ ChainOf(logs, of, text) => ChainOf(after, of, text)
           /\ Few(logs, of) => Few(after, of)
BY DEF ChainOf, Few

LEMMA SameChains ==
    ASSUME NEW db, ChainsOf(db), NEW after,
           DOMAIN after["transactions"] = DOMAIN db["transactions"],
           DOMAIN after["transactionLogs"] = DOMAIN db["transactionLogs"],
           \A of \in DOMAIN db["transactions"] : TextOf(after, of) = TextOf(db, of),
           \A i \in DOMAIN db["transactionLogs"] :
               /\ after["transactionLogs"][i].of = db["transactionLogs"][i].of
               /\ OldText(after["transactionLogs"][i]) = OldText(db["transactionLogs"][i])
               /\ NewText(after["transactionLogs"][i]) = NewText(db["transactionLogs"][i])
    PROVE  ChainsOf(after)
<1> DEFINE l == "transactionLogs"
<1>1. \A i \in DOMAIN after[l] : after[l][i].of \in DOMAIN after["transactions"] BY DEF ChainsOf
<1>2. ASSUME NEW of \in DOMAIN after["transactions"]
      PROVE  ChainOf(after[l], of, TextOf(after, of)) /\ Few(after[l], of)
  <2>1. LogsOf(after[l], of) = LogsOf(db[l], of) BY DEF LogsOf
  <2>2. \A i \in LogsOf(db[l], of) :
          OldText(after[l][i]) = OldText(db[l][i]) /\ NewText(after[l][i]) = NewText(db[l][i])
    BY DEF LogsOf
  <2>3. ChainOf(db[l], of, TextOf(db, of)) /\ Few(db[l], of) BY DEF ChainsOf
  <2>4. TextOf(after, of) = TextOf(db, of) OBVIOUS
  <2> QED BY <2>1, <2>2, <2>3, <2>4, SameChain
<1> QED BY <1>1, <1>2 DEF ChainsOf

(* What is later than a log of a set.                                       *)
Newer(S, i) == {j \in S : j > i}

LEMMA NewerIsFewer ==
    ASSUME NEW S, S \subseteq Nat, IsFiniteSet(S)
    PROVE  /\ \A i \in S : /\ IsFiniteSet(Newer(S, i)) /\ Cardinality(Newer(S, i)) \in Nat
                           /\ Cardinality(Newer(S, i)) < Cardinality(S)
           /\ \A i, k \in S : i < k => Cardinality(Newer(S, k)) <= Cardinality(Newer(S, i))
<1>1. ASSUME NEW i \in S
      PROVE  /\ IsFiniteSet(Newer(S, i)) /\ Cardinality(Newer(S, i)) \in Nat
             /\ Cardinality(Newer(S, i)) < Cardinality(S)
  <2>1. Newer(S, i) \subseteq S /\ i \notin Newer(S, i)
    <3>1. ~(i > i) OBVIOUS
    <3> QED BY <3>1 DEF Newer
  <2>2. Newer(S, i) # S BY <2>1
  <2> QED BY <2>1, <2>2, PartOf
<1>2. ASSUME NEW i \in S, NEW k \in S, i < k
      PROVE  Cardinality(Newer(S, k)) <= Cardinality(Newer(S, i))
  <2>1. \A j \in S : j > k => j > i
    <3>1. i \in Nat /\ k \in Nat /\ \A j \in S : j \in Nat OBVIOUS
    <3> QED BY <1>2, <3>1
  <2>2. Newer(S, k) \subseteq Newer(S, i) BY <2>1 DEF Newer
  <2> QED BY <1>1, <2>2, PartOf
<1> QED BY <1>1, <1>2

(* The newest logs of a transaction are no more than MaxLogs.               *)
LEMMA NewestAreFew ==
    ASSUME NEW S, S \subseteq Nat, IsFiniteSet(S), NEW n \in Nat \ {0},
           NEW T, T = {i \in S : Cardinality(Newer(S, i)) < n}
    PROVE  IsFiniteSet(T) /\ Cardinality(T) <= n
<1>1. T \subseteq S OBVIOUS
<1>2. IsFiniteSet(T) BY <1>1, FS_Subset
<1>3. CASE T = {}
  <2>1. Cardinality(T) = 0 BY <1>3, FS_EmptySet
  <2> QED BY <1>2, <2>1
<1>4. CASE T # {}
  <2>1. PICK i \in T : \A j \in T : i <= j
    <3>1. T \subseteq Nat BY <1>1
    <3> QED BY <1>4, <3>1, LeastId
  <2>2. i \in S /\ Cardinality(Newer(S, i)) < n OBVIOUS
  <2>3. T \ {i} \subseteq Newer(S, i)
    <3>1. ASSUME NEW j \in T \ {i} PROVE j \in S /\ j > i
      <4>1. i <= j /\ i \in Nat /\ j \in Nat /\ j # i BY <1>1, <2>1
      <4> QED BY <1>1, <4>1
    <3> QED BY <3>1 DEF Newer
  <2>4. IsFiniteSet(Newer(S, i)) /\ Cardinality(Newer(S, i)) \in Nat BY <2>2, NewerIsFewer
  <2>5. IsFiniteSet(T \ {i}) /\ Cardinality(T \ {i}) \in Nat
        /\ Cardinality(T \ {i}) <= Cardinality(Newer(S, i))
    BY <2>3, <2>4, PartOf
  <2>6. Cardinality(T \ {i}) = Cardinality(T) - 1 BY <1>2, FS_RemoveElement
  <2>7. Cardinality(T) \in Nat BY <1>2, FS_CardinalityType
  <2> QED BY <1>2, <2>2, <2>4, <2>5, <2>6, <2>7
<1> QED BY <1>3, <1>4

(* A chain that gets a log at its end and loses those at its start.         *)
LEMMA ChainGrows ==
    ASSUME NEW logs, DOMAIN logs \subseteq Nat, IsFiniteSet(DOMAIN logs),
           NEW of, NEW text, NEW left, ChainOf(logs, of, text), Few(logs, of),
           NEW i \in Nat, \A j \in DOMAIN logs : j < i,
           NEW more, DOMAIN more = DOMAIN logs \cup {i}, \A j \in DOMAIN logs : more[j] = logs[j],
           more[i].of = of, OldText(more[i]) = text, NewText(more[i]) = left,
           NEW pruned, pruned = pruneTransactionLogs(more, of),
           NEW kept, Keeps(more, pruned, kept)
    PROVE  ChainOf(kept, of, left) /\ Few(kept, of)
<1> DEFINE R == LogsOf(logs, of)
           S == LogsOf(more, of)
           T == LogsOf(kept, of)
<1>1. S = R \cup {i} /\ R \subseteq DOMAIN logs /\ R \subseteq Nat /\ i \notin R
  <2>1. i \notin DOMAIN logs
    <3>1. ~(i < i) OBVIOUS
    <3> QED BY <3>1
  <2> QED BY <2>1 DEF LogsOf
<1>2. IsFiniteSet(R) /\ IsFiniteSet(S) /\ S \subseteq Nat
      /\ Cardinality(R) \in Nat /\ Cardinality(S) = Cardinality(R) + 1
  <2>1. IsFiniteSet(R) /\ Cardinality(R) \in Nat BY <1>1, PartOf
  <2>2. IsFiniteSet(R \cup {i}) /\ Cardinality(R \cup {i}) = Cardinality(R) + 1
    BY <1>1, <2>1, FS_AddElement
  <2> QED BY <1>1, <2>1, <2>2
<1>3. Cardinality(S) <= MaxLogs + PruneBatch BY <1>2, BoundAssumption DEF Few
<1>4. DOMAIN kept = DOMAIN more \ pruned /\ \A j \in DOMAIN kept : kept[j] = more[j] BY DEF Keeps
<1>5. pruned = {j \in S : Cardinality(Newer(S, j)) >= MaxLogs
                          /\ Cardinality(Newer(S, j)) < MaxLogs + PruneBatch}
  <2>1. \A j \in S : Newer(S, j) = {k \in DOMAIN more : more[k].of = of /\ k > j} BY DEF Newer, LogsOf
  <2> QED BY <2>1 DEF pruneTransactionLogs, LogsOf
\* Everything beyond the newest logs is within the batch.
<1>6. T = {j \in S : Cardinality(Newer(S, j)) < MaxLogs}
  <2>1. T = S \ pruned BY <1>4 DEF LogsOf
  <2> HIDE DEF S, T
  <2>2. \A j \in S : /\ Cardinality(Newer(S, j)) \in Nat
                     /\ Cardinality(Newer(S, j)) < MaxLogs + PruneBatch
    <3>1. \A j \in S : /\ Cardinality(Newer(S, j)) \in Nat
                       /\ Cardinality(Newer(S, j)) < Cardinality(S)
      BY <1>2, NewerIsFewer
    <3>2. Cardinality(S) \in Nat /\ MaxLogs + PruneBatch \in Nat BY <1>2, BoundAssumption
    <3> QED BY <1>3, <3>1, <3>2
  <2>3. \A j \in S : j \in pruned <=> ~(Cardinality(Newer(S, j)) < MaxLogs)
    BY <1>5, <2>2, BoundAssumption
  <2> QED BY <2>1, <2>3
<1>7. Few(kept, of)
  <2> HIDE DEF S, T
  <2>1. IsFiniteSet(T) /\ Cardinality(T) <= MaxLogs
    BY <1>2, <1>6, NewestAreFew, BoundAssumption
  <2>2. Cardinality(T) \in Nat BY <2>1, FS_CardinalityType
  <2>3. Cardinality(T) < MaxLogs + PruneBatch BY <2>1, <2>2, BoundAssumption
  <2> QED BY <2>3 DEF Few, T
\* Of the logs that are left no later one is gone.
<1>8. T \subseteq S /\ \A j \in T : \A k \in S : j < k => k \in T
  <2> HIDE DEF S, T
  <2>1. ASSUME NEW j \in T, NEW k \in S, j < k PROVE k \in T
    <3>1. j \in S /\ Cardinality(Newer(S, j)) < MaxLogs BY <1>6
    <3>2. Cardinality(Newer(S, k)) <= Cardinality(Newer(S, j))
          /\ Cardinality(Newer(S, k)) \in Nat /\ Cardinality(Newer(S, j)) \in Nat
      BY <1>2, <2>1, <3>1, NewerIsFewer
    <3>3. Cardinality(Newer(S, k)) < MaxLogs BY <3>1, <3>2, BoundAssumption
    <3> QED BY <1>6, <3>3
  <2> QED BY <1>6, <2>1
<1>9. \A j \in T : kept[j] = more[j] BY <1>4 DEF LogsOf
<1>10. ASSUME NEW j \in T
       PROVE  /\ (\A k \in T : k <= j) => NewText(more[j]) = left
              /\ \A k \in T : Follows(T, j, k) => NewText(more[j]) = OldText(more[k])
  <2>1. j \in S /\ j \in Nat BY <1>2, <1>8
  <2>2. ASSUME \A k \in T : k <= j PROVE NewText(more[j]) = left
    <3>1. j = i
      <4>1. SUFFICES ASSUME j # i PROVE FALSE OBVIOUS
      <4>2. j \in R /\ j < i BY <1>1, <2>1, <4>1
      <4>3. i \in T BY <1>1, <1>8, <4>2
      <4>4. i <= j BY <2>2, <4>3
      <4> QED BY <2>1, <4>2, <4>4
    <3> QED BY <3>1
  <2>3. ASSUME NEW k \in T, Follows(T, j, k) PROVE NewText(more[j]) = OldText(more[k])
    <3>1. k \in S /\ k \in Nat /\ j < k BY <1>2, <1>8, <2>3 DEF Follows
    <3>2. j # i
      <4>1. k = i \/ k < i BY <1>1, <3>1
      <4> QED BY <2>1, <3>1, <4>1
    <3>3. j \in R BY <1>1, <2>1, <3>2
    <3>4. \A m \in R : m <= j \/ k <= m
      <4>1. ASSUME NEW m \in R PROVE m <= j \/ k <= m
        <5>1. m \in S /\ m \in Nat BY <1>1
        <5>2. CASE j < m
          <6>1. m \in T BY <1>8, <5>1, <5>2
          <6> QED BY <2>1, <2>3, <5>1, <5>2, <6>1 DEF Follows
        <5>3. CASE ~(j < m) BY <2>1, <5>1, <5>3
        <5> QED BY <5>2, <5>3
      <4> QED BY <4>1
    <3>5. CASE k = i
      <4>1. \A m \in R : m <= j
        <5>1. ASSUME NEW m \in R PROVE m <= j
          <6>1. m \in Nat /\ m < i BY <1>1
          <6>2. m <= j \/ i <= m BY <3>4, <3>5
          <6> QED BY <6>1, <6>2
        <5> QED BY <5>1
      <4>2. NewText(logs[j]) = text BY <3>3, <4>1 DEF ChainOf
      <4> QED BY <1>1, <3>3, <3>5, <4>2
    <3>6. CASE k # i
      <4>1. k \in R BY <1>1, <3>1, <3>6
      <4>2. Follows(R, j, k) BY <3>1, <3>4 DEF Follows
      <4>3. NewText(logs[j]) = OldText(logs[k]) BY <3>3, <4>1, <4>2 DEF ChainOf
      <4> QED BY <1>1, <3>3, <4>1, <4>3
    <3> QED BY <3>5, <3>6
  <2> QED BY <2>2, <2>3
<1>11. ChainOf(kept, of, left) BY <1>9, <1>10 DEF ChainOf
<1> QED BY <1>7, <1>11

(* The steps that do not write a payment leave the texts alone.             *)
LEMMA ChainsLeft ==
    ASSUME ChainsOf(rows), rows'["transactions"] = rows["transactions"],
           rows'["transactionLogs"] = rows["transactionLogs"]
    PROVE  ChainsOf(rows')
BY DEF ChainsOf, TextOf

LEMMA OthersLeaveChains ==
    ASSUME IInv, ChainsOf(rows),
           UpdateAttempt \/ CreateMetadata \/ \E p \in Pruner : Purge(p)
    PROVE  ChainsOf(rows')
<1>1. IsDatabase(rows) BY DEF IInv, TypeOK
<1>2. DOMAIN rows = Table BY <1>1 DEF IsDatabase
<1>3. rows'["transactions"] = rows["transactions"] /\ rows'["transactionLogs"] = rows["transactionLogs"]
  <2>1. CASE UpdateAttempt BY <1>2, <2>1 DEF UpdateAttempt, Table
  <2>2. CASE CreateMetadata BY <1>2, <2>2 DEF CreateMetadata, Table
  <2>3. CASE \E p \in Pruner : Purge(p) BY <1>2, <2>3 DEF Purge, Table
  <2> QED BY <2>1, <2>2, <2>3
<1> QED BY <1>3, ChainsLeft

(* The rotation writes every text as it was.                                *)
LEMMA RotationLeavesChains ==
    ASSUME IInv, ChainsOf(rows), WriteRow
    PROVE  ChainsOf(rows')
<1> DEFINE row == rows[table][id]
           values == [c \in DOMAIN row.values |->
                        IF c \in changes(row) THEN rekey(row.values[c]) ELSE row.values[c]]
<1>1. TypeOK /\ Held /\ IsDatabase(rows) BY DEF IInv, TypeOK
<1>2. table \in Table /\ rot.phase = "write" /\ UNCHANGED keys
  BY <1>1, TableOfWalk DEF TypeOK, WriteRow, table
<1>3. id \in DOMAIN rows[table] /\ rot.seen = row BY <1>1, <1>2 DEF Held, RotationHolds
<1>4. row \in Row(table) /\ row.values \in [ColumnsOf(table) -> Value]
  BY <1>1, <1>2, <1>3, ColumnTypes
<1>5. \A c \in changes(row) :
        /\ row.values[c] \in Value
        /\ rekey(row.values[c]) \in Value /\ rekey(row.values[c]).text = row.values[c].text
        /\ isCurrentKey(rekey(row.values[c])) /\ read(rekey(row.values[c]))
  BY <1>1, <1>2, <1>4, RowRekeyed
<1>6. rows' = [rows EXCEPT ![table] = [rows[table] EXCEPT ![id].values = values]]
  BY <1>3 DEF WriteRow
<1>7. /\ values \in [ColumnsOf(table) -> Value]
      /\ \A c \in ColumnsOf(table) :
           \/ values[c] = row.values[c]
           \/ c \in changes(row) /\ values[c] = rekey(row.values[c])
  BY <1>4, <1>5
<1> HIDE DEF row, values
<1>8. PICK t \in Table : t = table BY <1>2
<1>9. PICK i \in DOMAIN rows[t] : i = id BY <1>3, <1>8
<1>10. PICK new \in [ColumnsOf(t) -> Value] : new = values BY <1>7, <1>8
<1>11. \A c \in ColumnsOf(t) : new[c].text = row.values[c].text
  BY <1>5, <1>7, <1>8, <1>10
<1>12. \A c \in ColumnsOf(t) : Better(rows[t][i].values[c], new[c])
  <2>1. ASSUME NEW c \in ColumnsOf(t) PROVE Better(row.values[c], new[c])
    <3>1. CASE new[c] = row.values[c] BY <3>1 DEF Better
    <3>2. CASE c \in changes(row) /\ new[c] = rekey(row.values[c])
      <4>1. new[c].text >= row.values[c].text BY <1>5, <3>2 DEF Value
      <4> QED BY <1>5, <3>2, <4>1 DEF Better
    <3> QED BY <1>7, <1>8, <1>10, <3>1, <3>2
  <2> QED BY <1>8, <1>9, <2>1 DEF row
<1>13. Writes(t, i, new) BY <1>6, <1>8, <1>9, <1>10 DEF Writes
<1>14. /\ \A u \in Table : DOMAIN rows'[u] = DOMAIN rows[u]
       /\ \A u \in Table : \A j \in DOMAIN rows[u] : u # t \/ j # i => rows'[u][j] = rows[u][j]
       /\ rows'[t][i].values = new /\ rows'[t][i].of = rows[t][i].of
  BY <1>1, <1>2, <1>12, <1>13, RowWritten
<1>15. \A u \in Table : \A j \in DOMAIN rows[u] :
         /\ rows'[u][j].of = rows[u][j].of
         /\ \A c \in ColumnsOf(u) : rows'[u][j].values[c].text = rows[u][j].values[c].text
  <2> SUFFICES ASSUME NEW u \in Table, NEW j \in DOMAIN rows[u]
               PROVE  /\ rows'[u][j].of = rows[u][j].of
                      /\ \A c \in ColumnsOf(u) :
                           rows'[u][j].values[c].text = rows[u][j].values[c].text
    OBVIOUS
  <2>1. CASE u # t \/ j # i
    <3>1. rows'[u][j] = rows[u][j] BY <1>14, <2>1
    <3> QED BY <3>1
  <2>2. CASE u = t /\ j = i BY <1>8, <1>9, <1>11, <1>14, <2>2 DEF row
  <2> QED BY <2>1, <2>2
<1>16. /\ "transactions" \in Table /\ "transactionLogs" \in Table
       /\ "payload" \in ColumnsOf("transactions")
       /\ {"old_values", "new_values"} \subseteq ColumnsOf("transactionLogs")
  BY ColumnsOfTables DEF Table
<1>17. /\ \A of \in DOMAIN rows["transactions"] : TextOf(rows', of) = TextOf(rows, of)
       /\ \A j \in DOMAIN rows["transactionLogs"] :
            /\ rows'["transactionLogs"][j].of = rows["transactionLogs"][j].of
            /\ OldText(rows'["transactionLogs"][j]) = OldText(rows["transactionLogs"][j])
            /\ NewText(rows'["transactionLogs"][j]) = NewText(rows["transactionLogs"][j])
  BY <1>15, <1>16 DEF TextOf, OldText, NewText
<1> QED BY <1>14, <1>16, <1>17, SameChains

(* An update adds a link.                                                   *)
LEMMA UpdateGrowsChain ==
    ASSUME IInv, ChainsOf(rows), NEW w \in Writer, UpdateTransaction(w)
    PROVE  ChainsOf(rows')
<1> DEFINE l == "transactionLogs"
           t == "transactions"
<1>1. TypeOK /\ Held /\ IsDatabase(rows) BY DEF IInv, TypeOK
<1>2. UNCHANGED keys /\ writer[w].phase = "write" BY DEF UpdateTransaction
<1>3. canStore /\ writer[w].id \in DOMAIN rows[t] BY <1>1, <1>2 DEF Held, WritersHold
<1>4. CASE rows' = rows BY <1>4
<1>5. CASE rows' # rows
  <2>1. PICK of \in DOMAIN rows[t] : of = writer[w].id BY <1>3
  <2>2. PICK old \in Value, new \in Value, v \in Value :
          \E logs, pruned, kept : Updates(of, old, new, v, logs, pruned, kept)
    BY <1>5, <2>1, PaymentUpdated
  <2>3. PICK more, pruned, kept : Updates(of, old, new, v, more, pruned, kept) BY <2>2
  <2>4. /\ DOMAIN rows'[t] = DOMAIN rows[t]
        /\ \A j \in DOMAIN rows[t] \ {of} : rows'[t][j] = rows[t][j]
        /\ rows'[t][of].values["payload"] = v
        /\ rows'[l] = kept
    BY <1>2, <1>3, <2>3, UpdateWritten
  <2>5. PICK logs : logs = rows[l] OBVIOUS
  <2>6. DOMAIN logs \subseteq Nat \ {0} /\ IsFiniteSet(DOMAIN logs) BY <1>1, <2>5, LogIds
  <2> DEFINE i == newest(DOMAIN logs) + 1
             log == appendLog(old, new, of)
  <2>7. i \in Nat /\ \A j \in DOMAIN logs : j < i
    <3>1. newest(DOMAIN logs) \in Nat /\ \A j \in DOMAIN logs : j <= newest(DOMAIN logs)
      BY <2>6, NewestIsLast
    <3> QED BY <2>6, <3>1
  <2>8. log.of = of /\ OldText(log) = old.text /\ NewText(log) = new.text /\ v.text = new.text
    <3>1. store(old).text = old.text /\ store(new).text = new.text
      BY <1>1, <2>3, Stored DEF Updates
    <3>2. {"old_values", "new_values"} \subseteq ColumnsOf(l) BY ColumnsOfTables
    <3>3. log.values["old_values"] = store(old) /\ log.values["new_values"] = store(new)
      BY <3>2 DEF appendLog
    <3>4. v = store(new) BY <2>3 DEF Updates
    <3>5. log.of = of BY DEF appendLog
    <3> HIDE DEF log
    <3> QED BY <3>1, <3>3, <3>4, <3>5 DEF OldText, NewText
  <2>9. more = insert(l, i, log) BY <2>3, <2>5 DEF Updates, Appends
  <2> HIDE DEF i, log
  <2>10. /\ DOMAIN more = DOMAIN logs \cup {i} /\ more[i] = log
         /\ \A j \in DOMAIN logs : more[j] = logs[j]
    <3>1. ~(i < i) BY <2>7
    <3>2. i \notin DOMAIN logs BY <2>7, <3>1
    <3> QED BY <2>5, <2>9, <3>2 DEF insert
  <2>11. old.text = TextOf(rows, of) BY <2>3 DEF Updates, TextOf
  <2>12. ChainOf(kept, of, new.text) /\ Few(kept, of)
    <3>1. ChainOf(logs, of, old.text) /\ Few(logs, of) BY <2>5, <2>11 DEF ChainsOf
    <3>2. pruned = pruneTransactionLogs(more, of) /\ Keeps(more, pruned, kept) BY <2>3 DEF Updates
    <3>3. PICK k \in Nat : k = i BY <2>7
    <3>4. /\ DOMAIN logs \subseteq Nat /\ \A j \in DOMAIN logs : j < k
          /\ DOMAIN more = DOMAIN logs \cup {k}
          /\ more[k].of = of /\ OldText(more[k]) = old.text /\ NewText(more[k]) = new.text
      BY <2>6, <2>7, <2>8, <2>10, <3>3
    <3> QED BY <2>6, <2>10, <3>1, <3>2, <3>4, ChainGrows
  <2>13. DOMAIN kept = DOMAIN more \ pruned /\ \A j \in DOMAIN kept : kept[j] = more[j]
    BY <2>3 DEF Updates, Keeps
  <2>14. \A j \in DOMAIN kept : kept[j].of \in DOMAIN rows[t]
    BY <2>5, <2>8, <2>10, <2>13 DEF ChainsOf
  <2>15. ASSUME NEW other \in DOMAIN rows[t], other # of
         PROVE  ChainOf(kept, other, TextOf(rows', other)) /\ Few(kept, other)
    <3>1. LogsOf(kept, other) = LogsOf(logs, other)
      <4>1. \A j \in pruned : more[j].of = of BY <2>3 DEF Updates, pruneTransactionLogs
      <4> QED BY <2>8, <2>10, <2>13, <2>15, <4>1 DEF LogsOf
    <3>2. \A j \in LogsOf(logs, other) : kept[j] = logs[j] BY <2>10, <2>13, <3>1 DEF LogsOf
    <3>3. TextOf(rows', other) = TextOf(rows, other) BY <2>4, <2>15 DEF TextOf
    <3>4. ChainOf(logs, other, TextOf(rows, other)) /\ Few(logs, other) BY <2>5 DEF ChainsOf
    <3> QED BY <3>1, <3>2, <3>3, <3>4, SameChain
  <2>16. TextOf(rows', of) = new.text BY <2>4, <2>8 DEF TextOf
  <2>17. ASSUME NEW other \in DOMAIN rows[t]
         PROVE  ChainOf(kept, other, TextOf(rows', other)) /\ Few(kept, other)
    BY <2>12, <2>15, <2>16
  <2> QED BY <2>4, <2>14, <2>17 DEF ChainsOf
<1> QED BY <1>4, <1>5

LEMMA ChainsKept == IInv /\ ChainsOf(rows) /\ [Next]_vars => ChainsOf(rows')
<1> SUFFICES ASSUME IInv, ChainsOf(rows), [Next]_vars PROVE ChainsOf(rows') OBVIOUS
<1>1. CASE rows' = rows BY <1>1
<1>2. CASE WriteRow BY <1>2, RotationLeavesChains
<1>3. ASSUME NEW w \in Writer, UpdateTransaction(w) PROVE ChainsOf(rows') BY <1>3, UpdateGrowsChain
<1>4. CASE UpdateAttempt \/ CreateMetadata \/ \E p \in Pruner : Purge(p)
  BY <1>4, OthersLeaveChains
<1>5. CASE Rotate \/ CandidateIds \/ LockRow \/ Die \/ UNCHANGED vars
  BY <1>1, <1>5 DEF Rotate, CandidateIds, LockRow, Die, vars
<1>6. ASSUME NEW w \in Writer, LockTransaction(w) PROVE ChainsOf(rows')
  BY <1>1, <1>6 DEF LockTransaction
<1>7. ASSUME NEW p \in Pruner, SelectStale(p) PROVE ChainsOf(rows')
  BY <1>1, <1>7 DEF SelectStale
<1> QED BY <1>2, <1>3, <1>4, <1>5, <1>6, <1>7 DEF Next, Rotation, Update, Prune

LEMMA ChainsAtFirst == Init => ChainsOf(rows)
<1> SUFFICES ASSUME Init PROVE ChainsOf(rows) OBVIOUS
<1>1. PICK tables \in InitialRows : tables = rows BY DEF Init
<1>2. IsDatabase(tables) BY RowsAssumption
<1>3. /\ \A i \in DOMAIN tables["transactionLogs"] :
            tables["transactionLogs"][i].of \in DOMAIN tables["transactions"]
      /\ Chained(tables)
      /\ \A of \in DOMAIN tables["transactions"] : Few(tables["transactionLogs"], of)
  BY LogsAssumption DEF Few
<1>4. \A of \in DOMAIN tables["transactions"] : ChainOf(tables["transactionLogs"], of, TextOf(tables, of))
  BY <1>2, <1>3, ChainedByFollowing
<1>5. ChainsOf(tables) BY <1>3, <1>4 DEF ChainsOf
<1> QED BY <1>1, <1>5

---------------------------------------------------------------------------
LEMMA StepFine == IInv /\ [Next]_vars => Fine
<1> SUFFICES ASSUME IInv, [Next]_vars PROVE Fine OBVIOUS
<1>1. CASE Rotate BY <1>1, RotateFine
<1>2. CASE CandidateIds BY <1>2, CandidateIdsFine
<1>3. CASE LockRow BY <1>3, LockRowFine
<1>4. CASE WriteRow BY <1>4, WriteRowFine
<1>5. CASE Die BY <1>5, DieFine
<1>6. ASSUME NEW w \in Writer, Update(w) PROVE Fine
  <2>1. CASE LockTransaction(w) BY <2>1, LockTransactionFine
  <2>2. CASE UpdateTransaction(w) BY <2>2, UpdateTransactionFine
  <2> QED BY <1>6, <2>1, <2>2 DEF Update
<1>7. CASE UpdateAttempt BY <1>7, UpdateAttemptFine
<1>8. CASE CreateMetadata BY <1>8, CreateMetadataFine
<1>9. ASSUME NEW p \in Pruner, Prune(p) PROVE Fine
  <2>1. CASE SelectStale(p) BY <2>1, SelectStaleFine
  <2>2. CASE Purge(p) BY <2>2, PurgeFine
  <2> QED BY <1>9, <2>1, <2>2 DEF Prune
<1>10. CASE UNCHANGED vars BY <1>10, StutterFine
<1> QED BY <1>1, <1>2, <1>3, <1>4, <1>5, <1>6, <1>7, <1>8, <1>9, <1>10 DEF Next, Rotation

LEMMA Invariance == Spec => []IInv
<1>1. IInv /\ [Next]_vars => IInv' BY StepFine DEF Fine
<1> QED BY InitFine, <1>1, PTL DEF Spec

(* Every part of the state keeps its shape: the tables stay tables of       *)
(* encrypted columns whatever rotates, writes, prunes or dies.              *)
THEOREM TypeCorrect == Spec => []TypeOK
<1>1. IInv => TypeOK BY DEF IInv
<1> QED BY Invariance, <1>1, PTL

(* After exit code 0 of rotate-key no envelope needs the old key: for any   *)
(* tables, page size, number of writers, pruners and earlier runs           *)
(* (rotate-encryption-key.ts, rotate-key.ts).                               *)
THEOREM ExitZeroMeansRotatedHolds == Spec => []ExitZeroMeansRotated
<1>1. IInv => ExitZeroMeansRotated BY DEF IInv
<1> QED BY Invariance, <1>1, PTL

(* No step brings back an overwritten content or makes a readable value     *)
(* unreadable, whatever interleaves with the rotation (withLockedRow).      *)
THEOREM ContentKeptHolds == Spec => ContentKept
<1> DEFINE A == \A t \in Table : \A i \in DOMAIN rows[t] \cap DOMAIN rows'[t] : \A c \in ColumnsOf(t) :
                  LET old == rows[t][i].values[c]
                      new == rows'[t][i].values[c]
                  IN  new.text >= old.text /\ (read(old) => read(new))
<1>1. IInv /\ [Next]_vars => [A]_rows BY StepFine DEF Fine, Kept
<1>2. ContentKept <=> [][A]_rows BY DEF ContentKept
<1> HIDE DEF A
<1> QED BY Invariance, <1>1, <1>2, PTL DEF Spec

(* The log of a payment leads from each content to the next, down to the    *)
(* one that is stored: whatever rotates or is pruned, and whoever else      *)
(* updates (transaction.ts appendLog, transaction-log-pruning.ts).          *)
THEOREM LogChainHolds == Spec => []LogChain
<1> DEFINE C == ChainsOf(rows)
<1>1. Init => C BY ChainsAtFirst
<1>2. IInv /\ C /\ [Next]_vars => C' BY ChainsKept
<1>3. IInv /\ C => LogChain
  <2>1. IInv => IsDatabase(rows) BY DEF IInv, TypeOK
  <2>2. C => /\ \A i \in DOMAIN rows["transactionLogs"] :
                  rows["transactionLogs"][i].of \in DOMAIN rows["transactions"]
             /\ \A of \in DOMAIN rows["transactions"] :
                  ChainOf(rows["transactionLogs"], of, TextOf(rows, of))
    BY DEF ChainsOf
  <2>3. IsDatabase(rows) /\ C => Chained(rows) BY <2>2, ChainedByFollowing
  <2> QED BY <2>1, <2>3 DEF LogChain
<1> HIDE DEF C
<1> QED BY Invariance, <1>1, <1>2, <1>3, PTL DEF Spec
============================================================================
