---------------------------- MODULE StorageProofs ----------------------------
(***************************************************************************)
(* What is committed changes as if each transaction had run alone, whatever *)
(* the statements interleave with, and nobody waits for ever: for any number*)
(* of handlers, sessions and callbacks, on every adapter whose locking reads*)
(* return the row they locked.                                             *)
(***************************************************************************)
EXTENDS StorageTransactions, Reconciliation, FiniteSetTheorems, WellFoundedInduction, TLAPS

(* Every adapter but Prisma on MySQL.                                       *)
NoStaleReads == \A a \in Adapters : ~(a.lockThenRead /\ a.repeatableRead)

---------------------------------------------------------------------------
(* The inductive invariant: what each transaction holds, by its phase.      *)

Operation == {"callback", "fail", "retry", "cancel", "reconcile"}

HeldRows == [locks : SUBSET Session, parentLock : BOOLEAN, attempt : AttemptRow \cup {Null},
             snapshot : TransactionRow \cup {Null}, number : Nat, targets : SUBSET Session,
             written : [Session -> AttemptRow \cup {Null}]]

Task == [op : Operation \cup {Null}, cb : Callbacks \cup {Null}, read : TransactionRow \cup {Null},
         session : Session \cup {Null}, tries : Nat, phase : Phase, held : HeldRows]

TypeOK ==
    /\ transaction \in TransactionRow
    /\ attempts \in [Session -> AttemptRow \cup {Null}]
    /\ tx \in [Handler -> Task]
    /\ adapter \in Adapters

(* The number was the next one when it was read.                            *)
Fits(number) == number = nextAttemptNumber(attempts) \/ number \in NumbersOf(attempts)

(* The rows that a retry supersedes.                                        *)
Live(s) == s \in Submitted /\ ~attempts[s].superseded

(* A transaction that has inserted a row and not yet committed it.          *)
Inserting(t) ==
    t.phase = "lockParent" /\ t.op \in {"callback", "retry"} /\ t.session \notin Submitted

(* What an operation works on.                                              *)
TaskOK(t) ==
    /\ t.phase \notin {"idle", "ended"} =>
         \/ t.op \in {"callback", "fail"} /\ t.cb \in Callbacks /\ t.session = t.cb.session
         \/ t.op = "retry" /\ t.session \in Session
         \/ t.op \in {"cancel", "reconcile"} /\ t.phase \in {"begin", "lockParent"}
    /\ t.phase \in {"lockAttempt", "lockLegacy", "insertBackfill", "relock"} => t.op = "callback"
    /\ t.phase = "failAttempt" => t.op = "fail"
    /\ t.phase \in {"ensure", "number", "supersede", "insert"} => t.op = "retry"
    /\ t.op = "fail" /\ t.phase \notin {"idle", "ended"} => t.session \in Submitted
    /\ t.op = "retry" /\ t.phase \notin {"idle", "ensure", "ended"} => Submitted # {}
    /\ t.phase = "ensure" => /\ t.read \in TransactionRow /\ t.read.session = t.session
                             /\ Submitted = {} => t.session = FirstSession

FreePhase == {"idle", "ended", "ensure", "begin", "lockAttempt", "lockLegacy", "failAttempt", "number"}

FreeOK(t) ==
    t.phase \in FreePhase \/ (t.phase = "lockParent" /\ t.op \in {"cancel", "reconcile"})
    => t.held = Closed

BackfillOK(t) ==
    t.phase \in {"insertBackfill", "relock"} =>
      /\ t.held.parentLock /\ t.held.locks = {} /\ t.held.written = NoRows
      /\ transaction.session = t.session
      /\ t.held.number # 0 /\ Fits(t.held.number)

(* Until another row is inserted, the rows in reach are all that are live.  *)
Reaches(number, sessions) ==
    number = nextAttemptNumber(attempts) => \A s \in Session : Live(s) => s \in sessions

SupersedeOK(t) ==
    t.phase = "supersede" =>
      /\ ~t.held.parentLock /\ t.held.locks = {} /\ t.held.written = NoRows
      /\ t.held.number # 0 /\ Fits(t.held.number)
      /\ t.held.targets \subseteq Submitted
      /\ Reaches(t.held.number, t.held.targets)
      /\ adapter.repeatableRead => FirstSession \in t.held.targets

Superseded(s, locks) == IF Live(s) /\ s \in locks THEN supersede(attempts[s]) ELSE Null

InsertOK(t) ==
    t.phase = "insert" =>
      /\ ~t.held.parentLock /\ t.held.locks \subseteq Submitted
      /\ t.held.number # 0 /\ Fits(t.held.number)
      /\ Reaches(t.held.number, t.held.locks)
      /\ adapter.repeatableRead => FirstSession \in t.held.locks
      /\ t.held.written = [s \in Session |-> Superseded(s, t.held.locks)]

Locked(t) == /\ t.session \in Submitted
             /\ t.held.attempt = attempts[t.session]
             /\ t.held.written = NoRows

Backfilled(t) == /\ t.session \notin Submitted
                 /\ t.held.parentLock
                 /\ transaction.session = t.session
                 /\ t.held.number = nextAttemptNumber(attempts)
                 /\ t.held.attempt = createFromTransaction(transaction, t.held.number)
                 /\ t.held.written = [NoRows EXCEPT ![t.session] = t.held.attempt]

CallbackOK(t) ==
    t.phase = "lockParent" /\ t.op = "callback" =>
      t.held.locks = {t.session} /\ (Locked(t) \/ Backfilled(t))

FailOK(t) ==
    t.phase = "lockParent" /\ t.op = "fail" =>
      /\ ~t.held.parentLock /\ t.held.locks = {t.session}
      /\ shouldPropagate(attempts[t.session], "failed")
      /\ t.held.written = [NoRows EXCEPT ![t.session] =
                             attemptChangesFromCallback(attempts[t.session], t.cb, "failed")]

RetryOK(t) ==
    t.phase = "lockParent" /\ t.op = "retry" =>
      /\ ~t.held.parentLock
      /\ t.session \notin Submitted /\ t.session \in t.held.locks
      /\ t.held.locks \subseteq Submitted \cup {t.session}
      /\ t.held.number = nextAttemptNumber(attempts)
      /\ Reaches(t.held.number, t.held.locks)
      /\ t.held.written = [s \in Session |-> IF s = t.session THEN createForPayment(t.held.number)
                                             ELSE Superseded(s, t.held.locks)]

HandlerOK(t) ==
    /\ TaskOK(t) /\ FreeOK(t) /\ BackfillOK(t) /\ SupersedeOK(t) /\ InsertOK(t)
    /\ CallbackOK(t) /\ FailOK(t) /\ RetryOK(t)

(* Row locks, and the lock of the parent, have one holder.                  *)
Apart(held, other) ==
    held.locks \cap other.locks = {} /\ ~(held.parentLock /\ other.parentLock)

Exclusive == \A h, g \in Handler : h # g => Apart(tx[h].held, tx[g].held)

OneInserter == \A h, g \in Handler : Inserting(tx[h]) /\ Inserting(tx[g]) => h = g

FirstOK ==
    /\ Submitted = {} => transaction.session = FirstSession
    /\ Submitted # {} => FirstSession \in Submitted

HandlersOK == \A h \in Handler : HandlerOK(tx[h])

(* The rows that are committed.                                             *)
RowsOK ==
    /\ transaction \in Rows!TransactionRow
    /\ attempts \in [Session -> Rows!AttemptRow \cup {Null}]

HasCurrent == Rows!Submitted # {} => \E s \in Rows!Submitted : ~attempts[s].superseded

(* The parent names an attempt, unless the payment has none.                *)
NamesAttempt == Rows!Submitted # {} => transaction.session \in Rows!Submitted

RowsInv == RowsOK /\ Rows!NumberedAttempts /\ HasCurrent /\ NamesAttempt

IInv ==
    /\ RowsInv
    /\ TypeOK /\ ~StaleReads
    /\ HandlersOK
    /\ Exclusive /\ OneInserter /\ FirstOK

---------------------------------------------------------------------------
(* The transactions of PaymentRows, each alone: what they do to the rows.   *)

(* What PaymentRows assumes of its constants, in its own names.             *)
LEMMA RowsAssumptions ==
    /\ \A cb \in Callbacks : /\ cb.session \in Session
                             /\ cb.status \in {"pending", "completed", "failed"}
    /\ Null \notin Rows!GatewayId \cup Rows!AttemptRow \cup Session
                   \cup Rows!TransactionRow
    /\ IsFiniteSet(Session) /\ FirstSession \in Session
BY CallbackAssumption, NullAssumption, SessionAssumption
DEF Rows!TransactionRow, TransactionRow, Rows!AttemptRow, AttemptRow,
    Rows!Status, Status, Rows!GatewayId, GatewayId

(* The next number is above all others, when one row is current.            *)
LEMMA NextNumberIsAbove ==
    ASSUME RowsInv
    PROVE  /\ Rows!nextAttemptNumber(attempts) \in Nat \ {0}
           /\ \A s \in Rows!Submitted : attempts[s].number < Rows!nextAttemptNumber(attempts)
<1> DEFINE numbers == Rows!NumbersOf(attempts)
<1>1. numbers = {attempts[s].number : s \in Rows!Submitted} BY DEF Rows!NumbersOf, Rows!Submitted
<1>2. \A s \in Rows!Submitted : attempts[s] \in Rows!AttemptRow BY DEF RowsInv, RowsOK, Rows!Submitted
<1>3. numbers \subseteq Nat \ {0} BY <1>1, <1>2 DEF Rows!AttemptRow
<1>4. CASE numbers = {}
  <2>1. Rows!Submitted = {} BY <1>4, <1>1
  <2>2. Rows!nextAttemptNumber(attempts) = 1 BY <1>4 DEF Rows!nextAttemptNumber
  <2> QED BY <2>1, <2>2
<1>5. CASE numbers # {}
  <2>1. Rows!Submitted # {} BY <1>5, <1>1
  <2>2. PICK s \in Rows!Submitted : ~attempts[s].superseded BY <2>1 DEF RowsInv, HasCurrent
  <2>3. \A t \in Rows!Submitted : ~(attempts[t].number > attempts[s].number)
    BY <2>2 DEF RowsInv, Rows!NumberedAttempts
  <2>4. \A m \in numbers : m <= attempts[s].number BY <2>3, <1>1, <1>2, <1>3 DEF Rows!AttemptRow
  <2>5. attempts[s].number \in numbers BY <1>1
  <2> DEFINE top == CHOOSE n \in numbers : \A m \in numbers : m <= n
  <2>6. top \in numbers /\ \A m \in numbers : m <= top BY <2>4, <2>5
  <2>7. Rows!nextAttemptNumber(attempts) = 1 + top BY <1>5 DEF Rows!nextAttemptNumber
  <2> HIDE DEF top
  <2>8. \A m \in numbers : m < 1 + top BY <2>6, <1>3
  <2>9. top \in Nat \ {0} BY <2>6, <1>3
  <2> QED BY <2>7, <2>8, <2>9, <1>1
<1> QED BY <1>4, <1>5

(* A callback changes neither the number nor the superseded flag.           *)
LEMMA ChangesKeepPlace ==
    ASSUME NEW row \in Rows!AttemptRow, NEW cb \in Callbacks, NEW status \in Rows!Status
    PROVE  /\ Rows!attemptChangesFromCallback(row, cb, status) \in Rows!AttemptRow
           /\ Rows!attemptChangesFromCallback(row, cb, status).number = row.number
           /\ Rows!attemptChangesFromCallback(row, cb, status).superseded = row.superseded
<1>1. cb.status \in Rows!Status /\ cb.id \in Rows!GatewayId BY RowsAssumptions DEF Rows!Status, Rows!GatewayId
<1> QED BY <1>1 DEF Rows!attemptChangesFromCallback, Rows!AttemptRow

(* What is written on a parent leaves it a row, of the session written.     *)
LEMMA ParentIsRow ==
    ASSUME NEW row \in Rows!TransactionRow
    PROVE  /\ \A cb \in Callbacks, status \in Rows!Status :
                 /\ Rows!Changed(row, Rows!callbackChanges(cb, status)) \in Rows!TransactionRow
                 /\ Rows!Changed(row, Rows!callbackChanges(cb, status)).session = cb.session
           /\ \A s \in Session : /\ Rows!Changed(row, Rows!retryChanges(s)) \in Rows!TransactionRow
                                 /\ Rows!Changed(row, Rows!retryChanges(s)).session = s
           /\ Rows!Changed(row, Rows!cancelChanges) \in Rows!TransactionRow
           /\ Rows!Changed(row, Rows!cancelChanges).session = row.session
           /\ \A status \in Rows!Status :
                 /\ Rows!Changed(row, Rows!reconcileChanges(status)) \in Rows!TransactionRow
                 /\ Rows!Changed(row, Rows!reconcileChanges(status)).session = row.session
<1>1. row = [session |-> row.session, status |-> row.status, id |-> row.id, message |-> row.message]
      /\ row.session \in Session /\ row.status \in Rows!Status /\ row.id \in Rows!GatewayId \cup {Null}
      /\ row.message \in Rows!Status \cup {Null}
  BY DEF Rows!TransactionRow
<1>2. DOMAIN row = {"session", "status", "id", "message"} BY <1>1
<1>3. ASSUME NEW cb \in Callbacks, NEW status \in Rows!Status
      PROVE  Rows!Changed(row, Rows!callbackChanges(cb, status)) = Rows!callbackChanges(cb, status)
  BY <1>2 DEF Rows!Changed, Rows!callbackChanges
<1>4. ASSUME NEW cb \in Callbacks, NEW status \in Rows!Status
      PROVE  /\ Rows!callbackChanges(cb, status) \in Rows!TransactionRow
             /\ Rows!callbackChanges(cb, status).session = cb.session
  <2>1. /\ cb.session \in Session /\ cb.status \in Rows!Status /\ cb.id \in Rows!GatewayId
    BY RowsAssumptions DEF Rows!Status, Rows!GatewayId
  <2> QED BY <2>1 DEF Rows!callbackChanges, Rows!TransactionRow
<1>5. ASSUME NEW s \in Session PROVE Rows!Changed(row, Rows!retryChanges(s)) = Rows!retryChanges(s)
  BY <1>2 DEF Rows!Changed, Rows!retryChanges
<1>6. ASSUME NEW s \in Session
      PROVE  Rows!retryChanges(s) \in Rows!TransactionRow /\ Rows!retryChanges(s).session = s
  BY DEF Rows!retryChanges, Rows!TransactionRow, Rows!Status
<1>7. Rows!Changed(row, Rows!cancelChanges)
        = [session |-> row.session, status |-> "cancelled", id |-> row.id, message |-> "cancelled"]
  BY <1>1, <1>2 DEF Rows!Changed, Rows!cancelChanges
<1>8. ASSUME NEW status \in Rows!Status
      PROVE  Rows!Changed(row, Rows!reconcileChanges(status))
               = [session |-> row.session, status |-> status, id |-> row.id, message |-> row.message]
  BY <1>1, <1>2 DEF Rows!Changed, Rows!reconcileChanges
<1>9. Rows!Changed(row, Rows!cancelChanges) \in Rows!TransactionRow
      /\ Rows!Changed(row, Rows!cancelChanges).session = row.session
  BY <1>1, <1>7 DEF Rows!TransactionRow, Rows!Status
<1>10. \A status \in Rows!Status :
          /\ Rows!Changed(row, Rows!reconcileChanges(status)) \in Rows!TransactionRow
          /\ Rows!Changed(row, Rows!reconcileChanges(status)).session = row.session
  BY <1>1, <1>8 DEF Rows!TransactionRow
<1> QED BY <1>3, <1>4, <1>5, <1>6, <1>9, <1>10

(* A row written over an attempt, or as the first one, keeps the invariant. *)
LEMMA RowsWriteKeeps ==
    ASSUME RowsInv, NEW s \in Session, NEW row \in Rows!AttemptRow,
           \/ s \in Rows!Submitted /\ row.number = attempts[s].number /\ row.superseded = attempts[s].superseded
           \/ Rows!Submitted = {} /\ ~row.superseded,
           attempts' = [attempts EXCEPT ![s] = row],
           transaction' \in Rows!TransactionRow,
           transaction'.session \in {transaction.session, s},
           Rows!Submitted = {} => transaction'.session = s
    PROVE  RowsInv'
<1>1. attempts' \in [Session -> Rows!AttemptRow \cup {Null}] /\ attempts'[s] = row
      /\ \A t \in Session \ {s} : attempts'[t] = attempts[t]
  BY DEF RowsInv, RowsOK
<1>2. row # Null BY RowsAssumptions
<1>3. Rows!Submitted' = Rows!Submitted \cup {s} BY <1>1, <1>2 DEF Rows!Submitted
<1>4. CASE s \in Rows!Submitted /\ row.number = attempts[s].number /\ row.superseded = attempts[s].superseded
  <2>1. Rows!Submitted' = Rows!Submitted BY <1>3, <1>4
  <2>2. \A t \in Rows!Submitted : attempts'[t].number = attempts[t].number
                             /\ attempts'[t].superseded = attempts[t].superseded
    BY <1>1, <1>4 DEF Rows!Submitted
  <2>3. Rows!NumberedAttempts' BY <2>1, <2>2 DEF RowsInv, Rows!NumberedAttempts
  <2>4. HasCurrent' BY <2>1, <2>2 DEF RowsInv, HasCurrent
  <2>5. NamesAttempt' BY <2>1, <1>4 DEF RowsInv, NamesAttempt
  <2> QED BY <1>1, <2>3, <2>4, <2>5 DEF RowsInv, RowsOK
<1>5. CASE Rows!Submitted = {} /\ ~row.superseded
  <2>1. Rows!Submitted' = {s} BY <1>3, <1>5
  <2>2. attempts'[s].number \in Nat /\ ~attempts'[s].superseded BY <1>1, <1>5 DEF Rows!AttemptRow
  <2>3. Rows!NumberedAttempts'
    <3>1. ~(attempts'[s].number > attempts'[s].number) BY <2>2
    <3> QED BY <2>1, <2>2, <3>1 DEF Rows!NumberedAttempts
  <2>4. HasCurrent' BY <2>1, <2>2 DEF HasCurrent
  <2>5. NamesAttempt' BY <2>1, <1>5 DEF NamesAttempt
  <2> QED BY <1>1, <2>3, <2>4, <2>5 DEF RowsInv, RowsOK
<1> QED BY <1>4, <1>5

LEMMA RowsInitEstablishes == Rows!Init => RowsInv
<1> SUFFICES ASSUME Rows!Init PROVE RowsInv OBVIOUS
<1>1. transaction \in Rows!TransactionRow /\ transaction.session = FirstSession
  BY RowsAssumptions DEF Rows!Init, Rows!TransactionRow, Rows!Status
<1>2. Rows!createForPayment(1) \in Rows!AttemptRow /\ Rows!createForPayment(1).number = 1
      /\ ~Rows!createForPayment(1).superseded /\ Rows!createForPayment(1) # Null
  <2>1. Rows!createForPayment(1) \in Rows!AttemptRow BY DEF Rows!createForPayment, Rows!AttemptRow, Rows!Status
  <2>2. Null \notin Rows!AttemptRow BY RowsAssumptions
  <2> QED BY <2>1, <2>2 DEF Rows!createForPayment
<1>3. CASE attempts = [s \in Session |-> Null]
  <2>1. Rows!Submitted = {} BY <1>3 DEF Rows!Submitted
  <2> QED BY <1>1, <1>3, <2>1 DEF RowsInv, RowsOK, Rows!NumberedAttempts, HasCurrent, NamesAttempt
<1>4. CASE attempts = [s \in Session |-> IF s = FirstSession THEN Rows!createForPayment(1) ELSE Null]
  <2>1. Rows!Submitted = {FirstSession} /\ attempts[FirstSession] = Rows!createForPayment(1)
    BY <1>2, <1>4, RowsAssumptions DEF Rows!Submitted
  <2>2. attempts \in [Session -> Rows!AttemptRow \cup {Null}] BY <1>2, <1>4
  <2>3. Rows!NumberedAttempts
    <3>1. ~(attempts[FirstSession].number > attempts[FirstSession].number) BY <2>1, <1>2
    <3> QED BY <2>1, <1>2, <3>1 DEF Rows!NumberedAttempts
  <2>4. HasCurrent /\ NamesAttempt BY <2>1, <1>1, <1>2 DEF HasCurrent, NamesAttempt
  <2> QED BY <1>1, <2>2, <2>3, <2>4 DEF RowsInv, RowsOK
<1> QED BY <1>3, <1>4 DEF Rows!Init

(* What a callback settles.                                                 *)
LEMMA RowsSettleKeeps ==
    ASSUME RowsInv, NEW cb \in Callbacks, NEW row \in Rows!AttemptRow, Rows!Settle(cb, row),
           \/ cb.session \in Rows!Submitted /\ row = attempts[cb.session]
           \/ Rows!Submitted = {} /\ transaction.session = cb.session /\ ~row.superseded
    PROVE  RowsInv'
<1>1. cb.session \in Session /\ cb.status \in Rows!Status BY RowsAssumptions DEF Rows!Status
<1>2. transaction \in Rows!TransactionRow BY DEF RowsInv, RowsOK
<1> DEFINE changed == Rows!attemptChangesFromCallback(row, cb, cb.status)
           parent  == Rows!Changed(transaction, Rows!callbackChanges(cb, cb.status))
<1>3. changed \in Rows!AttemptRow /\ changed.number = row.number /\ changed.superseded = row.superseded
  BY <1>1, ChangesKeepPlace
<1>4. parent \in Rows!TransactionRow /\ parent.session = cb.session
  <2> DEFINE after(st) == Rows!Changed(transaction, Rows!callbackChanges(cb, st))
  <2>1. \A st \in Rows!Status : after(st) \in Rows!TransactionRow /\ after(st).session = cb.session
    BY <1>2, ParentIsRow
  <2>2. parent = after(cb.status) OBVIOUS
  <2> HIDE DEF after, parent
  <2> QED BY <1>1, <2>1, <2>2
<1>5. CASE Rows!isReplayCallback(row, cb)
  <2>1. attempts' = [attempts EXCEPT ![cb.session] = row] /\ transaction' = transaction
    BY <1>5 DEF Rows!Settle
  <2> QED BY <1>1, <1>2, <2>1, RowsWriteKeeps
<1>6. CASE ~Rows!isReplayCallback(row, cb)
  <2>1. attempts' = [attempts EXCEPT ![cb.session] = changed] BY <1>6 DEF Rows!Settle
  <2>2. transaction' \in {parent, transaction} BY <1>6 DEF Rows!Settle
  <2> HIDE DEF changed, parent
  <2>3. transaction' \in Rows!TransactionRow /\ transaction'.session \in {transaction.session, cb.session}
    BY <1>2, <1>4, <2>2
  <2>4. Rows!Submitted = {} => transaction'.session = cb.session BY <1>4, <2>2
  <2> QED BY <1>1, <1>3, <2>1, <2>3, <2>4, RowsWriteKeeps
<1> QED BY <1>5, <1>6

LEMMA CreatedFromTransaction ==
    ASSUME NEW row \in Rows!TransactionRow, NEW number \in Nat \ {0}
    PROVE  /\ Rows!createFromTransaction(row, number) \in Rows!AttemptRow
           /\ ~Rows!createFromTransaction(row, number).superseded
BY DEF Rows!createFromTransaction, Rows!AttemptRow, Rows!TransactionRow

(* A retry supersedes all others and is numbered above them.                *)
LEMMA RowsRetryKeeps ==
    ASSUME RowsInv, NEW s \in Session, Rows!Retry(s)
    PROVE  RowsInv'
<1> DEFINE number == Rows!nextAttemptNumber(attempts)
           created == Rows!createForPayment(number)
<1>1. number \in Nat \ {0} /\ \A t \in Rows!Submitted : attempts[t].number < number
  BY NextNumberIsAbove
<1>2. created \in Rows!AttemptRow /\ created.number = number /\ ~created.superseded
  BY <1>1 DEF Rows!createForPayment, Rows!AttemptRow, Rows!Status
<1>3. \A t \in Rows!Submitted : /\ attempts[t] \in Rows!AttemptRow
                           /\ Rows!supersede(attempts[t]) \in Rows!AttemptRow
                           /\ Rows!supersede(attempts[t]).superseded
                           /\ Rows!supersede(attempts[t]).number = attempts[t].number
  BY DEF RowsInv, RowsOK, Rows!Submitted, Rows!supersede, Rows!AttemptRow
<1>4. s \notin Rows!Submitted
      /\ attempts' = [t \in Session |-> IF t = s THEN created
                        ELSE IF t \in Rows!Submitted THEN Rows!supersede(attempts[t]) ELSE Null]
      /\ transaction' = Rows!Changed(transaction, Rows!retryChanges(s))
  BY DEF Rows!Retry
<1> HIDE DEF number, created
<1>5. attempts' \in [Session -> Rows!AttemptRow \cup {Null}] BY <1>2, <1>3, <1>4
<1>6. attempts'[s] = created /\ \A t \in Rows!Submitted : attempts'[t] = Rows!supersede(attempts[t])
  BY <1>4 DEF Rows!Submitted
<1>7. Rows!Submitted' = Rows!Submitted \cup {s}
  BY <1>2, <1>3, <1>4, RowsAssumptions DEF Rows!Submitted
<1>8. transaction' \in Rows!TransactionRow /\ transaction'.session = s
  BY <1>4, ParentIsRow DEF RowsInv, RowsOK
<1>9. \A t \in Rows!Submitted : attempts'[t].number = attempts[t].number /\ attempts'[t].superseded
  BY <1>3, <1>6
<1>10. attempts'[s].number = number /\ ~attempts'[s].superseded BY <1>2, <1>6
<1>11. \A t \in Rows!Submitted : attempts[t].number \in Nat BY <1>3 DEF Rows!AttemptRow
<1>12. \A t, u \in Rows!Submitted' : t # u => attempts'[t].number # attempts'[u].number
  <2>1. \A t \in Rows!Submitted : attempts'[t].number < number /\ attempts'[t].number # number
    BY <1>1, <1>9, <1>11
  <2>2. \A t, u \in Rows!Submitted : t # u => attempts'[t].number # attempts'[u].number
    BY <1>9 DEF RowsInv, Rows!NumberedAttempts
  <2> QED BY <1>7, <1>10, <2>1, <2>2
<1>13. \A t \in Rows!Submitted' : attempts'[t].superseded
         <=> \E u \in Rows!Submitted' : attempts'[u].number > attempts'[t].number
  <2>1. \A t \in Rows!Submitted : attempts'[s].number > attempts'[t].number
    BY <1>1, <1>9, <1>10, <1>11
  <2>2. \A u \in Rows!Submitted' : ~(attempts'[u].number > attempts'[s].number)
    BY <1>1, <1>7, <1>9, <1>10, <1>11
  <2> QED BY <1>7, <1>9, <1>10, <2>1, <2>2
<1>14. Rows!NumberedAttempts' BY <1>12, <1>13 DEF Rows!NumberedAttempts
<1>15. HasCurrent' /\ NamesAttempt' BY <1>7, <1>8, <1>10 DEF HasCurrent, NamesAttempt
<1> QED BY <1>5, <1>8, <1>14, <1>15 DEF RowsInv, RowsOK

LEMMA RowsNextKeeps == RowsInv /\ [Rows!Next]_(Rows!rows) => RowsInv'
<1> SUFFICES ASSUME RowsInv, [Rows!Next]_(Rows!rows) PROVE RowsInv' OBVIOUS
<1>0. transaction \in Rows!TransactionRow /\ \A s \in Rows!Submitted : attempts[s] \in Rows!AttemptRow
  BY DEF RowsInv, RowsOK, Rows!Submitted
<1>1. ASSUME NEW cb \in Callbacks, Rows!Apply(cb) PROVE RowsInv'
  BY <1>0, <1>1, RowsSettleKeeps DEF Rows!Apply
<1>2. ASSUME NEW cb \in Callbacks, Rows!ApplyToLegacy(cb) PROVE RowsInv'
  <2>1. Rows!Submitted = {} BY <1>2 DEF Rows!ApplyToLegacy, RowsInv, NamesAttempt
  <2>2. Rows!nextAttemptNumber(attempts) \in Nat \ {0} BY NextNumberIsAbove
  <2> DEFINE row == Rows!createFromTransaction(transaction, Rows!nextAttemptNumber(attempts))
  <2>3. row \in Rows!AttemptRow /\ ~row.superseded BY <1>0, <2>2, CreatedFromTransaction
  <2>4. Rows!Settle(cb, row) /\ transaction.session = cb.session BY <1>2 DEF Rows!ApplyToLegacy
  <2> HIDE DEF row
  <2> QED BY <2>1, <2>3, <2>4, RowsSettleKeeps
<1>3. ASSUME NEW cb \in Callbacks, Rows!Fail(cb) PROVE RowsInv'
  <2>1. cb.session \in Rows!Submitted /\ cb.session \in Session BY <1>3, RowsAssumptions DEF Rows!Fail
  <2>2. "failed" \in Rows!Status BY DEF Rows!Status
  <2> DEFINE row == Rows!attemptChangesFromCallback(attempts[cb.session], cb, "failed")
             parent == Rows!Changed(transaction, Rows!callbackChanges(cb, "failed"))
  <2>3. row \in Rows!AttemptRow /\ row.number = attempts[cb.session].number
        /\ row.superseded = attempts[cb.session].superseded
    BY <1>0, <2>1, <2>2, ChangesKeepPlace
  <2>4. parent \in Rows!TransactionRow /\ parent.session = cb.session
    <3> DEFINE after(st) == Rows!Changed(transaction, Rows!callbackChanges(cb, st))
    <3>1. \A st \in Rows!Status : after(st) \in Rows!TransactionRow /\ after(st).session = cb.session
      BY <1>0, ParentIsRow
    <3>2. parent = after("failed") OBVIOUS
    <3> HIDE DEF after, parent, row
    <3> QED BY <2>2, <3>1, <3>2
  <2>5. attempts' = [attempts EXCEPT ![cb.session] = row] /\ transaction' \in {parent, transaction}
    BY <1>3 DEF Rows!Fail
  <2> HIDE DEF row, parent
  <2>6. transaction' \in Rows!TransactionRow /\ transaction'.session \in {transaction.session, cb.session}
    BY <1>0, <2>4, <2>5
  <2> QED BY <2>1, <2>3, <2>5, <2>6, RowsWriteKeeps
<1>4. ASSUME Rows!EnsureInitialAttempt PROVE RowsInv'
  <2>1. PICK read \in Rows!TransactionRow :
            /\ read.session = transaction.session
            /\ attempts' = [attempts EXCEPT ![read.session] = Rows!createFromTransaction(read, 1)]
    BY <1>4 DEF Rows!EnsureInitialAttempt
  <2>2. Rows!Submitted = {} /\ transaction' = transaction BY <1>4 DEF Rows!EnsureInitialAttempt
  <2> DEFINE row == Rows!createFromTransaction(read, 1)
  <2>3. row \in Rows!AttemptRow /\ ~row.superseded BY CreatedFromTransaction
  <2>4. read.session \in Session BY DEF Rows!TransactionRow
  <2>5. attempts' = [attempts EXCEPT ![read.session] = row] BY <2>1
  <2> HIDE DEF row
  <2> QED BY <1>0, <2>1, <2>2, <2>3, <2>4, <2>5, RowsWriteKeeps
<1>5. ASSUME NEW s \in Session, Rows!Retry(s) PROVE RowsInv' BY <1>5, RowsRetryKeeps
<1>6. ASSUME attempts' = attempts, transaction' \in Rows!TransactionRow,
             transaction'.session = transaction.session
      PROVE  RowsInv'
  BY <1>6 DEF RowsInv, RowsOK, Rows!NumberedAttempts, HasCurrent, NamesAttempt, Rows!Submitted
<1>7. ASSUME Rows!Cancel PROVE RowsInv' BY <1>0, <1>6, <1>7, ParentIsRow DEF Rows!Cancel
<1>8. ASSUME Rows!Reconcile PROVE RowsInv'
  <2>1. {"completed", "failed"} \subseteq Rows!Status BY DEF Rows!Status
  <2> QED BY <1>0, <1>6, <1>8, <2>1, ParentIsRow DEF Rows!Reconcile
<1>9. CASE UNCHANGED Rows!rows BY <1>0, <1>6, <1>9 DEF Rows!rows
<1> QED BY <1>1, <1>2, <1>3, <1>4, <1>5, <1>7, <1>8, <1>9 DEF Rows!Next

(* Every history of the transactions of a payment keeps one current attempt,*)
(* the one numbered last.                                                   *)
THEOREM NumberedAttemptsHolds == Rows!Spec => []Rows!NumberedAttempts
<1>1. Rows!Init => RowsInv BY RowsInitEstablishes
<1>2. RowsInv /\ [Rows!Next]_(Rows!rows) => RowsInv' BY RowsNextKeeps
<1>3. RowsInv => Rows!NumberedAttempts BY DEF RowsInv
<1> QED BY <1>1, <1>2, <1>3, PTL DEF Rows!Spec

---------------------------------------------------------------------------
(* The rows of the abstract specification are the rows.                     *)

RowsGood ==
    /\ transaction \in TransactionRow
    /\ attempts \in [Session -> AttemptRow \cup {Null}]
    /\ nextAttemptNumber(attempts) \in Nat \ {0}
    /\ nextAttemptNumber(attempts) \notin NumbersOf(attempts)
    /\ Submitted # {} => transaction.session \in Submitted
    /\ \A s, u \in Submitted : Live(s) /\ Live(u) => s = u

LEMMA RowsFacts == RowsInv => RowsGood
<1> SUFFICES ASSUME RowsInv PROVE RowsGood OBVIOUS
<1>1. Rows!Submitted = Submitted BY DEF Rows!Submitted, Submitted
<1>2. Rows!nextAttemptNumber(attempts) = nextAttemptNumber(attempts)
  BY DEF Rows!nextAttemptNumber, nextAttemptNumber, Rows!NumbersOf, NumbersOf
<1>3. /\ nextAttemptNumber(attempts) \in Nat \ {0}
      /\ \A s \in Submitted : attempts[s].number < nextAttemptNumber(attempts)
  BY <1>1, <1>2, NextNumberIsAbove
<1>4. transaction \in TransactionRow /\ attempts \in [Session -> AttemptRow \cup {Null}]
  BY DEF RowsInv, RowsOK, Rows!TransactionRow, TransactionRow,
         Rows!AttemptRow, AttemptRow, Rows!Status, Status, Rows!GatewayId, GatewayId
<1>5. \A s \in Submitted : attempts[s].number \in Nat BY <1>4 DEF Submitted, AttemptRow
<1>6. nextAttemptNumber(attempts) \notin NumbersOf(attempts)
  <2>1. NumbersOf(attempts) = {attempts[s].number : s \in Submitted} BY DEF NumbersOf, Submitted
  <2> QED BY <1>3, <1>5, <2>1
<1>7. Submitted # {} => transaction.session \in Submitted
  BY <1>1 DEF RowsInv, NamesAttempt
<1>8. \A s, u \in Submitted : Live(s) /\ Live(u) => s = u
  <2>1. /\ \A s, u \in Submitted : s # u => attempts[s].number # attempts[u].number
        /\ \A s \in Submitted : attempts[s].superseded
             <=> \E u \in Submitted : attempts[u].number > attempts[s].number
    BY <1>1 DEF RowsInv, Rows!NumberedAttempts
  <2> QED BY <1>5, <2>1 DEF Live
<1> QED BY <1>3, <1>4, <1>6, <1>7, <1>8 DEF RowsGood

LEMMA RowsFactsAfter == RowsInv' => RowsGood'
BY RowsFacts, PTL

LEMMA RowsStepKeeps ==
    ASSUME RowsInv, Rows!Next \/ UNCHANGED <<transaction, attempts>>
    PROVE  RowsInv'
BY RowsNextKeeps DEF Rows!rows

---------------------------------------------------------------------------
(* Rows and columns.                                                        *)

LEMMA RowsAreRows ==
    /\ \A number \in Nat \ {0} :
          createForPayment(number) \in AttemptRow /\ createForPayment(number).number = number
    /\ \A row \in TransactionRow, number \in Nat \ {0} :
          /\ createFromTransaction(row, number) \in AttemptRow
          /\ createFromTransaction(row, number).number = number
    /\ \A row \in AttemptRow :
          /\ supersede(row) \in AttemptRow /\ supersede(row).number = row.number
          /\ supersede(row).superseded
          /\ row.superseded => supersede(row) = row
BY DEF createForPayment, createFromTransaction, supersede, AttemptRow, TransactionRow, Status

LEMMA SettledIsRow ==
    ASSUME NEW row \in AttemptRow, NEW cb \in Callbacks, NEW status \in {cb.status, "failed"}
    PROVE  /\ attemptChangesFromCallback(row, cb, status) \in AttemptRow
           /\ attemptChangesFromCallback(row, cb, status).number = row.number
           /\ attemptChangesFromCallback(row, cb, status).superseded = row.superseded
           /\ attemptChangesFromCallback(row, cb, status).status = status
<1>1. cb.status \in Status /\ status \in Status /\ cb.id \in GatewayId
  BY CallbackAssumption DEF Status, GatewayId
<1> QED BY <1>1 DEF attemptChangesFromCallback, AttemptRow

LEMMA StatusIsChanged ==
    ASSUME NEW row \in TransactionRow, NEW cb, NEW status
    PROVE  Changed(row, callbackChanges(cb, status)).status = status
<1>1. DOMAIN row = {"session", "status", "id", "message"} BY DEF TransactionRow
<1> QED BY <1>1 DEF Changed, callbackChanges

LEMMA NullIsNoRow == Null \notin AttemptRow /\ Null \notin Session /\ Null \notin TransactionRow
BY NullAssumption

(* Writing what differs writes what is set, when the row is the one read.   *)
LEMMA DiffOfTheRow ==
    ASSUME NEW row, NEW changes
    PROVE  Changed(row, Diff(row, changes)) = Changed(row, changes)
BY DEF Changed, Diff

LEMMA NothingChanged ==
    ASSUME NEW row \in TransactionRow
    PROVE  Changed(row, <<>>) = row
<1>1. DOMAIN <<>> = {} OBVIOUS
<1>2. row = [a \in DOMAIN row |-> row[a]] BY DEF TransactionRow
<1> QED BY <1>1, <1>2 DEF Changed

(* The rows, once what a transaction wrote is committed.                    *)
Merged(written) == [s \in Session |-> IF written[s] # Null THEN written[s] ELSE attempts[s]]

Put(s, row) == [attempts EXCEPT ![s] = row]
Only(s, row, written) == \A x \in Session : written[x] = IF x = s THEN row ELSE Null

LEMMA MergeOne ==
    ASSUME NEW s \in Session, NEW row \in AttemptRow,
           attempts \in [Session -> AttemptRow \cup {Null}],
           NEW written, Only(s, row, written)
    PROVE  Merged(written) = Put(s, row)
<1>1. row # Null BY NullIsNoRow
<1> QED BY <1>1 DEF Merged, Put, Only

---------------------------------------------------------------------------
(* A step of one transaction.                                               *)

Moved(t, phase, held) == [t EXCEPT !.phase = phase, !.held = held]

LEMMA MovedFields ==
    ASSUME NEW t \in Task, NEW phase \in Phase, NEW held \in HeldRows
    PROVE  /\ Moved(t, phase, held) \in Task
           /\ Moved(t, phase, held).op = t.op /\ Moved(t, phase, held).cb = t.cb
           /\ Moved(t, phase, held).read = t.read /\ Moved(t, phase, held).session = t.session
           /\ Moved(t, phase, held).tries = t.tries
           /\ Moved(t, phase, held).phase = phase /\ Moved(t, phase, held).held = held
BY DEF Moved, Task

LEMMA ClosedIsHeld ==
    /\ Closed \in HeldRows /\ Closed.locks = {} /\ ~Closed.parentLock /\ Closed.written = NoRows
    /\ Closed.number = 0 /\ Closed.targets = {}
BY DEF Closed, HeldRows, NoRows

LEMMA IdleIsTask == Idle \in Task /\ Idle.phase = "idle" /\ Idle.held = Closed
BY ClosedIsHeld DEF Idle, Task, Phase

(* Handlers that hold nothing and are not under way need nothing.           *)
LEMMA RestIsOK ==
    ASSUME NEW t \in Task, t.phase \in {"idle", "ended"}, t.held = Closed
    PROVE  HandlerOK(t) /\ ~Inserting(t)
BY DEF HandlerOK, TaskOK, FreeOK, BackfillOK, SupersedeOK, InsertOK, CallbackOK, FailOK, RetryOK,
       Inserting

(* What a handler needs is about the rows and the adapter only.             *)
LEMMA SameRowsSameNeeds ==
    ASSUME NEW t, UNCHANGED <<transaction, attempts, adapter>>, HandlerOK(t)
    PROVE  HandlerOK(t)'
BY DEF HandlerOK, TaskOK, FreeOK, BackfillOK, SupersedeOK, InsertOK, CallbackOK, FailOK, RetryOK,
       Fits, Reaches, Live, Superseded, Locked, Backfilled, Submitted

LEMMA MoveKeeps ==
    ASSUME IInv, NEW h \in Handler, NEW u \in Task, tx' = [tx EXCEPT ![h] = u], NoRowChanges,
           HandlerOK(u),
           \A g \in Handler \ {h} : Apart(u.held, tx[g].held),
           Inserting(u) => \A g \in Handler \ {h} : ~Inserting(tx[g])
    PROVE  IInv'
<1>1. UNCHANGED <<transaction, attempts, adapter>> BY DEF NoRowChanges
<1>2. tx \in [Handler -> Task] BY DEF IInv, TypeOK
<1>3. tx' \in [Handler -> Task] /\ tx'[h] = u /\ \A g \in Handler \ {h} : tx'[g] = tx[g] BY <1>2
<1>4. RowsInv' BY <1>1, RowsStepKeeps DEF IInv
<1>5. TypeOK' /\ ~StaleReads' BY <1>1, <1>3 DEF IInv, TypeOK, StaleReads
<1>6. HandlersOK'
  <2>1. \A g \in Handler : HandlerOK(tx'[g]) BY <1>3 DEF IInv, HandlersOK
  <2> SUFFICES ASSUME NEW g \in Handler PROVE HandlerOK(tx[g])' BY DEF HandlersOK
  <2>2. PICK t : t = tx'[g] OBVIOUS
  <2>3. HandlerOK(t)' BY <1>1, <2>1, <2>2, SameRowsSameNeeds
  <2> QED BY <2>2, <2>3
<1>7. Exclusive'
  <2>1. \A g \in Handler \ {h} : Apart(tx[g].held, u.held) BY DEF Apart
  <2> QED BY <1>3, <2>1 DEF IInv, Exclusive
<1>8. OneInserter'
  <2>1. \A t : Inserting(t)' <=> Inserting(t) BY <1>1 DEF Inserting, Submitted
  <2>2. \A g \in Handler : Inserting(tx[g])' <=> Inserting(tx'[g]) BY <1>1 DEF Inserting, Submitted
  <2> QED BY <1>3, <2>2 DEF IInv, OneInserter
<1>9. FirstOK' BY <1>1 DEF IInv, FirstOK, Submitted
<1> QED BY <1>4, <1>5, <1>6, <1>7, <1>8, <1>9 DEF IInv

(* The same for the transaction alone.                                      *)
LEMMA AdvanceKeeps ==
    ASSUME IInv, NEW h \in Handler, NEW phase \in Phase, NEW held \in HeldRows,
           Advance(h, phase, held),
           HandlerOK(Moved(tx[h], phase, held)),
           \A g \in Handler \ {h} : Apart(held, tx[g].held),
           Inserting(Moved(tx[h], phase, held)) => \A g \in Handler \ {h} : ~Inserting(tx[g])
    PROVE  IInv'
<1>1. tx \in [Handler -> Task] BY DEF IInv, TypeOK
<1> DEFINE u == Moved(tx[h], phase, held)
<1>2. u \in Task /\ u.held = held BY <1>1, MovedFields
<1>3. tx' = [tx EXCEPT ![h] = u] /\ NoRowChanges BY <1>1 DEF Advance, Moved
<1>4. PICK v : v = u OBVIOUS
<1> HIDE DEF u
<1>5. /\ v \in Task /\ v.held = held /\ tx' = [tx EXCEPT ![h] = v] BY <1>2, <1>3, <1>4
<1>6. HandlerOK(v) /\ (Inserting(v) => \A g \in Handler \ {h} : ~Inserting(tx[g]))
  BY <1>4 DEF u
<1> QED BY <1>3, <1>5, <1>6, MoveKeeps

LEMMA EndKeeps ==
    ASSUME IInv, NEW h \in Handler, End(h)
    PROVE  IInv'
<1>1. tx[h] \in Task /\ "ended" \in Phase BY DEF IInv, TypeOK, Phase
<1>2. \A g \in Handler : Apart(Closed, tx[g].held) BY ClosedIsHeld DEF Apart
<1>3. HandlerOK(Moved(tx[h], "ended", Closed)) /\ ~Inserting(Moved(tx[h], "ended", Closed))
  BY <1>1, ClosedIsHeld, MovedFields, RestIsOK
<1> QED BY <1>1, <1>2, <1>3, ClosedIsHeld, AdvanceKeeps DEF End

---------------------------------------------------------------------------
(* The steps that leave the rows as they are.                               *)

LEMMA Fields ==
    ASSUME IInv, NEW h \in Handler
    PROVE  /\ tx[h] \in Task /\ tx[h].held \in HeldRows /\ HandlerOK(tx[h])
           /\ tx[h].held.locks \subseteq Session
           /\ tx[h].held.number \in Nat
           /\ \A held : Seen(held) = held
           /\ ReadParent(h) = transaction
BY DEF IInv, TypeOK, HandlersOK, Task, HeldRows, Seen, ReadParent

(* The locks of a handler that takes none but what nobody else has.         *)
LEMMA OwnLocksAreApart ==
    ASSUME IInv, NEW h \in Handler, NEW held,
           held.locks \subseteq tx[h].held.locks
             \cup {s \in Session : \A g \in Handler \ {h} : s \notin tx[g].held.locks},
           held.parentLock => tx[h].held.parentLock \/ ParentHolders(h) = {}
    PROVE  \A g \in Handler \ {h} : Apart(held, tx[g].held)
BY DEF IInv, Exclusive, Apart, ParentHolders

(* A lock on a session that is not committed is that of its inserter.       *)
LEMMA UncommittedLock ==
    ASSUME IInv, NEW g \in Handler, NEW s \in Session, s \in tx[g].held.locks, s \notin Submitted
    PROVE  Inserting(tx[g]) /\ tx[g].session = s
<1>1. HandlerOK(tx[g]) /\ tx[g] \in Task BY Fields
<1>2. tx[g].held.locks # {} /\ tx[g].held # Closed BY ClosedIsHeld
<1>3. tx[g].phase \notin FreePhase /\ ~(tx[g].phase = "lockParent" /\ tx[g].op \in {"cancel", "reconcile"})
  BY <1>1, <1>2 DEF HandlerOK, FreeOK
<1>4. tx[g].phase \notin {"insertBackfill", "relock", "supersede"}
  BY <1>1, <1>2 DEF HandlerOK, BackfillOK, SupersedeOK
<1>5. tx[g].phase # "insert" BY <1>1 DEF HandlerOK, InsertOK
<1>6. tx[g].phase = "lockParent" BY <1>1, <1>3, <1>4, <1>5 DEF Task, Phase, FreePhase
<1>7. tx[g].op \in {"callback", "fail", "retry"} BY <1>1, <1>3, <1>6 DEF HandlerOK, TaskOK
<1>8. CASE tx[g].op = "callback"
  <2>1. tx[g].session = s BY <1>1, <1>6, <1>8 DEF HandlerOK, CallbackOK
  <2> QED BY <1>6, <1>8, <2>1 DEF Inserting
<1>9. CASE tx[g].op = "fail"
  <2>1. tx[g].session = s /\ tx[g].session \in Submitted
    BY <1>1, <1>6, <1>9 DEF HandlerOK, FailOK, TaskOK
  <2> QED BY <2>1
<1>10. CASE tx[g].op = "retry"
  <2>1. tx[g].session = s BY <1>1, <1>6, <1>10 DEF HandlerOK, RetryOK
  <2> QED BY <1>6, <1>10, <2>1 DEF Inserting
<1> QED BY <1>7, <1>8, <1>9, <1>10

(* An inserter holds its session, with the next number.                     *)
LEMMA InserterHolds ==
    ASSUME IInv, NEW g \in Handler, Inserting(tx[g])
    PROVE  /\ tx[g].session \in Session \ Submitted
           /\ tx[g].session \in tx[g].held.locks
           /\ tx[g].held.written[tx[g].session] # Null
           /\ View(g)[tx[g].session].number = nextAttemptNumber(attempts)
           /\ tx[g].held.number = nextAttemptNumber(attempts)
<1>1. HandlerOK(tx[g]) /\ tx[g] \in Task BY Fields
<1>2. nextAttemptNumber(attempts) \in Nat \ {0} /\ transaction \in TransactionRow
  BY RowsFacts DEF RowsGood, IInv
<1> DEFINE t == tx[g]
           w == t.held.written[t.session]
<1>3. /\ t.session \in Session \ Submitted /\ t.session \in t.held.locks
      /\ t.held.number = nextAttemptNumber(attempts)
      /\ w \in AttemptRow /\ w.number = nextAttemptNumber(attempts)
  <2>1. t.phase = "lockParent" /\ t.session \notin Submitted BY DEF Inserting
  <2>2. CASE t.op = "callback"
    <3>1. t.session \in Session /\ t.held.locks = {t.session}
      BY <1>1, <2>1, <2>2, CallbackAssumption DEF HandlerOK, TaskOK, CallbackOK
    <3>2. Backfilled(t) BY <1>1, <2>1, <2>2 DEF HandlerOK, CallbackOK, Locked
    <3>3. w = createFromTransaction(transaction, nextAttemptNumber(attempts))
      BY <3>1, <3>2 DEF Backfilled, NoRows
    <3> QED BY <1>2, <2>1, <3>1, <3>2, <3>3, RowsAreRows DEF Backfilled
  <2>3. CASE t.op = "retry"
    <3>1. t.session \in Session BY <1>1, <2>1, <2>3 DEF HandlerOK, TaskOK
    <3>2. RetryOK(t) BY <1>1 DEF HandlerOK
    <3>3. w = createForPayment(nextAttemptNumber(attempts))
      BY <2>1, <2>3, <3>1, <3>2 DEF RetryOK
    <3> QED BY <1>2, <2>1, <2>3, <3>1, <3>2, <3>3, RowsAreRows DEF RetryOK
  <2> QED BY <2>2, <2>3 DEF Inserting
<1> QED BY <1>3, NullIsNoRow DEF View

(* The unique indexes let one insert at a time through.                     *)
LEMMA NoOtherInserter ==
    ASSUME IInv, NEW h \in Handler, KeyHolders(h) = {},
           \/ tx[h].held.number = nextAttemptNumber(attempts)
           \/ Submitted = {} /\ tx[h].session = FirstSession
    PROVE  \A g \in Handler \ {h} : ~Inserting(tx[g])
<1> SUFFICES ASSUME NEW g \in Handler \ {h}, Inserting(tx[g]) PROVE FALSE OBVIOUS
<1>1. /\ tx[g].session \in Session \ Submitted
      /\ tx[g].session \in tx[g].held.locks
      /\ tx[g].held.written[tx[g].session] # Null
      /\ View(g)[tx[g].session].number = nextAttemptNumber(attempts)
  BY InserterHolds
<1>2. Submitted = {} => tx[g].session = FirstSession
  <2>1. HandlerOK(tx[g]) /\ tx[g].phase = "lockParent" BY Fields DEF Inserting
  <2>2. tx[g].op = "retry" => Submitted # {} BY <2>1 DEF HandlerOK, TaskOK
  <2>3. tx[g].op = "callback" => transaction.session = tx[g].session
    BY <1>1, <2>1 DEF HandlerOK, CallbackOK, Locked, Backfilled
  <2> QED BY <2>2, <2>3 DEF Inserting, IInv, FirstOK
<1>3. g \in KeyHolders(h) BY <1>1, <1>2 DEF KeyHolders
<1> QED BY <1>3

LEMMA RequestKeeps ==
    ASSUME IInv, NEW h \in Handler,
           NEW op \in Operation, NEW cb \in Callbacks \cup {Null}, NEW session \in Session \cup {Null},
           NEW phase \in {"begin", "ensure"},
           Request(h, op, cb, session, phase),
           \/ /\ op \in {"callback", "fail"} /\ phase = "begin"
              /\ cb \in Callbacks /\ session = cb.session
              /\ op = "fail" => session \in Submitted
           \/ op = "retry" /\ phase = "ensure" /\ session = transaction.session
           \/ op \in {"cancel", "reconcile"} /\ phase = "begin"
    PROVE  IInv'
<1>1. transaction \in TransactionRow BY DEF IInv, TypeOK
<1> DEFINE u == [Idle EXCEPT !.op = op, !.cb = cb, !.session = session,
                             !.read = IF op = "retry" THEN transaction ELSE Null, !.phase = phase]
<1>2. /\ u \in Task /\ u.op = op /\ u.cb = cb /\ u.session = session
      /\ u.read = IF op = "retry" THEN transaction ELSE Null
      /\ u.phase = phase /\ u.held = Closed
  BY <1>1, ClosedIsHeld DEF Idle, Task, Phase
<1>3. tx' = [tx EXCEPT ![h] = u] /\ NoRowChanges BY DEF Request
<1>4. PICK v : v = u OBVIOUS
<1> HIDE DEF u
<1>5. /\ v \in Task /\ v.op = op /\ v.cb = cb /\ v.session = session
      /\ v.read = IF op = "retry" THEN transaction ELSE Null
      /\ v.phase = phase /\ v.held = Closed /\ tx' = [tx EXCEPT ![h] = v]
  BY <1>2, <1>3, <1>4
<1>6. TaskOK(v)
  <2>1. transaction.session \in Session BY <1>1 DEF TransactionRow
  <2>2. Submitted = {} => transaction.session = FirstSession BY DEF IInv, FirstOK
  <2> QED BY <1>1, <1>5, <2>1, <2>2 DEF TaskOK
<1>7. HandlerOK(v) /\ ~Inserting(v)
  BY <1>5, <1>6 DEF HandlerOK, FreeOK, BackfillOK, SupersedeOK, InsertOK, CallbackOK, FailOK, RetryOK,
                    Inserting
<1>8. \A g \in Handler : Apart(v.held, tx[g].held) BY <1>5, ClosedIsHeld DEF Apart
<1> QED BY <1>3, <1>5, <1>7, <1>8, MoveKeeps

LEMMA BeginKeeps ==
    ASSUME IInv, NEW h \in Handler, Begin(h)
    PROVE  IInv'
<1>1. tx[h] \in Task /\ HandlerOK(tx[h]) /\ tx[h].phase = "begin" BY Fields DEF Begin, At
<1>2. PICK phase \in {"lockAttempt", "failAttempt", "number", "lockParent"} :
          /\ Advance(h, phase, Closed)
          /\ phase = CASE tx[h].op = "callback" -> "lockAttempt"
                       [] tx[h].op = "fail" -> "failAttempt"
                       [] tx[h].op = "retry" -> "number"
                       [] OTHER -> "lockParent"
  BY DEF Begin
<1>3. phase \in Phase BY DEF Phase
<1> DEFINE u == Moved(tx[h], phase, Closed)
<1>4. /\ u.op = tx[h].op /\ u.cb = tx[h].cb /\ u.session = tx[h].session
      /\ u.phase = phase /\ u.held = Closed
  BY <1>1, <1>3, ClosedIsHeld, MovedFields
<1>5. HandlerOK(u) /\ ~Inserting(u)
  <2> HIDE DEF u
  <2>1. phase = "lockParent" <=> tx[h].op \in {"cancel", "reconcile"}
    BY <1>1, <1>2 DEF HandlerOK, TaskOK
  <2>2. TaskOK(u) BY <1>1, <1>2, <1>4, <2>1 DEF HandlerOK, TaskOK
  <2> QED BY <1>4, <2>1, <2>2 DEF HandlerOK, FreeOK, BackfillOK, SupersedeOK, InsertOK, CallbackOK,
                                  FailOK, RetryOK, Inserting
<1>6. \A g \in Handler \ {h} : Apart(Closed, tx[g].held) BY ClosedIsHeld DEF Apart
<1> QED BY <1>2, <1>3, <1>5, <1>6, ClosedIsHeld, AdvanceKeeps

(* What is held at most grows by a free row, or by the parent.              *)
LEMMA LockAttemptKeeps ==
    ASSUME IInv, NEW h \in Handler, LockAttempt(h)
    PROVE  IInv'
<1> DEFINE t == tx[h]
<1>1. t \in Task /\ t.held \in HeldRows /\ HandlerOK(t) /\ \A held : Seen(held) = held BY Fields
<1>2. t.phase \in {"lockAttempt", "relock"} /\ Blockers(h) = {} BY DEF LockAttempt, At
<1>3. t.op = "callback" /\ t.session \in Session /\ t.cb \in Callbacks /\ t.session = t.cb.session
  BY <1>1, <1>2, CallbackAssumption DEF HandlerOK, TaskOK
<1>4. t.held.locks = {} /\ t.held.written = NoRows
  BY <1>1, <1>2, ClosedIsHeld DEF HandlerOK, FreeOK, FreePhase, BackfillOK
<1>5. CASE t.session \in Submitted
  <2> DEFINE held == [t.held EXCEPT !.locks = @ \cup {t.session}, !.attempt = attempts[t.session]]
             u    == Moved(t, "lockParent", held)
  <2>1. Advance(h, "lockParent", held) BY <1>1, <1>5 DEF LockAttempt, Submitted
  <2>2. attempts[t.session] \in AttemptRow BY <1>3, <1>5 DEF IInv, TypeOK, Submitted
  <2>3. /\ held \in HeldRows /\ held.locks = {t.session} /\ held.attempt = attempts[t.session]
        /\ held.written = NoRows /\ held.parentLock = t.held.parentLock
    BY <1>1, <1>3, <1>4, <2>2 DEF HeldRows
  <2>4. "lockParent" \in Phase BY DEF Phase
  <2>5. /\ u.op = t.op /\ u.cb = t.cb /\ u.session = t.session
        /\ u.phase = "lockParent" /\ u.held = held
    BY <1>1, <2>3, <2>4, MovedFields
  <2>6. HandlerOK(u) /\ ~Inserting(u)
    <3> HIDE DEF u, held
    <3> QED BY <1>3, <1>5, <2>3, <2>5
            DEF HandlerOK, TaskOK, FreeOK, FreePhase, BackfillOK, SupersedeOK, InsertOK, CallbackOK,
                Locked, FailOK, RetryOK, Inserting
  <2>7. \A g \in Handler \ {h} : t.session \notin tx[g].held.locks
    BY <1>2, <1>3, <1>5 DEF Blockers, RowReadHolders, RowHolders, Submitted
  <2>8. \A g \in Handler \ {h} : Apart(held, tx[g].held)
    <3> HIDE DEF held
    <3> QED BY <1>3, <2>3, <2>7, OwnLocksAreApart
  <2> QED BY <2>1, <2>3, <2>4, <2>6, <2>8, AdvanceKeeps
<1>6. CASE t.session \notin Submitted /\ t.phase = "relock"
  BY <1>3, <1>6, EndKeeps DEF LockAttempt, Submitted
<1>7. CASE t.session \notin Submitted /\ t.phase = "lockAttempt"
  <2> DEFINE u == Moved(t, "lockLegacy", Closed)
  <2>1. t.held = Closed BY <1>1, <1>7 DEF HandlerOK, FreeOK, FreePhase
  <2>2. Advance(h, "lockLegacy", Closed) BY <1>1, <1>3, <1>7, <2>1 DEF LockAttempt, Submitted
  <2>3. "lockLegacy" \in Phase BY DEF Phase
  <2>4. /\ u.op = t.op /\ u.cb = t.cb /\ u.session = t.session
        /\ u.phase = "lockLegacy" /\ u.held = Closed
    BY <1>1, <2>3, ClosedIsHeld, MovedFields
  <2>5. HandlerOK(u) /\ ~Inserting(u)
    <3> HIDE DEF u
    <3> QED BY <1>3, <2>4
            DEF HandlerOK, TaskOK, FreeOK, FreePhase, BackfillOK, SupersedeOK, InsertOK, CallbackOK,
                FailOK, RetryOK, Inserting
  <2>6. \A g \in Handler \ {h} : Apart(Closed, tx[g].held) BY ClosedIsHeld DEF Apart
  <2> QED BY <2>2, <2>3, <2>5, <2>6, ClosedIsHeld, AdvanceKeeps
<1> QED BY <1>2, <1>5, <1>6, <1>7

LEMMA LockLegacyKeeps ==
    ASSUME IInv, NEW h \in Handler, LockLegacy(h)
    PROVE  IInv'
<1> DEFINE t == tx[h]
           number == nextAttemptNumber(attempts)
           held == [Closed EXCEPT !.parentLock = TRUE, !.number = number]
           u == Moved(t, "insertBackfill", held)
<1>1. t \in Task /\ HandlerOK(t) /\ \A other : Seen(other) = other BY Fields
<1>2. t.phase = "lockLegacy" /\ Blockers(h) = {} BY DEF LockLegacy, At
<1>3. t.op = "callback" /\ t.cb \in Callbacks /\ t.session = t.cb.session
  BY <1>1, <1>2 DEF HandlerOK, TaskOK
<1>4. t.held = Closed BY <1>1, <1>2 DEF HandlerOK, FreeOK, FreePhase
<1>5. CASE transaction.session = t.session
  <2>1. Advance(h, "insertBackfill", held) BY <1>1, <1>4, <1>5 DEF LockLegacy
  <2>2. number \in Nat \ {0} BY RowsFacts DEF RowsGood, IInv
  <2> HIDE DEF number
  <2>3. /\ held \in HeldRows /\ held.parentLock /\ held.locks = {} /\ held.number = number
        /\ held.written = NoRows
    BY <2>2, ClosedIsHeld DEF Closed, HeldRows
  <2>4. "insertBackfill" \in Phase BY DEF Phase
  <2>5. /\ u.op = t.op /\ u.cb = t.cb /\ u.session = t.session
        /\ u.phase = "insertBackfill" /\ u.held = held
    BY <1>1, <2>3, <2>4, MovedFields
  <2>6. HandlerOK(u) /\ ~Inserting(u)
    <3>1. Fits(number) BY DEF Fits, number
    <3> HIDE DEF u, held
    <3> QED BY <1>3, <1>5, <2>2, <2>3, <2>5, <3>1
            DEF HandlerOK, TaskOK, FreeOK, FreePhase, BackfillOK, SupersedeOK, InsertOK, CallbackOK,
                FailOK, RetryOK, Inserting
  <2>7. ParentHolders(h) = {} BY <1>2, <1>5 DEF Blockers
  <2>8. \A g \in Handler \ {h} : Apart(held, tx[g].held)
    <3> HIDE DEF held
    <3> QED BY <2>3, <2>7, OwnLocksAreApart
  <2> QED BY <2>1, <2>3, <2>4, <2>6, <2>8, AdvanceKeeps
<1> QED BY <1>5, EndKeeps DEF LockLegacy

LEMMA InsertBackfillKeeps ==
    ASSUME IInv, NEW h \in Handler, InsertBackfill(h)
    PROVE  IInv'
<1> DEFINE t == tx[h]
           row == createFromTransaction(transaction, t.held.number)
           held == Write([t.held EXCEPT !.attempt = row], t.session, row)
           u == Moved(t, "lockParent", held)
<1>1. t \in Task /\ t.held \in HeldRows /\ HandlerOK(t) /\ ReadParent(h) = transaction BY Fields
<1>2. t.phase = "insertBackfill" /\ KeyHolders(h) = {} BY DEF InsertBackfill, At, Blockers
<1>3. t.op = "callback" /\ t.cb \in Callbacks /\ t.session = t.cb.session /\ t.session \in Session
  BY <1>1, <1>2, CallbackAssumption DEF HandlerOK, TaskOK
<1>4. /\ t.held.parentLock /\ t.held.locks = {} /\ t.held.written = NoRows
      /\ transaction.session = t.session /\ t.held.number \in Nat \ {0} /\ Fits(t.held.number)
  BY <1>1, <1>2 DEF HandlerOK, BackfillOK, HeldRows
<1>5. CASE ~Duplicate(t.session, t.held.number)
  <2>1. Advance(h, "lockParent", held) BY <1>1, <1>5 DEF InsertBackfill
  <2>2. t.session \notin Submitted /\ t.held.number = nextAttemptNumber(attempts)
    BY <1>4, <1>5 DEF Duplicate, Fits, Submitted
  <2>3. row \in AttemptRow BY <1>4, RowsAreRows DEF IInv, TypeOK
  <2> HIDE DEF row
  <2>4. /\ held \in HeldRows /\ held.locks = {t.session} /\ held.attempt = row
        /\ held.written = [NoRows EXCEPT ![t.session] = row]
        /\ held.parentLock /\ held.number = t.held.number
    BY <1>1, <1>3, <1>4, <2>3 DEF HeldRows, Write
  <2>5. "lockParent" \in Phase BY DEF Phase
  <2>6. /\ u.op = t.op /\ u.cb = t.cb /\ u.session = t.session
        /\ u.phase = "lockParent" /\ u.held = held
    BY <1>1, <2>4, <2>5, MovedFields
  <2>7. HandlerOK(u)
    <3>1. Backfilled(u)
      <4> HIDE DEF u, held
      <4> QED BY <1>4, <2>2, <2>4, <2>6 DEF Backfilled, row
    <3> HIDE DEF u, held
    <3> QED BY <1>3, <2>4, <2>6, <3>1
            DEF HandlerOK, TaskOK, FreeOK, FreePhase, BackfillOK, SupersedeOK, InsertOK, CallbackOK,
                FailOK, RetryOK
  <2>8. \A g \in Handler \ {h} : ~Inserting(tx[g]) BY <1>2, <2>2, NoOtherInserter
  <2>9. \A g \in Handler \ {h} : t.session \notin tx[g].held.locks
    BY <1>3, <2>2, <2>8, UncommittedLock
  <2>10. \A g \in Handler \ {h} : Apart(held, tx[g].held)
    <3> HIDE DEF held
    <3> QED BY <1>3, <1>4, <2>4, <2>9, OwnLocksAreApart
  <2> QED BY <2>1, <2>4, <2>5, <2>7, <2>8, <2>10, AdvanceKeeps
<1>6. CASE Duplicate(t.session, t.held.number) /\ adapter.abortedByError
  BY <1>6, EndKeeps DEF InsertBackfill
<1>7. CASE Duplicate(t.session, t.held.number) /\ ~adapter.abortedByError
  <2> DEFINE v == Moved(t, "relock", t.held)
  <2>1. Advance(h, "relock", t.held) BY <1>7 DEF InsertBackfill
  <2>2. "relock" \in Phase BY DEF Phase
  <2>3. /\ v.op = t.op /\ v.cb = t.cb /\ v.session = t.session
        /\ v.phase = "relock" /\ v.held = t.held
    BY <1>1, <2>2, MovedFields
  <2>4. HandlerOK(v) /\ ~Inserting(v)
    <3> HIDE DEF v
    <3> QED BY <1>3, <1>4, <2>3
            DEF HandlerOK, TaskOK, FreeOK, FreePhase, BackfillOK, SupersedeOK, InsertOK, CallbackOK,
                FailOK, RetryOK, Inserting
  <2>5. \A g \in Handler \ {h} : Apart(t.held, tx[g].held) BY DEF IInv, Exclusive
  <2> QED BY <1>1, <2>1, <2>2, <2>4, <2>5, AdvanceKeeps
<1> QED BY <1>5, <1>6, <1>7

LEMMA NextNumberKeeps ==
    ASSUME IInv, NEW h \in Handler, NEW session \in Session, NextNumber(h, session)
    PROVE  IInv'
<1> DEFINE t == tx[h]
           number == nextAttemptNumber(attempts)
           targets == {s \in Submitted : adapter.repeatableRead \/ ~attempts[s].superseded}
           held == [Closed EXCEPT !.number = number, !.targets = targets]
           u == [t EXCEPT !.phase = "supersede", !.session = session, !.held = held]
<1>1. t \in Task /\ HandlerOK(t) /\ \A other : Seen(other) = other BY Fields
<1>2. t.phase = "number" BY DEF NextNumber, At
<1>3. t.op = "retry" /\ Submitted # {} /\ t.held = Closed
  BY <1>1, <1>2 DEF HandlerOK, TaskOK, FreeOK, FreePhase
<1>4. number \in Nat \ {0} BY RowsFacts DEF RowsGood, IInv
<1>5. targets \subseteq Submitted /\ \A s \in Session : Live(s) => s \in targets BY DEF Live
<1>6. adapter.repeatableRead => FirstSession \in targets BY <1>3 DEF IInv, FirstOK
<1>7. tx' = [tx EXCEPT ![h] = u] /\ NoRowChanges BY <1>1, <1>3 DEF NextNumber, IInv, TypeOK
<1> HIDE DEF number, targets
<1>8. targets \subseteq Session BY <1>5 DEF Submitted
<1>9. /\ held \in HeldRows /\ ~held.parentLock /\ held.locks = {} /\ held.written = NoRows
      /\ held.number = number /\ held.targets = targets
  BY <1>4, <1>8, ClosedIsHeld DEF Closed, HeldRows
<1> HIDE DEF held
<1>10. /\ u \in Task /\ u.op = "retry" /\ u.session = session /\ u.phase = "supersede" /\ u.held = held
  BY <1>1, <1>3, <1>9 DEF Task, Phase
<1> HIDE DEF u
<1>11. Fits(number) BY DEF Fits, number
<1>12. HandlerOK(u) /\ ~Inserting(u)
  BY <1>3, <1>4, <1>5, <1>6, <1>9, <1>10, <1>11
  DEF HandlerOK, TaskOK, FreeOK, FreePhase, BackfillOK, SupersedeOK, InsertOK, CallbackOK,
      FailOK, RetryOK, Inserting, Reaches
<1>13. \A g \in Handler : Apart(u.held, tx[g].held) BY <1>9, <1>10 DEF Apart
<1>14. PICK v \in Task : v = u BY <1>10
<1> QED BY <1>7, <1>12, <1>13, <1>14, MoveKeeps

LEMMA SupersedeKeeps ==
    ASSUME IInv, NEW h \in Handler, Supersede(h)
    PROVE  IInv'
<1> DEFINE t == tx[h]
           written == [s \in Session |-> IF s \in t.held.targets /\ ~attempts[s].superseded
                                         THEN supersede(attempts[s]) ELSE Null]
           held == [t.held EXCEPT !.locks = @ \cup t.held.targets, !.targets = {}, !.written = written]
           u == Moved(t, "insert", held)
<1>1. t \in Task /\ t.held \in HeldRows /\ HandlerOK(t) BY Fields
<1>2. t.phase = "supersede" /\ UNION {RowHolders(h, s) : s \in t.held.targets} = {}
  BY DEF Supersede, At, Blockers
<1>3. t.op = "retry" /\ t.session \in Session /\ Submitted # {}
  BY <1>1, <1>2 DEF HandlerOK, TaskOK
<1>4. /\ ~t.held.parentLock /\ t.held.locks = {} /\ t.held.number # 0 /\ Fits(t.held.number)
      /\ t.held.targets \subseteq Submitted /\ Reaches(t.held.number, t.held.targets)
      /\ adapter.repeatableRead => FirstSession \in t.held.targets
  BY <1>1, <1>2 DEF HandlerOK, SupersedeOK
<1>5. Advance(h, "insert", held) BY DEF Supersede
<1>6. \A s \in Session : written[s] = Superseded(s, t.held.targets)
  BY <1>4 DEF Superseded, Live
<1>7. written \in [Session -> AttemptRow \cup {Null}]
  BY <1>4, RowsAreRows DEF IInv, TypeOK, Submitted
<1> HIDE DEF written
<1>8. written = [s \in Session |-> Superseded(s, t.held.targets)] BY <1>6, <1>7
<1>9. t.held.targets \subseteq Session BY <1>4 DEF Submitted
<1>10. /\ held \in HeldRows /\ ~held.parentLock /\ held.locks = t.held.targets
       /\ held.written = written /\ held.number = t.held.number
  BY <1>1, <1>4, <1>7, <1>9 DEF HeldRows
<1>11. "insert" \in Phase BY DEF Phase
<1>12. u.op = t.op /\ u.session = t.session /\ u.phase = "insert" /\ u.held = held
  BY <1>1, <1>10, <1>11, MovedFields
<1>13. HandlerOK(u) /\ ~Inserting(u)
  <2> HIDE DEF u, held
  <2> QED BY <1>3, <1>4, <1>8, <1>10, <1>12
          DEF HandlerOK, TaskOK, FreeOK, FreePhase, BackfillOK, SupersedeOK, InsertOK, CallbackOK,
              FailOK, RetryOK, Inserting
<1>14. \A g \in Handler \ {h}, s \in t.held.targets : s \notin tx[g].held.locks
  BY <1>2 DEF RowHolders
<1>15. \A g \in Handler \ {h} : Apart(held, tx[g].held)
  <2> HIDE DEF held
  <2> QED BY <1>9, <1>10, <1>4, <1>14, OwnLocksAreApart
<1> QED BY <1>5, <1>10, <1>11, <1>13, <1>15, AdvanceKeeps

LEMMA InsertAttemptKeeps ==
    ASSUME IInv, NEW h \in Handler, InsertAttempt(h)
    PROVE  IInv'
<1> DEFINE t == tx[h]
           row == createForPayment(t.held.number)
           held == Write(t.held, t.session, row)
           u == Moved(t, "lockParent", held)
<1>1. t \in Task /\ t.held \in HeldRows /\ HandlerOK(t) BY Fields
<1>2. t.phase = "insert" /\ KeyHolders(h) = {} BY DEF InsertAttempt, At, Blockers
<1>3. t.op = "retry" /\ t.session \in Session /\ Submitted # {}
  BY <1>1, <1>2 DEF HandlerOK, TaskOK
<1>4. /\ ~t.held.parentLock /\ t.held.locks \subseteq Submitted
      /\ t.held.number \in Nat \ {0} /\ Fits(t.held.number)
      /\ Reaches(t.held.number, t.held.locks)
      /\ t.held.written = [s \in Session |-> Superseded(s, t.held.locks)]
  BY <1>1, <1>2 DEF HandlerOK, InsertOK, HeldRows
<1>5. CASE ~Duplicate(t.session, t.held.number)
  <2>1. Advance(h, "lockParent", held) BY <1>5 DEF InsertAttempt
  <2>2. t.session \notin Submitted /\ t.held.number = nextAttemptNumber(attempts)
    BY <1>3, <1>4, <1>5 DEF Duplicate, Fits, Submitted
  <2>3. row \in AttemptRow BY <1>4, RowsAreRows
  <2> HIDE DEF row
  <2>4. /\ held \in HeldRows /\ held.locks = t.held.locks \cup {t.session}
        /\ held.written = [t.held.written EXCEPT ![t.session] = row]
        /\ ~held.parentLock /\ held.number = t.held.number
    BY <1>1, <1>3, <1>4, <2>3 DEF HeldRows, Write
  <2>5. "lockParent" \in Phase BY DEF Phase
  <2>6. /\ u.op = t.op /\ u.session = t.session /\ u.phase = "lockParent" /\ u.held = held
    BY <1>1, <2>4, <2>5, MovedFields
  <2>7. held.written = [s \in Session |-> IF s = t.session THEN row ELSE Superseded(s, held.locks)]
    <3> HIDE DEF held
    <3>1. \A s \in Session \ {t.session} : Superseded(s, held.locks) = Superseded(s, t.held.locks)
      BY <2>4 DEF Superseded
    <3> QED BY <1>4, <2>4, <3>1
  <2>8. RetryOK(u)
    <3> HIDE DEF u, held
    <3> QED BY <1>4, <2>2, <2>4, <2>6, <2>7 DEF RetryOK, Reaches, row
  <2>9. HandlerOK(u)
    <3> HIDE DEF u, held
    <3> QED BY <1>3, <2>6, <2>8
            DEF HandlerOK, TaskOK, FreeOK, FreePhase, BackfillOK, SupersedeOK, InsertOK, CallbackOK,
                FailOK
  <2>10. \A g \in Handler \ {h} : ~Inserting(tx[g]) BY <1>2, <2>2, NoOtherInserter
  <2>11. \A g \in Handler \ {h} : t.session \notin tx[g].held.locks
    BY <1>3, <2>2, <2>10, UncommittedLock
  <2>12. \A g \in Handler \ {h} : Apart(held, tx[g].held)
    <3> HIDE DEF held
    <3>1. t.held.locks \subseteq Session BY Fields
    <3> QED BY <1>3, <2>4, <2>11, OwnLocksAreApart
  <2> QED BY <2>1, <2>4, <2>5, <2>9, <2>10, <2>12, AdvanceKeeps
<1>6. CASE Duplicate(t.session, t.held.number)
  <2> DEFINE phase == IF t.tries < MaxTries THEN "begin" ELSE "ended"
             tries == IF t.tries < MaxTries THEN t.tries + 1 ELSE t.tries
             v == [t EXCEPT !.held = Closed, !.phase = phase, !.tries = tries]
  <2>1. tx' = [tx EXCEPT ![h] = v] /\ NoRowChanges
    BY <1>1, <1>6 DEF InsertAttempt, IInv, TypeOK
  <2> HIDE DEF v
  <2>2. /\ v \in Task /\ v.op = "retry" /\ v.session = t.session /\ v.phase \in {"begin", "ended"}
        /\ v.held = Closed
    <3>1. t.tries \in Nat BY <1>1 DEF Task
    <3>2. tries \in Nat /\ phase \in {"begin", "ended"} BY <3>1
    <3> HIDE DEF phase, tries
    <3>3. "begin" \in Phase /\ "ended" \in Phase BY DEF Phase
    <3> QED BY <1>1, <1>3, <3>2, <3>3, ClosedIsHeld DEF Task, v
  <2>3. HandlerOK(v) /\ ~Inserting(v)
    BY <1>3, <2>2 DEF HandlerOK, TaskOK, FreeOK, FreePhase, BackfillOK, SupersedeOK, InsertOK,
                      CallbackOK, FailOK, RetryOK, Inserting
  <2>4. \A g \in Handler : Apart(v.held, tx[g].held) BY <2>2, ClosedIsHeld DEF Apart
  <2>5. PICK w \in Task : w = v BY <2>2
  <2> QED BY <2>1, <2>3, <2>4, <2>5, MoveKeeps
<1> QED BY <1>5, <1>6

---------------------------------------------------------------------------
(* The steps that commit rows leave those that the others hold.             *)

Adds(h, s) ==
    /\ Submitted' = Submitted \cup {s}
    /\ attempts'[s].number = nextAttemptNumber(attempts)
    /\ \A g \in Handler \ {h} : ~Inserting(tx[g])
    /\ Submitted = {} => s = FirstSession

LeavesOthers(h) ==
    /\ \A s \in Submitted : /\ attempts'[s] # Null /\ attempts'[s].number = attempts[s].number
                            /\ attempts[s].superseded => attempts'[s].superseded
    /\ \A g \in Handler \ {h} : /\ \A s \in tx[g].held.locks : attempts'[s] = attempts[s]
                                /\ tx[g].held.parentLock => transaction' = transaction
    /\ Submitted' = Submitted \/ \E s \in Session : Adds(h, s)
    /\ Submitted' = {} => transaction'.session = transaction.session

LEMMA OthersKeep ==
    ASSUME IInv, NEW h \in Handler, NEW g \in Handler \ {h}, NEW t, t = tx[g],
           LeavesOthers(h), RowsInv', adapter' = adapter
    PROVE  HandlerOK(t)'
<1>1. HandlerOK(t) /\ t \in Task /\ t.held.locks \subseteq Session BY Fields
<1>2. Submitted \subseteq Submitted' BY DEF LeavesOthers, Submitted
<1>3. NumbersOf(attempts) \subseteq NumbersOf(attempts')
  BY DEF LeavesOthers, NumbersOf, Submitted
<1>4. nextAttemptNumber(attempts') \notin NumbersOf(attempts')
  BY RowsFactsAfter DEF RowsGood
<1>5. Submitted' = Submitted
      => /\ NumbersOf(attempts') = NumbersOf(attempts)
         /\ nextAttemptNumber(attempts') = nextAttemptNumber(attempts)
  <2> SUFFICES ASSUME Submitted' = Submitted
               PROVE  NumbersOf(attempts') = NumbersOf(attempts)
    BY DEF nextAttemptNumber
  <2>1. \A s \in Session : attempts[s] # Null <=> attempts'[s] # Null BY DEF Submitted
  <2>2. \A s \in Session : attempts[s] # Null => attempts'[s].number = attempts[s].number
    BY DEF LeavesOthers, Submitted
  <2> QED BY <2>1, <2>2 DEF NumbersOf
<1>6. \A s : Adds(h, s) /\ s \in Session => nextAttemptNumber(attempts) \in NumbersOf(attempts')
  <2> SUFFICES ASSUME NEW s \in Session, Adds(h, s)
               PROVE  nextAttemptNumber(attempts) \in NumbersOf(attempts')
    OBVIOUS
  <2>1. s \in Submitted' /\ attempts'[s].number = nextAttemptNumber(attempts) BY DEF Adds
  <2> QED BY <2>1 DEF NumbersOf, Submitted
<1>7. \A number : Fits(number) => Fits(number)'
  BY <1>3, <1>5, <1>6 DEF Fits, LeavesOthers
<1>8. \A number, sessions : Fits(number) /\ Reaches(number, sessions) => Reaches(number, sessions)'
  <2> SUFFICES ASSUME NEW number, NEW sessions, Fits(number), Reaches(number, sessions)
               PROVE  Reaches(number, sessions)'
    OBVIOUS
  <2>1. CASE Submitted' = Submitted
    <3>1. \A s \in Session : Live(s)' => Live(s) BY <2>1 DEF Live, LeavesOthers
    <3> QED BY <1>5, <2>1, <3>1 DEF Reaches
  <2>2. CASE Submitted' # Submitted
    <3>1. number \in NumbersOf(attempts') BY <1>3, <1>6, <2>2 DEF LeavesOthers, Fits
    <3> QED BY <1>4, <3>1 DEF Reaches
  <2> QED BY <2>1, <2>2
<1>9. \A s \in t.held.locks : attempts'[s] = attempts[s] /\ (s \in Submitted' <=> s \in Submitted)
  BY <1>1 DEF LeavesOthers, Submitted
<1>10. \A s : Superseded(s, t.held.locks)' = Superseded(s, t.held.locks)
  BY <1>9 DEF Superseded, Live
<1>11. t.held.parentLock => transaction' = transaction BY DEF LeavesOthers
<1>12. Inserting(t) => Submitted' = Submitted BY DEF LeavesOthers, Adds
<1>13. TaskOK(t)' BY <1>1, <1>2 DEF HandlerOK, TaskOK
<1>14. FreeOK(t)' /\ BackfillOK(t)'
  BY <1>1, <1>7, <1>11 DEF HandlerOK, FreeOK, BackfillOK
<1>15. SupersedeOK(t)' BY <1>1, <1>2, <1>7, <1>8 DEF HandlerOK, SupersedeOK
<1>16. InsertOK(t)' BY <1>1, <1>2, <1>7, <1>8, <1>10 DEF HandlerOK, InsertOK
<1>17. CallbackOK(t)'
  <2> SUFFICES ASSUME t.phase = "lockParent", t.op = "callback"
               PROVE  t.held.locks = {t.session} /\ (Locked(t)' \/ Backfilled(t)')
    BY DEF CallbackOK
  <2>1. t.held.locks = {t.session} /\ (Locked(t) \/ Backfilled(t)) BY <1>1 DEF HandlerOK, CallbackOK
  <2>2. CASE Locked(t) BY <1>2, <1>9, <2>1, <2>2 DEF Locked
  <2>3. CASE Backfilled(t)
    <3>1. Submitted' = Submitted BY <1>12, <2>3 DEF Inserting, Backfilled
    <3>2. transaction' = transaction BY <1>11, <2>3 DEF Backfilled
    <3> QED BY <1>5, <2>1, <2>3, <3>1, <3>2 DEF Backfilled
  <2> QED BY <2>1, <2>2, <2>3
<1>18. FailOK(t)' BY <1>1, <1>9 DEF HandlerOK, FailOK
<1>19. RetryOK(t)'
  <2> SUFFICES ASSUME t.phase = "lockParent", t.op = "retry" PROVE RetryOK(t)' BY DEF RetryOK
  <2>1. RetryOK(t) BY <1>1 DEF HandlerOK
  <2>2. Submitted' = Submitted BY <1>12, <2>1 DEF Inserting, RetryOK
  <2>3. Fits(t.held.number) BY <2>1 DEF RetryOK, Fits
  <2> QED BY <1>5, <1>8, <1>10, <2>1, <2>2, <2>3 DEF RetryOK
<1> QED BY <1>13, <1>14, <1>15, <1>16, <1>17, <1>18, <1>19 DEF HandlerOK

LEMMA CommitKeeps ==
    ASSUME IInv, NEW h \in Handler, NEW u \in Task, tx' = [tx EXCEPT ![h] = u],
           Rows!Next \/ UNCHANGED <<transaction, attempts>>,
           adapter' = adapter, LeavesOthers(h), u.held = Closed,
           \/ u.phase = "ended"
           \/ u.phase = "begin" /\ u.op = "retry" /\ u.session \in Session /\ Submitted' # {}
    PROVE  IInv'
<1>1. tx \in [Handler -> Task] BY DEF IInv, TypeOK
<1>2. tx' \in [Handler -> Task] /\ tx'[h] = u /\ \A g \in Handler \ {h} : tx'[g] = tx[g] BY <1>1
<1>3. RowsInv' BY RowsStepKeeps DEF IInv
<1>4. transaction' \in TransactionRow /\ attempts' \in [Session -> AttemptRow \cup {Null}]
  BY <1>3, RowsFactsAfter DEF RowsGood
<1>5. TypeOK' /\ ~StaleReads' BY <1>2, <1>4 DEF IInv, TypeOK, StaleReads
<1>6. HandlerOK(u)' /\ ~Inserting(u)'
  BY DEF HandlerOK, TaskOK, FreeOK, BackfillOK, SupersedeOK, InsertOK, CallbackOK, FailOK, RetryOK,
         Inserting
<1>7. HandlersOK'
  <2> SUFFICES ASSUME NEW g \in Handler PROVE HandlerOK(tx[g])' BY DEF HandlersOK
  <2>1. PICK t : t = tx'[g] OBVIOUS
  <2>2. CASE g = h BY <1>2, <1>6, <2>1, <2>2
  <2>3. CASE g # h
    <3>1. t = tx[g] BY <1>2, <2>1, <2>3
    <3>2. HandlerOK(t)' BY <1>3, <2>3, <3>1, OthersKeep
    <3> QED BY <2>1, <3>2
  <2> QED BY <2>2, <2>3
<1>8. Exclusive'
  <2>1. \A held : Apart(Closed, held) /\ Apart(held, Closed) BY ClosedIsHeld DEF Apart
  <2> QED BY <1>2, <2>1 DEF IInv, Exclusive
<1>9. OneInserter'
  <2>1. Submitted \subseteq Submitted' BY DEF LeavesOthers, Submitted
  <2>2. ASSUME NEW g \in Handler, Inserting(tx[g])' PROVE g # h /\ Inserting(tx[g])
    <3>1. g # h BY <1>2, <1>6, <2>2
    <3> QED BY <1>2, <2>1, <2>2, <3>1 DEF Inserting
  <2> QED BY <2>2 DEF OneInserter, IInv
<1>10. FirstOK'
  <2>1. Submitted \subseteq Submitted' BY DEF LeavesOthers, Submitted
  <2> QED BY <2>1 DEF FirstOK, IInv, LeavesOthers, Adds
<1> QED BY <1>3, <1>5, <1>7, <1>8, <1>9, <1>10 DEF IInv

---------------------------------------------------------------------------
(* What each commit does, in the words of PaymentRows.                      *)

LEMMA SettleIs ==
    \A row, cb : Rows!Settle(cb, row) <=>
       IF isReplayCallback(row, cb)
       THEN attempts' = [attempts EXCEPT ![cb.session] = row] /\ UNCHANGED transaction
       ELSE /\ attempts' = [attempts EXCEPT ![cb.session] = attemptChangesFromCallback(row, cb, cb.status)]
            /\ transaction' = IF shouldPropagate(row, cb.status)
                              THEN Changed(transaction, callbackChanges(cb, cb.status))
                              ELSE transaction
BY DEF Rows!Settle, Rows!isReplayCallback, isReplayCallback,
       Rows!attemptChangesFromCallback, attemptChangesFromCallback,
       Rows!shouldPropagate, shouldPropagate, Rows!Changed, Changed,
       Rows!callbackChanges, callbackChanges

LEMMA ApplyIs ==
    ASSUME NEW cb \in Callbacks, cb.session \in Submitted, Rows!Settle(cb, attempts[cb.session])
    PROVE  Rows!Next
BY DEF Rows!Next, Rows!Apply, Rows!Submitted, Submitted

LEMMA ApplyToLegacyIs ==
    ASSUME NEW cb \in Callbacks, cb.session \notin Submitted, transaction.session = cb.session,
           Rows!Settle(cb, createFromTransaction(transaction, nextAttemptNumber(attempts)))
    PROVE  Rows!Next
<1>1. /\ cb.session \notin Rows!Submitted
      /\ Rows!createFromTransaction(transaction, Rows!nextAttemptNumber(attempts))
           = createFromTransaction(transaction, nextAttemptNumber(attempts))
  BY DEF Rows!Submitted, Submitted, Rows!createFromTransaction, createFromTransaction,
         Rows!nextAttemptNumber, nextAttemptNumber, Rows!NumbersOf, NumbersOf
<1> QED BY <1>1 DEF Rows!Next, Rows!ApplyToLegacy

LEMMA FailIs ==
    ASSUME NEW cb \in Callbacks, cb.session \in Submitted,
           attempts' = [attempts EXCEPT ![cb.session] =
                          attemptChangesFromCallback(attempts[cb.session], cb, "failed")],
           transaction' = IF shouldPropagate(attempts[cb.session], "failed")
                          THEN Changed(transaction, callbackChanges(cb, "failed"))
                          ELSE transaction
    PROVE  Rows!Next
<1>1. Rows!Fail(cb)
  BY DEF Rows!Fail, Rows!Submitted, Submitted,
         Rows!attemptChangesFromCallback, attemptChangesFromCallback,
         Rows!shouldPropagate, shouldPropagate, Rows!Changed, Changed,
         Rows!callbackChanges, callbackChanges
<1> QED BY <1>1 DEF Rows!Next

LEMMA EnsureIs ==
    ASSUME Submitted = {}, NEW read \in TransactionRow, read.session = transaction.session,
           attempts' = [attempts EXCEPT ![read.session] = createFromTransaction(read, 1)],
           UNCHANGED transaction
    PROVE  Rows!Next
<1>1. Rows!EnsureInitialAttempt
  BY DEF Rows!EnsureInitialAttempt, Rows!Submitted, Submitted,
         Rows!createFromTransaction, createFromTransaction,
         Rows!TransactionRow, TransactionRow, Rows!Status, Status, Rows!GatewayId, GatewayId
<1> QED BY <1>1 DEF Rows!Next

LEMMA RetryIs ==
    ASSUME NEW s \in Session, s \notin Submitted,
           attempts' = [u \in Session |->
                          IF u = s THEN createForPayment(nextAttemptNumber(attempts))
                          ELSE IF u \in Submitted THEN supersede(attempts[u]) ELSE Null],
           transaction' = Changed(transaction, retryChanges(s))
    PROVE  Rows!Next
<1>1. Rows!Submitted = Submitted /\ Rows!nextAttemptNumber(attempts) = nextAttemptNumber(attempts)
  BY DEF Rows!Submitted, Submitted, Rows!nextAttemptNumber, nextAttemptNumber,
         Rows!NumbersOf, NumbersOf
<1>2. \A number : Rows!createForPayment(number) = createForPayment(number)
  BY DEF Rows!createForPayment, createForPayment
<1>3. \A row : Rows!supersede(row) = supersede(row) BY DEF Rows!supersede, supersede
<1>4. Rows!Changed(transaction, Rows!retryChanges(s)) = Changed(transaction, retryChanges(s))
  BY DEF Rows!Changed, Changed, Rows!retryChanges, retryChanges
<1>5. Rows!Retry(s) BY <1>1, <1>2, <1>3, <1>4 DEF Rows!Retry
<1> QED BY <1>5 DEF Rows!Next

LEMMA ParentOnlyIs ==
    ASSUME UNCHANGED attempts,
           \/ transaction' = Changed(transaction, cancelChanges)
           \/ \E status \in {"completed", "failed"} :
                 transaction' = Changed(transaction, reconcileChanges(status))
    PROVE  Rows!Next
BY DEF Rows!Next, Rows!Cancel, Rows!Reconcile, Rows!Changed, Changed,
       Rows!cancelChanges, cancelChanges, Rows!reconcileChanges, reconcileChanges

(* A commit ends its transaction, and writes what differs on the parent.    *)
LEMMA CommitIs ==
    ASSUME IInv, NEW h \in Handler, NEW held, NEW changes, Commit(h, held, changes)
    PROVE  /\ attempts' = Merged(held.written)
           /\ transaction' = Changed(transaction, changes)
           /\ adapter' = adapter
           /\ \E u \in Task : /\ u.held = Closed /\ u.phase = "ended" /\ tx' = [tx EXCEPT ![h] = u]
<1>1. tx[h] \in Task /\ ReadParent(h) = transaction /\ tx \in [Handler -> Task]
  BY Fields DEF IInv, TypeOK
<1>2. transaction' = Changed(transaction, changes) BY <1>1, DiffOfTheRow DEF Commit
<1>3. tx' = [tx EXCEPT ![h] = Moved(tx[h], "ended", Closed)] BY <1>1 DEF Commit, Moved
<1>4. "ended" \in Phase BY DEF Phase
<1>5. /\ Moved(tx[h], "ended", Closed) \in Task /\ Moved(tx[h], "ended", Closed).held = Closed
      /\ Moved(tx[h], "ended", Closed).phase = "ended"
  BY <1>1, <1>4, ClosedIsHeld, MovedFields
<1> QED BY <1>2, <1>3, <1>5 DEF Commit, Merged

LEMMA UpdateLeavesOthers ==
    ASSUME IInv, NEW h \in Handler, NEW s \in Submitted, NEW row \in AttemptRow,
           row.number = attempts[s].number, row.superseded = attempts[s].superseded,
           attempts' = [attempts EXCEPT ![s] = row],
           \A g \in Handler \ {h} : s \notin tx[g].held.locks,
           transaction' = transaction \/ ParentHolders(h) = {}
    PROVE  LeavesOthers(h)
<1>1. attempts \in [Session -> AttemptRow \cup {Null}] /\ s \in Session
  BY DEF IInv, TypeOK, Submitted
<1>2. \A u \in Session : attempts'[u] = IF u = s THEN row ELSE attempts[u] BY <1>1
<1>3. row # Null BY NullIsNoRow
<1>4. Submitted' = Submitted BY <1>2, <1>3 DEF Submitted
<1>5. \A g \in Handler : tx[g].held.locks \subseteq Session BY Fields
<1>6. \A g \in Handler \ {h} : tx[g].held.parentLock => transaction' = transaction
  BY DEF ParentHolders
<1>7. \A u \in Submitted : /\ attempts'[u] # Null /\ attempts'[u].number = attempts[u].number
                           /\ attempts[u].superseded => attempts'[u].superseded
  BY <1>2, <1>3 DEF Submitted
<1> QED BY <1>2, <1>4, <1>5, <1>6, <1>7 DEF LeavesOthers

(* The first row of a payment without attempts.                             *)
LEMMA FirstRowLeavesOthers ==
    ASSUME IInv, NEW h \in Handler, Submitted = {}, NEW row \in AttemptRow,
           row.number = nextAttemptNumber(attempts),
           attempts' = [attempts EXCEPT ![FirstSession] = row],
           \A g \in Handler \ {h} : ~Inserting(tx[g]),
           transaction' = transaction \/ ParentHolders(h) = {}
    PROVE  LeavesOthers(h)
<1>1. attempts \in [Session -> AttemptRow \cup {Null}] /\ FirstSession \in Session
  BY SessionAssumption DEF IInv, TypeOK
<1>2. \A u \in Session : attempts'[u] = IF u = FirstSession THEN row ELSE attempts[u] BY <1>1
<1>3. row # Null BY NullIsNoRow
<1>4. Submitted' = Submitted \cup {FirstSession} BY <1>1, <1>2, <1>3 DEF Submitted
<1>5. Adds(h, FirstSession) BY <1>1, <1>2, <1>4 DEF Adds
<1>6. \A g \in Handler \ {h} : tx[g].held.locks = {}
  <2> SUFFICES ASSUME NEW g \in Handler \ {h}, NEW s \in tx[g].held.locks PROVE FALSE OBVIOUS
  <2>1. s \in Session BY Fields
  <2> QED BY <2>1, UncommittedLock
<1>7. \A g \in Handler \ {h} : tx[g].held.parentLock => transaction' = transaction
  BY DEF ParentHolders
<1> QED BY <1>1, <1>4, <1>5, <1>6, <1>7 DEF LeavesOthers

RowsStep == Rows!Next \/ UNCHANGED <<transaction, attempts>>

InFull(h) == transaction' # transaction => transaction'.status = attempts'[tx[h].session].status

(* The end of a transaction: what is left to show is what it does.          *)
LEMMA CommitEnds ==
    ASSUME IInv, NEW h \in Handler, NEW held, NEW changes, Commit(h, held, changes),
           RowsStep, LeavesOthers(h)
    PROVE  IInv'
<1>1. PICK u \in Task : u.held = Closed /\ u.phase = "ended" /\ tx' = [tx EXCEPT ![h] = u]
  BY CommitIs
<1>2. adapter' = adapter BY CommitIs
<1> QED BY <1>1, <1>2, CommitKeeps DEF RowsStep

LEMMA ApplyCallbackSteps ==
    ASSUME IInv, NEW h \in Handler, ApplyCallback(h)
    PROVE  RowsStep /\ IInv' /\ InFull(h)
<1> DEFINE t   == tx[h]
           cb  == t.cb
           row == t.held.attempt
           after == attemptChangesFromCallback(row, cb, cb.status)
           changes == IF shouldPropagate(row, cb.status) THEN callbackChanges(cb, cb.status) ELSE <<>>
           written == Write(t.held, t.session, after)
<1>1. t \in Task /\ HandlerOK(t) /\ t.held \in HeldRows BY Fields
<1>2. t.op = "callback" /\ t.phase = "lockParent" /\ ParentHolders(h) = {}
  BY DEF ApplyCallback, At, Blockers
<1>3. cb \in Callbacks /\ t.session = cb.session /\ cb.session \in Session
  BY <1>1, <1>2, CallbackAssumption DEF HandlerOK, TaskOK
<1>4. t.held.locks = {t.session} /\ (Locked(t) \/ Backfilled(t))
  BY <1>1, <1>2 DEF HandlerOK, CallbackOK
<1>5. /\ attempts \in [Session -> AttemptRow \cup {Null}] /\ transaction \in TransactionRow
      /\ nextAttemptNumber(attempts) \in Nat \ {0}
  BY RowsFacts DEF IInv, RowsGood
<1>6. row \in AttemptRow
  BY <1>3, <1>4, <1>5, RowsAreRows DEF Locked, Backfilled, Submitted
<1>7. after \in AttemptRow /\ after.number = row.number /\ after.superseded = row.superseded
  BY <1>3, <1>6, SettledIsRow
<1>8. \/ t.held.written = NoRows /\ row = attempts[t.session] /\ t.session \in Submitted
      \/ t.held.written = [NoRows EXCEPT ![t.session] = row]
  BY <1>4 DEF Locked, Backfilled
<1>9. PICK final \in AttemptRow :
          /\ final.number = row.number /\ final.superseded = row.superseded
          /\ attempts' = [attempts EXCEPT ![cb.session] = final]
          /\ Rows!Settle(cb, row)
          /\ \E held, some : Commit(h, held, some)
          /\ transaction' # transaction => transaction'.status = final.status
  <2>1. CASE isReplayCallback(row, cb)
    <3>1. Commit(h, t.held, <<>>) BY <2>1 DEF ApplyCallback
    <3>2. attempts' = Merged(t.held.written) /\ transaction' = transaction
      BY <1>5, <3>1, CommitIs, NothingChanged
    <3>3. attempts' = [attempts EXCEPT ![cb.session] = row]
      <4>1. CASE t.held.written = NoRows /\ row = attempts[t.session]
        BY <1>3, <1>5, <3>2, <4>1 DEF Merged, NoRows
      <4>2. CASE t.held.written = [NoRows EXCEPT ![t.session] = row]
        <5>1. Only(cb.session, row, t.held.written) BY <1>3, <4>2 DEF Only, NoRows
        <5>2. attempts' = Put(cb.session, row) BY <1>3, <1>5, <1>6, <3>2, <5>1, MergeOne
        <5> QED BY <5>2 DEF Put
      <4> QED BY <1>8, <4>1, <4>2
    <3>4. Rows!Settle(cb, row) BY <2>1, <3>2, <3>3, SettleIs
    <3> QED BY <1>6, <3>1, <3>2, <3>3, <3>4
  <2>2. CASE ~isReplayCallback(row, cb)
    <3>1. Commit(h, written, changes) BY <2>2 DEF ApplyCallback
    <3>2. written.written = [NoRows EXCEPT ![t.session] = after]
      <4> HIDE DEF after
      <4>1. written.written = [t.held.written EXCEPT ![t.session] = after]
        BY <1>1 DEF Write, HeldRows
      <4> QED BY <1>3, <1>8, <4>1 DEF NoRows
    <3>3. attempts' = Merged(written.written) /\ transaction' = Changed(transaction, changes)
      BY <3>1, CommitIs
    <3>4. attempts' = [attempts EXCEPT ![cb.session] = after]
      <4> HIDE DEF after, written
      <4>1. Only(cb.session, after, written.written) BY <1>3, <3>2 DEF Only, NoRows
      <4>2. attempts' = Put(cb.session, after) BY <1>3, <1>5, <1>7, <3>3, <4>1, MergeOne
      <4> QED BY <4>2 DEF Put
    <3>5. transaction' = IF shouldPropagate(row, cb.status)
                         THEN Changed(transaction, callbackChanges(cb, cb.status))
                         ELSE transaction
      BY <1>5, <3>3, NothingChanged
    <3>6. Rows!Settle(cb, row) BY <2>2, <3>4, <3>5, SettleIs
    <3>7. transaction' # transaction => transaction'.status = after.status
      BY <1>3, <1>5, <1>6, <3>5, SettledIsRow, StatusIsChanged
    <3> QED BY <1>7, <3>1, <3>4, <3>6, <3>7
  <2> QED BY <2>1, <2>2
<1>10. RowsStep
  <2>1. CASE Locked(t) BY <1>3, <1>9, <2>1, ApplyIs DEF Locked, RowsStep
  <2>2. CASE Backfilled(t) BY <1>3, <1>9, <2>2, ApplyToLegacyIs DEF Backfilled, RowsStep
  <2> QED BY <1>4, <2>1, <2>2
<1>11. LeavesOthers(h)
  <2>1. CASE Locked(t)
    <3>1. row.number = attempts[cb.session].number /\ row.superseded = attempts[cb.session].superseded
          /\ cb.session \in Submitted
      BY <1>3, <2>1 DEF Locked
    <3>2. \A g \in Handler \ {h} : cb.session \notin tx[g].held.locks
      BY <1>3, <1>4 DEF IInv, Exclusive, Apart
    <3> QED BY <1>2, <1>9, <3>1, <3>2, UpdateLeavesOthers
  <2>2. CASE Backfilled(t)
    <3>1. Submitted = {} /\ cb.session = FirstSession
      BY <1>3, <2>2, RowsFacts DEF Backfilled, RowsGood, IInv, FirstOK
    <3>2. row.number = nextAttemptNumber(attempts) BY <1>5, <2>2, RowsAreRows DEF Backfilled
    <3>3. \A g \in Handler \ {h} : ~Inserting(tx[g])
      BY <1>2, <2>2 DEF IInv, OneInserter, Inserting, Backfilled
    <3> QED BY <1>2, <1>9, <3>1, <3>2, <3>3, FirstRowLeavesOthers
  <2> QED BY <1>4, <2>1, <2>2
<1>12. InFull(h)
  <2>1. attempts'[cb.session] = final BY <1>3, <1>5, <1>9
  <2> QED BY <1>3, <1>9, <2>1 DEF InFull
<1> QED BY <1>9, <1>10, <1>11, <1>12, CommitEnds

LEMMA EnsureInitialAttemptSteps ==
    ASSUME IInv, NEW h \in Handler, EnsureInitialAttempt(h)
    PROVE  RowsStep /\ IInv'
<1> DEFINE t == tx[h]
           u == [t EXCEPT !.phase = "begin"]
<1>1. t \in Task /\ HandlerOK(t) BY Fields
<1>2. t.phase = "ensure" /\ Blockers(h) = {} BY DEF EnsureInitialAttempt, At
<1>3. /\ t.op = "retry" /\ t.session \in Session /\ t.held = Closed
      /\ t.read \in TransactionRow /\ t.read.session = t.session
      /\ Submitted = {} => t.session = FirstSession
  BY <1>1, <1>2 DEF HandlerOK, TaskOK, FreeOK, FreePhase
<1>4. /\ tx' = [tx EXCEPT ![h] = u] /\ transaction' = transaction /\ adapter' = adapter
      /\ attempts' = IF Submitted = {}
                     THEN [attempts EXCEPT ![t.session] = createFromTransaction(t.read, 1)]
                     ELSE attempts
  BY DEF EnsureInitialAttempt
<1>5. u \in Task /\ u.phase = "begin" /\ u.op = "retry" /\ u.session \in Session /\ u.held = Closed
  BY <1>1, <1>3 DEF Task, Phase
<1> HIDE DEF u
<1>6. PICK v \in Task : v = u BY <1>5
<1>7. CASE Submitted # {}
  <2>1. attempts' = attempts /\ Submitted' = Submitted BY <1>4, <1>7 DEF Submitted
  <2>2. RowsStep BY <1>4, <2>1 DEF RowsStep
  <2>3. LeavesOthers(h) BY <1>4, <2>1 DEF LeavesOthers, Submitted
  <2> QED BY <1>4, <1>5, <1>6, <1>7, <2>1, <2>2, <2>3, CommitKeeps DEF RowsStep
<1>8. CASE Submitted = {}
  <2> DEFINE row == createFromTransaction(t.read, 1)
  <2>1. row \in AttemptRow /\ row.number = 1 BY <1>3, RowsAreRows
  <2>2. attempts' = [attempts EXCEPT ![FirstSession] = row] BY <1>3, <1>4, <1>8
  <2>3. nextAttemptNumber(attempts) = 1 BY <1>8 DEF nextAttemptNumber, NumbersOf, Submitted
  <2>4. transaction.session = FirstSession BY <1>8 DEF IInv, FirstOK
  <2>5. RowsStep BY <1>3, <1>4, <1>8, <2>2, <2>4, EnsureIs DEF RowsStep
  <2>6. KeyHolders(h) = {} BY <1>2, <1>8 DEF Blockers
  <2>7. \A g \in Handler \ {h} : ~Inserting(tx[g]) BY <1>3, <1>8, <2>6, NoOtherInserter
  <2> HIDE DEF row
  <2>8. LeavesOthers(h) BY <1>4, <1>8, <2>1, <2>2, <2>3, <2>7, FirstRowLeavesOthers
  <2>9. Submitted' # {}
    <3>1. attempts'[FirstSession] = row /\ FirstSession \in Session
      BY <2>2, SessionAssumption DEF IInv, TypeOK
    <3> QED BY <2>1, <3>1, NullIsNoRow DEF Submitted
  <2> QED BY <1>4, <1>5, <1>6, <2>5, <2>8, <2>9, CommitKeeps DEF RowsStep
<1> QED BY <1>7, <1>8

(* A rejected callback that does not reach the parent commits at once.      *)
LEMMA FailAttemptSteps ==
    ASSUME IInv, NEW h \in Handler, FailAttempt(h)
    PROVE  RowsStep /\ IInv'
<1> DEFINE t   == tx[h]
           cb  == t.cb
           row == attempts[t.session]
           after == attemptChangesFromCallback(row, cb, "failed")
           held == Write(t.held, t.session, after)
           u == Moved(t, "lockParent", held)
<1>1. t \in Task /\ HandlerOK(t) /\ t.held \in HeldRows /\ \A other : Seen(other) = other BY Fields
<1>2. t.phase = "failAttempt" /\ RowHolders(h, t.session) = {} BY DEF FailAttempt, At, Blockers
<1>3. /\ t.op = "fail" /\ cb \in Callbacks /\ t.session = cb.session /\ t.session \in Submitted
      /\ t.held = Closed
  BY <1>1, <1>2 DEF HandlerOK, TaskOK, FreeOK, FreePhase
<1>4. t.session \in Session BY <1>3 DEF Submitted
<1>5. attempts \in [Session -> AttemptRow \cup {Null}] /\ transaction \in TransactionRow
      /\ row \in AttemptRow
  BY <1>3 DEF IInv, TypeOK, Submitted
<1>6. after \in AttemptRow /\ after.number = row.number /\ after.superseded = row.superseded
  BY <1>3, <1>5, SettledIsRow
<1>7. \A g \in Handler \ {h} : t.session \notin tx[g].held.locks BY <1>2 DEF RowHolders
<1>8. /\ held \in HeldRows /\ held.locks = {t.session} /\ ~held.parentLock
      /\ held.written = [NoRows EXCEPT ![t.session] = after]
  <2> HIDE DEF after
  <2> QED BY <1>1, <1>3, <1>4, <1>6, ClosedIsHeld DEF Write, HeldRows
<1>9. CASE shouldPropagate(row, "failed")
  <2>1. Advance(h, "lockParent", held) BY <1>1, <1>9 DEF FailAttempt
  <2>2. RowsStep BY <2>1 DEF Advance, NoRowChanges, RowsStep
  <2>3. "lockParent" \in Phase BY DEF Phase
  <2>4. /\ u.op = t.op /\ u.cb = t.cb /\ u.session = t.session
        /\ u.phase = "lockParent" /\ u.held = held
    BY <1>1, <1>8, <2>3, MovedFields
  <2>5. HandlerOK(u) /\ ~Inserting(u)
    <3> HIDE DEF u, held
    <3> QED BY <1>3, <1>8, <1>9, <2>4
            DEF HandlerOK, TaskOK, FreeOK, FreePhase, BackfillOK, SupersedeOK, InsertOK, CallbackOK,
                FailOK, RetryOK, Inserting
  <2>6. \A g \in Handler \ {h} : Apart(held, tx[g].held)
    <3> HIDE DEF held
    <3> QED BY <1>4, <1>7, <1>8, OwnLocksAreApart
  <2> QED BY <1>8, <2>1, <2>2, <2>3, <2>5, <2>6, AdvanceKeeps
<1>10. CASE ~shouldPropagate(row, "failed")
  <2>1. Commit(h, held, <<>>) BY <1>1, <1>10 DEF FailAttempt
  <2> HIDE DEF held, after
  <2>2. attempts' = Merged(held.written) /\ transaction' = transaction
    BY <1>5, <2>1, CommitIs, NothingChanged
  <2>3. Only(t.session, after, held.written) BY <1>4, <1>8 DEF Only, NoRows
  <2>4. attempts' = Put(t.session, after) BY <1>4, <1>5, <1>6, <2>2, <2>3, MergeOne
  <2>5. RowsStep BY <1>3, <1>10, <2>2, <2>4, FailIs DEF Put, after, RowsStep
  <2>6. LeavesOthers(h)
    BY <1>3, <1>6, <1>7, <2>2, <2>4, UpdateLeavesOthers DEF Put
  <2> QED BY <2>1, <2>5, <2>6, CommitEnds
<1> QED BY <1>9, <1>10

LEMMA CommitFailSteps ==
    ASSUME IInv, NEW h \in Handler, At(h, "lockParent"), tx[h].op = "fail",
           Commit(h, tx[h].held, callbackChanges(tx[h].cb, "failed"))
    PROVE  RowsStep /\ IInv' /\ InFull(h)
<1> DEFINE t   == tx[h]
           cb  == t.cb
           row == attempts[t.session]
           after == attemptChangesFromCallback(row, cb, "failed")
<1>1. t \in Task /\ HandlerOK(t) /\ t.held \in HeldRows BY Fields
<1>2. t.phase = "lockParent" /\ ParentHolders(h) = {} BY DEF At, Blockers
<1>3. /\ cb \in Callbacks /\ t.session = cb.session /\ t.session \in Submitted
      /\ t.held.locks = {t.session} /\ shouldPropagate(row, "failed")
      /\ t.held.written = [NoRows EXCEPT ![t.session] = after]
  BY <1>1, <1>2 DEF HandlerOK, TaskOK, FailOK
<1>4. t.session \in Session BY <1>3 DEF Submitted
<1>5. attempts \in [Session -> AttemptRow \cup {Null}] /\ row \in AttemptRow
  BY <1>3 DEF IInv, TypeOK, Submitted
<1>6. /\ after \in AttemptRow /\ after.number = row.number /\ after.superseded = row.superseded
      /\ after.status = "failed"
  BY <1>3, <1>5, SettledIsRow
<1>7. attempts' = Merged(t.held.written) /\ transaction' = Changed(transaction, callbackChanges(cb, "failed"))
  BY CommitIs
<1> HIDE DEF after
<1>8. Only(t.session, after, t.held.written) BY <1>3, <1>4 DEF Only, NoRows
<1>9. attempts' = Put(t.session, after) BY <1>4, <1>5, <1>6, <1>7, <1>8, MergeOne
<1>10. RowsStep BY <1>3, <1>7, <1>9, FailIs DEF Put, after, RowsStep
<1>11. \A g \in Handler \ {h} : t.session \notin tx[g].held.locks
  BY <1>3 DEF IInv, Exclusive, Apart
<1>12. LeavesOthers(h) BY <1>2, <1>3, <1>6, <1>9, <1>11, UpdateLeavesOthers DEF Put
<1>13. InFull(h)
  <2>1. attempts'[t.session] = after BY <1>4, <1>5, <1>9 DEF Put
  <2>2. transaction'.status = "failed" BY <1>7, StatusIsChanged DEF IInv, TypeOK
  <2> QED BY <1>6, <2>1, <2>2 DEF InFull
<1> QED BY <1>10, <1>12, <1>13, CommitEnds

(* A retry supersedes the rows in reach, which are all that are live.       *)
LEMMA CommitRetrySteps ==
    ASSUME IInv, NEW h \in Handler, At(h, "lockParent"), tx[h].op = "retry",
           Commit(h, tx[h].held, retryChanges(tx[h].session))
    PROVE  RowsStep /\ IInv'
<1> DEFINE t == tx[h]
           number == nextAttemptNumber(attempts)
           created == createForPayment(number)
<1>1. HandlerOK(t) BY Fields
<1>2. t.phase = "lockParent" /\ ParentHolders(h) = {} BY DEF At, Blockers
<1>3. t.session \in Session /\ Submitted # {} BY <1>1, <1>2 DEF HandlerOK, TaskOK
<1>4. /\ t.session \notin Submitted /\ t.session \in t.held.locks
      /\ \A s \in Session : Live(s) => s \in t.held.locks
      /\ t.held.written = [s \in Session |-> IF s = t.session THEN created
                                             ELSE Superseded(s, t.held.locks)]
  BY <1>1, <1>2 DEF HandlerOK, RetryOK, Reaches
<1>5. attempts \in [Session -> AttemptRow \cup {Null}] /\ number \in Nat \ {0}
  BY RowsFacts DEF IInv, RowsGood
<1>6. created \in AttemptRow /\ created.number = number /\ created # Null
  BY <1>5, RowsAreRows, NullIsNoRow
<1> HIDE DEF created, number
<1>7. attempts' = Merged(t.held.written) /\ transaction' = Changed(transaction, retryChanges(t.session))
  BY CommitIs
<1>8. \A s \in Submitted :
         /\ attempts[s] \in AttemptRow /\ supersede(attempts[s]) \in AttemptRow
         /\ supersede(attempts[s]) # Null
         /\ supersede(attempts[s]).number = attempts[s].number
         /\ supersede(attempts[s]).superseded
         /\ attempts[s].superseded => supersede(attempts[s]) = attempts[s]
  BY <1>5, RowsAreRows, NullIsNoRow DEF Submitted
<1>9. \A s \in Session : Merged(t.held.written)[s] =
         IF s = t.session THEN created ELSE IF s \in Submitted THEN supersede(attempts[s]) ELSE Null
  <2> SUFFICES ASSUME NEW s \in Session
               PROVE  Merged(t.held.written)[s] =
                        IF s = t.session THEN created
                        ELSE IF s \in Submitted THEN supersede(attempts[s]) ELSE Null
    OBVIOUS
  <2>1. t.held.written[s] = IF s = t.session THEN created ELSE Superseded(s, t.held.locks)
    BY <1>4
  <2>2. CASE s = t.session BY <1>6, <2>1, <2>2 DEF Merged
  <2>3. CASE s # t.session /\ Live(s) BY <1>4, <1>8, <2>1, <2>3 DEF Merged, Superseded, Live
  <2>4. CASE s # t.session /\ ~Live(s) BY <1>8, <2>1, <2>4 DEF Merged, Superseded, Live, Submitted
  <2> QED BY <2>2, <2>3, <2>4
<1>10. attempts' = [s \in Session |->
          IF s = t.session THEN created ELSE IF s \in Submitted THEN supersede(attempts[s]) ELSE Null]
  BY <1>7, <1>9 DEF Merged
<1>11. RowsStep BY <1>3, <1>4, <1>7, <1>10, RetryIs DEF RowsStep, created, number
<1>12. Submitted' = Submitted \cup {t.session}
  BY <1>3, <1>6, <1>8, <1>10 DEF Submitted
<1>13. \A g \in Handler \ {h} : ~Inserting(tx[g])
  BY <1>2, <1>4 DEF IInv, OneInserter, Inserting
<1>14. \A s \in Submitted : /\ attempts'[s] # Null /\ attempts'[s].number = attempts[s].number
                            /\ attempts[s].superseded => attempts'[s].superseded
  BY <1>4, <1>8, <1>10 DEF Submitted
<1>15. Adds(h, t.session)
  <2>1. attempts'[t.session] = created BY <1>3, <1>10
  <2> QED BY <1>3, <1>6, <1>12, <1>13, <2>1 DEF Adds, number
<1>16. \A g \in Handler \ {h} : \A s \in tx[g].held.locks : attempts'[s] = attempts[s]
  <2> SUFFICES ASSUME NEW g \in Handler \ {h}, NEW s \in tx[g].held.locks
               PROVE  attempts'[s] = attempts[s]
    OBVIOUS
  <2>1. s \in Session /\ s \notin t.held.locks BY Fields DEF IInv, Exclusive, Apart
  <2>2. s # t.session /\ ~Live(s) BY <1>4, <2>1
  <2>3. s \in Submitted BY <1>13, <2>1, UncommittedLock
  <2> QED BY <1>8, <1>10, <2>1, <2>2, <2>3 DEF Live
<1>17. \A g \in Handler \ {h} : tx[g].held.parentLock => transaction' = transaction
  BY <1>2 DEF ParentHolders
<1>18. LeavesOthers(h) BY <1>3, <1>12, <1>14, <1>15, <1>16, <1>17 DEF LeavesOthers
<1> QED BY <1>11, <1>18, CommitEnds

LEMMA ParentRowSession ==
    ASSUME NEW row \in TransactionRow
    PROVE  /\ Changed(row, cancelChanges).session = row.session
           /\ \A status : Changed(row, reconcileChanges(status)).session = row.session
<1>1. DOMAIN row = {"session", "status", "id", "message"} BY DEF TransactionRow
<1> QED BY <1>1 DEF Changed, cancelChanges, reconcileChanges

(* Cancellation and reconciliation write the parent alone.                  *)
LEMMA CommitParentSteps ==
    ASSUME IInv, NEW h \in Handler, At(h, "lockParent"), tx[h].op \in {"cancel", "reconcile"},
           \/ Commit(h, tx[h].held, cancelChanges)
           \/ \E status \in {"completed", "failed"} : Commit(h, tx[h].held, reconcileChanges(status))
    PROVE  RowsStep /\ IInv'
<1>1. tx[h].held = Closed /\ ParentHolders(h) = {}
  BY Fields DEF At, Blockers, HandlerOK, FreeOK
<1>2. attempts \in [Session -> AttemptRow \cup {Null}] /\ transaction \in TransactionRow
  BY DEF IInv, TypeOK
<1>3. PICK changes : /\ Commit(h, tx[h].held, changes)
                     /\ \/ changes = cancelChanges
                        \/ \E status \in {"completed", "failed"} : changes = reconcileChanges(status)
  OBVIOUS
<1>4. attempts' = Merged(Closed.written) /\ transaction' = Changed(transaction, changes)
  BY <1>1, <1>3, CommitIs
<1>5. Merged(Closed.written) = attempts BY <1>2, ClosedIsHeld DEF Merged, NoRows
<1>6. attempts' = attempts /\ Submitted' = Submitted BY <1>4, <1>5 DEF Submitted
<1>7. RowsStep BY <1>3, <1>4, <1>6, ParentOnlyIs DEF RowsStep
<1>8. transaction'.session = transaction.session BY <1>2, <1>3, <1>4, ParentRowSession
<1>9. LeavesOthers(h) BY <1>1, <1>6, <1>8 DEF LeavesOthers, ParentHolders, Submitted
<1> QED BY <1>3, <1>7, <1>9, CommitEnds

LEMMA UpdateParentSteps ==
    ASSUME IInv, NEW h \in Handler, UpdateParent(h)
    PROVE  /\ RowsStep /\ IInv'
           /\ tx[h].op = "fail" => InFull(h)
BY CommitFailSteps, CommitRetrySteps, CommitParentSteps DEF UpdateParent

---------------------------------------------------------------------------
(* Every step is one of the abstract specification, or changes no row.      *)

LEMMA StartSteps ==
    ASSUME IInv, NEW h \in Handler,
           \/ \E cb \in Callbacks : StartCallback(h, cb) \/ StartFail(h, cb)
           \/ StartRetry(h) \/ StartCancel(h) \/ StartReconcile(h)
    PROVE  RowsStep /\ IInv'
<1>1. ASSUME NEW op, NEW cb, NEW session, NEW phase, Request(h, op, cb, session, phase)
      PROVE  RowsStep
  BY <1>1 DEF Request, NoRowChanges, RowsStep
<1>2. /\ {"callback", "fail", "retry", "cancel", "reconcile"} \subseteq Operation
      /\ \A cb \in Callbacks : cb.session \in Session
      /\ transaction.session \in Session
  BY CallbackAssumption DEF Operation, IInv, TypeOK, TransactionRow
<1>3. ASSUME NEW cb \in Callbacks, StartCallback(h, cb) PROVE RowsStep /\ IInv'
  <2>1. Request(h, "callback", cb, cb.session, "begin") BY <1>3 DEF StartCallback
  <2> QED BY <1>1, <1>2, <2>1, RequestKeeps
<1>4. ASSUME NEW cb \in Callbacks, StartFail(h, cb) PROVE RowsStep /\ IInv'
  <2>1. Request(h, "fail", cb, cb.session, "begin") /\ cb.session \in Submitted
    BY <1>2, <1>4 DEF StartFail, Submitted
  <2> QED BY <1>1, <1>2, <2>1, RequestKeeps
<1>5. CASE StartRetry(h)
  <2>1. Request(h, "retry", Null, transaction.session, "ensure") BY <1>5 DEF StartRetry
  <2> QED BY <1>1, <1>2, <2>1, RequestKeeps
<1>6. CASE StartCancel(h)
  <2>1. Request(h, "cancel", Null, Null, "begin") BY <1>6 DEF StartCancel
  <2> QED BY <1>1, <1>2, <2>1, RequestKeeps
<1>7. CASE StartReconcile(h)
  <2>1. Request(h, "reconcile", Null, Null, "begin") BY <1>7 DEF StartReconcile
  <2> QED BY <1>1, <1>2, <2>1, RequestKeeps
<1> QED BY <1>3, <1>4, <1>5, <1>6, <1>7

LEMMA EndSteps ==
    ASSUME IInv, NEW h \in Handler, End(h)
    PROVE  RowsStep /\ IInv' /\ InFull(h)
BY EndKeeps DEF End, Advance, NoRowChanges, RowsStep, InFull

LEMMA WorkSteps ==
    ASSUME IInv, NEW h \in Handler, Work(h)
    PROVE  RowsStep /\ IInv'
<1>1. ASSUME NoRowChanges PROVE RowsStep BY <1>1 DEF NoRowChanges, RowsStep
<1>2. CASE Begin(h) BY <1>1, <1>2, BeginKeeps DEF Begin, Advance
<1>3. CASE LockAttempt(h) BY <1>1, <1>3, LockAttemptKeeps DEF LockAttempt, Advance, End
<1>4. CASE LockLegacy(h) BY <1>1, <1>4, LockLegacyKeeps DEF LockLegacy, Advance, End
<1>5. CASE InsertBackfill(h) BY <1>1, <1>5, InsertBackfillKeeps DEF InsertBackfill, Advance, End
<1>6. CASE Supersede(h) BY <1>1, <1>6, SupersedeKeeps DEF Supersede, Advance
<1>7. CASE InsertAttempt(h) BY <1>1, <1>7, InsertAttemptKeeps DEF InsertAttempt, Advance
<1>8. ASSUME NEW session \in Session, NextNumber(h, session) PROVE RowsStep /\ IInv'
  BY <1>1, <1>8, NextNumberKeeps DEF NextNumber
<1>9. CASE ApplyCallback(h) BY <1>9, ApplyCallbackSteps
<1>10. CASE FailAttempt(h) BY <1>10, FailAttemptSteps
<1>11. CASE EnsureInitialAttempt(h) BY <1>11, EnsureInitialAttemptSteps
<1>12. CASE UpdateParent(h) BY <1>12, UpdateParentSteps
<1> QED BY <1>2, <1>3, <1>4, <1>5, <1>6, <1>7, <1>8, <1>9, <1>10, <1>11, <1>12 DEF Work

LEMMA NextSteps == IInv /\ [Next]_vars => RowsStep /\ IInv'
<1> SUFFICES ASSUME IInv, [Next]_vars PROVE RowsStep /\ IInv' OBVIOUS
<1>1. ASSUME NEW h \in Handler,
             \/ \E cb \in Callbacks : StartCallback(h, cb) \/ StartFail(h, cb)
             \/ StartRetry(h) \/ StartCancel(h) \/ StartReconcile(h)
      PROVE  RowsStep /\ IInv'
  BY <1>1, StartSteps
<1>2. ASSUME NEW h \in Handler, Work(h) PROVE RowsStep /\ IInv' BY <1>2, WorkSteps
<1>3. ASSUME NEW h \in Handler, Victim(h) \/ Abort(h) PROVE RowsStep /\ IInv'
  BY <1>3, EndSteps DEF Victim, Abort
<1>4. CASE UNCHANGED vars
  <2>1. UNCHANGED <<transaction, attempts, adapter>> /\ tx' = tx BY <1>4 DEF vars
  <2>2. RowsStep BY <2>1 DEF RowsStep
  <2>3. RowsInv' BY <2>2, RowsStepKeeps DEF IInv, RowsStep
  <2>4. HandlersOK'
    <3> SUFFICES ASSUME NEW g \in Handler PROVE HandlerOK(tx[g])' BY DEF HandlersOK
    <3>1. PICK t : t = tx[g] OBVIOUS
    <3>2. HandlerOK(t)' BY <2>1, <3>1, SameRowsSameNeeds DEF IInv, HandlersOK
    <3> QED BY <2>1, <3>1, <3>2
  <2>5. Exclusive' /\ OneInserter' /\ FirstOK'
    BY <2>1 DEF IInv, Exclusive, OneInserter, Inserting, FirstOK, Submitted
  <2>6. TypeOK' /\ ~StaleReads' BY <2>1 DEF IInv, TypeOK, StaleReads
  <2> QED BY <2>2, <2>3, <2>4, <2>5, <2>6 DEF IInv
<1> QED BY <1>1, <1>2, <1>3, <1>4 DEF Next

LEMMA InitEstablishes == NoStaleReads /\ Init => IInv
<1> SUFFICES ASSUME NoStaleReads, Init PROVE IInv OBVIOUS
<1>1. Rows!Init BY DEF Init
<1>2. RowsInv BY <1>1, RowsInitEstablishes
<1>3. TypeOK
  <2>1. transaction \in TransactionRow /\ attempts \in [Session -> AttemptRow \cup {Null}]
    BY <1>2, RowsFacts DEF RowsGood
  <2> QED BY <2>1, IdleIsTask DEF Init, TypeOK
<1>4. ~StaleReads BY DEF NoStaleReads, Init, StaleReads
<1>5. \A h \in Handler : tx[h] = Idle BY DEF Init
<1>6. HandlerOK(Idle) /\ ~Inserting(Idle) BY IdleIsTask, RestIsOK
<1>7. HandlersOK /\ OneInserter BY <1>5, <1>6 DEF HandlersOK, OneInserter
<1>8. Exclusive BY <1>5, IdleIsTask, ClosedIsHeld DEF Exclusive, Apart
<1>9. FirstOK
  <2>1. Rows!Init BY DEF Init
  <2>2. transaction.session = FirstSession BY <2>1 DEF Rows!Init
  <2>3. Submitted # {} => transaction.session \in Submitted BY <1>2, RowsFacts DEF RowsGood
  <2> QED BY <2>2, <2>3 DEF FirstOK
<1> QED BY <1>2, <1>3, <1>4, <1>7, <1>8, <1>9 DEF IInv

(* On an adapter whose locking reads return the row they locked, the        *)
(* statements of the transactions, however they interleave, fail, retry or  *)
(* are rolled back, commit what one transaction after the other would have. *)
THEOREM ImplementsRowsHolds == NoStaleReads => (Spec => ImplementsRows)
<1> SUFFICES ASSUME NoStaleReads PROVE Spec => ImplementsRows OBVIOUS
<1>1. Init => Rows!Init /\ IInv BY InitEstablishes DEF Init
<1>2. IInv /\ [Next]_vars => IInv' BY NextSteps
<1>3. IInv /\ [Next]_vars => [Rows!Next]_(Rows!rows) BY NextSteps DEF RowsStep, Rows!rows
<1> QED BY <1>1, <1>2, <1>3, PTL DEF Spec, ImplementsRows, Rows!Spec

(* One attempt of a payment is current, the one numbered last, however many *)
(* retries, callbacks and backfills collide.                                *)
THEOREM OneCurrentAttemptHolds == NoStaleReads => (Spec => []OneCurrentAttempt)
<1> SUFFICES ASSUME NoStaleReads PROVE Spec => []OneCurrentAttempt OBVIOUS
<1>1. Init => IInv BY InitEstablishes
<1>2. IInv /\ [Next]_vars => IInv' BY NextSteps
<1>3. IInv => OneCurrentAttempt
  BY DEF IInv, RowsInv, OneCurrentAttempt, Rows!NumberedAttempts
<1> QED BY <1>1, <1>2, <1>3, PTL DEF Spec

(* The step of a handler is its own.                                        *)
LEMMA OthersStay ==
    ASSUME TypeOK, NEW k \in Handler, NEW h \in Handler \ {k},
           \/ \E cb \in Callbacks : StartCallback(k, cb) \/ StartFail(k, cb)
           \/ StartRetry(k) \/ StartCancel(k) \/ StartReconcile(k)
           \/ Work(k) \/ Victim(k) \/ Abort(k)
    PROVE  tx'[h] = tx[h]
<1>1. ASSUME NEW phase, NEW held, Advance(k, phase, held) PROVE tx'[h] = tx[h]
  BY <1>1 DEF Advance, TypeOK
<1>2. ASSUME NEW held, NEW changes, Commit(k, held, changes) PROVE tx'[h] = tx[h]
  BY <1>2 DEF Commit, TypeOK
<1>3. ASSUME NEW op, NEW cb, NEW session, NEW phase, Request(k, op, cb, session, phase)
      PROVE  tx'[h] = tx[h]
  BY <1>3 DEF Request, TypeOK
<1>4. ASSUME \E cb \in Callbacks : StartCallback(k, cb) \/ StartFail(k, cb) PROVE tx'[h] = tx[h]
  BY <1>3, <1>4 DEF StartCallback, StartFail
<1>5. ASSUME StartRetry(k) \/ StartCancel(k) \/ StartReconcile(k) PROVE tx'[h] = tx[h]
  BY <1>3, <1>5 DEF StartRetry, StartCancel, StartReconcile
<1>6. ASSUME Begin(k) \/ LockAttempt(k) \/ LockLegacy(k) \/ InsertBackfill(k) \/ Supersede(k)
      PROVE  tx'[h] = tx[h]
  BY <1>1, <1>6 DEF Begin, LockAttempt, LockLegacy, InsertBackfill, Supersede, End
<1>7. ASSUME ApplyCallback(k) \/ FailAttempt(k) \/ UpdateParent(k) PROVE tx'[h] = tx[h]
  BY <1>1, <1>2, <1>7 DEF ApplyCallback, FailAttempt, UpdateParent
<1>8. ASSUME EnsureInitialAttempt(k) \/ InsertAttempt(k) \/ \E session \in Session : NextNumber(k, session)
      PROVE  tx'[h] = tx[h]
  BY <1>1, <1>8 DEF EnsureInitialAttempt, InsertAttempt, NextNumber, TypeOK
<1>9. ASSUME Victim(k) \/ Abort(k) PROVE tx'[h] = tx[h]
  BY <1>1, <1>9 DEF Victim, Abort, End
<1> QED BY <1>4, <1>5, <1>6, <1>7, <1>8, <1>9 DEF Work

(* A result that reaches the parent reaches it whole, unless the parent was *)
(* read from a snapshot older than its lock.                                *)
THEOREM PropagatedInFullHolds == NoStaleReads => (Spec => PropagatedInFull)
<1> SUFFICES ASSUME NoStaleReads PROVE Spec => PropagatedInFull OBVIOUS
<1> DEFINE Full == \A h \in Handler :
                      /\ tx[h].op \in {"callback", "fail"}
                      /\ tx[h].phase = "lockParent" /\ tx'[h].phase = "ended"
                      /\ transaction' # transaction
                      => transaction'.status = attempts'[tx[h].session].status
<1>1. Init => IInv BY InitEstablishes
<1>2. IInv /\ [Next]_vars => IInv' BY NextSteps
<1>3. IInv /\ [Next]_vars => [Full]_vars
  <2> SUFFICES ASSUME IInv, Next, NEW h \in Handler,
                      tx[h].op \in {"callback", "fail"},
                      tx[h].phase = "lockParent", tx'[h].phase = "ended"
               PROVE  InFull(h)
    BY DEF InFull
  <2>1. PICK k \in Handler :
            \/ \E cb \in Callbacks : StartCallback(k, cb) \/ StartFail(k, cb)
            \/ StartRetry(k) \/ StartCancel(k) \/ StartReconcile(k)
            \/ Work(k) \/ Victim(k) \/ Abort(k)
    BY DEF Next
  <2>2. k = h BY <2>1, OthersStay DEF IInv
  <2>3. CASE ApplyCallback(h) BY <2>3, ApplyCallbackSteps
  <2>4. CASE UpdateParent(h)
    <3>1. tx[h].op = "fail" BY <2>4 DEF UpdateParent
    <3> QED BY <2>4, <3>1, UpdateParentSteps
  <2>5. CASE Victim(h) \/ Abort(h) BY <2>5, EndSteps DEF Victim, Abort
  <2>6. ~\E cb \in Callbacks : StartCallback(h, cb) \/ StartFail(h, cb)
    BY DEF StartCallback, StartFail, Request
  <2>7. ~(StartRetry(h) \/ StartCancel(h) \/ StartReconcile(h))
    BY DEF StartRetry, StartCancel, StartReconcile, Request
  <2>8. Work(h) => ApplyCallback(h) \/ UpdateParent(h)
    BY DEF Work, Begin, LockAttempt, LockLegacy, InsertBackfill, FailAttempt, EnsureInitialAttempt,
           Supersede, InsertAttempt, NextNumber, At
  <2> QED BY <2>1, <2>2, <2>3, <2>4, <2>5, <2>6, <2>7, <2>8
<1> QED BY <1>1, <1>2, <1>3, PTL DEF Spec, PropagatedInFull

---------------------------------------------------------------------------
(* Who waits for whom.  Attempt rows come before the parent: a transaction  *)
(* waits for one that is further on, or for a backfill.                     *)

Backfilling(g) == tx[g].phase \in {"insertBackfill", "relock"}

HoldsLive(t) == \E s \in t.held.locks : Live(s)

Progress(t) ==
    IF t.phase = "lockParent" THEN IF t.held.parentLock THEN 4 ELSE 3
    ELSE IF t.phase = "insert" THEN IF HoldsLive(t) THEN 2 ELSE 1
    ELSE 0

(* Who holds a row lock has locked attempts, who holds the parent backfills *)
(* or has backfilled.                                                       *)
LEMMA HoldersAre ==
    ASSUME IInv, NEW g \in Handler
    PROVE  /\ tx[g].held.locks # {} => tx[g].phase \in {"insert", "lockParent"}
           /\ tx[g].held.parentLock => Backfilling(g) \/ tx[g].phase = "lockParent"
<1>1. HandlerOK(tx[g]) /\ tx[g] \in Task BY Fields
<1>2. tx[g].phase \in FreePhase \cup {"insertBackfill", "relock", "supersede", "insert", "lockParent"}
  BY <1>1 DEF Task, Phase, FreePhase
<1>3. tx[g].phase \in FreePhase => tx[g].held.locks = {} /\ ~tx[g].held.parentLock
  BY <1>1, ClosedIsHeld DEF HandlerOK, FreeOK
<1>4. tx[g].phase \in {"insertBackfill", "relock"} => tx[g].held.locks = {}
  BY <1>1 DEF HandlerOK, BackfillOK
<1>5. tx[g].phase = "supersede" => tx[g].held.locks = {} /\ ~tx[g].held.parentLock
  BY <1>1 DEF HandlerOK, SupersedeOK
<1>6. tx[g].phase = "insert" => ~tx[g].held.parentLock
  BY <1>1 DEF HandlerOK, InsertOK
<1> QED BY <1>2, <1>3, <1>4, <1>5, <1>6 DEF Backfilling, Open, FreePhase

LEMMA ProgressIs ==
    ASSUME NEW t
    PROVE  /\ Progress(t) \in 0..4
           /\ t.phase \in {"insert", "lockParent"} => Progress(t) > 0
           /\ t.phase = "lockParent" => Progress(t) > 2
           /\ t.phase \notin {"insert", "lockParent"} => Progress(t) = 0
           /\ t.phase = "lockParent" /\ t.held.parentLock => Progress(t) = 4
           /\ t.phase = "lockParent" /\ ~t.held.parentLock => Progress(t) = 3
           /\ t.phase = "insert" /\ HoldsLive(t) => Progress(t) = 2
           /\ t.phase = "insert" /\ ~HoldsLive(t) => Progress(t) = 1
BY DEF Progress

(* Two retries that insert do not wait for each other.                      *)
LEMMA InsertersAreOrdered ==
    ASSUME IInv, NEW k \in Handler, NEW g \in KeyHolders(k),
           tx[k].phase = "insert", tx[g].phase = "insert"
    PROVE  HoldsLive(tx[g]) /\ ~HoldsLive(tx[k])
<1>1. g \in Handler \ {k} BY DEF KeyHolders
<1>2. HandlerOK(tx[k]) /\ HandlerOK(tx[g]) BY <1>1, Fields
<1>3. tx[k].held.locks \cap tx[g].held.locks = {} BY <1>1 DEF IInv, Exclusive, Apart
<1>4. ~adapter.repeatableRead BY <1>2, <1>3 DEF HandlerOK, InsertOK
<1>5. PICK s \in tx[g].held.locks : tx[g].held.written[s] # Null BY <1>4 DEF KeyHolders
<1>6. s \in Session BY <1>1, Fields
<1>7. Live(s) BY <1>2, <1>5, <1>6 DEF HandlerOK, InsertOK, Superseded
<1>8. \A u : Live(u) => u = s BY <1>7, RowsFacts DEF RowsGood, IInv, Live
<1> QED BY <1>3, <1>5, <1>7, <1>8 DEF HoldsLive

(* Who is waited for is under way, and further on or in a backfill.         *)
LEMMA LockOrder ==
    ASSUME IInv, NEW k \in Handler, NEW g \in Blockers(k)
    PROVE  /\ g \in Handler /\ tx[g].phase \in Open
           /\ tx[k].phase \in Open /\ ~Backfilling(k)
              => Backfilling(g) \/ Progress(tx[g]) > Progress(tx[k])
<1>1. \/ tx[k].phase = "begin" /\ g \in Queued
      \/ tx[k].phase = "ensure" /\ g \in Queued \cup KeyHolders(k)
      \/ tx[k].phase \in {"lockAttempt", "relock"} /\ g \in RowHolders(k, tx[k].session)
      \/ tx[k].phase = "lockLegacy" /\ g \in ParentHolders(k)
      \/ tx[k].phase \in {"insertBackfill", "insert"} /\ g \in KeyHolders(k)
      \/ tx[k].phase = "failAttempt" /\ g \in RowHolders(k, tx[k].session)
      \/ tx[k].phase = "supersede" /\ \E s \in tx[k].held.targets : g \in RowHolders(k, s)
      \/ tx[k].phase = "lockParent" /\ g \in ParentHolders(k)
  BY DEF Blockers, RowReadHolders
<1>2. \/ g \in Queued
      \/ g \in Handler /\ g # k /\ tx[g].held.locks # {}
      \/ g \in Handler /\ g # k /\ tx[g].held.parentLock
  BY <1>1 DEF RowHolders, ParentHolders, KeyHolders
<1>3. g \in Handler /\ tx[g].phase \in Open
  <2>1. CASE g \in Queued BY <2>1 DEF Queued
  <2>2. CASE g \notin Queued
    <3>1. g \in Handler /\ (tx[g].phase \in {"insert", "lockParent"} \/ Backfilling(g))
      BY <1>2, <2>2, HoldersAre
    <3> QED BY <3>1 DEF Backfilling, Open, Phase
  <2> QED BY <2>1, <2>2
<1>4. ASSUME tx[k].phase \in Open, ~Backfilling(k), ~Backfilling(g)
      PROVE  Progress(tx[g]) > Progress(tx[k])
  <2>1. CASE tx[k].phase \in {"lockAttempt", "lockLegacy", "failAttempt", "supersede"}
    <3>1. tx[g].phase \in {"insert", "lockParent"}
      BY <1>1, <1>3, <1>4, <2>1, HoldersAre DEF RowHolders, ParentHolders
    <3>2. Progress(tx[k]) = 0 BY <2>1, ProgressIs
    <3> QED BY <3>1, <3>2, ProgressIs
  <2>2. CASE tx[k].phase = "insert"
    <3>1. g \in KeyHolders(k) BY <1>1, <2>2
    <3>2. tx[g].phase \in {"insert", "lockParent"} BY <1>3, <3>1, HoldersAre DEF KeyHolders
    <3>3. CASE tx[g].phase = "insert"
      <4>1. HoldsLive(tx[g]) /\ ~HoldsLive(tx[k]) BY <2>2, <3>1, <3>3, InsertersAreOrdered
      <4> QED BY <2>2, <3>3, <4>1, ProgressIs
    <3>4. CASE tx[g].phase = "lockParent"
      <4>1. Progress(tx[g]) \in {3, 4} BY <3>4, ProgressIs
      <4>2. Progress(tx[k]) \in {1, 2} BY <2>2, ProgressIs
      <4> QED BY <4>1, <4>2
    <3> QED BY <3>2, <3>3, <3>4
  <2>3. CASE tx[k].phase = "lockParent"
    <3>1. g \in Handler \ {k} /\ tx[g].held.parentLock BY <1>1, <2>3 DEF ParentHolders
    <3>2. tx[g].phase = "lockParent" BY <1>4, <3>1, HoldersAre
    <3>3. ~tx[k].held.parentLock BY <3>1 DEF IInv, Exclusive, Apart
    <3> QED BY <2>3, <3>1, <3>2, <3>3, ProgressIs
  <2> QED BY <1>1, <1>4, <2>1, <2>2, <2>3 DEF Open, Backfilling
<1> QED BY <1>3, <1>4

(* What it is to wait for someone, directly or not.                         *)
LEMMA WaitingIsTransitive ==
    ASSUME IInv, NEW h \in Handler
    PROVE  /\ WaitsFor(h) \subseteq Handler
           /\ Blockers(h) \subseteq WaitsFor(h)
           /\ \A k \in WaitsFor(h) : /\ Blockers(k) \subseteq WaitsFor(h)
                                     /\ WaitsFor(k) \subseteq WaitsFor(h)
           /\ \A S \in SUBSET Handler :
                 Blockers(h) \subseteq S /\ (\A k \in S : Blockers(k) \subseteq S)
                 => WaitsFor(h) \subseteq S
<1> DEFINE Closes(k, S) == Blockers(k) \subseteq S /\ \A j \in S : Blockers(j) \subseteq S
<1>1. \A k \in Handler : WaitsFor(k) = {g \in Handler : \A S \in SUBSET Handler : Closes(k, S) => g \in S}
  BY DEF WaitsFor
<1>2. \A k \in Handler : Blockers(k) \subseteq Handler BY LockOrder
<1> HIDE DEF Closes
<1>3. \A k \in Handler : WaitsFor(k) \subseteq Handler BY <1>1
<1>4. \A k \in Handler : \A S \in SUBSET Handler : Closes(k, S) => WaitsFor(k) \subseteq S BY <1>1
<1>5. Blockers(h) \subseteq WaitsFor(h)
  <2>1. ASSUME NEW S \in SUBSET Handler, Closes(h, S) PROVE Blockers(h) \subseteq S
    BY <2>1 DEF Closes
  <2> QED BY <1>1, <1>2, <2>1
<1>6. \A k \in WaitsFor(h) : Blockers(k) \subseteq WaitsFor(h)
  <2> SUFFICES ASSUME NEW k \in WaitsFor(h) PROVE Blockers(k) \subseteq WaitsFor(h) OBVIOUS
  <2>1. k \in Handler BY <1>3
  <2>2. ASSUME NEW S \in SUBSET Handler, Closes(h, S) PROVE Blockers(k) \subseteq S
    <3>1. k \in S BY <1>4, <2>2
    <3> QED BY <2>2, <3>1 DEF Closes
  <2> QED BY <1>1, <1>2, <2>1, <2>2
<1>7. \A k \in WaitsFor(h) : WaitsFor(k) \subseteq WaitsFor(h)
  <2> SUFFICES ASSUME NEW k \in WaitsFor(h) PROVE WaitsFor(k) \subseteq WaitsFor(h) OBVIOUS
  <2>1. Closes(k, WaitsFor(h)) BY <1>6 DEF Closes
  <2> QED BY <1>3, <1>4, <2>1
<1> QED BY <1>3, <1>4, <1>5, <1>6, <1>7 DEF Closes

LEMMA CyclesBackfill == IInv => DeadlockNeedsBackfill
<1> SUFFICES ASSUME IInv, NEW h \in Handler, InCycle(h),
                    \A g \in WaitsFor(h) : ~Backfilling(g)
             PROVE  FALSE
  BY DEF DeadlockNeedsBackfill, Backfilling
<1>1. tx[h].phase \in Open /\ h \in WaitsFor(h) /\ ~Backfilling(h) BY DEF InCycle
<1> DEFINE S == {g \in WaitsFor(h) : tx[g].phase \in Open /\ Progress(tx[g]) > Progress(tx[h])}
<1>2. S \in SUBSET Handler BY WaitingIsTransitive
<1>3. Blockers(h) \subseteq S
  <2> SUFFICES ASSUME NEW g \in Blockers(h) PROVE g \in S OBVIOUS
  <2>1. g \in WaitsFor(h) BY WaitingIsTransitive
  <2> QED BY <1>1, <2>1, LockOrder
<1>4. \A k \in S : Blockers(k) \subseteq S
  <2> SUFFICES ASSUME NEW k \in S, NEW g \in Blockers(k) PROVE g \in S OBVIOUS
  <2>1. k \in Handler /\ k \in WaitsFor(h) /\ g \in WaitsFor(h) BY <1>2, WaitingIsTransitive
  <2>2. tx[k].phase \in Open /\ ~Backfilling(k) /\ ~Backfilling(g) BY <2>1
  <2>3. tx[g].phase \in Open /\ Progress(tx[g]) > Progress(tx[k]) BY <2>1, <2>2, LockOrder
  <2>4. Progress(tx[k]) > Progress(tx[h]) OBVIOUS
  <2>5. Progress(tx[g]) \in Nat /\ Progress(tx[k]) \in Nat /\ Progress(tx[h]) \in Nat BY ProgressIs
  <2> QED BY <2>1, <2>3, <2>4, <2>5
<1>5. h \in S
  <2> HIDE DEF S
  <2> QED BY <1>1, <1>2, <1>3, <1>4, WaitingIsTransitive
<1>6. Progress(tx[h]) > Progress(tx[h]) BY <1>5
<1>7. Progress(tx[h]) \in Nat BY ProgressIs
<1> QED BY <1>6, <1>7

(* Among transactions that all wait, one that waits for the fewest waits    *)
(* for itself.                                                              *)
LEMMA WaitersCycle == IInv => NobodyWaitsForEver
<1> SUFFICES ASSUME IInv,
                    \E h \in Handler : Waiting(h),
                    \A h \in Handler : Waiting(h) \/ tx[h].phase \in {"idle", "ended"},
                    \A h \in Handler : ~InCycle(h)
             PROVE  FALSE
  BY DEF NobodyWaitsForEver
<1> DEFINE Members == {h \in Handler : tx[h].phase \in Open}
           T == {WaitsFor(h) : h \in Members}
<1>1. \A h \in Members : Blockers(h) # {}
  BY DEF Waiting, Open
<1>2. \A h \in Handler : Blockers(h) \subseteq Members BY LockOrder
<1>3. Members # {} BY <1>2 DEF Waiting
<1>4. T # {} BY <1>3
<1>5. T \subseteq FiniteSubsetsOf(Handler)
  <2> SUFFICES ASSUME NEW h \in Members PROVE WaitsFor(h) \in FiniteSubsetsOf(Handler) OBVIOUS
  <2>1. WaitsFor(h) \in SUBSET Handler BY WaitingIsTransitive
  <2>2. IsFiniteSet(WaitsFor(h)) BY <2>1, HandlerAssumption, FS_Subset
  <2> QED BY <2>1, <2>2 DEF FiniteSubsetsOf
<1>6. IsWellFoundedOn(StrictSubsetOrdering(Handler), FiniteSubsetsOf(Handler))
  BY FS_StrictSubsetOrderingWellFounded
<1>7. PICK W \in T : \A U \in T : ~(<<U, W>> \in StrictSubsetOrdering(Handler))
  <2> HIDE DEF T
  <2> QED BY <1>4, <1>5, <1>6, WFMin
<1>8. PICK h \in Members : W = WaitsFor(h) OBVIOUS
<1>9. PICK g \in Members : g \in Blockers(h) BY <1>1, <1>2, <1>8
<1>10. g \in WaitsFor(h) /\ WaitsFor(g) \subseteq WaitsFor(h) /\ WaitsFor(h) \subseteq Handler
  BY <1>8, <1>9, WaitingIsTransitive
<1>11. g \notin WaitsFor(g) BY <1>9 DEF InCycle
<1>12. WaitsFor(g) # WaitsFor(h) BY <1>10, <1>11
<1>13. <<WaitsFor(g), W>> \in StrictSubsetOrdering(Handler)
  BY <1>8, <1>10, <1>12 DEF StrictSubsetOrdering
<1>14. WaitsFor(g) \in T BY <1>9
<1> QED BY <1>7, <1>13, <1>14

(* Transactions lock attempts first and the parent after: the only cycle    *)
(* goes through the backfill of a payment without attempts.                 *)
THEOREM DeadlockNeedsBackfillHolds == NoStaleReads => (Spec => []DeadlockNeedsBackfill)
<1> SUFFICES ASSUME NoStaleReads PROVE Spec => []DeadlockNeedsBackfill OBVIOUS
<1>1. Init => IInv BY InitEstablishes
<1>2. IInv /\ [Next]_vars => IInv' BY NextSteps
<1>3. IInv => DeadlockNeedsBackfill BY CyclesBackfill
<1> QED BY <1>1, <1>2, <1>3, PTL DEF Spec

(* Transactions that all wait hold each other up, which the database sees:  *)
(* what a transaction left behind never does, however many there are.       *)
THEOREM NobodyWaitsForEverHolds == NoStaleReads => (Spec => []NobodyWaitsForEver)
<1> SUFFICES ASSUME NoStaleReads PROVE Spec => []NobodyWaitsForEver OBVIOUS
<1>1. Init => IInv BY InitEstablishes
<1>2. IInv /\ [Next]_vars => IInv' BY NextSteps
<1>3. IInv => NobodyWaitsForEver BY WaitersCycle
<1> QED BY <1>1, <1>2, <1>3, PTL DEF Spec

---------------------------------------------------------------------------
(***************************************************************************)
(* The reconciliation job, whose results are applied in such transactions,  *)
(* settles a payment as the gateway answered and invoices what it settled:  *)
(* for any number of payments and overlapping runs, any limit and any number*)
(* of retries, errors and runs that are cut short.                         *)
(***************************************************************************)

(* What a run knows past an answer stays true: the gateway never goes back  *)
(* on an outcome.                                                           *)
Answered ==
    \A j \in Jobs :
        job[j].at \in {"apply", "invoice"} /\ job[j].response.result =>
            /\ Decided(Current(j))
            /\ job[j].response.transactionSuccess <=> gateway[Current(j)] = "paid"

InvoicedOnOutcome == \A j \in Jobs : job[j].at = "invoice" => job[j].response.result

(* Whoever still owes a payment its invoice writes the one of the status    *)
(* the payment has, unless that status was overtaken; with nobody left, the *)
(* invoice is written.                                                      *)
Invoices ==
    \A p \in Payments : p \notin overtaken =>
        /\ Owed(p) \subseteq {payment[p].status}
        /\ crashes = 0 /\ Owed(p) = {} => payment[p].invoice = InvoiceOf(payment[p].status)

JobInv == JobTypeOK /\ Answered /\ InvoicedOnOutcome /\ SettledAsAnswered /\ Invoices

PaymentShape == [status : Statuses, heard : Heard, invoice : {"pending", "paid", "cancelled"}]
Notices == [payment : Payments, status : Statuses]

---------------------------------------------------------------------------
(* A page that is not empty has an oldest payment.                          *)
LEMMA OldestIsListed ==
    ASSUME NEW S, S \subseteq Payments, S # {}
    PROVE  Min(S) \in S
<1> DEFINE R == OpToRel(<, Nat)
<1>1. \A x, y \in Nat : x < y => <<x, y>> \in R BY DEF OpToRel
<1>2. IsWellFoundedOn(R, Nat) BY NatLessThanWellFounded
<1> HIDE DEF R
<1>3. S \subseteq Nat BY SettingsAssumption DEF Payments
<1>4. PICK x \in S : \A y \in S : ~(<<y, x>> \in R) BY <1>2, <1>3, WFMin
<1>5. \A y \in S : ~(y < x) BY <1>1, <1>3, <1>4
<1>6. \A y \in S : x <= y BY <1>3, <1>4, <1>5
<1> QED BY <1>4, <1>6 DEF Min

LEMMA CurrentIsListed ==
    ASSUME JobTypeOK, NEW j \in Jobs, job[j].at \in {"ask", "apply", "invoice"}
    PROVE  Current(j) \in job[j].page /\ Current(j) \in Payments
<1>1. job[j] \in Runs /\ job[j].page # {} BY DEF JobTypeOK
<1>2. job[j].page \subseteq Payments BY <1>1 DEF Runs
<1> QED BY <1>1, <1>2, OldestIsListed DEF Current

(* A run that is done with a payment goes on with the next, or reports.     *)
LEMMA ReturnType ==
    ASSUME JobTypeOK, NEW j \in Jobs
    PROVE  /\ Return(j) \in Runs
           /\ Return(j).at \in {"ask", "report"}
           /\ Return(j).at = "report" <=> Return(j).page = {}
<1>1. job[j].page \subseteq Payments BY DEF JobTypeOK, Runs
<1>2. 0 \in 0 .. MaxAttempts - 1 BY SettingsAssumption DEF MaxAttempts
<1> DEFINE page == job[j].page \ {Current(j)}
<1>3. page \subseteq Payments BY <1>1
<1>4. Return(j) = [NoJob EXCEPT !.at = Proceed(page).at, !.page = Proceed(page).page] BY DEF Return
<1> HIDE DEF page
<1>5. Return(j) = [at |-> IF page = {} THEN "report" ELSE "ask", page |-> page, tries |-> 0,
                   response |-> NoResponse]
  BY <1>4 DEF Proceed, NoJob
<1>6. Return(j) \in Runs BY <1>2, <1>3, <1>5 DEF NoResponse, Runs
<1> QED BY <1>5, <1>6

(* What the record of an answer says of an outcome.                         *)
LEMMA OutcomeOf ==
    ASSUME NEW response, response.result
    PROVE  /\ paymentStatusOf(response) = IF response.transactionSuccess THEN "completed" ELSE "failed"
           /\ paymentStatusOf(response) \in Statuses \ {"pending"}
BY DEF paymentStatusOf, Statuses

LEMMA InvoiceType == \A status : InvoiceOf(status) \in {"pending", "paid", "cancelled"}
BY DEF InvoiceOf

---------------------------------------------------------------------------
(* Who owes a payment its invoice.                                          *)
LEMMA OwedBy ==
    ASSUME NEW p, NEW s
    PROVE  s \in Owed(p) <=>
               \/ \E h \in Handlers : notice[h].payment = p /\ notice[h].status = s
               \/ \E j \in Jobs : job[j].at = "invoice" /\ Current(j) = p
                                    /\ paymentStatusOf(job[j].response) = s
BY DEF Owed

LEMMA OwedByNext ==
    ASSUME NEW p, NEW s
    PROVE  s \in Owed(p)' <=>
               \/ \E h \in Handlers : notice'[h].payment = p /\ notice'[h].status = s
               \/ \E j \in Jobs : job'[j].at = "invoice" /\ Current(j)' = p
                                    /\ paymentStatusOf(job'[j].response) = s
BY DEF Owed, paymentStatusOf

(* A step that writes neither payments nor invoices, but may cut a writer   *)
(* short.                                                                   *)
LEMMA InvoicesLeft ==
    ASSUME Invoices, UNCHANGED <<payment, overtaken>>, crashes' = crashes \/ crashes' # 0,
           \A p \in Payments : Owed(p)' \subseteq Owed(p),
           \A p \in Payments : crashes' = 0 => Owed(p)' = Owed(p)
    PROVE  Invoices'
<1> SUFFICES ASSUME NEW p \in Payments, p \notin overtaken'
             PROVE  /\ Owed(p)' \subseteq {payment'[p].status}
                    /\ crashes' = 0 /\ Owed(p)' = {} =>
                           payment'[p].invoice = InvoiceOf(payment'[p].status)
  BY DEF Invoices
<1>1. /\ Owed(p) \subseteq {payment[p].status}
      /\ crashes = 0 /\ Owed(p) = {} => payment[p].invoice = InvoiceOf(payment[p].status)
  BY DEF Invoices
<1>2. Owed(p)' \subseteq {payment'[p].status} BY <1>1
<1>3. crashes' = 0 /\ Owed(p)' = {} => crashes = 0 /\ Owed(p) = {} OBVIOUS
<1> QED BY <1>1, <1>2, <1>3

(* A step that commits a status, and owes its invoice.                      *)
LEMMA InvoicesCommitted ==
    ASSUME Invoices, NEW p \in Payments, NEW status, CommitStatus(p, status),
           payment'[p].status = status, status \in Owed(p)', crashes' = crashes,
           Owed(p)' \subseteq Owed(p) \cup {status},
           \A q \in Payments \ {p} : payment'[q] = payment[q] /\ Owed(q)' = Owed(q)
    PROVE  Invoices'
<1> SUFFICES ASSUME NEW q \in Payments, q \notin overtaken'
             PROVE  /\ Owed(q)' \subseteq {payment'[q].status}
                    /\ crashes' = 0 /\ Owed(q)' = {} =>
                           payment'[q].invoice = InvoiceOf(payment'[q].status)
  BY DEF Invoices
<1>1. q \notin overtaken BY DEF CommitStatus
<1>2. CASE q = p
  <2>1. Owed(p) \subseteq {status} BY <1>2 DEF CommitStatus
  <2> QED BY <1>2, <2>1
<1>3. CASE q # p
  <2>1. payment'[q] = payment[q] /\ Owed(q)' = Owed(q) BY <1>3
  <2>2. /\ Owed(q) \subseteq {payment[q].status}
        /\ crashes = 0 /\ Owed(q) = {} => payment[q].invoice = InvoiceOf(payment[q].status)
    BY <1>1 DEF Invoices
  <2> QED BY <2>1, <2>2
<1> QED BY <1>2, <1>3

(* A step that writes an invoice that was owed.                             *)
LEMMA InvoicesWritten ==
    ASSUME Invoices, NEW p \in Payments, NEW status \in Owed(p), UNCHANGED <<overtaken, crashes>>,
           payment'[p].status = payment[p].status, payment'[p].invoice = InvoiceOf(status),
           Owed(p)' \subseteq Owed(p),
           \A q \in Payments \ {p} : payment'[q] = payment[q] /\ Owed(q)' = Owed(q)
    PROVE  Invoices'
<1> SUFFICES ASSUME NEW q \in Payments, q \notin overtaken'
             PROVE  /\ Owed(q)' \subseteq {payment'[q].status}
                    /\ crashes' = 0 /\ Owed(q)' = {} =>
                           payment'[q].invoice = InvoiceOf(payment'[q].status)
  BY DEF Invoices
<1>1. /\ Owed(q) \subseteq {payment[q].status}
      /\ crashes = 0 /\ Owed(q) = {} => payment[q].invoice = InvoiceOf(payment[q].status)
  BY DEF Invoices
<1>2. CASE q = p
  <2>1. status = payment[p].status BY <1>1, <1>2
  <2> QED BY <1>1, <1>2, <2>1
<1>3. CASE q # p
  <2>1. payment'[q] = payment[q] /\ Owed(q)' = Owed(q) BY <1>3
  <2> QED BY <1>1, <2>1
<1> QED BY <1>2, <1>3

---------------------------------------------------------------------------
(* A step of one run that leaves the payments alone.                        *)
LEMMA RunStep ==
    ASSUME JobInv, NEW j \in Jobs, NEW r \in Runs,
           job' = [job EXCEPT ![j] = r],
           UNCHANGED <<config, mature, gateway, payment, notice, overtaken>>,
           r.at \in {"idle", "report"} <=> r.page = {},
           r.at # "invoice",
           r.at = "apply" /\ r.response.result =>
               /\ Decided(Min(r.page))
               /\ r.response.transactionSuccess <=> gateway[Min(r.page)] = "paid",
           errors' \in Nat, crashes' \in Nat, errors' + crashes' <= MaxFaults,
           crashes' = crashes \/ crashes' # 0,
           job[j].at = "invoice" => crashes' # 0
    PROVE  JobInv'
<1>1. JobTypeOK BY DEF JobInv
<1>2. job'[j] = r /\ (\A k \in Jobs \ {j} : job'[k] = job[k]) /\ job' \in [Jobs -> Runs]
  BY <1>1 DEF JobTypeOK
<1>3. JobTypeOK' BY <1>1, <1>2 DEF JobTypeOK
<1>4. Current(j)' = Min(r.page) BY <1>2 DEF Current
<1>5. \A k \in Jobs \ {j} : Current(k)' = Current(k) BY <1>2 DEF Current
<1>6. Answered'
  <2> SUFFICES ASSUME NEW k \in Jobs, job'[k].at \in {"apply", "invoice"}, job'[k].response.result
               PROVE  /\ Decided(Current(k))'
                      /\ job'[k].response.transactionSuccess <=> gateway'[Current(k)'] = "paid"
    BY DEF Answered
  <2>1. CASE k = j BY <2>1, <1>2, <1>4 DEF Decided
  <2>2. CASE k # j BY <2>2, <1>2, <1>5 DEF JobInv, Answered, Decided
  <2> QED BY <2>1, <2>2
<1>7. InvoicedOnOutcome' BY <1>2 DEF JobInv, InvoicedOnOutcome
<1>8. SettledAsAnswered' BY DEF JobInv, SettledAsAnswered
<1>9. ASSUME NEW p \in Payments, NEW s \in Owed(p)' PROVE s \in Owed(p)
  <2>1. CASE \E h \in Handlers : notice'[h].payment = p /\ notice'[h].status = s BY <2>1, OwedBy
  <2>2. ASSUME NEW k \in Jobs, job'[k].at = "invoice" /\ Current(k)' = p
                 /\ paymentStatusOf(job'[k].response) = s
        PROVE  s \in Owed(p)
    <3>1. k # j BY <1>2, <2>2
    <3>2. job'[k] = job[k] /\ Current(k)' = Current(k) BY <1>2, <1>5, <3>1
    <3> QED BY <2>2, <3>2, OwedBy
  <2> QED BY <1>9, <2>1, <2>2, OwedByNext
<1>10. ASSUME NEW p \in Payments, crashes' = 0, NEW s \in Owed(p) PROVE s \in Owed(p)'
  <2>1. CASE \E h \in Handlers : notice[h].payment = p /\ notice[h].status = s
    BY <2>1, OwedByNext
  <2>2. ASSUME NEW k \in Jobs, job[k].at = "invoice" /\ Current(k) = p
                 /\ paymentStatusOf(job[k].response) = s
        PROVE  s \in Owed(p)'
    <3>1. k # j BY <1>10, <2>2
    <3>2. job'[k] = job[k] /\ Current(k)' = Current(k) BY <1>2, <1>5, <3>1
    <3> QED BY <2>2, <3>2, OwedByNext
  <2> QED BY <1>10, <2>1, <2>2, OwedBy
<1>11. \A p \in Payments : Owed(p)' \subseteq Owed(p) BY <1>9
<1>12. \A p \in Payments : crashes' = 0 => Owed(p)' = Owed(p) BY <1>10, <1>11
<1>13. Invoices' BY <1>11, <1>12, InvoicesLeft DEF JobInv
<1> QED BY <1>3, <1>6, <1>7, <1>8, <1>13 DEF JobInv

LEMMA Started == ASSUME JobInv, NEW j \in Jobs, NEW force \in BOOLEAN, reconcilePending(j, force)
                 PROVE  JobInv'
<1> DEFINE page == listPendingForReconciliation
           next == Proceed(page)
           r == [NoJob EXCEPT !.at = next.at, !.page = next.page]
<1>1. JobTypeOK /\ job[j].at = "idle" BY DEF JobInv, reconcilePending
<1>2. page \subseteq Payments BY DEF listPendingForReconciliation
<1>3. job' = [job EXCEPT ![j] = r] BY DEF reconcilePending
<1>4. 0 \in 0 .. MaxAttempts - 1 BY SettingsAssumption DEF MaxAttempts
<1> HIDE DEF page
<1>5. r \in Runs /\ r.at \in {"ask", "report"} /\ (r.at = "report" <=> r.page = {})
  BY <1>2, <1>4 DEF Proceed, NoJob, NoResponse, Runs
<1> HIDE DEF r
<1>6. UNCHANGED <<config, mature, gateway, payment, notice, overtaken, errors, crashes>> BY DEF reconcilePending
<1>7. errors' \in Nat /\ crashes' \in Nat /\ errors' + crashes' <= MaxFaults
  BY <1>1, <1>6 DEF JobTypeOK
<1> QED BY <1>1, <1>3, <1>5, <1>6, <1>7, RunStep

LEMMA LeftUnconfigured == ASSUME JobInv, NEW j \in Jobs, Unconfigured(j) PROVE JobInv'
<1>1. JobTypeOK /\ job[j].at = "ask" BY DEF JobInv, Unconfigured
<1>2. job' = [job EXCEPT ![j] = Return(j)] BY DEF Unconfigured
<1>3. UNCHANGED <<config, mature, gateway, payment, notice, overtaken, errors, crashes>> BY DEF Unconfigured
<1>4. errors' \in Nat /\ crashes' \in Nat /\ errors' + crashes' <= MaxFaults
  BY <1>1, <1>3 DEF JobTypeOK
<1> QED BY <1>1, <1>2, <1>3, <1>4, ReturnType, RunStep

LEMMA QueryFailed ==
    ASSUME JobInv, NEW j \in Jobs, NEW retryable \in BOOLEAN, queryFails(j, retryable),
           errors' \in Nat, errors' + crashes <= MaxFaults
    PROVE  JobInv'
<1>1. JobTypeOK /\ job[j].at = "ask" /\ job[j] \in Runs /\ job[j].page # {}
  BY DEF JobInv, JobTypeOK, queryFails
<1>2. UNCHANGED <<config, mature, gateway, payment, notice, overtaken, crashes>> BY DEF queryFails
<1>3. crashes' \in Nat /\ errors' + crashes' <= MaxFaults BY <1>1, <1>2 DEF JobTypeOK
<1>4. CASE shouldRetry(retryable, job[j].tries + 1)
  <2> DEFINE r == [job[j] EXCEPT !.tries = @ + 1]
  <2>1. job' = [job EXCEPT ![j] = r] BY <1>4 DEF queryFails
  <2>2. job[j].tries + 1 \in 0 .. MaxAttempts - 1
    BY <1>1, <1>4, SettingsAssumption DEF shouldRetry, Runs, MaxAttempts
  <2>3. r \in Runs /\ r.at = "ask" /\ r.page # {} BY <1>1, <2>2 DEF Runs
  <2> HIDE DEF r
  <2> QED BY <1>1, <1>2, <1>3, <2>1, <2>3, RunStep
<1>5. CASE ~shouldRetry(retryable, job[j].tries + 1)
  <2>1. job' = [job EXCEPT ![j] = Return(j)] BY <1>5 DEF queryFails, GiveUp
  <2> QED BY <1>1, <1>2, <1>3, <2>1, ReturnType, RunStep
<1> QED BY <1>4, <1>5

LEMMA QueryRefused == ASSUME JobInv, NEW j \in Jobs, RefusedQuery(j) PROVE JobInv'
<1>1. errors' \in Nat /\ errors' + crashes <= MaxFaults BY DEF JobInv, JobTypeOK, RefusedQuery
<1> QED BY <1>1, QueryFailed DEF RefusedQuery

LEMMA QueryErred == ASSUME JobInv, NEW j \in Jobs, FailedQuery(j) PROVE JobInv'
<1>1. errors \in Nat /\ crashes \in Nat /\ errors' = errors + 1 /\ errors + crashes < MaxFaults
  BY DEF JobInv, JobTypeOK, FailedQuery
<1>2. errors' \in Nat /\ errors' + crashes <= MaxFaults BY <1>1, SettingsAssumption
<1> QED BY <1>2, QueryFailed DEF FailedQuery

LEMMA QueryAnswered ==
    ASSUME JobInv, NEW j \in Jobs,
           NEW response \in [result : BOOLEAN, transactionSuccess : BOOLEAN], queryOnce(j, response)
    PROVE  JobInv'
<1> DEFINE r == [job[j] EXCEPT !.at = "apply", !.tries = 0, !.response = response]
<1>1. JobTypeOK /\ job[j].at = "ask" /\ job[j] \in Runs /\ job[j].page # {}
  BY DEF JobInv, JobTypeOK, queryOnce
<1>2. UNCHANGED <<config, mature, gateway, payment, notice, overtaken, crashes>> BY DEF queryOnce
<1>3. errors \in Nat /\ crashes \in Nat /\ errors + crashes <= MaxFaults BY <1>1 DEF JobTypeOK
<1>4. errors' = errors \/ (errors + crashes < MaxFaults /\ errors' = errors + 1) BY DEF queryOnce
<1>5. errors' \in Nat /\ crashes' \in Nat /\ errors' + crashes' <= MaxFaults
  BY <1>2, <1>3, <1>4, SettingsAssumption
<1>6. job' = [job EXCEPT ![j] = r] BY <1>1 DEF queryOnce, JobTypeOK
<1>7. 0 \in 0 .. MaxAttempts - 1 BY SettingsAssumption DEF MaxAttempts
<1>8. r \in Runs /\ r.at = "apply" /\ r.page = job[j].page /\ r.response = response
  BY <1>1, <1>7 DEF Runs
<1>9. response.result =>
        /\ Decided(Current(j))
        /\ response.transactionSuccess <=> gateway[Current(j)] = "paid"
  <2>1. response = NoResponse \/ response = transactionStatusResponseFrom(Current(j))
    BY DEF queryOnce
  <2> QED BY <2>1 DEF NoResponse, transactionStatusResponseFrom
<1> HIDE DEF r
<1> QED BY <1>1, <1>2, <1>5, <1>6, <1>8, <1>9, RunStep DEF Current

LEMMA Reported == ASSUME JobInv, NEW j \in Jobs, Report(j) \/ Crash(j) PROVE JobInv'
<1>1. JobTypeOK BY DEF JobInv
<1>2. 0 \in 0 .. MaxAttempts - 1 BY SettingsAssumption DEF MaxAttempts
<1>3. NoJob \in Runs /\ NoJob.at = "idle" /\ NoJob.page = {}
  BY <1>2 DEF NoJob, NoResponse, Runs
<1>4. job' = [job EXCEPT ![j] = NoJob] /\ UNCHANGED <<config, mature, gateway, payment, notice, overtaken, errors>>
  BY DEF Report, Crash
<1>5. errors \in Nat /\ crashes \in Nat /\ errors + crashes <= MaxFaults BY <1>1 DEF JobTypeOK
<1>6. CASE Report(j)
  <2>1. job[j].at = "report" /\ crashes' = crashes BY <1>6 DEF Report
  <2> QED BY <1>3, <1>4, <1>5, <2>1, RunStep
<1>7. CASE Crash(j)
  <2>1. errors + crashes < MaxFaults /\ crashes' = crashes + 1 BY <1>7 DEF Crash
  <2>2. crashes' \in Nat /\ crashes' # 0 /\ errors' + crashes' <= MaxFaults
    BY <1>4, <1>5, <2>1, SettingsAssumption
  <2> QED BY <1>3, <1>4, <1>5, <2>2, RunStep
<1> QED BY <1>6, <1>7

---------------------------------------------------------------------------
(* A step that leaves the runs alone: of the world around them.             *)
LEMMA WorldStep ==
    ASSUME JobInv, UNCHANGED job, JobTypeOK',
           \A p \in Payments : gateway[p] \in {"paid", "refused"} => gateway'[p] = gateway[p],
           SettledAsAnswered', Invoices'
    PROVE  JobInv'
<1>1. JobTypeOK BY DEF JobInv
<1>2. \A j \in Jobs : Current(j)' = Current(j) BY DEF Current
<1>3. Answered'
  <2> SUFFICES ASSUME NEW k \in Jobs, job'[k].at \in {"apply", "invoice"}, job'[k].response.result
               PROVE  /\ Decided(Current(k))'
                      /\ job'[k].response.transactionSuccess <=> gateway'[Current(k)'] = "paid"
    BY DEF Answered
  <2>1. Current(k) \in Payments BY <1>1, CurrentIsListed
  <2>2. /\ Decided(Current(k))
        /\ job[k].response.transactionSuccess <=> gateway[Current(k)] = "paid"
    BY DEF JobInv, Answered
  <2>3. gateway'[Current(k)] = gateway[Current(k)] BY <2>1, <2>2 DEF Decided
  <2> QED BY <1>2, <2>2, <2>3 DEF Decided
<1>4. InvoicedOnOutcome' BY DEF JobInv, InvoicedOnOutcome
<1> QED BY <1>3, <1>4 DEF JobInv

(* Nobody owes more, or less, while runs and requests stay where they are.  *)
LEMMA OwedStays == ASSUME UNCHANGED <<job, notice>> PROVE \A p : Owed(p)' = Owed(p)
BY DEF Owed, Current, paymentStatusOf

LEMMA Aged == ASSUME JobInv, Tick PROVE JobInv'
<1>1. JobTypeOK' BY SettingsAssumption DEF JobInv, JobTypeOK, Tick
<1>2. SettledAsAnswered' BY DEF JobInv, SettledAsAnswered, Tick
<1>3. UNCHANGED <<job, notice, payment, overtaken, crashes, gateway>> BY DEF Tick
<1>4. Invoices' BY <1>3, OwedStays, InvoicesLeft DEF JobInv
<1> QED BY <1>1, <1>2, <1>3, <1>4, WorldStep

LEMMA Paid ==
    ASSUME JobInv, NEW p \in Payments, NEW outcome \in {"paid", "refused"}, Pay(p, outcome)
    PROVE  JobInv'
<1>1. JobTypeOK BY DEF JobInv
<1>2. gateway'[p] = outcome /\ (\A q \in Payments \ {p} : gateway'[q] = gateway[q])
      /\ gateway[p] = "open"
  BY <1>1 DEF JobTypeOK, Pay
<1>3. JobTypeOK' BY <1>1 DEF JobTypeOK, Pay, Known
<1>4. SettledAsAnswered' BY <1>2 DEF JobInv, SettledAsAnswered, Pay
<1>5. UNCHANGED <<job, notice, payment, overtaken, crashes>> BY DEF Pay
<1>6. Invoices' BY <1>5, OwedStays, InvoicesLeft DEF JobInv
<1> QED BY <1>2, <1>3, <1>4, <1>5, <1>6, WorldStep

(* What a callback, or the job, makes of a row.                             *)
LEMMA RowStep ==
    ASSUME JobTypeOK, NEW p \in Payments, NEW row \in PaymentShape,
           payment' = [payment EXCEPT ![p] = row]
    PROVE  /\ payment'[p] = row
           /\ \A q \in Payments \ {p} : payment'[q] = payment[q]
           /\ payment' \in [Payments -> PaymentShape]
BY DEF JobTypeOK, PaymentShape

(* What becomes of a request, and of what the others owe.                   *)
LEMMA NoticeStep ==
    ASSUME JobTypeOK, NEW h \in Handlers, NEW n \in Notices \cup {NoNotice},
           notice' = [notice EXCEPT ![h] = n]
    PROVE  /\ notice'[h] = n
           /\ \A k \in Handlers \ {h} : notice'[k] = notice[k]
           /\ notice' \in [Handlers -> Notices \cup {NoNotice}]
BY DEF JobTypeOK, Notices

LEMMA OwedAside ==
    ASSUME UNCHANGED job, NEW h \in Handlers, NEW p \in Payments,
           \A k \in Handlers \ {h} : notice'[k] = notice[k],
           notice[h].payment # p, notice'[h].payment # p
    PROVE  Owed(p)' = Owed(p)
<1>1. \A k \in Jobs : Current(k)' = Current(k) BY DEF Current
<1>2. ASSUME NEW s PROVE s \in Owed(p)' <=> s \in Owed(p)
  <2>1. (\E k \in Handlers : notice'[k].payment = p /\ notice'[k].status = s)
        <=> \E k \in Handlers : notice[k].payment = p /\ notice[k].status = s
    OBVIOUS
  <2>2. (\E j \in Jobs : job'[j].at = "invoice" /\ Current(j)' = p
                           /\ paymentStatusOf(job'[j].response) = s)
        <=> \E j \in Jobs : job[j].at = "invoice" /\ Current(j) = p
                             /\ paymentStatusOf(job[j].response) = s
    BY <1>1
  <2> QED BY <2>1, <2>2, OwedBy, OwedByNext
<1> QED BY <1>2

(* A request that is over owes nothing.                                     *)
LEMMA OwedLess ==
    ASSUME UNCHANGED job, NEW h \in Handlers, NEW p \in Payments,
           \A k \in Handlers \ {h} : notice'[k] = notice[k], notice'[h] = NoNotice
    PROVE  Owed(p)' \subseteq Owed(p)
<1>1. \A k \in Jobs : Current(k)' = Current(k) BY DEF Current
<1>2. p # 0 BY SettingsAssumption DEF Payments
<1>3. notice'[h].payment # p BY <1>2 DEF NoNotice
<1>4. ASSUME NEW s \in Owed(p)' PROVE s \in Owed(p)
  <2>1. ASSUME NEW k \in Handlers, notice'[k].payment = p /\ notice'[k].status = s
        PROVE  s \in Owed(p)
    <3>1. k # h BY <1>3, <2>1
    <3> QED BY <2>1, <3>1, OwedBy
  <2>2. ASSUME NEW j \in Jobs, job'[j].at = "invoice" /\ Current(j)' = p
                 /\ paymentStatusOf(job'[j].response) = s
        PROVE  s \in Owed(p)
    BY <1>1, <2>2, OwedBy
  <2> QED BY <1>4, <2>1, <2>2, OwedByNext
<1> QED BY <1>4

LEMMA CalledBack ==
    ASSUME JobInv, NEW h \in Handlers, NEW p \in Payments, NEW status \in Statuses,
           Callback(h, p, status)
    PROVE  JobInv'
<1> DEFINE n == [payment |-> p, status |-> status]
           row == [payment[p] EXCEPT !.status = status, !.heard = status]
<1>1. JobTypeOK /\ notice[h] = NoNotice BY DEF JobInv, Callback
<1>2. (status = "completed" => gateway[p] = "paid") /\ (status = "failed" => gateway[p] = "refused")
  <2>1. status = "pending" \/ status = paymentStatusOf(transactionStatusResponseFrom(p))
    BY DEF Callback
  <2> QED BY <2>1 DEF paymentStatusOf, transactionStatusResponseFrom, Decided
<1>3. payment[p] \in PaymentShape BY <1>1 DEF JobTypeOK, PaymentShape
<1>4. row \in PaymentShape /\ row.status = status BY <1>3 DEF PaymentShape, Heard
<1>5. n \in Notices \cup {NoNotice} /\ n.payment = p /\ n.status = status BY DEF Notices
<1>6. payment' = [payment EXCEPT ![p] = row] BY <1>1 DEF Callback, JobTypeOK
<1>7. notice' = [notice EXCEPT ![h] = n] BY DEF Callback
<1>8. UNCHANGED <<config, mature, gateway, job, errors, crashes>> /\ CommitStatus(p, status)
  BY DEF Callback
<1> HIDE DEF row, n
<1>9. /\ payment'[p] = row
      /\ \A q \in Payments \ {p} : payment'[q] = payment[q]
      /\ payment' \in [Payments -> PaymentShape]
  BY <1>1, <1>4, <1>6, RowStep
<1>10. /\ notice'[h] = n
       /\ \A k \in Handlers \ {h} : notice'[k] = notice[k]
       /\ notice' \in [Handlers -> Notices \cup {NoNotice}]
  BY <1>1, <1>5, <1>7, NoticeStep
<1>11. overtaken' \subseteq Payments BY <1>1, <1>8 DEF CommitStatus, JobTypeOK
<1>12. JobTypeOK' BY <1>1, <1>8, <1>9, <1>10, <1>11 DEF JobTypeOK, PaymentShape, Notices
<1>13. SettledAsAnswered' BY <1>2, <1>4, <1>8, <1>9 DEF JobInv, SettledAsAnswered
<1>14. \A q \in Payments : notice[h].payment # q
  BY <1>1, SettingsAssumption DEF NoNotice, Payments
<1>15. ASSUME NEW q \in Payments \ {p} PROVE Owed(q)' = Owed(q)
  BY <1>5, <1>8, <1>10, <1>14, OwedAside
<1>16. status \in Owed(p)' BY <1>5, <1>10, OwedByNext
<1>17. ASSUME NEW s \in Owed(p)' PROVE s \in Owed(p) \cup {status}
  <2>1. ASSUME NEW k \in Handlers, notice'[k].payment = p /\ notice'[k].status = s
        PROVE  s \in Owed(p) \cup {status}
    <3>1. CASE k = h BY <1>5, <1>10, <2>1, <3>1
    <3>2. CASE k # h BY <1>10, <2>1, <3>2, OwedBy
    <3> QED BY <3>1, <3>2
  <2>2. ASSUME NEW j \in Jobs, job'[j].at = "invoice" /\ Current(j)' = p
                 /\ paymentStatusOf(job'[j].response) = s
        PROVE  s \in Owed(p)
    <3>1. Current(j)' = Current(j) BY <1>8 DEF Current
    <3> QED BY <1>8, <2>2, <3>1, OwedBy
  <2> QED BY <1>17, <2>1, <2>2, OwedByNext
<1>18. Owed(p)' \subseteq Owed(p) \cup {status} BY <1>17
<1>19. Invoices' BY <1>4, <1>8, <1>9, <1>15, <1>16, <1>18, InvoicesCommitted DEF JobInv
<1> QED BY <1>8, <1>12, <1>13, <1>19, WorldStep

LEMMA NoticeInvoiced == ASSUME JobInv, NEW h \in Handlers, handleNotification(h) PROVE JobInv'
<1>1. JobTypeOK /\ notice[h] # NoNotice BY DEF JobInv, handleNotification
<1>2. PICK p \in Payments, status \in Statuses : notice[h] = [payment |-> p, status |-> status]
  BY <1>1 DEF JobTypeOK
<1> DEFINE row == [payment[p] EXCEPT !.invoice = InvoiceOf(status)]
<1>3. payment[p] \in PaymentShape BY <1>1 DEF JobTypeOK, PaymentShape
<1>4. row \in PaymentShape /\ row.status = payment[p].status /\ row.invoice = InvoiceOf(status)
  BY <1>3, InvoiceType DEF PaymentShape
<1>5. payment' = [payment EXCEPT ![p] = row] BY <1>1, <1>2 DEF handleNotification, JobTypeOK
<1>6. notice' = [notice EXCEPT ![h] = NoNotice] BY DEF handleNotification
<1>7. UNCHANGED <<config, mature, gateway, job, errors, crashes, overtaken>>
  BY DEF handleNotification
<1>8. notice[h].payment = p /\ notice[h].status = status BY <1>2
<1>9. status \in Owed(p) BY <1>8, OwedBy
<1> HIDE DEF row
<1>10. /\ payment'[p] = row
       /\ \A q \in Payments \ {p} : payment'[q] = payment[q]
       /\ payment' \in [Payments -> PaymentShape]
  BY <1>1, <1>2, <1>4, <1>5, RowStep
<1>11. /\ notice'[h] = NoNotice
       /\ \A k \in Handlers \ {h} : notice'[k] = notice[k]
       /\ notice' \in [Handlers -> Notices \cup {NoNotice}]
  BY <1>1, <1>6, NoticeStep
<1>12. JobTypeOK' BY <1>1, <1>7, <1>10, <1>11 DEF JobTypeOK, PaymentShape, Notices
<1>13. SettledAsAnswered' BY <1>2, <1>4, <1>7, <1>10 DEF JobInv, SettledAsAnswered
<1>14. \A q \in Payments : notice'[h].payment # q
  BY <1>11, SettingsAssumption DEF NoNotice, Payments
<1>15. ASSUME NEW q \in Payments \ {p} PROVE Owed(q)' = Owed(q)
  BY <1>7, <1>8, <1>11, <1>14, OwedAside
<1>16. Owed(p)' \subseteq Owed(p) BY <1>2, <1>7, <1>11, OwedLess
<1>17. Invoices' BY <1>2, <1>4, <1>7, <1>9, <1>10, <1>15, <1>16, InvoicesWritten DEF JobInv
<1> QED BY <1>7, <1>12, <1>13, <1>17, WorldStep

LEMMA NoticeLost == ASSUME JobInv, NEW h \in Handlers, runQuietly(h) PROVE JobInv'
<1>1. JobTypeOK BY DEF JobInv
<1>2. /\ UNCHANGED <<config, mature, gateway, payment, job, errors, overtaken>>
      /\ notice' = [notice EXCEPT ![h] = NoNotice]
      /\ crashes' = crashes + 1 /\ errors + crashes < MaxFaults
  BY DEF runQuietly
<1>3. errors \in Nat /\ crashes \in Nat BY <1>1 DEF JobTypeOK
<1>4. crashes' \in Nat /\ crashes' # 0 /\ errors + crashes' <= MaxFaults
  BY <1>2, <1>3, SettingsAssumption
<1>5. /\ notice'[h] = NoNotice
      /\ \A k \in Handlers \ {h} : notice'[k] = notice[k]
      /\ notice' \in [Handlers -> Notices \cup {NoNotice}]
  BY <1>1, <1>2, NoticeStep
<1>6. JobTypeOK' BY <1>1, <1>2, <1>4, <1>5 DEF JobTypeOK, Notices
<1>7. SettledAsAnswered' BY <1>2 DEF JobInv, SettledAsAnswered
<1>8. \A p \in Payments : Owed(p)' \subseteq Owed(p) BY <1>2, <1>5, OwedLess
<1>9. Invoices' BY <1>2, <1>4, <1>8, InvoicesLeft DEF JobInv
<1> QED BY <1>2, <1>6, <1>7, <1>9, WorldStep

---------------------------------------------------------------------------
(* What a run that writes owes, and the others do.                          *)
LEMMA OwedByOthers ==
    ASSUME UNCHANGED notice, NEW j \in Jobs, NEW p,
           \A k \in Jobs \ {j} : job'[k] = job[k],
           ~(job[j].at = "invoice" /\ Current(j) = p),
           ~(job'[j].at = "invoice" /\ Current(j)' = p)
    PROVE  Owed(p)' = Owed(p)
<1>1. \A k \in Jobs \ {j} : Current(k)' = Current(k) BY DEF Current
<1>2. ASSUME NEW s PROVE s \in Owed(p)' <=> s \in Owed(p)
  <2>1. (\E k \in Jobs : job'[k].at = "invoice" /\ Current(k)' = p
                           /\ paymentStatusOf(job'[k].response) = s)
        <=> \E k \in Jobs : job[k].at = "invoice" /\ Current(k) = p
                             /\ paymentStatusOf(job[k].response) = s
    <3>1. ASSUME NEW k \in Jobs, job'[k].at = "invoice" /\ Current(k)' = p
                   /\ paymentStatusOf(job'[k].response) = s
          PROVE  job[k].at = "invoice" /\ Current(k) = p /\ paymentStatusOf(job[k].response) = s
      <4>1. k # j BY <3>1
      <4> QED BY <1>1, <3>1, <4>1
    <3>2. ASSUME NEW k \in Jobs, job[k].at = "invoice" /\ Current(k) = p
                   /\ paymentStatusOf(job[k].response) = s
          PROVE  job'[k].at = "invoice" /\ Current(k)' = p /\ paymentStatusOf(job'[k].response) = s
      <4>1. k # j BY <3>2
      <4> QED BY <1>1, <3>2, <4>1
    <3> QED BY <3>1, <3>2
  <2> QED BY <2>1, OwedBy, OwedByNext
<1> QED BY <1>2

(* A run writes the status, and then the invoice, of an outcome.            *)
LEMMA ResponseApplied == ASSUME JobInv, NEW j \in Jobs, applyResponse(j) PROVE JobInv'
<1> DEFINE r == [job[j] EXCEPT !.at = "invoice"]
<1>1. JobTypeOK /\ job[j].at = "apply" /\ job[j] \in Runs /\ job[j].page # {}
  BY DEF JobInv, JobTypeOK, applyResponse
<1>2. UNCHANGED <<config, mature, gateway, notice, errors, crashes>> BY DEF applyResponse
<1>3. CASE ~job[j].response.result
  <2>1. job' = [job EXCEPT ![j] = Return(j)] /\ UNCHANGED <<payment, overtaken>>
    BY <1>3 DEF applyResponse
  <2>2. errors' \in Nat /\ crashes' \in Nat /\ errors' + crashes' <= MaxFaults
    BY <1>1, <1>2 DEF JobTypeOK
  <2> QED BY <1>1, <1>2, <2>1, <2>2, ReturnType, RunStep
<1>4. CASE job[j].response.result
  <2>1. PICK p \in Payments, status \in {paymentStatusOf(job[j].response)} : p = Current(j)
    BY <1>1, CurrentIsListed
  <2> DEFINE row == [payment[p] EXCEPT !.status = status]
  <2>2. /\ Decided(p) /\ (job[j].response.transactionSuccess <=> gateway[p] = "paid")
    BY <1>1, <1>4, <2>1 DEF JobInv, Answered
  <2>3. status \in Statuses /\ (status = "completed" => gateway[p] = "paid")
        /\ (status = "failed" => gateway[p] = "refused")
    BY <2>1, <2>2, <1>4, OutcomeOf DEF Decided
  <2>4. job[j].response = job[j].response /\ paymentStatusOf(job[j].response) = status BY <2>1
  <2>5. payment[p] \in PaymentShape BY <1>1, <2>1 DEF JobTypeOK, PaymentShape
  <2>6. row \in PaymentShape /\ row.status = status BY <2>3, <2>5 DEF PaymentShape
  <2>7. payment' = [payment EXCEPT ![p] = row] BY <1>1, <1>4, <2>1 DEF applyResponse, JobTypeOK
  <2>8. job' = [job EXCEPT ![j] = r] BY <1>1, <1>4 DEF applyResponse, JobTypeOK
  <2>9. r \in Runs /\ r.at = "invoice" /\ r.page = job[j].page /\ r.response = job[j].response
    BY <1>1 DEF Runs
  <2>10. CommitStatus(p, status) BY <1>4, <2>1 DEF applyResponse
  <2>11. p = Current(j) BY <2>1
  <2> HIDE DEF row, r
  <2>12. /\ payment'[p] = row
         /\ \A q \in Payments \ {p} : payment'[q] = payment[q]
         /\ payment' \in [Payments -> PaymentShape]
    BY <1>1, <2>1, <2>6, <2>7, RowStep
  <2>13. job'[j] = r /\ (\A k \in Jobs \ {j} : job'[k] = job[k]) /\ job' \in [Jobs -> Runs]
    BY <1>1, <2>8, <2>9 DEF JobTypeOK
  <2>14. \A k \in Jobs : Current(k)' = Current(k) BY <2>9, <2>13 DEF Current
  <2>15. overtaken' \subseteq Payments BY <1>1, <2>1, <2>10 DEF CommitStatus, JobTypeOK
  <2>16. JobTypeOK' BY <1>1, <1>2, <2>9, <2>12, <2>13, <2>15 DEF JobTypeOK, PaymentShape
  <2>17. Answered'
    <3> SUFFICES ASSUME NEW k \in Jobs, job'[k].at \in {"apply", "invoice"}, job'[k].response.result
                 PROVE  /\ Decided(Current(k))'
                        /\ job'[k].response.transactionSuccess <=> gateway'[Current(k)'] = "paid"
      BY DEF Answered
    <3>1. CASE k = j BY <3>1, <1>2, <2>2, <2>9, <2>11, <2>13, <2>14 DEF Decided
    <3>2. CASE k # j BY <3>2, <1>2, <2>13, <2>14 DEF JobInv, Answered, Decided
    <3> QED BY <3>1, <3>2
  <2>18. InvoicedOnOutcome' BY <1>4, <2>9, <2>13 DEF JobInv, InvoicedOnOutcome
  <2>19. SettledAsAnswered' BY <1>2, <2>3, <2>6, <2>12 DEF JobInv, SettledAsAnswered
  <2>20. ASSUME NEW q \in Payments \ {p} PROVE Owed(q)' = Owed(q)
    BY <1>2, <2>11, <2>13, <2>14, OwedByOthers
  <2>21. status \in Owed(p)'
    BY <2>4, <2>9, <2>11, <2>13, <2>14, OwedByNext
  <2>22. ASSUME NEW s \in Owed(p)' PROVE s \in Owed(p) \cup {status}
    <3>1. ASSUME NEW k \in Handlers, notice'[k].payment = p /\ notice'[k].status = s
          PROVE  s \in Owed(p)
      BY <1>2, <3>1, OwedBy
    <3>2. ASSUME NEW k \in Jobs, job'[k].at = "invoice" /\ Current(k)' = p
                   /\ paymentStatusOf(job'[k].response) = s
          PROVE  s \in Owed(p) \cup {status}
      <4>1. CASE k = j BY <2>4, <2>9, <2>13, <3>2, <4>1
      <4>2. CASE k # j BY <2>13, <2>14, <3>2, <4>2, OwedBy
      <4> QED BY <4>1, <4>2
    <3> QED BY <2>22, <3>1, <3>2, OwedByNext
  <2>23. Owed(p)' \subseteq Owed(p) \cup {status} BY <2>22
  <2>24. Invoices'
    BY <1>2, <2>1, <2>6, <2>10, <2>12, <2>20, <2>21, <2>23, InvoicesCommitted DEF JobInv
  <2> QED BY <2>16, <2>17, <2>18, <2>19, <2>24 DEF JobInv
<1> QED BY <1>3, <1>4

LEMMA InvoiceUpdated == ASSUME JobInv, NEW j \in Jobs, updateInvoiceStatus(j) PROVE JobInv'
<1>1. JobTypeOK /\ job[j].at = "invoice" /\ job[j] \in Runs BY DEF JobInv, JobTypeOK, updateInvoiceStatus
<1>2. UNCHANGED <<config, mature, gateway, notice, errors, crashes, overtaken>>
  BY DEF updateInvoiceStatus
<1>3. PICK p \in Payments, status \in {paymentStatusOf(job[j].response)} : p = Current(j)
  BY <1>1, CurrentIsListed
<1> DEFINE row == [payment[p] EXCEPT !.invoice = InvoiceOf(status)]
<1>4. payment[p] \in PaymentShape BY <1>1, <1>3 DEF JobTypeOK, PaymentShape
<1>5. row \in PaymentShape /\ row.status = payment[p].status /\ row.invoice = InvoiceOf(status)
  BY <1>4, InvoiceType DEF PaymentShape
<1>6. payment' = [payment EXCEPT ![p] = row]
  BY <1>1, <1>3 DEF updateInvoiceStatus, InvoiceStatus, JobTypeOK
<1>7. job' = [job EXCEPT ![j] = Return(j)] BY DEF updateInvoiceStatus
<1>8. status \in Owed(p) BY <1>1, <1>3, OwedBy
<1>9. p = Current(j) BY <1>3
<1> HIDE DEF row
<1>10. /\ payment'[p] = row
       /\ \A q \in Payments \ {p} : payment'[q] = payment[q]
       /\ payment' \in [Payments -> PaymentShape]
  BY <1>1, <1>3, <1>5, <1>6, RowStep
<1>11. job'[j] = Return(j) /\ (\A k \in Jobs \ {j} : job'[k] = job[k]) /\ job' \in [Jobs -> Runs]
       /\ job'[j].at \in {"ask", "report"} /\ (job'[j].at = "report" <=> job'[j].page = {})
  BY <1>1, <1>7, ReturnType DEF JobTypeOK
<1>12. \A k \in Jobs \ {j} : Current(k)' = Current(k) BY <1>11 DEF Current
<1>13. JobTypeOK' BY <1>1, <1>2, <1>10, <1>11 DEF JobTypeOK, PaymentShape
<1>14. Answered'
  <2> SUFFICES ASSUME NEW k \in Jobs, job'[k].at \in {"apply", "invoice"}, job'[k].response.result
               PROVE  /\ Decided(Current(k))'
                      /\ job'[k].response.transactionSuccess <=> gateway'[Current(k)'] = "paid"
    BY DEF Answered
  <2>1. k # j BY <1>11
  <2> QED BY <2>1, <1>2, <1>11, <1>12 DEF JobInv, Answered, Decided
<1>15. InvoicedOnOutcome' BY <1>11 DEF JobInv, InvoicedOnOutcome
<1>16. SettledAsAnswered' BY <1>2, <1>5, <1>10 DEF JobInv, SettledAsAnswered
<1>17. ASSUME NEW q \in Payments \ {p} PROVE Owed(q)' = Owed(q)
  BY <1>2, <1>9, <1>11, OwedByOthers
<1>18. ASSUME NEW s \in Owed(p)' PROVE s \in Owed(p)
  <2>1. ASSUME NEW k \in Handlers, notice'[k].payment = p /\ notice'[k].status = s
        PROVE  s \in Owed(p)
    BY <1>2, <2>1, OwedBy
  <2>2. ASSUME NEW k \in Jobs, job'[k].at = "invoice" /\ Current(k)' = p
                 /\ paymentStatusOf(job'[k].response) = s
        PROVE  s \in Owed(p)
    <3>1. k # j BY <1>11, <2>2
    <3> QED BY <1>11, <1>12, <2>2, <3>1, OwedBy
  <2> QED BY <1>18, <2>1, <2>2, OwedByNext
<1>19. Owed(p)' \subseteq Owed(p) BY <1>18
<1>20. Invoices' BY <1>2, <1>3, <1>5, <1>8, <1>10, <1>17, <1>19, InvoicesWritten DEF JobInv
<1> QED BY <1>13, <1>14, <1>15, <1>16, <1>20 DEF JobInv

---------------------------------------------------------------------------
(* The invariant is inductive.                                              *)
LEMMA Inductive == JobSpec => []JobInv
<1>1. JobInit => JobInv
  <2> SUFFICES ASSUME JobInit PROVE JobInv OBVIOUS
  <2>1. 0 \in 0 .. MaxAttempts - 1 BY SettingsAssumption DEF MaxAttempts
  <2>2. NoJob \in Runs /\ NoJob.at = "idle" /\ NoJob.page = {}
    BY <2>1 DEF NoJob, NoResponse, Runs
  <2>3. JobTypeOK BY <2>2, SettingsAssumption DEF JobInit, JobTypeOK, Known, Statuses, Heard
  <2>4. \A j \in Jobs : job[j].at = "idle" BY <2>2 DEF JobInit
  <2>5. \A p \in Payments : payment[p].status = "pending" /\ payment[p].invoice = "pending"
    BY DEF JobInit
  <2>6. \A h \in Handlers : notice[h].payment = 0 BY DEF JobInit, NoNotice
  <2>7. ASSUME NEW p \in Payments PROVE Owed(p) = {}
    <3>1. p # 0 BY SettingsAssumption DEF Payments
    <3>2. \A h \in Handlers : notice[h].payment # p BY <2>6, <3>1
    <3> QED BY <2>4, <3>2, OwedBy
  <2>8. Invoices BY <2>5, <2>7 DEF Invoices, InvoiceOf
  <2> QED BY <2>3, <2>4, <2>5, <2>8 DEF JobInv, Answered, InvoicedOnOutcome, SettledAsAnswered
<1>2. JobInv /\ [JobNext]_jobVars => JobInv'
  <2> SUFFICES ASSUME JobInv, [JobNext]_jobVars PROVE JobInv' OBVIOUS
  <2>1. CASE World BY <2>1, Aged, Paid, CalledBack, NoticeInvoiced, NoticeLost DEF World
  <2>2. ASSUME NEW j \in Jobs, NEW force \in BOOLEAN, reconcilePending(j, force) PROVE JobInv'
    BY <2>2, Started
  <2>3. ASSUME NEW j \in Jobs, Step(j) PROVE JobInv'
    BY <2>3, LeftUnconfigured, QueryRefused, QueryErred, QueryAnswered, ResponseApplied,
       InvoiceUpdated, Reported DEF Step
  <2>4. ASSUME NEW j \in Jobs, Crash(j) PROVE JobInv' BY <2>4, Reported
  <2>5. CASE UNCHANGED jobVars
    <3>1. UNCHANGED <<job, notice, payment, overtaken, crashes, gateway>> BY <2>5 DEF jobVars
    <3>2. Invoices' BY <3>1, OwedStays, InvoicesLeft DEF JobInv
    <3>3. JobTypeOK' BY <2>5 DEF jobVars, JobInv, JobTypeOK
    <3>4. SettledAsAnswered' BY <3>1 DEF JobInv, SettledAsAnswered
    <3> QED BY <3>1, <3>2, <3>3, <3>4, WorldStep
  <2> QED BY <2>1, <2>2, <2>3, <2>4, <2>5 DEF JobNext
<1> QED BY <1>1, <1>2, PTL DEF JobSpec

(* A run at an await has a payment in hand, and retries within the limit    *)
(* (sisp.ts reconcilePending, transaction-status-client.ts).                *)
THEOREM TypeCorrect == JobSpec => []JobTypeOK
<1>1. JobInv => JobTypeOK BY DEF JobInv
<1> QED BY <1>1, Inductive, PTL

(* A payment is only completed or failed by an outcome the gateway has      *)
(* given it (reconcile-transaction-status.ts).                              *)
THEOREM SettledAsAnsweredHolds == JobSpec => []SettledAsAnswered
<1>1. JobInv => SettledAsAnswered BY DEF JobInv
<1> QED BY <1>1, Inductive, PTL

(* Overlapping runs and callbacks leave the invoice with what the payment   *)
(* became (update-invoice-status.ts).                                       *)
THEOREM SettledIsInvoicedHolds == JobSpec => []SettledIsInvoiced
<1>1. JobInv => SettledIsInvoiced BY DEF JobInv, Invoices, SettledIsInvoiced
<1> QED BY <1>1, Inductive, PTL
---------------------------------------------------------------------------
(* Requests are only repeated on an error, each of them once.               *)
RepeatsOwed == IsFiniteSet(Repeats) /\ Cardinality(Repeats) <= errors

LEMMA CountsAreNumbers ==
    ASSUME JobTypeOK
    PROVE  errors \in Nat /\ \A j \in Jobs : job[j].tries \in 0 .. MaxAttempts - 1
BY DEF JobTypeOK, Runs

(* A step in which no run repeats a request.                                *)
LEMMA NothingRepeated ==
    ASSUME JobTypeOK, JobTypeOK', RepeatsOwed, errors' >= errors,
           \A j \in Jobs : job'[j].tries <= job[j].tries
    PROVE  RepeatsOwed'
<1>1. /\ errors \in Nat /\ errors' \in Nat
      /\ \A j \in Jobs : job[j].tries \in Int /\ job'[j].tries \in Int
  BY DEF JobTypeOK, Runs
<1>2. Repeats' \subseteq Repeats
  <2> SUFFICES ASSUME NEW j \in Jobs, NEW n \in 1 .. MaxAttempts, n <= job'[j].tries
               PROVE  n <= job[j].tries
    BY DEF Repeats
  <2>1. MaxAttempts \in Int BY SettingsAssumption DEF MaxAttempts
  <2> QED BY <1>1, <2>1
<1>3. IsFiniteSet(Repeats) /\ Cardinality(Repeats) <= errors BY DEF RepeatsOwed
<1>4. IsFiniteSet(Repeats') /\ Cardinality(Repeats') <= Cardinality(Repeats)
  BY <1>2, <1>3, FS_Subset
<1>5. Cardinality(Repeats) \in Nat /\ Cardinality(Repeats') \in Nat
  BY <1>3, <1>4, FS_CardinalityType
<1>6. Cardinality(Repeats') <= errors' BY <1>1, <1>3, <1>4, <1>5
<1> QED BY <1>4, <1>6 DEF RepeatsOwed

(* A step in which one run repeats a request after an error.                *)
LEMMA OneRepeated ==
    ASSUME JobTypeOK, JobTypeOK', RepeatsOwed, errors' = errors + 1, NEW j \in Jobs,
           job'[j].tries <= job[j].tries + 1,
           \A k \in Jobs \ {j} : job'[k].tries <= job[k].tries
    PROVE  RepeatsOwed'
<1> DEFINE r == <<j, job[j].tries + 1>>
<1>1. /\ errors \in Nat
      /\ \A k \in Jobs : job[k].tries \in Int /\ job'[k].tries \in Int
  BY DEF JobTypeOK, Runs
<1>2. Repeats' \subseteq Repeats \cup {r}
  <2> SUFFICES ASSUME NEW k \in Jobs, NEW n \in 1 .. MaxAttempts, n <= job'[k].tries
               PROVE  n <= job[k].tries \/ <<k, n>> = r
    BY DEF Repeats
  <2>1. MaxAttempts \in Int BY SettingsAssumption DEF MaxAttempts
  <2>2. CASE k = j
    <3>1. n <= job[j].tries \/ n = job[j].tries + 1 BY <1>1, <2>1, <2>2
    <3> QED BY <2>2, <3>1
  <2>3. CASE k # j BY <1>1, <2>1, <2>3
  <2> QED BY <2>2, <2>3
<1> HIDE DEF r
<1>3. IsFiniteSet(Repeats) /\ Cardinality(Repeats) <= errors BY DEF RepeatsOwed
<1>4. /\ IsFiniteSet(Repeats \cup {r})
      /\ Cardinality(Repeats) \in Nat
      /\ Cardinality(Repeats \cup {r}) <= Cardinality(Repeats) + 1
  <2>1. Cardinality(Repeats) \in Nat BY <1>3, FS_CardinalityType
  <2>2. /\ IsFiniteSet(Repeats \cup {r})
        /\ Cardinality(Repeats \cup {r}) =
               IF r \in Repeats THEN Cardinality(Repeats) ELSE Cardinality(Repeats) + 1
    BY <1>3, FS_AddElement
  <2> QED BY <2>1, <2>2
<1>5. /\ IsFiniteSet(Repeats')
      /\ Cardinality(Repeats') <= Cardinality(Repeats \cup {r})
  BY <1>2, <1>4, FS_Subset
<1>6. Cardinality(Repeats \cup {r}) \in Nat /\ Cardinality(Repeats') \in Nat
  BY <1>4, <1>5, FS_CardinalityType
<1>7. Cardinality(Repeats') <= errors' BY <1>1, <1>3, <1>4, <1>5, <1>6
<1> QED BY <1>5, <1>7 DEF RepeatsOwed

(* What a step does to the requests a run has repeated, and to the errors.  *)
LEMMA ReturnForgets == ASSUME NEW j \in Jobs PROVE Return(j).tries = 0
BY DEF Return, NoJob

LEMMA RunRepeats ==
    ASSUME JobTypeOK, JobTypeOK', RepeatsOwed, NEW j \in Jobs,
           Step(j) \/ Crash(j) \/ \E force \in BOOLEAN : reconcilePending(j, force)
    PROVE  RepeatsOwed'
<1>1. /\ errors \in Nat /\ job \in [Jobs -> Runs]
      /\ \A k \in Jobs : job[k].tries \in 0 .. MaxAttempts - 1
  BY CountsAreNumbers DEF JobTypeOK
<1>2. \A k \in Jobs : job[k].tries <= job[k].tries /\ 0 <= job[k].tries
  <2>1. MaxAttempts \in Int BY SettingsAssumption DEF MaxAttempts
  <2> QED BY <1>1, <2>1
<1>3. ASSUME job'[j].tries = 0 \/ job'[j].tries = job[j].tries,
             \A k \in Jobs \ {j} : job'[k] = job[k], errors' = errors \/ errors' = errors + 1
      PROVE  RepeatsOwed'
  <2>1. \A k \in Jobs : job'[k].tries <= job[k].tries BY <1>2, <1>3
  <2>2. errors' >= errors BY <1>1, <1>3
  <2> QED BY <2>1, <2>2, NothingRepeated
<1>4. ASSUME NEW force \in BOOLEAN, reconcilePending(j, force) PROVE RepeatsOwed'
  <2>1. job'[j].tries = 0 /\ (\A k \in Jobs \ {j} : job'[k] = job[k]) /\ errors' = errors
    BY <1>1, <1>4 DEF reconcilePending, NoJob
  <2> QED BY <1>3, <2>1
<1>5. CASE Unconfigured(j) \/ Report(j) \/ Crash(j)
  <2>1. job'[j].tries = 0 /\ (\A k \in Jobs \ {j} : job'[k] = job[k]) /\ errors' = errors
    BY <1>1, <1>5, ReturnForgets DEF Unconfigured, Report, Crash, NoJob
  <2> QED BY <1>3, <2>1
\* A refusal is not repeated, however many attempts are left.
<1>6. CASE RefusedQuery(j)
  <2>1. job' = [job EXCEPT ![j] = Return(j)] /\ errors' = errors
    BY <1>6 DEF RefusedQuery, queryFails, shouldRetry, GiveUp
  <2>2. job'[j].tries = 0 /\ \A k \in Jobs \ {j} : job'[k] = job[k]
    BY <1>1, <2>1, ReturnForgets
  <2> QED BY <1>3, <2>1, <2>2
\* An error is, once.
<1>7. CASE FailedQuery(j)
  <2>1. errors' = errors + 1 BY <1>7 DEF FailedQuery
  <2>2. CASE shouldRetry(TRUE, job[j].tries + 1)
    <3>1. job' = [job EXCEPT ![j] = [job[j] EXCEPT !.tries = @ + 1]]
      BY <1>7, <2>2 DEF FailedQuery, queryFails
    <3>2. job[j] \in Runs BY <1>1
    <3>3. job'[j].tries = job[j].tries + 1 /\ \A k \in Jobs \ {j} : job'[k] = job[k]
      BY <1>1, <3>1, <3>2 DEF Runs
    <3>4. job'[j].tries <= job[j].tries + 1 /\ \A k \in Jobs \ {j} : job'[k].tries <= job[k].tries
      <4>1. job[j].tries + 1 <= job[j].tries + 1
        <5>1. MaxAttempts \in Int BY SettingsAssumption DEF MaxAttempts
        <5> QED BY <1>1, <5>1
      <4> QED BY <1>2, <3>3, <4>1
    <3> QED BY <2>1, <3>4, OneRepeated
  <2>3. CASE ~shouldRetry(TRUE, job[j].tries + 1)
    <3>1. job' = [job EXCEPT ![j] = Return(j)] BY <1>7, <2>3 DEF FailedQuery, queryFails, GiveUp
    <3>2. job'[j].tries = 0 /\ \A k \in Jobs \ {j} : job'[k] = job[k]
      BY <1>1, <3>1, ReturnForgets
    <3> QED BY <1>3, <2>1, <3>2
  <2> QED BY <2>2, <2>3
<1>8. ASSUME NEW response \in [result : BOOLEAN, transactionSuccess : BOOLEAN],
             queryOnce(j, response)
      PROVE  RepeatsOwed'
  <2>1. job' = [job EXCEPT ![j] =
            [job[j] EXCEPT !.at = "apply", !.tries = 0, !.response = response]]
    BY <1>1, <1>8 DEF queryOnce
  <2>2. job[j] \in Runs BY <1>1
  <2>3. job'[j].tries = 0 /\ \A k \in Jobs \ {j} : job'[k] = job[k]
    BY <1>1, <2>1, <2>2 DEF Runs
  <2>4. errors' = errors \/ errors' = errors + 1 BY <1>8 DEF queryOnce
  <2> QED BY <1>3, <2>3, <2>4
<1>9. CASE applyResponse(j)
  <2>1. errors' = errors BY <1>9 DEF applyResponse
  <2>2. CASE job[j].response.result
    <3>1. job' = [job EXCEPT ![j] = [job[j] EXCEPT !.at = "invoice"]]
      BY <1>9, <2>2 DEF applyResponse
    <3>2. job[j] \in Runs BY <1>1
    <3>3. job'[j].tries = job[j].tries /\ \A k \in Jobs \ {j} : job'[k] = job[k]
      BY <1>1, <3>1, <3>2 DEF Runs
    <3> QED BY <1>3, <2>1, <3>3
  <2>3. CASE ~job[j].response.result
    <3>1. job' = [job EXCEPT ![j] = Return(j)] BY <1>9, <2>3 DEF applyResponse
    <3>2. job'[j].tries = 0 /\ \A k \in Jobs \ {j} : job'[k] = job[k]
      BY <1>1, <3>1, ReturnForgets
    <3> QED BY <1>3, <2>1, <3>2
  <2> QED BY <2>2, <2>3
<1>10. CASE updateInvoiceStatus(j)
  <2>1. job' = [job EXCEPT ![j] = Return(j)] /\ errors' = errors
    BY <1>10 DEF updateInvoiceStatus
  <2>2. job'[j].tries = 0 /\ \A k \in Jobs \ {j} : job'[k] = job[k]
    BY <1>1, <2>1, ReturnForgets
  <2> QED BY <1>3, <2>1, <2>2
<1> QED BY <1>4, <1>5, <1>6, <1>7, <1>8, <1>9, <1>10 DEF Step

LEMMA RepeatsOwedAtFirst == JobInit => RepeatsOwed
<1> SUFFICES ASSUME JobInit PROVE RepeatsOwed OBVIOUS
<1>1. \A j \in Jobs : job[j].tries = 0 BY DEF JobInit, NoJob
<1>2. MaxAttempts \in Int BY SettingsAssumption DEF MaxAttempts
<1>3. Repeats = {} BY <1>1, <1>2 DEF Repeats
<1>4. IsFiniteSet(Repeats) /\ Cardinality(Repeats) = 0 BY <1>3, FS_EmptySet
<1> QED BY <1>4 DEF RepeatsOwed, JobInit

LEMMA RepeatsOwedInductive == JobSpec => []RepeatsOwed
<1>1. JobTypeOK /\ JobTypeOK' /\ RepeatsOwed /\ [JobNext]_jobVars => RepeatsOwed'
  <2> SUFFICES ASSUME JobTypeOK, JobTypeOK', RepeatsOwed, [JobNext]_jobVars PROVE RepeatsOwed' OBVIOUS
  <2>1. CASE UNCHANGED <<job, errors>>
    <3>1. Repeats' = Repeats BY <2>1 DEF Repeats
    <3> QED BY <2>1, <3>1 DEF RepeatsOwed
  <2>2. CASE World BY <2>1, <2>2 
         DEF World, Tick, Pay, Callback, handleNotification, runQuietly
  <2>3. CASE UNCHANGED jobVars BY <2>1, <2>3 DEF jobVars
  <2> QED BY <2>2, <2>3, RunRepeats DEF JobNext
<1>2. JobInv => JobTypeOK BY DEF JobInv
<1> QED BY <1>1, <1>2, RepeatsOwedAtFirst, Inductive, PTL DEF JobSpec

(* A refusal (HTTP 4xx) is never repeated, and every repeated request is    *)
(* owed to an error of its own: however many runs overlap, together they    *)
(* send no more of them than there were errors (transaction-status-         *)
(* client.ts, withRetries and shouldRetry).                                 *)
THEOREM RepeatedOnlyAfterErrorsHolds == JobSpec => []RepeatedOnlyAfterErrors
<1>1. JobTypeOK /\ RepeatsOwed => RepeatedOnlyAfterErrors
  <2>1. MaxAttempts \in Int BY SettingsAssumption DEF MaxAttempts
  <2>2. JobTypeOK => \A j \in Jobs : job[j].tries < MaxAttempts BY <2>1, CountsAreNumbers
  <2> QED BY <2>2 DEF RepeatsOwed, RepeatedOnlyAfterErrors
<1> QED BY <1>1, TypeCorrect, RepeatsOwedInductive, PTL

=============================================================================
