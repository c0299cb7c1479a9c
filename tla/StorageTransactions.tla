------------------------- MODULE StorageTransactions -------------------------
(***************************************************************************)
(* The storage transactions on a payment and its attempts, statement by    *)
(* statement: the rows they lock and in which order, the unique indexes    *)
(* they run into, what a stale snapshot shows, and who waits for whom, for *)
(* each of the databases and adapters the package supports.                *)
(*   adapter.repeatableRead : MySQL, whose plain reads show the snapshot of*)
(*     the transaction; PostgreSQL reads what is committed.                *)
(*   adapter.abortedByError : PostgreSQL, where a statement that fails ends*)
(*     the transaction.                                                    *)
(*   adapter.lockThenRead : Prisma, which locks a row with one statement   *)
(*     and reads it with another, plain, one.                              *)
(*   adapter.queue : SQLite, one transaction at a time and no row locks.   *)
(* A handler runs one operation.  What a transaction wrote is kept in its  *)
(* record until it commits.                                                *)
(***************************************************************************)
EXTENDS PaymentColumns

CONSTANTS Handler, Adapters, MaxTries

ASSUME TriesAssumption == MaxTries \in Nat \ {0}
ASSUME HandlerAssumption == IsFiniteSet(Handler)
ASSUME AdapterAssumption ==
    Adapters \subseteq [lockThenRead : BOOLEAN, repeatableRead : BOOLEAN,
                        abortedByError : BOOLEAN, queue : BOOLEAN]

VARIABLES transaction, attempts, tx, adapter

vars == <<transaction, attempts, tx, adapter>>

Rows == INSTANCE PaymentRows

Phase == {"idle", "begin", "lockAttempt", "lockLegacy", "insertBackfill", "relock", "failAttempt",
          "ensure", "number", "supersede", "insert", "lockParent", "ended"}
Open == Phase \ {"idle", "begin", "ensure", "ended"}

NoRows == [s \in Session |-> Null]
Closed == [locks |-> {}, parentLock |-> FALSE, attempt |-> Null, snapshot |-> Null, number |-> 0,
           targets |-> {}, written |-> NoRows]
Idle == [op |-> Null, cb |-> Null, read |-> Null, session |-> Null, tries |-> 1,
         phase |-> "idle", held |-> Closed]

Init ==
    /\ Rows!Init
    /\ tx = [h \in Handler |-> Idle]
    /\ adapter \in Adapters

---------------------------------------------------------------------------
(* Rows, locks and waiting.                                                 *)

View(h) == [s \in Session |-> IF tx[h].held.written[s] # Null THEN tx[h].held.written[s]
                              ELSE attempts[s]]

RowHolders(h, s) == {g \in Handler \ {h} : s \in tx[g].held.locks}
ParentHolders(h) == {g \in Handler \ {h} : tx[g].held.parentLock}

(* The transactions whose outcome a unique index waits for: one that wrote  *)
(* a row with the same session or number, or, on MySQL, locked it.          *)
KeyHolders(h) ==
    {g \in Handler \ {h} : \E s \in tx[g].held.locks :
        /\ tx[g].held.written[s] # Null \/ adapter.repeatableRead
        /\ s = tx[h].session \/ View(g)[s].number = tx[h].held.number}

(* Mutant: the attempt is read without FOR UPDATE.                          *)
UnlockedReadHolders(h, s) == {}

(* A locking read finds rows that are committed; MySQL's also waits for     *)
(* those that are not yet.                                                  *)
RowReadHolders(h, s) ==
    IF attempts[s] # Null \/ adapter.repeatableRead THEN RowHolders(h, s) ELSE {}

Submitted == {s \in Session : attempts[s] # Null}

(* SQLite: StatementQueue runs one unit of work after the other.            *)
Queued == IF adapter.queue THEN {g \in Handler : tx[g].phase \in Open} ELSE {}

(* The transactions h waits for before its next statement.                  *)
Blockers(h) ==
    LET t == tx[h]
    IN  CASE t.phase = "begin" -> Queued
          [] t.phase = "ensure" -> IF Submitted = {} THEN Queued \cup KeyHolders(h) ELSE {}
          [] t.phase \in {"lockAttempt", "relock"} -> RowReadHolders(h, t.session)
          [] t.phase = "lockLegacy" ->
               IF transaction.session = t.session THEN ParentHolders(h) ELSE {}
          [] t.phase \in {"insertBackfill", "insert"} -> KeyHolders(h)
          [] t.phase = "failAttempt" -> RowHolders(h, t.session)
          [] t.phase = "supersede" -> UNION {RowHolders(h, s) : s \in t.held.targets}
          [] t.phase = "lockParent" -> ParentHolders(h)
          [] OTHER -> {}

(* Whom h waits for, directly or not: who is in every set that has whom h   *)
(* waits for, and whom anyone in it waits for.                              *)
WaitsFor(h) ==
    LET blockers == [k \in Handler |-> Blockers(k)]
    IN  {g \in Handler : \A S \in SUBSET Handler :
            blockers[h] \subseteq S /\ (\A k \in S : blockers[k] \subseteq S) => g \in S}
InCycle(h) == tx[h].phase \in Open /\ h \in WaitsFor(h)

(* Prisma on MySQL: the row that was locked is then read from the snapshot  *)
(* the first plain read of the transaction took.                            *)
StaleReads == adapter.lockThenRead /\ adapter.repeatableRead
Seen(held) == IF StaleReads /\ held.snapshot = Null THEN [held EXCEPT !.snapshot = transaction]
              ELSE held
ReadParent(h) == IF StaleReads THEN Seen(tx[h].held).snapshot ELSE transaction

(* Transaction.update: only what differs from the row it read is written.   *)
Diff(row, changes) == [a \in {b \in DOMAIN changes : changes[b] # row[b]} |-> changes[a]]

At(h, phase) == tx[h].phase = phase /\ Blockers(h) = {}
NoRowChanges == UNCHANGED <<transaction, attempts, adapter>>
Advance(h, phase, held) ==
    /\ tx' = [tx EXCEPT ![h].phase = phase, ![h].held = held]
    /\ NoRowChanges
End(h) == Advance(h, "ended", Closed)

Write(held, s, row) == [held EXCEPT !.locks = @ \cup {s}, !.written[s] = row]

Commit(h, held, changes) ==
    /\ attempts' = [s \in Session |-> IF held.written[s] # Null THEN held.written[s] ELSE attempts[s]]
    /\ transaction' = Changed(transaction, Diff(ReadParent(h), changes))
    /\ tx' = [tx EXCEPT ![h].phase = "ended", ![h].held = Closed]
    /\ UNCHANGED adapter

---------------------------------------------------------------------------
(* The requests, with what they read before their transaction.              *)
Request(h, op, cb, session, phase) ==
    /\ tx[h].phase = "idle"
    /\ tx' = [tx EXCEPT ![h] = [Idle EXCEPT !.op = op, !.cb = cb, !.session = session,
                                            !.read = IF op = "retry" THEN transaction ELSE Null,
                                            !.phase = phase]]
    /\ NoRowChanges

StartCallback(h, cb) ==
    /\ attempts[cb.session] # Null \/ transaction.session = cb.session
    /\ Request(h, "callback", cb, cb.session, "begin")
StartFail(h, cb) ==
    /\ attempts[cb.session] # Null
    /\ Request(h, "fail", cb, cb.session, "begin")
StartRetry(h) ==
    /\ transaction.status = "failed"
    /\ Request(h, "retry", Null, transaction.session, "ensure")
StartCancel(h) ==
    /\ transaction.status \in {"pending", "failed"}
    /\ Request(h, "cancel", Null, Null, "begin")
StartReconcile(h) ==
    /\ transaction.status = "pending"
    /\ Request(h, "reconcile", Null, Null, "begin")

Begin(h) ==
    /\ At(h, "begin")
    /\ Advance(h, CASE tx[h].op = "callback" -> "lockAttempt"
                    [] tx[h].op = "fail" -> "failAttempt"
                    [] tx[h].op = "retry" -> "number"
                    [] OTHER -> "lockParent", Closed)

---------------------------------------------------------------------------
(* ApplyTransactionStatus.                                                  *)
LockAttempt(h) ==
    LET t == tx[h] IN
    /\ At(h, "lockAttempt") \/ At(h, "relock")
    /\ IF attempts[t.session] # Null
       THEN Advance(h, "lockParent", Seen([t.held EXCEPT !.locks = @ \cup {t.session},
                                                        !.attempt = attempts[t.session]]))
       ELSE IF t.phase = "relock" THEN End(h) ELSE Advance(h, "lockLegacy", Seen(t.held))

LockLegacy(h) ==
    LET t == tx[h] IN
    /\ At(h, "lockLegacy")
    /\ IF transaction.session = t.session
       THEN Advance(h, "insertBackfill",
                    [Seen(t.held) EXCEPT !.parentLock = TRUE, !.number = nextAttemptNumber(attempts)])
       ELSE End(h)

(* The unique indexes of the attempts.                                      *)
Duplicate(session, number) == attempts[session] # Null \/ number \in NumbersOf(attempts)

InsertBackfill(h) ==
    LET t == tx[h] IN
    /\ At(h, "insertBackfill")
    /\ IF ~Duplicate(t.session, t.held.number)
       THEN LET row == createFromTransaction(ReadParent(h), t.held.number)
            IN  Advance(h, "lockParent", Write([t.held EXCEPT !.attempt = row], t.session, row))
       ELSE IF adapter.abortedByError THEN End(h) ELSE Advance(h, "relock", t.held)

(* With both rows locked the rest needs no other lock: one step.            *)
ApplyCallback(h) ==
    LET t   == tx[h]
        row == t.held.attempt
    IN  /\ t.op = "callback"
        /\ At(h, "lockParent")
        /\ IF isReplayCallback(row, t.cb) THEN Commit(h, t.held, <<>>)
           ELSE Commit(h, Write(t.held, t.session, attemptChangesFromCallback(row, t.cb, t.cb.status)),
                       IF shouldPropagate(row, t.cb.status) THEN callbackChanges(t.cb, t.cb.status)
                       ELSE <<>>)

---------------------------------------------------------------------------
(* FailTransaction.                                                         *)
FailAttempt(h) ==
    LET t    == tx[h]
        row  == attempts[t.session]
        held == Seen(Write(t.held, t.session, attemptChangesFromCallback(row, t.cb, "failed")))
    IN  /\ At(h, "failAttempt")
        /\ IF shouldPropagate(row, "failed") THEN Advance(h, "lockParent", held)
           ELSE Commit(h, held, <<>>)

(* CreateRetryPaymentAttempt: the first attempt of a legacy payment is      *)
(* inserted on its own; that another request inserted it is no error.       *)
EnsureInitialAttempt(h) ==
    LET t == tx[h] IN
    /\ At(h, "ensure")
    /\ attempts' = IF Submitted = {}
                   THEN [attempts EXCEPT ![t.session] = createFromTransaction(t.read, 1)]
                   ELSE attempts
    /\ tx' = [tx EXCEPT ![h].phase = "begin"]
    /\ UNCHANGED <<transaction, adapter>>

(* Mutant: the parent is locked before the attempts.                        *)
NextNumberHoldingParent(h, session) ==
    LET t == tx[h] IN
    /\ At(h, "number") /\ ParentHolders(h) = {}
    /\ tx' = [tx EXCEPT ![h].phase = "supersede", ![h].session = session,
                  ![h].held = [Seen(t.held) EXCEPT
                      !.parentLock = TRUE,
                      !.number = nextAttemptNumber(attempts),
                      !.targets = {s \in Submitted : adapter.repeatableRead \/ ~attempts[s].superseded}]]
    /\ NoRowChanges

(* The number, and the rows the following UPDATE finds: PostgreSQL those    *)
(* that are current when it starts, MySQL all that it scans.                *)
NextNumber(h, session) ==
    LET t == tx[h] IN
    /\ At(h, "number")
    /\ tx' = [tx EXCEPT ![h].phase = "supersede", ![h].session = session,
                  ![h].held = [Seen(t.held) EXCEPT
                      !.number = nextAttemptNumber(attempts),
                      !.targets = {s \in Submitted : adapter.repeatableRead \/ ~attempts[s].superseded}]]
    /\ NoRowChanges

(* The rows it waited for are looked at again once they are locked.         *)
Supersede(h) ==
    LET t == tx[h] IN
    /\ At(h, "supersede")
    /\ Advance(h, "insert",
               [t.held EXCEPT !.locks = @ \cup t.held.targets, !.targets = {},
                              !.written = [s \in Session |->
                                  IF s \in t.held.targets /\ ~attempts[s].superseded
                                  THEN supersede(attempts[s]) ELSE Null]])

(* Mutant: the transaction of a collision is left open.                     *)
InsertAttemptLeavingOpen(h) ==
    LET t == tx[h] IN
    /\ At(h, "insert")
    /\ IF ~Duplicate(t.session, t.held.number)
       THEN Advance(h, "lockParent", Write(t.held, t.session, createForPayment(t.held.number)))
       ELSE /\ tx' = [tx EXCEPT ![h].phase = IF t.tries < MaxTries THEN "begin" ELSE "ended",
                          ![h].tries = IF t.tries < MaxTries THEN @ + 1 ELSE @]
            /\ NoRowChanges

InsertAttempt(h) ==
    LET t == tx[h] IN
    /\ At(h, "insert")
    /\ IF ~Duplicate(t.session, t.held.number)
       THEN Advance(h, "lockParent", Write(t.held, t.session, createForPayment(t.held.number)))
       ELSE /\ tx' = [tx EXCEPT ![h].held = Closed,
                          ![h].phase = IF t.tries < MaxTries THEN "begin" ELSE "ended",
                          ![h].tries = IF t.tries < MaxTries THEN @ + 1 ELSE @]
            /\ NoRowChanges

UpdateParent(h) ==
    LET t == tx[h] IN
    /\ At(h, "lockParent")
    /\ \/ t.op = "fail"   /\ Commit(h, t.held, callbackChanges(t.cb, "failed"))
       \/ t.op = "retry"  /\ Commit(h, t.held, retryChanges(t.session))
       \/ t.op = "cancel" /\ Commit(h, t.held, cancelChanges)
       \/ /\ t.op = "reconcile"
          /\ \E status \in {"completed", "failed"} : Commit(h, t.held, reconcileChanges(status))

---------------------------------------------------------------------------
(* The database ends one of the transactions that wait for each other.      *)
Victim(h) == InCycle(h) /\ End(h)

(* A lost connection, or Prisma's timeout.                                  *)
Abort(h) == tx[h].phase \in Open /\ End(h)

Work(h) ==
    \/ Begin(h) \/ LockAttempt(h) \/ LockLegacy(h) \/ InsertBackfill(h) \/ ApplyCallback(h)
    \/ FailAttempt(h)
    \/ EnsureInitialAttempt(h) \/ Supersede(h) \/ InsertAttempt(h)
    \/ \E session \in Session : NextNumber(h, session)
    \/ UpdateParent(h)

Next ==
    \E h \in Handler :
        \/ \E cb \in Callbacks : StartCallback(h, cb) \/ StartFail(h, cb)
        \/ StartRetry(h) \/ StartCancel(h) \/ StartReconcile(h)
        \/ Work(h)
        \/ Victim(h) \/ Abort(h)

Spec == Init /\ [][Next]_vars

---------------------------------------------------------------------------

(* Whatever the statements interleave with, what is committed changes as if *)
(* each transaction had run alone on the rows it found: no callback is      *)
(* settled on a row another one changed since, no write of the parent mixes *)
(* with another's, and nothing of a transaction that failed remains.        *)
ImplementsRows == Rows!Spec

(* Two retries at once, a retry against a backfill, retries that collide:   *)
(* one attempt is current, the one numbered last.                           *)
OneCurrentAttempt == Rows!NumberedAttempts

(* Attempt row first, parent row second: only the backfill of a legacy      *)
(* payment, which holds the parent while it inserts, can deadlock.          *)
DeadlockNeedsBackfill ==
    \A h \in Handler : InCycle(h) =>
        \E g \in WaitsFor(h) : tx[g].phase \in {"insertBackfill", "relock"}

(* Nobody waits for ever: when every transaction under way waits, some wait *)
(* for each other and the database ends one, so that what a collision, an   *)
(* error or a victim held is free again.  Retries being bounded, every      *)
(* operation then ends.                                                     *)
Waiting(h) == tx[h].phase \notin {"idle", "ended"} /\ Blockers(h) # {}
NobodyWaitsForEver ==
    /\ \E h \in Handler : Waiting(h)
    /\ \A h \in Handler : Waiting(h) \/ tx[h].phase \in {"idle", "ended"}
    => \E h \in Handler : InCycle(h)

(* A result that reaches the parent reaches it whole: after a callback that *)
(* moved the parent, the parent has the status of its attempt.              *)
PropagatedInFull ==
    [][\A h \in Handler :
          /\ tx[h].op \in {"callback", "fail"}
          /\ tx[h].phase = "lockParent" /\ tx'[h].phase = "ended"
          /\ transaction' # transaction
          => transaction'.status = attempts'[tx[h].session].status]_vars
============================================================================
