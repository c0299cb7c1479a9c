----------------------------- MODULE PaymentRows -----------------------------
(***************************************************************************)
(* What the storage transactions of a payment promise: the parent row and  *)
(* its attempts change as if every transaction ran alone.                  *)
(* StorageTransactions implements this with row locks, unique indexes and  *)
(* statements that interleave.                                             *)
(***************************************************************************)
EXTENDS PaymentColumns

VARIABLES transaction, attempts

rows == <<transaction, attempts>>

Submitted == {s \in Session : attempts[s] # Null}

(* A payment with its first attempt, or of the release that had none.       *)
Init ==
    /\ \E status \in {"pending", "failed"} :
          transaction = [session |-> FirstSession, status |-> status, id |-> Null, message |-> Null]
    /\ attempts \in {[s \in Session |-> IF s = FirstSession THEN createForPayment(1) ELSE Null],
                     [s \in Session |-> Null]}

(* What a callback makes of the attempt it names.                           *)
Settle(cb, row) ==
    IF isReplayCallback(row, cb)
    THEN attempts' = [attempts EXCEPT ![cb.session] = row] /\ UNCHANGED transaction
    ELSE /\ attempts' = [attempts EXCEPT ![cb.session] = attemptChangesFromCallback(row, cb, cb.status)]
         /\ transaction' = IF shouldPropagate(row, cb.status)
                           THEN Changed(transaction, callbackChanges(cb, cb.status))
                           ELSE transaction

Apply(cb) == cb.session \in Submitted /\ Settle(cb, attempts[cb.session])

(* A legacy payment gets its attempt from the row it has.                   *)
ApplyToLegacy(cb) ==
    /\ cb.session \notin Submitted
    /\ transaction.session = cb.session
    /\ Settle(cb, createFromTransaction(transaction, nextAttemptNumber(attempts)))

(* A rejected callback fails its attempt without a look for a replay.       *)
Fail(cb) ==
    LET row == attempts[cb.session]
    IN  /\ cb.session \in Submitted
        /\ attempts' = [attempts EXCEPT ![cb.session] = attemptChangesFromCallback(row, cb, "failed")]
        /\ transaction' = IF shouldPropagate(row, "failed")
                          THEN Changed(transaction, callbackChanges(cb, "failed"))
                          ELSE transaction

(* A retry of a payment without attempts records the one it had, as the     *)
(* request read it.                                                         *)
EnsureInitialAttempt ==
    /\ Submitted = {}
    /\ \E read \in TransactionRow :
          /\ read.session = transaction.session
          /\ attempts' = [attempts EXCEPT ![read.session] = createFromTransaction(read, 1)]
    /\ UNCHANGED transaction

Retry(s) ==
    /\ s \notin Submitted
    /\ attempts' = [t \in Session |->
                      IF t = s THEN createForPayment(nextAttemptNumber(attempts))
                      ELSE IF t \in Submitted THEN supersede(attempts[t]) ELSE Null]
    /\ transaction' = Changed(transaction, retryChanges(s))

(* Cancellation, reconciliation: the parent alone.                          *)
Cancel == transaction' = Changed(transaction, cancelChanges) /\ UNCHANGED attempts
Reconcile ==
    /\ \E status \in {"completed", "failed"} :
          transaction' = Changed(transaction, reconcileChanges(status))
    /\ UNCHANGED attempts

Next ==
    \/ \E cb \in Callbacks : Apply(cb) \/ ApplyToLegacy(cb) \/ Fail(cb)
    \/ EnsureInitialAttempt
    \/ \E s \in Session : Retry(s)
    \/ Cancel \/ Reconcile

Spec == Init /\ [][Next]_rows

---------------------------------------------------------------------------
(* The attempts are numbered without a gap or a repetition, and the one     *)
(* with the highest number is the only one not superseded: whatever retries, *)
(* callbacks and backfills run, a payment has exactly one attempt whose      *)
(* errors count.                                                            *)
NumberedAttempts ==
    /\ \A s, t \in Submitted : s # t => attempts[s].number # attempts[t].number
    /\ \A s \in Submitted : attempts[s].superseded <=> \E t \in Submitted : attempts[t].number > attempts[s].number
============================================================================
