------------------------- MODULE PaymentLifecycle -------------------------
(***************************************************************************)
(* One payment of the SISP client after it was created: the parent row of   *)
(* sisp_transactions, its rows of sisp_transaction_attempts and its row of  *)
(* sisp_invoices, and the handlers that read and write them: gateway        *)
(* callbacks, cancellations, retries, refunds and reconciliation.           *)
(*                                                                         *)
(* A handler is a chain of awaited calls.  Each action below is what runs   *)
(* from one await to the next; handlers interleave at the awaits, so a      *)
(* record a handler read earlier (held) may be stale when it is used.  A    *)
(* storage.transaction(...) block is one action: it keeps the rows it       *)
(* writes locked until it commits.                                          *)
(***************************************************************************)
EXTENDS Naturals, FiniteSets

CONSTANTS
    Handler,          \* requests, CLI runs and API calls in progress at once
    Session,          \* the merchantSession values the generator can produce
    FirstSession,     \* the session of the first submission
    GatewayId,        \* the transaction ids the gateway can assign
    Blank,            \* the empty transaction id of an error response
    Null,             \* SQL NULL, and the absent row
    GatewayCallbacks, \* the callbacks the gateway may deliver, in any order
    StatusAnswers,    \* what the status API may answer with result: true
    Operations,       \* the operations the application exposes
    MaxAttempts,      \* config.retry.maxAttempts, at least 1
    Amount,           \* the amount of the payment, in thousandths
    Origins,          \* "new": made by this release; "legacy": before attempts
    Crashes           \* TRUE: a process may die between two awaits

TransactionStatus == {"pending", "completed", "failed", "cancelled", "refunded"}
InvoiceStatus == {"none", "pending", "paid", "cancelled"}
MessageType == {"success", "error", "other"}

(* A notification of the gateway.  route: posted to the callback route, or  *)
(* handed to sisp.handleCallback by the application; signed: the fingerprint *)
(* verifies; matches: the details agree with the row.                       *)
Callback == [session : Session, message : MessageType,
             gateway : GatewayId \cup {Blank}, route : {"http", "api"},
             signed : BOOLEAN, matches : BOOLEAN]

ASSUME BlankAssumption == Blank \notin GatewayId
ASSUME SessionAssumption == FirstSession \in Session /\ IsFiniteSet(Session)
ASSUME GatewayAssumption == GatewayCallbacks \subseteq Callback
ASSUME AnswerAssumption == StatusAnswers \subseteq {"completed", "failed"}
ASSUME OperationAssumption ==
    Operations \subseteq {"callback", "cancel", "retry", "refund", "reconcile"}
ASSUME NumberAssumption == MaxAttempts \in Nat \ {0} /\ Amount \in Nat \ {0}
ASSUME FlagAssumption == Origins \subseteq {"new", "legacy"} /\ Crashes \in BOOLEAN

VARIABLES
    transaction,      \* the parent row
    attempts,         \* the attempt row of each session, Null when absent
    invoice,          \* the status of the invoice row, "none" when absent
    pc,               \* what each handler does next
    held,             \* the TransactionRecord each handler keeps in memory
    callback,         \* the CallbackPayload each handler is serving
    completedEvents,  \* payment:completed events emitted per session, 0..2
    refundedTotal     \* the sum of all refunds ever granted

vars == <<transaction, attempts, invoice, pc, held, callback,
          completedEvents, refundedTotal>>
handlerVars == <<pc, held, callback>>

RowId == GatewayId \cup {Blank, Null}
RowMessage == MessageType \cup {"cancelled", Null}

TransactionRow == [merchant_session : Session, status : TransactionStatus,
                   transaction_id : RowId, message_type : RowMessage,
                   refunded : Nat]
AttemptRow == [status : TransactionStatus, gateway_transaction_id : RowId,
               message_type : RowMessage, superseded : BOOLEAN]

ASSUME NullAssumption ==
    /\ Null \notin Session \cup GatewayId \cup MessageType \cup {Blank, "cancelled"}
    /\ Null \notin Callback \cup TransactionRow \cup AttemptRow

Submitted == {s \in Session : attempts[s] # Null}
Current == {s \in Submitted : ~attempts[s].superseded}

---------------------------------------------------------------------------
(* Pure decisions of the callback pipeline and the invoice action.          *)

mapTransactionStatus(message) ==
    IF message = "success" THEN "completed"
    ELSE IF message = "error" THEN "failed" ELSE "pending"

sameGatewayCallback(id, message, cb) == id = cb.gateway /\ message = cb.message

(* The attempt, or for a legacy payment the parent, already settled this.   *)
isAlreadyProcessed(status, id, message, cb) ==
    status = "completed" \/ sameGatewayCallback(id, message, cb)

(* Mutant: a completed attempt is not recognised as such.                   *)
isReplayCallbackUnlessCompleted(row, cb) ==
    /\ row.gateway_transaction_id # Null
    /\ \/ row.status = mapTransactionStatus(cb.message)
       \/ sameGatewayCallback(row.gateway_transaction_id, row.message_type, cb)

isReplayCallback(row, cb) ==
    /\ row.gateway_transaction_id # Null
    /\ \/ row.status = "completed"
       \/ row.status = mapTransactionStatus(cb.message)
       \/ sameGatewayCallback(row.gateway_transaction_id, row.message_type, cb)

shouldPropagate(row, status) == ~row.superseded \/ status = "completed"

attemptChangesFromCallback(row, cb, status) ==
    [row EXCEPT !.status = status, !.gateway_transaction_id = cb.gateway,
                !.message_type = cb.message]

(* Mutant: the parent keeps naming the session it named before.             *)
transactionChangesKeepingSession(session, cb, status) ==
    [transaction EXCEPT !.status = status, !.transaction_id = cb.gateway,
                        !.message_type = cb.message]

transactionChangesFromCallback(session, cb, status) ==
    [transaction EXCEPT !.merchant_session = session, !.status = status,
                        !.transaction_id = cb.gateway,
                        !.message_type = cb.message]

(* createFromTransaction: the attempt a row without attempts is given.      *)
attemptFromTransaction(row) ==
    [status |-> row.status, gateway_transaction_id |-> row.transaction_id,
     message_type |-> row.message_type, superseded |-> FALSE]

createForPayment ==
    [status |-> "pending", gateway_transaction_id |-> Null,
     message_type |-> Null, superseded |-> FALSE]

(* Mutant: supersedeOtherAttempts leaves the row as it was.                 *)
supersedeNothing(row) == row

supersede(row) == [row EXCEPT !.superseded = TRUE]

canCancel(status) == status \notin {"completed", "cancelled", "refunded"}

atRetryLimit == Cardinality(Submitted) >= MaxAttempts

(* Mutant: earlier refunds do not count against the balance.                *)
withinAmount(amount) == amount > 0 /\ amount <= Amount

withinBalance(amount) == amount > 0 /\ amount + transaction.refunded <= Amount

(* STATUS_MAP: a status it does not list leaves the invoice alone.          *)
invoiceStatusOf(status, old) ==
    IF status = "completed" THEN "paid"
    ELSE IF status = "failed" THEN "cancelled"
    ELSE IF status = "pending" THEN "pending" ELSE old

---------------------------------------------------------------------------
NewPayment ==
    /\ transaction = [merchant_session |-> FirstSession, status |-> "pending",
                      transaction_id |-> Null, message_type |-> Null,
                      refunded |-> 0]
    /\ attempts = [s \in Session |->
                     IF s = FirstSession THEN createForPayment ELSE Null]
    /\ invoice \in {"none", "pending"}

(* A payment made before the attempts migration, in the states the older    *)
(* release left: waiting for its callback, declined, or paid.               *)
LegacyPayment ==
    /\ \E id \in GatewayId :
         transaction \in
           {[merchant_session |-> FirstSession, status |-> "pending",
             transaction_id |-> Null, message_type |-> Null, refunded |-> 0],
            [merchant_session |-> FirstSession, status |-> "failed",
             transaction_id |-> Blank, message_type |-> "error", refunded |-> 0],
            [merchant_session |-> FirstSession, status |-> "completed",
             transaction_id |-> id, message_type |-> "success", refunded |-> 0]}
    /\ attempts = [s \in Session |-> Null]
    /\ invoice \in {"none", invoiceStatusOf(transaction.status, "none")}

Init ==
    /\ \/ "new" \in Origins /\ NewPayment
       \/ "legacy" \in Origins /\ LegacyPayment
    /\ pc = [p \in Handler |-> "idle"]
    /\ held = [p \in Handler |-> Null]
    /\ callback = [p \in Handler |-> Null]
    /\ completedEvents = [s \in Session |-> 0]
    /\ refundedTotal = 0

(* The handler p awaits next and still needs the record row; a record whose *)
(* mutable columns it does not read again is Null.                          *)
Await(p, next, row) ==
    /\ pc' = [pc EXCEPT ![p] = next]
    /\ held' = [held EXCEPT ![p] = row]
    /\ UNCHANGED callback

(* The handler p answers its caller and is gone.                            *)
Finish(p) ==
    /\ pc' = [pc EXCEPT ![p] = "idle"]
    /\ held' = [held EXCEPT ![p] = Null]
    /\ callback' = [callback EXCEPT ![p] = Null]

(* Mutant: the route ignores the outcome of the pipeline.                   *)
AfterPipelineWithoutInvoice(p, row) == Finish(p)

(* The callback pipeline is over: the route goes on to the invoice, the API *)
(* returns the outcome to the application.                                  *)
AfterPipeline(p, row) ==
    IF callback[p].route = "api" THEN Finish(p)
    ELSE /\ pc' = [pc EXCEPT ![p] = "invoice"]
         /\ held' = [held EXCEPT ![p] = row]
         /\ callback' = [callback EXCEPT ![p] = Null]

Idle(p, operation) == pc[p] = "idle" /\ operation \in Operations

---------------------------------------------------------------------------
(* The gateway callback (POST /callback).                                   *)

(* handleNotification up to isAlreadyProcessed's attempt lookup.  A replay  *)
(* is answered without a write, so only a fresh callback is a step.  The    *)
(* gateway only answers sessions that were submitted to it.                 *)
ReceiveCallback(p, cb) ==
    /\ Idle(p, "callback") /\ cb.route = "http"
    /\ cb.session \in Submitted \cup {transaction.merchant_session}
    /\ LET row == attempts[cb.session] IN
         IF row = Null
         THEN pc' = [pc EXCEPT ![p] = "precheckLegacy"]
         ELSE /\ ~isAlreadyProcessed(row.status, row.gateway_transaction_id,
                                     row.message_type, cb)
              /\ pc' = [pc EXCEPT ![p] = "resolve"]
    /\ callback' = [callback EXCEPT ![p] = cb]
    /\ UNCHANGED <<transaction, attempts, invoice, held, completedEvents,
                   refundedTotal>>

(* sisp.handleCallback runs the pipeline without that check.                *)
HandleCallback(p, cb) ==
    /\ Idle(p, "callback") /\ cb.route = "api"
    /\ cb.session \in Submitted \cup {transaction.merchant_session}
    /\ pc' = [pc EXCEPT ![p] = "resolve"]
    /\ callback' = [callback EXCEPT ![p] = cb]
    /\ UNCHANGED <<transaction, attempts, invoice, held, completedEvents,
                   refundedTotal>>

(* isAlreadyProcessed falls back to the parent found by ref and session.    *)
PrecheckLegacy(p) ==
    /\ pc[p] = "precheckLegacy"
    /\ IF /\ transaction.merchant_session = callback[p].session
          /\ isAlreadyProcessed(transaction.status, transaction.transaction_id,
                                transaction.message_type, callback[p])
       THEN Finish(p)
       ELSE Await(p, "resolve", Null)
    /\ UNCHANGED <<transaction, attempts, invoice, completedEvents,
                   refundedTotal>>

(* ValidateFingerprint and EnsureCallbackMatchesTransaction decide on what  *)
(* ResolveTransaction read; an unsigned callback ends here, unwritten.      *)
Decide(p, cb, failStep) ==
    IF ~cb.signed THEN Finish(p)
    ELSE IF cb.matches THEN Await(p, "apply", Null)
    ELSE Await(p, failStep, transaction)

(* ResolveTransaction.  Attempt rows are never deleted, so reading the      *)
(* attempt and then its parent is reading both when the parent is read.     *)
ResolveTransaction(p) ==
    /\ pc[p] = "resolve"
    /\ IF attempts[callback[p].session] # Null
       THEN Decide(p, callback[p], "fail")
       ELSE Await(p, "resolveLegacy", Null)
    /\ UNCHANGED <<transaction, attempts, invoice, completedEvents,
                   refundedTotal>>

(* ResolveTransaction without an attempt: the parent by ref and session, or *)
(* TransactionNotFoundError.                                                *)
ResolveLegacy(p) ==
    /\ pc[p] = "resolveLegacy"
    /\ IF transaction.merchant_session = callback[p].session
       THEN Decide(p, callback[p], "failLegacy")
       ELSE Finish(p)
    /\ UNCHANGED <<transaction, attempts, invoice, completedEvents,
                   refundedTotal>>

(* FailTransactionAction with an attempt: the attempt fails whatever it     *)
(* was; the parent follows only while the attempt is current.               *)
FailAttempt(p) ==
    /\ pc[p] = "fail"
    /\ LET cb == callback[p]
           row == attemptChangesFromCallback(attempts[cb.session], cb, "failed")
           failed == transactionChangesFromCallback(cb.session, cb, "failed")
       IN /\ attempts' = [attempts EXCEPT ![cb.session] = row]
          /\ IF shouldPropagate(row, "failed")
             THEN transaction' = failed /\ AfterPipeline(p, failed)
             ELSE UNCHANGED transaction /\ AfterPipeline(p, held[p])
    /\ UNCHANGED <<invoice, completedEvents, refundedTotal>>

(* FailTransactionAction without an attempt writes the parent directly.     *)
FailLegacy(p) ==
    /\ pc[p] = "failLegacy"
    /\ transaction' = transactionChangesFromCallback(
                          held[p].merchant_session, callback[p], "failed")
    /\ AfterPipeline(p, transaction')
    /\ UNCHANGED <<attempts, invoice, completedEvents, refundedTotal>>

(* The attempt row ApplyTransactionStatus works on: the locked one, or the  *)
(* one backfillLegacyAttempt creates from the locked parent.                *)
LockedAttempt(session) ==
    IF attempts[session] # Null THEN attempts[session]
    ELSE attemptFromTransaction(transaction)

(* ApplyTransactionStatus finds the callback already applied: only a        *)
(* backfilled attempt is written.                                           *)
ApplyReplay(p) ==
    /\ pc[p] = "apply"
    /\ LET cb == callback[p]
           row == LockedAttempt(cb.session)
       IN /\ isReplayCallback(row, cb)
          /\ attempts' = [attempts EXCEPT ![cb.session] = row]
    /\ Finish(p)
    /\ UNCHANGED <<transaction, invoice, completedEvents, refundedTotal>>

(* ApplyTransactionStatus: attempt and parent in one storage transaction.   *)
ApplyTransactionStatus(p) ==
    /\ pc[p] = "apply"
    /\ LET cb == callback[p]
           locked == LockedAttempt(cb.session)
           status == mapTransactionStatus(cb.message)
           row == attemptChangesFromCallback(locked, cb, status)
           updated == transactionChangesFromCallback(cb.session, cb, status)
       IN /\ ~isReplayCallback(locked, cb)
          /\ attempts' = [attempts EXCEPT ![cb.session] = row]
          /\ IF shouldPropagate(row, status)
             THEN transaction' = updated /\ Await(p, "dispatch", updated)
             ELSE UNCHANGED transaction /\ AfterPipeline(p, transaction)
    /\ UNCHANGED <<invoice, completedEvents, refundedTotal>>

(* DispatchPaymentEvents, after the commit.                                 *)
DispatchPaymentEvents(p) ==
    /\ pc[p] = "dispatch"
    /\ completedEvents' =
         IF held[p].status = "completed"
         THEN [completedEvents EXCEPT ![callback[p].session] =
                 IF @ < 2 THEN @ + 1 ELSE 2]
         ELSE completedEvents
    /\ AfterPipeline(p, held[p])
    /\ UNCHANGED <<transaction, attempts, invoice, refundedTotal>>

(* UpdateInvoiceStatusAction for the record the handler ended up with.      *)
UpdateInvoiceStatus(p) ==
    /\ pc[p] = "invoice"
    /\ invoice' = IF invoice = "none" THEN "none"
                  ELSE invoiceStatusOf(held[p].status, invoice)
    /\ Finish(p)
    /\ UNCHANGED <<transaction, attempts, completedEvents, refundedTotal>>

---------------------------------------------------------------------------
(* Cancellation: the signed route, the user-cancelled callback, cancel().   *)

(* The caller's record is read, and CancelTransactionAction checks it.      *)
StartCancel(p) ==
    /\ Idle(p, "cancel")
    /\ canCancel(transaction.status)
    /\ Await(p, "cancel", Null)
    /\ UNCHANGED <<transaction, attempts, invoice, completedEvents,
                   refundedTotal>>

(* The update locks the row and writes without looking at it again.         *)
CancelTransaction(p) ==
    /\ pc[p] = "cancel"
    /\ transaction' = [transaction EXCEPT !.status = "cancelled",
                                          !.message_type = "cancelled"]
    /\ Finish(p)
    /\ UNCHANGED <<attempts, invoice, completedEvents, refundedTotal>>

---------------------------------------------------------------------------
(* Retry (POST /retry-payment, or the same checkout posted again).          *)

(* The handler reads the parent; canRetryPayment wants it failed.           *)
StartRetry(p) ==
    /\ Idle(p, "retry")
    /\ transaction.status = "failed"
    /\ Await(p, "retry", transaction)
    /\ UNCHANGED <<transaction, attempts, invoice, completedEvents,
                   refundedTotal>>

(* ensureInitialAttempt lists the attempts, ensureRetryLimit counts them.   *)
(* The handler's own earlier count is subsumed: attempts only accumulate.   *)
CheckRetryLimit(p) ==
    /\ pc[p] = "retry"
    /\ IF Submitted = {} THEN Await(p, "backfill", held[p])
       ELSE IF atRetryLimit THEN Finish(p)
       ELSE Await(p, "createAttempt", Null)
    /\ UNCHANGED <<transaction, attempts, invoice, completedEvents,
                   refundedTotal>>

(* ensureInitialAttempt's backfill, from the record read earlier; when      *)
(* another request inserted the row first the unique error is tolerated.    *)
EnsureInitialAttempt(p) ==
    /\ pc[p] = "backfill"
    /\ attempts' = [attempts EXCEPT ![held[p].merchant_session] =
                      IF @ = Null THEN attemptFromTransaction(held[p]) ELSE @]
    /\ Await(p, "retry", held[p])
    /\ UNCHANGED <<transaction, invoice, completedEvents, refundedTotal>>

(* CreateRetryPaymentAttemptAction's storage transaction with a candidate   *)
(* session that no unique index refuses.                                    *)
CreateRetryPaymentAttempt(p, s) ==
    /\ pc[p] = "createAttempt"
    /\ s \notin Submitted
    /\ attempts' = [t \in Session |->
                      IF t = s THEN createForPayment
                      ELSE IF attempts[t] = Null THEN Null
                      ELSE supersede(attempts[t])]
    /\ transaction' = [transaction EXCEPT !.merchant_session = s,
                                          !.status = "pending",
                                          !.transaction_id = Null,
                                          !.message_type = Null]
    /\ Finish(p)
    /\ UNCHANGED <<invoice, completedEvents, refundedTotal>>

(* Every candidate collided with an existing session.                       *)
UnableToGenerateUniquePaymentIdentifiers(p) ==
    /\ pc[p] = "createAttempt"
    /\ Finish(p)
    /\ UNCHANGED <<transaction, attempts, invoice, completedEvents,
                   refundedTotal>>

---------------------------------------------------------------------------
(* RefundTransactionAction: locked, checked and written in one storage      *)
(* transaction; the reversal needs the gateway id of the payment.           *)
RefundTransaction(p, amount) ==
    /\ Idle(p, "refund")
    /\ transaction.status = "completed"
    /\ withinBalance(amount)
    /\ transaction.transaction_id \notin {Null, Blank}
    /\ transaction' = [transaction EXCEPT
                         !.refunded = @ + amount,
                         !.status = IF transaction.refunded + amount = Amount
                                    THEN "refunded" ELSE "completed"]
    /\ refundedTotal' = refundedTotal + amount
    /\ UNCHANGED <<attempts, invoice, handlerVars, completedEvents>>

---------------------------------------------------------------------------
(* ReconcileTransactionStatusAction, alone or from reconcilePending.        *)

StartReconcile(p) ==
    /\ Idle(p, "reconcile")
    /\ transaction.status = "pending"
    /\ Await(p, "query", transaction)
    /\ UNCHANGED <<transaction, attempts, invoice, completedEvents,
                   refundedTotal>>

(* The gateway answered result: true.  The payload written back is the one  *)
(* read before the query, with the refund history it had then.              *)
ApplyResponse(p, answer) ==
    /\ pc[p] = "query"
    /\ transaction' = [transaction EXCEPT !.status = answer,
                                          !.refunded = held[p].refunded]
    /\ Await(p, "invoice", transaction')
    /\ UNCHANGED <<attempts, invoice, completedEvents, refundedTotal>>

(* The query failed or the gateway answered result: false.                  *)
NoResponse(p) ==
    /\ pc[p] = "query"
    /\ Finish(p)
    /\ UNCHANGED <<transaction, attempts, invoice, completedEvents,
                   refundedTotal>>

---------------------------------------------------------------------------
(* The process dies between two awaits, or a call made through runQuietly   *)
(* fails: what was committed stays, the rest of the handler never runs.     *)
Crash(p) ==
    /\ Crashes
    /\ pc[p] # "idle"
    /\ Finish(p)
    /\ UNCHANGED <<transaction, attempts, invoice, completedEvents,
                   refundedTotal>>

Begin(p) ==
    \/ \E cb \in GatewayCallbacks : ReceiveCallback(p, cb) \/ HandleCallback(p, cb)
    \/ StartCancel(p)
    \/ StartRetry(p)
    \/ \E amount \in 1..Amount : RefundTransaction(p, amount)
    \/ StartReconcile(p)

Continue(p) ==
    \/ PrecheckLegacy(p)
    \/ ResolveTransaction(p)
    \/ ResolveLegacy(p)
    \/ FailAttempt(p)
    \/ FailLegacy(p)
    \/ ApplyReplay(p)
    \/ ApplyTransactionStatus(p)
    \/ DispatchPaymentEvents(p)
    \/ UpdateInvoiceStatus(p)
    \/ CancelTransaction(p)
    \/ CheckRetryLimit(p)
    \/ EnsureInitialAttempt(p)
    \/ \E s \in Session : CreateRetryPaymentAttempt(p, s)
    \/ UnableToGenerateUniquePaymentIdentifiers(p)
    \/ \E answer \in StatusAnswers : ApplyResponse(p, answer)
    \/ NoResponse(p)

Next == \E p \in Handler : Begin(p) \/ Continue(p) \/ Crash(p)

Spec == Init /\ [][Next]_vars

(* The event loop resumes every handler whose awaited call has answered.    *)
(* Nothing makes a caller start a handler.                                  *)
FairSpec == Spec /\ \A p \in Handler : WF_vars(Continue(p))

---------------------------------------------------------------------------
Step == {"idle", "precheckLegacy", "resolve", "resolveLegacy", "fail",
         "failLegacy", "apply", "dispatch", "invoice", "cancel", "retry",
         "backfill", "createAttempt", "query"}
CallbackStep == {"precheckLegacy", "resolve", "resolveLegacy", "fail",
                 "failLegacy", "apply", "dispatch"}
HoldingStep == {"fail", "failLegacy", "dispatch", "invoice", "retry",
                "backfill", "query"}

RowsOK ==
    /\ transaction \in TransactionRow
    /\ attempts \in [Session -> AttemptRow \cup {Null}]
    /\ invoice \in InvoiceStatus
    /\ completedEvents \in [Session -> 0..2]
    /\ refundedTotal \in Nat

HandlersOK ==
    /\ pc \in [Handler -> Step]
    /\ held \in [Handler -> TransactionRow \cup {Null}]
    /\ callback \in [Handler -> Callback \cup {Null}]
    /\ \A p \in Handler : pc[p] \in CallbackStep => callback[p] \in Callback
    /\ \A p \in Handler : pc[p] \in HoldingStep => held[p] \in TransactionRow

(* The rows keep their columns' types, and a handler that is past a read    *)
(* holds what it read.                                                      *)
TypeOK == RowsOK /\ HandlersOK

(* Once a payment has attempts, exactly one of them is not superseded:      *)
(* retries racing each other, callbacks and backfills never leave two       *)
(* submissions, or none, that may move the parent                           *)
(* (create-retry-payment-attempt.ts, transaction-attempt.ts).               *)
OneCurrentAttempt == Submitted # {} => \E s \in Session : Current = {s}

(* The parent row says of the payment what the attempt it names says: a     *)
(* pending or failed parent names the current attempt, in that status; a    *)
(* paid one names an attempt that was paid (a backfilled one copies even    *)
(* "refunded") and carries that attempt's gateway id, which is the payment  *)
(* a refund will reverse                                                    *)
(* (apply-transaction-status.ts, refund-transaction.ts).                    *)
ParentReflectsAttempt ==
    Submitted # {} =>
      LET row == attempts[transaction.merchant_session] IN
      /\ row # Null
      /\ transaction.status \in {"pending", "failed"} =>
           ~row.superseded /\ row.status = transaction.status
      /\ transaction.status \in {"completed", "refunded"} =>
           /\ row.status \in {"completed", transaction.status}
           /\ row.gateway_transaction_id = transaction.transaction_id

(* However often the gateway delivers a success, and however deliveries     *)
(* overlap or die halfway, payment:completed is emitted at most once per    *)
(* attempt (isReplayCallback under the attempt's row lock).                 *)
CompletedAtMostOnce == \A s \in Session : completedEvents[s] <= 1

(* The refund history stored in the payload accounts for every refund that  *)
(* was granted, they never exceed the amount, and only a fully refunded     *)
(* payment is marked refunded (refund-transaction.ts).                      *)
RefundsAccounted ==
    /\ transaction.refunded = refundedTotal
    /\ refundedTotal <= Amount
    /\ transaction.status = "refunded" => transaction.refunded = Amount

(* Whoever was told that a payment is paid was told so for good: an attempt *)
(* that was announced stays completed, and a paid invoice rests on a        *)
(* completed attempt (or on a parent that never had one), whatever arrives  *)
(* late or twice for it and whichever handler writes the invoice last.  A   *)
(* full refund of a payment without attempts is the exception: its backfill *)
(* copies "refunded", which an error may still overwrite                    *)
(* (apply-transaction-status.ts, update-invoice-status.ts).                 *)
PaidStaysPaid ==
    /\ \A s \in Session : completedEvents[s] > 0 =>
         s \in Submitted /\ attempts[s].status = "completed"
    /\ invoice = "paid" /\ refundedTotal < Amount =>
         \/ Submitted = {} /\ transaction.status = "completed"
         \/ \E s \in Submitted : attempts[s].status = "completed"

(* A payment that is completed eventually has its invoice paid, if it has   *)
(* one, when no process dies (callback-handlers.ts, reconcile).             *)
CompletedIsInvoiced ==
    transaction.status = "completed" ~> invoice \in {"none", "paid"}

(* An attempt the gateway completed keeps the parent paid whatever arrives  *)
(* for another attempt (docs/11-idempotency.md, the propagation rules).     *)
SuccessWins ==
    (\E s \in Submitted : attempts[s].status = "completed")
      => transaction.status \in {"completed", "refunded"}
===========================================================================
