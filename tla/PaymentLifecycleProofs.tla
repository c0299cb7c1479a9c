---------------------- MODULE PaymentLifecycleProofs ----------------------
(* Theorems about PaymentLifecycle for every value of its constants.        *)
EXTENDS PaymentLifecycle, TLAPS

---------------------------------------------------------------------------
(* The inductive invariants.                                                *)

(* Where sessions come from: the first submission is the first to get a     *)
(* row, and whatever session the parent or a handler names is submitted or  *)
(* is the first one, whose row may still have to be backfilled.             *)
SessionKnown(p) ==
    /\ pc[p] \in CallbackStep =>
         callback[p].session \in Submitted \cup {FirstSession}
    /\ pc[p] \in {"fail", "dispatch"} => callback[p].session \in Submitted
    /\ pc[p] \in {"failLegacy", "retry"} =>
         held[p].merchant_session \in Submitted \cup {FirstSession}
    /\ pc[p] = "backfill" => held[p].merchant_session = FirstSession
    /\ pc[p] = "createAttempt" => Submitted # {}

SubmissionInv ==
    /\ Submitted # {} => FirstSession \in Submitted
    /\ transaction.merchant_session \in Submitted \cup {FirstSession}
    /\ \A p \in Handler : SessionKnown(p)

---------------------------------------------------------------------------
(* mapTransactionStatus only answers the three statuses of a callback.      *)
LEMMA MapTransactionStatusRange ==
    ASSUME NEW message
    PROVE  mapTransactionStatus(message) \in {"completed", "failed", "pending"}
BY DEF mapTransactionStatus

(* The rows a callback rewrites keep their types.                           *)
LEMMA CallbackChangesType ==
    ASSUME NEW cb \in Callback, NEW status \in {"completed", "failed", "pending"}
    PROVE  /\ \A row \in AttemptRow :
                attemptChangesFromCallback(row, cb, status) \in AttemptRow
           /\ transaction \in TransactionRow =>
                \A s \in Session :
                  transactionChangesFromCallback(s, cb, status) \in TransactionRow
BY DEF Callback, AttemptRow, TransactionRow, attemptChangesFromCallback,
       transactionChangesFromCallback, TransactionStatus, RowId, RowMessage

(* The row a legacy payment is given (createFromTransaction) is an attempt  *)
(* row.                                                                     *)
LEMMA AttemptFromTransactionType ==
    ASSUME NEW row \in TransactionRow
    PROVE  attemptFromTransaction(row) \in AttemptRow
BY DEF attemptFromTransaction, AttemptRow, TransactionRow

(* The row of a fresh submission is an attempt row.                         *)
LEMMA CreateForPaymentType == createForPayment \in AttemptRow
BY DEF createForPayment, AttemptRow, TransactionStatus, RowId, RowMessage

(* The three ways a handler moves keep the handlers' types.                 *)
LEMMA AwaitType ==
    ASSUME NEW p \in Handler, NEW next \in Step,
           NEW row \in TransactionRow \cup {Null}, HandlersOK,
           Await(p, next, row),
           next \in CallbackStep => callback[p] \in Callback,
           next \in HoldingStep => row \in TransactionRow
    PROVE  HandlersOK'
BY DEF HandlersOK, Await, CallbackStep, HoldingStep

(* A handler that answered its caller holds nothing.                        *)
LEMMA FinishType ==
    ASSUME NEW p \in Handler, HandlersOK, Finish(p)
    PROVE  HandlersOK'
BY DEF HandlersOK, Finish, CallbackStep, HoldingStep, Step

(* The end of the callback pipeline, on the route or in the API.            *)
LEMMA AfterPipelineType ==
    ASSUME NEW p \in Handler, NEW row \in TransactionRow, HandlersOK,
           AfterPipeline(p, row)
    PROVE  HandlersOK'
BY FinishType DEF HandlersOK, AfterPipeline, CallbackStep, HoldingStep, Step

(* Payments of either release start with rows of the right types.           *)
LEMMA InitTypeOK == Init => TypeOK
<1> SUFFICES ASSUME Init PROVE TypeOK
  OBVIOUS
<1>1. HandlersOK
  BY DEF Init, HandlersOK, Step, CallbackStep, HoldingStep
<1>2. completedEvents \in [Session -> 0..2] /\ refundedTotal \in Nat
  BY DEF Init
<1>3. /\ transaction \in TransactionRow
      /\ attempts \in [Session -> AttemptRow \cup {Null}]
      /\ invoice \in InvoiceStatus
  <2>1. CASE NewPayment
    BY <2>1, CreateForPaymentType, SessionAssumption
       DEF NewPayment, TransactionRow, TransactionStatus, RowId, RowMessage,
           InvoiceStatus
  <2>2. CASE LegacyPayment
    <3>1. transaction \in TransactionRow
      BY <2>2, SessionAssumption
         DEF LegacyPayment, TransactionRow, TransactionStatus, RowId,
             RowMessage, MessageType
    <3>2. invoice \in InvoiceStatus
      BY <2>2 DEF LegacyPayment, InvoiceStatus, invoiceStatusOf
    <3> QED
      BY <2>2, <3>1, <3>2 DEF LegacyPayment
  <2> QED
    BY <2>1, <2>2 DEF Init
<1> QED
  BY <1>1, <1>2, <1>3 DEF TypeOK, RowsOK

(* The steps that start a handler: two callbacks, cancel, retry, refund,    *)
(* reconcile.                                                               *)
LEMMA BeginTypeOK ==
    ASSUME TypeOK, NEW p \in Handler, Begin(p)
    PROVE  TypeOK'
<1> USE DEF TypeOK
<1>1. ASSUME NEW cb \in GatewayCallbacks,
             ReceiveCallback(p, cb) \/ HandleCallback(p, cb)
      PROVE  TypeOK'
  <2>1. cb \in Callback
    BY GatewayAssumption
  <2>2. /\ callback' = [callback EXCEPT ![p] = cb]
        /\ \E next \in {"precheckLegacy", "resolve"} :
             pc' = [pc EXCEPT ![p] = next]
        /\ UNCHANGED <<transaction, attempts, invoice, held, completedEvents,
                       refundedTotal>>
    BY <1>1 DEF ReceiveCallback, HandleCallback
  <2>3. RowsOK'
    BY <2>2 DEF RowsOK
  <2>4. HandlersOK'
    BY <2>1, <2>2 DEF HandlersOK, Step, CallbackStep, HoldingStep
  <2> QED
    BY <2>3, <2>4
<1>2. CASE StartCancel(p)
  <2>1. RowsOK'
    BY <1>2 DEF StartCancel, RowsOK
  <2>2. HandlersOK'
    BY <1>2, AwaitType DEF StartCancel, Step, CallbackStep, HoldingStep
  <2> QED
    BY <2>1, <2>2
<1>3. CASE StartRetry(p)
  <2>1. RowsOK'
    BY <1>3 DEF StartRetry, RowsOK
  <2>2. HandlersOK'
    BY <1>3, AwaitType DEF StartRetry, RowsOK, Step, CallbackStep, HoldingStep
  <2> QED
    BY <2>1, <2>2
<1>4. ASSUME NEW amount \in 1..Amount, RefundTransaction(p, amount)
      PROVE  TypeOK'
  <2> DEFINE total == transaction.refunded + amount
             status == IF total = Amount THEN "refunded" ELSE "completed"
  <2>a. transaction \in TransactionRow /\ refundedTotal \in Nat /\ amount \in Nat
    BY NumberAssumption DEF RowsOK
  <2>b. total \in Nat /\ refundedTotal + amount \in Nat
    BY <2>a DEF TransactionRow
  <2>c. status \in TransactionStatus
    BY DEF TransactionStatus
  <2>d. transaction' = [transaction EXCEPT !.refunded = total, !.status = status]
    BY <1>4, <2>a DEF RefundTransaction, TransactionRow
  <2> HIDE DEF total, status
  <2>1. transaction' \in TransactionRow /\ refundedTotal' \in Nat
    BY <1>4, <2>a, <2>b, <2>c, <2>d DEF RefundTransaction, TransactionRow
  <2>2. RowsOK'
    BY <1>4, <2>1 DEF RefundTransaction, RowsOK
  <2>3. HandlersOK'
    BY <1>4 DEF RefundTransaction, handlerVars, HandlersOK
  <2> QED
    BY <2>2, <2>3
<1>5. CASE StartReconcile(p)
  <2>1. RowsOK'
    BY <1>5 DEF StartReconcile, RowsOK
  <2>2. HandlersOK'
    BY <1>5, AwaitType DEF StartReconcile, RowsOK, Step, CallbackStep, HoldingStep
  <2> QED
    BY <2>1, <2>2
<1> QED
  BY <1>1, <1>2, <1>3, <1>4, <1>5 DEF Begin

(* The steps of the callback pipeline.                                      *)
LEMMA CallbackTypeOK ==
    ASSUME TypeOK, SubmissionInv, NEW p \in Handler,
           \/ PrecheckLegacy(p) \/ ResolveTransaction(p) \/ ResolveLegacy(p)
           \/ FailAttempt(p) \/ FailLegacy(p) \/ ApplyReplay(p)
           \/ ApplyTransactionStatus(p) \/ DispatchPaymentEvents(p)
    PROVE  TypeOK'
<1> USE DEF TypeOK
<1> DEFINE cb == callback[p]
<1>0. cb \in Callback /\ cb.session \in Session
  BY DEF HandlersOK, CallbackStep, PrecheckLegacy, ResolveTransaction,
         ResolveLegacy, FailAttempt, FailLegacy, ApplyReplay,
         ApplyTransactionStatus, DispatchPaymentEvents, Callback
<1>1. CASE PrecheckLegacy(p)
  <2>1. RowsOK'
    BY <1>1 DEF PrecheckLegacy, RowsOK
  <2>2. HandlersOK'
    BY <1>0, <1>1, AwaitType, FinishType
       DEF PrecheckLegacy, Step, CallbackStep, HoldingStep
  <2> QED
    BY <2>1, <2>2
<1>2. ASSUME NEW failStep \in {"fail", "failLegacy"}, Decide(p, cb, failStep)
      PROVE  HandlersOK'
  BY <1>0, <1>2, AwaitType, FinishType
     DEF Decide, RowsOK, Step, CallbackStep, HoldingStep
<1>3. CASE ResolveTransaction(p)
  <2>1. RowsOK'
    BY <1>3 DEF ResolveTransaction, RowsOK
  <2>2. HandlersOK'
    BY <1>0, <1>2, <1>3, AwaitType
       DEF ResolveTransaction, Step, CallbackStep, HoldingStep
  <2> QED
    BY <2>1, <2>2
<1>4. CASE ResolveLegacy(p)
  <2>1. RowsOK'
    BY <1>4 DEF ResolveLegacy, RowsOK
  <2>2. HandlersOK'
    BY <1>2, <1>4, FinishType DEF ResolveLegacy
  <2> QED
    BY <2>1, <2>2
<1>5. CASE FailAttempt(p)
  <2> DEFINE row == attemptChangesFromCallback(attempts[cb.session], cb, "failed")
             failed == transactionChangesFromCallback(cb.session, cb, "failed")
  <2>1. /\ held[p] \in TransactionRow
        /\ failed \in TransactionRow
        /\ row \in AttemptRow
    BY <1>0, <1>5, CallbackChangesType
       DEF FailAttempt, HandlersOK, HoldingStep, RowsOK, SubmissionInv,
           SessionKnown, Submitted
  <2> HIDE DEF row, failed
  <2>2. /\ attempts' = [attempts EXCEPT ![cb.session] = row]
        /\ \/ transaction' = failed /\ AfterPipeline(p, failed)
           \/ UNCHANGED transaction /\ AfterPipeline(p, held[p])
        /\ UNCHANGED <<invoice, completedEvents, refundedTotal>>
    BY <1>5 DEF FailAttempt, row, failed
  <2>3. HandlersOK'
    BY <2>1, <2>2, AfterPipelineType
  <2>4. RowsOK'
    BY <1>0, <2>1, <2>2 DEF RowsOK
  <2> QED
    BY <2>3, <2>4
<1>6. CASE FailLegacy(p)
  <2>1. held[p] \in TransactionRow
    BY <1>6 DEF FailLegacy, HandlersOK, HoldingStep
  <2>2. transaction' \in TransactionRow
    BY <1>0, <1>6, <2>1, CallbackChangesType
       DEF FailLegacy, RowsOK, TransactionRow
  <2>3. HandlersOK'
    BY <1>6, <2>2, AfterPipelineType DEF FailLegacy
  <2>4. RowsOK'
    BY <1>6, <2>2 DEF FailLegacy, RowsOK
  <2> QED
    BY <2>3, <2>4
<1>a. LockedAttempt(cb.session) \in AttemptRow
  BY <1>0, AttemptFromTransactionType DEF LockedAttempt, RowsOK
<1>7. CASE ApplyReplay(p)
  <2>1. /\ attempts' = [attempts EXCEPT ![cb.session] = LockedAttempt(cb.session)]
        /\ Finish(p)
        /\ UNCHANGED <<transaction, invoice, completedEvents, refundedTotal>>
    BY <1>7 DEF ApplyReplay
  <2>2. RowsOK'
    BY <1>0, <1>a, <2>1 DEF RowsOK
  <2>3. HandlersOK'
    BY <2>1, FinishType
  <2> QED
    BY <2>2, <2>3
<1>8. CASE ApplyTransactionStatus(p)
  <2> DEFINE status == mapTransactionStatus(cb.message)
             row == attemptChangesFromCallback(LockedAttempt(cb.session), cb, status)
             updated == transactionChangesFromCallback(cb.session, cb, status)
  <2>1. /\ transaction \in TransactionRow
        /\ updated \in TransactionRow
        /\ row \in AttemptRow
    BY <1>0, <1>a, CallbackChangesType, MapTransactionStatusRange DEF RowsOK
  <2>2. /\ attempts' = [attempts EXCEPT ![cb.session] = row]
        /\ \/ transaction' = updated /\ Await(p, "dispatch", updated)
           \/ UNCHANGED transaction /\ AfterPipeline(p, transaction)
        /\ UNCHANGED <<invoice, completedEvents, refundedTotal>>
    BY <1>8 DEF ApplyTransactionStatus
  <2> HIDE DEF status, row, updated
  <2>3. HandlersOK'
    BY <1>0, <2>1, <2>2, AfterPipelineType, AwaitType
       DEF Step, CallbackStep, HoldingStep
  <2>4. RowsOK'
    BY <1>0, <2>1, <2>2 DEF RowsOK
  <2> QED
    BY <2>3, <2>4
<1>9. CASE DispatchPaymentEvents(p)
  <2>1. held[p] \in TransactionRow
    BY <1>9 DEF DispatchPaymentEvents, HandlersOK, HoldingStep
  <2>2. completedEvents' \in [Session -> 0..2]
    BY <1>0, <1>9 DEF DispatchPaymentEvents, RowsOK
  <2>3. HandlersOK'
    BY <1>9, <2>1, AfterPipelineType DEF DispatchPaymentEvents
  <2> QED
    BY <1>9, <2>2, <2>3 DEF DispatchPaymentEvents, RowsOK
<1> QED
  BY <1>1, <1>3, <1>4, <1>5, <1>6, <1>7, <1>8, <1>9

(* The steps of the invoice update and of the other operations.             *)
LEMMA OperationTypeOK ==
    ASSUME TypeOK, SubmissionInv, NEW p \in Handler,
           \/ UpdateInvoiceStatus(p) \/ CancelTransaction(p)
           \/ CheckRetryLimit(p) \/ EnsureInitialAttempt(p)
           \/ \E s \in Session : CreateRetryPaymentAttempt(p, s)
           \/ UnableToGenerateUniquePaymentIdentifiers(p)
           \/ \E answer \in StatusAnswers : ApplyResponse(p, answer)
           \/ NoResponse(p) \/ Crash(p)
    PROVE  TypeOK'
<1> USE DEF TypeOK
<1>1. CASE UpdateInvoiceStatus(p)
  <2>1. invoice' \in InvoiceStatus
    BY <1>1 DEF UpdateInvoiceStatus, invoiceStatusOf, RowsOK, InvoiceStatus
  <2> QED
    BY <1>1, <2>1, FinishType DEF UpdateInvoiceStatus, RowsOK
<1>2. CASE CancelTransaction(p)
  <2>1. transaction' \in TransactionRow
    BY <1>2 DEF CancelTransaction, RowsOK, TransactionRow, TransactionStatus,
                RowMessage
  <2> QED
    BY <1>2, <2>1, FinishType DEF CancelTransaction, RowsOK
<1>3. CASE CheckRetryLimit(p)
  <2>1. held[p] \in TransactionRow
    BY <1>3 DEF CheckRetryLimit, HandlersOK, HoldingStep
  <2>2. HandlersOK'
    BY <1>3, <2>1, AwaitType, FinishType
       DEF CheckRetryLimit, Step, CallbackStep, HoldingStep
  <2> QED
    BY <1>3, <2>2 DEF CheckRetryLimit, RowsOK
<1>4. CASE EnsureInitialAttempt(p)
  <2>1. held[p] \in TransactionRow
    BY <1>4 DEF EnsureInitialAttempt, HandlersOK, HoldingStep
  <2>2. HandlersOK'
    BY <1>4, <2>1, AwaitType
       DEF EnsureInitialAttempt, Step, CallbackStep, HoldingStep
  <2>3. /\ held[p].merchant_session \in Session
        /\ attemptFromTransaction(held[p]) \in AttemptRow
    BY <2>1, AttemptFromTransactionType DEF TransactionRow
  <2>4. attempts' \in [Session -> AttemptRow \cup {Null}]
    BY <1>4, <2>3 DEF EnsureInitialAttempt, RowsOK
  <2> QED
    BY <1>4, <2>2, <2>4 DEF EnsureInitialAttempt, RowsOK
<1>5. ASSUME NEW s \in Session, CreateRetryPaymentAttempt(p, s)
      PROVE  TypeOK'
  <2>1. \A t \in Session : attempts[t] # Null =>
          supersede(attempts[t]) \in AttemptRow
    BY DEF RowsOK, AttemptRow, supersede
  <2>2. attempts' \in [Session -> AttemptRow \cup {Null}]
    BY <1>5, <2>1, CreateForPaymentType DEF CreateRetryPaymentAttempt
  <2>3. transaction' \in TransactionRow
    BY <1>5 DEF CreateRetryPaymentAttempt, RowsOK, TransactionRow,
                TransactionStatus, RowId, RowMessage
  <2> QED
    BY <1>5, <2>2, <2>3, FinishType DEF CreateRetryPaymentAttempt, RowsOK
<1>6. CASE UnableToGenerateUniquePaymentIdentifiers(p)
  BY <1>6, FinishType DEF UnableToGenerateUniquePaymentIdentifiers, RowsOK
<1>7. ASSUME NEW answer \in StatusAnswers, ApplyResponse(p, answer)
      PROVE  TypeOK'
  <2>1. held[p].refunded \in Nat
    BY <1>7 DEF ApplyResponse, HandlersOK, HoldingStep, TransactionRow
  <2>2. transaction' \in TransactionRow
    BY <1>7, <2>1, AnswerAssumption
       DEF ApplyResponse, RowsOK, TransactionRow, TransactionStatus
  <2>3. HandlersOK'
    BY <1>7, <2>2, AwaitType DEF ApplyResponse, Step, CallbackStep
  <2> QED
    BY <1>7, <2>2, <2>3 DEF ApplyResponse, RowsOK
<1>8. CASE NoResponse(p)
  BY <1>8, FinishType DEF NoResponse, RowsOK
<1>9. CASE Crash(p)
  BY <1>9, FinishType DEF Crash, RowsOK
<1> QED
  BY <1>1, <1>2, <1>3, <1>4, <1>5, <1>6, <1>7, <1>8, <1>9

---------------------------------------------------------------------------
(* A step belongs to one handler: the others stay where they are.           *)
OthersUnmoved(p) ==
    \A q \in Handler \ {p} :
      pc'[q] = pc[q] /\ held'[q] = held[q] /\ callback'[q] = callback[q]

(* The three ways a handler moves touch its own entries only.               *)
LEMMA MovesOne ==
    ASSUME HandlersOK, NEW p \in Handler, NEW next, NEW row,
           \/ Await(p, next, row) \/ Finish(p) \/ AfterPipeline(p, row)
    PROVE  OthersUnmoved(p)
BY DEF HandlersOK, Await, Finish, AfterPipeline, OthersUnmoved

(* Every action moves the handler it is an action of and no other.          *)
LEMMA StepMovesOne ==
    ASSUME TypeOK, NEW p \in Handler, Begin(p) \/ Continue(p) \/ Crash(p)
    PROVE  OthersUnmoved(p)
<1> USE DEF TypeOK
<1>1. CASE Begin(p)
  <2>1. ASSUME NEW cb, ReceiveCallback(p, cb) \/ HandleCallback(p, cb)
        PROVE  OthersUnmoved(p)
    BY <2>1 DEF ReceiveCallback, HandleCallback, HandlersOK, OthersUnmoved
  <2>2. CASE StartCancel(p) \/ StartRetry(p) \/ StartReconcile(p)
    BY <2>2, MovesOne DEF StartCancel, StartRetry, StartReconcile
  <2>3. ASSUME NEW amount, RefundTransaction(p, amount)
        PROVE  OthersUnmoved(p)
    BY <2>3 DEF RefundTransaction, handlerVars, OthersUnmoved
  <2> QED
    BY <1>1, <2>1, <2>2, <2>3 DEF Begin
<1>2. CASE \/ PrecheckLegacy(p) \/ ResolveTransaction(p) \/ ResolveLegacy(p)
           \/ CheckRetryLimit(p) \/ NoResponse(p) \/ Crash(p)
           \/ UnableToGenerateUniquePaymentIdentifiers(p)
           \/ CancelTransaction(p) \/ UpdateInvoiceStatus(p)
  BY <1>2, MovesOne
     DEF PrecheckLegacy, ResolveTransaction, ResolveLegacy, Decide,
         CheckRetryLimit, NoResponse, Crash, CancelTransaction,
         UpdateInvoiceStatus, UnableToGenerateUniquePaymentIdentifiers
<1>3. CASE \/ FailAttempt(p) \/ FailLegacy(p) \/ ApplyReplay(p)
           \/ ApplyTransactionStatus(p) \/ DispatchPaymentEvents(p)
  BY <1>3, MovesOne
     DEF FailAttempt, FailLegacy, ApplyReplay, ApplyTransactionStatus,
         DispatchPaymentEvents
<1>4. CASE \/ EnsureInitialAttempt(p)
           \/ \E s \in Session : CreateRetryPaymentAttempt(p, s)
           \/ \E answer \in StatusAnswers : ApplyResponse(p, answer)
  BY <1>4, MovesOne
     DEF EnsureInitialAttempt, CreateRetryPaymentAttempt, ApplyResponse
<1> QED
  BY <1>1, <1>2, <1>3, <1>4 DEF Continue

(* Writing one attempt row submits its session and no other.                *)
LEMMA RowWritten ==
    ASSUME RowsOK, NEW s \in Session, NEW row \in AttemptRow,
           attempts' = [attempts EXCEPT ![s] = row]
    PROVE  Submitted' = Submitted \cup {s}
BY NullAssumption DEF RowsOK, Submitted

(* An attempt is only added for the session the callback or the retry        *)
(* names, and the row of the first session is always the first one.         *)
LEMMA SubmittedStep ==
    ASSUME TypeOK, SubmissionInv, NEW p \in Handler,
           Begin(p) \/ Continue(p) \/ Crash(p)
    PROVE  \/ Submitted' = Submitted
           \/ Submitted' = Submitted \cup {FirstSession}
           \/ /\ Submitted # {}
              /\ \E s \in Session : /\ CreateRetryPaymentAttempt(p, s)
                                    /\ Submitted' = Submitted \cup {s}
<1> USE DEF TypeOK
<1>1. CASE UNCHANGED attempts
  BY <1>1 DEF Submitted
<1>2. ASSUME ~UNCHANGED attempts
      PROVE  \/ FailAttempt(p) \/ ApplyReplay(p) \/ ApplyTransactionStatus(p)
             \/ EnsureInitialAttempt(p)
             \/ \E s \in Session : CreateRetryPaymentAttempt(p, s)
  BY <1>2 DEF Begin, Continue, ReceiveCallback, HandleCallback, StartCancel,
     StartRetry, RefundTransaction, StartReconcile, PrecheckLegacy,
     ResolveTransaction, ResolveLegacy, FailLegacy, DispatchPaymentEvents,
     UpdateInvoiceStatus, CancelTransaction, CheckRetryLimit, ApplyResponse,
     UnableToGenerateUniquePaymentIdentifiers, NoResponse, Crash
<1>3. CASE FailAttempt(p) \/ ApplyReplay(p) \/ ApplyTransactionStatus(p)
  <2> DEFINE s == callback[p].session
  <2>1. /\ callback[p] \in Callback
        /\ s \in Session
        /\ s \in Submitted \cup {FirstSession}
        /\ FailAttempt(p) => attempts[s] \in AttemptRow
    BY <1>3 DEF FailAttempt, ApplyReplay, ApplyTransactionStatus, HandlersOK,
                RowsOK, SubmissionInv, SessionKnown, CallbackStep, Callback,
                Submitted
  <2>2. PICK row \in AttemptRow : attempts' = [attempts EXCEPT ![s] = row]
    <3>1. LockedAttempt(s) \in AttemptRow
      BY <2>1, AttemptFromTransactionType DEF LockedAttempt, RowsOK
    <3> QED
      BY <1>3, <2>1, <3>1, CallbackChangesType, MapTransactionStatusRange
         DEF FailAttempt, ApplyReplay, ApplyTransactionStatus
  <2>3. Submitted' = Submitted \cup {s}
    BY <2>1, <2>2, RowWritten
  <2> QED
    BY <2>1, <2>3
<1>4. CASE EnsureInitialAttempt(p)
  <2>1. /\ held[p] \in TransactionRow
        /\ held[p].merchant_session = FirstSession
    BY <1>4 DEF EnsureInitialAttempt, HandlersOK, HoldingStep, SubmissionInv,
                SessionKnown
  <2>2. CASE attempts[FirstSession] = Null
    <3>1. attempts' = [attempts EXCEPT ![FirstSession] =
                         attemptFromTransaction(held[p])]
      BY <1>4, <2>1, <2>2 DEF EnsureInitialAttempt
    <3> QED
      BY <2>1, <3>1, AttemptFromTransactionType, RowWritten, SessionAssumption
  <2>3. CASE attempts[FirstSession] # Null
    BY <1>4, <2>1, <2>3 DEF EnsureInitialAttempt, RowsOK, Submitted
  <2> QED
    BY <2>2, <2>3
<1>5. ASSUME NEW s \in Session, CreateRetryPaymentAttempt(p, s)
      PROVE  Submitted # {} /\ Submitted' = Submitted \cup {s}
  <2>1. Submitted # {}
    BY <1>5 DEF CreateRetryPaymentAttempt, SubmissionInv, SessionKnown
  <2>2. \A t \in Session : attempts[t] # Null =>
          supersede(attempts[t]) # Null
    BY NullAssumption DEF RowsOK, AttemptRow, supersede
  <2>3. createForPayment # Null
    BY CreateForPaymentType, NullAssumption
  <2> QED
    BY <1>5, <2>1, <2>2, <2>3 DEF CreateRetryPaymentAttempt, Submitted
<1> QED
  BY <1>1, <1>2, <1>3, <1>4, <1>5

---------------------------------------------------------------------------
(* The sessions of the payment.                                             *)

(* A payment starts with its first submission, or with none when it is      *)
(* legacy.                                                                  *)
LEMMA InitSubmissionInv == Init => SubmissionInv
BY CreateForPaymentType, NullAssumption, SessionAssumption
   DEF Init, NewPayment, LegacyPayment, SubmissionInv, SessionKnown, Submitted,
       CallbackStep

(* Submissions only accumulate, so what the other handlers know stays true. *)
LEMMA SubmissionFrame ==
    ASSUME HandlersOK, SubmissionInv, NEW p \in Handler, OthersUnmoved(p),
           Submitted \subseteq Submitted', FirstSession \in Submitted' \/
           Submitted' = Submitted,
           transaction'.merchant_session \in Submitted' \cup {FirstSession},
           SessionKnown(p)'
    PROVE  SubmissionInv'
<1>1. ASSUME NEW q \in Handler, q # p
      PROVE  SessionKnown(q)'
  BY <1>1 DEF SubmissionInv, SessionKnown, OthersUnmoved
<1> QED
  BY <1>1 DEF SubmissionInv

(* No step makes a handler name a session that was never submitted.         *)
LEMMA SubmissionStep ==
    ASSUME TypeOK, SubmissionInv, NEW p \in Handler,
           Begin(p) \/ Continue(p) \/ Crash(p)
    PROVE  SubmissionInv'
<1> USE DEF TypeOK
<1> DEFINE Known == Submitted \cup {FirstSession}
           NewParent == transaction'.merchant_session \in Known
<1>0. /\ OthersUnmoved(p)
      /\ transaction.merchant_session \in Known
      /\ SessionKnown(p)
      /\ Submitted # {} => FirstSession \in Submitted
      /\ Submitted \subseteq Submitted'
      /\ FirstSession \in Submitted' \/ Submitted' = Submitted
  BY StepMovesOne, SubmittedStep DEF SubmissionInv
<1>1. ASSUME pc'[p] = "idle" \/ pc'[p] = "invoice"
      PROVE  SessionKnown(p)'
  BY <1>1 DEF SessionKnown, CallbackStep
<1>f. Finish(p) => pc'[p] = "idle"
  BY DEF Finish, HandlersOK
<1>a. \A row : AfterPipeline(p, row) => pc'[p] = "idle" \/ pc'[p] = "invoice"
  BY <1>f DEF AfterPipeline, HandlersOK
<1>w. \A next, row : Await(p, next, row) =>
        pc'[p] = next /\ held'[p] = row /\ callback'[p] = callback[p]
  BY DEF Await, HandlersOK
<1>2. NewParent /\ SessionKnown(p)' => SubmissionInv'
  BY <1>0, SubmissionFrame
<1>3. CASE Begin(p)
  <2>1. NewParent
    <3>1. transaction'.merchant_session = transaction.merchant_session
      BY <1>3 DEF Begin, ReceiveCallback, HandleCallback, StartCancel,
                  StartRetry, StartReconcile, RefundTransaction, RowsOK,
                  TransactionRow
    <3> QED
      BY <1>0, <3>1
  <2>2. ASSUME NEW cb \in GatewayCallbacks,
               ReceiveCallback(p, cb) \/ HandleCallback(p, cb)
        PROVE  SessionKnown(p)'
    <3>1. /\ callback'[p] = cb
          /\ pc'[p] \in {"precheckLegacy", "resolve"}
          /\ cb.session \in Known
      BY <1>0, <2>2 DEF ReceiveCallback, HandleCallback, HandlersOK
    <3> QED
      BY <1>0, <3>1 DEF SessionKnown
  <2>3. ASSUME StartCancel(p) \/ StartRetry(p) \/ StartReconcile(p)
        PROVE  SessionKnown(p)'
    <3>1. /\ pc'[p] \in {"cancel", "retry", "query"}
          /\ pc'[p] = "retry" => held'[p] = transaction
      BY <1>w, <2>3 DEF StartCancel, StartRetry, StartReconcile
    <3> QED
      BY <1>0, <3>1 DEF SessionKnown, CallbackStep
  <2>4. ASSUME NEW amount, RefundTransaction(p, amount)
        PROVE  SessionKnown(p)'
    BY <1>0, <2>4 DEF RefundTransaction, handlerVars, SessionKnown
  <2> QED
    BY <1>2, <1>3, <2>1, <2>2, <2>3, <2>4 DEF Begin
<1>4. CASE PrecheckLegacy(p) \/ ResolveTransaction(p) \/ ResolveLegacy(p)
  <2>1. NewParent
    BY <1>0, <1>4 DEF PrecheckLegacy, ResolveTransaction, ResolveLegacy
  <2>2. callback[p].session \in Known
    BY <1>0, <1>4
       DEF PrecheckLegacy, ResolveTransaction, ResolveLegacy, SessionKnown,
           CallbackStep
  <2>3. ASSUME pc'[p] = "idle" PROVE SessionKnown(p)'
    BY <1>1, <2>3
  <2>4. ASSUME pc'[p] # "idle" PROVE SessionKnown(p)'
    <3>1. /\ pc'[p] \in {"resolve", "resolveLegacy", "apply", "fail", "failLegacy"}
          /\ callback'[p] = callback[p]
          /\ pc'[p] = "failLegacy" => held'[p] = transaction
          /\ pc'[p] = "fail" => attempts[callback[p].session] # Null
      BY <1>f, <1>w, <1>4, <2>4
         DEF PrecheckLegacy, ResolveTransaction, ResolveLegacy, Decide
    <3>2. pc'[p] = "fail" => callback[p].session \in Submitted
      <4>1. callback[p].session \in Session
        BY <1>4 DEF HandlersOK, PrecheckLegacy, ResolveTransaction,
                    ResolveLegacy, CallbackStep, Callback
      <4> QED
        BY <3>1, <4>1 DEF Submitted
    <3> QED
      BY <1>0, <2>2, <3>1, <3>2 DEF SessionKnown
  <2>5. SessionKnown(p)'
    BY <2>3, <2>4
  <2> QED
    BY <1>2, <2>1, <2>5
<1>5. CASE FailAttempt(p) \/ ApplyReplay(p) \/ ApplyTransactionStatus(p)
  <2> DEFINE s == callback[p].session
  <2>1. s \in Known /\ s \in Session /\ pc[p] \in {"fail", "apply"}
    BY <1>0, <1>5 DEF FailAttempt, ApplyReplay, ApplyTransactionStatus,
       SessionKnown, HandlersOK, CallbackStep, Callback
  <2>2. NewParent
    BY <1>0, <1>5, <2>1
       DEF FailAttempt, ApplyReplay, ApplyTransactionStatus, RowsOK,
           TransactionRow, transactionChangesFromCallback
  <2>3. SessionKnown(p)'
    <3>1. s \in Submitted'
      <4>1. attempts[s] # Null => s \in Submitted
        BY <2>1 DEF Submitted
      <4>2. attempts[s] = Null => s \notin Submitted
        BY DEF Submitted
      <4>3. \/ FailAttempt(p) /\ s \in Submitted
            \/ \E row \in AttemptRow : attempts' = [attempts EXCEPT ![s] = row]
        <5>1. LockedAttempt(s) \in AttemptRow
          BY <2>1, AttemptFromTransactionType DEF LockedAttempt, RowsOK
        <5>2. callback[p] \in Callback
          BY <2>1 DEF HandlersOK, CallbackStep
        <5> QED
          BY <1>0, <1>5, <5>1, <5>2, CallbackChangesType,
             MapTransactionStatusRange
             DEF FailAttempt, ApplyReplay, ApplyTransactionStatus, SessionKnown
      <4> QED
        BY <1>0, <2>1, <4>3, RowWritten
    <3>2. CASE ApplyTransactionStatus(p) /\ pc'[p] = "dispatch"
      BY <1>w, <3>1, <3>2
         DEF ApplyTransactionStatus, SessionKnown, AfterPipeline, Finish,
             HandlersOK, Await
    <3>3. CASE pc'[p] # "dispatch"
      BY <1>1, <1>5, <1>a, <1>f, <1>w, <3>3
         DEF FailAttempt, ApplyReplay, ApplyTransactionStatus
    <3> QED
      BY <1>1, <1>5, <1>a, <1>f, <1>w, <3>2, <3>3
         DEF FailAttempt, ApplyReplay, ApplyTransactionStatus
  <2> QED
    BY <1>2, <2>2, <2>3
<1>6. CASE FailLegacy(p) \/ DispatchPaymentEvents(p) \/ UpdateInvoiceStatus(p)
           \/ CancelTransaction(p) \/ NoResponse(p) \/ Crash(p)
           \/ UnableToGenerateUniquePaymentIdentifiers(p)
           \/ \E answer \in StatusAnswers : ApplyResponse(p, answer)
  <2>1. NewParent
    BY <1>0, <1>6
       DEF FailLegacy, SessionKnown, DispatchPaymentEvents, UpdateInvoiceStatus,
           CancelTransaction, NoResponse, Crash, ApplyResponse, RowsOK,
           UnableToGenerateUniquePaymentIdentifiers, TransactionRow,
           transactionChangesFromCallback
  <2>2. pc'[p] = "idle" \/ pc'[p] = "invoice"
    BY <1>a, <1>f, <1>w, <1>6
       DEF FailLegacy, DispatchPaymentEvents, UpdateInvoiceStatus,
           CancelTransaction, NoResponse, Crash, ApplyResponse,
           UnableToGenerateUniquePaymentIdentifiers
  <2> QED
    BY <1>1, <1>2, <2>1, <2>2
<1>7. CASE CheckRetryLimit(p)
  <2>1. SessionKnown(p)'
    BY <1>0, <1>1, <1>f, <1>w, <1>7
       DEF CheckRetryLimit, SessionKnown, CallbackStep, Submitted
  <2> QED
    BY <1>0, <1>2, <1>7, <2>1 DEF CheckRetryLimit
<1>8. CASE EnsureInitialAttempt(p)
  <2>1. SessionKnown(p)'
    BY <1>0, <1>w, <1>8 DEF EnsureInitialAttempt, SessionKnown, CallbackStep
  <2> QED
    BY <1>0, <1>2, <1>8, <2>1 DEF EnsureInitialAttempt
<1>9. ASSUME NEW s \in Session, CreateRetryPaymentAttempt(p, s)
      PROVE  SubmissionInv'
  <2>1. /\ transaction'.merchant_session = s
        /\ pc'[p] = "idle"
        /\ attempts'[s] = createForPayment
    BY <1>9, <1>f DEF CreateRetryPaymentAttempt, RowsOK, TransactionRow
  <2>2. s \in Submitted'
    BY <2>1, CreateForPaymentType, NullAssumption DEF Submitted
  <2> QED
    BY <1>0, <1>1, <2>1, <2>2, SubmissionFrame
<1> QED
  BY <1>3, <1>4, <1>5, <1>6, <1>7, <1>8, <1>9 DEF Continue

---------------------------------------------------------------------------
(* Every reachable state is well typed, whatever the constants are: the     *)
(* rows keep their column types and a handler past a read holds a record.   *)
THEOREM TypeCorrect == Spec => [](TypeOK /\ SubmissionInv)
<1>1. Init => TypeOK /\ SubmissionInv
  BY InitTypeOK, InitSubmissionInv
<1>2. TypeOK /\ SubmissionInv /\ [Next]_vars => (TypeOK /\ SubmissionInv)'
  <2> SUFFICES ASSUME TypeOK, SubmissionInv, [Next]_vars
               PROVE  TypeOK' /\ SubmissionInv'
    OBVIOUS
  <2>1. CASE UNCHANGED vars
    BY <2>1 DEF vars, TypeOK, RowsOK, HandlersOK, SubmissionInv, SessionKnown,
                Submitted
  <2>2. ASSUME NEW p \in Handler, Begin(p) \/ Continue(p) \/ Crash(p)
        PROVE  TypeOK' /\ SubmissionInv'
    BY <2>2, BeginTypeOK, CallbackTypeOK, OperationTypeOK, SubmissionStep
       DEF Continue
  <2> QED
    BY <2>1, <2>2 DEF Next
<1> QED
  BY <1>1, <1>2, PTL DEF Spec

---------------------------------------------------------------------------
(* The assumptions some theorems need on what the environment does: every   *)
(* notification agrees with its row, and reconciliation is not used.        *)
AllMatch == \A cb \in GatewayCallbacks : cb.matches
NoReconcile == "reconcile" \notin Operations

NoQueryStep == \A p \in Handler : pc[p] # "query"

(* When every notification matches, no handler fails a payment for a         *)
(* mismatch.                                                                *)
PipelineInv ==
    \A p \in Handler :
      /\ pc[p] \in CallbackStep => callback[p] \in GatewayCallbacks
      /\ pc[p] \notin {"fail", "failLegacy"}

(* A retry starts from a failed record, so only a callback makes an attempt *)
(* row a paid one, and it writes the gateway's transaction id with it.      *)
PaidRowInv ==
    /\ \A p \in Handler : pc[p] \in {"retry", "backfill"} => held[p].status = "failed"
    /\ \A s \in Submitted :
         attempts[s].status = "completed" =>
           attempts[s].gateway_transaction_id # Null

(* A completed event, emitted or about to be, belongs to a completed row,   *)
(* and a row has one of them at most.                                       *)
Announcing(p, s) ==
    /\ pc[p] = "dispatch"
    /\ held[p].status = "completed"
    /\ callback[p].session = s
EventInv ==
    \A s \in Session :
      /\ completedEvents[s] <= 1
      /\ completedEvents[s] = 1 =>
           s \in Submitted /\ attempts[s].status = "completed"
      /\ \A p \in Handler : Announcing(p, s) =>
           /\ s \in Submitted /\ attempts[s].status = "completed"
           /\ completedEvents[s] = 0
           /\ \A q \in Handler : Announcing(q, s) => q = p

---------------------------------------------------------------------------
(* Only these steps write an attempt row.                                   *)
LEMMA AttemptWriters ==
    ASSUME NEW p \in Handler, Begin(p) \/ Continue(p) \/ Crash(p),
           ~UNCHANGED attempts
    PROVE  \/ FailAttempt(p) \/ ApplyReplay(p) \/ ApplyTransactionStatus(p)
           \/ EnsureInitialAttempt(p)
           \/ \E s \in Session : CreateRetryPaymentAttempt(p, s)
BY DEF Begin, Continue, ReceiveCallback, HandleCallback, StartCancel,
   StartRetry, RefundTransaction, StartReconcile, PrecheckLegacy,
   ResolveTransaction, ResolveLegacy, FailLegacy, DispatchPaymentEvents,
   UpdateInvoiceStatus, CancelTransaction, CheckRetryLimit, ApplyResponse,
   UnableToGenerateUniquePaymentIdentifiers, NoResponse, Crash

(* Rewriting a submitted row without touching its superseded flag, or       *)
(* giving the payment its first row, leaves one current attempt.            *)
LEMMA CurrentKept ==
    ASSUME RowsOK, OneCurrentAttempt, NEW s \in Session, NEW row \in AttemptRow,
           attempts' = [attempts EXCEPT ![s] = row],
           \/ s \in Submitted /\ row.superseded = attempts[s].superseded
           \/ Submitted = {} /\ ~row.superseded
    PROVE  OneCurrentAttempt'
<1>1. Submitted' = Submitted \cup {s}
  BY RowWritten
<1>2. attempts'[s] = row /\ \A t \in Session \ {s} : attempts'[t] = attempts[t]
  BY DEF RowsOK
<1>3. CASE s \in Submitted /\ row.superseded = attempts[s].superseded
  BY <1>1, <1>2, <1>3 DEF OneCurrentAttempt, Current, Submitted
<1>4. CASE Submitted = {} /\ ~row.superseded
  <2>1. Current' = {s}
    BY <1>1, <1>2, <1>4 DEF Current
  <2> QED
    BY <2>1 DEF OneCurrentAttempt
<1> QED
  BY <1>3, <1>4

(* Every step leaves one current attempt: a retry supersedes all the        *)
(* others in the transaction that adds its own.                             *)
LEMMA CurrentStep ==
    ASSUME TypeOK, SubmissionInv, OneCurrentAttempt, NEW p \in Handler,
           Begin(p) \/ Continue(p) \/ Crash(p)
    PROVE  OneCurrentAttempt'
<1> USE DEF TypeOK
<1>1. CASE UNCHANGED attempts
  BY <1>1 DEF OneCurrentAttempt, Current, Submitted
<1>2. CASE FailAttempt(p) \/ ApplyReplay(p) \/ ApplyTransactionStatus(p)
  <2> DEFINE s == callback[p].session
  <2>1. /\ callback[p] \in Callback
        /\ s \in Session
        /\ s \in Submitted \cup {FirstSession}
        /\ FailAttempt(p) => s \in Submitted
        /\ Submitted # {} => FirstSession \in Submitted
    BY <1>2 DEF FailAttempt, ApplyReplay, ApplyTransactionStatus, HandlersOK,
                SubmissionInv, SessionKnown, CallbackStep, Callback
  <2>2. LockedAttempt(s) \in AttemptRow
    BY <2>1, AttemptFromTransactionType DEF LockedAttempt, RowsOK
  <2>3. /\ s \in Submitted => LockedAttempt(s) = attempts[s]
        /\ s \notin Submitted => Submitted = {} /\ ~LockedAttempt(s).superseded
    BY <2>1 DEF LockedAttempt, Submitted, attemptFromTransaction
  <2>4. \E row \in AttemptRow : /\ attempts' = [attempts EXCEPT ![s] = row]
                               /\ row.superseded = LockedAttempt(s).superseded
    <3>1. s \in Submitted => attempts[s] \in AttemptRow
      BY DEF RowsOK, Submitted
    <3>2. \A row \in AttemptRow, status \in {"completed", "failed", "pending"} :
            LET new == attemptChangesFromCallback(row, callback[p], status)
            IN  new \in AttemptRow /\ new.superseded = row.superseded
      BY <2>1, CallbackChangesType DEF attemptChangesFromCallback, AttemptRow
    <3> QED
      BY <1>2, <2>1, <2>2, <2>3, <3>1, <3>2, MapTransactionStatusRange
         DEF FailAttempt, ApplyReplay, ApplyTransactionStatus
  <2> QED
    BY <2>1, <2>3, <2>4, CurrentKept
<1>3. CASE EnsureInitialAttempt(p)
  <2> DEFINE row == attemptFromTransaction(held[p])
  <2>1. /\ held[p] \in TransactionRow
        /\ held[p].merchant_session = FirstSession
        /\ Submitted # {} => FirstSession \in Submitted
    BY <1>3 DEF EnsureInitialAttempt, HandlersOK, HoldingStep, SubmissionInv,
                SessionKnown
  <2>2. CASE attempts[FirstSession] = Null
    <3>1. attempts' = [attempts EXCEPT ![FirstSession] = row]
      BY <1>3, <2>1, <2>2 DEF EnsureInitialAttempt
    <3>2. row \in AttemptRow /\ ~row.superseded /\ Submitted = {}
      BY <2>1, <2>2, AttemptFromTransactionType
         DEF attemptFromTransaction, Submitted
    <3> QED
      BY <3>1, <3>2, CurrentKept, SessionAssumption
  <2>3. CASE attempts[FirstSession] # Null
    <3>1. UNCHANGED attempts
      BY <1>3, <2>1, <2>3 DEF EnsureInitialAttempt, RowsOK
    <3> QED
      BY <1>1, <3>1
  <2> QED
    BY <2>2, <2>3
<1>4. ASSUME NEW s \in Session, CreateRetryPaymentAttempt(p, s)
      PROVE  OneCurrentAttempt'
  <2>1. \A t \in Session : attempts[t] # Null =>
          supersede(attempts[t]).superseded
    BY DEF RowsOK, AttemptRow, supersede
  <2>2. createForPayment # Null /\ ~createForPayment.superseded
    BY CreateForPaymentType, NullAssumption DEF createForPayment
  <2>3. Current' = {s}
    BY <1>4, <2>1, <2>2 DEF CreateRetryPaymentAttempt, Current, Submitted
  <2> QED
    BY <2>3 DEF OneCurrentAttempt
<1> QED
  BY <1>1, <1>2, <1>3, <1>4, AttemptWriters

(* Whatever races with whatever, in a payment of any age, with any          *)
(* notifications and crashes: a payment that has attempts has exactly one   *)
(* that may still move it.                                                  *)
THEOREM OneCurrentAttemptHolds == Spec => []OneCurrentAttempt
<1>1. Init => OneCurrentAttempt
  <2> SUFFICES ASSUME Init PROVE OneCurrentAttempt
    OBVIOUS
  <2>1. CASE NewPayment
    <3>1. Current = {FirstSession}
      BY <2>1, CreateForPaymentType, NullAssumption, SessionAssumption
         DEF NewPayment, Current, Submitted, createForPayment
    <3> QED
      BY <3>1, SessionAssumption DEF OneCurrentAttempt
  <2>2. CASE LegacyPayment
    BY <2>2 DEF LegacyPayment, OneCurrentAttempt, Submitted
  <2> QED
    BY <2>1, <2>2 DEF Init
<1>2. TypeOK /\ SubmissionInv /\ OneCurrentAttempt /\ [Next]_vars
        => OneCurrentAttempt'
  BY CurrentStep DEF Next, vars, OneCurrentAttempt, Current, Submitted
<1> QED
  BY <1>1, <1>2, TypeCorrect, PTL DEF Spec

---------------------------------------------------------------------------
(* Without reconciliation no handler waits for the status API.              *)
LEMMA NoQueryHolds ==
    ASSUME NoReconcile
    PROVE  Spec => []NoQueryStep
<1>1. Init => NoQueryStep
  BY DEF Init, NoQueryStep
<1>2. HandlersOK /\ NoQueryStep /\ [Next]_vars => NoQueryStep'
  <2> SUFFICES ASSUME HandlersOK, NoQueryStep, [Next]_vars
               PROVE  NoQueryStep'
    OBVIOUS
  <2>1. CASE UNCHANGED vars
    BY <2>1 DEF vars, NoQueryStep
  <2>2. ASSUME NEW p \in Handler, Begin(p) \/ Continue(p) \/ Crash(p)
        PROVE  NoQueryStep'
    <3>1. \A q \in Handler : pc'[q] = pc[q] \/ pc'[q] # "query"
      <4>1. \/ UNCHANGED pc
            \/ \E next \in Step \ {"query"} : pc' = [pc EXCEPT ![p] = next]
        <5>1. CASE Begin(p)
          <6>1. ~StartReconcile(p)
            BY NoReconcile DEF NoReconcile, StartReconcile, Idle
          <6>2. ASSUME NEW cb, ReceiveCallback(p, cb) \/ HandleCallback(p, cb)
                PROVE  \E next \in {"precheckLegacy", "resolve"} :
                          pc' = [pc EXCEPT ![p] = next]
            BY <6>2 DEF ReceiveCallback, HandleCallback
          <6>3. CASE StartCancel(p) \/ StartRetry(p)
            BY <6>3 DEF StartCancel, StartRetry, Await, Step
          <6> QED
            BY <5>1, <6>1, <6>2, <6>3
               DEF Begin, RefundTransaction, handlerVars, Step
        <5>2. ASSUME NEW row, Finish(p) \/ AfterPipeline(p, row)
              PROVE  \E next \in Step \ {"query"} : pc' = [pc EXCEPT ![p] = next]
          BY <5>2 DEF Finish, AfterPipeline, Step
        <5>3. ASSUME NEW next \in Step \ {"query"}, NEW row, Await(p, next, row)
              PROVE  \E n \in Step \ {"query"} : pc' = [pc EXCEPT ![p] = n]
          BY <5>3 DEF Await
        <5>4. CASE \/ PrecheckLegacy(p) \/ ResolveTransaction(p)
                   \/ ResolveLegacy(p) \/ Crash(p)
          BY <5>2, <5>3, <5>4
             DEF PrecheckLegacy, ResolveTransaction, ResolveLegacy, Decide,
                 Crash, Step
        <5>5. CASE \/ FailAttempt(p) \/ FailLegacy(p) \/ ApplyReplay(p)
                   \/ ApplyTransactionStatus(p) \/ DispatchPaymentEvents(p)
                   \/ UpdateInvoiceStatus(p) \/ CancelTransaction(p)
          BY <5>2, <5>3, <5>5
             DEF FailAttempt, FailLegacy, ApplyReplay, ApplyTransactionStatus,
                 DispatchPaymentEvents, UpdateInvoiceStatus, CancelTransaction,
                 Step
        <5>6. CASE \/ CheckRetryLimit(p) \/ EnsureInitialAttempt(p)
                   \/ \E s \in Session : CreateRetryPaymentAttempt(p, s)
                   \/ UnableToGenerateUniquePaymentIdentifiers(p)
          BY <5>2, <5>3, <5>6
             DEF CheckRetryLimit, EnsureInitialAttempt, Step,
                 CreateRetryPaymentAttempt,
                 UnableToGenerateUniquePaymentIdentifiers
        <5>7. CASE \/ \E answer \in StatusAnswers : ApplyResponse(p, answer)
                   \/ NoResponse(p)
          BY <5>7 DEF ApplyResponse, NoResponse, NoQueryStep
        <5> QED
          BY <2>2, <5>1, <5>4, <5>5, <5>6, <5>7 DEF Continue
      <4> QED
        BY <4>1 DEF HandlersOK
    <3> QED
      BY <3>1 DEF NoQueryStep
  <2> QED
    BY <2>1, <2>2 DEF Next
<1> QED
  BY <1>1, <1>2, TypeCorrect, PTL DEF Spec, TypeOK

(* However refunds, callbacks, cancellations and retries interleave, the    *)
(* history in the payload is every refund granted, their sum stays within   *)
(* the amount and a payment marked refunded is fully refunded.  A status    *)
(* answer written back with a stale payload is what breaks it, so the       *)
(* theorem leaves reconciliation out.                                       *)
THEOREM RefundsAccountedHolds ==
    ASSUME NoReconcile
    PROVE  Spec => []RefundsAccounted
<1>1. Init => RefundsAccounted
  BY NumberAssumption DEF Init, NewPayment, LegacyPayment, RefundsAccounted
<1>2. TypeOK /\ NoQueryStep /\ RefundsAccounted /\ [Next]_vars
        => RefundsAccounted'
  <2> SUFFICES ASSUME TypeOK, NoQueryStep, RefundsAccounted, [Next]_vars
               PROVE  RefundsAccounted'
    OBVIOUS
  <2> USE DEF TypeOK
  <2>1. CASE UNCHANGED <<transaction, refundedTotal>>
    BY <2>1 DEF RefundsAccounted
  <2>2. ASSUME transaction'.refunded = transaction.refunded,
               transaction'.status # "refunded", UNCHANGED refundedTotal
        PROVE  RefundsAccounted'
    BY <2>2 DEF RefundsAccounted
  <2>3. ASSUME NEW p \in Handler, NEW amount \in 1..Amount,
               RefundTransaction(p, amount)
        PROVE  RefundsAccounted'
    <3>1. /\ transaction'.refunded = transaction.refunded + amount
          /\ transaction'.status = "refunded" =>
               transaction.refunded + amount = Amount
          /\ amount + transaction.refunded <= Amount
          /\ refundedTotal' = refundedTotal + amount
      BY <2>3 DEF RefundTransaction, withinBalance, RowsOK, TransactionRow
    <3>2. /\ amount \in Nat /\ Amount \in Nat
          /\ transaction.refunded \in Nat
          /\ transaction.refunded = refundedTotal
      BY NumberAssumption DEF RowsOK, TransactionRow, RefundsAccounted
    <3> QED
      BY <3>1, <3>2 DEF RefundsAccounted
  <2>4. ASSUME NEW p \in Handler,
               FailAttempt(p) \/ FailLegacy(p) \/ ApplyTransactionStatus(p)
        PROVE  RefundsAccounted'
    <3>1. /\ UNCHANGED refundedTotal
          /\ \/ UNCHANGED transaction
             \/ \E session, status :
                  /\ transaction' = transactionChangesFromCallback(
                                       session, callback[p], status)
                  /\ status \in {"completed", "failed", "pending"}
      BY <2>4, MapTransactionStatusRange
         DEF FailAttempt, FailLegacy, ApplyTransactionStatus
    <3>2. ASSUME NEW session, NEW status \in {"completed", "failed", "pending"}
          PROVE  LET new == transactionChangesFromCallback(session, callback[p], status)
                 IN  new.refunded = transaction.refunded /\ new.status = status
      BY DEF transactionChangesFromCallback, RowsOK, TransactionRow
    <3> QED
      BY <2>1, <2>2, <3>1, <3>2
  <2>5. ASSUME NEW p \in Handler,
               \/ CancelTransaction(p)
               \/ \E s \in Session : CreateRetryPaymentAttempt(p, s)
        PROVE  RefundsAccounted'
    BY <2>2, <2>5
       DEF CancelTransaction, CreateRetryPaymentAttempt, RowsOK, TransactionRow
  <2>6. ASSUME NEW p \in Handler, Begin(p) \/ Continue(p) \/ Crash(p)
        PROVE  \/ UNCHANGED <<transaction, refundedTotal>>
               \/ \E amount \in 1..Amount : RefundTransaction(p, amount)
               \/ FailAttempt(p) \/ FailLegacy(p) \/ ApplyTransactionStatus(p)
               \/ CancelTransaction(p)
               \/ \E s \in Session : CreateRetryPaymentAttempt(p, s)
    BY <2>6 DEF Begin, Continue, ReceiveCallback, HandleCallback, StartCancel,
       StartRetry, StartReconcile, PrecheckLegacy, ResolveTransaction,
       ResolveLegacy, ApplyReplay, DispatchPaymentEvents, UpdateInvoiceStatus,
       CheckRetryLimit, EnsureInitialAttempt, ApplyResponse, NoQueryStep,
       UnableToGenerateUniquePaymentIdentifiers, NoResponse, Crash
  <2> QED
    BY <2>1, <2>3, <2>4, <2>5, <2>6 DEF Next, vars
<1> QED
  BY <1>1, <1>2, NoQueryHolds, TypeCorrect, PTL DEF Spec

---------------------------------------------------------------------------
(* When every notification matches its row, a callback in progress is one   *)
(* of the gateway's and is never failed for a mismatch.                     *)
LEMMA PipelineHolds ==
    ASSUME AllMatch
    PROVE  Spec => []PipelineInv
<1>1. Init => PipelineInv
  BY DEF Init, PipelineInv, CallbackStep
<1>2. TypeOK /\ PipelineInv /\ [Next]_vars => PipelineInv'
  <2> SUFFICES ASSUME TypeOK, PipelineInv, [Next]_vars
               PROVE  PipelineInv'
    OBVIOUS
  <2> USE DEF TypeOK
  <2>1. CASE UNCHANGED vars
    BY <2>1 DEF vars, PipelineInv
  <2>2. ASSUME NEW p \in Handler, Begin(p) \/ Continue(p) \/ Crash(p)
        PROVE  PipelineInv'
    <3> DEFINE Fine == /\ pc'[p] \in CallbackStep => callback'[p] \in GatewayCallbacks
                       /\ pc'[p] \notin {"fail", "failLegacy"}
    <3>0. OthersUnmoved(p)
      BY <2>2, StepMovesOne
    <3>1. Fine => PipelineInv'
      BY <3>0 DEF PipelineInv, OthersUnmoved
    <3>f. Finish(p) => Fine
      BY DEF Finish, HandlersOK, CallbackStep
    <3>a. \A row : AfterPipeline(p, row) => Fine
      BY <3>f DEF AfterPipeline, HandlersOK, CallbackStep
    <3>w. \A next, row : Await(p, next, row) =>
            pc'[p] = next /\ callback'[p] = callback[p]
      BY DEF Await, HandlersOK
    <3>2. CASE Begin(p)
      <4>1. ASSUME NEW cb \in GatewayCallbacks,
                   ReceiveCallback(p, cb) \/ HandleCallback(p, cb)
            PROVE  Fine
        BY <4>1 DEF ReceiveCallback, HandleCallback, HandlersOK
      <4>2. ASSUME StartCancel(p) \/ StartRetry(p) \/ StartReconcile(p)
            PROVE  Fine
        BY <3>w, <4>2 DEF StartCancel, StartRetry, StartReconcile, CallbackStep
      <4>3. ASSUME NEW amount, RefundTransaction(p, amount)
            PROVE  Fine
        BY <4>3 DEF RefundTransaction, handlerVars, PipelineInv
      <4> QED
        BY <3>1, <3>2, <4>1, <4>2, <4>3 DEF Begin
    <3>3. ASSUME PrecheckLegacy(p) \/ ResolveTransaction(p) \/ ResolveLegacy(p)
          PROVE  Fine
      <4>1. callback[p] \in GatewayCallbacks /\ callback[p].matches
        BY <3>3, AllMatch
           DEF AllMatch, PipelineInv, PrecheckLegacy, ResolveTransaction,
               ResolveLegacy, CallbackStep
      <4> QED
        BY <3>3, <3>f, <3>w, <4>1
           DEF PrecheckLegacy, ResolveTransaction, ResolveLegacy, Decide
    <3>4. CASE FailAttempt(p) \/ FailLegacy(p)
      BY <3>4 DEF FailAttempt, FailLegacy, PipelineInv
    <3>5. ASSUME \/ ApplyReplay(p) \/ ApplyTransactionStatus(p)
                 \/ DispatchPaymentEvents(p) \/ UpdateInvoiceStatus(p)
          PROVE  Fine
      BY <3>5, <3>a, <3>f, <3>w
         DEF ApplyReplay, ApplyTransactionStatus, DispatchPaymentEvents,
             UpdateInvoiceStatus, PipelineInv, CallbackStep
    <3>6. ASSUME \/ CheckRetryLimit(p) \/ EnsureInitialAttempt(p)
                 \/ \E answer \in StatusAnswers : ApplyResponse(p, answer)
          PROVE  Fine
      <4>1. pc'[p] \in {"idle", "backfill", "createAttempt", "retry", "invoice"}
        BY <3>6, <3>w
           DEF CheckRetryLimit, EnsureInitialAttempt, ApplyResponse, Finish,
               HandlersOK
      <4> QED
        BY <4>1 DEF CallbackStep
    <3>7. ASSUME \/ CancelTransaction(p) \/ NoResponse(p) \/ Crash(p)
                 \/ \E s \in Session : CreateRetryPaymentAttempt(p, s)
                 \/ UnableToGenerateUniquePaymentIdentifiers(p)
          PROVE  Fine
      BY <3>7, <3>f
         DEF CancelTransaction, CreateRetryPaymentAttempt, NoResponse, Crash,
             UnableToGenerateUniquePaymentIdentifiers
    <3> QED
      BY <2>2, <3>1, <3>2, <3>3, <3>4, <3>5, <3>6, <3>7 DEF Continue
  <2> QED
    BY <2>1, <2>2 DEF Next
<1> QED
  BY <1>1, <1>2, TypeCorrect, PTL DEF Spec

---------------------------------------------------------------------------
(* What the steps that write attempt rows do to the row they write, and to  *)
(* the others.                                                              *)
LEMMA RowAfterApply ==
    ASSUME TypeOK, SubmissionInv, PipelineInv, PaidRowInv, NEW p \in Handler,
           ApplyTransactionStatus(p)
    PROVE  LET s == callback[p].session
               status == mapTransactionStatus(callback[p].message)
           IN  /\ s \in Session /\ s \in Submitted'
               /\ s \in Submitted => attempts[s].status # "completed"
               /\ attempts'[s].status = status
               /\ attempts'[s].gateway_transaction_id # Null
               /\ \A t \in Session \ {s} : attempts'[t] = attempts[t]
<1> USE DEF TypeOK
<1> DEFINE s == callback[p].session
           status == mapTransactionStatus(callback[p].message)
           row == attemptChangesFromCallback(LockedAttempt(s), callback[p], status)
<1>1. callback[p] \in Callback /\ s \in Session
  BY DEF ApplyTransactionStatus, HandlersOK, CallbackStep, Callback
<1>2. LockedAttempt(s) \in AttemptRow
  BY <1>1, AttemptFromTransactionType DEF LockedAttempt, RowsOK
<1>3. row \in AttemptRow
  BY <1>1, <1>2, CallbackChangesType, MapTransactionStatusRange
<1>4. attempts' = [attempts EXCEPT ![s] = row]
  BY DEF ApplyTransactionStatus
<1>5. row.status = status /\ row.gateway_transaction_id = callback[p].gateway
  BY <1>2 DEF attemptChangesFromCallback, AttemptRow
<1>6. callback[p].gateway # Null
  BY <1>1, NullAssumption DEF Callback
<1>7. s \in Submitted => attempts[s].status # "completed"
  BY DEF ApplyTransactionStatus, isReplayCallback, LockedAttempt, PaidRowInv,
         Submitted
<1>8. s \in Submitted'
  BY <1>1, <1>3, <1>4, RowWritten
<1> HIDE DEF row, status
<1> QED
  BY <1>1, <1>4, <1>5, <1>6, <1>7, <1>8 DEF RowsOK, status

(* Outside ApplyTransactionStatus a row only changes by being superseded,   *)
(* and a new row is not a paid one unless it carries the gateway's id.      *)
LEMMA RowAfterOtherSteps ==
    ASSUME TypeOK, SubmissionInv, PipelineInv, PaidRowInv, NEW p \in Handler,
           Begin(p) \/ Continue(p) \/ Crash(p), ~ApplyTransactionStatus(p)
    PROVE  /\ \A s \in Submitted :
                /\ s \in Submitted'
                /\ attempts'[s].status = attempts[s].status
                /\ attempts'[s].gateway_transaction_id =
                     attempts[s].gateway_transaction_id
           /\ \A s \in Submitted' \ Submitted :
                attempts'[s].status = "completed" =>
                  attempts'[s].gateway_transaction_id # Null
<1> USE DEF TypeOK
<1>1. CASE UNCHANGED attempts
  BY <1>1 DEF Submitted
<1>2. CASE FailAttempt(p)
  BY <1>2 DEF FailAttempt, PipelineInv
<1>3. CASE ApplyReplay(p)
  <2> DEFINE s == callback[p].session
             row == LockedAttempt(s)
  <2>1. s \in Session
    BY <1>3 DEF ApplyReplay, HandlersOK, CallbackStep, Callback
  <2>2. row \in AttemptRow
    BY <2>1, AttemptFromTransactionType DEF LockedAttempt, RowsOK
  <2>3. attempts' = [attempts EXCEPT ![s] = row]
    BY <1>3 DEF ApplyReplay
  <2>4. row.gateway_transaction_id # Null
    BY <1>3 DEF ApplyReplay, isReplayCallback
  <2>5. s \in Submitted => row = attempts[s]
    BY DEF LockedAttempt, Submitted
  <2>6. Submitted' = Submitted \cup {s}
    BY <2>1, <2>2, <2>3, RowWritten
  <2> HIDE DEF row
  <2> QED
    BY <2>1, <2>3, <2>4, <2>5, <2>6 DEF RowsOK, Submitted
<1>4. CASE EnsureInitialAttempt(p)
  <2> DEFINE s == held[p].merchant_session
             row == attemptFromTransaction(held[p])
  <2>1. held[p] \in TransactionRow /\ s \in Session
    BY <1>4 DEF EnsureInitialAttempt, HandlersOK, HoldingStep, TransactionRow
  <2>2. row \in AttemptRow
    BY <2>1, AttemptFromTransactionType
  <2>3. row.status = "failed"
    BY <1>4 DEF EnsureInitialAttempt, PaidRowInv, attemptFromTransaction
  <2>4. CASE attempts[s] = Null
    <3>1. attempts' = [attempts EXCEPT ![s] = row]
      BY <1>4, <2>4 DEF EnsureInitialAttempt
    <3>2. Submitted' = Submitted \cup {s} /\ s \notin Submitted
      BY <2>1, <2>2, <2>4, <3>1, RowWritten DEF Submitted
    <3> HIDE DEF row
    <3> QED
      BY <2>1, <2>3, <3>1, <3>2 DEF RowsOK, Submitted
  <2>5. CASE attempts[s] # Null
    <3>1. UNCHANGED attempts
      BY <1>4, <2>1, <2>5 DEF EnsureInitialAttempt, RowsOK
    <3> QED
      BY <1>1, <3>1
  <2> QED
    BY <2>4, <2>5
<1>5. ASSUME NEW s \in Session, CreateRetryPaymentAttempt(p, s)
      PROVE  /\ \A t \in Submitted :
                  /\ t \in Submitted'
                  /\ attempts'[t].status = attempts[t].status
                  /\ attempts'[t].gateway_transaction_id =
                       attempts[t].gateway_transaction_id
             /\ \A t \in Submitted' \ Submitted :
                  attempts'[t].status # "completed"
  <2>1. \A t \in Submitted :
          LET row == supersede(attempts[t]) IN
          /\ row \in AttemptRow
          /\ row.status = attempts[t].status
          /\ row.gateway_transaction_id = attempts[t].gateway_transaction_id
    BY DEF RowsOK, AttemptRow, Submitted, supersede
  <2>2. createForPayment.status # "completed"
    BY DEF createForPayment
  <2> QED
    BY <1>5, <2>1, <2>2, NullAssumption DEF CreateRetryPaymentAttempt, Submitted
<1> QED
  BY <1>1, <1>2, <1>3, <1>4, <1>5, AttemptWriters

(* No step makes a row a paid one without the id of the gateway.            *)
LEMMA PaidRowStep ==
    ASSUME TypeOK, SubmissionInv, PipelineInv, PaidRowInv, NEW p \in Handler,
           Begin(p) \/ Continue(p) \/ Crash(p)
    PROVE  PaidRowInv'
<1> USE DEF TypeOK
<1> DEFINE Fine == pc'[p] \in {"retry", "backfill"} => held'[p].status = "failed"
<1>0. OthersUnmoved(p)
  BY StepMovesOne
<1>1. Fine
  <2>f. Finish(p) => Fine
    BY DEF Finish, HandlersOK
  <2>a. \A row : AfterPipeline(p, row) => Fine
    BY <2>f DEF AfterPipeline, HandlersOK
  <2>w. \A next, row : Await(p, next, row) => pc'[p] = next /\ held'[p] = row
    BY DEF Await, HandlersOK
  <2>1. CASE Begin(p)
    <3>1. ASSUME NEW cb, ReceiveCallback(p, cb) \/ HandleCallback(p, cb)
          PROVE  Fine
      BY <3>1 DEF ReceiveCallback, HandleCallback, HandlersOK
    <3>2. ASSUME StartCancel(p) \/ StartRetry(p) \/ StartReconcile(p)
          PROVE  Fine
      BY <2>w, <3>2 DEF StartCancel, StartRetry, StartReconcile
    <3>3. ASSUME NEW amount, RefundTransaction(p, amount)
          PROVE  Fine
      BY <3>3 DEF RefundTransaction, handlerVars, PaidRowInv
    <3> QED
      BY <2>1, <3>1, <3>2, <3>3 DEF Begin
  <2>2. CASE PrecheckLegacy(p) \/ ResolveTransaction(p) \/ ResolveLegacy(p)
    BY <2>2, <2>f, <2>w
       DEF PrecheckLegacy, ResolveTransaction, ResolveLegacy, Decide
  <2>3. CASE CheckRetryLimit(p) \/ EnsureInitialAttempt(p)
    BY <2>3, <2>f, <2>w DEF CheckRetryLimit, EnsureInitialAttempt, PaidRowInv
  <2>4. CASE \/ FailAttempt(p) \/ FailLegacy(p) \/ ApplyReplay(p)
             \/ ApplyTransactionStatus(p) \/ DispatchPaymentEvents(p)
             \/ UpdateInvoiceStatus(p) \/ CancelTransaction(p)
    BY <2>4, <2>a, <2>f, <2>w
       DEF FailAttempt, FailLegacy, ApplyReplay, ApplyTransactionStatus,
           DispatchPaymentEvents, UpdateInvoiceStatus, CancelTransaction
  <2>5. CASE \/ \E s \in Session : CreateRetryPaymentAttempt(p, s)
             \/ UnableToGenerateUniquePaymentIdentifiers(p)
             \/ NoResponse(p) \/ Crash(p)
    BY <2>5, <2>f
       DEF CreateRetryPaymentAttempt, NoResponse, Crash,
           UnableToGenerateUniquePaymentIdentifiers
  <2>6. ASSUME NEW answer \in StatusAnswers, ApplyResponse(p, answer)
        PROVE  Fine
    <3>1. pc'[p] = "invoice"
      BY <2>6, <2>w DEF ApplyResponse
    <3> QED
      BY <3>1
  <2> QED
    BY <2>1, <2>2, <2>3, <2>4, <2>5, <2>6 DEF Continue
<1>2. \A q \in Handler : pc'[q] \in {"retry", "backfill"} => held'[q].status = "failed"
  BY <1>0, <1>1 DEF OthersUnmoved, PaidRowInv
<1>3. \A s \in Submitted' :
        attempts'[s].status = "completed" =>
          attempts'[s].gateway_transaction_id # Null
  <2>1. CASE ApplyTransactionStatus(p)
    BY <2>1, RowAfterApply DEF PaidRowInv, Submitted
  <2>2. CASE ~ApplyTransactionStatus(p)
    BY <2>2, RowAfterOtherSteps DEF PaidRowInv
  <2> QED
    BY <2>1, <2>2
<1> QED
  BY <1>2, <1>3 DEF PaidRowInv

---------------------------------------------------------------------------
(* A handler is about to announce a completed payment only after it applied *)
(* the success itself, and it announces it once.                            *)
LEMMA AnnouncingStep ==
    ASSUME TypeOK, NEW p \in Handler, Begin(p) \/ Continue(p) \/ Crash(p)
    PROVE  /\ \A q \in Handler \ {p}, s \in Session :
                Announcing(q, s)' <=> Announcing(q, s)
           /\ \A s \in Session : Announcing(p, s)' =>
                /\ ApplyTransactionStatus(p)
                /\ s = callback[p].session
                /\ mapTransactionStatus(callback[p].message) = "completed"
<1> USE DEF TypeOK
<1>1. \A q \in Handler \ {p}, s \in Session : Announcing(q, s)' <=> Announcing(q, s)
  BY StepMovesOne DEF OthersUnmoved, Announcing
<1>f. Finish(p) => pc'[p] # "dispatch"
  BY DEF Finish, HandlersOK
<1>a. \A row : AfterPipeline(p, row) => pc'[p] # "dispatch"
  BY <1>f DEF AfterPipeline, HandlersOK
<1>w. \A next, row : Await(p, next, row) =>
        pc'[p] = next /\ held'[p] = row /\ callback'[p] = callback[p]
  BY DEF Await, HandlersOK
<1>2. CASE ApplyTransactionStatus(p)
  <2> DEFINE cb == callback[p]
             status == mapTransactionStatus(cb.message)
             updated == transactionChangesFromCallback(cb.session, cb, status)
  <2>1. updated.status = status
    BY DEF transactionChangesFromCallback, RowsOK, TransactionRow
  <2>2. pc'[p] = "dispatch" => held'[p] = updated /\ callback'[p] = cb
    BY <1>2, <1>a, <1>w DEF ApplyTransactionStatus
  <2> QED
    BY <1>1, <1>2, <2>1, <2>2 DEF Announcing
<1>3. ASSUME ~ApplyTransactionStatus(p)
      PROVE  pc'[p] # "dispatch"
  <2>1. CASE Begin(p)
    <3>1. ASSUME NEW cb, ReceiveCallback(p, cb) \/ HandleCallback(p, cb)
          PROVE  pc'[p] # "dispatch"
      BY <3>1 DEF ReceiveCallback, HandleCallback, HandlersOK
    <3>2. ASSUME StartCancel(p) \/ StartRetry(p) \/ StartReconcile(p)
          PROVE  pc'[p] # "dispatch"
      BY <1>w, <3>2 DEF StartCancel, StartRetry, StartReconcile
    <3>3. ASSUME NEW amount, RefundTransaction(p, amount)
          PROVE  pc'[p] # "dispatch"
      BY <3>3 DEF RefundTransaction, handlerVars, Idle
    <3> QED
      BY <2>1, <3>1, <3>2, <3>3 DEF Begin
  <2>2. CASE PrecheckLegacy(p) \/ ResolveTransaction(p) \/ ResolveLegacy(p)
    BY <2>2, <1>f, <1>w
       DEF PrecheckLegacy, ResolveTransaction, ResolveLegacy, Decide
  <2>3. CASE CheckRetryLimit(p) \/ EnsureInitialAttempt(p)
    BY <2>3, <1>f, <1>w DEF CheckRetryLimit, EnsureInitialAttempt
  <2>4. CASE \/ FailAttempt(p) \/ FailLegacy(p) \/ ApplyReplay(p)
             \/ DispatchPaymentEvents(p) \/ UpdateInvoiceStatus(p)
             \/ CancelTransaction(p)
    BY <2>4, <1>a, <1>f
       DEF FailAttempt, FailLegacy, ApplyReplay, DispatchPaymentEvents,
           UpdateInvoiceStatus, CancelTransaction
  <2>5. CASE \/ \E s \in Session : CreateRetryPaymentAttempt(p, s)
             \/ UnableToGenerateUniquePaymentIdentifiers(p)
             \/ NoResponse(p) \/ Crash(p)
    BY <2>5, <1>f
       DEF CreateRetryPaymentAttempt, NoResponse, Crash,
           UnableToGenerateUniquePaymentIdentifiers
  <2>6. ASSUME NEW answer \in StatusAnswers, ApplyResponse(p, answer)
        PROVE  pc'[p] # "dispatch"
    <3>1. pc'[p] = "invoice"
      BY <2>6, <1>w DEF ApplyResponse
    <3> QED
      BY <3>1
  <2> QED
    BY <1>3, <2>1, <2>2, <2>3, <2>4, <2>5, <2>6 DEF Continue
<1> QED
  BY <1>1, <1>2, <1>3 DEF Announcing

(* A paid row stays paid, since a later callback for it is a replay.        *)
LEMMA PaidRowStays ==
    ASSUME TypeOK, SubmissionInv, PipelineInv, PaidRowInv, NEW p \in Handler,
           Begin(p) \/ Continue(p) \/ Crash(p),
           NEW s \in Submitted, attempts[s].status = "completed"
    PROVE  s \in Submitted' /\ attempts'[s].status = "completed"
<1>1. CASE ApplyTransactionStatus(p)
  BY <1>1, RowAfterApply DEF Submitted
<1>2. CASE ~ApplyTransactionStatus(p)
  BY <1>2, RowAfterOtherSteps
<1> QED
  BY <1>1, <1>2

(* A step that completes a row finds it without an event, and a step that   *)
(* emits the event finds it completed.                                      *)
LEMMA EventStep ==
    ASSUME TypeOK, SubmissionInv, PipelineInv, PaidRowInv, EventInv,
           NEW p \in Handler, Begin(p) \/ Continue(p) \/ Crash(p)
    PROVE  EventInv'
<1> USE DEF TypeOK
<1> DEFINE Paid(s) == s \in Submitted /\ attempts[s].status = "completed"
<1>p. \A s \in Session : Paid(s) => Paid(s)'
  BY PaidRowStays
<1>1. CASE ApplyTransactionStatus(p)
  <2>0. PICK s0 \in Session : s0 = callback[p].session
    BY <1>1, RowAfterApply
  <2>1. completedEvents' = completedEvents
    BY <1>1 DEF ApplyTransactionStatus
  <2>2. /\ s0 \in Submitted'
        /\ ~Paid(s0)
        /\ mapTransactionStatus(callback[p].message) = "completed" => Paid(s0)'
    BY <1>1, <2>0, RowAfterApply
  <2>3. completedEvents[s0] = 0
    BY <2>2 DEF EventInv, RowsOK
  <2>4. \A q \in Handler : ~Announcing(q, s0)
    BY <2>2 DEF EventInv
  <2>5. \A q \in Handler, s \in Session : Announcing(q, s)' =>
          IF q = p THEN s = s0 /\ Paid(s0)' ELSE Announcing(q, s)
    BY <2>0, <2>2, AnnouncingStep
  <2> HIDE DEF Paid
  <2>6. ASSUME NEW s \in Session
        PROVE  /\ completedEvents'[s] <= 1
               /\ completedEvents'[s] = 1 => Paid(s)'
    BY <1>p, <2>1 DEF EventInv, Paid
  <2>7. ASSUME NEW s \in Session, NEW q \in Handler, Announcing(q, s)'
        PROVE  /\ Paid(s)' /\ completedEvents'[s] = 0
               /\ \A r \in Handler : Announcing(r, s)' => r = q
    <3>1. CASE q = p
      BY <2>1, <2>3, <2>4, <2>5, <2>7, <3>1
    <3>2. CASE q # p
      <4>1. Announcing(q, s) /\ s # s0
        BY <2>4, <2>5, <2>7, <3>2
      <4> QED
        BY <1>p, <2>1, <2>5, <4>1 DEF EventInv, Paid
    <3> QED
      BY <3>1, <3>2
  <2> QED
    BY <2>6, <2>7 DEF EventInv, Paid
<1>2. CASE DispatchPaymentEvents(p) /\ held[p].status = "completed"
  <2> DEFINE s0 == callback[p].session
  <2>1. s0 \in Session /\ Announcing(p, s0)
    BY <1>2 DEF DispatchPaymentEvents, Announcing, HandlersOK, CallbackStep,
                Callback
  <2>2. completedEvents[s0] = 0 /\ Paid(s0)
    BY <2>1 DEF EventInv
  <2>3. completedEvents' = [completedEvents EXCEPT ![s0] = 1]
    BY <1>2, <2>2 DEF DispatchPaymentEvents
  <2>4. ~ApplyTransactionStatus(p)
    BY <1>2 DEF DispatchPaymentEvents, ApplyTransactionStatus
  <2>5. \A q \in Handler, s \in Session : Announcing(q, s)' =>
          Announcing(q, s) /\ s # s0
    BY <2>1, <2>4, AnnouncingStep DEF EventInv
  <2>6. completedEvents'[s0] = 1
        /\ \A s \in Session \ {s0} : completedEvents'[s] = completedEvents[s]
    BY <2>1, <2>3 DEF RowsOK
  <2> HIDE DEF Paid
  <2>7. ASSUME NEW s \in Session
        PROVE  /\ completedEvents'[s] <= 1
               /\ completedEvents'[s] = 1 => Paid(s)'
    BY <1>p, <2>1, <2>2, <2>6 DEF EventInv, Paid
  <2>8. ASSUME NEW s \in Session, NEW q \in Handler, Announcing(q, s)'
        PROVE  /\ Paid(s)' /\ completedEvents'[s] = 0
               /\ \A r \in Handler : Announcing(r, s)' => r = q
    BY <1>p, <2>5, <2>6, <2>8 DEF EventInv, Paid
  <2> QED
    BY <2>7, <2>8 DEF EventInv, Paid
<1>3. CASE /\ ~ApplyTransactionStatus(p)
           /\ ~(DispatchPaymentEvents(p) /\ held[p].status = "completed")
  <2>1. completedEvents' = completedEvents
    BY <1>3 DEF Begin, Continue, ReceiveCallback, HandleCallback, StartCancel,
       StartRetry, RefundTransaction, StartReconcile, PrecheckLegacy,
       ResolveTransaction, ResolveLegacy, FailAttempt, FailLegacy, ApplyReplay,
       DispatchPaymentEvents, UpdateInvoiceStatus, CancelTransaction,
       CheckRetryLimit, EnsureInitialAttempt, CreateRetryPaymentAttempt,
       UnableToGenerateUniquePaymentIdentifiers, ApplyResponse, NoResponse, Crash
  <2>2. \A q \in Handler, s \in Session : Announcing(q, s)' => Announcing(q, s)
    BY <1>3, AnnouncingStep
  <2> HIDE DEF Paid
  <2>3. ASSUME NEW s \in Session
        PROVE  /\ completedEvents'[s] <= 1
               /\ completedEvents'[s] = 1 => Paid(s)'
    BY <1>p, <2>1 DEF EventInv, Paid
  <2>4. ASSUME NEW s \in Session, NEW q \in Handler, Announcing(q, s)'
        PROVE  /\ Paid(s)' /\ completedEvents'[s] = 0
               /\ \A r \in Handler : Announcing(r, s)' => r = q
    BY <1>p, <2>1, <2>2, <2>4 DEF EventInv, Paid
  <2> QED
    BY <2>3, <2>4 DEF EventInv, Paid
<1> QED
  BY <1>1, <1>2, <1>3

(* When every notification matches its row, payment:completed is emitted at *)
(* most once per attempt, in whatever order callbacks are delivered and     *)
(* whichever of the handlers die.                                           *)
THEOREM CompletedAtMostOnceHolds ==
    ASSUME AllMatch
    PROVE  Spec => []CompletedAtMostOnce
<1>1. Init => PaidRowInv /\ EventInv
  <2> SUFFICES ASSUME Init PROVE PaidRowInv /\ EventInv
    OBVIOUS
  <2>1. PaidRowInv
    BY DEF Init, NewPayment, LegacyPayment, PaidRowInv, Submitted,
           createForPayment
  <2>2. EventInv
    BY DEF Init, EventInv, Announcing
  <2> QED
    BY <2>1, <2>2
<1>2. TypeOK /\ SubmissionInv /\ PipelineInv /\ PaidRowInv /\ EventInv
        /\ [Next]_vars => PaidRowInv' /\ EventInv'
  <2> SUFFICES ASSUME TypeOK, SubmissionInv, PipelineInv, PaidRowInv, EventInv,
                      [Next]_vars
               PROVE  PaidRowInv' /\ EventInv'
    OBVIOUS
  <2>1. CASE UNCHANGED vars
    <3>1. PaidRowInv'
      BY <2>1 DEF vars, PaidRowInv, Submitted
    <3>2. EventInv'
      BY <2>1 DEF vars, EventInv, Announcing, Submitted
    <3> QED
      BY <3>1, <3>2
  <2>2. CASE Next
    BY <2>2, PaidRowStep, EventStep DEF Next
  <2> QED
    BY <2>1, <2>2
<1>3. EventInv => CompletedAtMostOnce
  BY DEF EventInv, CompletedAtMostOnce
<1> QED
  BY <1>1, <1>2, <1>3, PipelineHolds, TypeCorrect, PTL DEF Spec

---------------------------------------------------------------------------
(* While a payment has no attempt row, a handler that may give it a failed  *)
(* one, or cancel it, met a payment that was not paid, and it still is not. *)
UnpaidInv ==
    Submitted = {} => \A p \in Handler :
      /\ pc[p] \in {"retry", "backfill"} =>
           transaction.status \in {"failed", "cancelled"}
      /\ pc[p] = "cancel" =>
           transaction.status \in {"pending", "failed", "cancelled"}

(* A refunded attempt row was copied from a refunded parent: it is the only *)
(* row, and no handler is left that would retry or cancel that payment.     *)
RefundedRowInv ==
    \A s \in Submitted : attempts[s].status = "refunded" =>
      /\ Submitted = {s} /\ ~attempts[s].superseded
      /\ transaction.status = "refunded"
      /\ \A p \in Handler :
           pc[p] \notin {"retry", "backfill", "createAttempt", "cancel"}

ParentInv == ParentReflectsAttempt /\ UnpaidInv /\ RefundedRowInv

(* How a handler comes to wait in a retry or a cancellation: it starts one  *)
(* on a payment that allows it, or it goes on with its retry.               *)
WayIn(p) ==
    \/ UNCHANGED pc
    \/ pc'[p] \notin {"retry", "backfill", "createAttempt", "cancel"}
    \/ pc'[p] = "retry" /\ transaction.status = "failed"
    \/ pc'[p] = "cancel" /\ canCancel(transaction.status)
    \/ pc[p] = "retry" /\ pc'[p] \in {"backfill", "createAttempt"}

(* Every action but the backfill of a retry is such a way.                  *)
LEMMA WayInStep ==
    ASSUME TypeOK, PipelineInv, NEW p \in Handler,
           Begin(p) \/ Continue(p) \/ Crash(p), ~EnsureInitialAttempt(p)
    PROVE  WayIn(p)
<1> USE DEF TypeOK
<1> DEFINE Elsewhere == pc'[p] \notin {"retry", "backfill", "createAttempt", "cancel"}
<1>f. Finish(p) => Elsewhere
  BY DEF Finish, HandlersOK
<1>a. \A row : AfterPipeline(p, row) => Elsewhere
  BY <1>f DEF AfterPipeline, HandlersOK
<1>w. \A next, row : Await(p, next, row) => pc'[p] = next
  BY DEF Await, HandlersOK
<1>1. CASE Begin(p)
  <2>1. ASSUME NEW cb, ReceiveCallback(p, cb) \/ HandleCallback(p, cb)
        PROVE  Elsewhere
    BY <2>1 DEF ReceiveCallback, HandleCallback, HandlersOK
  <2>2. ASSUME StartCancel(p) \/ StartRetry(p) \/ StartReconcile(p)
        PROVE  WayIn(p)
    BY <1>w, <2>2 DEF StartCancel, StartRetry, StartReconcile, WayIn
  <2>3. ASSUME NEW amount, RefundTransaction(p, amount)
        PROVE  UNCHANGED pc
    BY <2>3 DEF RefundTransaction, handlerVars
  <2> QED
    BY <1>1, <2>1, <2>2, <2>3 DEF Begin, WayIn
<1>2. CASE PrecheckLegacy(p) \/ ResolveTransaction(p) \/ ResolveLegacy(p)
  <2>1. Elsewhere
    BY <1>2, <1>f, <1>w
       DEF PrecheckLegacy, ResolveTransaction, ResolveLegacy, Decide
  <2> QED
    BY <2>1 DEF WayIn
<1>3. CASE CheckRetryLimit(p)
  BY <1>3, <1>f, <1>w DEF CheckRetryLimit, WayIn
<1>4. CASE \/ FailAttempt(p) \/ FailLegacy(p) \/ ApplyReplay(p)
           \/ ApplyTransactionStatus(p) \/ DispatchPaymentEvents(p)
           \/ UpdateInvoiceStatus(p) \/ CancelTransaction(p)
  <2>1. Elsewhere
    BY <1>4, <1>a, <1>f, <1>w
       DEF FailAttempt, FailLegacy, ApplyReplay, ApplyTransactionStatus,
           DispatchPaymentEvents, UpdateInvoiceStatus, CancelTransaction
  <2> QED
    BY <2>1 DEF WayIn
<1>5. CASE \/ \E s \in Session : CreateRetryPaymentAttempt(p, s)
           \/ UnableToGenerateUniquePaymentIdentifiers(p)
           \/ NoResponse(p) \/ Crash(p)
  <2>1. Elsewhere
    BY <1>5, <1>f
       DEF CreateRetryPaymentAttempt, NoResponse, Crash,
           UnableToGenerateUniquePaymentIdentifiers
  <2> QED
    BY <2>1 DEF WayIn
<1>6. ASSUME NEW answer \in StatusAnswers, ApplyResponse(p, answer)
      PROVE  WayIn(p)
  BY <1>6, <1>w DEF ApplyResponse, WayIn
<1> QED
  BY <1>1, <1>2, <1>3, <1>4, <1>5, <1>6 DEF Continue

(* A step that writes no attempt row moves the parent only by a             *)
(* cancellation or a refund.                                                *)
LEMMA ParentStepWithoutRow ==
    ASSUME TypeOK, SubmissionInv, PipelineInv, NoQueryStep, ParentInv,
           NEW p \in Handler, Begin(p) \/ Continue(p) \/ Crash(p),
           UNCHANGED attempts, ~EnsureInitialAttempt(p),
           ~ApplyTransactionStatus(p)
    PROVE  ParentInv'
<1> USE DEF TypeOK
<1>0. WayIn(p) /\ OthersUnmoved(p) /\ Submitted' = Submitted
  BY WayInStep, StepMovesOne DEF Submitted
<1>1. CASE UNCHANGED transaction
  <2>1. ParentReflectsAttempt'
    BY <1>1, <1>0 DEF ParentInv, ParentReflectsAttempt
  <2>2. UnpaidInv'
    <3> SUFFICES ASSUME Submitted = {}, NEW q \in Handler
                 PROVE  /\ pc'[q] \in {"retry", "backfill"} =>
                             transaction.status \in {"failed", "cancelled"}
                        /\ pc'[q] = "cancel" =>
                             transaction.status \in {"pending", "failed", "cancelled"}
      BY <1>0, <1>1 DEF UnpaidInv
    <3>1. CASE q # p
      BY <1>0, <3>1 DEF OthersUnmoved, ParentInv, UnpaidInv
    <3>2. CASE q = p
      BY <1>0, <3>2 DEF WayIn, ParentInv, UnpaidInv, canCancel, RowsOK,
                        TransactionRow, TransactionStatus
    <3> QED
      BY <3>1, <3>2
  <2>3. RefundedRowInv'
    <3> SUFFICES ASSUME NEW s \in Submitted, attempts[s].status = "refunded"
                 PROVE  /\ Submitted = {s} /\ ~attempts[s].superseded
                        /\ transaction.status = "refunded"
                        /\ \A q \in Handler :
                             pc'[q] \notin {"retry", "backfill", "createAttempt", "cancel"}
      BY <1>0, <1>1 DEF RefundedRowInv
    <3>1. /\ Submitted = {s} /\ ~attempts[s].superseded
          /\ transaction.status = "refunded"
          /\ \A q \in Handler :
               pc[q] \notin {"retry", "backfill", "createAttempt", "cancel"}
      BY DEF ParentInv, RefundedRowInv
    <3>2. pc'[p] \notin {"retry", "backfill", "createAttempt", "cancel"}
      BY <1>0, <3>1 DEF WayIn, canCancel
    <3> QED
      BY <1>0, <3>1, <3>2 DEF OthersUnmoved
  <2> QED
    BY <2>1, <2>2, <2>3 DEF ParentInv
<1>2. CASE CancelTransaction(p)
  <2>1. /\ transaction'.status = "cancelled"
        /\ transaction'.merchant_session = transaction.merchant_session
    BY <1>2 DEF CancelTransaction, RowsOK, TransactionRow
  <2>2. pc[p] = "cancel"
    BY <1>2 DEF CancelTransaction
  <2>3. \A s \in Submitted : attempts[s].status # "refunded"
    BY <2>2 DEF ParentInv, RefundedRowInv
  <2>4. ParentReflectsAttempt'
    BY <1>0, <2>1 DEF ParentInv, ParentReflectsAttempt
  <2>5. UnpaidInv'
    BY <2>1 DEF UnpaidInv
  <2>6. RefundedRowInv'
    BY <1>0, <2>3 DEF RefundedRowInv
  <2> QED
    BY <2>4, <2>5, <2>6 DEF ParentInv
<1>3. ASSUME NEW amount \in 1..Amount, RefundTransaction(p, amount)
      PROVE  ParentInv'
  <2>1. /\ transaction.status = "completed"
        /\ transaction'.status \in {"completed", "refunded"}
        /\ transaction'.merchant_session = transaction.merchant_session
        /\ transaction'.transaction_id = transaction.transaction_id
        /\ UNCHANGED pc
    BY <1>3 DEF RefundTransaction, handlerVars, RowsOK, TransactionRow
  <2>2. \A s \in Submitted : attempts[s].status # "refunded"
    BY <2>1 DEF ParentInv, RefundedRowInv
  <2>3. ParentReflectsAttempt'
    <3> SUFFICES ASSUME Submitted # {}
                 PROVE  LET row == attempts[transaction.merchant_session] IN
                        /\ row # Null /\ row.status = "completed"
                        /\ row.gateway_transaction_id = transaction.transaction_id
      BY <1>0, <2>1 DEF ParentReflectsAttempt
    <3> QED
      BY <2>1 DEF ParentInv, ParentReflectsAttempt
  <2>4. UnpaidInv'
    BY <1>0, <2>1 DEF ParentInv, UnpaidInv
  <2>5. RefundedRowInv'
    BY <1>0, <2>2 DEF RefundedRowInv
  <2> QED
    BY <2>3, <2>4, <2>5 DEF ParentInv
<1>4. \/ UNCHANGED transaction \/ CancelTransaction(p)
      \/ \E amount \in 1..Amount : RefundTransaction(p, amount)
      \/ \E s \in Session : CreateRetryPaymentAttempt(p, s)
  BY DEF Begin, Continue, ReceiveCallback, HandleCallback, StartCancel,
     StartRetry, StartReconcile, PrecheckLegacy, ResolveTransaction,
     ResolveLegacy, FailAttempt, FailLegacy, ApplyReplay, UpdateInvoiceStatus,
     DispatchPaymentEvents, CheckRetryLimit, ApplyResponse,
      NoQueryStep, PipelineInv, NoResponse, Crash,
     UnableToGenerateUniquePaymentIdentifiers
<1>5. ASSUME NEW s \in Session, CreateRetryPaymentAttempt(p, s)
      PROVE  FALSE
  <2>1. attempts'[s] = createForPayment /\ attempts[s] = Null
    BY <1>5 DEF CreateRetryPaymentAttempt, Submitted
  <2> QED
    BY <2>1, CreateForPaymentType, NullAssumption
<1> QED
  BY <1>1, <1>2, <1>3, <1>4, <1>5

(* The attempt a callback moves: the parent follows it, or names another    *)
(* row, or this one was superseded and the parent says nothing of it.       *)
LEMMA ParentStepOfApply ==
    ASSUME TypeOK, SubmissionInv, PipelineInv, PaidRowInv, ParentInv,
           NEW p \in Handler, ApplyTransactionStatus(p)
    PROVE  ParentInv'
<1> USE DEF TypeOK
<1>1. PICK cb \in Callback : cb = callback[p]
  BY DEF ApplyTransactionStatus, HandlersOK, CallbackStep
<1>2. PICK s \in Session : s = cb.session
  BY <1>1 DEF Callback
<1>3. PICK status \in {"completed", "failed", "pending"} :
        status = mapTransactionStatus(cb.message)
  BY MapTransactionStatusRange
<1>4. PICK old \in AttemptRow : old = LockedAttempt(s)
  BY AttemptFromTransactionType DEF LockedAttempt, RowsOK
<1>5. PICK row \in AttemptRow : row = attemptChangesFromCallback(old, cb, status)
  BY CallbackChangesType
<1>6. /\ row.status = status
      /\ row.gateway_transaction_id = cb.gateway
      /\ row.superseded = old.superseded
  BY <1>5 DEF attemptChangesFromCallback, AttemptRow
<1>7. /\ Submitted' = Submitted \cup {s}
      /\ attempts'[s] = row
      /\ \A t \in Session \ {s} : attempts'[t] = attempts[t]
  <2>1. attempts' = [attempts EXCEPT ![s] = row]
    BY <1>1, <1>2, <1>3, <1>4, <1>5 DEF ApplyTransactionStatus
  <2> QED
    BY <2>1, RowWritten DEF RowsOK
<1>8. /\ s \notin Submitted => Submitted = {} /\ ~old.superseded
      /\ s \in Submitted => old = attempts[s] /\ old.status # "completed"
  <2>1. s \notin Submitted => Submitted = {}
    BY <1>1, <1>2 DEF ApplyTransactionStatus, SubmissionInv, SessionKnown,
                      CallbackStep
  <2>2. s \in Submitted => attempts[s].status # "completed"
    BY <1>1, <1>2, RowAfterApply
  <2> QED
    BY <1>4, <2>1, <2>2 DEF LockedAttempt, Submitted, attemptFromTransaction
<1>9. UnpaidInv'
  BY <1>7 DEF UnpaidInv
<1>10. RefundedRowInv'
  <2>1. ASSUME NEW t \in Submitted', attempts'[t].status = "refunded"
        PROVE  FALSE
    <3>1. t # s /\ t \in Submitted /\ attempts[t].status = "refunded"
      BY <1>6, <1>7, <2>1 DEF Submitted
    <3>2. Submitted = {t}
      BY <3>1 DEF ParentInv, RefundedRowInv
    <3> QED
      BY <1>8, <3>1, <3>2
  <2> QED
    BY <2>1 DEF RefundedRowInv
<1>11. ParentReflectsAttempt'
  <2>1. CASE shouldPropagate(row, status)
    <3>1. transaction' = transactionChangesFromCallback(s, cb, status)
      BY <1>1, <1>2, <1>3, <1>4, <1>5, <2>1 DEF ApplyTransactionStatus
    <3>2. /\ transaction'.merchant_session = s
          /\ transaction'.status = status
          /\ transaction'.transaction_id = cb.gateway
      BY <3>1 DEF transactionChangesFromCallback, RowsOK, TransactionRow
    <3>3. row # Null
      BY NullAssumption
    <3> QED
      BY <1>6, <1>7, <2>1, <3>2, <3>3
         DEF ParentReflectsAttempt, shouldPropagate
  <2>2. CASE ~shouldPropagate(row, status)
    <3>1. transaction' = transaction
      BY <1>1, <1>2, <1>3, <1>4, <1>5, <2>2 DEF ApplyTransactionStatus
    <3>2. s \in Submitted /\ attempts[s].superseded /\ attempts[s].status # "completed"
      BY <1>6, <1>8, <2>2 DEF shouldPropagate
    <3>3. attempts[s].status # "refunded"
      BY <3>2 DEF ParentInv, RefundedRowInv
    <3>4. transaction.merchant_session \in Session
      BY DEF RowsOK, TransactionRow
    <3>5. CASE transaction.merchant_session # s
      BY <1>7, <3>1, <3>2, <3>4, <3>5 DEF ParentInv, ParentReflectsAttempt
    <3>6. CASE transaction.merchant_session = s
      <4>1. transaction.status \notin {"pending", "failed", "completed", "refunded"}
        BY <3>2, <3>3, <3>6 DEF ParentInv, ParentReflectsAttempt
      <4> QED
        BY <1>7, <3>1, <3>6, <4>1, NullAssumption DEF ParentReflectsAttempt
    <3> QED
      BY <3>5, <3>6
  <2> QED
    BY <2>1, <2>2
<1> QED
  BY <1>9, <1>10, <1>11 DEF ParentInv

(* A row given to a payment without attempts copies its parent, or the      *)
(* failed record of a retry while the parent is failed or cancelled.        *)
LEMMA ParentStepOfFirstRow ==
    ASSUME TypeOK, SubmissionInv, ParentInv, NEW p \in Handler,
           NEW row \in AttemptRow, Submitted = {},
           UNCHANGED transaction, OthersUnmoved(p),
           pc'[p] \notin {"backfill", "createAttempt", "cancel"},
           attempts' = [attempts EXCEPT ![FirstSession] = row],
           \/ row = attemptFromTransaction(transaction) /\ pc'[p] # "retry"
           \/ /\ row.status = "failed" /\ ~row.superseded
              /\ transaction.status \in {"failed", "cancelled"}
    PROVE  ParentInv'
<1> USE DEF TypeOK
<1>1. /\ Submitted' = {FirstSession}
      /\ attempts'[FirstSession] = row
      /\ transaction'.merchant_session = FirstSession
  <2>1. Submitted' = {FirstSession}
    BY RowWritten, SessionAssumption
  <2> QED
    BY <2>1, SessionAssumption DEF RowsOK, SubmissionInv
<1>2. row = attemptFromTransaction(transaction) =>
        /\ row.status = transaction.status
        /\ row.gateway_transaction_id = transaction.transaction_id
        /\ ~row.superseded
  BY DEF attemptFromTransaction
<1>3. ParentReflectsAttempt'
  BY <1>1, <1>2, NullAssumption DEF ParentReflectsAttempt
<1>4. UnpaidInv'
  BY <1>1 DEF UnpaidInv
<1>5. RefundedRowInv'
  <2> SUFFICES ASSUME row.status = "refunded"
               PROVE  /\ ~row.superseded
                      /\ transaction.status = "refunded"
                      /\ \A q \in Handler :
                           pc'[q] \notin {"retry", "backfill", "createAttempt", "cancel"}
    BY <1>1 DEF RefundedRowInv
  <2>1. row = attemptFromTransaction(transaction)
    OBVIOUS
  <2>2. transaction.status = "refunded" /\ ~row.superseded
    BY <1>2, <2>1
  <2>3. \A q \in Handler :
          pc[q] \notin {"retry", "backfill", "createAttempt", "cancel"}
    BY <2>2 DEF ParentInv, UnpaidInv, SubmissionInv, SessionKnown
  <2> QED
    BY <2>1, <2>2, <2>3 DEF OthersUnmoved
<1> QED
  BY <1>3, <1>4, <1>5 DEF ParentInv

(* A replay and a retry write a row only for a payment that has none; the   *)
(* retry that adds its own names it in the parent.                          *)
LEMMA ParentStepOfRow ==
    ASSUME TypeOK, SubmissionInv, PipelineInv, NoQueryStep, PaidRowInv,
           ParentInv, NEW p \in Handler,
           \/ ApplyReplay(p) \/ EnsureInitialAttempt(p)
           \/ \E s \in Session : CreateRetryPaymentAttempt(p, s)
    PROVE  ParentInv'
<1> USE DEF TypeOK
<1>0. OthersUnmoved(p)
  BY StepMovesOne DEF Continue
<1>1. CASE ApplyReplay(p)
  <2>1. PICK s \in Session : s = callback[p].session
    BY <1>1 DEF ApplyReplay, HandlersOK, CallbackStep, Callback
  <2>2. /\ attempts' = [attempts EXCEPT ![s] = LockedAttempt(s)]
        /\ UNCHANGED transaction
        /\ pc'[p] = "idle"
    BY <1>1, <2>1 DEF ApplyReplay, Finish, HandlersOK
  <2>3. CASE s \in Submitted
    <3>1. UNCHANGED attempts
      BY <2>2, <2>3 DEF LockedAttempt, Submitted, RowsOK
    <3>2. ~EnsureInitialAttempt(p) /\ ~ApplyTransactionStatus(p)
      BY <1>1 DEF ApplyReplay, EnsureInitialAttempt, ApplyTransactionStatus
    <3> QED
      BY <1>1, <3>1, <3>2, ParentStepWithoutRow DEF Continue
  <2>4. CASE s \notin Submitted
    <3>1. Submitted = {} /\ s = FirstSession
      BY <1>1, <2>1, <2>4
         DEF ApplyReplay, SubmissionInv, SessionKnown, CallbackStep
    <3>2. PICK row \in AttemptRow : row = attemptFromTransaction(transaction)
      BY AttemptFromTransactionType DEF RowsOK
    <3>3. LockedAttempt(s) = row
      BY <2>4, <3>2 DEF LockedAttempt, Submitted
    <3> QED
      BY <1>0, <2>2, <3>1, <3>2, <3>3, ParentStepOfFirstRow
  <2> QED
    BY <2>3, <2>4
<1>2. CASE EnsureInitialAttempt(p)
  <2>1. /\ held[p] \in TransactionRow
        /\ held[p].merchant_session = FirstSession
        /\ held[p].status = "failed"
    BY <1>2 DEF EnsureInitialAttempt, HandlersOK, HoldingStep, SubmissionInv,
                SessionKnown, PaidRowInv
  <2>2. UNCHANGED transaction /\ pc[p] = "backfill" /\ pc'[p] = "retry"
    BY <1>2 DEF EnsureInitialAttempt, Await, HandlersOK
  <2>3. PICK row \in AttemptRow : row = attemptFromTransaction(held[p])
    BY <2>1, AttemptFromTransactionType
  <2>4. row.status = "failed" /\ ~row.superseded
    BY <2>1, <2>3 DEF attemptFromTransaction
  <2>5. CASE attempts[FirstSession] = Null
    <3>1. Submitted = {}
      BY <2>5 DEF SubmissionInv, Submitted
    <3>2. transaction.status \in {"failed", "cancelled"}
      BY <2>2, <3>1 DEF ParentInv, UnpaidInv
    <3>3. attempts' = [attempts EXCEPT ![FirstSession] = row]
      BY <1>2, <2>1, <2>3, <2>5 DEF EnsureInitialAttempt
    <3> QED
      BY <1>0, <2>2, <2>4, <3>1, <3>2, <3>3, ParentStepOfFirstRow
  <2>6. CASE attempts[FirstSession] # Null
    <3>1. UNCHANGED attempts /\ FirstSession \in Submitted
      BY <1>2, <2>1, <2>6, SessionAssumption
         DEF EnsureInitialAttempt, RowsOK, Submitted
    <3>2. Submitted' = Submitted
      BY <3>1 DEF Submitted
    <3>3. ParentReflectsAttempt'
      BY <2>2, <3>1, <3>2 DEF ParentInv, ParentReflectsAttempt
    <3>4. UnpaidInv'
      BY <3>1, <3>2 DEF UnpaidInv
    <3>5. \A s \in Submitted : attempts[s].status # "refunded"
      BY <2>2 DEF ParentInv, RefundedRowInv
    <3>6. RefundedRowInv'
      BY <3>1, <3>2, <3>5 DEF RefundedRowInv
    <3> QED
      BY <3>3, <3>4, <3>6 DEF ParentInv
  <2> QED
    BY <2>5, <2>6
<1>3. ASSUME NEW s \in Session, CreateRetryPaymentAttempt(p, s)
      PROVE  ParentInv'
  <2>1. /\ transaction'.merchant_session = s
        /\ transaction'.status = "pending"
    BY <1>3 DEF CreateRetryPaymentAttempt, RowsOK, TransactionRow
  <2>2. /\ attempts'[s] = createForPayment
        /\ \A t \in Session \ {s} :
             attempts'[t] = IF attempts[t] = Null THEN Null
                            ELSE supersede(attempts[t])
    BY <1>3 DEF CreateRetryPaymentAttempt
  <2>3. /\ createForPayment # Null /\ ~createForPayment.superseded
        /\ createForPayment.status = "pending"
    BY CreateForPaymentType, NullAssumption DEF createForPayment
  <2>4. \A t \in Submitted : /\ supersede(attempts[t]).status = attempts[t].status
                             /\ attempts[t].status # "refunded"
    <3>1. pc[p] = "createAttempt"
      BY <1>3 DEF CreateRetryPaymentAttempt
    <3> QED
      BY <3>1 DEF supersede, RowsOK, AttemptRow, Submitted, ParentInv,
                  RefundedRowInv
  <2>5. ParentReflectsAttempt'
    BY <2>1, <2>2, <2>3 DEF ParentReflectsAttempt
  <2>6. s \in Submitted'
    BY <2>2, <2>3 DEF Submitted
  <2>7. \A t \in Submitted' : attempts'[t].status # "refunded"
    BY <2>2, <2>3, <2>4 DEF Submitted
  <2> QED
    BY <2>5, <2>6, <2>7 DEF ParentInv, UnpaidInv, RefundedRowInv
<1> QED
  BY <1>1, <1>2, <1>3

LEMMA InitParentInv == Init => PaidRowInv /\ ParentInv
<1> SUFFICES ASSUME Init PROVE PaidRowInv /\ ParentInv
  OBVIOUS
<1>1. PaidRowInv
  BY DEF Init, NewPayment, LegacyPayment, PaidRowInv, Submitted,
         createForPayment
<1>2. UnpaidInv
  BY DEF Init, UnpaidInv
<1>3. RefundedRowInv
  BY DEF Init, NewPayment, LegacyPayment, RefundedRowInv, Submitted,
         createForPayment
<1>4. ParentReflectsAttempt
  <2>1. CASE NewPayment
    BY <2>1, CreateForPaymentType, NullAssumption, SessionAssumption
       DEF NewPayment, ParentReflectsAttempt, createForPayment
  <2>2. CASE LegacyPayment
    BY <2>2 DEF LegacyPayment, ParentReflectsAttempt, Submitted
  <2> QED
    BY <2>1, <2>2 DEF Init
<1> QED
  BY <1>1, <1>2, <1>3, <1>4 DEF ParentInv

LEMMA ParentStutter ==
    ASSUME PaidRowInv, ParentInv, UNCHANGED vars
    PROVE  PaidRowInv' /\ ParentInv'
<1>1. PaidRowInv'
  BY DEF vars, PaidRowInv, Submitted
<1>2. ParentReflectsAttempt'
  BY DEF vars, ParentInv, ParentReflectsAttempt, Submitted
<1>3. UnpaidInv' /\ RefundedRowInv'
  BY DEF vars, ParentInv, UnpaidInv, RefundedRowInv, Submitted
<1> QED
  BY <1>1, <1>2, <1>3 DEF ParentInv

LEMMA ParentStep ==
    ASSUME TypeOK, SubmissionInv, PipelineInv, NoQueryStep, PaidRowInv, ParentInv,
           NEW p \in Handler, Begin(p) \/ Continue(p) \/ Crash(p)
    PROVE  PaidRowInv' /\ ParentInv'
<1>1. ~FailAttempt(p)
  BY DEF FailAttempt, PipelineInv
<1>2. ParentInv'
  BY <1>1, AttemptWriters, ParentStepWithoutRow, ParentStepOfApply,
     ParentStepOfRow
<1> QED
  BY <1>2, PaidRowStep

(* The parent row says what the attempt it names says, whatever callbacks,  *)
(* cancellations, retries, refunds and crashes interleave, provided that    *)
(* every notification matches its row and reconciliation is not used.       *)
THEOREM ParentReflectsAttemptHolds ==
    ASSUME AllMatch, NoReconcile
    PROVE  Spec => []ParentReflectsAttempt
<1>1. TypeOK /\ SubmissionInv /\ PipelineInv /\ NoQueryStep /\ PaidRowInv
        /\ ParentInv /\ [Next]_vars => PaidRowInv' /\ ParentInv'
  BY ParentStutter, ParentStep DEF Next
<1>2. ParentInv => ParentReflectsAttempt
  BY DEF ParentInv
<1> QED
  BY <1>1, <1>2, InitParentInv, NoQueryHolds, PipelineHolds, TypeCorrect, PTL
     DEF Spec
---------------------------------------------------------------------------
(* Some attempt is paid, or the parent of a payment that has none.          *)
PaidSomewhere ==
    \/ Submitted = {} /\ transaction.status = "completed"
    \/ \E s \in Submitted : attempts[s].status = "completed"

(* A handler that will write, or announce, that the payment is paid.        *)
Paying(p) == pc[p] \in {"dispatch", "invoice"} /\ held[p].status = "completed"

(* The payment is paid somewhere as long as somebody says so; a paid parent *)
(* without attempts has the gateway's id, so a backfill of it is a replay.  *)
PaidInv ==
    /\ refundedTotal < Amount /\ (invoice = "paid" \/ \E p \in Handler : Paying(p))
         => PaidSomewhere
    /\ Submitted = {} /\ transaction.status = "completed" => transaction.transaction_id # Null

(* What a step may do to a paid parent that has no attempts.                *)
LEMMA PaidParentStep ==
    ASSUME TypeOK, SubmissionInv, PipelineInv, NoQueryStep, ParentInv, PaidInv,
           RefundsAccounted, NEW p \in Handler, Begin(p) \/ Continue(p) \/ Crash(p),
           Submitted = {}, transaction.status = "completed", refundedTotal' < Amount
    PROVE  PaidSomewhere' /\ (Submitted' = {} => transaction'.transaction_id # Null)
<1> USE DEF TypeOK
<1>1. transaction.transaction_id # Null BY DEF PaidInv
<1>2. ASSUME NEW amount \in 1..Amount, RefundTransaction(p, amount)
      PROVE  PaidSomewhere' /\ transaction'.transaction_id # Null
  <2>1. /\ refundedTotal' = refundedTotal + amount /\ transaction.refunded = refundedTotal
        /\ transaction'.transaction_id = transaction.transaction_id
        /\ transaction'.status = IF transaction.refunded + amount = Amount
                                 THEN "refunded" ELSE "completed"
        /\ Submitted' = Submitted
    BY <1>2 DEF RefundTransaction, RowsOK, TransactionRow, RefundsAccounted, Submitted
  <2>2. refundedTotal \in Nat /\ amount \in Nat /\ Amount \in Nat
    BY NumberAssumption DEF RowsOK
  <2>3. transaction'.status = "completed" BY <2>1, <2>2
  <2> QED BY <1>1, <2>1, <2>3 DEF PaidSomewhere
\* The first row is a backfill of the paid parent.
<1>3. CASE ApplyReplay(p) \/ ApplyTransactionStatus(p)
  <2> DEFINE s == callback[p].session
             row == LockedAttempt(s)
  <2>1. s \in Session
    BY <1>3 DEF ApplyReplay, ApplyTransactionStatus, HandlersOK, CallbackStep, Callback
  <2>2. row = attemptFromTransaction(transaction) /\ row \in AttemptRow
    BY <2>1, AttemptFromTransactionType DEF LockedAttempt, Submitted, RowsOK
  <2>3. row.status = "completed" /\ row.gateway_transaction_id # Null
    BY <1>1, <2>2 DEF attemptFromTransaction
  <2>4. isReplayCallback(row, callback[p]) BY <2>3 DEF isReplayCallback
  <2>5. attempts' = [attempts EXCEPT ![s] = row]
    BY <1>3, <2>4 DEF ApplyReplay, ApplyTransactionStatus
  <2> HIDE DEF row, s
  <2>6. attempts'[s] = row /\ Submitted' = Submitted \cup {s}
    BY <2>1, <2>2, <2>5, RowWritten DEF RowsOK
  <2> QED BY <2>3, <2>6 DEF PaidSomewhere
<1>4. ~FailAttempt(p) /\ ~FailLegacy(p) BY DEF FailAttempt, FailLegacy, PipelineInv
<1>5. ~CancelTransaction(p) /\ ~EnsureInitialAttempt(p)
  BY DEF CancelTransaction, EnsureInitialAttempt, ParentInv, UnpaidInv
<1>6. ASSUME NEW s \in Session PROVE ~CreateRetryPaymentAttempt(p, s)
  BY DEF CreateRetryPaymentAttempt, SubmissionInv, SessionKnown
<1>7. CASE UNCHANGED <<transaction, attempts>>
  BY <1>1, <1>7 DEF PaidSomewhere, Submitted
<1>8. \/ UNCHANGED <<transaction, attempts>>
      \/ \E amount \in 1..Amount : RefundTransaction(p, amount)
      \/ ApplyReplay(p) \/ ApplyTransactionStatus(p)
  BY <1>4, <1>5, <1>6
     DEF Begin, Continue, ReceiveCallback, HandleCallback, StartCancel, StartRetry,
         StartReconcile, PrecheckLegacy, ResolveTransaction, ResolveLegacy,
         DispatchPaymentEvents, UpdateInvoiceStatus, CheckRetryLimit, ApplyResponse,
         NoQueryStep, UnableToGenerateUniquePaymentIdentifiers, NoResponse, Crash
<1> QED BY <1>2, <1>3, <1>7, <1>8

(* A payment that is paid somewhere stays so, short of a full refund.       *)
LEMMA PaidSomewhereStays ==
    ASSUME TypeOK, SubmissionInv, PipelineInv, NoQueryStep, PaidRowInv, ParentInv, PaidInv,
           RefundsAccounted, NEW p \in Handler, Begin(p) \/ Continue(p) \/ Crash(p),
           PaidSomewhere, refundedTotal' < Amount
    PROVE  PaidSomewhere'
<1>1. CASE Submitted = {} /\ transaction.status = "completed" BY <1>1, PaidParentStep
<1>2. ASSUME NEW s \in Submitted, attempts[s].status = "completed" PROVE PaidSomewhere'
  BY <1>2, PaidRowStays DEF PaidSomewhere
<1> QED BY <1>1, <1>2 DEF PaidSomewhere

LEMMA RefundsOnlyGrow ==
    ASSUME TypeOK, NEW p \in Handler, Begin(p) \/ Continue(p) \/ Crash(p), refundedTotal' < Amount
    PROVE  refundedTotal < Amount
<1>1. ASSUME NEW amount \in 1..Amount, RefundTransaction(p, amount)
      PROVE  refundedTotal < Amount
  <2>1. refundedTotal' = refundedTotal + amount BY <1>1 DEF RefundTransaction
  <2>2. refundedTotal \in Nat /\ amount \in Nat /\ Amount \in Nat
    BY NumberAssumption DEF TypeOK, RowsOK
  <2> QED BY <2>1, <2>2
<1>2. UNCHANGED refundedTotal \/ \E amount \in 1..Amount : RefundTransaction(p, amount)
  BY DEF Begin, Continue, ReceiveCallback, HandleCallback, StartCancel, StartRetry,
         StartReconcile, PrecheckLegacy, ResolveTransaction, ResolveLegacy, FailAttempt,
         FailLegacy, ApplyReplay, ApplyTransactionStatus, DispatchPaymentEvents,
         UpdateInvoiceStatus, CancelTransaction, CheckRetryLimit, EnsureInitialAttempt,
         CreateRetryPaymentAttempt, UnableToGenerateUniquePaymentIdentifiers, ApplyResponse,
         NoResponse, Crash
<1> QED BY <1>1, <1>2

(* Who comes to say that the payment is paid: a handler that applied the    *)
(* success, one that read the parent of a superseded attempt, or one that   *)
(* goes on with what it held.                                               *)
LEMMA PayingStep ==
    ASSUME TypeOK, PipelineInv, NoQueryStep, NEW p \in Handler,
           Begin(p) \/ Continue(p) \/ Crash(p), Paying(p)'
    PROVE  \/ Paying(p)
           \/ /\ ApplyTransactionStatus(p)
              /\ \/ mapTransactionStatus(callback[p].message) = "completed"
                 \/ transaction.status = "completed"
<1> USE DEF TypeOK
<1> DEFINE Elsewhere == pc'[p] \notin {"dispatch", "invoice"}
<1>f. Finish(p) => Elsewhere BY DEF Finish, HandlersOK
<1>a. \A row : AfterPipeline(p, row) => Elsewhere \/ held'[p] = row
  BY <1>f DEF AfterPipeline, HandlersOK
<1>w. \A next, row : Await(p, next, row) => pc'[p] = next /\ held'[p] = row
  BY DEF Await, HandlersOK
<1>e. ~Elsewhere /\ held'[p].status = "completed" BY DEF Paying
<1> HIDE DEF Elsewhere
<1>1. CASE ApplyTransactionStatus(p)
  <2> DEFINE cb == callback[p]
             status == mapTransactionStatus(cb.message)
             updated == transactionChangesFromCallback(cb.session, cb, status)
  <2>1. updated.status = status
    BY DEF transactionChangesFromCallback, RowsOK, TransactionRow
  <2>2. held'[p] = updated \/ held'[p] = transaction
    BY <1>1, <1>a, <1>e, <1>w DEF ApplyTransactionStatus
  <2> QED BY <1>1, <1>e, <2>1, <2>2
<1>2. CASE DispatchPaymentEvents(p)
  <2>1. held'[p] = held[p] BY <1>2, <1>a, <1>e DEF DispatchPaymentEvents
  <2> QED BY <1>2, <1>e, <2>1 DEF DispatchPaymentEvents, Paying
<1>3. CASE Begin(p)
  <2>1. ASSUME NEW cb, ReceiveCallback(p, cb) \/ HandleCallback(p, cb)
        PROVE  FALSE
    BY <1>e, <2>1 DEF ReceiveCallback, HandleCallback, HandlersOK, Elsewhere
  <2>2. ASSUME StartCancel(p) \/ StartRetry(p) \/ StartReconcile(p)
        PROVE  FALSE
    BY <1>e, <1>w, <2>2 DEF StartCancel, StartRetry, StartReconcile, Elsewhere
  <2>3. ASSUME NEW amount, RefundTransaction(p, amount) PROVE Paying(p)
    BY <2>3 DEF RefundTransaction, handlerVars, Paying
  <2> QED BY <1>3, <2>1, <2>2, <2>3 DEF Begin
<1>4. ~(PrecheckLegacy(p) \/ ResolveTransaction(p) \/ ResolveLegacy(p))
  BY <1>e, <1>f, <1>w DEF PrecheckLegacy, ResolveTransaction, ResolveLegacy, Decide, Elsewhere
<1>5. ~(CheckRetryLimit(p) \/ EnsureInitialAttempt(p))
  BY <1>e, <1>f, <1>w DEF CheckRetryLimit, EnsureInitialAttempt, Elsewhere
<1>6. ~(ApplyReplay(p) \/ UpdateInvoiceStatus(p) \/ CancelTransaction(p) \/ NoResponse(p)
          \/ Crash(p) \/ UnableToGenerateUniquePaymentIdentifiers(p)
          \/ \E s \in Session : CreateRetryPaymentAttempt(p, s))
  BY <1>e, <1>f DEF ApplyReplay, UpdateInvoiceStatus, CancelTransaction, NoResponse, Crash,
                    UnableToGenerateUniquePaymentIdentifiers, CreateRetryPaymentAttempt
<1>7. ~(FailAttempt(p) \/ FailLegacy(p) \/ \E answer \in StatusAnswers : ApplyResponse(p, answer))
  BY DEF FailAttempt, FailLegacy, ApplyResponse, PipelineInv, NoQueryStep
<1> QED BY <1>1, <1>2, <1>3, <1>4, <1>5, <1>6, <1>7 DEF Continue

LEMMA PaidStep ==
    ASSUME TypeOK, SubmissionInv, PipelineInv, NoQueryStep, PaidRowInv, ParentInv, PaidInv,
           RefundsAccounted, NEW p \in Handler, Begin(p) \/ Continue(p) \/ Crash(p)
    PROVE  PaidInv'
<1> USE DEF TypeOK
<1>1. ASSUME refundedTotal' < Amount, NEW q \in Handler, Paying(q)' PROVE PaidSomewhere'
  <2>1. refundedTotal < Amount BY <1>1, RefundsOnlyGrow
  <2>2. CASE Paying(q)
    <3>1. PaidSomewhere BY <2>1, <2>2 DEF PaidInv
    <3> QED BY <1>1, <3>1, PaidSomewhereStays
  <2>3. CASE ~Paying(q)
    <3>1. q = p BY <1>1, <2>3, StepMovesOne DEF OthersUnmoved, Paying
    <3>2. ApplyTransactionStatus(p) BY <1>1, <2>3, <3>1, PayingStep
    <3>3. CASE mapTransactionStatus(callback[p].message) = "completed"
      BY <3>2, <3>3, RowAfterApply DEF PaidSomewhere
    <3>4. CASE transaction.status = "completed"
      <4>1. PaidSomewhere
        BY <3>4 DEF PaidSomewhere, ParentInv, ParentReflectsAttempt, Submitted, RowsOK,
                    TransactionRow
      <4> QED BY <1>1, <4>1, PaidSomewhereStays
    <3> QED BY <1>1, <2>3, <3>1, <3>3, <3>4, PayingStep
  <2> QED BY <2>2, <2>3
<1>2. ASSUME refundedTotal' < Amount, invoice' = "paid" PROVE PaidSomewhere'
  <2>1. refundedTotal < Amount BY <1>2, RefundsOnlyGrow
  <2>2. invoice = "paid" \/ UpdateInvoiceStatus(p)
    BY <1>2
       DEF Begin, Continue, ReceiveCallback, HandleCallback, StartCancel, StartRetry,
           RefundTransaction, StartReconcile, PrecheckLegacy, ResolveTransaction,
           ResolveLegacy, FailAttempt, FailLegacy, ApplyReplay, ApplyTransactionStatus,
           DispatchPaymentEvents, CancelTransaction, CheckRetryLimit, EnsureInitialAttempt,
           CreateRetryPaymentAttempt, UnableToGenerateUniquePaymentIdentifiers,
           ApplyResponse, NoResponse, Crash
  <2>3. UpdateInvoiceStatus(p) => invoice = "paid" \/ Paying(p)
    BY <1>2 DEF UpdateInvoiceStatus, invoiceStatusOf, Paying
  <2>4. PaidSomewhere BY <2>1, <2>2, <2>3 DEF PaidInv
  <2> QED BY <1>2, <2>4, PaidSomewhereStays
<1>3. ASSUME Submitted' = {}, transaction'.status = "completed"
      PROVE  transaction'.transaction_id # Null
  <2>1. Submitted = {} /\ UNCHANGED attempts
    <3>1. CASE UNCHANGED attempts BY <1>3, <3>1 DEF Submitted
    <3>2. CASE ~UNCHANGED attempts
      <4>1. ASSUME NEW s \in Session, NEW row \in AttemptRow,
                   attempts' = [attempts EXCEPT ![s] = row]
            PROVE  FALSE
        BY <1>3, <4>1, RowWritten
      <4>2. Submitted = {} BY <1>3, SubmittedStep
      <4>3. ~(\E s \in Session : CreateRetryPaymentAttempt(p, s))
        BY <4>2 DEF CreateRetryPaymentAttempt, SubmissionInv, SessionKnown
      <4>4. ~FailAttempt(p) BY DEF FailAttempt, PipelineInv
      <4>5. ~ApplyTransactionStatus(p) BY <1>3, RowAfterApply
      <4>6. ~ApplyReplay(p)
        <5>1. SUFFICES ASSUME ApplyReplay(p) PROVE FALSE OBVIOUS
        <5>2. callback[p].session \in Session
          BY <5>1 DEF ApplyReplay, HandlersOK, CallbackStep, Callback
        <5>3. LockedAttempt(callback[p].session) \in AttemptRow
          BY <5>2, AttemptFromTransactionType DEF LockedAttempt, RowsOK
        <5> QED BY <4>1, <5>1, <5>2, <5>3 DEF ApplyReplay
      <4>7. ~EnsureInitialAttempt(p)
        <5>1. SUFFICES ASSUME EnsureInitialAttempt(p) PROVE FALSE OBVIOUS
        <5>2. held[p] \in TransactionRow
          BY <5>1 DEF EnsureInitialAttempt, HandlersOK, HoldingStep
        <5>3. /\ held[p].merchant_session \in Session
              /\ attemptFromTransaction(held[p]) \in AttemptRow
          BY <5>2, AttemptFromTransactionType DEF TransactionRow
        <5>4. attempts[held[p].merchant_session] = Null
          BY <4>2, <5>3 DEF Submitted
        <5> QED BY <4>1, <5>1, <5>3, <5>4 DEF EnsureInitialAttempt
      <4> QED BY <3>2, <4>3, <4>4, <4>5, <4>6, <4>7, AttemptWriters
    <3> QED BY <3>1, <3>2
  <2>2. ~ApplyTransactionStatus(p) BY <1>3, RowAfterApply
  <2>3. ~FailAttempt(p) /\ ~FailLegacy(p) BY DEF FailAttempt, FailLegacy, PipelineInv
  <2>4. ASSUME NEW s \in Session PROVE ~CreateRetryPaymentAttempt(p, s)
    BY <2>1 DEF CreateRetryPaymentAttempt, SubmissionInv, SessionKnown
  <2>5. \/ UNCHANGED transaction
        \/ \E amount \in 1..Amount : RefundTransaction(p, amount)
        \/ CancelTransaction(p)
    BY <2>2, <2>3, <2>4
       DEF Begin, Continue, ReceiveCallback, HandleCallback, StartCancel, StartRetry,
           StartReconcile, PrecheckLegacy, ResolveTransaction, ResolveLegacy, ApplyReplay,
           DispatchPaymentEvents, UpdateInvoiceStatus, CheckRetryLimit, EnsureInitialAttempt,
           ApplyResponse, NoQueryStep, UnableToGenerateUniquePaymentIdentifiers, NoResponse,
           Crash
  <2>6. ~CancelTransaction(p) BY <1>3 DEF CancelTransaction, RowsOK, TransactionRow
  <2>7. transaction.status = "completed" /\ transaction'.transaction_id = transaction.transaction_id
    BY <1>3, <2>5, <2>6 DEF RefundTransaction, RowsOK, TransactionRow
  <2> QED BY <2>1, <2>7 DEF PaidInv
<1> QED BY <1>1, <1>2, <1>3 DEF PaidInv

(* Whoever was told that a payment is paid was told so for good, in whatever *)
(* order callbacks, retries, refunds and crashes interleave, provided that   *)
(* every notification matches its row and reconciliation is not used.        *)
THEOREM PaidStaysPaidHolds ==
    ASSUME AllMatch, NoReconcile
    PROVE  Spec => []PaidStaysPaid
<1>1. Init => PaidRowInv /\ EventInv /\ ParentInv /\ PaidInv
  <2> SUFFICES ASSUME Init PROVE PaidRowInv /\ EventInv /\ ParentInv /\ PaidInv
    OBVIOUS
  <2>1. PaidRowInv /\ ParentInv BY InitParentInv
  <2>2. EventInv BY DEF Init, EventInv, Announcing
  <2>3. CASE NewPayment
    <3>1. transaction.status = "pending" /\ invoice # "paid" BY <2>3 DEF NewPayment
    <3> QED BY <2>1, <2>2, <3>1 DEF Init, PaidInv, Paying
  <2>4. CASE LegacyPayment
    <3>1. Submitted = {} BY <2>4 DEF LegacyPayment, Submitted
    <3>2. transaction.status = "completed" => transaction.transaction_id # Null
      BY <2>4, NullAssumption DEF LegacyPayment
    <3>3. invoice = "paid" => transaction.status = "completed"
      BY <2>4 DEF LegacyPayment, invoiceStatusOf
    <3> QED BY <2>1, <2>2, <3>1, <3>2, <3>3 DEF Init, PaidInv, PaidSomewhere, Paying
  <2> QED BY <2>3, <2>4 DEF Init
<1>2. TypeOK /\ SubmissionInv /\ PipelineInv /\ NoQueryStep /\ RefundsAccounted
        /\ PaidRowInv /\ EventInv /\ ParentInv /\ PaidInv /\ [Next]_vars
        => PaidRowInv' /\ EventInv' /\ ParentInv' /\ PaidInv'
  <2> SUFFICES ASSUME TypeOK, SubmissionInv, PipelineInv, NoQueryStep, RefundsAccounted,
                      PaidRowInv, EventInv, ParentInv, PaidInv, [Next]_vars
               PROVE  PaidRowInv' /\ EventInv' /\ ParentInv' /\ PaidInv'
    OBVIOUS
  <2>1. CASE UNCHANGED vars
    <3>1. PaidRowInv' /\ ParentInv' BY <2>1, ParentStutter
    <3>2. EventInv' BY <2>1 DEF vars, EventInv, Announcing, Submitted
    <3>3. PaidInv' BY <2>1 DEF vars, PaidInv, PaidSomewhere, Paying, Submitted
    <3> QED BY <3>1, <3>2, <3>3
  <2>2. ASSUME NEW p \in Handler, Begin(p) \/ Continue(p) \/ Crash(p)
        PROVE  PaidRowInv' /\ EventInv' /\ ParentInv' /\ PaidInv'
    BY <2>2, ParentStep, EventStep, PaidStep
  <2> QED BY <2>1, <2>2 DEF Next
<1>3. TypeOK /\ EventInv /\ PaidInv => PaidStaysPaid
  <2> SUFFICES ASSUME TypeOK, EventInv, PaidInv PROVE PaidStaysPaid OBVIOUS
  <2>1. ASSUME NEW s \in Session, completedEvents[s] > 0
        PROVE  s \in Submitted /\ attempts[s].status = "completed"
    <3>1. completedEvents[s] = 1 BY <2>1 DEF EventInv, TypeOK, RowsOK
    <3> QED BY <3>1 DEF EventInv
  <2> QED BY <2>1 DEF PaidInv, PaidSomewhere, PaidStaysPaid
<1> QED
  BY <1>1, <1>2, <1>3, NoQueryHolds, PipelineHolds, RefundsAccountedHolds, TypeCorrect, PTL
     DEF Spec
===========================================================================
