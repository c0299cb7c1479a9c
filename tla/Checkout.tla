----------------------------- MODULE Checkout -----------------------------
(***************************************************************************)
(* The payment handlers (POST /payment and /payment-intent) and the rows of *)
(* sisp_payment_intents that keep a checkout which is posted again from     *)
(* making a second payment.  A request is a chain of awaited calls; each    *)
(* action is what runs from one await to the next.  reserve() is two        *)
(* statements, an update and an insert, and not a storage transaction.      *)
(* What callbacks and cancellations do to the payment is Settle;            *)
(* PaymentLifecycle has its details.                                        *)
(***************************************************************************)
EXTENDS Naturals, FiniteSets

CONSTANTS
    Request,      \* the posts, each of which is served once
    Key,          \* idempotency keys
    NoKey,        \* no configured key in the body, or idempotency disabled
    Body,         \* request bodies, as far as paymentRequestHash tells them apart
    Legacy,       \* the payment of a row reserved before request_hash existed
    Null,         \* SQL NULL, and the absent row
    MaxAttempts,  \* config.retry.maxAttempts, at least 1
    AllowRetry,   \* config.allowRetry, with the customer data a retry needs
    Crashes       \* TRUE: a process may die, or fail() may throw

Payment == Request \cup {Legacy}
IntentStatus == {"processing", "submitted", "failed"}
PaymentStatus == {"pending", "failed", "settled"}

ASSUME NameAssumption == Legacy \notin Request /\ NoKey \notin Key
ASSUME LimitAssumption == MaxAttempts \in Nat \ {0}
ASSUME FlagsAssumption == AllowRetry \in BOOLEAN /\ Crashes \in BOOLEAN

VARIABLES
    intents,   \* the row of each key, Null when absent
    payments,  \* the transaction each request created, Null when absent
    forms,     \* the gateway forms that were answered
    pc,        \* what each request does next
    post,      \* the key and the body of each request
    linked,    \* context.transaction: the payment each request works on
    held       \* the status of that payment when it was read

vars == <<intents, payments, forms, pc, post, linked, held>>

IntentRow == [status : IntentStatus, request_hash : Body \cup {Null},
              transaction_id : Payment \cup {Null}]
PaymentRow == [key : Key \cup {NoKey}, body : Body \cup {Null},
               status : PaymentStatus, attempts : Nat]
Posted == [key : Key \cup {NoKey}, body : Body]
Charged == [payment : Payment, body : Body \cup {Null}]

ASSUME AbsentAssumption ==
    Null \notin IntentRow \cup PaymentRow \cup Posted \cup Charged \cup Payment \cup Body

---------------------------------------------------------------------------

(* The WHERE clause of reserve()'s update.                                  *)
reclaimable(row) ==
    row # Null /\ row.status = "failed" /\ row.transaction_id = Null

(* Mutant: the row is inserted as a failed one.                             *)
reservedAsFailed(body) ==
    [status |-> "failed", request_hash |-> body, transaction_id |-> Null]

reserved(body) ==
    [status |-> "processing", request_hash |-> body, transaction_id |-> Null]

(* Mutant: the hash of the body is not compared.                            *)
replayableAnyBody(row, body) == row.transaction_id # Null

(* IdempotencyKeyReusedError when the body differs, unless the row has no   *)
(* hash; PaymentIntentAlreadyProcessingError while there is no payment.     *)
replayable(row, body) ==
    row.request_hash \in {Null, body} /\ row.transaction_id # Null

(* Mutant: a failure of the pipeline is not recorded.                       *)
afterFailureNothing(r) == "done"

(* The catch around the pipeline: only a reserved key has a row to fail.    *)
afterFailure(r) == IF post[r].key = NoKey THEN "done" ELSE "fail"

retryLimitReached(p) == payments[p].attempts >= MaxAttempts

---------------------------------------------------------------------------
(* The rows an earlier release may have left for a key: failed without a    *)
(* payment, or linked to one.                                               *)
LegacyIntent ==
    {[status |-> "failed", request_hash |-> Null, transaction_id |-> Null],
     [status |-> "submitted", request_hash |-> Null, transaction_id |-> Legacy]}

Init ==
    /\ \E k \in Key, row \in LegacyIntent \cup {Null} :
         /\ intents = [x \in Key |-> IF x = k THEN row ELSE Null]
         /\ payments = [p \in Payment |->
              IF p = Legacy /\ row # Null /\ row.transaction_id = Legacy
              THEN [key |-> k, body |-> Null, status |-> "pending", attempts |-> 1]
              ELSE Null]
    /\ forms = {}
    /\ pc = [r \in Request |-> "new"]
    /\ post = [r \in Request |-> Null]
    /\ linked = [r \in Request |-> Null]
    /\ held = [r \in Request |-> Null]

GoTo(r, step) == pc' = [pc EXCEPT ![r] = step]

(* The request is answered with the gateway form of its payment.            *)
Answer(r) ==
    /\ GoTo(r, "done")
    /\ forms' = forms \cup
         {[key |-> post[r].key, body |-> post[r].body, payment |-> linked[r]]}

---------------------------------------------------------------------------
(* A validated post whose preflight (blacklist, rate limits) let it pass.   *)
Post(r, key, body) ==
    /\ pc[r] = "new"
    /\ post' = [post EXCEPT ![r] = [key |-> key, body |-> body]]
    /\ GoTo(r, IF key = NoKey THEN "persist" ELSE "reclaim")
    /\ UNCHANGED <<intents, payments, forms, linked, held>>

(* reserve(): the row of a failed post without a payment is taken over.     *)
Reclaim(r) ==
    /\ pc[r] = "reclaim"
    /\ LET k == post[r].key IN
         IF reclaimable(intents[k])
         THEN /\ intents' = [intents EXCEPT ![k] = reserved(post[r].body)]
              /\ GoTo(r, "persist")
         ELSE UNCHANGED intents /\ GoTo(r, "insert")
    /\ UNCHANGED <<payments, forms, post, linked, held>>

(* reserve(): the unique index on the key tells whether the row is new.     *)
InsertIntent(r) ==
    /\ pc[r] = "insert"
    /\ LET k == post[r].key IN
         IF intents[k] = Null
         THEN /\ intents' = [intents EXCEPT ![k] = reserved(post[r].body)]
              /\ GoTo(r, "persist")
         ELSE UNCHANGED intents /\ GoTo(r, "find")
    /\ UNCHANGED <<payments, forms, post, linked, held>>

(* PersistTransaction.persist: the transaction, its first attempt, its      *)
(* customer and its items in one storage transaction.  The invoice stub     *)
(* that follows may or may not be inserted: it is not part of this state.   *)
PersistTransaction(r) ==
    /\ pc[r] = "persist"
    /\ payments' = [payments EXCEPT ![r] =
                      [key |-> post[r].key, body |-> post[r].body,
                       status |-> "pending", attempts |-> 1]]
    /\ linked' = [linked EXCEPT ![r] = r]
    /\ GoTo(r, "metadata")
    /\ UNCHANGED <<intents, forms, post, held>>

(* The request could not be built, the storage transaction was rolled back, *)
(* or every candidate identifier collided.                                  *)
PersistFails(r) ==
    /\ pc[r] = "persist"
    /\ GoTo(r, afterFailure(r))
    /\ UNCHANGED <<intents, payments, forms, post, linked, held>>

(* CaptureRequestMetadata, the last pipe; its error fails the post.         *)
CaptureRequestMetadata(r) ==
    /\ pc[r] = "metadata"
    /\ \/ /\ post[r].key = NoKey
          /\ Answer(r)
       \/ /\ post[r].key # NoKey
          /\ GoTo(r, "submit")
          /\ UNCHANGED forms
       \/ GoTo(r, afterFailure(r)) /\ UNCHANGED forms
    /\ UNCHANGED <<intents, payments, post, linked, held>>

(* submit(): the key is linked to the payment, and the form is answered.    *)
SubmitIntent(r) ==
    /\ pc[r] \in {"submit", "resubmit"}
    /\ intents' = [intents EXCEPT ![post[r].key].status = "submitted",
                                  ![post[r].key].transaction_id = linked[r]]
    /\ Answer(r)
    /\ UNCHANGED <<payments, post, linked, held>>

(* submit() throws: only the request that reserved the key records it.      *)
SubmitFails(r) ==
    /\ \/ pc[r] = "submit" /\ GoTo(r, afterFailure(r))
       \/ pc[r] = "resubmit" /\ GoTo(r, "done")
    /\ UNCHANGED <<intents, payments, forms, post, linked, held>>

(* fail(): with the payment when there is one.                              *)
FailIntent(r) ==
    /\ pc[r] = "fail"
    /\ intents' = [intents EXCEPT ![post[r].key].status = "failed",
                                  ![post[r].key].transaction_id = linked[r]]
    /\ GoTo(r, "done")
    /\ UNCHANGED <<payments, forms, post, linked, held>>

---------------------------------------------------------------------------
(* existingPaymentContext: the key is known, its row is read.               *)
FindIntent(r) ==
    /\ pc[r] = "find"
    /\ LET row == intents[post[r].key] IN
         IF replayable(row, post[r].body)
         THEN /\ linked' = [linked EXCEPT ![r] = row.transaction_id]
              /\ GoTo(r, "load")
         ELSE UNCHANGED linked /\ GoTo(r, "done")
    /\ UNCHANGED <<intents, payments, forms, post, held>>

LoadTransaction(r) ==
    /\ pc[r] = "load"
    /\ held' = [held EXCEPT ![r] = payments[linked[r]].status]
    /\ GoTo(r, "list")
    /\ UNCHANGED <<intents, payments, forms, post, linked>>

(* The attempts are listed and the record read before decides: refused at   *)
(* the limit, retried, or answered with the stored form, if it can be read. *)
ListAttempts(r) ==
    /\ pc[r] = "list"
    /\ IF held[r] = "failed" /\ retryLimitReached(linked[r])
       THEN GoTo(r, "done")
       ELSE IF held[r] = "failed" /\ AllowRetry
       THEN GoTo(r, "retry")
       ELSE GoTo(r, "resubmit") \/ GoTo(r, "done")
    /\ UNCHANGED <<intents, payments, forms, post, linked, held>>

(* CreateRetryPaymentAttemptAction counts the attempts again.               *)
CheckRetryLimit(r) ==
    /\ pc[r] = "retry"
    /\ GoTo(r, IF retryLimitReached(linked[r]) THEN "done" ELSE "createAttempt")
    /\ UNCHANGED <<intents, payments, forms, post, linked, held>>

(* Its storage transaction, or the error of exhausted candidates.           *)
CreateRetryPaymentAttempt(r) ==
    /\ pc[r] = "createAttempt"
    /\ \/ /\ payments' = [payments EXCEPT ![linked[r]].status = "pending",
                                          ![linked[r]].attempts = @ + 1]
          /\ GoTo(r, "resubmit")
       \/ UNCHANGED payments /\ GoTo(r, "done")
    /\ UNCHANGED <<intents, forms, post, linked, held>>

---------------------------------------------------------------------------
(* A callback, a cancellation or a reconciliation moves a payment.          *)
Settle(p, status) ==
    /\ payments[p] # Null
    /\ payments[p].status \in {"pending", "failed"}
    /\ payments' = [payments EXCEPT ![p].status = status]
    /\ UNCHANGED <<intents, forms, pc, post, linked, held>>

Working(r) == pc[r] \notin {"new", "done", "dead"}

Crash(r) ==
    /\ Crashes
    /\ Working(r)
    /\ GoTo(r, "dead")
    /\ UNCHANGED <<intents, payments, forms, post, linked, held>>

Serve(r) ==
    \/ Reclaim(r)
    \/ InsertIntent(r)
    \/ PersistTransaction(r)
    \/ PersistFails(r)
    \/ CaptureRequestMetadata(r)
    \/ SubmitIntent(r)
    \/ SubmitFails(r)
    \/ FailIntent(r)
    \/ FindIntent(r)
    \/ LoadTransaction(r)
    \/ ListAttempts(r)
    \/ CheckRetryLimit(r)
    \/ CreateRetryPaymentAttempt(r)

Next ==
    \/ \E r \in Request :
         \/ \E k \in Key \cup {NoKey}, b \in Body : Post(r, k, b)
         \/ Serve(r)
         \/ Crash(r)
    \/ \E p \in Payment, status \in {"failed", "settled"} : Settle(p, status)

Spec == Init /\ [][Next]_vars

---------------------------------------------------------------------------
Step == {"new", "reclaim", "insert", "persist", "metadata",
         "submit", "fail", "find", "load", "list", "retry", "createAttempt",
         "resubmit", "done", "dead"}
LinkedStep == {"metadata", "submit", "load", "list", "retry",
               "createAttempt", "resubmit"}
Form == [key : Key \cup {NoKey}, body : Body, payment : Payment]

(* The rows keep their columns' types, and a request that works on a        *)
(* payment has one that exists.                                             *)
TypeOK ==
    /\ intents \in [Key -> IntentRow \cup {Null}]
    /\ payments \in [Payment -> PaymentRow \cup {Null}]
    /\ forms \in SUBSET Form
    /\ pc \in [Request -> Step]
    /\ post \in [Request -> Posted \cup {Null}]
    /\ linked \in [Request -> Payment \cup {Null}]
    /\ held \in [Request -> PaymentStatus \cup {Null}]
    /\ \A r \in Request : Working(r) => post[r] # Null
    /\ \A r \in Request :
         pc[r] \in LinkedStep => linked[r] # Null /\ payments[linked[r]] # Null

(* However often, with whatever bodies and however concurrently a checkout  *)
(* is posted under one key, and whichever of the requests fail or die, at   *)
(* most one payment is created for the key (reserve(), submit(), fail()).   *)
OnePaymentPerKey ==
    \A p, q \in Payment :
      /\ payments[p] # Null /\ payments[q] # Null
      /\ payments[p].key = payments[q].key /\ payments[p].key # NoKey
      => p = q

(* A form that was answered for a key is a form of the payment of that key, *)
(* and that payment was created from the same body; only a payment of an    *)
(* earlier release has no body to compare (IdempotencyKeyReusedError).      *)
FormsMatchTheirPost ==
    \A f \in forms :
      /\ payments[f.payment] # Null
      /\ payments[f.payment].key = f.key
      /\ payments[f.payment].body \in {f.body, Null}

(* A key that is linked to a payment stays linked to it: neither a late     *)
(* fail() nor a reservation takes the link away (payment-intent.ts).        *)
LinkNeverMoves ==
    [][ \A k \in Key :
          intents[k] # Null /\ intents[k].transaction_id # Null
          => /\ intents'[k] # Null
             /\ intents'[k].transaction_id = intents[k].transaction_id ]_vars

(* What the handlers implement: the payment made for each key.              *)
PaymentsOf(k) == {p \in Payment : payments[p] # Null /\ payments[p].key = k}

charged ==
    [k \in Key |->
       IF PaymentsOf(k) = {} THEN Null
       ELSE LET p == CHOOSE p \in PaymentsOf(k) : TRUE
            IN [payment |-> p, body |-> payments[p].body]]

Contract == INSTANCE CheckoutContract
              WITH answered <- {f \in forms : f.key \in Key}

(* The handlers implement the contract of the idempotency key: a key is     *)
(* charged once and answered with that payment only (docs/11-idempotency.md,*)
(* payment-context-resolver.ts).                                            *)
ImplementsContract == Contract!Spec

Processing(k) == intents[k] # Null /\ intents[k].status = "processing"

Owner(r, k) ==
    /\ pc[r] \in {"persist", "metadata", "submit", "fail"}
    /\ post[r].key = k

(* A reserved key is being served: unless a process died, the request that  *)
(* reserved it is still on its way to submit() or fail(), so the key does   *)
(* not answer 409 for ever (payment-context-resolver.ts).                   *)
ReservationIsServed ==
    \A k \in Key :
      Processing(k) => \E r \in Request : Owner(r, k) \/ pc[r] = "dead"

===========================================================================
