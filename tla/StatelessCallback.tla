------------------------- MODULE StatelessCallback -------------------------
(***************************************************************************)
(* createStatelessSisp: payments without tables of the package's own.  The *)
(* merchant keeps a correlation store; a callback claims the payment it     *)
(* names, is matched against what was recorded, and its outcome is written  *)
(* back.  Payments are named by their merchantRef and merchantSession.  An  *)
(* action is what runs up to an await, or what the store does in one call;  *)
(* a process may die between the two.                                       *)
(***************************************************************************)
EXTENDS FiniteSets

CONSTANTS
    Post,       \* the posts to /payment, each naming the pair it generates
    Call,       \* the requests to /callback, each served once
    Stranger,   \* a pair that no post of this store generated
    Payload,    \* the callbacks the gateway, or anybody else, may send
    Expected,   \* what a post asks for, and what a resolver may answer
    OwnPosId,   \* credentials.posId
    Unparsable, \* an amount that toThousandths refuses
    Absent,     \* a field that is not sent
    Null,       \* null, and a row that is not there
    Crashes     \* TRUE: a process may die

Pair == Post \cup {Stranger}
Reason == {"invalid_callback_fingerprint", "callback_details_mismatch", "callback_replayed",
           "unknown_transaction", "expected_payment_missing", "user_cancelled"}
TransactionStatus == {"pending", "completed", "failed", "cancelled", "refunded"}

ASSUME NameAssumption == Stranger \notin Post /\ Post \cap Call = {}
ASSUME PayloadAssumption == \A payload \in Payload : payload.pair \in Pair
ASSUME FlagAssumption == Crashes \in BOOLEAN

VARIABLES
    config,   \* what is configured: correlation, expectedPayment, appKey
    rows,     \* the correlation store
    form,     \* the payments whose gateway form was answered
    pc,       \* what each post and each call does next
    request,  \* the payload of each call, with what handleCallback was given
    claim,    \* what the store, or the resolver, answered each call
    outcome,  \* context.toOutcome() of each call
    event,    \* the callback:* event each call emitted
    response  \* what each call was answered

vars == <<config, rows, form, pc, request, claim, outcome, event, response>>

Outcome == [status : TransactionStatus \cup {Null}, reason : Reason \cup {Null}]
Row == [expected : Expected, claimed : BOOLEAN, outcome : Outcome \cup {Null}]

(* What handleCallback was called with, or the payment a cancellation names.*)
CallbackRequest == [payload : Payload, provided : Expected \cup {Null}]
CancelRequest == [cancels : Pair]

(* What the store, or the resolver, answers.                                *)
CorrelationClaim == [status : {"missing", "already_processed", "none"}]
                      \cup [status : {"claimed"}, payment : Expected]

CallbackEvent == [name : {"callback:verified", "callback:rejected"},
                  status : TransactionStatus \cup {Null}, reason : Reason \cup {Null}]

(* null is none of these.                                                   *)
ASSUME NullAssumption ==
    /\ Null \notin Reason /\ Null \notin Expected /\ Null \notin Outcome /\ Null \notin Row
    /\ Null \notin CallbackRequest /\ Null \notin CancelRequest
    /\ Null \notin CorrelationClaim /\ Null \notin CallbackEvent

---------------------------------------------------------------------------
(* The statuses of message types: "8" stands for every success type, "6" is *)
(* the error type, anything else is neither.                                *)
mapTransactionStatus(messageType) ==
    CASE messageType = "8" -> "completed"
      [] messageType = "6" -> "failed"
      [] OTHER -> "pending"

(* toThousandths(payload.amount): callbackPayloadFrom makes an amount that  *)
(* is not sent 0.  The error fingerprint does not cover the amount.         *)
validateCallbackFingerprint(payload) ==
    payload.signed /\ (payload.messageType # "6" => payload.amount # Unparsable)

(* Mutant: the sent amount is not compared.                                 *)
matchesAnyAmount(expected, payload) ==
    /\ payload.currency = Absent \/ expected.currency \in {Absent, payload.currency}
    /\ payload.transactionCode = Absent
         \/ expected.transactionCode \in {Absent, payload.transactionCode}
    /\ payload.posID \in {Absent, OwnPosId}

(* matches(): every field that was sent agrees, where one is expected.      *)
matches(expected, payload) ==
    /\ expected.amount # Unparsable
    /\ payload.amount \in {Absent, expected.amount}
    /\ payload.currency = Absent \/ expected.currency \in {Absent, payload.currency}
    /\ payload.transactionCode = Absent
         \/ expected.transactionCode \in {Absent, payload.transactionCode}
    /\ payload.posID \in {Absent, OwnPosId}

(* toThousandths(payload.amount) throws in matches().                       *)
matchingThrows(expected, payload) ==
    expected.amount # Unparsable /\ payload.amount = Unparsable

(* A rejected outcome has no status.                                        *)
toOutcome(payload, reason) ==
    [status |-> IF reason = Null THEN mapTransactionStatus(payload.messageType) ELSE Null,
     reason |-> reason]

Matched(expected, payload) ==
    toOutcome(payload, IF matches(expected, payload) THEN Null
                       ELSE "callback_details_mismatch")

cancelledOutcome == [status |-> "cancelled", reason |-> "user_cancelled"]

structuredErrorFrom(payload) == IF payload.messageType = "6" THEN "all fields" ELSE Null

statelessResultData(payload, result) ==
    [pair |-> payload.pair, verified |-> result.reason = Null,
     status |-> result.status, reason |-> result.reason,
     error |-> IF result.reason = Null THEN structuredErrorFrom(payload) ELSE Null]

(* The parameters of the signed URL: of an error, the code and the message  *)
(* for the customer.                                                        *)
signStatelessResult(data) ==
    [ref |-> data.pair, verified |-> IF data.verified THEN "1" ELSE "0",
     status |-> IF data.status = Null THEN Absent ELSE data.status,
     reason |-> IF data.reason = Null THEN Absent ELSE data.reason,
     hasError |-> IF data.error = Null THEN "0" ELSE "1"]

(* What a GET with a valid signature answers.                               *)
readStatelessResult(query) ==
    IF query.reason \notin Reason \cup {Absent} \/ query.status \notin TransactionStatus \cup {Absent}
    THEN Null
    ELSE [pair |-> query.ref, verified |-> query.verified = "1",
          status |-> IF query.status = Absent THEN Null ELSE query.status,
          reason |-> IF query.reason = Absent THEN Null ELSE query.reason,
          error |-> IF query.hasError = "1" THEN "customer fields" ELSE Null]

(* Mutant: a claimed pair is claimed again.                                 *)
claimAnswerAgain(pair) ==
    IF rows[pair] = Null THEN [status |-> "missing"]
    ELSE [status |-> "claimed", payment |-> rows[pair].expected]

(* What claim() answers.                                                    *)
claimAnswer(pair) ==
    IF rows[pair] = Null THEN [status |-> "missing"]
    ELSE IF rows[pair].claimed THEN [status |-> "already_processed"]
    ELSE [status |-> "claimed", payment |-> rows[pair].expected]

(* The reason a claim that was not granted is rejected for.                 *)
claimRejection(answer) ==
    IF answer.status = "missing" THEN "unknown_transaction" ELSE "callback_replayed"

---------------------------------------------------------------------------
Init ==
    /\ config \in [correlation : BOOLEAN, expectedPayment : BOOLEAN, appKey : BOOLEAN]
    /\ rows = [p \in Pair |-> Null]
    /\ form = {}
    /\ pc = [x \in Post \cup Call |-> "new"]
    /\ request = [c \in Call |-> Null]
    /\ claim = [c \in Call |-> Null]
    /\ outcome = [c \in Call |-> Null]
    /\ event = [c \in Call |-> Null]
    /\ response = [c \in Call |-> Null]

GoTo(x, step) == pc' = [pc EXCEPT ![x] = step]

(* prepare(): CorrelationRequiredError, 422, or a request to be recorded.   *)
Prepare(p) ==
    /\ pc[p] = "new"
    /\ \/ config.correlation /\ GoTo(p, "record")
       \/ GoTo(p, "done")
    /\ UNCHANGED <<config, rows, form, request, claim, outcome, event, response>>

(* correlation.record(): the store inserts the row.                         *)
Record(p) ==
    /\ pc[p] = "record"
    /\ \E e \in Expected :
         /\ e.amount # Unparsable
         /\ rows' = [rows EXCEPT ![p] = [expected |-> e, claimed |-> FALSE, outcome |-> Null]]
    /\ GoTo(p, "recorded")
    /\ UNCHANGED <<config, form, request, claim, outcome, event, response>>

(* handlePayment and handlePaymentIntent answer the gateway form.           *)
AnswerForm(p) ==
    /\ pc[p] = "recorded"
    /\ form' = form \cup {p}
    /\ GoTo(p, "done")
    /\ UNCHANGED <<config, rows, request, claim, outcome, event, response>>

---------------------------------------------------------------------------
(* respondWithOutcome: JSON, or a redirect to the signed result.             *)
Respond(c, payload, result) ==
    /\ response' = [response EXCEPT ![c] =
         LET data == statelessResultData(payload, result) IN
           IF config.appKey THEN [kind |-> "redirect", query |-> signStatelessResult(data)]
                            ELSE [kind |-> "json", data |-> data]]

(* verify(), after the pipeline: the event, then respondWithOutcome.        *)
Conclude(c, payload, result) ==
    /\ event' = [event EXCEPT ![c] =
         [name |-> IF result.reason = Null THEN "callback:verified" ELSE "callback:rejected",
          status |-> result.status, reason |-> result.reason]]
    /\ Respond(c, payload, result)
    /\ GoTo(c, "answered")

(* POST /callback, or handleCallback with an expected payment, up to the    *)
(* first await of the pipes; a correlation store makes nothing of what is   *)
(* provided.  The gateway only signs payments whose form it was sent, and   *)
(* those of strangers with the same credentials.                            *)
ReceiveCallback(c, payload, provided) ==
    /\ pc[c] = "new"
    /\ config.correlation => provided = Null
    /\ payload.signed => payload.pair \in form \cup {Stranger} \/ ~config.correlation
    /\ request' = [request EXCEPT ![c] = [payload |-> payload, provided |-> provided]]
    /\ \/ /\ ~validateCallbackFingerprint(payload)
          /\ outcome' = [outcome EXCEPT ![c] = toOutcome(payload, "invalid_callback_fingerprint")]
          /\ Conclude(c, payload, outcome'[c])
       \/ /\ validateCallbackFingerprint(payload)
          /\ GoTo(c, IF config.correlation THEN "claim"
                     ELSE IF provided # Null THEN "match" ELSE "resolve")
          /\ UNCHANGED <<outcome, event, response>>
    /\ claim' = [claim EXCEPT ![c] =
         IF ~config.correlation /\ provided # Null
         THEN [status |-> "claimed", payment |-> provided] ELSE Null]
    /\ UNCHANGED <<config, rows, form>>

(* A request that carries UserCancelled, from anybody.                      *)
ReceiveCancel(c, pair) ==
    /\ pc[c] = "new"
    /\ request' = [request EXCEPT ![c] = [cancels |-> pair]]
    /\ GoTo(c, IF config.correlation THEN "claim" ELSE "cancelled")
    /\ UNCHANGED <<config, rows, form, claim, outcome, event, response>>

Cancels(c) == request[c] # Null /\ "cancels" \in DOMAIN request[c]
PairOf(c) == IF Cancels(c) THEN request[c].cancels ELSE request[c].payload.pair

(* correlation.claim(): one statement of the store.                         *)
Claim(c) ==
    /\ pc[c] = "claim"
    /\ LET answer == claimAnswer(PairOf(c)) IN
         /\ claim' = [claim EXCEPT ![c] = answer]
         /\ rows' = IF answer.status = "claimed"
                    THEN [rows EXCEPT ![PairOf(c)].claimed = TRUE] ELSE rows
    /\ GoTo(c, IF Cancels(c) THEN "emit" ELSE "match")
    /\ UNCHANGED <<config, form, request, outcome, event, response>>

(* The merchant's expectedPayment resolver, when there is one.              *)
ResolveExpected(c) ==
    /\ pc[c] = "resolve"
    /\ \E e \in Expected \cup {Null} :
         /\ config.expectedPayment \/ e = Null
         /\ claim' = [claim EXCEPT ![c] =
              IF e = Null THEN [status |-> "none"] ELSE [status |-> "claimed", payment |-> e]]
    /\ GoTo(c, "match")
    /\ UNCHANGED <<config, rows, form, request, outcome, event, response>>

(* MatchExpectedPayment after its await, when nothing was expected or the   *)
(* claim was not granted: it does not write to the store.                   *)
RejectClaim(c) ==
    /\ pc[c] = "match" /\ claim[c].status # "claimed"
    /\ LET payload == request[c].payload IN
         outcome' = [outcome EXCEPT ![c] =
           IF config.correlation THEN toOutcome(payload, claimRejection(claim[c]))
           ELSE toOutcome(payload,
                  IF mapTransactionStatus(payload.messageType) = "completed"
                  THEN "expected_payment_missing" ELSE Null)]
    /\ Conclude(c, request[c].payload, outcome'[c])
    /\ UNCHANGED <<config, rows, form, request, claim>>

(* MatchExpectedPayment compares the payload with what was expected.  When  *)
(* that throws the call is answered with an error, and nothing else is done.*)
MatchExpected(c) ==
    /\ pc[c] = "match" /\ claim[c].status = "claimed"
    /\ LET payload == request[c].payload
           expected == claim[c].payment
           result == Matched(expected, payload) IN
         \/ /\ matchingThrows(expected, payload)
            /\ GoTo(c, "threw")
            /\ UNCHANGED <<outcome, event, response>>
         \/ /\ ~matchingThrows(expected, payload)
            /\ outcome' = [outcome EXCEPT ![c] = result]
            /\ IF config.correlation
               THEN GoTo(c, "mark") /\ UNCHANGED <<event, response>>
               ELSE Conclude(c, payload, result)
    /\ UNCHANGED <<config, rows, form, request, claim>>

(* Mutant: a cancellation is announced and written whatever claim answered. *)
EmitCancelledAnyway(c) ==
    /\ pc[c] = "emit" /\ rows[PairOf(c)] # Null
    /\ event' = [event EXCEPT ![c] = [name |-> "callback:rejected",
                    status |-> cancelledOutcome.status, reason |-> cancelledOutcome.reason]]
    /\ outcome' = [outcome EXCEPT ![c] = cancelledOutcome]
    /\ GoTo(c, "mark")
    /\ UNCHANGED <<config, rows, form, request, claim, response>>

(* Mutant: the cancellation is not announced.                               *)
EmitCancelledSilently(c) ==
    /\ pc[c] = "emit"
    /\ outcome' = [outcome EXCEPT ![c] = cancelledOutcome]
    /\ GoTo(c, IF claim[c].status = "claimed" THEN "mark" ELSE "cancelled")
    /\ UNCHANGED <<config, rows, form, request, claim, event, response>>

(* rejectCancelled after its claim: the event comes before the store.       *)
EmitCancelled(c) ==
    /\ pc[c] = "emit"
    /\ IF claim[c].status = "claimed"
       THEN /\ event' = [event EXCEPT ![c] = [name |-> "callback:rejected",
                           status |-> cancelledOutcome.status, reason |-> cancelledOutcome.reason]]
            /\ outcome' = [outcome EXCEPT ![c] = cancelledOutcome]
            /\ GoTo(c, "mark")
       ELSE GoTo(c, "cancelled") /\ UNCHANGED <<event, outcome>>
    /\ UNCHANGED <<config, rows, form, request, claim, response>>

(* correlation.markProcessed().                                             *)
MarkProcessed(c) ==
    /\ pc[c] = "mark"
    /\ rows' = [rows EXCEPT ![PairOf(c)].outcome = outcome[c]]
    /\ GoTo(c, IF Cancels(c) THEN "cancelled" ELSE "marked")
    /\ UNCHANGED <<config, form, request, claim, outcome, event, response>>

(* The verifier after the pipeline that wrote the outcome.                  *)
EmitVerdict(c) ==
    /\ pc[c] = "marked"
    /\ Conclude(c, request[c].payload, outcome[c])
    /\ UNCHANGED <<config, rows, form, request, claim, outcome>>

(* rejectCancelled answers a redirect to redirectUrl.                       *)
RedirectCancelled(c) ==
    /\ pc[c] = "cancelled"
    /\ response' = [response EXCEPT ![c] = [kind |-> "redirectUrl"]]
    /\ GoTo(c, "answered")
    /\ UNCHANGED <<config, rows, form, request, claim, outcome, event>>

(* GET /callback: a browser follows the signed URL another call was         *)
(* answered with, in time and unchanged, or it asks with anything else.     *)
ReadResult(c) ==
    /\ pc[c] = "new"
    /\ \E page \in {Null} \cup {readStatelessResult(response[d].query) :
                         d \in {x \in Call : response[x] # Null /\ response[x].kind = "redirect"}} :
         response' = [response EXCEPT ![c] =
           IF page = Null \/ ~config.appKey THEN [kind |-> "redirectUrl"]
           ELSE [kind |-> "page", data |-> page]]
    /\ GoTo(c, "answered")
    /\ UNCHANGED <<config, rows, form, request, claim, outcome, event>>

(* The process dies, or the store throws after it has done its work.        *)
Die(x) ==
    /\ Crashes
    /\ pc[x] \notin {"new", "done", "answered", "threw", "dead"}
    /\ GoTo(x, "dead")
    /\ UNCHANGED <<config, rows, form, request, claim, outcome, event, response>>

---------------------------------------------------------------------------
Serve(p) == Prepare(p) \/ Record(p) \/ AnswerForm(p)

Continue(c) ==
    \/ Claim(c) \/ ResolveExpected(c) \/ RejectClaim(c) \/ MatchExpected(c)
    \/ EmitCancelled(c) \/ MarkProcessed(c) \/ EmitVerdict(c) \/ RedirectCancelled(c)

Receive(c) ==
    \/ \E payload \in Payload, provided \in Expected \cup {Null} :
         ReceiveCallback(c, payload, provided)
    \/ \E pair \in Pair : ReceiveCancel(c, pair)
    \/ ReadResult(c)

Next ==
    \/ \E p \in Post : Serve(p)
    \/ \E c \in Call : Receive(c) \/ Continue(c)
    \/ \E x \in Post \cup Call : Die(x)

Spec == Init /\ [][Next]_vars
FairSpec == Spec /\ \A c \in Call : WF_vars(Continue(c))

---------------------------------------------------------------------------
(* The store, and everything a call remembers, keeps its type; a call that  *)
(* was not served yet remembers nothing.                                    *)
TypeOK ==
    /\ config \in [correlation : BOOLEAN, expectedPayment : BOOLEAN, appKey : BOOLEAN]
    /\ rows \in [Pair -> Row \cup {Null}]
    /\ form \subseteq Post
    /\ pc \in [Post \cup Call -> {"new", "record", "recorded", "done", "claim", "resolve", "match",
                 "emit", "mark", "marked", "cancelled", "answered", "threw", "dead"}]
    /\ request \in [Call -> CallbackRequest \cup CancelRequest \cup {Null}]
    /\ claim \in [Call -> CorrelationClaim \cup {Null}]
    /\ outcome \in [Call -> Outcome \cup {Null}]
    /\ event \in [Call -> CallbackEvent \cup {Null}]
    /\ DOMAIN response = Call
    /\ \A c \in Call : pc[c] = "new" =>
         request[c] = Null /\ claim[c] = Null /\ outcome[c] = Null /\ event[c] = Null

Holds(c) == config.correlation /\ claim[c] # Null /\ claim[c].status = "claimed"

(* A verdict: not a rejection that left the payment as it was.              *)
Verdict(c) == event[c] # Null /\ event[c].reason \in {Null, "callback_details_mismatch", "user_cancelled"}

(* With a correlation store a payment is decided once: of all the callbacks *)
(* and cancellations that name it, repeated and concurrent, one at most is  *)
(* announced as verified, as a mismatch or as cancelled.                    *)
OneVerdictPerPayment ==
    config.correlation =>
      \A c, d \in Call : Verdict(c) /\ Verdict(d) /\ PairOf(c) = PairOf(d) => c = d

(* A merchant who fulfils an order when callback:verified says completed    *)
(* was told so by the gateway, for the amount that payment asked for.       *)
CompletedWasExpected ==
    \A c \in Call : event[c] # Null /\ event[c].name = "callback:verified"
                       /\ event[c].status = "completed" =>
      LET payload == request[c].payload IN
        /\ payload.signed
        /\ payload.amount \in {Absent, claim[c].payment.amount}
        /\ config.correlation => /\ rows[payload.pair] # Null
                                 /\ rows[payload.pair].expected = claim[c].payment

(* What listeners heard is what the store keeps: nobody writes another      *)
(* outcome over the one announced, and of a cancellation, which is          *)
(* announced first, the store knows the same or nothing yet.                *)
OutcomeIsTheVerdict ==
    \A c \in Call : Holds(c) /\ event[c] # Null =>
      LET kept == rows[PairOf(c)].outcome IN
        \/ kept = [status |-> event[c].status, reason |-> event[c].reason]
        \/ kept = Null /\ Cancels(c)

(* A genuine callback with the details that were recorded.                  *)
Genuine(c, p) ==
    /\ config.correlation /\ pc[c] # "new" /\ request[c] # Null /\ ~Cancels(c) /\ PairOf(c) = p
    /\ validateCallbackFingerprint(request[c].payload)
    /\ rows[p] # Null /\ matches(rows[p].expected, request[c].payload)

(* No genuine callback is lost: the payment it names is decided, by this or *)
(* by another request, unless a process died or matching threw.             *)
GenuineCallbackIsHeard ==
    \A p \in Post :
      (\E c \in Call : Genuine(c, p)) ~>
        \/ \E d \in Call : request[d] # Null /\ PairOf(d) = p /\ Verdict(d)
        \/ \E d \in Call : pc[d] \in {"dead", "threw"}

============================================================================
