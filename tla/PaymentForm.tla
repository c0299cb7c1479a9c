----------------------------- MODULE PaymentForm -----------------------------
(***************************************************************************)
(* The amounts and fields of one payment on their way through the code:    *)
(* the body a shop posts, the checks on it, the form that is signed, the   *)
(* rows that are stored, the gateway's answer to the form, the form a      *)
(* retry builds back from the rows, and the refund requests.  The same     *)
(* money is a decimal in the body and in the forms, cents in the rows and  *)
(* thousandths in a signature.  The gateway is the sandbox's; when answers *)
(* arrive late or twice is the matter of PaymentLifecycle.                 *)
(*                                                                         *)
(* Texts are abstracted to what the code tells apart.  A signature is the  *)
(* tuple of what is signed.                                                *)
(***************************************************************************)
EXTENDS Integers, Sequences, SequencesExt

CONSTANTS
    Bodies,             \* the bodies that may be posted
    Decimals,           \* the amounts a caller may ask to refund
    None,               \* what is absent
    Currency,           \* the configured currency
    CurrencyLists,      \* the lists of currencies a configuration may allow
    DefaultMaxAmount,   \* DEFAULT_MAX_PAYMENT_AMOUNT, in cents
    SmallMaxAmount,     \* another maximum that may be configured; 0 stands for none
    Allowances,         \* the sets of fields a configuration may let clients supply
    FixedDigits,        \* the digits that toFixed keeps: 10 in the code
    MaxThousandths,     \* MAX_SAFE_THOUSANDTHS
    MaxRetries,         \* bound: retries of the payment
    MaxRefunds          \* bound: refunds of the payment

ASSUME BoundsAssumption ==
    /\ MaxRetries \in Nat /\ MaxRefunds \in Nat
    /\ DefaultMaxAmount \in Nat \ {0} /\ SmallMaxAmount \in Nat
ASSUME NoneAssumption ==
    None \notin Int \cup {Currency, "generated", "configured", "now", "fallback", "text", ""}
\* Amounts are decimals.  (The prover knows nothing of powers, so what scale is worth is stated.)
ASSUME AmountAssumption ==
    /\ FixedDigits \in Nat /\ FixedDigits >= 3 /\ 10 ^ FixedDigits \in Nat \ {0}
    /\ \A d \in Decimals \cup ({b.amount : b \in Bodies} \ {None}) :
        /\ d.n \in Int /\ d.scale \in Nat /\ 10 ^ d.scale \in Nat \ {0}
        /\ d.scale > FixedDigits =>
               /\ 10 ^ (d.scale - FixedDigits) \in Nat \ {0}
               /\ 10 ^ d.scale = 10 ^ FixedDigits * 10 ^ (d.scale - FixedDigits)
\* What a body may charge is within the range of the conversions.
ASSUME RangeAssumption ==
    /\ MaxThousandths \in Nat
    /\ 10 * DefaultMaxAmount <= MaxThousandths /\ 10 * SmallMaxAmount <= MaxThousandths

VARIABLES
    settings,   \* the configuration
    phase,      \* how far the payment is
    body,       \* what was posted
    form,       \* the payment request that was last rendered
    first,      \* the one rendered first
    row,        \* the row of the payment
    items,      \* the rows of its items
    sessions,   \* the merchant sessions used so far, in order
    refunds     \* the history of refunds in the payload

vars == <<settings, phase, body, form, first, row, items, sessions, refunds>>

----------------------------------------------------------------------------
(* Amounts.  A decimal is n / 10^scale with the digits it was written with;*)
(* a JSON number has no trailing zeros.  What is converted here is always  *)
(* a number (paymentRequestDataFrom, parseDecimalAmount), or has no digits *)
(* beyond the second.                                                      *)

Abs(x) == IF x < 0 THEN -x ELSE x
Sign(x) == IF x < 0 THEN -1 ELSE 1

\* toFixed: a number of more digits is rounded, half away from zero.
decimalString(d) ==
    IF d.scale <= FixedDigits THEN d
    ELSE LET unit == 10 ^ (d.scale - FixedDigits) IN
         [n |-> Sign(d.n) * ((2 * Abs(d.n) + unit) \div (2 * unit)), scale |-> FixedDigits]

\* Mutant: the digits beyond the third are cut off.
decimalStringToThousandthsCut(d) ==
    Sign(d.n) * ((Abs(d.n) * 10000) \div (10 ^ d.scale * 10))

\* The fourth digit rounds, those after it are ignored.
decimalStringToThousandths(d) ==
    LET tenths == (Abs(d.n) * 10000) \div 10 ^ d.scale IN
    Sign(d.n) * (tenths \div 10 + (IF tenths % 10 >= 5 THEN 1 ELSE 0))

toThousandths(d) == decimalStringToThousandths(decimalString(d))

\* Beyond it the conversion throws a RangeError.
InRange(d) == Abs(toThousandths(d)) <= MaxThousandths

\* Half a cent is rounded away from zero.
phpRound(thousandths) == Sign(thousandths) * ((Abs(thousandths) + 5) \div 10)
toCents(d) == phpRound(toThousandths(d))
fromCents(cents) == [n |-> cents, scale |-> 2]

\* At most two decimals and no sign; what does not parse is None.
parseDecimalAmount(d) == IF d # None /\ d.scale <= 2 /\ d.n >= 0 THEN d ELSE None

minorUnits(d) == IF parseDecimalAmount(d) = None THEN 0 ELSE toCents(d)

----------------------------------------------------------------------------
(* validatePaymentInput                                                    *)

positiveNumber(value, fallback) == IF value # None /\ value > 0 THEN value ELSE fallback
maxAmount == positiveNumber(settings.maxAmount, DefaultMaxAmount)

validateAmount(b) ==
    LET value == parseDecimalAmount(b.amount) IN
    value # None /\ toCents(value) >= 1 /\ toCents(value) <= maxAmount

\* An absent or empty currency passes.
validateCurrency(b) == b.currency \in {None, ""} \cup settings.currencies

ClientControlled == {"merchantRef", "merchantSession", "timeStamp", "transactionCode"}

\* Fields a client may not supply, not even empty, unless the configuration lets it.
validateClientControlledFields(b) ==
    \A f \in ClientControlled : b.supplied[f] # None => f \in settings.allowed

validateItem(item) ==
    /\ item.named
    /\ item.quantity # None /\ item.quantity >= 1
    /\ \A price \in {item.unit_price, item.total_price} :
        parseDecimalAmount(price) # None /\ toCents(price) <= maxAmount

validateItems(b) == b.items # <<>> /\ \A i \in DOMAIN b.items : validateItem(b.items[i])

validateCustomerFields(b) == b.customer.email \in {None, "text"}

Total(prices) == FoldSeq(LAMBDA x, sum : x + sum, 0, prices)

\* Mutant: the lines are not multiplied out.
validateTotalsOfLines(b) ==
    minorUnits(b.amount) = Total([i \in DOMAIN b.items |-> minorUnits(b.items[i].total_price)])

\* Every line is quantity times unit price, and the lines make up the amount.
validateTotals(b) ==
    /\ \A i \in DOMAIN b.items :
        minorUnits(b.items[i].total_price) = b.items[i].quantity * minorUnits(b.items[i].unit_price)
    /\ minorUnits(b.amount) = Total([i \in DOMAIN b.items |-> minorUnits(b.items[i].total_price)])

\* The totals are only looked at when nothing else is wrong.
validatePaymentInput(b) ==
    /\ validateAmount(b) /\ validateCurrency(b) /\ validateClientControlledFields(b)
    /\ validateItems(b) /\ validateCustomerFields(b)
    /\ validateTotals(b)

----------------------------------------------------------------------------
(* Building a form.  A field of the customer is absent (None), "", "text", *)
(* a "number" of the JSON body, or "unlisted": the text of no country.  A  *)
(* session is a number: 0 is the client's, EmptySession its empty text,    *)
(* the others are generated.                                               *)

CustomerFields == {"email", "country", "city", "address", "postalCode"}
EmptySession == -1

ClientSession(text) == IF text = None THEN None ELSE IF text = "" THEN EmptySession ELSE 0

\* What a request takes from the body: numbers become text, nothing else changes.
paymentRequestDataFrom(b) ==
    [amount |-> b.amount,
     merchantRef |-> b.supplied.merchantRef,
     merchantSession |-> ClientSession(b.supplied.merchantSession),
     timeStamp |-> b.supplied.timeStamp,
     transactionCode |-> b.supplied.transactionCode,
     currency |-> b.currency,
     customer |-> b.customer]

\* What the setters of the library's builder were given.
toData(b) == paymentRequestDataFrom(b)

missingThreeDSecureFields(data) == {f \in CustomerFields : data.customer[f] = None}

\* Only the text of a listed country has a numeric code.
Supported(country) == country = "text"

CanBuild(data) ==
    settings.is3DSec => missingThreeDSecureFields(data) = {} /\ Supported(data.customer.country)

OrElse(value, fallback) == IF value = None THEN fallback ELSE value

\* The fields a payment request signs, the amount in thousandths.
generatePaymentFingerprint(request) ==
    <<request.timeStamp, toThousandths(request.amount), request.merchantRef,
      request.merchantSession, request.currency, request.transactionCode>>

\* What the data leaves open comes from the generators and the configuration.
buildRequestPayload(data, session) ==
    LET request == [amount |-> data.amount,
                    merchantRef |-> OrElse(data.merchantRef, "generated"),
                    merchantSession |-> OrElse(data.merchantSession, session),
                    timeStamp |-> OrElse(data.timeStamp, "now"),
                    transactionCode |-> OrElse(data.transactionCode, "configured"),
                    currency |-> OrElse(data.currency, Currency),
                    purchaseRequest |-> IF settings.is3DSec THEN data.customer ELSE None]
    IN  [request |-> request, fingerprint |-> generatePaymentFingerprint(request)]

----------------------------------------------------------------------------
(* The rows.                                                               *)

\* Numbers are dropped.
customerDataFrom(customer) ==
    [f \in CustomerFields |-> IF customer[f] = "number" THEN None ELSE customer[f]]

NewRow(request, customer) ==
    [amount_cents |-> toCents(request.amount),
     merchant_ref |-> request.merchantRef, merchant_session |-> request.merchantSession,
     currency |-> request.currency, transaction_code |-> request.transactionCode,
     customer |-> customerDataFrom(customer), captured |-> FALSE]

transactionItemCollection(list) ==
    [i \in DOMAIN list |-> [quantity |-> list[i].quantity,
                            unit_price_cents |-> toCents(list[i].unit_price),
                            total_price_cents |-> toCents(list[i].total_price)]]

FilledIn(customer) ==
    [customer EXCEPT !.postalCode = IF @ \in {None, ""} THEN "fallback" ELSE @]

\* Mutant: a retry does not fill in a postal code the row lacks.
extractBare(r, rotateMerchantSession) ==
    [amount |-> fromCents(r.amount_cents), merchantRef |-> r.merchant_ref,
     merchantSession |-> IF rotateMerchantSession THEN None ELSE r.merchant_session,
     timeStamp |-> None,
     transactionCode |-> r.transaction_code, currency |-> r.currency, customer |-> r.customer]

\* Mutant: a retry forgets the currency and the code of the row.
extractDefaults(r, rotateMerchantSession) ==
    [amount |-> fromCents(r.amount_cents), merchantRef |-> r.merchant_ref,
     merchantSession |-> IF rotateMerchantSession THEN None ELSE r.merchant_session,
     timeStamp |-> None,
     transactionCode |-> None, currency |-> None, customer |-> FilledIn(r.customer)]

\* What a retry takes from the row.
extract(r, rotateMerchantSession) ==
    [amount |-> fromCents(r.amount_cents), merchantRef |-> r.merchant_ref,
     merchantSession |-> IF rotateMerchantSession THEN None ELSE r.merchant_session,
     timeStamp |-> None,
     transactionCode |-> r.transaction_code, currency |-> r.currency,
     customer |-> FilledIn(r.customer)]

\* A retry is offered when the row has the customer's data; the postal code is not asked for.
canRetryPayment ==
    /\ phase = "failed"
    /\ settings.is3DSec =>
           \A f \in CustomerFields \ {"postalCode"} : row.customer[f] \notin {None, ""}

----------------------------------------------------------------------------
(* The gateway's answer to a form, and the checks on it.                   *)

generateCallbackFingerprint(post) ==
    IF post.messageType = "error"
    THEN <<post.messageType, post.merchantRef, post.merchantSession, post.timeStamp>>
    ELSE <<post.messageType, post.merchantRef, post.merchantSession, toThousandths(post.amount),
           post.timeStamp>>

\* A decline tells neither amount nor currency nor code.
errorPost(request) ==
    [messageType |-> "error", merchantRef |-> request.merchantRef,
     merchantSession |-> request.merchantSession, timeStamp |-> request.timeStamp,
     amount |-> None, currency |-> None, transactionCode |-> None]

\* Mutant: the sandbox answers in the configured currency.
successPostConfigured(request) ==
    [messageType |-> "success", merchantRef |-> request.merchantRef,
     merchantSession |-> request.merchantSession, timeStamp |-> request.timeStamp,
     amount |-> request.amount, currency |-> Currency,
     transactionCode |-> OrElse(request.transactionCode, "configured")]

successPost(request) ==
    [messageType |-> "success", merchantRef |-> request.merchantRef,
     merchantSession |-> request.merchantSession, timeStamp |-> request.timeStamp,
     amount |-> request.amount, currency |-> OrElse(request.currency, Currency),
     transactionCode |-> OrElse(request.transactionCode, "configured")]

\* A tampered answer is a signed purchase whose signature is then replaced.
callbackFields(request, status) ==
    LET post == IF status = "failed" THEN errorPost(request) ELSE successPost(request) IN
    [post |-> post,
     fingerprint |-> IF status = "tampered" THEN <<"tampered">>
                     ELSE generateCallbackFingerprint(post)]

validateCallbackFingerprint(answer) == answer.fingerprint = generateCallbackFingerprint(answer.post)

\* The code a payment was made with; an empty one stands for the configured one.
transactionCode(r) == IF r.transaction_code = "" THEN "configured" ELSE r.transaction_code

\* What the answer provides agrees with the row.
matchesTransaction(r, post) ==
    /\ r.merchant_ref = post.merchantRef /\ r.merchant_session = post.merchantSession
    /\ post.amount # None => toThousandths(fromCents(r.amount_cents)) = toThousandths(post.amount)
    /\ post.currency # None => r.currency = post.currency
    /\ post.transactionCode # None => transactionCode(r) = post.transactionCode

Identified(post) == post.merchantRef # "" /\ post.merchantSession # EmptySession

----------------------------------------------------------------------------
(* The operations.                                                         *)

\* A session the generator has not given out before.
NextSession == Len(sessions) + 1

\* POST /payment: a body that does not pass is answered with its errors.
Post(b) ==
    /\ phase = "new"
    /\ phase' = IF validatePaymentInput(b) THEN "valid" ELSE "invalid"
    /\ body' = b
    /\ UNCHANGED <<settings, form, first, row, items, sessions, refunds>>

\* The library's builder takes any positive amount that it can convert, and stores nothing.
BuildForm(b) ==
    /\ phase = "new" /\ b.amount # None /\ b.amount.n > 0 /\ InRange(b.amount)
    /\ CanBuild(toData(b))
    /\ phase' = "unstored"
    /\ body' = b
    /\ form' = buildRequestPayload(toData(b), NextSession)
    /\ UNCHANGED <<settings, first, row, items, sessions, refunds>>

\* The pipe throws when the form cannot be built, and nothing is stored.
BuildPaymentRequest ==
    LET data == paymentRequestDataFrom(body)
        built == buildRequestPayload(data, NextSession)
    IN
    /\ phase = "valid"
    /\ IF CanBuild(data)
       THEN /\ phase' = "built"
            /\ form' = built /\ first' = built
            /\ sessions' = Append(sessions, built.request.merchantSession)
       ELSE /\ phase' = "unbuilt"
            /\ UNCHANGED <<form, first, sessions>>
    /\ UNCHANGED <<settings, body, row, items, refunds>>

\* One storage transaction writes the payment, its customer and its items.
PersistTransaction ==
    /\ phase = "built"
    /\ phase' = "pending"
    /\ row' = NewRow(form.request, body.customer)
    /\ items' = transactionItemCollection(body.items)
    /\ UNCHANGED <<settings, body, form, first, sessions, refunds>>

\* Sandbox: the answer the customer chose, posted to the callback route.  One without an
\* identifier or with a bad signature is turned away, one that does not match fails the payment.
Answer(status) ==
    LET answer  == callbackFields(form.request, status)
        success == answer.post.messageType = "success" /\ matchesTransaction(row, answer.post)
    IN
    /\ phase = "pending"
    /\ Identified(answer.post) /\ validateCallbackFingerprint(answer)
    /\ phase' = IF success THEN "completed" ELSE "failed"
    /\ row' = [row EXCEPT !.captured = success]
    /\ UNCHANGED <<settings, body, form, first, items, sessions, refunds>>

\* Sandbox: the customer cancels at the gateway.
Cancel ==
    /\ phase = "pending" /\ Identified(form.request)
    /\ phase' = "cancelled"
    /\ UNCHANGED <<settings, body, form, first, row, items, sessions, refunds>>

\* The status of a reconciliation comes without the gateway's identifiers.
Reconcile(status) ==
    /\ phase = "pending"
    /\ phase' = status
    /\ UNCHANGED <<settings, body, form, first, row, items, sessions, refunds>>

\* POST of a retry: the form is built from the row before anything is written.
RetryPayment ==
    LET built == buildRequestPayload(extract(row, TRUE), NextSession) IN
    /\ canRetryPayment /\ CanBuild(extract(row, TRUE))
    /\ Len(sessions) <= MaxRetries
    /\ phase' = "pending"
    /\ form' = built
    /\ sessions' = Append(sessions, built.request.merchantSession)
    /\ row' = [row EXCEPT !.merchant_session = built.request.merchantSession,
                          !.captured = FALSE]
    /\ UNCHANGED <<settings, body, first, items, refunds>>

\* GET of a retry shows the form again, under the session the row has, and writes nothing.
ShowRetryForm ==
    /\ canRetryPayment /\ CanBuild(extract(row, FALSE))
    /\ form' = buildRequestPayload(extract(row, FALSE), NextSession)
    /\ UNCHANGED <<settings, phase, body, first, row, items, sessions, refunds>>

\* Mutant: the history is added up in cents.
refundedThousandthsOfCents(history) ==
    Total([i \in DOMAIN history |-> 10 * toCents(history[i].amount)])

refundedThousandths(history) ==
    Total([i \in DOMAIN history |-> toThousandths(history[i].amount)])

refundableThousandths ==
    LET left == toThousandths(fromCents(row.amount_cents)) - refundedThousandths(refunds)
    IN  IF left > 0 THEN left ELSE 0

\* The whole payment at once is a total reversal, anything else a partial one.
buildRefundRequest(thousandths) ==
    IF refundedThousandths(refunds) = 0
        /\ thousandths = toThousandths(fromCents(row.amount_cents))
    THEN [amount |-> fromCents(row.amount_cents), transactionCode |-> "total"]
    ELSE [amount |-> [n |-> thousandths, scale |-> 3], transactionCode |-> "partial"]

\* A refund asked of the library or over HTTP, which parses the amount first.  The request takes
\* its identifiers and its currency from the row, and is not built when one is empty.
RefundTransaction(asked) ==
    LET thousandths == toThousandths(asked)
        request == buildRefundRequest(thousandths)
    IN
    /\ phase = "completed" /\ row.captured
    /\ row.merchant_ref # "" /\ row.merchant_session # EmptySession /\ row.currency # ""
    /\ asked.n > 0 /\ thousandths > 0
    /\ thousandths <= refundableThousandths
    /\ Len(refunds) < MaxRefunds
    /\ refunds' = Append(refunds,
           [amount |-> request.amount, transactionCode |-> request.transactionCode,
            asked |-> asked])
    /\ phase' = IF thousandths = refundableThousandths THEN "refunded" ELSE "completed"
    /\ UNCHANGED <<settings, body, form, first, row, items, sessions>>

Init ==
    /\ settings \in [is3DSec : BOOLEAN, allowed : Allowances, maxAmount : {0, SmallMaxAmount},
                    currencies : CurrencyLists]
    /\ phase = "new" /\ body = None /\ form = None /\ first = None /\ row = None
    /\ items = <<>> /\ sessions = <<>> /\ refunds = <<>>

Next ==
    \/ phase = "new" /\ \E b \in Bodies : Post(b) \/ BuildForm(b)
    \/ BuildPaymentRequest
    \/ PersistTransaction
    \/ \E status \in {"success", "failed", "tampered"} : Answer(status)
    \/ Cancel
    \/ \E status \in {"completed", "failed"} : Reconcile(status)
    \/ RetryPayment
    \/ ShowRetryForm
    \/ \E asked \in Decimals : RefundTransaction(asked)

Spec == Init /\ [][Next]_vars

----------------------------------------------------------------------------
\* The money is one: the amount of the row is what its items cost, line by line, it is what
\* the first form signed, and it keeps to the configured maximum, whatever decimals were posted.
ChargedIsOrdered ==
    row # None =>
        /\ row.amount_cents \in 1 .. maxAmount
        /\ row.amount_cents =
               Total([i \in DOMAIN items |-> items[i].quantity * items[i].unit_price_cents])
        /\ row.amount_cents = Total([i \in DOMAIN items |-> items[i].total_price_cents])
        /\ first.fingerprint[2] = 10 * row.amount_cents

\* A retry signs the same payment under a session never used before, the one the row now waits
\* for: amount, reference, currency and code survive the way through the rows, and so does every
\* field of the customer that was posted as text.
RetryChargesTheSame ==
    row # None =>
        LET was == first.request
            is  == form.request
        IN  /\ form.fingerprint[2] = first.fingerprint[2]
            /\ is.merchantRef = was.merchantRef
            /\ is.currency = was.currency /\ is.transactionCode = was.transactionCode
            /\ is.merchantSession = row.merchant_session
            /\ \A i, j \in DOMAIN sessions : sessions[i] = sessions[j] => i = j
            /\ settings.is3DSec =>
                   \A f \in CustomerFields :
                       was.purchaseRequest[f] = "text" => is.purchaseRequest[f] = "text"

\* Refunds add up in the unit the gateway is sent: never beyond the payment, to all of it exactly
\* when it is refunded; and a total reversal stands alone.
RefundsAddUp ==
    LET total == Total([i \in DOMAIN refunds |-> toThousandths(refunds[i].amount)]) IN
    row # None =>
        /\ total <= 10 * row.amount_cents
        /\ (total = 10 * row.amount_cents) <=> (phase = "refunded")
        /\ \A i \in DOMAIN refunds : refunds[i].transactionCode = "total" => Len(refunds) = 1

\* What is signed is no more than half a thousandth away from the decimal that was asked for, in
\* a form of a body, a form of the builder and a refund request alike; a number of more digits
\* than toFixed keeps is rounded twice, and may be another half of the last digit kept away.
SignedIsAsked ==
    LET Twice(asked) ==
            IF asked.scale > FixedDigits THEN 1000 * 10 ^ (asked.scale - FixedDigits) ELSE 0
        Near(thousandths, asked) ==
            2 * Abs(thousandths * 10 ^ asked.scale - asked.n * 1000)
                <= 10 ^ asked.scale + Twice(asked)
    IN
    /\ form # None => Near(form.fingerprint[2], body.amount)
    /\ \A i \in DOMAIN refunds : Near(toThousandths(refunds[i].amount), refunds[i].asked)

\* Whoever is offered a retry gets a form: what canRetryPayment asks of the row is enough for
\* the purchase request, which asks for one field more.
RetryableCanBeBuilt == canRetryPayment => CanBuild(extract(row, TRUE))

\* The gateway's answers to a form the code rendered, first or retried, are recognised: what they
\* repeat of the form agrees with the row it was stored as, so no payment fails for its details.
\* A body that supplies an empty transaction code is the exception: the row's empty code is
\* compared as the configured one.
AnswersAreRecognised ==
    row # None /\ row.transaction_code # "" =>
        \A status \in {"success", "failed"} :
            matchesTransaction(row, callbackFields(form.request, status).post)
=============================================================================
