-------------------------- MODULE StatelessProofs --------------------------
(***************************************************************************)
(* The stateless mode decides a payment once, keeps what it announced and  *)
(* completes only what was expected: for any number of posts, requests and *)
(* payloads, and processes that die at any await.                          *)
(***************************************************************************)
EXTENDS StatelessCallback, TLAPS

(* What a call that is past its first await knows.                          *)
InHand == {"claim", "resolve", "match", "emit", "mark", "marked"}

Claimed(c) == claim[c] # Null /\ claim[c].status = "claimed"

(* The event that announces an outcome carries its two columns.             *)
Announces(c) ==
    /\ event[c] # Null
    /\ event[c].status = outcome[c].status /\ event[c].reason = outcome[c].reason

(* What is in hand at each await, of the call itself.                       *)
PhaseOK(c) ==
    /\ pc[c] \in InHand => request[c] # Null
    /\ pc[c] \in {"claim", "resolve", "match", "marked"} => event[c] = Null
    /\ pc[c] \in {"emit", "mark", "marked"} => config.correlation
    /\ pc[c] = "resolve" => ~config.correlation
    /\ pc[c] = "claim" => config.correlation /\ claim[c] = Null
    /\ pc[c] \in {"resolve", "match", "marked"} => ~Cancels(c)
    /\ pc[c] = "emit" => Cancels(c) /\ claim[c] # Null /\ event[c] = Null
    /\ pc[c] = "match" => claim[c] # Null
    /\ pc[c] \in {"mark", "marked"} => Claimed(c) /\ outcome[c] # Null
    /\ pc[c] = "mark" => IF Cancels(c) THEN Announces(c) ELSE event[c] = Null
    /\ pc[c] \in {"mark", "marked"} /\ ~Cancels(c) =>
         outcome[c] = Matched(claim[c].payment, request[c].payload)
    /\ pc[c] \in InHand /\ ~Cancels(c) => request[c].payload.signed

(* The row a claim was granted on.                                          *)
RowOK(c) ==
    Holds(c) =>
      /\ request[c] # Null /\ rows[PairOf(c)] # Null
      /\ rows[PairOf(c)].claimed /\ rows[PairOf(c)].expected = claim[c].payment
      /\ pc[c] \in {"match", "emit", "mark"} => rows[PairOf(c)].outcome = Null
      /\ pc[c] = "marked" => rows[PairOf(c)].outcome = outcome[c]
      /\ event[c] # Null =>
           \/ rows[PairOf(c)].outcome = [status |-> event[c].status, reason |-> event[c].reason]
           \/ rows[PairOf(c)].outcome = Null /\ Cancels(c)

(* An event tells of a claim that was granted, and a completed payment of a *)
(* signed payload with the amount that was expected.                        *)
EventOK(c) ==
    /\ config.correlation /\ Verdict(c) => Holds(c)
    /\ event[c] # Null /\ event[c].name = "callback:verified" => event[c].reason = Null
    /\ event[c] # Null /\ event[c].name = "callback:verified" /\ event[c].status = "completed" =>
         /\ request[c] # Null /\ ~Cancels(c) /\ request[c].payload.signed
         /\ claim[c] # Null
         /\ request[c].payload.amount \in {Absent, claim[c].payment.amount}

CallOK(c) == PhaseOK(c) /\ RowOK(c) /\ EventOK(c)

(* One claim per pair is granted.                                           *)
HoldersDiffer ==
    \A c, d \in Call : Holds(c) /\ Holds(d) /\ PairOf(c) = PairOf(d) => c = d

(* The row of a payment is recorded once.                                   *)
RecordedOnce == \A p \in Post : pc[p] \in {"new", "record"} => rows[p] = Null

(* Only a payment that was claimed has an outcome.                          *)
DecidedIsClaimed ==
    \A p \in Pair : rows[p] # Null /\ ~rows[p].claimed => rows[p].outcome = Null

IInv ==
    TypeOK /\ (\A c \in Call : CallOK(c)) /\ HoldersDiffer /\ RecordedOnce /\ DecidedIsClaimed

---------------------------------------------------------------------------
(* A request is a callback or a cancellation, and names a pair.             *)
LEMMA RequestKinds ==
    ASSUME TypeOK, NEW c \in Call, request[c] # Null
    PROVE  /\ Cancels(c) <=> request[c] \in CancelRequest
           /\ ~Cancels(c) => request[c] \in CallbackRequest
           /\ PairOf(c) \in Pair
<1>1. request[c] \in CallbackRequest \cup CancelRequest BY DEF TypeOK
<1>2. CASE request[c] \in CallbackRequest
  <2>1. DOMAIN request[c] = {"payload", "provided"} BY <1>2 DEF CallbackRequest
  <2>2. ~Cancels(c) BY <2>1 DEF Cancels
  <2>3. request[c].payload \in Payload BY <1>2 DEF CallbackRequest
  <2>4. request[c] \notin CancelRequest BY <2>1 DEF CancelRequest
  <2> QED BY <2>2, <2>3, <2>4, <1>2, PayloadAssumption DEF PairOf
<1>3. CASE request[c] \in CancelRequest
  <2>1. DOMAIN request[c] = {"cancels"} BY <1>3 DEF CancelRequest
  <2>2. Cancels(c) BY <2>1 DEF Cancels
  <2>3. request[c].cancels \in Pair BY <1>3 DEF CancelRequest
  <2> QED BY <2>2, <2>3, <1>3 DEF PairOf
<1> QED BY <1>1, <1>2, <1>3

(* What a payload comes to is an outcome.                                   *)
LEMMA OutcomeType ==
    ASSUME NEW payload, NEW reason \in Reason \cup {Null}
    PROVE  toOutcome(payload, reason) \in Outcome
BY DEF toOutcome, mapTransactionStatus, Outcome, TransactionStatus

(* What claim() answers is a claim.                                         *)
LEMMA ClaimType ==
    ASSUME TypeOK, NEW pair \in Pair
    PROVE  /\ claimAnswer(pair) \in CorrelationClaim
           /\ claimAnswer(pair) # Null
           /\ claimAnswer(pair).status = "claimed" <=> rows[pair] # Null /\ ~rows[pair].claimed
           /\ claimAnswer(pair).status = "claimed" =>
                claimAnswer(pair).payment = rows[pair].expected
<1>1. rows[pair] # Null => rows[pair] \in Row BY DEF TypeOK
<1>2. rows[pair] # Null => rows[pair].expected \in Expected /\ rows[pair].claimed \in BOOLEAN
  BY <1>1 DEF Row
<1>3. claimAnswer(pair) \in CorrelationClaim BY <1>2 DEF claimAnswer, CorrelationClaim
<1> QED BY <1>2, <1>3, NullAssumption DEF claimAnswer

(* A call that takes no step keeps what is known of it, if its row keeps    *)
(* what the claim was granted for.                                          *)
LEMMA Frame ==
    ASSUME NEW d \in Call, CallOK(d), config' = config,
           pc'[d] = pc[d], request'[d] = request[d], claim'[d] = claim[d],
           outcome'[d] = outcome[d], event'[d] = event[d],
           Holds(d) => /\ rows'[PairOf(d)] # Null
                       /\ rows'[PairOf(d)].claimed
                       /\ rows'[PairOf(d)].expected = rows[PairOf(d)].expected
                       /\ rows'[PairOf(d)].outcome = rows[PairOf(d)].outcome
    PROVE  CallOK(d)' /\ (Holds(d)' <=> Holds(d)) /\ PairOf(d)' = PairOf(d)
<1>1. Cancels(d)' <=> Cancels(d) BY DEF Cancels
<1>2. PairOf(d)' = PairOf(d) BY <1>1 DEF PairOf
<1>3. Holds(d)' <=> Holds(d) BY DEF Holds
<1>4. PhaseOK(d)' BY <1>1 DEF CallOK, PhaseOK, Claimed, Announces, Matched
<1>5. RowOK(d)' BY <1>1, <1>2, <1>3 DEF CallOK, RowOK
<1>6. EventOK(d)' BY <1>1, <1>3 DEF CallOK, EventOK, Verdict
<1> QED BY <1>2, <1>3, <1>4, <1>5, <1>6 DEF CallOK
---------------------------------------------------------------------------
(* What a step of one call has to do that leaves the store alone.           *)
LEMMA LocalStep ==
    ASSUME IInv, NEW c \in Call, config' = config, rows' = rows, TypeOK', CallOK(c)',
           \A d \in Call \ {c} : /\ pc'[d] = pc[d] /\ request'[d] = request[d]
                                 /\ claim'[d] = claim[d] /\ outcome'[d] = outcome[d]
                                 /\ event'[d] = event[d],
           \A p \in Post : pc'[p] = pc[p],
           Holds(c)' => Holds(c) /\ PairOf(c)' = PairOf(c)
    PROVE  IInv'
<1>1. ASSUME NEW d \in Call \ {c}
      PROVE  CallOK(d)' /\ (Holds(d)' <=> Holds(d)) /\ PairOf(d)' = PairOf(d)
  <2>1. CallOK(d) BY DEF IInv
  <2>2. Holds(d) => rows[PairOf(d)] # Null /\ rows[PairOf(d)].claimed
    BY <2>1 DEF CallOK, RowOK
  <2> QED BY <2>1, <2>2, Frame
<1>2. \A d \in Call : CallOK(d)' BY <1>1
<1>3. \A d \in Call : Holds(d)' => Holds(d) /\ PairOf(d)' = PairOf(d) BY <1>1
<1>4. HoldersDiffer' BY <1>3 DEF IInv, HoldersDiffer
<1>5. RecordedOnce' BY DEF IInv, RecordedOnce
<1>6. DecidedIsClaimed' BY DEF IInv, DecidedIsClaimed
<1> QED BY <1>2, <1>4, <1>5, <1>6 DEF IInv

(* A step of a call moves no post and no other call.                        *)
LEMMA OneMoves ==
    ASSUME TypeOK, NEW c \in Call, NEW step, GoTo(c, step)
    PROVE  /\ pc'[c] = step
           /\ \A d \in Call \ {c} : pc'[d] = pc[d]
           /\ \A p \in Post : pc'[p] = pc[p]
BY NameAssumption DEF TypeOK, GoTo

LEMMA CancelReceived ==
    ASSUME IInv, NEW c \in Call, NEW pair \in Pair, ReceiveCancel(c, pair)
    PROVE  IInv'
<1> DEFINE r == [cancels |-> pair]
<1>1. TypeOK /\ pc[c] = "new" /\ claim[c] = Null /\ event[c] = Null
  BY DEF IInv, TypeOK, ReceiveCancel
<1>2. r \in CancelRequest /\ r # Null BY NullAssumption DEF CancelRequest
<1>3. request' = [request EXCEPT ![c] = r] /\ request'[c] = r
  BY <1>1 DEF ReceiveCancel, TypeOK
<1>4. pc'[c] = IF config.correlation THEN "claim" ELSE "cancelled"
  BY <1>1, OneMoves DEF ReceiveCancel
<1>5. TypeOK'
  <2>1. pc' \in [Post \cup Call -> {"new", "record", "recorded", "done", "claim", "resolve", "match",
                 "emit", "mark", "marked", "cancelled", "answered", "threw", "dead"}]
    BY <1>1 DEF TypeOK, ReceiveCancel, GoTo
  <2>2. \A d \in Call : pc'[d] = "new" =>
         request'[d] = Null /\ claim'[d] = Null /\ outcome'[d] = Null /\ event'[d] = Null
    BY <1>1, <1>4 DEF TypeOK, ReceiveCancel, GoTo
  <2>3. request' \in [Call -> CallbackRequest \cup CancelRequest \cup {Null}]
    BY <1>1, <1>2, <1>3 DEF TypeOK
  <2> QED BY <1>1, <2>1, <2>2, <2>3 DEF TypeOK, ReceiveCancel
<1>6. Cancels(c)'
  <2>1. DOMAIN r = {"cancels"} OBVIOUS
  <2> HIDE DEF r
  <2> QED BY <2>1, <1>2, <1>3 DEF Cancels
<1>7. ~Holds(c)' /\ claim'[c] = Null /\ event'[c] = Null
  BY <1>1 DEF Holds, ReceiveCancel
<1>8. CallOK(c)'
  BY <1>1, <1>2, <1>3, <1>4, <1>6, <1>7
     DEF CallOK, PhaseOK, RowOK, EventOK, Verdict, InHand, ReceiveCancel
<1> QED BY <1>1, <1>3, <1>5, <1>7, <1>8, LocalStep, OneMoves DEF ReceiveCancel, TypeOK

(* The event that an outcome is announced with, and the end of the call.    *)
LEMMA ConcludeDoes ==
    ASSUME TypeOK, NEW c \in Call, NEW payload, NEW result \in Outcome,
           Conclude(c, payload, result)
    PROVE  /\ event' \in [Call -> CallbackEvent \cup {Null}]
           /\ event'[c] # Null
           /\ event'[c].status = result.status /\ event'[c].reason = result.reason
           /\ event'[c].name = "callback:verified" <=> result.reason = Null
           /\ \A d \in Call \ {c} : event'[d] = event[d]
           /\ pc'[c] = "answered"
           /\ DOMAIN response' = Call
<1> DEFINE e == [name |-> IF result.reason = Null THEN "callback:verified" ELSE "callback:rejected",
                 status |-> result.status, reason |-> result.reason]
<1>1. e \in CallbackEvent BY DEF Outcome, CallbackEvent
<1>2. e # Null BY <1>1, NullAssumption
<1>3. event' = [event EXCEPT ![c] = e] BY DEF Conclude
<1>4. e.status = result.status /\ e.reason = result.reason
      /\ (e.name = "callback:verified" <=> result.reason = Null)
  OBVIOUS
<1> HIDE DEF e
<1>5. event'[c] = e BY <1>3 DEF TypeOK
<1>6. pc'[c] = "answered" BY OneMoves DEF Conclude
<1>7. DOMAIN response' = Call
  <2> DEFINE a == LET data == statelessResultData(payload, result) IN
           IF config.appKey THEN [kind |-> "redirect", query |-> signStatelessResult(data)]
                            ELSE [kind |-> "json", data |-> data]
  <2>1. response' = [response EXCEPT ![c] = a] BY DEF Conclude, Respond
  <2> HIDE DEF a
  <2> QED BY <2>1 DEF TypeOK
<1> QED BY <1>1, <1>2, <1>3, <1>4, <1>5, <1>6, <1>7 DEF TypeOK

(* The end of a call whose outcome was announced: the invariant asks that   *)
(* the store, where a claim is held, has the outcome, and that a completed  *)
(* payment was expected.                                                    *)
LEMMA ConcludedIsOK ==
    ASSUME NEW c \in Call, pc'[c] = "answered", request'[c] # Null, event'[c] # Null,
           event'[c].name = "callback:verified" => event'[c].reason = Null,
           Holds(c)' =>
             /\ rows'[PairOf(c)'] # Null /\ rows'[PairOf(c)'].claimed
             /\ rows'[PairOf(c)'].expected = claim'[c].payment
             /\ rows'[PairOf(c)'].outcome = [status |-> event'[c].status, reason |-> event'[c].reason],
           config'.correlation /\ Verdict(c)' => Holds(c)',
           event'[c].name = "callback:verified" /\ event'[c].status = "completed" =>
             /\ ~Cancels(c)' /\ request'[c].payload.signed /\ claim'[c] # Null
             /\ request'[c].payload.amount \in {Absent, claim'[c].payment.amount}
    PROVE  CallOK(c)'
<1>1. PhaseOK(c)' BY DEF PhaseOK, InHand
<1>2. RowOK(c)' BY DEF RowOK
<1>3. EventOK(c)' BY DEF EventOK
<1> QED BY <1>1, <1>2, <1>3 DEF CallOK

LEMMA CallbackReceived ==
    ASSUME IInv, NEW c \in Call, NEW payload \in Payload, NEW provided \in Expected \cup {Null},
           ReceiveCallback(c, payload, provided)
    PROVE  IInv'
<1> DEFINE r == [payload |-> payload, provided |-> provided]
           a == IF ~config.correlation /\ provided # Null
                THEN [status |-> "claimed", payment |-> provided] ELSE Null
<1>1. TypeOK /\ pc[c] = "new" /\ event[c] = Null /\ outcome[c] = Null
  BY DEF IInv, TypeOK, ReceiveCallback
<1>2. r \in CallbackRequest /\ r # Null BY NullAssumption DEF CallbackRequest
<1>3. request' = [request EXCEPT ![c] = r] /\ request'[c] = r
  BY <1>1 DEF ReceiveCallback, TypeOK
<1>4. a \in CorrelationClaim \cup {Null} BY DEF CorrelationClaim
<1>5. claim' = [claim EXCEPT ![c] = a] /\ claim'[c] = a
  BY <1>1 DEF ReceiveCallback, TypeOK
<1>6. config' = config /\ rows' = rows /\ form' = form BY DEF ReceiveCallback
<1>7. request' \in [Call -> CallbackRequest \cup CancelRequest \cup {Null}]
      /\ claim' \in [Call -> CorrelationClaim \cup {Null}]
  <2> HIDE DEF r, a
  <2> QED BY <1>1, <1>2, <1>3, <1>4, <1>5 DEF TypeOK
<1>8. ~Cancels(c)'
  <2>1. DOMAIN r = {"payload", "provided"} OBVIOUS
  <2> HIDE DEF r
  <2> QED BY <2>1, <1>2, <1>3 DEF Cancels
<1>9. ~Holds(c)'
  <2>1. config.correlation => a = Null BY DEF ReceiveCallback
  <2> HIDE DEF a
  <2> QED BY <2>1, <1>5, <1>6 DEF Holds
<1>10. request'[c].payload = payload BY <1>3
<1>11. CASE /\ ~validateCallbackFingerprint(payload)
            /\ outcome' = [outcome EXCEPT ![c] = toOutcome(payload, "invalid_callback_fingerprint")]
            /\ Conclude(c, payload, outcome'[c])
  <2> DEFINE o == toOutcome(payload, "invalid_callback_fingerprint")
  <2>1. o \in Outcome BY OutcomeType DEF Reason
  <2>2. o.reason = "invalid_callback_fingerprint" BY DEF toOutcome
  <2>3. "invalid_callback_fingerprint" # Null BY NullAssumption DEF Reason
  <2> HIDE DEF o
  <2>4. outcome'[c] = o /\ outcome' \in [Call -> Outcome \cup {Null}] BY <1>1, <1>11, <2>1 DEF TypeOK, o
  <2>5. Conclude(c, payload, o) BY <1>11, <2>4
  <2>6. /\ event' \in [Call -> CallbackEvent \cup {Null}]
        /\ event'[c] # Null /\ event'[c].reason = o.reason
        /\ event'[c].name # "callback:verified"
        /\ \A d \in Call \ {c} : event'[d] = event[d]
        /\ pc'[c] = "answered" /\ DOMAIN response' = Call
    BY <1>1, <2>1, <2>2, <2>3, <2>5, ConcludeDoes
  <2>7. GoTo(c, "answered") BY <2>5 DEF Conclude
  <2>8. ~Verdict(c)' BY <2>2, <2>3, <2>6 DEF Verdict
  <2>9. CallOK(c)' BY <1>2, <1>3, <1>9, <2>6, <2>8, ConcludedIsOK
  <2>10. TypeOK'
    <3>1. pc' \in [Post \cup Call -> {"new", "record", "recorded", "done", "claim", "resolve", "match",
                 "emit", "mark", "marked", "cancelled", "answered", "threw", "dead"}]
      BY <1>1, <2>7 DEF TypeOK, GoTo
    <3>2. \A d \in Call \ {c} : pc'[d] = pc[d] BY <1>1, <2>7, OneMoves
    <3>3. \A d \in Call \ {c} : /\ request'[d] = request[d] /\ claim'[d] = claim[d]
                                /\ outcome'[d] = outcome[d]
      BY <1>1, <1>3, <1>5, <1>11 DEF TypeOK
    <3>4. \A d \in Call : pc'[d] = "new" =>
         request'[d] = Null /\ claim'[d] = Null /\ outcome'[d] = Null /\ event'[d] = Null
      BY <1>1, <2>6, <3>2, <3>3 DEF TypeOK
    <3> QED BY <1>1, <1>6, <1>7, <2>4, <2>6, <3>1, <3>4 DEF TypeOK
  <2>11. \A d \in Call \ {c} : /\ request'[d] = request[d] /\ claim'[d] = claim[d]
                               /\ outcome'[d] = outcome[d]
      BY <1>1, <1>3, <1>5, <1>11 DEF TypeOK
  <2> QED BY <1>1, <1>6, <1>9, <2>6, <2>7, <2>9, <2>10, <2>11, LocalStep, OneMoves
<1>12. CASE /\ validateCallbackFingerprint(payload)
            /\ GoTo(c, IF config.correlation THEN "claim"
                       ELSE IF provided # Null THEN "match" ELSE "resolve")
            /\ UNCHANGED <<outcome, event, response>>
  <2>1. pc'[c] = IF config.correlation THEN "claim"
                 ELSE IF provided # Null THEN "match" ELSE "resolve"
    BY <1>1, <1>12, OneMoves
  <2>2. payload.signed BY <1>12 DEF validateCallbackFingerprint
  <2>3. config.correlation => a = Null BY DEF ReceiveCallback
  <2>4. pc'[c] = "match" => a # Null
    <3>1. ASSUME provided # Null PROVE [status |-> "claimed", payment |-> provided] \in CorrelationClaim
      BY <3>1 DEF CorrelationClaim
    <3> QED BY <3>1, <2>1, NullAssumption
  <2> HIDE DEF a
  <2>5. CallOK(c)'
    <3>1. PhaseOK(c)'
      BY <1>1, <1>2, <1>3, <1>5, <1>6, <1>8, <1>10, <1>12, <2>1, <2>2, <2>3, <2>4 DEF PhaseOK, InHand
    <3> QED BY <1>1, <1>9, <1>12, <3>1 DEF CallOK, RowOK, EventOK, Verdict
  <2>6. TypeOK'
    <3>1. pc' \in [Post \cup Call -> {"new", "record", "recorded", "done", "claim", "resolve", "match",
                 "emit", "mark", "marked", "cancelled", "answered", "threw", "dead"}]
      BY <1>1, <1>12 DEF TypeOK, GoTo
    <3>2. \A d \in Call \ {c} : pc'[d] = pc[d] BY <1>1, <1>12, OneMoves
    <3>3. \A d \in Call \ {c} : request'[d] = request[d] /\ claim'[d] = claim[d]
      BY <1>1, <1>3, <1>5 DEF TypeOK
    <3>4. \A d \in Call : pc'[d] = "new" =>
         request'[d] = Null /\ claim'[d] = Null /\ outcome'[d] = Null /\ event'[d] = Null
      BY <1>1, <1>12, <2>1, <3>2, <3>3 DEF TypeOK
    <3> QED BY <1>1, <1>6, <1>7, <1>12, <3>1, <3>4 DEF TypeOK
  <2>7. \A d \in Call \ {c} : request'[d] = request[d] /\ claim'[d] = claim[d]
    BY <1>1, <1>3, <1>5 DEF TypeOK
  <2> QED BY <1>1, <1>6, <1>9, <1>12, <2>5, <2>6, <2>7, LocalStep, OneMoves
<1> QED BY <1>11, <1>12 DEF ReceiveCallback

(* A step after which nothing is in hand, of a call that is told something  *)
(* no property is about, or that dies.                                      *)
LEMMA QuietEnd ==
    ASSUME IInv, NEW c \in Call, NEW step \in {"answered", "cancelled", "threw", "dead"},
           GoTo(c, step), DOMAIN response' = Call,
           UNCHANGED <<config, rows, form, request, claim, outcome, event>>
    PROVE  IInv'
<1>1. TypeOK /\ CallOK(c) BY DEF IInv
<1>2. pc'[c] = step BY <1>1, OneMoves
<1>3. pc' \in [Post \cup Call -> {"new", "record", "recorded", "done", "claim", "resolve", "match",
                 "emit", "mark", "marked", "cancelled", "answered", "threw", "dead"}]
  BY <1>1 DEF TypeOK, GoTo
<1>4. \A d \in Call : pc'[d] = "new" => pc[d] = "new" BY <1>1, <1>2, OneMoves
<1>5. TypeOK' BY <1>1, <1>3, <1>4 DEF TypeOK
<1>6. (Cancels(c)' <=> Cancels(c)) /\ PairOf(c)' = PairOf(c) /\ (Holds(c)' <=> Holds(c))
  BY DEF Cancels, PairOf, Holds
<1>7. PhaseOK(c)' BY <1>2 DEF PhaseOK, InHand
<1>8. RowOK(c)' BY <1>1, <1>2, <1>6 DEF CallOK, RowOK
<1>9. EventOK(c)' BY <1>1, <1>6 DEF CallOK, EventOK, Verdict
<1> QED BY <1>1, <1>5, <1>6, <1>7, <1>8, <1>9, LocalStep, OneMoves DEF CallOK

LEMMA ResultRead == ASSUME IInv, NEW c \in Call, ReadResult(c) PROVE IInv'
<1>1. DOMAIN response' = Call
  <2>1. PICK a : response' = [response EXCEPT ![c] = a] BY DEF ReadResult
  <2> QED BY <2>1 DEF IInv, TypeOK
<1> QED BY <1>1, QuietEnd DEF ReadResult

LEMMA CancelRedirected == ASSUME IInv, NEW c \in Call, RedirectCancelled(c) PROVE IInv'
<1>1. DOMAIN response' = Call BY DEF IInv, TypeOK, RedirectCancelled
<1> QED BY <1>1, QuietEnd DEF RedirectCancelled

LEMMA CallDies == ASSUME IInv, NEW c \in Call, Die(c) PROVE IInv'
<1>1. DOMAIN response' = Call BY DEF IInv, TypeOK, Die
<1> QED BY <1>1, QuietEnd DEF Die

LEMMA ExpectedResolved == ASSUME IInv, NEW c \in Call, ResolveExpected(c) PROVE IInv'
<1>1. TypeOK /\ CallOK(c) /\ pc[c] = "resolve" BY DEF IInv, ResolveExpected
<1>2. PICK e \in Expected \cup {Null} :
        claim' = [claim EXCEPT ![c] =
              IF e = Null THEN [status |-> "none"] ELSE [status |-> "claimed", payment |-> e]]
  BY DEF ResolveExpected
<1> DEFINE a == IF e = Null THEN [status |-> "none"] ELSE [status |-> "claimed", payment |-> e]
<1>3. a \in CorrelationClaim BY DEF CorrelationClaim
<1>4. a # Null BY <1>3, NullAssumption
<1> HIDE DEF a
<1>5. claim' = [claim EXCEPT ![c] = a] BY <1>2 DEF a
<1>6. claim'[c] = a /\ claim' \in [Call -> CorrelationClaim \cup {Null}]
      /\ \A d \in Call \ {c} : claim'[d] = claim[d]
  BY <1>1, <1>3, <1>5 DEF TypeOK
<1>7. pc'[c] = "match" /\ (\A d \in Call \ {c} : pc'[d] = pc[d]) /\ (\A p \in Post : pc'[p] = pc[p])
  BY <1>1, OneMoves DEF ResolveExpected
<1>8. UNCHANGED <<config, rows, form, request, outcome, event, response>> BY DEF ResolveExpected
<1>9. ~config.correlation /\ request[c] # Null /\ event[c] = Null /\ ~Cancels(c)
      /\ request[c].payload.signed
  BY <1>1 DEF CallOK, PhaseOK, InHand
<1>10. ~Cancels(c)' /\ ~Holds(c)' BY <1>8, <1>9 DEF Cancels, Holds
<1>11. CallOK(c)'
  <2>1. PhaseOK(c)' BY <1>4, <1>6, <1>7, <1>8, <1>9, <1>10 DEF PhaseOK
  <2> QED BY <1>8, <1>9, <1>10, <2>1 DEF CallOK, RowOK, EventOK
<1>12. TypeOK'
  <2>1. pc' \in [Post \cup Call -> {"new", "record", "recorded", "done", "claim", "resolve", "match",
                 "emit", "mark", "marked", "cancelled", "answered", "threw", "dead"}]
    BY <1>1 DEF TypeOK, GoTo, ResolveExpected
  <2> QED BY <1>1, <1>6, <1>7, <1>8, <2>1 DEF TypeOK
<1> QED BY <1>6, <1>7, <1>8, <1>10, <1>11, <1>12, LocalStep

(* The steps of a call in hand that end with the event of its outcome.      *)
LEMMA AnnouncedStep ==
    ASSUME IInv, NEW c \in Call, NEW o \in Outcome, pc[c] \in InHand, ~Cancels(c),
           Conclude(c, request[c].payload, o),
           outcome' = [outcome EXCEPT ![c] = o],
           UNCHANGED <<config, rows, form, request, claim>>,
           Holds(c) => rows[PairOf(c)].outcome = o,
           config.correlation /\ o.reason \in {Null, "callback_details_mismatch", "user_cancelled"}
             => Holds(c),
           o.reason = Null /\ o.status = "completed" =>
             claim[c] # Null /\ request[c].payload.amount \in {Absent, claim[c].payment.amount}
    PROVE  IInv'
<1>1. TypeOK /\ CallOK(c) /\ request[c] # Null /\ request[c].payload.signed
  BY DEF IInv, CallOK, PhaseOK
<1>2. /\ event' \in [Call -> CallbackEvent \cup {Null}]
      /\ event'[c] # Null
      /\ event'[c].status = o.status /\ event'[c].reason = o.reason
      /\ event'[c].name = "callback:verified" <=> o.reason = Null
      /\ \A d \in Call \ {c} : event'[d] = event[d]
      /\ pc'[c] = "answered"
      /\ DOMAIN response' = Call
  BY <1>1, ConcludeDoes
<1>3. GoTo(c, "answered") BY DEF Conclude
<1>4. (\A d \in Call \ {c} : pc'[d] = pc[d]) /\ (\A p \in Post : pc'[p] = pc[p])
  BY <1>1, <1>3, OneMoves
<1>5. \A d \in Call \ {c} : outcome'[d] = outcome[d] BY <1>1 DEF TypeOK
<1>6. (~Cancels(c)') /\ PairOf(c)' = PairOf(c) /\ (Holds(c)' <=> Holds(c))
  BY DEF Cancels, PairOf, Holds
<1>7. o = [status |-> event'[c].status, reason |-> event'[c].reason] BY <1>2 DEF Outcome
<1>8. Verdict(c)' <=> o.reason \in {Null, "callback_details_mismatch", "user_cancelled"}
  BY <1>2 DEF Verdict
<1>9. CallOK(c)'
  <2>1. Holds(c)' =>
          /\ rows'[PairOf(c)'] # Null /\ rows'[PairOf(c)'].claimed
          /\ rows'[PairOf(c)'].expected = claim'[c].payment
          /\ rows'[PairOf(c)'].outcome = [status |-> event'[c].status, reason |-> event'[c].reason]
    BY <1>1, <1>6, <1>7 DEF CallOK, RowOK
  <2>2. config'.correlation /\ Verdict(c)' => Holds(c)' BY <1>6, <1>8
  <2>3. event'[c].name = "callback:verified" /\ event'[c].status = "completed" =>
             /\ ~Cancels(c)' /\ request'[c].payload.signed /\ claim'[c] # Null
             /\ request'[c].payload.amount \in {Absent, claim'[c].payment.amount}
    BY <1>1, <1>2, <1>6
  <2> QED BY <1>1, <1>2, <2>1, <2>2, <2>3, ConcludedIsOK
<1>10. TypeOK'
  <2>1. pc' \in [Post \cup Call -> {"new", "record", "recorded", "done", "claim", "resolve", "match",
                 "emit", "mark", "marked", "cancelled", "answered", "threw", "dead"}]
    BY <1>1, <1>3 DEF TypeOK, GoTo
  <2>2. outcome' \in [Call -> Outcome \cup {Null}] BY <1>1 DEF TypeOK
  <2> QED BY <1>1, <1>2, <1>4, <1>5, <2>1, <2>2 DEF TypeOK
<1> QED BY <1>2, <1>4, <1>5, <1>6, <1>9, <1>10, LocalStep

(* A match is of the amount that was expected.                              *)
LEMMA MatchedAmount ==
    ASSUME NEW expected, NEW payload
    PROVE  /\ Matched(expected, payload) \in Outcome
           /\ Matched(expected, payload).reason \in {Null, "callback_details_mismatch"}
           /\ Matched(expected, payload).reason = Null =>
                payload.amount \in {Absent, expected.amount}
<1> DEFINE reason == IF matches(expected, payload) THEN Null ELSE "callback_details_mismatch"
<1>1. reason \in Reason \cup {Null} /\ "callback_details_mismatch" # Null
  BY NullAssumption DEF Reason
<1>2. reason = Null => payload.amount \in {Absent, expected.amount} BY <1>1 DEF matches
<1>3. reason \in {Null, "callback_details_mismatch"} OBVIOUS
<1>4. Matched(expected, payload) = toOutcome(payload, reason) BY DEF Matched
<1> HIDE DEF reason
<1>5. toOutcome(payload, reason).reason = reason BY DEF toOutcome
<1> QED BY <1>1, <1>2, <1>3, <1>4, <1>5, OutcomeType

LEMMA ClaimRejected == ASSUME IInv, NEW c \in Call, RejectClaim(c) PROVE IInv'
<1> DEFINE payload == request[c].payload
           reason == IF config.correlation THEN claimRejection(claim[c])
                     ELSE IF mapTransactionStatus(payload.messageType) = "completed"
                     THEN "expected_payment_missing" ELSE Null
           o == toOutcome(payload, reason)
<1>1. TypeOK /\ CallOK(c) /\ pc[c] = "match" /\ claim[c].status # "claimed" BY DEF IInv, RejectClaim
<1>2. ~Cancels(c) /\ ~Holds(c) BY <1>1 DEF CallOK, PhaseOK, Holds
<1>3. outcome' = [outcome EXCEPT ![c] = o]
  BY DEF RejectClaim
<1>4. reason \in Reason \cup {Null}
      /\ (config.correlation => reason \in {"unknown_transaction", "callback_replayed"})
  BY DEF claimRejection, Reason
<1>5. config.correlation => reason \notin {Null, "callback_details_mismatch", "user_cancelled"}
  BY <1>4, NullAssumption DEF Reason
<1>6. "expected_payment_missing" # Null BY NullAssumption DEF Reason
<1>7. ~(reason = Null /\ mapTransactionStatus(payload.messageType) = "completed")
  BY <1>5, <1>6
<1>8. o.reason = reason /\ (reason = Null => o.status = mapTransactionStatus(payload.messageType))
  BY DEF toOutcome
<1> HIDE DEF reason
<1>9. o \in Outcome BY <1>4, OutcomeType
<1> HIDE DEF o
<1>10. outcome'[c] = o BY <1>1, <1>3 DEF TypeOK
<1>11. Conclude(c, payload, o) BY <1>10 DEF RejectClaim
<1>12. UNCHANGED <<config, rows, form, request, claim>> BY DEF RejectClaim
<1>13. config.correlation /\ o.reason \in {Null, "callback_details_mismatch", "user_cancelled"} => Holds(c)
  BY <1>5, <1>8
<1>14. ~(o.reason = Null /\ o.status = "completed") BY <1>7, <1>8
<1> QED BY <1>1, <1>2, <1>3, <1>9, <1>11, <1>12, <1>13, <1>14, AnnouncedStep DEF InHand

LEMMA ExpectedMatched == ASSUME IInv, NEW c \in Call, MatchExpected(c) PROVE IInv'
<1> DEFINE payload == request[c].payload
           expected == claim[c].payment
           o == Matched(expected, payload)
<1>1. TypeOK /\ CallOK(c) /\ pc[c] = "match" /\ claim[c].status = "claimed" BY DEF IInv, MatchExpected
<1>2. ~Cancels(c) /\ request[c] # Null /\ claim[c] # Null /\ event[c] = Null /\ payload.signed
  BY <1>1 DEF CallOK, PhaseOK, InHand
<1>3. UNCHANGED <<config, rows, form, request, claim>> BY DEF MatchExpected
<1>4. CASE GoTo(c, "threw") /\ UNCHANGED <<outcome, event, response>>
  <2>1. DOMAIN response' = Call BY <1>1, <1>4 DEF TypeOK
  <2> QED BY <1>3, <1>4, <2>1, QuietEnd
<1>5. CASE /\ outcome' = [outcome EXCEPT ![c] = o]
           /\ ~config.correlation /\ Conclude(c, payload, o)
  <2>1. o \in Outcome /\ (o.reason = Null => payload.amount \in {Absent, expected.amount})
    BY MatchedAmount
  <2>2. ~Holds(c) BY <1>5 DEF Holds
  <2> HIDE DEF o
  <2> QED BY <1>1, <1>2, <1>3, <1>5, <2>1, <2>2, AnnouncedStep DEF InHand
<1>6. CASE /\ outcome' = [outcome EXCEPT ![c] = o]
           /\ config.correlation /\ GoTo(c, "mark") /\ UNCHANGED <<event, response>>
  <2>1. o \in Outcome /\ o # Null BY MatchedAmount, NullAssumption
  <2>2. Cancels(c)' = Cancels(c) /\ PairOf(c)' = PairOf(c) /\ (Holds(c)' <=> Holds(c))
    BY <1>3 DEF Cancels, PairOf, Holds
  <2>3. Matched(claim'[c].payment, request'[c].payload) = o BY <1>3
  <2> HIDE DEF o
  <2>4. outcome'[c] = o /\ outcome' \in [Call -> Outcome \cup {Null}]
        /\ \A d \in Call \ {c} : outcome'[d] = outcome[d]
    BY <1>1, <1>6, <2>1 DEF TypeOK
  <2>5. pc'[c] = "mark" /\ (\A d \in Call \ {c} : pc'[d] = pc[d]) /\ (\A p \in Post : pc'[p] = pc[p])
    BY <1>1, <1>6, OneMoves
  <2>6. PhaseOK(c)'
    <3>1. ~Cancels(c)' BY <1>2, <2>2
    <3>2. Claimed(c)' BY <1>1, <1>2, <1>3 DEF Claimed
    <3> QED BY <1>2, <1>3, <1>6, <2>1, <2>3, <2>4, <2>5, <3>1, <3>2 DEF PhaseOK
  <2>7. RowOK(c)' BY <1>1, <1>2, <1>3, <1>6, <2>2, <2>5 DEF CallOK, RowOK
  <2>8. EventOK(c)' BY <1>2, <1>6 DEF EventOK, Verdict
  <2>9. TypeOK'
    <3>1. pc' \in [Post \cup Call -> {"new", "record", "recorded", "done", "claim", "resolve", "match",
                 "emit", "mark", "marked", "cancelled", "answered", "threw", "dead"}]
      BY <1>1, <1>6 DEF TypeOK, GoTo
    <3> QED BY <1>1, <1>3, <1>6, <2>4, <2>5, <3>1 DEF TypeOK
  <2> QED BY <1>3, <1>6, <2>2, <2>4, <2>5, <2>6, <2>7, <2>8, <2>9, LocalStep DEF CallOK
<1>7. \/ GoTo(c, "threw") /\ UNCHANGED <<outcome, event, response>>
      \/ /\ outcome' = [outcome EXCEPT ![c] = o]
         /\ IF config.correlation
            THEN GoTo(c, "mark") /\ UNCHANGED <<event, response>>
            ELSE Conclude(c, payload, o)
  BY DEF MatchExpected
<1> QED BY <1>4, <1>5, <1>6, <1>7

LEMMA CancelledEmitted == ASSUME IInv, NEW c \in Call, EmitCancelled(c) PROVE IInv'
<1> DEFINE e == [name |-> "callback:rejected", status |-> cancelledOutcome.status,
                 reason |-> cancelledOutcome.reason]
<1>1. TypeOK /\ CallOK(c) /\ pc[c] = "emit" BY DEF IInv, EmitCancelled
<1>2. config.correlation /\ Cancels(c) /\ request[c] # Null /\ claim[c] # Null /\ event[c] = Null
  BY <1>1 DEF CallOK, PhaseOK, InHand
<1>3. UNCHANGED <<config, rows, form, request, claim, response>> BY DEF EmitCancelled
<1>4. CASE claim[c].status # "claimed"
  <2>1. GoTo(c, "cancelled") /\ UNCHANGED <<event, outcome>> BY <1>4 DEF EmitCancelled
  <2>2. DOMAIN response' = Call BY <1>1, <1>3 DEF TypeOK
  <2> QED BY <1>3, <2>1, <2>2, QuietEnd
<1>5. CASE claim[c].status = "claimed"
  <2>1. event' = [event EXCEPT ![c] = e] /\ outcome' = [outcome EXCEPT ![c] = cancelledOutcome]
        /\ GoTo(c, "mark")
    BY <1>5 DEF EmitCancelled
  <2>2. e \in CallbackEvent BY DEF CallbackEvent, cancelledOutcome, TransactionStatus, Reason
  <2>3. cancelledOutcome \in Outcome BY DEF Outcome, cancelledOutcome, TransactionStatus, Reason
  <2>4. e # Null /\ cancelledOutcome # Null BY <2>2, <2>3, NullAssumption
  <2>5. e.status = cancelledOutcome.status /\ e.reason = cancelledOutcome.reason
        /\ e.name = "callback:rejected"
    OBVIOUS
  <2> HIDE DEF e
  <2>6. event'[c] = e /\ outcome'[c] = cancelledOutcome
        /\ event' \in [Call -> CallbackEvent \cup {Null}]
        /\ outcome' \in [Call -> Outcome \cup {Null}]
        /\ \A d \in Call \ {c} : outcome'[d] = outcome[d] /\ event'[d] = event[d]
    BY <1>1, <2>1, <2>2, <2>3 DEF TypeOK
  <2>7. pc'[c] = "mark" /\ (\A d \in Call \ {c} : pc'[d] = pc[d]) /\ (\A p \in Post : pc'[p] = pc[p])
    BY <1>1, <2>1, OneMoves
  <2>8. Cancels(c)' /\ PairOf(c)' = PairOf(c) /\ (Holds(c)' <=> Holds(c)) /\ Holds(c)
    BY <1>2, <1>3, <1>5 DEF Cancels, PairOf, Holds
  <2>9. PhaseOK(c)'
    <3>1. Claimed(c)' BY <1>2, <1>3, <1>5 DEF Claimed
    <3>2. Announces(c)' BY <2>4, <2>5, <2>6 DEF Announces
    <3> QED BY <1>2, <1>3, <2>4, <2>6, <2>7, <2>8, <3>1, <3>2 DEF PhaseOK
  <2>10. RowOK(c)' BY <1>1, <1>3, <2>7, <2>8 DEF CallOK, RowOK
  <2>11. EventOK(c)' BY <2>5, <2>6, <2>8 DEF EventOK
  <2>12. TypeOK'
    <3>1. pc' \in [Post \cup Call -> {"new", "record", "recorded", "done", "claim", "resolve", "match",
                 "emit", "mark", "marked", "cancelled", "answered", "threw", "dead"}]
      BY <1>1, <2>1 DEF TypeOK, GoTo
    <3> QED BY <1>1, <1>3, <2>6, <2>7, <3>1 DEF TypeOK
  <2> QED BY <1>3, <2>6, <2>7, <2>8, <2>9, <2>10, <2>11, <2>12, LocalStep DEF CallOK
<1> QED BY <1>4, <1>5

LEMMA VerdictEmitted == ASSUME IInv, NEW c \in Call, EmitVerdict(c) PROVE IInv'
<1>1. TypeOK /\ CallOK(c) /\ pc[c] = "marked" BY DEF IInv, EmitVerdict
<1>2. ~Cancels(c) /\ Holds(c) /\ outcome[c] # Null
      /\ outcome[c] = Matched(claim[c].payment, request[c].payload)
  BY <1>1 DEF CallOK, PhaseOK, Claimed, Holds
<1> DEFINE o == outcome[c]
<1>3. o \in Outcome BY <1>1, <1>2 DEF TypeOK
<1>4. outcome' = [outcome EXCEPT ![c] = o] BY <1>1 DEF TypeOK, EmitVerdict
<1>5. rows[PairOf(c)].outcome = o BY <1>1, <1>2 DEF CallOK, RowOK
<1>6. claim[c] # Null BY <1>2 DEF Holds
<1>7. o.reason = Null => request[c].payload.amount \in {Absent, claim[c].payment.amount}
  BY <1>2, MatchedAmount
<1>8. Conclude(c, request[c].payload, o) /\ UNCHANGED <<config, rows, form, request, claim>>
  BY DEF EmitVerdict
<1> HIDE DEF o
<1> QED BY <1>1, <1>2, <1>3, <1>4, <1>5, <1>6, <1>7, <1>8, AnnouncedStep DEF InHand

---------------------------------------------------------------------------
(* The store decides who holds a payment: the first claim on its row.       *)
LEMMA ClaimAnswered == ASSUME IInv, NEW c \in Call, Claim(c) PROVE IInv'
<1> DEFINE pair == PairOf(c)
           a == claimAnswer(pair)
<1>1. TypeOK /\ CallOK(c) /\ pc[c] = "claim" BY DEF IInv, Claim
<1>2. config.correlation /\ request[c] # Null /\ claim[c] = Null /\ event[c] = Null
      /\ (~Cancels(c) => request[c].payload.signed)
  BY <1>1 DEF CallOK, PhaseOK, InHand
<1>3. pair \in Pair BY <1>1, <1>2, RequestKinds
<1>4. /\ a \in CorrelationClaim /\ a # Null
      /\ a.status = "claimed" <=> rows[pair] # Null /\ ~rows[pair].claimed
      /\ a.status = "claimed" => a.payment = rows[pair].expected
  BY <1>1, <1>3, ClaimType
<1>5. /\ claim' = [claim EXCEPT ![c] = a]
      /\ rows' = IF a.status = "claimed" THEN [rows EXCEPT ![pair].claimed = TRUE] ELSE rows
      /\ UNCHANGED <<config, form, request, outcome, event, response>>
      /\ GoTo(c, IF Cancels(c) THEN "emit" ELSE "match")
  BY DEF Claim
<1> HIDE DEF a
<1>6. claim'[c] = a /\ claim' \in [Call -> CorrelationClaim \cup {Null}]
      /\ \A d \in Call \ {c} : claim'[d] = claim[d]
  BY <1>1, <1>4, <1>5 DEF TypeOK
<1>7. pc'[c] = (IF Cancels(c) THEN "emit" ELSE "match")
      /\ (\A d \in Call \ {c} : pc'[d] = pc[d]) /\ (\A p \in Post : pc'[p] = pc[p])
  BY <1>1, <1>5, OneMoves
<1>8. \A q \in Pair : rows[q] # Null => rows[q] \in Row BY <1>1 DEF TypeOK
<1>9. ASSUME NEW q \in Pair, rows[q] # Null
      PROVE  /\ rows'[q] \in Row /\ rows'[q] # Null
             /\ rows'[q].expected = rows[q].expected /\ rows'[q].outcome = rows[q].outcome
             /\ rows'[q].claimed <=> (rows[q].claimed \/ (q = pair /\ a.status = "claimed"))
  <2>1. CASE q = pair /\ a.status = "claimed"
    <3> DEFINE row == [rows[q] EXCEPT !.claimed = TRUE]
    <3>1. row \in Row /\ row.claimed /\ row.expected = rows[q].expected
          /\ row.outcome = rows[q].outcome
      BY <1>8, <1>9 DEF Row
    <3> HIDE DEF row
    <3>2. rows' = [rows EXCEPT ![q] = row] BY <2>1, <1>5 DEF row
    <3>3. rows'[q] = row BY <3>2, <1>1 DEF TypeOK
    <3> QED BY <3>1, <3>3, <2>1, NullAssumption
  <2>2. CASE ~(q = pair /\ a.status = "claimed")
    <3>1. rows'[q] = rows[q] BY <2>2, <1>1, <1>5 DEF TypeOK
    <3> QED BY <3>1, <2>2, <1>8, <1>9
  <2> QED BY <2>1, <2>2
<1>10. rows' \in [Pair -> Row \cup {Null}] /\ \A q \in Pair : rows[q] = Null => rows'[q] = Null
  <2>1. \A q \in Pair : rows[q] = Null => rows'[q] = Null
    BY <1>1, <1>4, <1>5 DEF TypeOK
  <2>2. \A q \in Pair : rows'[q] \in Row \cup {Null} BY <1>9, <2>1
  <2>3. rows' = [q \in Pair |-> rows'[q]] BY <1>1, <1>5 DEF TypeOK
  <2> QED BY <2>1, <2>2, <2>3
<1>11. (Cancels(c)' <=> Cancels(c)) /\ PairOf(c)' = pair BY <1>5 DEF Cancels, PairOf
<1>12. Holds(c)' <=> a.status = "claimed" BY <1>2, <1>4, <1>5, <1>6 DEF Holds
<1>13. ASSUME NEW d \in Call \ {c}
       PROVE  CallOK(d)' /\ (Holds(d)' <=> Holds(d)) /\ PairOf(d)' = PairOf(d)
  <2>1. CallOK(d) BY DEF IInv
  <2>2. ASSUME Holds(d)
        PROVE  /\ rows'[PairOf(d)] # Null /\ rows'[PairOf(d)].claimed
               /\ rows'[PairOf(d)].expected = rows[PairOf(d)].expected
               /\ rows'[PairOf(d)].outcome = rows[PairOf(d)].outcome
    <3>1. request[d] # Null /\ rows[PairOf(d)] # Null /\ rows[PairOf(d)].claimed
      BY <2>1, <2>2 DEF CallOK, RowOK
    <3>2. PairOf(d) \in Pair BY <3>1, <1>1, RequestKinds
    <3> QED BY <3>1, <3>2, <1>9
  <2> QED BY <2>1, <2>2, <1>5, <1>6, <1>7, Frame
<1>14. CallOK(c)'
  <2>1. PhaseOK(c)' BY <1>2, <1>4, <1>5, <1>6, <1>7, <1>11 DEF PhaseOK, InHand
  <2>2. RowOK(c)'
    <3> SUFFICES ASSUME Holds(c)' PROVE RowOK(c)' BY DEF RowOK
    <3>1. a.status = "claimed" /\ rows[pair] # Null /\ a.payment = rows[pair].expected
          /\ event'[c] = Null
      BY <1>2, <1>4, <1>5, <1>12
    <3>2. rows[pair].outcome = Null BY <3>1, <1>3, <1>4 DEF IInv, DecidedIsClaimed
    <3> QED BY <3>1, <3>2, <1>2, <1>3, <1>5, <1>6, <1>7, <1>9, <1>11, <1>12 DEF RowOK
  <2>3. EventOK(c)' BY <1>2, <1>5 DEF EventOK, Verdict
  <2> QED BY <2>1, <2>2, <2>3 DEF CallOK
<1>15. HoldersDiffer'
  <2> SUFFICES ASSUME NEW d \in Call, NEW e \in Call, Holds(d)', Holds(e)', PairOf(d)' = PairOf(e)'
               PROVE  d = e
    BY DEF HoldersDiffer
  <2>1. ASSUME NEW x \in Call \ {c}, Holds(x)' PROVE rows[PairOf(x)].claimed /\ Holds(x)
    <3>1. Holds(x) /\ CallOK(x) BY <2>1, <1>13 DEF IInv
    <3> QED BY <3>1 DEF CallOK, RowOK
  <2>2. Holds(c)' => ~rows[pair].claimed BY <1>4, <1>12
  <2>3. CASE d # c /\ e # c BY <2>1, <2>3, <1>13 DEF IInv, HoldersDiffer
  <2>4. CASE d = c /\ e # c BY <2>1, <2>2, <2>4, <1>11, <1>13
  <2>5. CASE d # c /\ e = c BY <2>1, <2>2, <2>5, <1>11, <1>13
  <2> QED BY <2>3, <2>4, <2>5
<1>16. RecordedOnce'
  <2> SUFFICES ASSUME NEW p \in Post, pc'[p] \in {"new", "record"} PROVE rows'[p] = Null
    BY DEF RecordedOnce
  <2>1. rows[p] = Null BY <1>7 DEF IInv, RecordedOnce
  <2> QED BY <2>1, <1>10 DEF Pair
<1>17. DecidedIsClaimed'
  <2> SUFFICES ASSUME NEW q \in Pair, rows'[q] # Null, ~rows'[q].claimed PROVE rows'[q].outcome = Null
    BY DEF DecidedIsClaimed
  <2>1. rows[q] # Null BY <1>10
  <2> QED BY <2>1, <1>9 DEF IInv, DecidedIsClaimed
<1>18. TypeOK'
  <2>1. pc' \in [Post \cup Call -> {"new", "record", "recorded", "done", "claim", "resolve", "match",
                 "emit", "mark", "marked", "cancelled", "answered", "threw", "dead"}]
    BY <1>1, <1>5 DEF TypeOK, GoTo
  <2> QED BY <1>1, <1>5, <1>6, <1>7, <1>10, <2>1 DEF TypeOK
<1> QED BY <1>13, <1>14, <1>15, <1>16, <1>17, <1>18 DEF IInv

LEMMA ProcessedMarked == ASSUME IInv, NEW c \in Call, MarkProcessed(c) PROVE IInv'
<1> DEFINE pair == PairOf(c)
           row == [rows[pair] EXCEPT !.outcome = outcome[c]]
<1>1. TypeOK /\ CallOK(c) /\ pc[c] = "mark" BY DEF IInv, MarkProcessed
<1>2. config.correlation /\ Claimed(c) /\ outcome[c] # Null /\ request[c] # Null
  BY <1>1 DEF CallOK, PhaseOK, InHand
<1>3. Holds(c) BY <1>2 DEF Holds, Claimed
<1>4. pair \in Pair /\ rows[pair] # Null /\ rows[pair].claimed /\ rows[pair].expected = claim[c].payment
  BY <1>1, <1>2, <1>3, RequestKinds DEF CallOK, RowOK
<1>5. rows[pair] \in Row /\ outcome[c] \in Outcome BY <1>1, <1>2, <1>4 DEF TypeOK
<1>6. /\ row \in Row /\ row.claimed /\ row.expected = rows[pair].expected
      /\ row.outcome = outcome[c]
  BY <1>4, <1>5 DEF Row
<1>7. row # Null BY <1>6, NullAssumption
<1>8. rows' = [rows EXCEPT ![pair] = row] BY DEF MarkProcessed
<1> HIDE DEF row
<1>9. /\ GoTo(c, IF Cancels(c) THEN "cancelled" ELSE "marked")
      /\ UNCHANGED <<config, form, request, claim, outcome, event, response>>
  BY DEF MarkProcessed
<1>10. rows'[pair] = row /\ rows' \in [Pair -> Row \cup {Null}]
       /\ \A q \in Pair \ {pair} : rows'[q] = rows[q]
  BY <1>1, <1>4, <1>6, <1>8 DEF TypeOK
<1>11. pc'[c] = (IF Cancels(c) THEN "cancelled" ELSE "marked")
       /\ (\A d \in Call \ {c} : pc'[d] = pc[d]) /\ (\A p \in Post : pc'[p] = pc[p])
  BY <1>1, <1>9, OneMoves
<1>12. (Cancels(c)' <=> Cancels(c)) /\ PairOf(c)' = pair /\ Holds(c)'
  BY <1>3, <1>9 DEF Cancels, PairOf, Holds
<1>13. ASSUME NEW d \in Call \ {c}
       PROVE  CallOK(d)' /\ (Holds(d)' <=> Holds(d)) /\ PairOf(d)' = PairOf(d)
  <2>1. CallOK(d) BY DEF IInv
  <2>2. ASSUME Holds(d)
        PROVE  rows[PairOf(d)] # Null /\ rows[PairOf(d)].claimed /\ rows'[PairOf(d)] = rows[PairOf(d)]
    <3>1. request[d] # Null /\ rows[PairOf(d)] # Null /\ rows[PairOf(d)].claimed
      BY <2>1, <2>2 DEF CallOK, RowOK
    <3>2. PairOf(d) \in Pair BY <3>1, <1>1, RequestKinds
    <3>3. PairOf(d) # pair BY <2>2, <1>3 DEF IInv, HoldersDiffer
    <3> QED BY <3>1, <3>2, <3>3, <1>10
  <2> QED BY <2>1, <2>2, <1>9, <1>11, Frame
<1>14. CallOK(c)'
  <2>1. PhaseOK(c)'
    <3>1. CASE Cancels(c) BY <3>1, <1>11 DEF PhaseOK, InHand
    <3>2. CASE ~Cancels(c)
      <4>1. /\ outcome[c] = Matched(claim[c].payment, request[c].payload)
            /\ request[c].payload.signed /\ event[c] = Null
        BY <3>2, <1>1 DEF CallOK, PhaseOK, InHand
      <4>2. outcome'[c] = Matched(claim'[c].payment, request'[c].payload) BY <4>1, <1>9
      <4>3. pc'[c] = "marked" BY <3>2, <1>11
      <4> QED BY <3>2, <4>1, <4>2, <4>3, <1>2, <1>9, <1>12 DEF PhaseOK, Claimed
    <3> QED BY <3>1, <3>2
  <2>2. RowOK(c)'
    <3>1. event[c] # Null => outcome[c] = [status |-> event[c].status, reason |-> event[c].reason]
      <4>1. event[c] # Null => Announces(c) BY <1>1 DEF CallOK, PhaseOK
      <4> QED BY <4>1, <1>5 DEF Announces, Outcome
    <3> QED BY <3>1, <1>2, <1>4, <1>6, <1>7, <1>9, <1>10, <1>11, <1>12 DEF RowOK
  <2>3. EventOK(c)' BY <1>1, <1>9, <1>12 DEF CallOK, EventOK, Verdict
  <2> QED BY <2>1, <2>2, <2>3 DEF CallOK
<1>15. HoldersDiffer' BY <1>3, <1>12, <1>13 DEF IInv, HoldersDiffer
<1>16. RecordedOnce'
  <2> SUFFICES ASSUME NEW p \in Post, pc'[p] \in {"new", "record"} PROVE rows'[p] = Null
    BY DEF RecordedOnce
  <2>1. rows[p] = Null BY <1>11 DEF IInv, RecordedOnce
  <2> QED BY <2>1, <1>4, <1>10 DEF Pair
<1>17. DecidedIsClaimed' BY <1>6, <1>10 DEF IInv, DecidedIsClaimed
<1>18. TypeOK'
  <2>1. pc' \in [Post \cup Call -> {"new", "record", "recorded", "done", "claim", "resolve", "match",
                 "emit", "mark", "marked", "cancelled", "answered", "threw", "dead"}]
    BY <1>1, <1>9 DEF TypeOK, GoTo
  <2> QED BY <1>1, <1>9, <1>10, <1>11, <2>1 DEF TypeOK
<1> QED BY <1>13, <1>14, <1>15, <1>16, <1>17, <1>18 DEF IInv

---------------------------------------------------------------------------
(* The steps of a post: only record() touches the store, and its row is new.*)
LEMMA PostStep ==
    ASSUME IInv, NEW p \in Post, NEW step \in {"record", "recorded", "done", "dead"}, GoTo(p, step),
           step = "record" => pc[p] = "new",
           form' \subseteq Post,
           UNCHANGED <<config, request, claim, outcome, event, response>>,
           \/ rows' = rows
           \/ \E e \in Expected :
                /\ pc[p] = "record" /\ step = "recorded"
                /\ rows' = [rows EXCEPT ![p] = [expected |-> e, claimed |-> FALSE, outcome |-> Null]]
    PROVE  IInv'
<1>1. TypeOK /\ p \in Pair BY DEF IInv, Pair
<1>2. pc'[p] = step /\ (\A d \in Call : pc'[d] = pc[d]) /\ (\A q \in Post \ {p} : pc'[q] = pc[q])
  BY <1>1, NameAssumption DEF TypeOK, GoTo
<1>3. /\ rows' \in [Pair -> Row \cup {Null}]
      /\ \A q \in Pair : rows[q] # Null => rows'[q] = rows[q]
      /\ \A q \in Post : rows'[q] = rows[q] \/ (q = p /\ step = "recorded")
      /\ \A q \in Pair : rows'[q] # Null /\ rows[q] = Null => rows'[q].outcome = Null
  <2>1. CASE rows' = rows BY <2>1, <1>1 DEF TypeOK
  <2>2. CASE \E e \in Expected :
                /\ pc[p] = "record" /\ step = "recorded"
                /\ rows' = [rows EXCEPT ![p] = [expected |-> e, claimed |-> FALSE, outcome |-> Null]]
    <3>1. PICK e \in Expected :
                /\ pc[p] = "record" /\ step = "recorded"
                /\ rows' = [rows EXCEPT ![p] = [expected |-> e, claimed |-> FALSE, outcome |-> Null]]
      BY <2>2
    <3> DEFINE row == [expected |-> e, claimed |-> FALSE, outcome |-> Null]
    <3>2. row \in Row /\ row.outcome = Null BY DEF Row
    <3> HIDE DEF row
    <3>3. rows' = [rows EXCEPT ![p] = row] BY <3>1 DEF row
    <3>4. rows[p] = Null BY <3>1 DEF IInv, RecordedOnce
    <3>5. rows'[p] = row /\ \A q \in Pair \ {p} : rows'[q] = rows[q] BY <3>3, <1>1 DEF TypeOK
    <3>6. rows' \in [Pair -> Row \cup {Null}] BY <3>2, <3>3, <1>1 DEF TypeOK
    <3> QED BY <3>1, <3>2, <3>4, <3>5, <3>6 DEF Pair
  <2> QED BY <2>1, <2>2
<1>4. ASSUME NEW d \in Call
      PROVE  CallOK(d)' /\ (Holds(d)' <=> Holds(d)) /\ PairOf(d)' = PairOf(d)
  <2>1. CallOK(d) BY DEF IInv
  <2>2. ASSUME Holds(d)
        PROVE  rows[PairOf(d)].claimed /\ rows'[PairOf(d)] = rows[PairOf(d)] /\ rows[PairOf(d)] # Null
    <3>1. request[d] # Null /\ rows[PairOf(d)] # Null /\ rows[PairOf(d)].claimed
      BY <2>1, <2>2 DEF CallOK, RowOK
    <3> QED BY <3>1, <1>1, <1>3, RequestKinds
  <2> QED BY <2>1, <2>2, <1>2, Frame
<1>5. HoldersDiffer' BY <1>4 DEF IInv, HoldersDiffer
<1>6. RecordedOnce'
  <2> SUFFICES ASSUME NEW q \in Post, pc'[q] \in {"new", "record"} PROVE rows'[q] = Null
    BY DEF RecordedOnce
  <2>1. pc[q] \in {"new", "record"} BY <1>2
  <2>2. rows[q] = Null BY <2>1 DEF IInv, RecordedOnce
  <2> QED BY <2>2, <1>2, <1>3
<1>7. DecidedIsClaimed' BY <1>3 DEF IInv, DecidedIsClaimed
<1>8. TypeOK'
  <2>1. pc' \in [Post \cup Call -> {"new", "record", "recorded", "done", "claim", "resolve", "match",
                 "emit", "mark", "marked", "cancelled", "answered", "threw", "dead"}]
    BY <1>1 DEF TypeOK, GoTo
  <2> QED BY <1>1, <1>2, <1>3, <2>1 DEF TypeOK
<1> QED BY <1>4, <1>5, <1>6, <1>7, <1>8 DEF IInv

LEMMA Prepared == ASSUME IInv, NEW p \in Post, Prepare(p) PROVE IInv'
<1>1. form' \subseteq Post BY DEF IInv, TypeOK, Prepare
<1> QED BY <1>1, PostStep DEF Prepare

LEMMA Recorded == ASSUME IInv, NEW p \in Post, Record(p) PROVE IInv'
<1>1. form' \subseteq Post BY DEF IInv, TypeOK, Record
<1> QED BY <1>1, PostStep DEF Record

LEMMA FormAnswered == ASSUME IInv, NEW p \in Post, AnswerForm(p) PROVE IInv'
<1>1. form' \subseteq Post BY DEF IInv, TypeOK, AnswerForm
<1> QED BY <1>1, PostStep DEF AnswerForm

LEMMA PostDies == ASSUME IInv, NEW p \in Post, Die(p) PROVE IInv'
<1>1. form' \subseteq Post BY DEF IInv, TypeOK, Die
<1> QED BY <1>1, PostStep DEF Die

---------------------------------------------------------------------------
(* The invariant is inductive.                                              *)
LEMMA Inductive == Spec => []IInv
<1>1. Init => IInv
  <2> SUFFICES ASSUME Init PROVE IInv OBVIOUS
  <2>1. TypeOK BY DEF Init, TypeOK
  <2>2. ASSUME NEW c \in Call PROVE CallOK(c)
    BY DEF Init, CallOK, PhaseOK, RowOK, EventOK, Verdict, Holds, InHand
  <2>3. HoldersDiffer /\ RecordedOnce /\ DecidedIsClaimed
    BY DEF Init, HoldersDiffer, Holds, RecordedOnce, DecidedIsClaimed, Pair
  <2> QED BY <2>1, <2>2, <2>3 DEF IInv
<1>2. IInv /\ [Next]_vars => IInv'
  <2> SUFFICES ASSUME IInv, [Next]_vars PROVE IInv' OBVIOUS
  <2>1. ASSUME NEW p \in Post, Serve(p) PROVE IInv'
    BY <2>1, Prepared, Recorded, FormAnswered DEF Serve
  <2>2. ASSUME NEW c \in Call, Receive(c) PROVE IInv'
    BY <2>2, CallbackReceived, CancelReceived, ResultRead DEF Receive
  <2>3. ASSUME NEW c \in Call, Continue(c) PROVE IInv'
    BY <2>3, ClaimAnswered, ExpectedResolved, ClaimRejected, ExpectedMatched, CancelledEmitted,
       ProcessedMarked, VerdictEmitted, CancelRedirected DEF Continue
  <2>4. ASSUME NEW x \in Post \cup Call, Die(x) PROVE IInv'
    BY <2>4, PostDies, CallDies
  <2>5. CASE UNCHANGED vars
    <3>1. UNCHANGED <<config, rows, form, pc, request, claim, outcome, event, response>>
      BY <2>5 DEF vars
    <3>2. ASSUME NEW d \in Call
          PROVE  CallOK(d)' /\ (Holds(d)' <=> Holds(d)) /\ PairOf(d)' = PairOf(d)
      <4>1. CallOK(d) BY DEF IInv
      <4>2. Holds(d) => rows[PairOf(d)] # Null /\ rows[PairOf(d)].claimed
        BY <4>1 DEF CallOK, RowOK
      <4> QED BY <3>1, <4>1, <4>2, Frame
    <3>3. TypeOK' BY <3>1 DEF IInv, TypeOK
    <3>4. HoldersDiffer' BY <3>2 DEF IInv, HoldersDiffer
    <3>5. RecordedOnce' /\ DecidedIsClaimed' BY <3>1 DEF IInv, RecordedOnce, DecidedIsClaimed
    <3> QED BY <3>2, <3>3, <3>4, <3>5 DEF IInv
  <2> QED BY <2>1, <2>2, <2>3, <2>4, <2>5 DEF Next
<1> QED BY <1>1, <1>2, PTL DEF Spec

(* The store, and everything a call remembers, keeps its type               *)
(* (payment-correlation-store.ts, stateless-callback-context.ts).           *)
THEOREM TypeCorrect == Spec => []TypeOK
<1>1. IInv => TypeOK BY DEF IInv
<1> QED BY <1>1, Inductive, PTL

(* However many callbacks and cancellations name a payment, one at most is  *)
(* announced as a verdict (match-expected-payment.ts, claim()).             *)
THEOREM OneVerdictPerPaymentHolds == Spec => []OneVerdictPerPayment
<1>1. IInv => OneVerdictPerPayment
  BY DEF IInv, CallOK, EventOK, HoldersDiffer, OneVerdictPerPayment
<1> QED BY <1>1, Inductive, PTL

(* A payment that is announced as completed was signed by the gateway, for  *)
(* the amount that was expected (match-expected-payment.ts, matches()).     *)
THEOREM CompletedWasExpectedHolds == Spec => []CompletedWasExpected
<1>1. IInv => CompletedWasExpected
  <2> SUFFICES ASSUME IInv, NEW c \in Call, event[c] # Null,
                      event[c].name = "callback:verified", event[c].status = "completed"
               PROVE  /\ request[c].payload.signed
                      /\ request[c].payload.amount \in {Absent, claim[c].payment.amount}
                      /\ config.correlation => /\ rows[request[c].payload.pair] # Null
                                               /\ rows[request[c].payload.pair].expected = claim[c].payment
    BY DEF CompletedWasExpected
  <2>1. CallOK(c) BY DEF IInv
  <2>2. ~Cancels(c) /\ event[c].reason = Null BY <2>1 DEF CallOK, EventOK
  <2>3. PairOf(c) = request[c].payload.pair BY <2>2 DEF PairOf
  <2>4. config.correlation => Holds(c) BY <2>1, <2>2 DEF CallOK, EventOK, Verdict
  <2> QED BY <2>1, <2>3, <2>4 DEF CallOK, EventOK, RowOK
<1> QED BY <1>1, Inductive, PTL

(* What listeners heard is what the store keeps (stateless-handlers.ts      *)
(* rejectCancelled, match-expected-payment.ts markProcessed).               *)
THEOREM OutcomeIsTheVerdictHolds == Spec => []OutcomeIsTheVerdict
<1>1. IInv => OutcomeIsTheVerdict BY DEF IInv, CallOK, RowOK, OutcomeIsTheVerdict
<1> QED BY <1>1, Inductive, PTL
============================================================================
