-------------------------- MODULE CheckoutProofs --------------------------
(* Theorems about Checkout for every value of its constants: any number of  *)
(* posts, keys and bodies.                                                  *)
EXTENDS Checkout, TLAPS

---------------------------------------------------------------------------
(* The inductive invariant.                                                 *)

(* A post that has not made its payment yet.                                *)
Fresh(r) == pc[r] \in {"new", "reclaim", "insert", "find", "persist"}

(* A post that answers with the payment its key is already linked to.       *)
Replaying(r) == pc[r] \in {"load", "list", "retry", "createAttempt", "resubmit"}

(* Where a payment comes from, and which payment a post works on.           *)
RequestInv ==
    /\ \A r \in Request : Fresh(r) => linked[r] = Null /\ payments[r] = Null
    /\ \A r \in Request : pc[r] \in {"metadata", "submit"} => linked[r] = r
    /\ \A r \in Request : pc[r] = "fail" =>
         \/ linked[r] = r /\ payments[r] # Null
         \/ linked[r] = Null /\ payments[r] = Null
    /\ \A r \in Request : payments[r] # Null =>
         /\ post[r] # Null
         /\ payments[r].key = post[r].key
         /\ payments[r].body = post[r].body

(* A post with a key walks the intent; a replay found its row and the link. *)
KeyedInv ==
    /\ \A r \in Request :
         pc[r] \in {"reclaim", "insert", "find", "submit", "fail"} \/ Replaying(r)
         => post[r].key \in Key
    /\ \A r \in Request : pc[r] = "find" => intents[post[r].key] # Null
    /\ \A r \in Request : Replaying(r) =>
         /\ intents[post[r].key] # Null
         /\ intents[post[r].key].transaction_id = linked[r]
         /\ intents[post[r].key].request_hash \in {Null, post[r].body}

(* The post that reserved a key is alone, and no other payment has the key. *)
OwnerInv ==
    \A r \in Request, k \in Key : Owner(r, k) =>
      /\ intents[k] = reserved(post[r].body)
      /\ \A q \in Request : Owner(q, k) => q = r
      /\ \A p \in Payment : payments[p] # Null /\ payments[p].key = k => p = r

(* A link names a payment of its key; a key that may be reserved has none.  *)
LinkInv ==
    \A k \in Key :
      /\ intents[k] = Null \/ reclaimable(intents[k]) =>
           \A p \in Payment : payments[p] # Null => payments[p].key # k
      /\ intents[k] # Null /\ intents[k].transaction_id # Null =>
           /\ payments[intents[k].transaction_id] # Null
           /\ payments[intents[k].transaction_id].key = k
           /\ payments[intents[k].transaction_id].body = intents[k].request_hash

IInv == TypeOK /\ RequestInv /\ KeyedInv /\ OwnerInv /\ LinkInv
          /\ OnePaymentPerKey /\ FormsMatchTheirPost

---------------------------------------------------------------------------
(* The rows that are written are rows.                                      *)
LEMMA ReservedType ==
    ASSUME NEW body \in Body
    PROVE  reserved(body) \in IntentRow
BY DEF reserved, IntentRow, IntentStatus

(* Init makes rows of the right types, and nothing has been posted yet.     *)
LEMMA InitTypeOK == Init => TypeOK
<1> SUFFICES ASSUME Init PROVE TypeOK
  OBVIOUS
<1>1. PICK k \in Key, row \in LegacyIntent \cup {Null} :
        /\ intents = [x \in Key |-> IF x = k THEN row ELSE Null]
        /\ payments = [p \in Payment |->
             IF p = Legacy /\ row # Null /\ row.transaction_id = Legacy
             THEN [key |-> k, body |-> Null, status |-> "pending", attempts |-> 1]
             ELSE Null]
  BY DEF Init
<1>2. row \in IntentRow \cup {Null}
  BY DEF LegacyIntent, IntentRow, IntentStatus, Payment
<1>3. [key |-> k, body |-> Null, status |-> "pending", attempts |-> 1] \in PaymentRow
  BY DEF PaymentRow, PaymentStatus
<1>4. intents \in [Key -> IntentRow \cup {Null}]
        /\ payments \in [Payment -> PaymentRow \cup {Null}]
  BY <1>1, <1>2, <1>3
<1> QED
  BY <1>4 DEF Init, TypeOK, Step, Working, LinkedStep

(* Every step keeps the types of the rows and of what the posts hold.       *)
LEMMA TypeStep == IInv /\ [Next]_vars => TypeOK'
<1> SUFFICES ASSUME IInv, [Next]_vars PROVE TypeOK'
  OBVIOUS
<1> USE NameAssumption, AbsentAssumption DEF IInv
<1>1. ASSUME NEW r \in Request, NEW k \in Key \cup {NoKey}, NEW b \in Body,
             Post(r, k, b)
      PROVE  TypeOK'
  <2>1. [key |-> k, body |-> b] \in Posted
    BY DEF Posted
  <2>2. [key |-> k, body |-> b] # Null
    BY <2>1
  <2> QED
    BY <1>1, <2>1, <2>2 DEF TypeOK, Post, GoTo, Step, Working, LinkedStep
<1>2. ASSUME NEW r \in Request, Reclaim(r) \/ InsertIntent(r)
      PROVE  TypeOK'
  <2>1. post[r].key \in Key /\ post[r] \in Posted
    BY <1>2 DEF TypeOK, KeyedInv, Reclaim, InsertIntent, Working, Posted
  <2>2. reserved(post[r].body) \in IntentRow
    BY <2>1, ReservedType DEF Posted
  <2> QED
    BY <1>2, <2>1, <2>2 DEF TypeOK, Reclaim, InsertIntent, GoTo, Step, Working,
       LinkedStep
<1>3. ASSUME NEW r \in Request, PersistTransaction(r)
      PROVE  TypeOK'
  <2>1. post[r] \in Posted /\ r \in Payment
    BY <1>3 DEF TypeOK, PersistTransaction, Working, Payment
  <2>2. [key |-> post[r].key, body |-> post[r].body, status |-> "pending",
         attempts |-> 1] \in PaymentRow
    BY <2>1 DEF PaymentRow, PaymentStatus, Posted
  <2> QED
    BY <1>3, <2>1, <2>2 DEF TypeOK, PersistTransaction, GoTo, Step, Working,
       LinkedStep
<1>4. ASSUME NEW r \in Request, PersistFails(r) \/ SubmitFails(r) \/ Crash(r)
      PROVE  TypeOK'
  BY <1>4 DEF TypeOK, PersistFails, SubmitFails, Crash, GoTo, Step, Working,
     LinkedStep, afterFailure
<1>5. ASSUME NEW r \in Request, pc[r] \in LinkedStep, Answer(r),
             UNCHANGED <<payments, post, linked, held>>,
             intents' \in [Key -> IntentRow \cup {Null}]
      PROVE  TypeOK'
  <2>1. /\ post[r] \in Posted
        /\ linked[r] \in Payment
    BY <1>5 DEF TypeOK, Working, LinkedStep
  <2>2. [key |-> post[r].key, body |-> post[r].body, payment |-> linked[r]] \in Form
    BY <2>1 DEF Form, Posted
  <2> QED
    BY <1>5, <2>1, <2>2 DEF TypeOK, Answer, GoTo, Step, Working, LinkedStep
<1>6. ASSUME NEW r \in Request, CaptureRequestMetadata(r)
      PROVE  TypeOK'
  <2>1. CASE Answer(r)
    BY <1>5, <1>6, <2>1 DEF TypeOK, CaptureRequestMetadata, LinkedStep
  <2>2. CASE UNCHANGED forms /\ (GoTo(r, "submit") \/ GoTo(r, afterFailure(r)))
    BY <1>6, <2>2 DEF TypeOK, CaptureRequestMetadata, GoTo, Step, Working,
       LinkedStep, afterFailure
  <2> QED
    BY <1>6, <2>1, <2>2 DEF CaptureRequestMetadata
<1>7. ASSUME NEW r \in Request, SubmitIntent(r)
      PROVE  TypeOK'
  <2>1. pc[r] \in LinkedStep /\ post[r].key \in Key /\ linked[r] \in Payment
    BY <1>7 DEF SubmitIntent, LinkedStep, KeyedInv, Replaying, TypeOK
  <2>2. intents[post[r].key] \in IntentRow
    BY <1>7, <2>1 DEF SubmitIntent, OwnerInv, Owner, KeyedInv, Replaying, TypeOK,
       reserved
  <2>3. intents' \in [Key -> IntentRow \cup {Null}]
    BY <1>7, <2>1, <2>2 DEF SubmitIntent, TypeOK, IntentRow, IntentStatus
  <2> QED
    BY <1>5, <1>7, <2>1, <2>3 DEF SubmitIntent
<1>8. ASSUME NEW r \in Request, FailIntent(r)
      PROVE  TypeOK'
  <2>1. post[r].key \in Key /\ linked[r] \in Payment \cup {Null}
    BY <1>8 DEF FailIntent, KeyedInv, TypeOK
  <2>2. intents[post[r].key] = reserved(post[r].body) /\ post[r].body \in Body
    BY <1>8, <2>1 DEF FailIntent, OwnerInv, Owner, TypeOK, Working, Posted
  <2>3. intents' \in [Key -> IntentRow \cup {Null}]
    BY <1>8, <2>1, <2>2, ReservedType DEF FailIntent, TypeOK, IntentRow, IntentStatus
  <2> QED
    BY <1>8, <2>3 DEF TypeOK, FailIntent, GoTo, Step, Working, LinkedStep
<1>9. ASSUME NEW r \in Request, FindIntent(r)
      PROVE  TypeOK'
  <2>1. post[r].key \in Key /\ intents[post[r].key] \in IntentRow
    BY <1>9 DEF FindIntent, KeyedInv, TypeOK
  <2>2. CASE replayable(intents[post[r].key], post[r].body)
    <3> DEFINE tx == intents[post[r].key].transaction_id
    <3>1. tx \in Payment /\ payments[tx] # Null
      BY <2>1, <2>2 DEF replayable, LinkInv, IntentRow
    <3> QED
      BY <1>9, <2>2, <3>1 DEF TypeOK, FindIntent, GoTo, Step, Working, LinkedStep
  <2>3. CASE ~replayable(intents[post[r].key], post[r].body)
    BY <1>9, <2>3 DEF TypeOK, FindIntent, GoTo, Step, Working, LinkedStep
  <2> QED
    BY <2>2, <2>3
<1>10. ASSUME NEW r \in Request, LoadTransaction(r) \/ ListAttempts(r) \/ CheckRetryLimit(r)
      PROVE  TypeOK'
  <2>1. linked[r] \in Payment /\ payments[linked[r]] \in PaymentRow
    BY <1>10 DEF TypeOK, LoadTransaction, ListAttempts, CheckRetryLimit, LinkedStep
  <2>2. payments[linked[r]].status \in PaymentStatus
    BY <2>1 DEF PaymentRow
  <2> QED
    BY <1>10, <2>2 DEF TypeOK, LoadTransaction, ListAttempts, CheckRetryLimit,
       GoTo, Step, Working, LinkedStep
<1>11. ASSUME NEW r \in Request, CreateRetryPaymentAttempt(r)
      PROVE  TypeOK'
  <2>1. linked[r] \in Payment /\ payments[linked[r]] \in PaymentRow
    BY <1>11 DEF TypeOK, CreateRetryPaymentAttempt, LinkedStep
  <2>2. payments' \in [Payment -> PaymentRow \cup {Null}]
    BY <1>11, <2>1 DEF TypeOK, CreateRetryPaymentAttempt, PaymentRow, PaymentStatus
  <2>3. \A p \in Payment : payments[p] # Null => payments'[p] # Null
    BY <1>11, <2>1, <2>2 DEF TypeOK, CreateRetryPaymentAttempt, PaymentRow
  <2> QED
    BY <1>11, <2>2, <2>3 DEF TypeOK, CreateRetryPaymentAttempt, GoTo, Step, Working,
       LinkedStep
<1>12. ASSUME NEW p \in Payment, NEW status \in {"failed", "settled"}, Settle(p, status)
      PROVE  TypeOK'
  <2>1. payments[p] \in PaymentRow
    BY <1>12 DEF TypeOK, Settle
  <2>2. [payments[p] EXCEPT !.status = status] \in PaymentRow
    BY <2>1 DEF PaymentRow, PaymentStatus
  <2>3. /\ payments' \in [Payment -> PaymentRow \cup {Null}]
        /\ \A q \in Payment : payments[q] # Null => payments'[q] # Null
    BY <1>12, <2>2 DEF TypeOK, Settle
  <2> QED
    BY <1>12, <2>3 DEF TypeOK, Settle, Working, LinkedStep
<1>13. CASE UNCHANGED vars
  BY <1>13 DEF TypeOK, vars, Working
<1> QED
  BY <1>1, <1>2, <1>3, <1>4, <1>6, <1>7, <1>8, <1>9, <1>10, <1>11, <1>12, <1>13
     DEF Next, Serve

(* A step that creates no payment keeps every payment, its key and its body. *)
SamePayments ==
    \A p \in Payment :
      /\ payments'[p] = Null <=> payments[p] = Null
      /\ payments[p] # Null => /\ payments'[p].key = payments[p].key
                               /\ payments'[p].body = payments[p].body

(* Only PersistTransaction creates a payment, and no step takes one away.   *)
LEMMA PaymentStep ==
    IInv /\ [Next]_vars => SamePayments \/ \E r \in Request : PersistTransaction(r)
<1> SUFFICES ASSUME IInv, [Next]_vars, \A r \in Request : ~PersistTransaction(r)
             PROVE  SamePayments
  OBVIOUS
<1>1. CASE UNCHANGED payments
  BY <1>1 DEF SamePayments
<1>2. ASSUME NEW q \in Payment, NEW row \in PaymentRow,
             payments[q] \in PaymentRow, row.key = payments[q].key,
             row.body = payments[q].body, payments' = [payments EXCEPT ![q] = row]
      PROVE  SamePayments
  <2>1. payments \in [Payment -> PaymentRow \cup {Null}]
    BY DEF IInv, TypeOK
  <2> QED
    BY <1>2, <2>1, AbsentAssumption DEF SamePayments
<1>3. ASSUME NEW r \in Request, CreateRetryPaymentAttempt(r)
      PROVE  SamePayments
  <2> DEFINE row == [payments[linked[r]] EXCEPT !.status = "pending",
                                                !.attempts = @ + 1]
  <2>1. linked[r] \in Payment /\ payments[linked[r]] \in PaymentRow
    BY <1>3 DEF IInv, TypeOK, CreateRetryPaymentAttempt, LinkedStep
  <2>2. row \in PaymentRow
    <3>1. row = [payments[linked[r]] EXCEPT !.status = "pending",
                   !.attempts = payments[linked[r]].attempts + 1]
      BY <2>1 DEF PaymentRow
    <3>2. payments[linked[r]].attempts + 1 \in Nat
      BY <2>1 DEF PaymentRow
    <3> QED
      BY <2>1, <3>1, <3>2 DEF PaymentRow, PaymentStatus
  <2>3. row.key = payments[linked[r]].key /\ row.body = payments[linked[r]].body
    BY <2>1 DEF PaymentRow
  <2>4. payments' = [payments EXCEPT ![linked[r]] = row] \/ UNCHANGED payments
    BY <1>3 DEF CreateRetryPaymentAttempt
  <2> HIDE DEF row
  <2> QED
    BY <1>1, <1>2, <2>1, <2>2, <2>3, <2>4
<1>4. ASSUME NEW p \in Payment, NEW status \in {"failed", "settled"}, Settle(p, status)
      PROVE  SamePayments
  <2> DEFINE row == [payments[p] EXCEPT !.status = status]
  <2>1. payments[p] \in PaymentRow
    BY <1>4 DEF IInv, TypeOK, Settle
  <2>2. row \in PaymentRow
    BY <2>1 DEF PaymentRow, PaymentStatus
  <2>3. row.key = payments[p].key /\ row.body = payments[p].body
    BY <2>1 DEF PaymentRow
  <2>4. payments' = [payments EXCEPT ![p] = row]
    BY <1>4 DEF Settle
  <2> HIDE DEF row
  <2> QED
    BY <1>2, <2>1, <2>2, <2>3, <2>4
<1> QED
  BY <1>1, <1>3, <1>4 DEF Next, Serve, Post, Reclaim, InsertIntent, PersistFails,
     CaptureRequestMetadata, SubmitIntent, SubmitFails, FailIntent, FindIntent,
     LoadTransaction, ListAttempts, CheckRetryLimit, Crash, Answer, vars

(* RequestInv is kept by every step.                                        *)
LEMMA RequestStep == IInv /\ [Next]_vars => RequestInv'
<1> SUFFICES ASSUME IInv, [Next]_vars PROVE RequestInv'
  OBVIOUS
<1> USE NameAssumption, AbsentAssumption DEF IInv
<1>1. ASSUME NEW r \in Request, PersistTransaction(r)
      PROVE  RequestInv'
  <2>1. r \in Payment /\ post[r] \in Posted
    BY <1>1 DEF TypeOK, PersistTransaction, Working, Payment
  <2> DEFINE row == [key |-> post[r].key, body |-> post[r].body,
                     status |-> "pending", attempts |-> 1]
  <2>2. row \in PaymentRow
    BY <2>1 DEF PaymentRow, PaymentStatus, Posted
  <2>3. row # Null /\ row.key = post[r].key /\ row.body = post[r].body
    BY <2>2
  <2> HIDE DEF row
  <2>4. payments' = [payments EXCEPT ![r] = row]
    BY <1>1 DEF PersistTransaction, row
  <2> QED
    BY <1>1, <2>1, <2>3, <2>4 DEF RequestInv, TypeOK, PersistTransaction, GoTo, Fresh,
       Payment
<1>2. ASSUME SamePayments, NEW r \in Request,
             \/ Reclaim(r) \/ InsertIntent(r) \/ PersistFails(r)
             \/ CaptureRequestMetadata(r) \/ SubmitIntent(r) \/ SubmitFails(r)
             \/ FailIntent(r) \/ LoadTransaction(r) \/ ListAttempts(r)
             \/ CheckRetryLimit(r) \/ CreateRetryPaymentAttempt(r) \/ Crash(r)
      PROVE  RequestInv'
  BY <1>2 DEF RequestInv, SamePayments, TypeOK, Payment, Fresh, GoTo, Answer,
     Reclaim, InsertIntent, PersistFails, CaptureRequestMetadata, SubmitIntent,
     SubmitFails, FailIntent, LoadTransaction, ListAttempts, CheckRetryLimit,
     CreateRetryPaymentAttempt, Crash, afterFailure, LinkedStep, Working
<1>3. ASSUME SamePayments, NEW r \in Request, FindIntent(r)
      PROVE  RequestInv'
  BY <1>3 DEF RequestInv, SamePayments, TypeOK, Payment, Fresh, GoTo, FindIntent
<1>4. ASSUME SamePayments, NEW r \in Request, NEW k \in Key \cup {NoKey},
             NEW b \in Body, Post(r, k, b)
      PROVE  RequestInv'
  BY <1>4 DEF RequestInv, SamePayments, TypeOK, Payment, Fresh, GoTo, Post
<1>5. ASSUME SamePayments, UNCHANGED <<pc, post, linked>>
      PROVE  RequestInv'
  BY <1>5 DEF RequestInv, SamePayments, Payment, Fresh
<1> QED
  BY <1>1, <1>2, <1>3, <1>4, <1>5, PaymentStep DEF Next, Serve, Settle, vars

(* The post that reserved a key, on its way to submit() or fail().          *)
LEMMA ReservedKey ==
    ASSUME IInv, NEW r \in Request, pc[r] \in {"submit", "fail"}
    PROVE  /\ post[r].key \in Key /\ Owner(r, post[r].key)
           /\ intents[post[r].key] \in IntentRow
           /\ intents[post[r].key].transaction_id = Null
           /\ intents[post[r].key].request_hash = post[r].body
           /\ linked[r] # Null => linked[r] = r /\ payments[r] # Null
           /\ linked[r] = Null => pc[r] = "fail" /\ payments[r] = Null
<1> USE AbsentAssumption DEF IInv
<1>1. post[r].key \in Key /\ post[r].body \in Body /\ r \in Payment
  BY DEF KeyedInv, TypeOK, Working, Posted, Payment
<1>2. Owner(r, post[r].key)
  BY DEF Owner
<1>3. intents[post[r].key] = reserved(post[r].body)
  BY <1>1, <1>2 DEF OwnerInv
<1>4. /\ linked[r] # Null => linked[r] = r /\ payments[r] # Null
      /\ linked[r] = Null => pc[r] = "fail" /\ payments[r] = Null
  BY <1>1 DEF RequestInv, TypeOK, LinkedStep
<1> QED
  BY <1>1, <1>2, <1>3, <1>4, ReservedType DEF reserved

(* A replay holds the payment its key is linked to.                         *)
LEMMA ReplayedKey ==
    ASSUME IInv, NEW r \in Request, Replaying(r)
    PROVE  /\ post[r].key \in Key
           /\ intents[post[r].key] \in IntentRow
           /\ intents[post[r].key].transaction_id = linked[r]
           /\ linked[r] \in Payment /\ payments[linked[r]] # Null
BY AbsentAssumption DEF IInv, KeyedInv, TypeOK, Replaying, LinkedStep

(* submit() and fail() write the link and the status, and end the post.     *)
LEMMA LinkedRow ==
    ASSUME IInv, NEW r \in Request, SubmitIntent(r) \/ FailIntent(r)
    PROVE  /\ pc[r] \in {"submit", "fail", "resubmit"}
           /\ pc' = [pc EXCEPT ![r] = "done"]
           /\ UNCHANGED <<payments, post, linked>>
           /\ post[r].key \in Key
           /\ \E row \in IntentRow :
                /\ row.status = IF pc[r] = "fail" THEN "failed" ELSE "submitted"
                /\ row.transaction_id = linked[r]
                /\ row.request_hash = intents[post[r].key].request_hash
                /\ intents' = [intents EXCEPT ![post[r].key] = row]
<1> DEFINE k == post[r].key
           status == IF pc[r] = "fail" THEN "failed" ELSE "submitted"
           row == [intents[k] EXCEPT !.status = status, !.transaction_id = linked[r]]
<1>1. pc[r] \in {"submit", "fail", "resubmit"}
  BY DEF SubmitIntent, FailIntent
<1>2. /\ pc' = [pc EXCEPT ![r] = "done"]
      /\ UNCHANGED <<payments, post, linked>>
  BY DEF SubmitIntent, FailIntent, Answer, GoTo
<1>3. k \in Key /\ intents[k] \in IntentRow /\ linked[r] \in Payment \cup {Null}
  BY <1>1, ReservedKey, ReplayedKey DEF Replaying, IInv, TypeOK
<1>4. row \in IntentRow
  BY <1>3 DEF IntentRow, IntentStatus
<1>5. /\ row.status = status
      /\ row.transaction_id = linked[r]
      /\ row.request_hash = intents[k].request_hash
  BY <1>3 DEF IntentRow
<1>6. intents' = [intents EXCEPT ![k] = row]
  <2>1. CASE SubmitIntent(r)
    BY <2>1 DEF SubmitIntent
  <2>2. CASE FailIntent(r)
    BY <2>2 DEF FailIntent
  <2> QED
    BY <2>1, <2>2
<1> HIDE DEF row
<1> QED
  BY <1>1, <1>2, <1>3, <1>4, <1>5, <1>6

(* KeyedInv is kept by every step.                                          *)
LEMMA KeyedStep == IInv /\ [Next]_vars => KeyedInv'
<1> SUFFICES ASSUME IInv, [Next]_vars PROVE KeyedInv'
  OBVIOUS
<1> USE NameAssumption, AbsentAssumption DEF IInv
<1>1. ASSUME NEW r \in Request, Reclaim(r) \/ InsertIntent(r)
      PROVE  KeyedInv'
  <2> DEFINE k == post[r].key
  <2>1. k \in Key /\ post[r].body \in Body
    BY <1>1 DEF KeyedInv, Reclaim, InsertIntent, TypeOK, Working, Posted
  <2>2. reserved(post[r].body) # Null
    BY <2>1, ReservedType
  <2>3. CASE UNCHANGED intents
    BY <1>1, <2>1, <2>3 DEF KeyedInv, Reclaim, InsertIntent, TypeOK, GoTo, Replaying
  <2>4. CASE /\ intents' = [intents EXCEPT ![k] = reserved(post[r].body)]
             /\ intents[k] = Null \/ reclaimable(intents[k])
             /\ GoTo(r, "persist")
    <3>1. \A q \in Request : Replaying(q) => post[q].key # k
      BY <2>4 DEF KeyedInv, TypeOK, Replaying, LinkedStep, reclaimable
    <3> QED
      BY <1>1, <2>1, <2>2, <2>4, <3>1 DEF KeyedInv, Reclaim, InsertIntent, TypeOK,
         GoTo, Replaying
  <2> QED
    BY <1>1, <2>3, <2>4 DEF Reclaim, InsertIntent
<1>2. ASSUME NEW r \in Request, SubmitIntent(r) \/ FailIntent(r)
      PROVE  KeyedInv'
  <2> DEFINE k == post[r].key
  <2>1. PICK row \in IntentRow :
          /\ row.transaction_id = linked[r]
          /\ row.request_hash = intents[k].request_hash
          /\ intents' = [intents EXCEPT ![k] = row]
    BY <1>2, LinkedRow
  <2>2. /\ k \in Key /\ row # Null
        /\ pc' = [pc EXCEPT ![r] = "done"] /\ UNCHANGED <<post, linked>>
    BY <1>2, LinkedRow
  <2>3. ASSUME NEW q \in Request, Replaying(q), post[q].key = k
        PROVE  linked[q] = linked[r]
    <3>1. CASE pc[r] = "resubmit"
      BY <2>3, <3>1, ReplayedKey DEF Replaying
    <3>2. CASE pc[r] # "resubmit"
      BY <1>2, <2>3, <3>2, LinkedRow, ReservedKey, ReplayedKey
    <3> QED
      BY <3>1, <3>2
  <2> QED
    BY <2>1, <2>2, <2>3 DEF KeyedInv, TypeOK, Replaying
<1>3. ASSUME NEW r \in Request, FindIntent(r)
      PROVE  KeyedInv'
  BY <1>3 DEF KeyedInv, FindIntent, TypeOK, GoTo, Replaying, replayable
<1>4. ASSUME NEW r \in Request, NEW k \in Key \cup {NoKey}, NEW b \in Body,
             Post(r, k, b)
      PROVE  KeyedInv'
  BY <1>4 DEF KeyedInv, Post, TypeOK, GoTo, Replaying
<1>5. ASSUME NEW r \in Request,
             \/ PersistTransaction(r) \/ PersistFails(r) \/ SubmitFails(r)
             \/ CaptureRequestMetadata(r) \/ Crash(r)
      PROVE  KeyedInv'
  <2>1. post[r] \in Posted
    BY <1>5 DEF TypeOK, PersistTransaction, PersistFails, SubmitFails,
       CaptureRequestMetadata, Crash, Working
  <2> QED
    BY <1>5, <2>1 DEF KeyedInv, TypeOK, GoTo, Replaying, PersistTransaction,
       PersistFails, SubmitFails, CaptureRequestMetadata, Crash, Answer,
       afterFailure, Posted
<1>6. ASSUME NEW r \in Request,
             \/ LoadTransaction(r) \/ ListAttempts(r) \/ CheckRetryLimit(r)
             \/ CreateRetryPaymentAttempt(r)
      PROVE  KeyedInv'
  BY <1>6 DEF KeyedInv, TypeOK, GoTo, Replaying, LoadTransaction, ListAttempts,
     CheckRetryLimit, CreateRetryPaymentAttempt
<1>7. CASE UNCHANGED <<intents, pc, post, linked>>
  BY <1>7 DEF KeyedInv, Replaying
<1> QED
  BY <1>1, <1>2, <1>3, <1>4, <1>5, <1>6, <1>7 DEF Next, Serve, Settle, vars

(* OwnerInv is kept by every step.                                          *)
LEMMA OwnerStep == IInv /\ [Next]_vars => OwnerInv'
<1> SUFFICES ASSUME IInv, [Next]_vars PROVE OwnerInv'
  OBVIOUS
<1> USE NameAssumption, AbsentAssumption DEF IInv
<1>1. ASSUME NEW r \in Request, Reclaim(r) \/ InsertIntent(r)
      PROVE  OwnerInv'
  <2> DEFINE k == post[r].key
  <2>1. k \in Key /\ UNCHANGED <<post, payments>>
    BY <1>1 DEF KeyedInv, Reclaim, InsertIntent
  <2>2. CASE UNCHANGED intents /\ pc' = [pc EXCEPT ![r] = IF Reclaim(r) THEN "insert" ELSE "find"]
    BY <1>1, <2>1, <2>2 DEF OwnerInv, Owner, TypeOK
  <2>3. CASE /\ intents' = [intents EXCEPT ![k] = reserved(post[r].body)]
             /\ intents[k] = Null \/ reclaimable(intents[k])
             /\ GoTo(r, "persist")
    <3>1. \A q \in Request : ~Owner(q, k)
      <4>1. \A body : ~reclaimable(reserved(body))
        BY DEF reclaimable, reserved
      <4>2. \A q \in Request : Owner(q, k) => post[q].body \in Body
        BY DEF Owner, TypeOK, Working, Posted
      <4> QED
        BY <2>1, <2>3, <4>1, <4>2, ReservedType DEF OwnerInv
    <3>2. \A p \in Payment : payments[p] # Null => payments[p].key # k
      BY <2>1, <2>3 DEF LinkInv
    <3> QED
      BY <1>1, <2>1, <2>3, <3>1, <3>2 DEF OwnerInv, Owner, TypeOK, GoTo
  <2> QED
    BY <1>1, <2>2, <2>3 DEF Reclaim, InsertIntent, GoTo
<1>2. ASSUME NEW r \in Request, SubmitIntent(r) \/ FailIntent(r)
      PROVE  OwnerInv'
  <2> DEFINE k == post[r].key
  <2>1. PICK row \in IntentRow : intents' = [intents EXCEPT ![k] = row]
    BY <1>2, LinkedRow
  <2>2. /\ k \in Key /\ pc[r] \in {"submit", "fail", "resubmit"}
        /\ pc' = [pc EXCEPT ![r] = "done"] /\ UNCHANGED <<post, payments>>
    BY <1>2, LinkedRow
  <2>3. ASSUME NEW q \in Request, Owner(q, k)
        PROVE  q = r
    <3>1. CASE pc[r] = "resubmit"
      <4>1. intents[k].transaction_id # Null
        BY <3>1, ReplayedKey DEF Replaying
      <4>2. intents[k] = reserved(post[q].body)
        BY <2>2, <2>3 DEF OwnerInv
      <4> QED
        BY <4>1, <4>2 DEF reserved
    <3>2. CASE pc[r] # "resubmit"
      BY <2>2, <2>3, <3>2, ReservedKey DEF OwnerInv
    <3> QED
      BY <3>1, <3>2
  <2> QED
    BY <2>1, <2>2, <2>3 DEF OwnerInv, Owner, TypeOK
<1>3. ASSUME NEW r \in Request, PersistTransaction(r)
      PROVE  OwnerInv'
  <2>1. \A p \in Payment : p # r => payments'[p] = payments[p]
    BY <1>3 DEF PersistTransaction, TypeOK
  <2>2. post[r] \in Posted /\ r \in Payment
    BY <1>3 DEF PersistTransaction, TypeOK, Working, Payment
  <2>3. payments'[r].key = post[r].key
    BY <1>3, <2>2 DEF PersistTransaction, TypeOK
  <2> QED
    BY <1>3, <2>1, <2>2, <2>3 DEF OwnerInv, Owner, PersistTransaction, TypeOK, GoTo
<1>4. ASSUME SamePayments, UNCHANGED <<intents, post>>, NEW r \in Request,
             \A q \in Request \ {r} : pc'[q] = pc[q],
             \A k \in Key : Owner(r, k)' => Owner(r, k)
      PROVE  OwnerInv'
  BY <1>4 DEF OwnerInv, Owner, SamePayments
<1>5. ASSUME SamePayments, NEW r \in Request,
             \/ PersistFails(r) \/ CaptureRequestMetadata(r) \/ SubmitFails(r)
             \/ FindIntent(r) \/ LoadTransaction(r) \/ ListAttempts(r)
             \/ CheckRetryLimit(r) \/ CreateRetryPaymentAttempt(r) \/ Crash(r)
      PROVE  OwnerInv'
  <2>1. UNCHANGED <<intents, post>>
    BY <1>5 DEF PersistFails, CaptureRequestMetadata, SubmitFails, FindIntent,
       LoadTransaction, ListAttempts, CheckRetryLimit, CreateRetryPaymentAttempt,
       Crash
  <2>2. \A q \in Request \ {r} : pc'[q] = pc[q]
    BY <1>5 DEF TypeOK, GoTo, Answer, PersistFails, CaptureRequestMetadata,
       SubmitFails, FindIntent, LoadTransaction, ListAttempts, CheckRetryLimit,
       CreateRetryPaymentAttempt, Crash
  <2>3. \A k \in Key : Owner(r, k)' => Owner(r, k)
    BY <1>5 DEF TypeOK, Owner, GoTo, Answer, PersistFails, CaptureRequestMetadata,
       SubmitFails, FindIntent, LoadTransaction, ListAttempts, CheckRetryLimit,
       CreateRetryPaymentAttempt, Crash, afterFailure
  <2> QED
    BY <1>4, <1>5, <2>1, <2>2, <2>3
<1>6. ASSUME NEW r \in Request, NEW k \in Key \cup {NoKey}, NEW b \in Body,
             Post(r, k, b)
      PROVE  OwnerInv'
  BY <1>6 DEF OwnerInv, Owner, Post, TypeOK, GoTo
<1>7. ASSUME SamePayments, UNCHANGED <<intents, pc, post>>
      PROVE  OwnerInv'
  BY <1>7 DEF OwnerInv, Owner, SamePayments
<1> QED
  BY <1>1, <1>2, <1>3, <1>5, <1>6, <1>7, PaymentStep DEF Next, Serve, Settle, vars

(* LinkInv is kept by every step.                                           *)
LEMMA LinkStep == IInv /\ [Next]_vars => LinkInv'
<1> SUFFICES ASSUME IInv, [Next]_vars PROVE LinkInv'
  OBVIOUS
<1> USE NameAssumption, AbsentAssumption DEF IInv
<1>1. ASSUME NEW r \in Request, PersistTransaction(r)
      PROVE  LinkInv'
  <2>1. /\ \A p \in Payment : p # r => payments'[p] = payments[p]
        /\ post[r] \in Posted /\ r \in Payment /\ payments[r] = Null
    BY <1>1 DEF PersistTransaction, TypeOK, Working, Payment, RequestInv, Fresh
  <2>2. payments'[r].key = post[r].key
    BY <1>1, <2>1 DEF PersistTransaction, TypeOK
  <2>3. \A k \in Key : intents[k] # Null /\ intents[k].transaction_id # Null =>
          /\ intents[k].transaction_id \in Payment
          /\ intents[k].transaction_id # r
    BY <2>1 DEF LinkInv, TypeOK, IntentRow
  <2>4. \A k \in Key : intents[k] = Null \/ reclaimable(intents[k]) => post[r].key # k
    BY <1>1, ReservedType DEF OwnerInv, Owner, PersistTransaction, reserved,
       reclaimable, TypeOK, Working, Posted
  <2>5. UNCHANGED intents
    BY <1>1 DEF PersistTransaction
  <2> QED
    BY <2>1, <2>2, <2>3, <2>4, <2>5 DEF LinkInv
<1>2. ASSUME NEW r \in Request, SubmitIntent(r) \/ FailIntent(r)
      PROVE  LinkInv'
  <2> DEFINE k == post[r].key
  <2>1. PICK row \in IntentRow :
          /\ row.status = IF pc[r] = "fail" THEN "failed" ELSE "submitted"
          /\ row.transaction_id = linked[r]
          /\ row.request_hash = intents[k].request_hash
          /\ intents' = [intents EXCEPT ![k] = row]
    BY <1>2, LinkedRow
  <2>2. /\ k \in Key /\ row # Null /\ UNCHANGED payments
        /\ pc[r] \in {"submit", "fail", "resubmit"}
    BY <1>2, LinkedRow
  <2>3. linked[r] # Null =>
          /\ payments[linked[r]] # Null
          /\ payments[linked[r]].key = k
          /\ payments[linked[r]].body = row.request_hash
    <3>1. CASE pc[r] = "resubmit"
      <4>1. /\ intents[k] # Null /\ intents[k].transaction_id = linked[r]
            /\ linked[r] \in Payment
        BY <3>1, ReplayedKey DEF Replaying
      <4> QED
        BY <2>1, <2>2, <4>1 DEF LinkInv
    <3>2. CASE pc[r] # "resubmit"
      BY <2>1, <2>2, <3>2, ReservedKey DEF RequestInv
    <3> QED
      BY <3>1, <3>2
  <2>4. ASSUME reclaimable(row), NEW p \in Payment, payments[p] # Null
        PROVE  payments[p].key # k
    <3>1. pc[r] = "fail" /\ linked[r] = Null
      BY <2>1, <2>4 DEF reclaimable
    <3>2. payments[r] = Null /\ Owner(r, k)
      BY <3>1, ReservedKey
    <3> QED
      BY <2>2, <2>4, <3>2 DEF OwnerInv
  <2> QED
    BY <2>1, <2>2, <2>3, <2>4 DEF LinkInv, TypeOK
<1>3. ASSUME NEW r \in Request, Reclaim(r) \/ InsertIntent(r)
      PROVE  LinkInv'
  <2> DEFINE k == post[r].key
  <2>1. k \in Key /\ UNCHANGED payments
    BY <1>3 DEF KeyedInv, Reclaim, InsertIntent
  <2>2. intents' = [intents EXCEPT ![k] = reserved(post[r].body)] \/ UNCHANGED intents
    BY <1>3 DEF Reclaim, InsertIntent
  <2>3. post[r].body \in Body
    BY <1>3 DEF Reclaim, InsertIntent, TypeOK, Working, Posted
  <2>4. /\ reserved(post[r].body) # Null
        /\ ~reclaimable(reserved(post[r].body))
        /\ reserved(post[r].body).transaction_id = Null
    BY <2>3, ReservedType DEF reserved, reclaimable
  <2> QED
    BY <2>1, <2>2, <2>4 DEF LinkInv, TypeOK
<1>4. ASSUME SamePayments, UNCHANGED intents
      PROVE  LinkInv'
  BY <1>4 DEF LinkInv, SamePayments, TypeOK, IntentRow
<1> QED
  BY <1>1, <1>2, <1>3, <1>4, PaymentStep DEF Next, Serve, Post, PersistFails,
     CaptureRequestMetadata, SubmitFails, FindIntent, LoadTransaction,
     ListAttempts, CheckRetryLimit, CreateRetryPaymentAttempt, Crash, Settle, vars

(* A payment whose key is set was made by the post that owned the key, and  *)
(* the key had none before.                                                 *)
LEMMA OnePaymentStep == IInv /\ [Next]_vars => OnePaymentPerKey'
<1> SUFFICES ASSUME IInv, [Next]_vars PROVE OnePaymentPerKey'
  OBVIOUS
<1> USE NameAssumption, AbsentAssumption DEF IInv
<1>1. ASSUME NEW r \in Request, PersistTransaction(r)
      PROVE  OnePaymentPerKey'
  <2>1. /\ \A p \in Payment : p # r => payments'[p] = payments[p]
        /\ post[r] \in Posted /\ r \in Payment
    BY <1>1 DEF PersistTransaction, TypeOK, Working, Payment
  <2>2. payments'[r].key = post[r].key
    BY <1>1, <2>1 DEF PersistTransaction, TypeOK
  <2>3. \A p \in Payment : payments[p] # Null /\ payments[p].key = post[r].key
          => p = r \/ post[r].key = NoKey
    BY <1>1, <2>1 DEF OwnerInv, Owner, PersistTransaction, Posted
  <2> QED
    BY <2>1, <2>2, <2>3 DEF OnePaymentPerKey
<1>2. CASE SamePayments
  BY <1>2 DEF OnePaymentPerKey, SamePayments
<1> QED
  BY <1>1, <1>2, PaymentStep

(* A form is answered by the post that made its payment or by a replay.     *)
LEMMA FormsStep == IInv /\ [Next]_vars => FormsMatchTheirPost'
<1> SUFFICES ASSUME IInv, [Next]_vars PROVE FormsMatchTheirPost'
  OBVIOUS
<1> USE NameAssumption, AbsentAssumption DEF IInv
<1>1. forms \in SUBSET Form
  BY DEF TypeOK
<1>2. ASSUME NEW r \in Request, PersistTransaction(r)
      PROVE  FormsMatchTheirPost'
  <2>1. /\ \A p \in Payment : p # r => payments'[p] = payments[p]
        /\ payments[r] = Null /\ UNCHANGED forms
    BY <1>2 DEF PersistTransaction, TypeOK, RequestInv, Fresh
  <2> QED
    BY <1>1, <2>1 DEF FormsMatchTheirPost, Form
<1>3. ASSUME NEW r \in Request, Answer(r), UNCHANGED payments,
             CaptureRequestMetadata(r) \/ SubmitIntent(r)
      PROVE  FormsMatchTheirPost'
  <2>1. /\ payments[linked[r]] # Null
        /\ payments[linked[r]].key = post[r].key
        /\ payments[linked[r]].body \in {post[r].body, Null}
    <3>1. CASE pc[r] \in {"metadata", "submit"}
      BY <3>1 DEF RequestInv, TypeOK, LinkedStep
    <3>2. CASE pc[r] = "resubmit"
      BY <3>2, ReplayedKey DEF KeyedInv, LinkInv, Replaying
    <3> QED
      BY <1>3, <3>1, <3>2 DEF CaptureRequestMetadata, SubmitIntent
  <2> QED
    BY <1>3, <2>1 DEF Answer, FormsMatchTheirPost
<1>4. CASE SamePayments /\ UNCHANGED forms
  BY <1>1, <1>4 DEF FormsMatchTheirPost, SamePayments, Form
<1> QED
  BY <1>2, <1>3, <1>4, PaymentStep DEF Next, Serve, Post, Reclaim, InsertIntent,
     PersistFails, CaptureRequestMetadata, SubmitIntent, SubmitFails, FailIntent,
     FindIntent, LoadTransaction, ListAttempts, CheckRetryLimit,
     CreateRetryPaymentAttempt, Settle, Crash, vars

(* The inductive invariant holds: payments, links and reservations of every *)
(* key agree in every state.                                                *)
THEOREM InvariantHolds == Spec => []IInv
<1>1. Init => IInv
  <2> SUFFICES ASSUME Init PROVE IInv
    OBVIOUS
  <2> USE NameAssumption, AbsentAssumption
  <2>1. TypeOK
    BY InitTypeOK
  <2>2. PICK k \in Key, row \in LegacyIntent \cup {Null} :
          /\ intents = [x \in Key |-> IF x = k THEN row ELSE Null]
          /\ payments = [p \in Payment |->
               IF p = Legacy /\ row # Null /\ row.transaction_id = Legacy
               THEN [key |-> k, body |-> Null, status |-> "pending", attempts |-> 1]
               ELSE Null]
    BY DEF Init
  <2>3. Legacy \in Payment /\ \A r \in Request : r # Legacy /\ r \in Payment
    BY DEF Payment
  <2>4. /\ \A p \in Payment : payments[p] # Null => p = Legacy
        /\ payments[Legacy] # Null => /\ row # Null /\ row.transaction_id = Legacy
                                      /\ payments[Legacy].key = k
                                      /\ payments[Legacy].body = Null
    BY <2>2, <2>3
  <2>5. row # Null /\ row.transaction_id = Legacy => payments[Legacy] # Null
    <3>1. [key |-> k, body |-> Null, status |-> "pending", attempts |-> 1] \in PaymentRow
      BY DEF PaymentRow, PaymentStatus
    <3> QED
      BY <2>2, <2>3, <3>1
  <2>6. \A r \in Request : pc[r] = "new" /\ linked[r] = Null
    BY DEF Init
  <2>7. RequestInv /\ KeyedInv /\ OwnerInv
    BY <2>3, <2>4, <2>6 DEF RequestInv, KeyedInv, OwnerInv, Owner, Fresh, Replaying
  <2>8. LinkInv
    <3>1. row # Null => /\ row.request_hash = Null
                        /\ row.transaction_id \in {Null, Legacy}
                        /\ reclaimable(row) => row.transaction_id = Null
      BY DEF LegacyIntent, reclaimable
    <3> QED
      BY <2>2, <2>3, <2>4, <2>5, <3>1 DEF LinkInv, reclaimable, Payment
  <2>9. OnePaymentPerKey /\ FormsMatchTheirPost
    BY <2>4 DEF Init, OnePaymentPerKey, FormsMatchTheirPost
  <2> QED
    BY <2>1, <2>7, <2>8, <2>9 DEF IInv
<1>2. IInv /\ [Next]_vars => IInv'
  BY TypeStep, RequestStep, KeyedStep, OwnerStep, LinkStep, OnePaymentStep, FormsStep
     DEF IInv
<1> QED
  BY <1>1, <1>2, PTL DEF Spec

(* The rows keep their types and a request works on a payment that exists.  *)
THEOREM TypeOKHolds == Spec => []TypeOK
<1>1. IInv => TypeOK
  BY DEF IInv
<1> QED
  BY <1>1, InvariantHolds, PTL

(* However a checkout is posted, its key has at most one payment.           *)
THEOREM OnePaymentPerKeyHolds == Spec => []OnePaymentPerKey
<1>1. IInv => OnePaymentPerKey
  BY DEF IInv
<1> QED
  BY <1>1, InvariantHolds, PTL

(* Every answered form is one of the payment of its key and of its body.    *)
THEOREM FormsMatchTheirPostHolds == Spec => []FormsMatchTheirPost
<1>1. IInv => FormsMatchTheirPost
  BY DEF IInv
<1> QED
  BY <1>1, InvariantHolds, PTL

---------------------------------------------------------------------------
(* No step moves a link: only a row without one is reclaimed, the owner of  *)
(* a key finds no link on it, and a replay writes the link it read.         *)
THEOREM LinkNeverMovesHolds == Spec => LinkNeverMoves
<1> DEFINE Kept ==
      \A k \in Key :
        intents[k] # Null /\ intents[k].transaction_id # Null
        => /\ intents'[k] # Null
           /\ intents'[k].transaction_id = intents[k].transaction_id
<1>1. IInv /\ [Next]_vars => Kept
  <2> SUFFICES ASSUME IInv, [Next]_vars PROVE Kept
    OBVIOUS
  <2> USE AbsentAssumption
  <2>1. intents \in [Key -> IntentRow \cup {Null}]
    BY DEF IInv, TypeOK
  <2>2. ASSUME NEW r \in Request, SubmitIntent(r) \/ FailIntent(r)
        PROVE  Kept
    <3>1. PICK row \in IntentRow :
            /\ row.transaction_id = linked[r]
            /\ intents' = [intents EXCEPT ![post[r].key] = row]
      BY <2>2, LinkedRow
    <3>2. \/ intents[post[r].key].transaction_id = Null
          \/ intents[post[r].key].transaction_id = linked[r]
      BY <2>2, LinkedRow, ReservedKey, ReplayedKey DEF Replaying
    <3> QED
      BY <2>1, <3>1, <3>2
  <2>3. ASSUME NEW r \in Request, Reclaim(r) \/ InsertIntent(r)
        PROVE  Kept
    <3>1. \/ UNCHANGED intents
          \/ /\ intents' = [intents EXCEPT ![post[r].key] = reserved(post[r].body)]
             /\ intents[post[r].key] = Null \/ reclaimable(intents[post[r].key])
      BY <2>3 DEF Reclaim, InsertIntent
    <3> QED
      BY <2>1, <3>1 DEF reclaimable
  <2>4. CASE UNCHANGED intents
    BY <2>4
  <2> QED
    BY <2>2, <2>3, <2>4 DEF Next, Serve, Post, PersistTransaction, PersistFails,
       CaptureRequestMetadata, SubmitFails, FindIntent, LoadTransaction,
       ListAttempts, CheckRetryLimit, CreateRetryPaymentAttempt, Crash, Settle, vars
<1>2. IInv /\ [Next]_vars => [Kept]_vars
  BY <1>1
<1> HIDE DEF Kept
<1>3. Spec => [][Kept]_vars
  BY <1>2, InvariantHolds, PTL DEF Spec
<1> QED
  BY <1>3 DEF LinkNeverMoves, Kept

(* A key is processing only while the post that reserved it is on its way   *)
(* to submit() or fail(), or died on that way.                              *)
THEOREM ReservationIsServedHolds == Spec => []ReservationIsServed
<1>1. Init => ReservationIsServed
  <2> SUFFICES ASSUME Init, NEW k \in Key PROVE ~Processing(k)
    BY DEF ReservationIsServed
  <2>1. PICK x \in Key, row \in LegacyIntent \cup {Null} :
          intents = [y \in Key |-> IF y = x THEN row ELSE Null]
    BY DEF Init
  <2> QED
    BY <2>1 DEF Processing, LegacyIntent
<1>2. ReservationIsServed /\ IInv /\ [Next]_vars => ReservationIsServed'
  <2> SUFFICES ASSUME ReservationIsServed, IInv, [Next]_vars
               PROVE  ReservationIsServed'
    OBVIOUS
  <2> USE AbsentAssumption
  <2>0. pc \in [Request -> Step] /\ intents \in [Key -> IntentRow \cup {Null}]
    BY DEF IInv, TypeOK
  <2>1. ASSUME NEW r \in Request, Reclaim(r) \/ InsertIntent(r)
        PROVE  ReservationIsServed'
    <3> DEFINE k == post[r].key
    <3>1. CASE UNCHANGED intents
      BY <2>0, <2>1, <3>1 DEF ReservationIsServed, Processing, Owner, Reclaim,
         InsertIntent, GoTo, Step
    <3>2. CASE /\ intents' = [intents EXCEPT ![k] = reserved(post[r].body)]
               /\ GoTo(r, "persist") /\ UNCHANGED post
               /\ pc[r] \in {"reclaim", "insert"}
      BY <2>0, <3>2 DEF ReservationIsServed, Processing, Owner, GoTo
    <3> QED
      BY <2>1, <3>1, <3>2 DEF Reclaim, InsertIntent
  <2>2. ASSUME NEW r \in Request, SubmitIntent(r) \/ FailIntent(r)
        PROVE  ReservationIsServed'
    <3>1. PICK row \in IntentRow :
            /\ row.status = IF pc[r] = "fail" THEN "failed" ELSE "submitted"
            /\ intents' = [intents EXCEPT ![post[r].key] = row]
      BY <2>2, LinkedRow
    <3>2. /\ pc[r] \in {"submit", "fail", "resubmit"} /\ post[r].key \in Key
          /\ pc' = [pc EXCEPT ![r] = "done"] /\ UNCHANGED post
      BY <2>2, LinkedRow
    <3>3. \A k \in Key \ {post[r].key}, q \in Request :
            Owner(q, k) \/ pc[q] = "dead" => Owner(q, k)' \/ pc'[q] = "dead"
      BY <2>0, <3>2 DEF Owner
    <3>4. \A k \in Key : Processing(k)' => Processing(k) /\ k # post[r].key
      BY <2>0, <3>1, <3>2 DEF Processing
    <3> QED
      BY <3>3, <3>4 DEF ReservationIsServed
  <2>3. ASSUME UNCHANGED <<intents, post>>, NEW r \in Request,
               \A q \in Request \ {r} : pc'[q] = pc[q],
               \A k \in Key : Owner(r, k) => Owner(r, k)' \/ pc'[r] = "dead",
               pc[r] # "dead"
        PROVE  ReservationIsServed'
    BY <2>3 DEF ReservationIsServed, Processing, Owner
  <2>4. ASSUME NEW r \in Request,
               \/ PersistTransaction(r) \/ PersistFails(r) \/ CaptureRequestMetadata(r)
               \/ SubmitFails(r) \/ FindIntent(r) \/ LoadTransaction(r)
               \/ ListAttempts(r) \/ CheckRetryLimit(r)
               \/ CreateRetryPaymentAttempt(r) \/ Crash(r)
        PROVE  ReservationIsServed'
    <3>1. UNCHANGED <<intents, post>>
      BY <2>4 DEF PersistTransaction, PersistFails, CaptureRequestMetadata,
         SubmitFails, FindIntent, LoadTransaction, ListAttempts, CheckRetryLimit,
         CreateRetryPaymentAttempt, Crash
    <3>2. pc[r] # "dead" /\ \A q \in Request \ {r} : pc'[q] = pc[q]
      BY <2>0, <2>4 DEF GoTo, Answer, PersistTransaction, PersistFails,
         CaptureRequestMetadata, SubmitFails, FindIntent, LoadTransaction,
         ListAttempts, CheckRetryLimit, CreateRetryPaymentAttempt, Crash, Working
    <3>3. \A k \in Key : Owner(r, k) => Owner(r, k)' \/ pc'[r] = "dead"
      BY <2>0, <2>4, NameAssumption DEF Owner, GoTo, Answer, afterFailure,
         PersistTransaction, PersistFails, CaptureRequestMetadata, SubmitFails,
         FindIntent, LoadTransaction, ListAttempts, CheckRetryLimit,
         CreateRetryPaymentAttempt, Crash
    <3> QED
      BY <2>3, <3>1, <3>2, <3>3
  <2>5. ASSUME NEW r \in Request, NEW k \in Key \cup {NoKey}, NEW b \in Body,
               Post(r, k, b)
        PROVE  ReservationIsServed'
    BY <2>0, <2>5 DEF ReservationIsServed, Processing, Owner, Post, GoTo, IInv, TypeOK
  <2>6. CASE UNCHANGED <<intents, pc, post>>
    BY <2>6 DEF ReservationIsServed, Processing, Owner
  <2> QED
    BY <2>1, <2>2, <2>4, <2>5, <2>6 DEF Next, Serve, Settle, vars
<1> QED
  BY <1>1, <1>2, InvariantHolds, PTL DEF Spec

---------------------------------------------------------------------------
(* The handlers implement the contract.                                     *)

(* What is charged is read off the payment of the key.                      *)
LEMMA ChargedPayment ==
    ASSUME OnePaymentPerKey, NEW k \in Key, NoKey \notin Key,
           NEW p \in Payment, payments[p] # Null, payments[p].key = k
    PROVE  charged[k] = [payment |-> p, body |-> payments[p].body]
<1>1. PaymentsOf(k) = {p}
  BY DEF PaymentsOf, OnePaymentPerKey
<1> DEFINE q == CHOOSE q \in PaymentsOf(k) : TRUE
<1>2. q = p
  BY <1>1
<1>3. charged[k] = [payment |-> q, body |-> payments[q].body]
  BY <1>1 DEF charged
<1> HIDE DEF q
<1> QED
  BY <1>2, <1>3

(* A key without a payment is not charged.                                  *)
LEMMA NotCharged ==
    ASSUME NEW k \in Key, \A p \in Payment : payments[p] # Null => payments[p].key # k
    PROVE  charged[k] = Null
<1>1. PaymentsOf(k) = {}
  BY DEF PaymentsOf
<1> QED
  BY <1>1 DEF charged

(* A step that creates no payment charges nothing.                          *)
LEMMA ChargedKept ==
    ASSUME SamePayments
    PROVE  UNCHANGED charged
<1>1. ASSUME NEW k \in Key
      PROVE  PaymentsOf(k)' = PaymentsOf(k)
  BY DEF SamePayments, PaymentsOf
<1>2. ASSUME NEW k \in Key, PaymentsOf(k) # {}
      PROVE  payments'[CHOOSE p \in PaymentsOf(k) : TRUE].body
               = payments[CHOOSE p \in PaymentsOf(k) : TRUE].body
  <2> DEFINE q == CHOOSE p \in PaymentsOf(k) : TRUE
  <2>1. q \in PaymentsOf(k)
    BY <1>2
  <2> HIDE DEF q
  <2>2. payments'[q].body = payments[q].body
    BY <2>1 DEF SamePayments, PaymentsOf
  <2> QED
    BY <2>2 DEF q
<1>3. \A k \in Key : charged'[k] = charged[k]
  BY <1>1, <1>2 DEF charged
<1> QED
  BY <1>3 DEF charged

(* PersistTransaction charges the key of the post, once.                    *)
LEMMA PersistCharges ==
    ASSUME IInv, OnePaymentPerKey', NEW r \in Request, PersistTransaction(r)
    PROVE  IF post[r].key = NoKey THEN UNCHANGED charged
           ELSE /\ charged[post[r].key] = Null
                /\ charged' = [charged EXCEPT ![post[r].key] =
                                 [payment |-> r, body |-> post[r].body]]
<1> USE NameAssumption, AbsentAssumption DEF IInv
<1> DEFINE key == post[r].key
<1>1. /\ \A p \in Payment : p # r => payments'[p] = payments[p]
      /\ post[r] \in Posted /\ r \in Payment
      /\ payments[r] = Null /\ UNCHANGED post
  BY DEF PersistTransaction, TypeOK, Working, Payment, RequestInv, Fresh
<1>2. [key |-> key, body |-> post[r].body, status |-> "pending", attempts |-> 1]
        \in PaymentRow
  BY <1>1 DEF PaymentRow, PaymentStatus, Posted
<1>3. /\ payments'[r] # Null /\ payments'[r].key = key
      /\ payments'[r].body = post[r].body
  BY <1>1, <1>2 DEF PersistTransaction, TypeOK
<1>4. ASSUME NEW k \in Key, k # key
      PROVE  charged'[k] = charged[k]
  <2>1. PaymentsOf(k)' = PaymentsOf(k) /\ r \notin PaymentsOf(k)
    BY <1>1, <1>3, <1>4 DEF PaymentsOf
  <2>2. \A p \in PaymentsOf(k) : payments'[p] = payments[p]
    BY <1>1, <2>1 DEF PaymentsOf
  <2> QED
    BY <2>1, <2>2 DEF charged
<1>5. CASE key = NoKey
  BY <1>4, <1>5 DEF charged
<1>6. CASE key # NoKey
  <2>1. key \in Key
    BY <1>1, <1>6 DEF Posted
  <2>2. \A p \in Payment : payments[p] # Null => payments[p].key # key
    BY <1>1, <2>1 DEF OwnerInv, Owner, PersistTransaction
  <2>3. charged[key] = Null
    BY <2>1, <2>2, NotCharged
  <2>4. charged'[key] = [payment |-> r, body |-> post[r].body]
    <3> SUFFICES ASSUME NEW k \in Key, k = key
                 PROVE  charged'[k] = [payment |-> r, body |-> post[r].body]
      BY <2>1
    <3> DEFINE q == CHOOSE q \in PaymentsOf(k)' : TRUE
    <3>1. PaymentsOf(k)' = {r}
      BY <1>1, <1>3, <2>2 DEF PaymentsOf
    <3>2. q = r
      BY <3>1
    <3>3. charged'[k] = [payment |-> q, body |-> payments'[q].body]
      BY <3>1 DEF charged
    <3> HIDE DEF q
    <3> QED
      BY <1>3, <3>2, <3>3
  <2>5. /\ charged \in [Key -> {charged[k] : k \in Key}]
        /\ charged' = [k \in Key |-> charged'[k]]
        /\ charged = [k \in Key |-> charged[k]]
    BY DEF charged
  <2> QED
    BY <1>4, <1>6, <2>1, <2>3, <2>4, <2>5
<1> QED
  BY <1>5, <1>6

(* An answered form is one the contract allows.                             *)
LEMMA AnswerAllowed ==
    ASSUME IInv, NEW r \in Request, Answer(r), UNCHANGED payments,
           CaptureRequestMetadata(r) \/ SubmitIntent(r), post[r].key \in Key
    PROVE  /\ charged[post[r].key] =
                [payment |-> linked[r], body |-> payments[linked[r]].body]
           /\ payments[linked[r]].body \in {post[r].body, Null}
<1> USE NameAssumption, AbsentAssumption DEF IInv
<1>1. /\ payments[linked[r]] # Null
      /\ payments[linked[r]].key = post[r].key
      /\ payments[linked[r]].body \in {post[r].body, Null}
      /\ linked[r] \in Payment
  <2>1. CASE pc[r] \in {"metadata", "submit"}
    BY <2>1 DEF RequestInv, TypeOK, LinkedStep, Payment
  <2>2. CASE pc[r] = "resubmit"
    BY <2>2, ReplayedKey DEF KeyedInv, LinkInv, Replaying
  <2> QED
    BY <2>1, <2>2 DEF CaptureRequestMetadata, SubmitIntent
<1> QED
  BY <1>1, ChargedPayment

(* The handlers implement CheckoutContract: every step charges a key that   *)
(* was not charged, answers a form of what was charged, or is a stutter.    *)
THEOREM Implements == Spec => ImplementsContract
<1> DEFINE answeredForms == {f \in forms : f.key \in Key}
<1>1. Init => Contract!Init
  <2> SUFFICES ASSUME Init PROVE Contract!Init
    OBVIOUS
  <2> USE NameAssumption, AbsentAssumption
  <2>1. \A p \in Payment : payments[p] # Null =>
          p = Legacy /\ payments[p].body = Null
    <3>1. PICK k \in Key, row \in LegacyIntent \cup {Null} :
            payments = [p \in Payment |->
              IF p = Legacy /\ row # Null /\ row.transaction_id = Legacy
              THEN [key |-> k, body |-> Null, status |-> "pending", attempts |-> 1]
              ELSE Null]
      BY DEF Init
    <3> QED
      BY <3>1
  <2>2. OnePaymentPerKey
    BY <2>1 DEF OnePaymentPerKey
  <2>3. ASSUME NEW k \in Key
        PROVE  charged[k] \in [payment : Payment, body : {Null}] \cup {Null}
    <3>1. CASE \E p \in Payment : payments[p] # Null /\ payments[p].key = k
      <4>1. PICK p \in Payment : payments[p] # Null /\ payments[p].key = k
        BY <3>1
      <4>2. charged[k] = [payment |-> p, body |-> payments[p].body]
        BY <2>2, <4>1, ChargedPayment
      <4> QED
        BY <2>1, <4>1, <4>2
    <3>2. CASE \A p \in Payment : payments[p] # Null => payments[p].key # k
      BY <3>2, NotCharged
    <3> QED
      BY <3>1, <3>2
  <2>4. charged \in [Key -> [payment : Payment, body : {Null}] \cup {Null}]
    BY <2>3 DEF charged
  <2> QED
    BY <2>4 DEF Init, Contract!Init
<1>2. IInv /\ OnePaymentPerKey' /\ [Next]_vars => [Contract!Next]_(Contract!vars)
  <2> SUFFICES ASSUME IInv, OnePaymentPerKey', [Next]_vars
               PROVE  Contract!Next \/ UNCHANGED <<charged, answeredForms>>
    BY DEF Contract!vars
  <2> USE NameAssumption, AbsentAssumption
  <2>1. ASSUME NEW r \in Request, PersistTransaction(r)
        PROVE  Contract!Next \/ UNCHANGED <<charged, answeredForms>>
    <3>1. post[r] \in Posted /\ r \in Payment /\ UNCHANGED answeredForms
      BY <2>1 DEF IInv, TypeOK, PersistTransaction, Working, Payment
    <3>2. CASE post[r].key = NoKey
      BY <2>1, <3>1, <3>2, PersistCharges
    <3>3. CASE post[r].key # NoKey
      <4>1. Contract!Charge(post[r].key, r, post[r].body)
        BY <2>1, <3>1, <3>3, PersistCharges DEF Contract!Charge
      <4> QED
        BY <3>1, <3>3, <4>1 DEF Contract!Next, Posted
    <3> QED
      BY <3>2, <3>3
  <2>2. ASSUME NEW r \in Request, Answer(r), UNCHANGED payments,
               CaptureRequestMetadata(r) \/ SubmitIntent(r)
        PROVE  Contract!Next \/ UNCHANGED <<charged, answeredForms>>
    <3> DEFINE form == [key |-> post[r].key, body |-> post[r].body,
                        payment |-> linked[r]]
    <3>1. post[r] \in Posted /\ forms' = forms \cup {form}
      BY <2>2 DEF Answer, IInv, TypeOK, Working, CaptureRequestMetadata, SubmitIntent
    <3>2. UNCHANGED charged
      BY <2>2, ChargedKept DEF SamePayments
    <3>3. CASE post[r].key \notin Key
      BY <3>1, <3>2, <3>3
    <3>4. ASSUME NEW k \in Key, NEW b \in Body, post[r].key = k, post[r].body = b
          PROVE  Contract!Answer(k, b)
      <4>1. answeredForms' = answeredForms \cup {form}
        BY <3>1, <3>4
      <4>2. /\ charged[k] = [payment |-> linked[r], body |-> payments[linked[r]].body]
            /\ payments[linked[r]].body \in {b, Null}
        BY <2>2, <3>4, AnswerAllowed
      <4>3. [payment |-> linked[r], body |-> payments[linked[r]].body] \in Charged
        BY <2>2, <3>4, <4>2 DEF Charged, IInv, TypeOK, LinkedStep,
           CaptureRequestMetadata, SubmitIntent
      <4> QED
        BY <3>2, <3>4, <4>1, <4>2, <4>3 DEF Contract!Answer
    <3> QED
      BY <3>1, <3>3, <3>4 DEF Contract!Next, Posted
  <2>3. CASE SamePayments /\ UNCHANGED forms
    BY <2>3, ChargedKept
  <2> QED
    BY <2>1, <2>2, <2>3, PaymentStep DEF Next, Serve, Post, Reclaim, InsertIntent,
       PersistFails, CaptureRequestMetadata, SubmitIntent, SubmitFails, FailIntent,
       FindIntent, LoadTransaction, ListAttempts, CheckRetryLimit,
       CreateRetryPaymentAttempt, Settle, Crash, vars
<1> QED
  BY <1>1, <1>2, InvariantHolds, OnePaymentPerKeyHolds, PTL
     DEF Spec, ImplementsContract, Contract!Spec

===========================================================================
