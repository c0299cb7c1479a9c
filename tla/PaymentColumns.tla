---------------------------- MODULE PaymentColumns ----------------------------
(***************************************************************************)
(* The columns of a payment and of its attempts, and what callbacks,       *)
(* retries, cancellations and reconciliations write in them, as the three  *)
(* storage adapters do.  A message type is named by the status it maps to. *)
(***************************************************************************)
EXTENDS Naturals, FiniteSets

CONSTANTS Session, FirstSession, Callbacks, Null

Status == {"pending", "completed", "failed", "cancelled"}
GatewayId == {cb.id : cb \in Callbacks}

TransactionRow == [session : Session, status : Status, id : GatewayId \cup {Null},
                   message : Status \cup {Null}]
AttemptRow == [number : Nat \ {0}, status : Status, id : GatewayId \cup {Null},
               message : Status \cup {Null}, superseded : BOOLEAN]

ASSUME CallbackAssumption ==
    \A cb \in Callbacks : /\ cb.session \in Session
                          /\ cb.status \in {"pending", "completed", "failed"}
ASSUME NullAssumption == Null \notin GatewayId \cup AttemptRow \cup Session \cup TransactionRow
ASSUME SessionAssumption == IsFiniteSet(Session) /\ FirstSession \in Session

---------------------------------------------------------------------------
NumbersOf(of) == {of[s].number : s \in {t \in Session : of[t] # Null}}

nextAttemptNumber(of) ==
    IF NumbersOf(of) = {} THEN 1
    ELSE 1 + CHOOSE n \in NumbersOf(of) : \A m \in NumbersOf(of) : m <= n

isReplayCallback(row, cb) ==
    /\ row.id # Null
    /\ \/ row.status \in {"completed", cb.status}
       \/ row.id = cb.id /\ row.message = cb.status

shouldPropagate(row, status) == ~row.superseded \/ status = "completed"

attemptChangesFromCallback(row, cb, status) ==
    [row EXCEPT !.status = status, !.id = cb.id, !.message = cb.status]

createFromTransaction(row, number) ==
    [number |-> number, status |-> row.status, id |-> row.id, message |-> row.message,
     superseded |-> FALSE]

createForPayment(number) ==
    [number |-> number, status |-> "pending", id |-> Null, message |-> Null, superseded |-> FALSE]

supersede(row) == [row EXCEPT !.superseded = TRUE]

(* What each operation sets on the parent.                                  *)
callbackChanges(cb, status) ==
    [session |-> cb.session, status |-> status, id |-> cb.id, message |-> cb.status]
retryChanges(session) ==
    [session |-> session, status |-> "pending", id |-> Null, message |-> Null]
cancelChanges == [status |-> "cancelled", message |-> "cancelled"]
reconcileChanges(status) == [status |-> status]

(* The attributes of changes, and the others as they were.                  *)
Changed(row, changes) == [a \in DOMAIN row |-> IF a \in DOMAIN changes THEN changes[a] ELSE row[a]]
============================================================================
