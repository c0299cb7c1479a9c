--------------------------- MODULE Reconciliation ---------------------------
(***************************************************************************)
(* reconcilePending(): the job that asks the gateway what became of the    *)
(* payments whose callback never arrived.  A run lists a page of old       *)
(* pending payments and then asks, writes and invoices them one by one;    *)
(* runs overlap when the schedule is shorter than a run, and callbacks     *)
(* land between any two of its steps.  Both write the payment first and    *)
(* its invoice after it, without a transaction around the two.             *)
(*                                                                         *)
(* A payment is numbered by its created_at, and has one attempt.  Callbacks *)
(* that mismatch, cancellations and retries are the subject of             *)
(* PaymentLifecycle.                                                       *)
(***************************************************************************)
EXTENDS Integers, FiniteSets, FiniteSetsExt

CONSTANTS
    N,              \* the payments are 1 .. N, the oldest first
    Jobs,           \* processes that run the job
    Handlers,       \* bound: requests with a callback that are under way at once
    Configs,        \* how the job may be configured
    Odd,            \* bound: payments with callbacks whose type maps to no outcome
    RetryAttempts,  \* retryAttempts of the status query
    MaxFaults       \* bound: answers that are timeouts, 5xx or no JSON, runs and invoices cut short

ASSUME SettingsAssumption ==
    /\ N \in Nat \ {0} /\ RetryAttempts \in Nat /\ MaxFaults \in Nat
    /\ Configs \subseteq [enabled : BOOLEAN, portal : BOOLEAN, limit : Nat \ {0}]
    /\ Odd \subseteq 1 .. N

VARIABLES
    config,     \* whether reconciliation is enabled and the portal configured, and reconcileLimit
    mature,     \* payments 1 .. mature are older than reconcileAfterMinutes
    gateway,    \* what the gateway knows of each payment
    payment,    \* the row of each payment, the status of its attempt and that of its invoice
    notice,     \* the payment and status each request has committed, and is to invoice
    job,        \* the local state of each run
    errors,     \* how many answers were errors
    crashes,    \* how many runs were cut short, and invoices not written
    overtaken   \* history: payments that were written again before the invoice of another status

jobVars == <<config, mature, gateway, payment, notice, job, errors, crashes, overtaken>>

Payments == 1 .. N
\* The customer never reached the gateway, is still there, or has an outcome.
Known == {"unseen", "open", "paid", "refused"}
Decided(p) == gateway[p] \in {"paid", "refused"}
Statuses == {"pending", "completed", "failed"}
\* An attempt that has heard of no callback has no gateway id, and its payment no message type.
Heard == Statuses \cup {"nothing"}

MaxAttempts == IF RetryAttempts > 1 THEN RetryAttempts ELSE 1

\* Mutant: a missing result counts as true.
transactionStatusResponseTrue(p) ==
    [result |-> TRUE, transactionSuccess |-> gateway[p] = "paid"]

\* What the response to a query says of a payment the gateway knows.
transactionStatusResponseFrom(p) ==
    [result |-> Decided(p), transactionSuccess |-> gateway[p] = "paid"]

\* An empty body, or one that is no JSON.
NoResponse == [result |-> FALSE, transactionSuccess |-> FALSE]

paymentStatusOf(response) ==
    IF ~response.result THEN "pending"
    ELSE IF response.transactionSuccess THEN "completed" ELSE "failed"

InvoiceOf(status) ==
    CASE status = "completed" -> "paid"
      [] status = "failed"    -> "cancelled"
      [] OTHER                -> "pending"

----------------------------------------------------------------------------
\* page is what is left of the listed payments; tries counts the requests for the current one
\* that failed.
NoJob == [at |-> "idle", page |-> {}, tries |-> 0, response |-> NoResponse]

\* A page is worked through in the order of created_at.
Current(j) == Min(job[j].page)

\* A request that has nothing left to invoice.
NoNotice == [payment |-> 0, status |-> "pending"]

\* The statuses of a payment whose writers have yet to write the invoice.
Owed(p) ==
    {notice[h].status : h \in {k \in Handlers : notice[k].payment = p}} \cup
    {paymentStatusOf(job[j].response) :
        j \in {k \in Jobs : job[k].at = "invoice" /\ Current(k) = p}}

\* The status is committed; a writer of another one may write its invoice after this one's.
CommitStatus(p, status) ==
    overtaken' = IF Owed(p) \subseteq {status} THEN overtaken ELSE overtaken \cup {p}

----------------------------------------------------------------------------
\* The world around the job.

Tick ==
    /\ mature < N
    /\ mature' = mature + 1
    /\ UNCHANGED <<config, gateway, payment, notice, job, errors, crashes, overtaken>>

Pay(p, outcome) ==
    /\ gateway[p] = "open"
    /\ gateway' = [gateway EXCEPT ![p] = outcome]
    /\ UNCHANGED <<config, mature, payment, notice, job, errors, crashes, overtaken>>

\* The attempt, which the job never writes, decides what is a copy.
isReplay(p, status) == payment[p].heard \in {"completed", status}

\* The callback of an outcome, or one whose type maps to none and makes the payment pending,
\* sets the attempt and the payment in one transaction; the invoice is still to follow.
Callback(h, p, status) ==
    /\ notice[h] = NoNotice
    /\ gateway[p] # "unseen"
    /\ p \in Odd \/ Decided(p)
    /\ status \in {paymentStatusOf(transactionStatusResponseFrom(p))}
                 \cup (IF p \in Odd THEN {"pending"} ELSE {})
    /\ ~isReplay(p, status)
    /\ payment' = [payment EXCEPT ![p].status = status, ![p].heard = status]
    /\ notice' = [notice EXCEPT ![h] = [payment |-> p, status |-> status]]
    /\ CommitStatus(p, status)
    /\ UNCHANGED <<config, mature, gateway, job, errors, crashes>>

\* The invoice follows the record the callback returned.
handleNotification(h) ==
    /\ notice[h] # NoNotice
    /\ payment' = [payment EXCEPT ![notice[h].payment].invoice = InvoiceOf(notice[h].status)]
    /\ notice' = [notice EXCEPT ![h] = NoNotice]
    /\ UNCHANGED <<config, mature, gateway, job, errors, crashes, overtaken>>

\* The invoice cannot be written, which is swallowed, or the process dies.
runQuietly(h) ==
    /\ notice[h] # NoNotice /\ errors + crashes < MaxFaults
    /\ notice' = [notice EXCEPT ![h] = NoNotice]
    /\ crashes' = crashes + 1
    /\ UNCHANGED <<config, mature, gateway, payment, job, errors, overtaken>>

----------------------------------------------------------------------------
\* The job.

Due(p) == p <= mature /\ payment[p].status = "pending" /\ payment[p].heard = "nothing"

\* The loop goes on with the next payment, or the run ends and reports.
Proceed(page) == [at |-> IF page = {} THEN "report" ELSE "ask", page |-> page]

\* handle() returned, whether the status of the payment changed or not.
Return(j) ==
    LET next == Proceed(job[j].page \ {Current(j)}) IN
    [NoJob EXCEPT !.at = next.at, !.page = next.page]

\* The first reconcileLimit payments that are pending, old enough and heard nothing of.
listPendingForReconciliation ==
    LET due == {p \in Payments : Due(p)} IN
    {p \in due : Cardinality({q \in due : q < p}) < config.limit}

\* A run that is neither enabled nor forced is skipped; one without payments ends at once.
reconcilePending(j, force) ==
    LET page == listPendingForReconciliation
        next == Proceed(page)
    IN
    /\ job[j].at = "idle"
    /\ config.enabled \/ force
    /\ job' = [job EXCEPT ![j] =
           [NoJob EXCEPT !.at = next.at, !.page = next.page]]
    /\ UNCHANGED <<config, mature, gateway, payment, notice, errors, crashes, overtaken>>

\* query() throws before it sends anything, and handle() swallows it.
Unconfigured(j) ==
    /\ job[j].at = "ask" /\ ~config.portal
    /\ job' = [job EXCEPT ![j] = Return(j)]
    /\ UNCHANGED <<config, mature, gateway, payment, notice, errors, crashes, overtaken>>

\* Mutant: a refusal of the gateway is retried like an error of its own.
shouldRetryAlways(retryable, attempt) == attempt < MaxAttempts

shouldRetry(retryable, attempt) == retryable /\ attempt < MaxAttempts

\* Mutant: the error ends the run.
GiveUpRun(j) == [job[j] EXCEPT !.at = "report", !.page = {}, !.tries = 0]

\* The last error is thrown; handle() swallows it and leaves the payment alone.
GiveUp(j) == Return(j)

\* A request that was answered with an error: it is sent again, or given up.
queryFails(j, retryable) ==
    /\ job[j].at = "ask" /\ config.portal
    /\ job' = [job EXCEPT ![j] =
           IF shouldRetry(retryable, job[j].tries + 1)
           THEN [job[j] EXCEPT !.tries = @ + 1]
           ELSE GiveUp(j)]
    /\ UNCHANGED <<config, mature, gateway, payment, notice, crashes, overtaken>>

\* HTTP 4xx: the gateway does not know the payment.
RefusedQuery(j) ==
    /\ job[j].at = "ask" /\ gateway[Current(j)] = "unseen"
    /\ queryFails(j, FALSE)
    /\ UNCHANGED errors

\* A timeout, a lost connection, HTTP 5xx.
FailedQuery(j) ==
    /\ errors + crashes < MaxFaults
    /\ queryFails(j, TRUE)
    /\ errors' = errors + 1

\* An answer; one that is no JSON counts as an empty one.
queryOnce(j, response) ==
    /\ job[j].at = "ask" /\ config.portal
    /\ \/ /\ gateway[Current(j)] # "unseen"
          /\ response = transactionStatusResponseFrom(Current(j))
          /\ UNCHANGED errors
       \/ /\ response = NoResponse
          /\ errors + crashes < MaxFaults
          /\ errors' = errors + 1
    /\ job' = [job EXCEPT ![j].at = "apply", ![j].tries = 0, ![j].response = response]
    /\ UNCHANGED <<config, mature, gateway, payment, notice, crashes, overtaken>>

\* The listed record is pending, whatever the row has become since; without an outcome nothing
\* is written.
applyResponse(j) ==
    /\ job[j].at = "apply"
    /\ IF job[j].response.result
       THEN /\ payment' = [payment EXCEPT
                   ![Current(j)].status = paymentStatusOf(job[j].response)]
            /\ CommitStatus(Current(j), paymentStatusOf(job[j].response))
            /\ job' = [job EXCEPT ![j].at = "invoice"]
       ELSE /\ job' = [job EXCEPT ![j] = Return(j)]
            /\ UNCHANGED <<payment, overtaken>>
    /\ UNCHANGED <<config, mature, gateway, notice, errors, crashes>>

\* Mutant: the invoice is left to the callback.
InvoiceKept(p, response) == payment[p].invoice

\* The invoice follows the record the update returned, not the row as it is now.
InvoiceStatus(p, response) == InvoiceOf(paymentStatusOf(response))

updateInvoiceStatus(j) ==
    LET p == Current(j) IN
    /\ job[j].at = "invoice"
    /\ payment' = [payment EXCEPT ![p].invoice = InvoiceStatus(p, job[j].response)]
    /\ job' = [job EXCEPT ![j] = Return(j)]
    /\ UNCHANGED <<config, mature, gateway, notice, errors, crashes, overtaken>>

\* The run returns its counts, and the next one starts from nothing.
Report(j) ==
    /\ job[j].at = "report"
    /\ job' = [job EXCEPT ![j] = NoJob]
    /\ UNCHANGED <<config, mature, gateway, payment, notice, errors, crashes, overtaken>>

\* The process dies, or a database call throws: only the query is in a try block.
Crash(j) ==
    /\ job[j].at \in {"ask", "apply", "invoice"} /\ errors + crashes < MaxFaults
    /\ crashes' = crashes + 1
    /\ job' = [job EXCEPT ![j] = NoJob]
    /\ UNCHANGED <<config, mature, gateway, payment, notice, errors, overtaken>>

----------------------------------------------------------------------------
JobInit ==
    /\ config \in Configs
    /\ mature = 0
    /\ gateway \in [Payments -> {"unseen", "open"}]
    /\ payment = [p \in Payments |->
           [status |-> "pending", heard |-> "nothing", invoice |-> "pending"]]
    /\ notice = [h \in Handlers |-> NoNotice]
    /\ job = [j \in Jobs |-> NoJob]
    /\ errors = 0 /\ crashes = 0 /\ overtaken = {}

World ==
    \/ Tick
    \/ \E p \in Payments, outcome \in {"paid", "refused"} : Pay(p, outcome)
    \/ \E h \in Handlers :
        \/ \E p \in Payments, status \in Statuses : Callback(h, p, status)
        \/ handleNotification(h) \/ runQuietly(h)

Step(j) ==
    \/ Unconfigured(j)
    \/ RefusedQuery(j)
    \/ FailedQuery(j)
    \/ \E response \in [result : BOOLEAN, transactionSuccess : BOOLEAN] :
        queryOnce(j, response)
    \/ applyResponse(j)
    \/ updateInvoiceStatus(j)
    \/ Report(j)

JobNext ==
    \/ World
    \/ \E j \in Jobs :
        \/ \E force \in BOOLEAN : reconcilePending(j, force)
        \/ Step(j)
        \/ Crash(j)

JobSpec == JobInit /\ [][JobNext]_jobVars

(***************************************************************************)
(* The job is scheduled again and again, every awaited call comes back     *)
(* (the request has a timeout) and payments grow older.  Nothing is fair   *)
(* about customers, callbacks, errors or crashes.                          *)
(***************************************************************************)
FairJobSpec ==
    /\ JobSpec
    /\ WF_jobVars(Tick)
    /\ \A j \in Jobs : WF_jobVars(reconcilePending(j, FALSE)) /\ WF_jobVars(Step(j))

----------------------------------------------------------------------------
Runs == [at : {"idle", "ask", "apply", "invoice", "report"},
         page : SUBSET Payments,
         tries : 0 .. MaxAttempts - 1,
         response : [result : BOOLEAN, transactionSuccess : BOOLEAN]]

\* The type of every variable; at an await the run has a payment in hand.
JobTypeOK ==
    /\ config \in Configs
    /\ mature \in 0 .. N
    /\ gateway \in [Payments -> Known]
    /\ payment \in [Payments -> [status : Statuses, heard : Heard,
                                 invoice : {"pending", "paid", "cancelled"}]]
    /\ notice \in [Handlers -> [payment : Payments, status : Statuses] \cup {NoNotice}]
    /\ job \in [Jobs -> Runs]
    /\ \A j \in Jobs : (job[j].at \in {"idle", "report"}) <=> (job[j].page = {})
    /\ errors \in Nat /\ crashes \in Nat /\ errors + crashes <= MaxFaults
    /\ overtaken \subseteq Payments

\* A payment is only completed or failed by an outcome the gateway has given it: "Local state
\* only changes when the gateway answers result: true" (docs/05-transaction-management.md), and
\* neither an error, an empty body nor an answer overtaken by a callback is taken for one.
SettledAsAnswered ==
    \A p \in Payments :
        /\ payment[p].status = "completed" => gateway[p] = "paid"
        /\ payment[p].status = "failed" => gateway[p] = "refused"

\* The requests beyond the first that the runs have sent for the payments in their hands: the
\* n-th of a run is there once n of its requests failed.
Repeats == {r \in Jobs \X (1 .. MaxAttempts) : r[2] <= job[r[1]].tries}

\* Every request beyond the first for a payment is owed to an error of the transport, and there
\* are fewer than retryAttempts of them: a refusal (HTTP 4xx) is never repeated, whatever
\* errors the overlapping run met meanwhile.
RepeatedOnlyAfterErrors ==
    /\ \A j \in Jobs : job[j].tries < MaxAttempts
    /\ Cardinality(Repeats) <= errors

\* The invoice follows the payment, although each of its writers, the runs and the callbacks,
\* writes the one and then the other: once no writer is between the two, the invoice is that of
\* the status, unless a writer was cut short there.  A writer of the same outcome may be
\* overtaken; one of another status, that of a callback without an outcome, may not, for it would
\* write its invoice over the newer one.
SettledIsInvoiced ==
    \A p \in Payments :
        crashes = 0 /\ p \notin overtaken /\ Owed(p) = {} =>
            payment[p].invoice = InvoiceOf(payment[p].status)

\* Older payments that have no outcome stay at the head of every page.
Ahead(p) == {q \in 1 .. p - 1 : Due(q) /\ ~Decided(q)}

\* A payment the gateway has decided and whose callback never comes is settled in the end, if
\* the job is enabled and configured and fewer than reconcileLimit older payments stay without
\* an outcome; one payment the gateway refuses to answer for does not hold up the others.
DecidedIsSettled ==
    \A p \in Payments :
        (config.enabled /\ config.portal /\ Due(p) /\ Decided(p)
            /\ Cardinality(Ahead(p)) < config.limit) ~> ~Due(p)

=============================================================================
