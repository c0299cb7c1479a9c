# A TLA+ verification of the SISP client

The client (`src/`) takes card payments over the SISP/vinti4 gateway of Cabo Verde: it renders a form the customer's
browser posts to the gateway, receives the gateway's callback, keeps the payment in the merchant's database through
one of three storage adapters, and lets it be retried, cancelled, refunded and reconciled. This directory holds TLA+
modules of the parts that keep state, the TLC configurations that check them on small instances, and theorems about
them that TLAPS has proved for every value of their constants.

    tlc -config PaymentLifecycle_concurrent.cfg MCPaymentLifecycle.tla
    tlapm RateLimitProofs.tla

`PROJECT.json` lists the components, the runs, the lines every definition stands for, the hazards and the theorems.

## Inventory

| Component | State | Operations | What is hard | What makes it correct |
|---|---|---|---|---|
| Payment lifecycle (`application/actions`, `application/pipelines/callback`, `http/callback-*.ts`, `http/lifecycle-handlers.ts`) | `sisp_transactions`, `sisp_transaction_attempts`, `sisp_invoices`; the record each handler holds; `payment:*` events | callback, API callback, cancel, retry, refund, reconcile | handlers interleave at every `await`; the gateway duplicates and reorders; legacy rows without attempts; errors swallowed by `runQuietly` | one current attempt; the parent agrees with it; completed is announced once; refunds are accounted for; a paid payment gets a paid invoice |
| Idempotent checkout (`http/payment-context-resolver.ts`, `payment-intent.ts`, `pipelines/payment`) | `sisp_payment_intents` | reserve, submit, fail, replay, retry | `reserve()` is two statements and no transaction; the catch around the pipeline; rows of a release without `request_hash` | one payment per key; forms only of that payment, for the same body; a reserved key is served |
| Rate limits and signed actions (`enforce-rate-limits.ts`, `rate-limit.ts` of three adapters, `signed-url.ts`) | `sisp_rate_limits` | hit | insert races, lost updates, windows that end while a hit waits for a lock, roll-backs | no hit lost; never more than the limit; nobody refused early; a signed URL acts once |
| Storage adapters (knex, drizzle, prisma) | the rows, the locks and the uncommitted writes of every transaction | the repositories under `transaction()` | lock order, unique indexes, snapshots, transactions a database aborts; the adapters read a locked row in different ways | the statements of a transaction are as good as one step; nobody waits for ever |
| Maintenance (`rotate-encryption-key.ts`, `reencrypt-batch.ts`, `rekey.ts`, the prunings) | encrypted columns of four tables, the cursor of the walk | `rotate-key` page by page, updates with their logs, two prunings | a page is read without locks while rows are written and deleted; a run dies and is repeated | exit code 0 means the old key can go; no content and no readability is lost |
| Migrations (`auto-migrate.ts`, `migrations/*`, the Drizzle adapter's `migrate()`) | the schema, the control table, the lock | eight knex migrations, the Drizzle statements | two processes that start at once; DDL that is a transaction on one server and not on two others; a death between two statements | what is recorded is applied; limits are never loosened by the merge; a rerun gets through |
| Stateless mode (`stateless-*.ts`, `pipelines/callback/stateless`) | the merchant's correlation store | save, claim, find, markProcessed; cancellation; signed result | concurrent callbacks and cancellations, a process that dies after its claim | one verdict per payment, of what was expected, kept as it was announced |
| Status query and reconciliation job (`transaction-status-client.ts`, `reconcilePending`) | payments whose callback never came, the page of a run | list, query with retries, apply, invoice | overlapping runs, errors that are retried and refusals that are not, the limit of a page | only the gateway's outcome is written; a decided payment is settled |
| Amounts and requests (`sisp-amount.ts`, `build-*.ts`, `validate-payment-input.ts`, builders) | the form and its row | validate, build, sign, persist, retry, refund | one sum of money as decimal, cents and thousandths; what a row does not keep of a form | what was ordered is charged, signed, retried and refunded |
| Drivers, fingerprints, credentials | none | sign, verify | | pure data |
| Express, Fastify, Nest, configuration, sandbox page, countries | none of their own | translation and wiring | | |

The CLI has five commands: `migrate`, `prune-metadata`, `reconcile-pending` and `rotate-key` call the operations
above, `prisma-schema` prints a file.

The components meet in three places. The HTTP handlers run a *preflight* (blacklist, rate limits), then `resolve()`
the checkout, whose pipeline creates the payment; from then on the lifecycle handlers, the reconciliation job and the
gateway's callbacks act on it. They share the database and nothing else: the process is single-threaded JavaScript,
several processes may serve one database, and a handler is interrupted exactly at its `await`s. Maintenance and
migrations run beside them in processes of their own.

## Modules

| Module | What it is |
|---|---|
| `PaymentLifecycle` | one payment after it was created: parent row, attempts, invoice, and the handlers that interleave on them |
| `MCPaymentLifecycle` | its instances: which callbacks the gateway may send |
| `PaymentLifecycleProofs` | its type invariant and its safety theorems |
| `Checkout` | the posts of a checkout and the rows of its idempotency keys |
| `CheckoutContract` | what the key promises, without intents and without requests in progress |
| `MCCheckout`, `CheckoutProofs` | its instances; its theorems, the refinement of `CheckoutContract` among them |
| `RateLimit` | hits on fixed windows, one SQL statement at a time, under row locks |
| `MCRateLimit`, `RateLimitProofs` | its instances and its theorems |
| `PaymentColumns` | the columns of a payment and its attempts, and what a callback, a retry, a cancellation writes to them |
| `PaymentRows` | each storage transaction on them as one atomic step: what the adapters promise |
| `StorageTransactions` | the same transactions statement by statement, under the locks, indexes and snapshots of each server; implements `PaymentRows` |
| `MCStorageTransactions`, `StorageProofs` | its instances; the theorems about `PaymentRows`, the refinement, the locks, and `Reconciliation` |
| `KeyRotation` | the walk that re-encrypts, beside everything that writes or deletes encrypted rows |
| `MCKeyRotation`, `KeyRotationProofs` | its instances (key rings and tables) and its theorems |
| `StatelessCallback` | payments, callbacks, cancellations and results without tables of the package's own |
| `MCStatelessCallback`, `StatelessProofs` | its instances and its theorems |
| `Reconciliation` | overlapping runs of `reconcilePending()` with the status query inside |
| `MCReconciliation` | its instance; its theorems are in `StorageProofs`, where what it applies is proved as well |
| `Schema` | the tables as columns and keys, as the knex migrations and the Drizzle adapter make them |
| `Migrations` | both ways of bringing a database to the current schema, and the databases a first run may find |
| `MCMigrations`, `MigrationsProofs` | its instances, six such databases; its theorems |
| `PaymentForm` | the money and the fields of one payment from the posted body to the last refund |
| `MCPaymentForm`, `PaymentFormProofs` | the bodies; the theorems about them |

### How the modules correspond to the code

**Grain.** In `PaymentLifecycle` and `Checkout` an action is what runs from one `await` to the next. A
`storage.transaction(...)` block is one action: it keeps the rows it writes locked until it commits. The exception to
this is exactly what `RateLimit` opens up: there the statements of the transaction of a hit are actions of their own,
and row locks, uncommitted copies and roll-backs are state.

**`PaymentLifecycle`.** `transaction`, `attempts` and `invoice` are the rows, as far as a handler decides on them.
`pc[p]` says at which `await` a handler is, `held[p]` is the `TransactionRecord` it read before (possibly stale when
it is used) and `callback[p]` the payload it serves. `ReceiveCallback` is the HTTP route up to the lookup of
`isAlreadyProcessed`; `ResolveTransaction`, `Decide`, `FailAttempt`, `ApplyTransactionStatus` and
`DispatchPaymentEvents` are the pipes; `UpdateInvoiceStatus` is what the route does after the pipeline. `StartCancel`
and `CancelTransaction`, `StartRetry` to `CreateRetryPaymentAttempt`, `RefundTransaction`, and `StartReconcile` with
its answers are the other operations. A payment without attempts (`LegacyPayment`) is one made before the attempts
migration; `PrecheckLegacy`, `ResolveLegacy`, `FailLegacy` and `LockedAttempt` are the code paths for it. `Crash` is a
process that dies, and also a call that fails inside `runQuietly`. `completedEvents` (saturating at 2) and
`refundedTotal` are history variables: nothing reads them but the properties.

**`Checkout`.** `intents` are the rows of `sisp_payment_intents`. A payment is named by the post that created it, so
there is no counter to bound. `Reclaim` and `InsertIntent` are the two statements of `reserve()`; `PersistTransaction`
the storage transaction of the pipeline; `SubmitIntent`, `FailIntent` the two ends; `FindIntent`, `LoadTransaction`,
`ListAttempts` and `CheckRetryLimit` the awaits of a replay, each deciding on what the one before read. Everything the
lifecycle does to a payment is `Settle`. The preflight is the choice to let a post pass.

**`RateLimit`.** `rows` are the committed rows, `lock` the transaction that has locked or inserted a row, `own` its
uncommitted copy, `todo` the hits a request has yet to make. The three adapters share the statements but not the first
one: drizzle and prisma read plainly (`Find`), knex reads `FOR UPDATE` (`FindForUpdate`); the model lets every request
choose, which covers each adapter and processes that use different ones on one database. Isolation is READ COMMITTED:
a plain read sees the last commit, an insert waits for an uncommitted insert of the same key and is then ignored or
takes effect. `Rollback` may happen before any statement: it is a deadlock victim, a busy database, a transaction that
timed out, a lost connection or a dead process. `Tick` moves `Date.now()` on at any moment. The clock counts in
fractions of a second (`Second` of them, 1000 in the code), the windows of the rules and of the signed actions are
whole seconds, and a signed URL ends at a whole second: `secondsLeft` rounds what is left of it up, and is at least
one. A signed action is a row with limit 1 and that window; validating the HMAC is an input. The verdicts in `counted`
are history.

**`StorageTransactions`.** `transaction` and `attempts` are the committed rows. `tx[h]` is one operation of a handler:
its `phase` names the statement it sends next, `held` the rows it has locked, what it has written and not committed,
and the snapshot its first plain read took. `Blockers(h)` are the transactions it waits for, computed from those locks
and from the unique indexes; a statement is enabled when there are none. Three flags say how a server and an adapter
differ: `repeatableRead` (MySQL: plain reads show the snapshot, locking reads wait for uncommitted rows),
`abortedByError` (PostgreSQL: a failed statement ends the transaction), `lockThenRead` (Prisma: `SELECT ... FOR
UPDATE` and then another, plain, read); `queue` is the `StatementQueue` of SQLite. `LockAttempt`, `LockLegacy`,
`InsertBackfill` and `ApplyCallback` are `ApplyTransactionStatus`; `FailAttempt` is `FailTransaction`;
`EnsureInitialAttempt`, `NextNumber`, `Supersede`, `InsertAttempt` are `CreateRetryPaymentAttempt` with its
repetition; `UpdateParent` is the end of all others. `Victim` is the transaction a database ends to break a deadlock,
`Abort` a lost connection or Prisma's timeout. `WaitsFor(h)` is what a transaction reaches in the wait-for graph, as
the database computes it. `PaymentRows` has one action per transaction, on the same columns.

**`KeyRotation`.** A value has a form (null, plain text, envelope of version 1 or 2, a container without an envelope),
a key and a text; the text is a counter that grows with every write, so that a lost write shows. `rot` is where
`handle()` stands: `Rotate` starts it, `CandidateIds` reads a page without locks, `LockRow` and `WriteRow` are
`withLockedRow` and the write, `Die` ends the process. Counts are kept because the code decides on them: when a page
is short, when a table is hopeless, which exit code is given. `LockTransaction` and `UpdateTransaction` are
`Transaction.update` with its log and the pruning of old logs in the same transaction; `UpdateAttempt` is a callback,
`CreateMetadata` a new payment, `SelectStale` and `Purge` the two statements of `pruneRequestMetadata`.

**`StatelessCallback`.** A payment is named by its pair of references. `config` says whether there is a correlation
store, an `expectedPayment` resolver and an `appKey`; `rows` is the store, `form` the payments whose form was
answered. Each call has its `pc`, the `request` it serves, the `claim` it was answered, the `outcome` of its context,
its `event` and its `response`. `Prepare`, `Record` and `AnswerForm` are a post; `ReceiveCallback`, `Claim`,
`ResolveExpected`, `RejectClaim`, `MatchExpected`, `MarkProcessed` and `EmitVerdict` a callback; `ReceiveCancel`,
`EmitCancelled`, `RedirectCancelled` a cancellation, which announces before it writes; `ReadResult` the page a browser
is sent to. The store is the merchant's: it is modelled from the interface, with `claim` atomic as docs/13 requires of
it.

**`Reconciliation`.** Payments are numbered by age; `mature` are older than `reconcileAfterMinutes`.
`reconcilePending` lists a page, then `RefusedQuery`, `FailedQuery` and `queryOnce` are the answers of the status API,
`applyResponse` the transaction, `updateInvoiceStatus` the await after it, and `Report` the end. A page is a set
worked through oldest first. A callback meanwhile is two steps as well: `Callback` is `ApplyTransactionStatus`, which
decides on the attempt (`heard`, `isReplay`) and commits attempt and payment, `handleNotification` the await that
writes the invoice of the record it returned (`notice`); `runQuietly` is an invoice whose error is swallowed, or a
request that dies before it, and `Crash` a run that dies. `overtaken` is history: the payments whose status was
written again while a writer of another status had its invoice still to write.

**`Migrations`.** A run is a list of statements (`todo`); the knex run builds it from what the control table records,
the Drizzle run from its own. The database has tables (columns and keys), recorded migrations, the attempts of older
payments and the rows of one limit. `client` decides what a statement is: on PostgreSQL the whole knex run is one
transaction, which a failed statement aborts; on MySQL and SQLite every statement stays. `GetLock` and `ReleaseLock`
are those of `withMigrationLock`: the answer of MySQL's `get_lock` is not looked at, and the release may reach another
connection of the pool; on SQLite the lock is one of the process. `KeyRefused` is what a unique key does over
duplicate rows: shared references, rows of one limit, and attempts that two backfills made. `Found` says which
databases a first run may find. `first` and `interrupted` are history.

**`PaymentForm`.** One payment from its body to its refunds. An amount is a JavaScript number, written as a decimal
and its scale, so that every conversion rounds as the code does: `decimalString` keeps `FixedDigits` digits (ten in
the code), `decimalStringToThousandths` rounds at the fourth, `toCents` at the third, and `InRange` is the end of the
range, beyond which the code throws; texts are abstracted to what the code tells apart (absent, empty, a text, a JSON
number, an unlisted country), and a signature is the tuple of what it covers. `Post` validates a body (`BuildForm` is
the builder, which does not), `BuildPaymentRequest` signs, `PersistTransaction` stores; `Answer` is the sandbox's
callback, `Cancel`, `Reconcile`, `RetryPayment`, `ShowRetryForm` and `RefundTransaction` the rest.

**The data.** What the other modules leave out of a payment (amounts, names, payload fields, fingerprints, timestamps,
logging) is left out because no decision of theirs looks at it; whether a fingerprint verifies and whether a
callback's details match its row are Booleans of the callback there, and are computed in `PaymentForm`.

## Runs

| Run | Instance | What it shows |
|---|---|---|
| `lifecycle_serial` | one handler, three sessions, two gateway ids, all five operations, new and legacy payments, mismatching and unsigned callbacks; no crash; fair | `CompletedIsInvoiced`: what the code promises when handlers do not overlap |
| `lifecycle_concurrent` | two handlers, three sessions, callbacks, cancels, retries and refunds, crashes | `OneCurrentAttempt`, `ParentReflectsAttempt`, `CompletedAtMostOnce`, `RefundsAccounted`, `PaidStaysPaid` under every interleaving |
| `checkout_posts` | three posts, one key or none, two bodies, legacy intents, failures and crashes | `OnePaymentPerKey`, `FormsMatchTheirPost`, `ReservationIsServed` and the refinement of `CheckoutContract` |
| `ratelimit_hits` | three requests, payments that hit a rule of limit 2 and window 1 and then one of limit 1 and window 2, a URL that expires after two seconds, a clock of half seconds that passes its end; fair | `HitsCounted`, `WithinLimit`, `NobodyRefusedEarly`, `FreshUrlOnce`, `EveryRequestAnswered` |
| `storage_adapters` | three handlers, three sessions, PostgreSQL, MySQL and SQLite, three callbacks, two tries of a retry | the refinement of `PaymentRows`, `DeadlockNeedsBackfill`, `NobodyWaitsForEver` |
| `rotation_walk` | three key rings, tables with every kind of value, pages of two, two updates, two pruners, a second run after a death; fair | `ExitZeroMeansRotated`, `LogChain`, `ContentKept`, `RotationEnds` |
| `stateless_calls` | one payment and a stranger's pair, two calls, all configurations, crashes; fair | `OneVerdictPerPayment`, `CompletedWasExpected`, `OutcomeIsTheVerdict`, `GenuineCallbackIsHeard` |
| `reconciliation` | two payments, two overlapping runs, pages of one or two, callbacks that commit and invoice, one fault; fair | `SettledAsAnswered`, `RepeatedOnlyAfterErrors`, `SettledIsInvoiced`, `DecidedIsSettled` |
| `migrations` | two runners of either adapter, six databases, three servers, one restart | `RecordedIsApplied`, `LimitsNotLoosened`, `FinishedIsCurrent`, `FailureHasCause` |
| `payment_form` | some 2 800 bodies, 24 configurations, two retries, three refunds | `ChargedIsOrdered`, `RetryChargesTheSame`, `RefundsAddUp`, `SignedIsAsked`, `RetryableCanBeBuilt`, `AnswersAreRecognised` |
| `lifecycle_success_wins`, `storage_prisma_mysql` | expected to fail | see *Disagreements* |

**Why the bounds are enough.** Two handlers are the least for a stale record, and every hazard found is one pair of
overlapping handlers; three sessions give two retries in a row (`MaxAttempts` 2 is passed by two that overlap), hence
a superseded attempt that is neither the first nor the current one. `Amount` 2 is the least with a partial refund. In
`Checkout` one post reserves, one is refused or replays and a third meets the row after the first failed or died; the
keys never interact, so one is enough, and `NoKey` is the other path. In `RateLimit` three requests are one more than
the largest limit. A second has two parts and the clock shows 1, 3 or 4, so the URL, which ends at 4, is opened at a
fraction of a second, where the rest of its life is rounded up, and at its last instant, where it is nothing and the
window is the least one; the shorter window ends under waiting hits and the longer one outlives it. In
`StorageTransactions` a deadlock takes two transactions and a third meets what they leave; two tries are the least in
which a collision is repeated. In `KeyRotation` a page of two is shorter than some of the tables and as long as
others; `MaxText` 1, `MaxLogs` 2 and `PruneBatch` 2 let one update write a log and prune another; `MaxId` 3 lets one
row of metadata be new or vanish after the page was read. In `StatelessCallback` two calls are the least that race for
a claim. In `Reconciliation` one older payment at the head of a page of one is the least that starves another; one
callback under way at once (`Handlers`) is the least that commits between the two writes of a run, and the other way
round; the first payment may also get a callback that maps to no outcome (`Odd`). One fault is less than the two
requests of `RetryAttempts`: that no request is sent more often than configured is left to the theorem. In
`Migrations` one restart continues what a death left, and one limit with two rows is the least to merge. In
`PaymentForm` the decimals lie on both sides of a half of the finest unit, and five digits are kept of those with more
(`FixedDigits`; TLC's integers have 32 bits), which some of them are rounded over a half by; the range ends between
the largest charge and the largest amount asked for (`MaxThousandths`); two retries use three sessions, and three
refunds reach a remainder by parts. `Instants`, `Handlers`, `Odd`, `MaxTries`, `MaxText`, `MaxId`, `MaxRuns`,
`MaxFaults`, `MaxRestarts`, `MaxRetries` and `MaxRefunds` bound what the code does not bound (`MaxTries` is
`identifierGeneration.maxAttempts`, at a small value). The theorems hold for every value of these constants.

**Symmetry** permutes handlers, posts or runners, which the modules never order; it is only used in runs without
liveness properties.

**Deadlock** is not an error in these models (`CHECK_DEADLOCK FALSE`): a settled payment that nobody touches, posts
that were all served and requests that were all answered have nothing left to do. That nothing is stuck is what
`CompletedIsInvoiced`, `EveryRequestAnswered`, `ReservationIsServed`, `NobodyWaitsForEver`, `RotationEnds`,
`GenuineCallbackIsHeard` and `DecidedIsSettled` say.

**Fairness.** `PaymentLifecycle!FairSpec` has weak fairness of `Continue(p)` for every handler: the event loop resumes
a handler whose awaited call has answered, and the call to the gateway's status API has a timeout. `Begin(p)` is not
fair: nobody is obliged to call. `RateLimit!FairSpec` has weak fairness of `Work(r)`: a database answers a statement
and grants a free row to a transaction that waits for it. `StatelessCallback!FairSpec` has it of `Continue(c)`, for
the same reason as the lifecycle. `KeyRotation!FairSpec` has weak fairness of the walk and of `UpdateTransaction(w)`
(a transaction that has begun goes on), and strong fairness of `LockRow`: databases queue those who wait for a row, so
that updates which come and go cannot keep the walk from it for ever. `Reconciliation!FairJobSpec` has weak fairness
of `Tick` (payments grow older), of `reconcilePending(j, FALSE)` (the job is scheduled again and again) and of
`Step(j)` (the query has a timeout). No other fairness is assumed: nothing is fair about customers, the gateway's
callbacks, `Rollback`, `Abort`, errors and crashes.

**Preconditions of the passing runs.** Where a property is false in general, the run names what it leaves out: no
overlap and no crash in `lifecycle_serial`; only matching callbacks and no reconciliation in `lifecycle_concurrent`;
Prisma on MySQL is not among the adapters of `storage_adapters`. `DecidedIsSettled` asks that fewer than
`reconcileLimit` older payments stay undecided, `AnswersAreRecognised` that the body's transaction code is not empty,
`RecordedIsApplied` excuses keys of tables that a death, a failure or another run left without (`keyless`).
*Disagreements* and *Not modelled* say what happens outside them.

## Proofs

All theorems are of the specification, for every value of the constants that satisfies the named assumptions.

**PaymentLifecycle.** `TypeCorrect` proves `TypeOK` with `SubmissionInv` (a handler only names sessions that were
submitted, which the type of a row that is updated depends on). `OneCurrentAttemptHolds` follows from it: only
`CreateRetryPaymentAttempt` and the two backfills add an attempt, the first supersedes all others and the backfills
only add one where there is none. `RefundsAccountedHolds` assumes `NoReconcile` and carries `NoQueryStep` (no handler
is in a query); *Disagreements* says why the assumption is needed. `CompletedAtMostOnceHolds` assumes `AllMatch`. It
needs `EventInv` because the event is emitted after the commit: a handler that is about to emit one (`Announcing`)
belongs to a completed row, no event has been emitted for that row yet, and no other handler is about to; `PaidRowInv`
says that a completed row carries a gateway id, without which `isReplayCallback` would not recognise it.
`ParentReflectsAttemptHolds` assumes `AllMatch` and `NoReconcile`, since a mismatch fails a row without looking at it
and a reconciliation writes the parent alone. It needs two facts about payments that begin without attempts: while
there is no row, a handler in a retry or a cancellation met a payment that was not paid, and it still is not
(`UnpaidInv`), so a backfilled failed row agrees with its parent; and a refunded row, which only a backfill makes, is
the only row and no handler is left that would supersede it (`RefundedRowInv`), so a callback that does not propagate
never rewrites the row a paid parent names. `PaidStaysPaidHolds` has the same assumptions and rests on both: an
attempt that was announced is completed and carries a gateway id, so whatever locks it later finds a replay; and
whoever is about to write a paid invoice (`Paying`) has a completed attempt behind it, or a completed parent without
attempts (`PaidSomewhere`), which no later step takes away.

**Checkout.** The inductive invariant `IInv` relates four things: the payment of a post is the one it made or the one
its key is linked to (`RequestInv`), a replay found the row and its link as it holds them (`KeyedInv`), a post between
`reserve()` and `submit()`/`fail()` is the only one of its key and no other payment has the key (`OwnerInv`), and a
key that could be reserved has no payment (`LinkInv`). `OnePaymentPerKeyHolds`, `FormsMatchTheirPostHolds`,
`LinkNeverMovesHolds` and `ReservationIsServedHolds` follow. `Implements` proves that `Checkout` implements
`CheckoutContract`, with `charged` read off the payments and `answered` the forms that have a key: initial states map
to initial states, `PersistTransaction` to `Charge`, the two steps that answer to `Answer`, and every other step to a
stutter.

**RateLimit.** The centre of the invariant is `Copy`: what a transaction may hold of a row at each statement, in terms
of the committed row, which nobody else can change meanwhile because the lock is its own. A copy either *continues*
the window of the committed row with one hit more, or *opens* a window when there is none or the last one is over.
`VerdictInv` says that no committed hit is of a window later than that of its row, so a window that opens is empty
(`OpenedWindowIsEmpty`) and a hit that continues one has a new number (`NumberInv`). With that, `HitsCounted`,
`AcceptedInv` (the accepted hits of a window are its first ones, up to the limit), `WithinLimit` and
`NobodyRefusedEarly` are inductive: `CommitCounts` says what a commit does to the number of verdicts of any window.
`LockInv` (who found no row, or lost the insert, will find one) gives `RowIsThereHolds`. `FreshUrlOnceHolds` uses
`UrlInv`: a row of a nonce does not end before its URL, because the seconds left are rounded up and at least one; so
whatever was let through before the expiry is of the one window of that row. The only assumptions are that limits,
windows and expiries are numbers, windows are not zero and `Null` is none of the values.

**StorageTransactions and PaymentRows.** `NumberedAttemptsHolds` is about the transactions each alone: one current
attempt, the one with the highest number, whatever the sessions and the callbacks. Its invariant is the rows' types,
`NumberedAttempts`, that a payment with attempts has a current one (`HasCurrent`), and that the parent names one of
them (`NamesAttempt`), without which a legacy payment could be backfilled beside its attempts. The other theorems are
about the statements, for any number of handlers and sessions, and assume `NoStaleReads`: no adapter both locks a row
with one statement and reads it with another from a snapshot, which is every adapter but Prisma on MySQL
(*Disagreements* shows what happens there). Their invariant `IInv` says what a transaction holds in each of its phases
(`HandlersOK`), that a row lock, the parent's lock and an insert in progress have one holder (`Exclusive`,
`OneInserter`), and that a payment without attempts is still under its first session, and one with attempts has that
of this session (`FirstOK`). It is inductive because a commit only touches rows its transaction has locked, and leaves
what the others hold as they read it.
`ImplementsRowsHolds` follows: every step that commits is a step of `PaymentRows`, every other one leaves the
committed rows alone; `OneCurrentAttemptHolds` and `PropagatedInFullHolds` use the same steps.
`DeadlockNeedsBackfillHolds` ranks the transactions that are waited for (`Progress`): along a wait the rank only
grows, unless a backfill is passed, which holds the parent before its row. `NobodyWaitsForEverHolds` takes, among
transactions that all wait, one that reaches the fewest others: whoever it waits for reaches as many, and so reaches
itself.

**StatelessCallback.** The invariant has one part per call (`CallOK`: what a call remembers at each `await`), and
three about calls together: two calls that hold the claim of one pair are the same (`HoldersDiffer`), the row of a
payment is recorded once, by its post (`RecordedOnce`), and a row that nobody claimed has no outcome
(`DecidedIsClaimed`). `OneVerdictPerPaymentHolds`, `CompletedWasExpectedHolds` and `OutcomeIsTheVerdictHolds` follow,
for any payments, calls, payloads and deaths.

**Reconciliation.** `SettledAsAnsweredHolds` and `SettledIsInvoicedHolds`, for any number of payments and runs.
`Answered` says that the response a run holds is still what the gateway knows, since an outcome never changes, and
with it the first is inductive. For the second, `Invoices` says of a payment that was not overtaken that all who still
have an invoice to write for it have its status (`Owed`), and that when nobody has one and none was cut short, its
invoice is that of the status. A commit adds such a writer (`InvoicesCommitted`), an invoice that is written is the
right one (`InvoicesWritten`), and a writer that leaves without one was cut short (`InvoicesLeft`).
`RepeatedOnlyAfterErrorsHolds` counts the repetitions of all runs as the set `Repeats` of pairs of a run and a number,
which a step that is not an error never enlarges and an error enlarges by one at most (`RepeatsOwed`).

**KeyRotation.** `ExitZeroMeansRotatedHolds` rests on four facts about the walk: a row that is locked is as it was
read and has one owner; ids of metadata are given once, in order; no step of anybody leaves undone a value that was
done (`NoneUndone`: what is written is under the current key or still what it was); and a walk that has read
everything so far has done the tables before the current one, the pages before its cursor, and of the current page
what it no longer lists. That a short page ends its table is the one place where finite sets are counted:
`CandidateIds` takes the lowest ids above the cursor, and fewer than `Limit` of them are all of them.
`ContentKeptHolds` takes the same invariant: a row is written as it was locked. `LogChainHolds` adds `ChainsOf`: of
the logs of a payment each begins where the one before it ended, the last one ends with the content that is stored,
and there are few enough of them for one batch of the pruning. An update appends a log that begins with the content it
has locked, a pruning takes logs from the start only, and a rotation rewrites forms and keys but no texts. It assumes
of the tables that are found (`LogsAssumption`) that their logs are such chains, as `update()` leaves them.

**PaymentForm.** All six properties, for any bodies, configurations, retries and refunds. `IInv` says by phase where
every field comes from: the first form is built from the body, the row is the first form's under the session of the
last (`RowOK`), a form asks for the amount, reference, currency and code of the first and for the customer of the body
or of the row (`FormOK`), sessions but the first are numbered as they are used (`SessionsOK`), and what was refunded
is less than the payment until the payment is refunded (`BalanceOK`). Two things are proved about data. The totals are
folds over sequences, in an order that a `CHOOSE` picks: `SumTakesAny` says that any summand may be taken first, and
is proved without induction, by taking a smallest set on which it would fail; `TotalGrows` (what is appended is added)
and `ItemCents` rest on it. And `ThousandthsAreNear` follows both roundings, that of `toFixed` (`FixedIsNear`) and
that of the fourth digit (`StringIsNear`), through their quotients and remainders, while `CentsBack` and
`ThousandthsBack` say that what the rows and the refunds keep is signed without loss. `AmountAssumption` says that
amounts are decimals, that at least three digits are kept, and what the powers of ten of the scales are, which is true
but not known to the provers; `NoneAssumption` that `None` is none of the values.

**Migrations.** All four properties, for any number of runs of either adapter, restarts and payments, any rows of a
limit, all servers, and every database that `MigrationsAssumption` admits. `Found` is that assumption: what earlier
releases, the Drizzle adapter, or a run that died between two tables left. A table has its unique keys, but the one of
the rate limits that is younger than the table; `pos_id` came after the keys; older payments all have an attempt or
none has; and what is recorded was applied.

Which facts hold of a database depends on which of its statements each run has sent. `Rank` numbers the statements in
the one order that every script keeps, whatever is recorded already; `TodoOK` says that what a run has yet to send is
sorted by it, and that a statement which decides on another is followed by that one (`Led`). `Passed` is then the set
of statements a run is past, and `Effects` what each of them did, which no statement of any run takes back (`Grown`).
`DbOK` is the database between two statements: a table has its columns from the start, and its unique keys unless it
is in `keyless` or the release it comes from did not have them; the older payments have equally many attempts; the
limits are no milder than at first; and what is recorded has had its effects. On PostgreSQL a knex run that fails
brings back the database it found. So `OneTransaction` says all this of that database too: such a run is the only knex
run under way, nothing another run relies on is undone with it, and a key it finds without having added it was there
before, which is the cause of an aborted run (`AbortedHasCause`). `Quiet` says what a run finds that works alone:
nothing refuses its next statement, because what that would create is not there. `Settled` holds until a run dies,
fails or meets another: a table lacks its keys only between the two statements that make them, and hits are counted
twice only between the two statements of a merge.

`RecordedIsAppliedHolds` and `LimitsNotLoosenedHolds` follow from `DbOK` and `Settled`; `FinishedIsCurrentHolds` from
the effects of a whole script; `FailureHasCauseHolds` goes through the statements that can fail, and shows by `Quiet`
that those of a run that works alone only fail over old rows, an old key or an old table. The sums of hits are folds,
in an order that a `CHOOSE` picks; as in `PaymentForm`, that any summand may be taken first is proved without
induction.

**Types.** The type invariants of `PaymentLifecycle`, `Checkout`, `RateLimit`, `StatelessCallback`, `Reconciliation`
and `KeyRotation` are proved and not run; those of `PaymentRows`, `StorageTransactions`, `PaymentForm` and
`Migrations` are parts of the inductive invariants.

**Only model-checked.** The liveness properties (`CompletedIsInvoiced`, `EveryRequestAnswered`, `RotationEnds`,
`GenuineCallbackIsHeard`, `DecidedIsSettled`), which TLAPS does not prove (no `ENABLED`).

## Disagreements between the code and its documentation

Two have a run that checks one property, in which TLC finds a behaviour of the code that violates it.

- `lifecycle_success_wins`: docs/11-idempotency.md:94 says of a superseded attempt that completed "A successful
  payment must win". It takes the parent, but the current attempt still propagates anything
  (`transaction-attempt.ts:208`, and line 93 of the same table), so a later error of it makes the payment failed
  again.
- `storage_prisma_mysql`: docs/04-payment-flow.md:30 says a callback updates attempt and parent inside one
  transaction. On MySQL Prisma locks the parent with one statement and reads it with another, which shows the older
  snapshot (`prisma/repositories/transaction.ts:58`); a change that equals the stale value is taken for no change and
  is not written, so an attempt is failed and its parent stays cancelled.

The others were found while modelling, and each is a behaviour of a module here under other constants or without a
precondition named above.

- docs/05-transaction-management.md:66 allows cancellation from pending and failed; the status is checked on the
  record the caller read (`cancel-transaction.ts:25`), and a success that lands in between is overwritten. Line 55
  refuses a retry of a payment that is not failed; the status is again that of an earlier read
  (`create-retry-payment-attempt.ts:32`). The attempts of a retry are counted outside its transaction, so two that
  overlap pass the limit.
- docs/05-transaction-management.md:75 keeps refunds within a tracked balance and in the payload's history; the
  reconciliation writes back a payload it read before its query (`reconcile-transaction-status.ts:50`).
- docs/07-security.md:75 calls retry and cancel URLs single-use. They are while they last (`FreshUrlOnce`); the row of
  the nonce may end with the URL, at the very instant of which `validateAction` still accepts it, so an opening that
  is decided then, or was validated before, may be a second one (`lifecycle-handlers.ts:282`).
- docs/07-security.md:83 says that a late failure never overwrites the active retry; when a callback that does not
  match its row found a payment without attempts, and a retry gives it some before the failure is written, it does
  (`fail-transaction.ts:42`). Such a callback fails the attempt it found without the lock and the replay check of the
  others (`ensure-callback-matches-transaction.ts:25`): it may land on an attempt that a success has just completed,
  so that the paid payment is failed, and the next delivery of the success completes and announces it again. This is
  why `CompletedAtMostOnce`, `ParentReflectsAttempt` and `PaidStaysPaid` are stated for callbacks that match.
- docs/11-idempotency.md:46 says that a processing key is being served; when the request that reserved it dies, or its
  `fail()` throws, it stays processing and every later post is answered 409.
- docs/13-stateless-mode.md:155 says `markProcessed` runs on success and failure alike. The fingerprint of an error
  callback does not cover the amount; one with an amount that is no number passes it, claims the payment, and makes
  the match throw (`match-expected-payment.ts:93`): the payment is claimed and nothing is recorded or announced.
  `GenuineCallbackIsHeard` names the case (`threw`).
- docs/07-security.md:44 says that the rotation stops early when no value of a table was readable. A row with one
  value under the current key and one that is unreadable counts as unreadable (`reencrypt-batch.ts:92`), so a table of
  such rows is stopped although half of it was read.
- docs/12-storage-adapters.md:249 says that migration 0008 detects an index that exists and moves on. On PostgreSQL
  the failed `CREATE INDEX` has aborted the transaction of the run, and the next statement fails
  (`add-request-metadata-created-at-index.ts:18` has no savepoint, 0005 has one); 0003 fails alike on a database the
  Drizzle adapter made. `FailureHasCause` names both (`KeyBefore`).

Two wordings were met and left alone. docs/07-security.md:8 says a fingerprint mismatch "fails the transaction", while
`validate-fingerprint.ts:20-21` writes nothing, as docs/04-payment-flow.md:28 says. docs/07-security.md:94 reads as if
a block lasted longer than its window; `resetIfExpired` ends it with the window, which line 98 says as well.

## Not modelled, and why

- A commit whose acknowledgement is lost: the code takes an error for a roll-back, and the models do the same.
- In `StorageTransactions` a handler runs one operation, so a fourth transaction never meets what three left; the rows
  a retry supersedes are locked in one step; gap locks of InnoDB and Prisma on SQLite are left out. Prisma on
  PostgreSQL behaves as PostgreSQL, whose every statement reads what is committed. Item and blacklist rows have one
  writer and are left out, and so is the mapping of rows to records.
- In `Migrations` column types are left out, and a `CREATE TABLE` with its keys is two statements on every adapter.
  That a Drizzle statement waits for an open knex run on PostgreSQL, and what each server locks, is assumed of the
  servers. What a death leaves for good: a table whose keys were not yet created never gets them, since the rerun
  finds it; and `CREATE TABLE IF NOT EXISTS` does not add inline unique columns to a half-made table.
- In `Reconciliation`: cancellations and retries (they are in `PaymentLifecycle`), payments of a scope whose
  credentials differ, and the numbers of the report. Known limits of the code that the properties step around: with as
  many undecided older payments as the limit, nothing behind them is asked about again (`sisp.ts:154`); a run that is
  cut short between the payment and its invoice leaves the invoice behind for good, and so does a callback whose
  invoice fails or whose process dies before it (`callback-handlers.ts:175`, `SettledIsInvoiced` excuses both); a
  handler that is slow to write the invoice of a callback without an outcome may write it over that of a success which
  came meanwhile (`overtaken`); an error of the database ends the whole run; a signed callback of an unmapped message
  type sets `message_type`, and such a payment is never listed again.
- In `PaymentForm`: the wording of errors, blanks around a text, a configured maximum beyond the range of the
  conversions (`RangeAssumption`), and the precision of a double, which is an amount with all its digits here: ten
  digits after the point are beyond it from some 100 000 on, thousandths only near the end of the range. Left as
  found: `toCents` rounds what was already rounded to thousandths; `toFixed` rounds before that, so that
  0.00049999999999 is signed as one thousandth, which `SignedIsAsked` allows for; a payment stored with the currency
  `''` cannot be refunded (`build-refund-request.ts:38`); `currency: ''` passes validation, and `??` keeps it, so it
  is signed and stored; an empty `transactionCode` is stored as `''` and compared as the configured code
  (`ensure-callback-matches-transaction.ts:70-74`), so its success fails for details; with an empty reference or
  session the callback is turned away as unidentified; and customer fields given as JSON numbers are in the first form
  but not in the row, so that a 3-D Secure retry is refused, or sent with the postal code `0000`.
- Hashing and the wire format, the HTTP adapters, configuration and wiring, the sandbox's page, tables of countries
  and user agents: pure data or I/O. `countries.generated.ts` is a generated table.

## Plan

What is built was planned in the order of what a failure would cost: the lifecycle, the checkout and the rate limits
first, then the storage under them, stateless mode, maintenance, migrations, reconciliation and the amounts. What is
left, in the same order:

1. `PaymentLifecycle` shown to implement `PaymentRows` as well, so that the two refinements meet: today both model the
   same transactions, and share `PaymentRows` only through `StorageTransactions`.
2. A driver that reports an error for a committed transaction, in `Checkout` and `StorageTransactions`.
3. Prisma on SQLite, which takes no row locks (`prisma/locking.ts:30`) and is not behind the `StatementQueue`.
