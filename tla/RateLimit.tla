----------------------------- MODULE RateLimit -----------------------------
(***************************************************************************)
(* The fixed windows of sisp_rate_limits: rateLimits.hit() of the knex,     *)
(* drizzle and prisma adapters, and the handlers that call it, the payment  *)
(* pipe EnforceRateLimits, the per-IP guards and the signed actions, whose  *)
(* nonce is a row with a limit of one.  A hit is one database transaction;  *)
(* each action is a statement of it, up to the next await.  The processes   *)
(* that share the tables may use different adapters.  Rows are locked and   *)
(* read as under READ COMMITTED: a plain read sees the last commit, FOR     *)
(* UPDATE waits for the row's lock, and an insert waits for a transaction   *)
(* that inserted the same key.  A transaction may be rolled back before any *)
(* statement (deadlock victim, lost connection, process that dies).         *)
(***************************************************************************)
EXTENDS Naturals, FiniteSets, Sequences

CONSTANTS
    Request,    \* the HTTP requests, each of which is served once
    Scope,      \* the rows of rate-limit rules: identifier, type and context
    Url,        \* the nonces of signed actions
    Limit,      \* Limit[s]: rule.limit of a scope
    Window,     \* Window[s]: rule.windowSeconds of a scope
    Expires,    \* Expires[u]: the second a signed action expires at
    Second,     \* what the clock counts in a second: 1000
    Routes,     \* the scopes a request is checked against, in order
    Instants,   \* bound: what Date.now() may return
    Null        \* SQL NULL, the absent row

Key == Scope \cup Url

ASSUME KeyAssumption == Scope \cap Url = {} /\ Null \notin Request
ASSUME RuleAssumption ==
    /\ Limit \in [Scope -> Nat]
    /\ Window \in [Scope -> Nat \ {0}]
    /\ Expires \in [Url -> Nat]
    /\ Second \in Nat \ {0}
    /\ Routes \subseteq Seq(Scope) \ {<<>>}
    /\ Instants \subseteq Nat

VARIABLES
    rows,      \* the committed row of each key
    lock,      \* the transaction that has locked, or inserted, the row
    own,       \* the row as the transaction of each request has written it
    todo,      \* the hits each request has yet to make
    pc,        \* the next statement of each request
    now,       \* Date.now()
    counted    \* history: the verdict of every committed hit

vars == <<rows, lock, own, todo, pc, now, counted>>

Hit == [key : Key, limit : Nat, window : Nat \ {0}]
Row == [hits : Nat, reset_at : Nat, is_blocked : BOOLEAN,
        blocked_until : Nat \cup {Null}]

ASSUME AbsentAssumption == Null \notin Row \cup Nat

---------------------------------------------------------------------------
hit(r) == Head(todo[r])

scopeHit(s) == [key |-> s, limit |-> Limit[s], window |-> Window[s]]

expiresAt(u) == Expires[u] * Second

(* Mutant: the second that has begun does not count.                        *)
secondsLeftFloor(u) ==
    LET whole == (expiresAt(u) - now) \div Second IN IF whole > 1 THEN whole ELSE 1

(* signedActionConsumed: the seconds left, rounded up, and at least one.    *)
secondsLeft(u) ==
    IF expiresAt(u) > now THEN (expiresAt(u) - now + Second - 1) \div Second ELSE 1

windowOf(h) == h.window * Second

newRow(h) == [hits |-> 0, reset_at |-> now + windowOf(h), is_blocked |-> FALSE,
              blocked_until |-> Null]

isExpired(row) == row.reset_at <= now

isCurrentlyBlocked(row) ==
    /\ row.is_blocked
    /\ row.blocked_until = Null \/ row.blocked_until > now

(* Mutants: the last hit of the limit is refused; one more is accepted.     *)
exceedsAtLimit(h, hits) == hits >= h.limit
exceedsByMore(h, hits) == hits > h.limit + 1

exceeds(h, hits) == hits > h.limit

(* Mutant: rows are read without FOR UPDATE.                                *)
unlockedFor(r) == TRUE

(* FOR UPDATE: nobody else has locked the row of this hit.                  *)
freeFor(r) == lock[hit(r).key] \in {Null, r}

(* The insert sees a committed row, or no transaction that inserted one.    *)
insertSettled(r) == rows[hit(r).key] # Null \/ freeFor(r)

---------------------------------------------------------------------------
Init ==
    /\ rows = [k \in Key |-> Null]
    /\ lock = [k \in Key |-> Null]
    /\ own = [r \in Request |-> Null]
    /\ todo = [r \in Request |-> <<>>]
    /\ pc = [r \in Request |-> "new"]
    /\ now \in Instants
    /\ counted = {}

GoTo(r, step) == pc' = [pc EXCEPT ![r] = step]

(* A payment, a refund or a status request: the hits of its scopes.         *)
Arrive(r, route) ==
    /\ pc[r] = "new"
    /\ todo' = [todo EXCEPT ![r] = [i \in DOMAIN route |-> scopeHit(route[i])]]
    /\ GoTo(r, "find")
    /\ UNCHANGED <<rows, lock, own, now, counted>>

(* A signed retry or cancel URL that validateAction accepts as fresh.       *)
OpenUrl(r, u) ==
    /\ pc[r] = "new"
    /\ expiresAt(u) >= now
    /\ todo' = [todo EXCEPT ![r] =
                  <<[key |-> u, limit |-> 1, window |-> secondsLeft(u)]>>]
    /\ GoTo(r, "find")
    /\ UNCHANGED <<rows, lock, own, now, counted>>

(* drizzle and prisma look for the row without locking it.                  *)
Find(r) ==
    /\ pc[r] = "find"
    /\ GoTo(r, IF rows[hit(r).key] = Null THEN "insert" ELSE "lock")
    /\ UNCHANGED <<rows, lock, own, todo, now, counted>>

(* knex looks for it FOR UPDATE; a row that is only inserted is not seen.   *)
FindForUpdate(r) ==
    /\ pc[r] = "find"
    /\ LET k == hit(r).key IN
         IF rows[k] = Null
         THEN GoTo(r, "insert") /\ UNCHANGED <<lock, own>>
         ELSE /\ freeFor(r)
              /\ lock' = [lock EXCEPT ![k] = r]
              /\ own' = [own EXCEPT ![r] = rows[k]]
              /\ GoTo(r, "reset")
    /\ UNCHANGED <<rows, todo, now, counted>>

(* The insert that ignores a conflict on the unique key.                    *)
Insert(r) ==
    /\ pc[r] = "insert"
    /\ insertSettled(r)
    /\ LET k == hit(r).key IN
         IF rows[k] = Null /\ freeFor(r)
         THEN /\ lock' = [lock EXCEPT ![k] = r]
              /\ own' = [own EXCEPT ![r] = newRow(hit(r))]
         ELSE UNCHANGED <<lock, own>>
    /\ GoTo(r, "lock")
    /\ UNCHANGED <<rows, todo, now, counted>>

visible(r) == IF own[r] # Null THEN own[r] ELSE rows[hit(r).key]

(* The row is read FOR UPDATE; without one hit() throws.                    *)
Lock(r) ==
    /\ pc[r] = "lock"
    /\ freeFor(r)
    /\ IF visible(r) = Null
       THEN GoTo(r, "failed") /\ UNCHANGED <<lock, own>>
       ELSE /\ lock' = [lock EXCEPT ![hit(r).key] = r]
            /\ own' = [own EXCEPT ![r] = visible(r)]
            /\ GoTo(r, "reset")
    /\ UNCHANGED <<rows, todo, now, counted>>

(* resetIfExpired: a window that is over starts again.                      *)
ResetIfExpired(r) ==
    /\ pc[r] = "reset"
    /\ own' = IF isExpired(own[r]) THEN [own EXCEPT ![r] = newRow(hit(r))] ELSE own
    /\ GoTo(r, "count")
    /\ UNCHANGED <<rows, lock, todo, now, counted>>

Count(r) ==
    /\ pc[r] = "count"
    /\ IF isCurrentlyBlocked(own[r])
       THEN GoTo(r, "blocked") /\ UNCHANGED own
       ELSE LET hits == own[r].hits + 1 IN
              /\ own' = [own EXCEPT ![r].hits = hits]
              /\ GoTo(r, IF exceeds(hit(r), hits) THEN "block" ELSE "accept")
    /\ UNCHANGED <<rows, lock, todo, now, counted>>

Block(r) ==
    /\ pc[r] = "block"
    /\ own' = [own EXCEPT ![r].is_blocked = TRUE,
                          ![r].blocked_until = now + windowOf(hit(r))]
    /\ GoTo(r, "refuse")
    /\ UNCHANGED <<rows, lock, todo, now, counted>>

(* Mutant: the lock outlives its transaction.                               *)
ReleaseOwn(r) == UNCHANGED lock /\ own' = [own EXCEPT ![r] = Null]

Release(r) ==
    /\ lock' = [k \in Key |-> IF lock[k] = r THEN Null ELSE lock[k]]
    /\ own' = [own EXCEPT ![r] = Null]

verdict(r) ==
    [request |-> r, key |-> hit(r).key, window |-> own[r].reset_at,
     number |-> IF pc[r] = "blocked" THEN 0 ELSE own[r].hits,
     accepted |-> pc[r] = "accept"]

(* The transaction commits; an accepted request goes on to its next hit.    *)
Commit(r) ==
    /\ pc[r] \in {"accept", "blocked", "refuse"}
    /\ rows' = [rows EXCEPT ![hit(r).key] = own[r]]
    /\ counted' = counted \cup {verdict(r)}
    /\ Release(r)
    /\ todo' = [todo EXCEPT ![r] = IF pc[r] = "accept" THEN Tail(@) ELSE <<>>]
    /\ GoTo(r, IF pc[r] # "accept" THEN "refused"
               ELSE IF Len(todo[r]) = 1 THEN "passed" ELSE "find")
    /\ UNCHANGED now

InTransaction(r) == pc[r] \notin {"new", "passed", "refused", "failed"}

(* The transaction is rolled back and the request fails.                    *)
Rollback(r) ==
    /\ InTransaction(r)
    /\ Release(r)
    /\ todo' = [todo EXCEPT ![r] = <<>>]
    /\ GoTo(r, "failed")
    /\ UNCHANGED <<rows, now, counted>>

Tick ==
    /\ now' \in {t \in Instants : t > now}
    /\ UNCHANGED <<rows, lock, own, todo, pc, counted>>

Work(r) ==
    \/ Find(r)
    \/ FindForUpdate(r)
    \/ Insert(r)
    \/ Lock(r)
    \/ ResetIfExpired(r)
    \/ Count(r)
    \/ Block(r)
    \/ Commit(r)

Next ==
    \/ \E r \in Request :
         \/ \E route \in Routes : Arrive(r, route)
         \/ \E u \in Url : OpenUrl(r, u)
         \/ Work(r)
         \/ Rollback(r)
    \/ Tick

Spec == Init /\ [][Next]_vars

(* An answered statement resumes its request, and the database grants a     *)
(* free row to a transaction that waits for it.                             *)
FairSpec == Spec /\ \A r \in Request : WF_vars(Work(r))
---------------------------------------------------------------------------
Step == {"new", "find", "insert", "lock", "reset", "count", "block",
         "accept", "blocked", "refuse", "passed", "refused", "failed"}
Verdict == [request : Request, key : Key, window : Nat, number : Nat,
            accepted : BOOLEAN]

HoldingStep == {"reset", "count", "block", "accept", "blocked", "refuse"}

(* A request that is being checked has a hit to make and, from the locking  *)
(* read on, a copy of the row, whose lock is its own.                       *)
RequestOK(r) ==
    /\ InTransaction(r) => todo[r] # <<>>
    /\ pc[r] \in HoldingStep => own[r] # Null
    /\ own[r] # Null => InTransaction(r) /\ lock[hit(r).key] = r

(* The columns keep their types, and only the transaction that has the lock *)
(* of a row holds a copy of it.                                             *)
TypeOK ==
    /\ rows \in [Key -> Row \cup {Null}]
    /\ lock \in [Key -> Request \cup {Null}]
    /\ own \in [Request -> Row \cup {Null}]
    /\ todo \in [Request -> Seq(Hit)]
    /\ pc \in [Request -> Step]
    /\ now \in Nat
    /\ counted \in SUBSET Verdict
    /\ \A r \in Request : RequestOK(r)

limitOf(k) == IF k \in Url THEN 1 ELSE Limit[k]

InWindow(k, w) == {v \in counted : v.key = k /\ v.window = w}
Accepted(k, w) == {v \in InWindow(k, w) : v.accepted}

(* No hit is lost: the counter of a row is the number of hits committed in  *)
(* its window, except those that found it blocked (findOrCreate's locking   *)
(* reads and the unique key).                                               *)
HitsCounted ==
    \A k \in Key :
      rows[k] # Null =>
        rows[k].hits =
          Cardinality({v \in InWindow(k, rows[k].reset_at) : v.number # 0})

(* Concurrent requests, first hits that race to insert the row, and windows *)
(* that expire under them never let more than the limit through a window.   *)
WithinLimit ==
    \A v \in counted : Cardinality(Accepted(v.key, v.window)) <= limitOf(v.key)

(* Nobody is refused while the window has room: a refusal comes after limit *)
(* many accepted hits, and a rolled back hit takes no room.                 *)
NobodyRefusedEarly ==
    \A v \in counted :
      ~v.accepted => Cardinality(Accepted(v.key, v.window)) = limitOf(v.key)

(* hit() never throws "could not be read or created": whoever finds no row  *)
(* has one after its insert, its own or one that was committed.             *)
RowIsThere ==
    \A r \in Request : pc[r] = "lock" /\ freeFor(r) => visible(r) # Null

(* A signed action is let through at most once before it expires, at        *)
(* whichever instants its URL is opened and its hits are decided: the row   *)
(* of its nonce, which lasts for whole seconds, is not over before the URL  *)
(* is (signedActionConsumed).  Once the URL has expired the row may be over *)
(* as well, and an opening that was validated in time passes late.          *)
FreshUrlOnce ==
    \A r \in Request :
      pc[r] = "accept" /\ hit(r).key \in Url /\ now < expiresAt(hit(r).key) =>
        ~\E v \in counted : v.key = hit(r).key /\ v.accepted

(* A committed row never goes back: in its window hits only grow and a      *)
(* block stays, and only a window that is over is replaced, by a later one. *)
CountersOnlyGrow ==
    [][ \A k \in Key : rows[k] # Null =>
          /\ rows'[k] # Null
          /\ \/ /\ rows'[k].reset_at = rows[k].reset_at
                /\ rows'[k].hits >= rows[k].hits
                /\ rows[k].is_blocked => rows'[k].is_blocked
             \/ /\ rows'[k].reset_at > rows[k].reset_at
                /\ rows[k].reset_at <= now ]_vars

(* Every request is answered: a hit that waits for a row, or for the insert *)
(* of one, waits for a transaction that ends, and holds no other row.       *)
EveryRequestAnswered ==
    \A r \in Request : InTransaction(r) ~> ~InTransaction(r)
===========================================================================
