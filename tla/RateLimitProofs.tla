-------------------------- MODULE RateLimitProofs --------------------------
(* Theorems about RateLimit for every value of its constants: any number of *)
(* requests, rules and signed actions, whatever their limits and windows.   *)
EXTENDS RateLimit, SequenceTheorems, FiniteSetTheorems, TLAPS

---------------------------------------------------------------------------
(* The inductive invariant.                                                 *)

(* The hits that handlers make: the limit belongs to the row, and the row   *)
(* of a nonce is to last until its URL expires.                             *)
PlannedHit ==
    {h \in Hit : /\ h.limit = limitOf(h.key)
                 /\ h.key \in Url => now + windowOf(h) >= expiresAt(h.key)}

TodoInv == todo \in [Request -> Seq(PlannedHit)]

CountedStep == {"accept", "block", "refuse"}

(* The copy continues the window of the committed row.                      *)
Continues(row, base) == base # Null /\ row.reset_at = base.reset_at

(* The copy opens a window of its own, the first or the next one.           *)
Opens(row, base, t) ==
    base = Null \/ (base.reset_at <= t /\ base.reset_at < row.reset_at)

(* What a transaction at a statement may hold, as row, of the row base of   *)
(* key k that is committed, at time t.                                      *)
Copy(step, row, base, k, t) ==
    /\ k \in Url => row.reset_at >= expiresAt(k)
    /\ step = "lock" => base = Null
    /\ step \in {"lock", "reset"} /\ base = Null => row.hits = 0 /\ ~row.is_blocked
    /\ step = "reset" /\ base # Null => row = base
    /\ step = "count" =>
         \/ base # Null /\ row = base
         \/ Opens(row, base, t) /\ row.hits = 0 /\ ~row.is_blocked
    /\ step = "blocked" => base # Null /\ row = base
    /\ step \in CountedStep =>
         \/ /\ Continues(row, base)
            /\ row.hits = base.hits + 1
            /\ base.is_blocked => row.is_blocked
         \/ Opens(row, base, t) /\ row.hits = 1
    /\ step = "accept" => row.hits <= limitOf(k)
    /\ step \in {"block", "refuse"} => row.hits > limitOf(k)
    /\ step = "blocked" \/ row.is_blocked => row.hits > limitOf(k)

CopyOK(r) == Copy(pc[r], own[r], rows[hit(r).key], hit(r).key, now)

CopyInv ==
    /\ \A r \in Request : pc[r] \in {"find", "insert"} => own[r] = Null
    /\ \A r \in Request : own[r] # Null => CopyOK(r)

(* A hit that found no row, or lost the insert, finds one when it gets the  *)
(* lock.                                                                    *)
LockInv ==
    \A r \in Request :
      pc[r] = "lock" /\ own[r] = Null => rows[hit(r).key] # Null

(* The row of a nonce lasts until its URL expires.                          *)
UrlInv == \A u \in Url : rows[u] # Null => rows[u].reset_at >= expiresAt(u)

(* Only a row that is used up is blocked.                                   *)
BlockedInv ==
    \A k \in Key : rows[k] # Null /\ rows[k].is_blocked => rows[k].hits > limitOf(k)

(* The committed hits of a row: none is of a later window, and those of the *)
(* current one have been counted.                                           *)
VerdictInv ==
    \A v \in counted :
      /\ rows[v.key] # Null
      /\ v.window <= rows[v.key].reset_at
      /\ v.window = rows[v.key].reset_at => v.number <= rows[v.key].hits
      /\ v.accepted => v.number \in 1 .. limitOf(v.key)
      /\ v.key \in Url /\ now < expiresAt(v.key) =>
           v.window = rows[v.key].reset_at

(* Two hits of a window never get the same number.                          *)
NumberInv ==
    \A v, w \in counted :
      v.key = w.key /\ v.window = w.window /\ v.number = w.number /\ v.number # 0
      => v = w

(* In a window the first hits are accepted, up to the limit.                *)
AcceptedInv ==
    \A k \in Key : rows[k] # Null =>
      LET hits == rows[k].hits IN
        Cardinality(Accepted(k, rows[k].reset_at)) =
          IF hits <= limitOf(k) THEN hits ELSE limitOf(k)

FiniteInv == IsFiniteSet(counted)

IInv == /\ TypeOK /\ TodoInv /\ CopyInv /\ LockInv /\ UrlInv /\ BlockedInv
        /\ VerdictInv /\ NumberInv
        /\ FiniteInv /\ HitsCounted /\ AcceptedInv
        /\ WithinLimit /\ NobodyRefusedEarly

---------------------------------------------------------------------------
(* Limits, windows and expiries are numbers.                                *)
LEMMA RuleFacts ==
    /\ \A s \in Scope : s \notin Url /\ Limit[s] \in Nat /\ Window[s] \in Nat \ {0}
    /\ \A u \in Url : expiresAt(u) \in Nat
    /\ \A k \in Key : limitOf(k) \in Nat
<1>1. Second \in Nat /\ \A u \in Url : Expires[u] \in Nat
  BY RuleAssumption
<1>2. \A u \in Url : expiresAt(u) \in Nat
  BY <1>1 DEF expiresAt
<1> QED
  BY <1>2, KeyAssumption, RuleAssumption DEF limitOf, Key

(* Whole seconds, rounded up, last as long as what they are counted from.   *)
LEMMA RoundedUp ==
    ASSUME NEW left \in Nat \ {0}
    PROVE  /\ (left + Second - 1) \div Second \in Nat \ {0}
           /\ ((left + Second - 1) \div Second) * Second >= left
<1>1. Second \in Nat \ {0}
  BY RuleAssumption
<1> DEFINE q == (left + Second - 1) \div Second
           m == (left + Second - 1) % Second
<1>2. /\ q \in Int /\ m \in 0 .. Second - 1
      /\ left + Second - 1 = Second * q + m
  BY <1>1
<1> HIDE DEF q, m
<1>3. Second * q >= left
  BY <1>1, <1>2
<1>4. q * Second >= left
  BY <1>1, <1>2, <1>3
<1>5. q > 0
  BY <1>1, <1>2, <1>3
<1> QED
  BY <1>2, <1>4, <1>5 DEF q

(* The window of a hit is a time.                                           *)
LEMMA WindowFacts ==
    \A h \in Hit : windowOf(h) \in Nat \ {0}
<1>1. ASSUME NEW w \in Nat \ {0} PROVE w * Second \in Nat \ {0}
  BY RuleAssumption
<1> QED
  BY <1>1 DEF windowOf, Hit

(* A request that is being checked has a planned hit to make.               *)
LEMMA HitFacts ==
    ASSUME TypeOK, TodoInv, NEW r \in Request, InTransaction(r)
    PROVE  /\ hit(r) \in Hit
           /\ hit(r).key \in Key
           /\ windowOf(hit(r)) \in Nat \ {0}
           /\ hit(r).limit = limitOf(hit(r).key)
           /\ hit(r).key \in Url => now + windowOf(hit(r)) >= expiresAt(hit(r).key)
           /\ Tail(todo[r]) \in Seq(PlannedHit)
<1>1. todo[r] \in Seq(PlannedHit) /\ todo[r] # <<>>
  BY DEF TypeOK, TodoInv, RequestOK
<1>2. Head(todo[r]) \in PlannedHit /\ Tail(todo[r]) \in Seq(PlannedHit)
  BY <1>1, HeadTailProperties
<1> QED
  BY <1>2, WindowFacts DEF hit, PlannedHit, Hit

(* A window that starts is a row of its own.                                *)
LEMMA NewRowFacts ==
    ASSUME TypeOK, TodoInv, NEW r \in Request, InTransaction(r)
    PROVE  /\ newRow(hit(r)) \in Row
           /\ newRow(hit(r)) # Null
           /\ newRow(hit(r)).hits = 0
           /\ newRow(hit(r)).is_blocked = FALSE
           /\ newRow(hit(r)).reset_at > now
           /\ hit(r).key \in Url => newRow(hit(r)).reset_at >= expiresAt(hit(r).key)
<1>1. now \in Nat
  BY DEF TypeOK
<1>2. newRow(hit(r)) \in Row
  BY <1>1, HitFacts DEF newRow, Row
<1>3. /\ newRow(hit(r)).hits = 0
      /\ newRow(hit(r)).is_blocked = FALSE
      /\ newRow(hit(r)).reset_at = now + windowOf(hit(r))
  BY DEF newRow
<1> QED
  BY <1>1, <1>2, <1>3, HitFacts, AbsentAssumption

---------------------------------------------------------------------------
(* What the handlers ask for is planned.                                    *)
LEMMA RouteIsPlanned ==
    ASSUME NEW route \in Routes
    PROVE  /\ [i \in DOMAIN route |-> scopeHit(route[i])] \in Seq(PlannedHit)
           /\ [i \in DOMAIN route |-> scopeHit(route[i])] # <<>>
<1> DEFINE hits == [i \in DOMAIN route |-> scopeHit(route[i])]
<1>1. route \in Seq(Scope) /\ route # <<>>
  BY RuleAssumption
<1>2. /\ Len(route) \in Nat \ {0}
      /\ DOMAIN route = 1 .. Len(route)
      /\ \A i \in 1 .. Len(route) : route[i] \in Scope
  BY <1>1, EmptySeq, LenProperties, ElementOfSeq
<1>3. \A i \in 1 .. Len(route) : scopeHit(route[i]) \in PlannedHit
  BY <1>2, RuleFacts DEF scopeHit, PlannedHit, Hit, limitOf, Key
<1>4. hits \in [1 .. Len(route) -> PlannedHit]
  BY <1>2, <1>3
<1>5. hits \in Seq(PlannedHit)
  BY <1>2, <1>4, SeqDef
<1>6. 1 \in DOMAIN hits
  BY <1>2
<1>7. DOMAIN <<>> = {}
  BY EmptySeq, LenProperties
<1> QED
  BY <1>5, <1>6, <1>7

LEMMA UrlIsPlanned ==
    ASSUME now \in Nat, NEW u \in Url
    PROVE  /\ <<[key |-> u, limit |-> 1, window |-> secondsLeft(u)]>>
                \in Seq(PlannedHit)
           /\ <<[key |-> u, limit |-> 1, window |-> secondsLeft(u)]>> # <<>>
<1> DEFINE h == [key |-> u, limit |-> 1, window |-> secondsLeft(u)]
<1>0. expiresAt(u) \in Nat
  BY RuleFacts
<1>1. /\ secondsLeft(u) \in Nat \ {0}
      /\ now + secondsLeft(u) * Second >= expiresAt(u)
  <2>1. CASE expiresAt(u) > now
    <3> DEFINE left == expiresAt(u) - now
    <3>1. left \in Nat \ {0} /\ now + left = expiresAt(u)
      BY <1>0, <2>1
    <3>2. secondsLeft(u) = (left + Second - 1) \div Second
      BY <2>1 DEF secondsLeft
    <3> HIDE DEF left
    <3> DEFINE q == (left + Second - 1) \div Second
    <3>3. q \in Nat \ {0} /\ q * Second >= left
      BY <3>1, RoundedUp
    <3>4. q * Second \in Nat
      BY <3>3, RuleAssumption
    <3>5. secondsLeft(u) = q
      BY <3>2
    <3> HIDE DEF q
    <3> QED
      BY <1>0, <3>1, <3>3, <3>4, <3>5
  <2>2. CASE ~(expiresAt(u) > now)
    BY <1>0, <2>2, RuleAssumption DEF secondsLeft
  <2> QED
    BY <2>1, <2>2
<1>2. /\ h \in Hit /\ h.limit = limitOf(h.key) /\ h.key = u
      /\ windowOf(h) = secondsLeft(u) * Second
  BY <1>1 DEF Hit, limitOf, Key, windowOf
<1>3. h \in PlannedHit
  BY <1>1, <1>2 DEF PlannedHit
<1> QED
  BY <1>3

(* Time makes no planned hit unplanned.                                     *)
LEMMA StillPlanned ==
    ASSUME now \in Nat, now' \in Nat, now' >= now
    PROVE  \A s \in Seq(PlannedHit) : s \in Seq(PlannedHit)'
<1>1. PlannedHit \subseteq PlannedHit'
  <2> SUFFICES ASSUME NEW h \in PlannedHit PROVE h \in PlannedHit'
    OBVIOUS
  <2>1. h \in Hit /\ (h.key \in Url => expiresAt(h.key) \in Nat)
    BY RuleFacts DEF PlannedHit
  <2>2. /\ h.limit = limitOf(h.key)
        /\ h.key \in Url => now' + windowOf(h) >= expiresAt(h.key)
    BY <2>1, WindowFacts DEF PlannedHit
  <2> QED
    BY <2>1, <2>2 DEF PlannedHit, limitOf, windowOf, expiresAt
<1> QED
  BY <1>1, SeqMonotonic

(* The clock does not go back.                                              *)
LEMMA ClockStep ==
    ASSUME TypeOK, Tick \/ now' = now
    PROVE  now' \in Nat /\ now' >= now
<1>1. now \in Nat /\ Instants \subseteq Nat
  BY RuleAssumption DEF TypeOK
<1>2. CASE Tick
  <2>1. now' \in Instants /\ now' > now
    BY <1>2 DEF Tick
  <2> QED
    BY <1>1, <2>1
<1>3. CASE now' = now
  BY <1>1, <1>3
<1> QED
  BY <1>2, <1>3

LEMMA TodoStep ==
    ASSUME TypeOK, TodoInv, [Next]_vars
    PROVE  TodoInv'
<1>0. now \in Nat /\ todo \in [Request -> Seq(PlannedHit)]
  BY DEF TypeOK, TodoInv
<1>1. ASSUME NEW r \in Request, NEW route \in Routes, Arrive(r, route)
      PROVE  TodoInv'
  <2>1. now' = now
    BY <1>1 DEF Arrive
  <2>2. todo' \in [Request -> Seq(PlannedHit)]
    BY <1>0, <1>1, RouteIsPlanned DEF Arrive
  <2> QED
    BY <1>0, <2>1, <2>2, StillPlanned DEF TodoInv
<1>2. ASSUME NEW r \in Request, NEW u \in Url, OpenUrl(r, u)
      PROVE  TodoInv'
  <2>1. now' = now
    BY <1>2 DEF OpenUrl
  <2>2. todo' \in [Request -> Seq(PlannedHit)]
    BY <1>0, <1>2, UrlIsPlanned DEF OpenUrl
  <2> QED
    BY <1>0, <2>1, <2>2, StillPlanned DEF TodoInv
<1>3. ASSUME NEW r \in Request, Commit(r)
      PROVE  TodoInv'
  <2>1. now' = now
    BY <1>3 DEF Commit
  <2>2. InTransaction(r)
    BY <1>3 DEF Commit, InTransaction
  <2>3. Tail(todo[r]) \in Seq(PlannedHit) /\ <<>> \in Seq(PlannedHit)
    BY <2>2, HitFacts, EmptySeq
  <2>4. todo' \in [Request -> Seq(PlannedHit)]
    BY <1>0, <1>3, <2>3 DEF Commit
  <2> QED
    BY <1>0, <2>1, <2>4, StillPlanned DEF TodoInv
<1>4. ASSUME NEW r \in Request, Rollback(r)
      PROVE  TodoInv'
  <2>1. now' = now
    BY <1>4 DEF Rollback
  <2>2. <<>> \in Seq(PlannedHit)
    BY EmptySeq
  <2>3. todo' \in [Request -> Seq(PlannedHit)]
    BY <1>0, <1>4, <2>2 DEF Rollback
  <2> QED
    BY <1>0, <2>1, <2>3, StillPlanned DEF TodoInv
<1>5. CASE todo' = todo /\ now' \in Nat /\ now' >= now
  BY <1>0, <1>5, StillPlanned DEF TodoInv
<1>6. ASSUME NEW r \in Request, Work(r), ~Commit(r)
      PROVE  todo' = todo /\ now' = now
  BY <1>6 DEF Work, Find, FindForUpdate, Insert, Lock, ResetIfExpired, Count, Block
<1> QED
  BY <1>1, <1>2, <1>3, <1>4, <1>5, <1>6, ClockStep DEF Next, Work, Tick, vars

---------------------------------------------------------------------------
(* What a counted hit, and a block, make of a row.                          *)
LEMMA CountedRow ==
    ASSUME NEW row \in Row, NEW n \in Nat
    PROVE  /\ [row EXCEPT !.hits = n] \in Row
           /\ [row EXCEPT !.hits = n].hits = n
           /\ [row EXCEPT !.hits = n].reset_at = row.reset_at
           /\ [row EXCEPT !.hits = n].is_blocked = row.is_blocked
BY DEF Row

LEMMA BlockedRow ==
    ASSUME NEW row \in Row, NEW t \in Nat
    PROVE  LET new == [row EXCEPT !.is_blocked = TRUE, !.blocked_until = t]
           IN  /\ new \in Row
               /\ new.hits = row.hits
               /\ new.reset_at = row.reset_at
               /\ new.is_blocked
BY DEF Row

(* A lock that one request takes was free: the others keep theirs.          *)
LEMMA OthersOK ==
    ASSUME TypeOK, TodoInv, NEW r \in Request, NEW s \in Request \ {r}, NEW k \in Key,
           lock' = lock \/ (lock[k] \in {Null, r} /\ lock' = [lock EXCEPT ![k] = r]),
           own'[s] = own[s], pc'[s] = pc[s], todo'[s] = todo[s]
    PROVE  RequestOK(s)'
<1>1. RequestOK(s) /\ lock \in [Key -> Request \cup {Null}]
  BY DEF TypeOK
<1>2. hit(s)' = hit(s)
  BY DEF hit
<1>3. ASSUME own[s] # Null PROVE lock'[hit(s).key] = s
  <2>1. lock[hit(s).key] = s /\ hit(s).key \in Key
    BY <1>1, <1>3, HitFacts DEF RequestOK
  <2> QED
    BY <1>1, <2>1, KeyAssumption
<1>4. InTransaction(s)' = InTransaction(s)
  BY DEF InTransaction
<1> QED
  BY <1>1, <1>2, <1>3, <1>4 DEF RequestOK

(* The variables of one request change, those of the others stay.           *)
LEMMA TypeStep ==
    ASSUME TypeOK, TodoInv, [Next]_vars
    PROVE  TypeOK'
<1> USE DEF GoTo
<1>0. todo' \in [Request -> Seq(Hit)]
  <2>1. todo' \in [Request -> Seq(PlannedHit)']
    BY TodoStep DEF TodoInv
  <2>2. \A s \in Seq(PlannedHit)' : s \in Seq(Hit)
    BY SeqMonotonic DEF PlannedHit
  <2> QED
    BY <2>1, <2>2
<1> DEFINE Columns ==
      /\ rows \in [Key -> Row \cup {Null}]
      /\ lock \in [Key -> Request \cup {Null}]
      /\ own \in [Request -> Row \cup {Null}]
      /\ pc \in [Request -> Step]
      /\ now \in Nat
      /\ counted \in SUBSET Verdict
<1>a. Columns /\ todo \in [Request -> Seq(Hit)] /\ \A r \in Request : RequestOK(r)
  BY DEF TypeOK
<1>b. ASSUME Columns', \A r \in Request : RequestOK(r)'
      PROVE  TypeOK'
  BY <1>0, <1>b DEF TypeOK
<1>1. ASSUME NEW r \in Request, NEW route \in Routes, Arrive(r, route)
      PROVE  TypeOK'
  <2>1. Columns'
    BY <1>a, <1>1 DEF Arrive, Step
  <2>2. ASSUME NEW s \in Request PROVE RequestOK(s)'
    BY <1>a, <1>1, RouteIsPlanned DEF Arrive, RequestOK, InTransaction, HoldingStep, hit
  <2> QED
    BY <2>1, <2>2, <1>b
<1>2. ASSUME NEW r \in Request, NEW u \in Url, OpenUrl(r, u)
      PROVE  TypeOK'
  <2>1. Columns'
    BY <1>a, <1>2 DEF OpenUrl, Step
  <2>2. ASSUME NEW s \in Request PROVE RequestOK(s)'
    BY <1>a, <1>2, UrlIsPlanned DEF OpenUrl, RequestOK, InTransaction, HoldingStep, hit
  <2> QED
    BY <2>1, <2>2, <1>b
<1>3. ASSUME NEW r \in Request, Find(r)
      PROVE  TypeOK'
  <2>1. Columns'
    BY <1>a, <1>3 DEF Find, Step
  <2>2. ASSUME NEW s \in Request PROVE RequestOK(s)'
    BY <1>a, <1>3 DEF Find, RequestOK, InTransaction, HoldingStep, hit
  <2> QED
    BY <2>1, <2>2, <1>b
<1>4. ASSUME NEW r \in Request, FindForUpdate(r)
      PROVE  TypeOK'
  <2>1. InTransaction(r) /\ hit(r).key \in Key
    BY <1>4, HitFacts DEF FindForUpdate, InTransaction
  <2>2. Columns'
    BY <1>a, <1>4, <2>1 DEF FindForUpdate, Step
  <2>3. ASSUME NEW s \in Request PROVE hit(s)' = hit(s)
    BY <1>4 DEF FindForUpdate, hit
  <2>4. RequestOK(r)'
    BY <1>a, <1>4, <2>1, <2>3
    DEF FindForUpdate, freeFor, RequestOK, InTransaction, HoldingStep
  <2>5. ASSUME NEW s \in Request \ {r} PROVE RequestOK(s)'
    BY <1>a, <1>4, <2>1, OthersOK DEF FindForUpdate, freeFor
  <2> QED
    BY <2>2, <2>4, <2>5, <1>b
<1>5. ASSUME NEW r \in Request, Insert(r)
      PROVE  TypeOK'
  <2>1. InTransaction(r) /\ hit(r).key \in Key /\ newRow(hit(r)) \in Row
    BY <1>5, HitFacts, NewRowFacts DEF Insert, InTransaction
  <2>2. Columns'
    BY <1>a, <1>5, <2>1 DEF Insert, Step
  <2>3. ASSUME NEW s \in Request PROVE hit(s)' = hit(s)
    BY <1>5 DEF Insert, hit
  <2>4. RequestOK(r)'
    <3>1. InTransaction(r)' /\ pc'[r] = "lock" /\ todo'[r] # <<>>
      BY <1>a, <1>5, <2>1 DEF Insert, InTransaction, RequestOK
    <3>2. ASSUME own'[r] # Null PROVE lock'[hit(r).key] = r
      BY <1>a, <1>5, <2>1, <3>2 DEF Insert, freeFor, RequestOK
    <3> QED
      BY <2>3, <3>1, <3>2 DEF RequestOK, HoldingStep
  <2>5. ASSUME NEW s \in Request \ {r} PROVE RequestOK(s)'
    BY <1>a, <1>5, <2>1, OthersOK DEF Insert, freeFor
  <2> QED
    BY <2>2, <2>4, <2>5, <1>b
<1>6. ASSUME NEW r \in Request, Lock(r)
      PROVE  TypeOK'
  <2>1. InTransaction(r) /\ hit(r).key \in Key
    BY <1>6, HitFacts DEF Lock, InTransaction
  <2>2. Columns'
    BY <1>a, <1>6, <2>1 DEF Lock, Step, visible
  <2>3. ASSUME NEW s \in Request PROVE hit(s)' = hit(s)
    BY <1>6 DEF Lock, hit
  <2>4. RequestOK(r)'
    BY <1>a, <1>6, <2>1, <2>3
    DEF Lock, freeFor, visible, RequestOK, InTransaction, HoldingStep
  <2>5. ASSUME NEW s \in Request \ {r} PROVE RequestOK(s)'
    BY <1>a, <1>6, <2>1, OthersOK DEF Lock, freeFor
  <2> QED
    BY <2>2, <2>4, <2>5, <1>b
<1>7. ASSUME NEW r \in Request, ResetIfExpired(r)
      PROVE  TypeOK'
  <2>1. InTransaction(r) /\ newRow(hit(r)) \in Row /\ newRow(hit(r)) # Null
    BY <1>7, NewRowFacts DEF ResetIfExpired, InTransaction
  <2>2. Columns'
    BY <1>a, <1>7, <2>1 DEF ResetIfExpired, Step
  <2>3. ASSUME NEW s \in Request PROVE hit(s)' = hit(s)
    BY <1>7 DEF ResetIfExpired, hit
  <2>4. ASSUME NEW s \in Request PROVE RequestOK(s)'
    BY <1>a, <1>7, <2>1, <2>3
    DEF ResetIfExpired, RequestOK, InTransaction, HoldingStep
  <2> QED
    BY <2>2, <2>4, <1>b
<1>8. ASSUME NEW r \in Request, Count(r)
      PROVE  TypeOK'
  <2>1. InTransaction(r) /\ own[r] \in Row /\ own[r] # Null
    BY <1>8, <1>a DEF Count, InTransaction, RequestOK, HoldingStep
  <2>2. own[r].hits + 1 \in Nat
    BY <2>1 DEF Row
  <2> DEFINE row == [own[r] EXCEPT !.hits = own[r].hits + 1]
  <2>3. row \in Row /\ row # Null
    BY <2>1, <2>2, CountedRow, AbsentAssumption
  <2>4. own' = own \/ own' = [own EXCEPT ![r] = row]
    BY <1>8 DEF Count
  <2>5. pc' = [pc EXCEPT ![r] = pc'[r]] /\ pc'[r] \in HoldingStep
    BY <1>8, <1>a DEF Count, HoldingStep
  <2> HIDE DEF row
  <2>6. UNCHANGED <<rows, lock, todo, now, counted>>
    BY <1>8 DEF Count
  <2>7. Columns'
    BY <1>a, <2>3, <2>4, <2>5, <2>6 DEF Step, HoldingStep
  <2>8. ASSUME NEW s \in Request PROVE hit(s)' = hit(s)
    BY <2>6 DEF hit
  <2>9. ASSUME NEW s \in Request PROVE RequestOK(s)'
    BY <1>a, <2>1, <2>3, <2>4, <2>5, <2>6, <2>8
    DEF RequestOK, InTransaction, HoldingStep
  <2> QED
    BY <2>7, <2>9, <1>b
<1>9. ASSUME NEW r \in Request, Block(r)
      PROVE  TypeOK'
  <2>1. InTransaction(r) /\ own[r] \in Row /\ own[r] # Null
    BY <1>9, <1>a DEF Block, InTransaction, RequestOK, HoldingStep
  <2>2. now + windowOf(hit(r)) \in Nat
    BY <2>1, <1>a, HitFacts
  <2> DEFINE row == [own[r] EXCEPT !.is_blocked = TRUE,
                                   !.blocked_until = now + windowOf(hit(r))]
  <2>3. row \in Row /\ row # Null
    BY <2>1, <2>2, BlockedRow, AbsentAssumption
  <2>4. own' = [own EXCEPT ![r] = row]
    BY <1>9, <1>a DEF Block
  <2>5. pc' = [pc EXCEPT ![r] = pc'[r]] /\ pc'[r] \in HoldingStep
    BY <1>9, <1>a DEF Block, HoldingStep
  <2> HIDE DEF row
  <2>6. UNCHANGED <<rows, lock, todo, now, counted>>
    BY <1>9 DEF Block
  <2>7. Columns'
    BY <1>a, <2>3, <2>4, <2>5, <2>6 DEF Step, HoldingStep
  <2>8. ASSUME NEW s \in Request PROVE hit(s)' = hit(s)
    BY <2>6 DEF hit
  <2>9. ASSUME NEW s \in Request PROVE RequestOK(s)'
    BY <1>a, <2>1, <2>3, <2>4, <2>5, <2>6, <2>8
    DEF RequestOK, InTransaction, HoldingStep
  <2> QED
    BY <2>7, <2>9, <1>b
<1>10. ASSUME NEW r \in Request, Commit(r)
       PROVE  TypeOK'
  <2>1. /\ InTransaction(r)
        /\ hit(r).key \in Key
        /\ own[r] \in Row
        /\ todo[r] \in Seq(Hit)
        /\ todo[r] # <<>>
    BY <1>10, <1>a, HitFacts DEF Commit, InTransaction, RequestOK, HoldingStep
  <2>2. verdict(r) \in Verdict
    BY <2>1, <1>a DEF verdict, Verdict, Row
  <2>3. Len(todo[r]) # 1 => Tail(todo[r]) # <<>>
    <3>1. Len(Tail(todo[r])) = Len(todo[r]) - 1 /\ Len(todo[r]) \in Nat \ {0}
      BY <2>1, HeadTailProperties, EmptySeq
    <3>2. Len(<<>>) = 0
      BY EmptySeq
    <3>3. Len(todo[r]) # 1 => Len(Tail(todo[r])) # Len(<<>>)
      BY <3>1, <3>2
    <3> QED
      BY <3>3
  <2>4. Columns'
    BY <1>a, <1>10, <2>1, <2>2 DEF Commit, Release, Step
  <2>5. RequestOK(r)'
    BY <1>a, <1>10, <2>1, <2>3
    DEF Commit, Release, RequestOK, InTransaction, HoldingStep
  <2>6. ASSUME NEW s \in Request \ {r} PROVE RequestOK(s)'
    <3>1. hit(s)' = hit(s) /\ pc'[s] = pc[s] /\ own'[s] = own[s] /\ todo'[s] = todo[s]
      BY <1>a, <1>10 DEF Commit, Release, hit
    <3>2. ASSUME own[s] # Null PROVE lock'[hit(s).key] = s
      <4>1. lock[hit(s).key] = s /\ InTransaction(s)
        BY <1>a, <3>2 DEF RequestOK
      <4>2. hit(s).key \in Key
        BY <4>1, HitFacts
      <4> QED
        BY <1>10, <4>1, <4>2 DEF Commit, Release
    <3> QED
      BY <1>a, <3>1, <3>2 DEF RequestOK, InTransaction
  <2> QED
    BY <2>4, <2>5, <2>6, <1>b
<1>11. ASSUME NEW r \in Request, Rollback(r)
       PROVE  TypeOK'
  <2>1. Columns'
    BY <1>a, <1>11 DEF Rollback, Release, Step
  <2>2. RequestOK(r)'
    BY <1>a, <1>11 DEF Rollback, Release, RequestOK, InTransaction, HoldingStep
  <2>3. ASSUME NEW s \in Request \ {r} PROVE RequestOK(s)'
    <3>1. hit(s)' = hit(s) /\ pc'[s] = pc[s] /\ own'[s] = own[s] /\ todo'[s] = todo[s]
      BY <1>a, <1>11 DEF Rollback, Release, hit
    <3>2. ASSUME own[s] # Null PROVE lock'[hit(s).key] = s
      <4>1. lock[hit(s).key] = s /\ InTransaction(s)
        BY <1>a, <3>2 DEF RequestOK
      <4>2. hit(s).key \in Key
        BY <4>1, HitFacts
      <4> QED
        BY <1>11, <4>1, <4>2 DEF Rollback, Release
    <3> QED
      BY <1>a, <3>1, <3>2 DEF RequestOK, InTransaction
  <2> QED
    BY <2>1, <2>2, <2>3, <1>b
<1>12. CASE Tick
  <2>1. Columns' /\ \A s \in Request : RequestOK(s)'
    BY <1>a, <1>12, ClockStep DEF Tick, RequestOK, InTransaction, hit
  <2> QED
    BY <2>1, <1>b
<1>13. CASE UNCHANGED vars
  BY <1>0, <1>13 DEF vars, TypeOK, RequestOK, InTransaction, hit
<1> QED
  BY <1>1, <1>2, <1>3, <1>4, <1>5, <1>6, <1>7, <1>8, <1>9, <1>10, <1>11, <1>12, <1>13
  DEF Next, Work

---------------------------------------------------------------------------
(* A request changes nothing of another one, and commits only the row whose *)
(* lock it has.                                                             *)
RequestStep(r) ==
    \/ \E route \in Routes : Arrive(r, route)
    \/ \E u \in Url : OpenUrl(r, u)
    \/ Work(r)
    \/ Rollback(r)

LEMMA OnlyMine ==
    ASSUME TypeOK, NEW r \in Request, RequestStep(r)
    PROVE  /\ now' = now
           /\ \A s \in Request \ {r} :
                own'[s] = own[s] /\ pc'[s] = pc[s] /\ todo'[s] = todo[s]
           /\ Commit(r) \/ (rows' = rows /\ counted' = counted)
<1> USE DEF GoTo, TypeOK
<1>2. CASE \E route \in Routes : Arrive(r, route)
  BY <1>2 DEF Arrive
<1>3. CASE \E u \in Url : OpenUrl(r, u)
  BY <1>3 DEF OpenUrl
<1>4. CASE Commit(r)
  BY <1>4 DEF Commit, Release
<1>5. CASE Rollback(r)
  BY <1>5 DEF Rollback, Release
<1>6. CASE Work(r) /\ ~Commit(r)
  <2>1. UNCHANGED <<rows, todo, now, counted>>
    BY <1>6 DEF Work, Find, FindForUpdate, Insert, Lock, ResetIfExpired, Count, Block
  <2>2. \A s \in Request \ {r} : pc'[s] = pc[s]
    BY <1>6 DEF Work, Find, FindForUpdate, Insert, Lock, ResetIfExpired, Count, Block
  <2>3. \A s \in Request \ {r} : own'[s] = own[s]
    <3>1. CASE Count(r)
      <4>1. own' = own \/ own' = [own EXCEPT ![r].hits = own[r].hits + 1]
        BY <3>1 DEF Count
      <4> QED
        BY <4>1
    <3>2. CASE Block(r)
      BY <3>2 DEF Block
    <3>3. CASE Find(r) \/ FindForUpdate(r) \/ Insert(r) \/ Lock(r) \/ ResetIfExpired(r)
      BY <3>3 DEF Find, FindForUpdate, Insert, Lock, ResetIfExpired
    <3> QED
      BY <1>6, <3>1, <3>2, <3>3 DEF Work
  <2> QED
    BY <2>1, <2>2, <2>3
<1> QED
  BY <1>2, <1>3, <1>4, <1>5, <1>6 DEF RequestStep

(* Two transactions never hold copies of the same row.                      *)
LEMMA OneCopy ==
    ASSUME TypeOK, NEW r \in Request, NEW s \in Request \ {r},
           own[r] # Null, own[s] # Null
    PROVE  hit(r).key # hit(s).key
BY DEF TypeOK, RequestOK

(* A copy stays what it may be while its row stays and time goes on.        *)
LEMMA CopyKept ==
    ASSUME TypeOK, TodoInv, CopyInv, NEW s \in Request, own[s] # Null,
           own'[s] = own[s], pc'[s] = pc[s], todo'[s] = todo[s],
           rows'[hit(s).key] = rows[hit(s).key], now' \in Nat /\ now' >= now
    PROVE  CopyOK(s)'
<1>1. Copy(pc[s], own[s], rows[hit(s).key], hit(s).key, now)
  BY DEF CopyInv, CopyOK
<1>2. hit(s)' = hit(s)
  BY DEF hit
<1>3. hit(s).key \in Key
  BY HitFacts DEF TypeOK, RequestOK
<1>4. /\ now \in Nat
      /\ rows[hit(s).key] # Null => rows[hit(s).key].reset_at \in Nat
  BY <1>3 DEF TypeOK, Row
<1>5. Opens(own[s], rows[hit(s).key], now) => Opens(own[s], rows[hit(s).key], now')
  BY <1>4 DEF Opens
<1>6. Copy(pc[s], own[s], rows[hit(s).key], hit(s).key, now')
  BY <1>1, <1>5 DEF Copy
<1> QED
  BY <1>2, <1>6 DEF CopyOK

LEMMA OthersCopy ==
    ASSUME TypeOK, TodoInv, CopyInv, NEW r \in Request, RequestStep(r),
           NEW s \in Request \ {r}
    PROVE  /\ pc'[s] \in {"find", "insert"} => own'[s] = Null
           /\ own'[s] # Null => CopyOK(s)'
<1>1. own'[s] = own[s] /\ pc'[s] = pc[s] /\ todo'[s] = todo[s] /\ now' = now
  BY OnlyMine
<1>2. ASSUME own[s] # Null PROVE rows'[hit(s).key] = rows[hit(s).key]
  <2>1. CASE Commit(r)
    <3>1. own[r] # Null
      BY <2>1 DEF Commit, TypeOK, RequestOK, HoldingStep
    <3>2. hit(r).key # hit(s).key
      BY <1>2, <3>1, OneCopy
    <3> QED
      BY <2>1, <3>2 DEF Commit
  <2>2. CASE rows' = rows
    BY <2>2
  <2> QED
    BY <2>1, <2>2, OnlyMine
<1>3. now' \in Nat /\ now' >= now
  BY <1>1, ClockStep
<1>4. own[s] # Null => CopyOK(s)'
  BY <1>1, <1>2, <1>3, CopyKept
<1> QED
  BY <1>1, <1>4 DEF CopyInv

---------------------------------------------------------------------------
(* The facts of a request that holds a copy, about its row and its copy.    *)
LEMMA RowFacts ==
    ASSUME TypeOK, TodoInv, NEW r \in Request, InTransaction(r)
    PROVE  /\ hit(r).key \in Key
           /\ rows[hit(r).key] \in Row \cup {Null}
           /\ own[r] \in Row \cup {Null}
           /\ rows[hit(r).key] # Null => rows[hit(r).key].reset_at \in Nat
                                          /\ rows[hit(r).key].hits \in Nat
           /\ own[r] # Null => own[r].reset_at \in Nat /\ own[r].hits \in Nat
           /\ now \in Nat
<1>1. hit(r).key \in Key
  BY HitFacts
<1> QED
  BY <1>1 DEF TypeOK, Row

LEMMA MyCopy ==
    ASSUME TypeOK, TodoInv, CopyInv, LockInv, UrlInv, BlockedInv,
           NEW r \in Request, RequestStep(r)
    PROVE  /\ pc'[r] \in {"find", "insert"} => own'[r] = Null
           /\ own'[r] # Null => CopyOK(r)'
<1> USE DEF GoTo
<1> DEFINE k == hit(r).key
<1>0. /\ own \in [Request -> Row \cup {Null}]
      /\ pc \in [Request -> Step]
      /\ todo \in [Request -> Seq(Hit)]
      /\ RequestOK(r)
      /\ pc[r] \in {"find", "insert"} => own[r] = Null
  BY DEF TypeOK, CopyInv
<1>1. ASSUME own[r] # Null
      PROVE  Copy(pc[r], own[r], rows[k], k, now)
  BY <1>1 DEF CopyInv, CopyOK
<1>2. ASSUME UNCHANGED <<rows, todo, now>>
      PROVE  CopyOK(r)' <=> Copy(pc'[r], own'[r], rows[k], k, now)
  BY <1>2 DEF CopyOK, hit
<1>3. CASE \/ \E route \in Routes : Arrive(r, route)
           \/ \E u \in Url : OpenUrl(r, u)
  <2>1. own'[r] = own[r] /\ own[r] = Null
    BY <1>0, <1>3 DEF Arrive, OpenUrl, RequestOK, InTransaction
  <2> QED
    BY <2>1
<1>4. CASE Find(r)
  BY <1>0, <1>4 DEF Find
<1>5. CASE FindForUpdate(r)
  <2>1. InTransaction(r) /\ UNCHANGED <<rows, todo, now>>
    BY <1>5 DEF FindForUpdate, InTransaction
  <2>2. CASE rows[k] = Null
    BY <1>0, <1>5, <2>2 DEF FindForUpdate
  <2>3. CASE rows[k] # Null
    <3>1. own'[r] = rows[k] /\ pc'[r] = "reset"
      BY <1>0, <1>5, <2>3 DEF FindForUpdate
    <3>2. /\ k \in Url => rows[k].reset_at >= expiresAt(k)
          /\ rows[k].is_blocked => rows[k].hits > limitOf(k)
      BY <2>1, <2>3, HitFacts DEF UrlInv, BlockedInv
    <3>3. Copy("reset", rows[k], rows[k], k, now)
      BY <2>3, <3>2 DEF Copy, CountedStep
    <3> QED
      BY <1>2, <2>1, <3>1, <3>3
  <2> QED
    BY <2>2, <2>3
<1>6. CASE Insert(r)
  <2>1. InTransaction(r) /\ UNCHANGED <<rows, todo, now>> /\ pc'[r] = "lock"
    BY <1>0, <1>6 DEF Insert, InTransaction
  <2>2. CASE rows[k] = Null /\ freeFor(r)
    <3>1. own'[r] = newRow(hit(r))
      BY <1>0, <1>6, <2>2 DEF Insert
    <3>2. Copy("lock", newRow(hit(r)), rows[k], k, now)
      BY <2>1, <2>2, NewRowFacts DEF Copy, CountedStep
    <3> QED
      BY <1>2, <2>1, <3>1, <3>2
  <2>3. CASE ~(rows[k] = Null /\ freeFor(r))
    BY <1>0, <1>6, <2>3 DEF Insert
  <2> QED
    BY <2>2, <2>3
<1>7. CASE Lock(r)
  <2>1. InTransaction(r) /\ UNCHANGED <<rows, todo, now>> /\ pc[r] = "lock"
    BY <1>7 DEF Lock, InTransaction
  <2>2. CASE own[r] # Null
    <3>1. own'[r] = own[r] /\ pc'[r] = "reset"
      BY <1>0, <1>7, <2>2 DEF Lock, visible
    <3>2. Copy("reset", own[r], rows[k], k, now)
      BY <1>1, <2>1, <2>2 DEF Copy, CountedStep
    <3> QED
      BY <1>2, <2>1, <3>1, <3>2
  <2>3. CASE own[r] = Null
    <3>1. rows[k] # Null
      BY <2>1, <2>3 DEF LockInv
    <3>2. own'[r] = rows[k] /\ pc'[r] = "reset"
      BY <1>0, <1>7, <2>3, <3>1 DEF Lock, visible
    <3>3. /\ k \in Url => rows[k].reset_at >= expiresAt(k)
          /\ rows[k].is_blocked => rows[k].hits > limitOf(k)
      BY <2>1, <3>1, HitFacts DEF UrlInv, BlockedInv
    <3>4. Copy("reset", rows[k], rows[k], k, now)
      BY <3>1, <3>3 DEF Copy, CountedStep
    <3> QED
      BY <1>2, <2>1, <3>2, <3>4
  <2> QED
    BY <2>2, <2>3
<1>8. CASE ResetIfExpired(r)
  <2>1. /\ InTransaction(r) /\ UNCHANGED <<rows, todo, now>>
        /\ pc[r] = "reset" /\ pc'[r] = "count" /\ own[r] # Null
    BY <1>0, <1>8 DEF ResetIfExpired, InTransaction, RequestOK, HoldingStep
  <2>2. Copy("reset", own[r], rows[k], k, now)
    BY <1>1, <2>1
  <2>3. CASE isExpired(own[r])
    <3>1. own'[r] = newRow(hit(r))
      BY <1>0, <1>8, <2>3 DEF ResetIfExpired
    <3>2. rows[k] # Null => rows[k].reset_at <= now /\ rows[k].reset_at \in Nat
      BY <2>1, <2>2, <2>3, RowFacts DEF Copy, isExpired
    <3>3. newRow(hit(r)).reset_at > now /\ newRow(hit(r)).reset_at \in Nat /\ now \in Nat
      BY <2>1, NewRowFacts DEF Row, TypeOK
    <3>4. Opens(newRow(hit(r)), rows[k], now)
      BY <3>2, <3>3 DEF Opens
    <3>5. Copy("count", newRow(hit(r)), rows[k], k, now)
      BY <2>1, <3>4, NewRowFacts DEF Copy, CountedStep
    <3> QED
      BY <1>2, <2>1, <3>1, <3>5
  <2>4. CASE ~isExpired(own[r])
    <3>1. own'[r] = own[r]
      BY <1>8, <2>4 DEF ResetIfExpired
    <3>2. Copy("count", own[r], rows[k], k, now)
      BY <2>2 DEF Copy, CountedStep, Opens
    <3> QED
      BY <1>2, <2>1, <3>1, <3>2
  <2> QED
    BY <2>3, <2>4
<1>9. CASE Count(r)
  <2>1. /\ InTransaction(r) /\ UNCHANGED <<rows, todo, now>>
        /\ pc[r] = "count" /\ own[r] # Null
    BY <1>0, <1>9 DEF Count, InTransaction, RequestOK, HoldingStep
  <2>2. Copy("count", own[r], rows[k], k, now)
    BY <1>1, <2>1
  <2>3. CASE isCurrentlyBlocked(own[r])
    <3>1. own'[r] = own[r] /\ pc'[r] = "blocked"
      BY <1>0, <1>9, <2>3 DEF Count
    <3>2. own[r].is_blocked
      BY <2>3 DEF isCurrentlyBlocked
    <3>3. Copy("blocked", own[r], rows[k], k, now)
      BY <2>2, <3>2 DEF Copy, CountedStep
    <3> QED
      BY <1>2, <2>1, <3>1, <3>3
  <2>4. CASE ~isCurrentlyBlocked(own[r])
    <3> DEFINE hits == own[r].hits + 1
               new == [own[r] EXCEPT !.hits = hits]
    <3>1. own[r] \in Row /\ own[r].hits \in Nat /\ hits \in Nat
      BY <2>1, RowFacts
    <3>2. new.hits = hits /\ new.reset_at = own[r].reset_at
            /\ new.is_blocked = own[r].is_blocked
      BY <3>1, CountedRow
    <3>3. own'[r] = new
      BY <1>0, <1>9, <2>4 DEF Count
    <3>4. \/ pc'[r] = "block" /\ hits > hit(r).limit
          \/ pc'[r] = "accept" /\ hits <= hit(r).limit
      <4>1. pc'[r] = IF exceeds(hit(r), hits) THEN "block" ELSE "accept"
        BY <1>0, <1>9, <2>4 DEF Count
      <4>2. exceeds(hit(r), hits) <=> ~(hits <= hit(r).limit)
        BY <2>1, <3>1, HitFacts, RuleFacts DEF exceeds
      <4>3. ~(hits <= hit(r).limit) => hits > hit(r).limit
        BY <2>1, <3>1, HitFacts, RuleFacts
      <4> QED
        BY <4>1, <4>2, <4>3
    <3>5. hit(r).limit = limitOf(k) /\ limitOf(k) \in Nat
      BY <2>1, HitFacts, RuleFacts
    <3> HIDE DEF new
    <3>a. new.is_blocked => new.hits > limitOf(k)
      <4>1. own[r].is_blocked => own[r].hits > limitOf(k)
        BY <2>2 DEF Copy
      <4>2. own[r].hits > limitOf(k) => new.hits > limitOf(k)
        BY <3>1, <3>2, <3>5
      <4> QED
        BY <3>2, <4>1, <4>2
    <3>b. \/ /\ Continues(new, rows[k])
             /\ new.hits = rows[k].hits + 1
             /\ rows[k].is_blocked => new.is_blocked
          \/ Opens(new, rows[k], now) /\ new.hits = 1
      BY <2>2, <3>1, <3>2 DEF Copy, Opens, Continues
    <3>c. k \in Url => new.reset_at >= expiresAt(k)
      BY <2>2, <3>2 DEF Copy
    <3>6. Copy(pc'[r], new, rows[k], k, now)
      BY <3>2, <3>4, <3>5, <3>a, <3>b, <3>c DEF Copy, CountedStep
    <3>7. pc'[r] \notin {"find", "insert"}
      BY <3>4
    <3> QED
      BY <1>2, <2>1, <3>3, <3>6, <3>7
  <2> QED
    BY <2>3, <2>4
<1>10. CASE Block(r)
  <2>1. /\ InTransaction(r) /\ UNCHANGED <<rows, todo, now>>
        /\ pc[r] = "block" /\ own[r] # Null /\ pc'[r] = "refuse"
    BY <1>0, <1>10 DEF Block, InTransaction, RequestOK, HoldingStep
  <2>2. Copy("block", own[r], rows[k], k, now)
    BY <1>1, <2>1
  <2> DEFINE t == now + windowOf(hit(r))
             new == [own[r] EXCEPT !.is_blocked = TRUE, !.blocked_until = t]
  <2>3. own[r] \in Row /\ t \in Nat
    BY <2>1, RowFacts, HitFacts
  <2>4. new.hits = own[r].hits /\ new.reset_at = own[r].reset_at /\ new.is_blocked
    BY <2>3, BlockedRow
  <2>5. own'[r] = new
    BY <1>0, <1>10 DEF Block
  <2> HIDE DEF new
  <2>6. Copy("refuse", new, rows[k], k, now)
    BY <2>2, <2>4 DEF Copy, CountedStep, Opens, Continues
  <2> QED
    BY <1>2, <2>1, <2>5, <2>6
<1>11. CASE Commit(r) \/ Rollback(r)
  BY <1>0, <1>11 DEF Commit, Rollback, Release
<1> QED
  BY <1>3, <1>4, <1>5, <1>6, <1>7, <1>8, <1>9, <1>10, <1>11 DEF RequestStep, Work

LEMMA CopyStep ==
    ASSUME TypeOK, TodoInv, CopyInv, LockInv, UrlInv, BlockedInv, [Next]_vars
    PROVE  CopyInv'
<1>1. CASE \E r \in Request : RequestStep(r)
  <2>1. PICK r \in Request : RequestStep(r)
    BY <1>1
  <2>2. ASSUME NEW s \in Request
        PROVE  /\ pc'[s] \in {"find", "insert"} => own'[s] = Null
               /\ own'[s] # Null => CopyOK(s)'
    <3>1. CASE s = r
      BY <2>1, <3>1, MyCopy
    <3>2. CASE s # r
      BY <2>1, <3>2, OthersCopy
    <3> QED
      BY <3>1, <3>2
  <2> QED
    BY <2>2 DEF CopyInv
<1>2. CASE Tick \/ UNCHANGED vars
  <2>1. UNCHANGED <<rows, own, todo, pc>> /\ now' \in Nat /\ now' >= now
    BY <1>2, ClockStep DEF Tick, vars
  <2>2. ASSUME NEW s \in Request, own'[s] # Null PROVE CopyOK(s)'
    BY <2>1, <2>2, CopyKept
  <2> QED
    BY <2>1, <2>2 DEF CopyInv
<1> QED
  BY <1>1, <1>2 DEF Next, RequestStep

---------------------------------------------------------------------------
(* A commit leaves the row as it was (a blocked hit), adds one hit to its   *)
(* window, or opens a window with one hit.                                  *)
LEMMA CommitFacts ==
    ASSUME TypeOK, TodoInv, CopyInv, NEW r \in Request, Commit(r)
    PROVE  LET k == hit(r).key
               row == own[r]
               base == rows[k]
               v == verdict(r)
           IN  /\ k \in Key /\ row \in Row /\ row # Null
               /\ row.reset_at \in Nat /\ row.hits \in Nat /\ now \in Nat
               /\ base # Null => base.reset_at \in Nat /\ base.hits \in Nat
               /\ rows' = [rows EXCEPT ![k] = row]
               /\ counted' = counted \cup {v}
               /\ v.key = k /\ v.window = row.reset_at
               /\ k \in Url => row.reset_at >= expiresAt(k)
               /\ \/ base # Null /\ row = base /\ v.number = 0 /\ ~v.accepted
                  \/ /\ Continues(row, base)
                     /\ row.hits = base.hits + 1
                     /\ base.is_blocked => row.is_blocked
                     /\ v.number = row.hits
                  \/ Opens(row, base, now) /\ row.hits = 1 /\ v.number = 1
               /\ v.accepted => v.number = row.hits /\ row.hits <= limitOf(k)
               /\ ~v.accepted => row.hits > limitOf(k)
               /\ row.is_blocked => row.hits > limitOf(k)
<1> DEFINE k == hit(r).key
<1>1. /\ InTransaction(r) /\ pc[r] \in {"accept", "blocked", "refuse"}
      /\ own[r] # Null /\ now' = now
  BY DEF Commit, InTransaction, TypeOK, RequestOK, HoldingStep
<1>2. Copy(pc[r], own[r], rows[k], k, now)
  BY <1>1 DEF CopyInv, CopyOK
<1>3. /\ verdict(r).key = k
      /\ verdict(r).window = own[r].reset_at
      /\ verdict(r).number = IF pc[r] = "blocked" THEN 0 ELSE own[r].hits
      /\ verdict(r).accepted <=> pc[r] = "accept"
  BY DEF verdict
<1>4. rows' = [rows EXCEPT ![k] = own[r]] /\ counted' = counted \cup {verdict(r)}
  BY DEF Commit
<1> QED
  BY <1>1, <1>2, <1>3, <1>4, RowFacts DEF Copy, CountedStep

(* No row goes away.                                                        *)
LEMMA RowsStay ==
    ASSUME TypeOK, TodoInv, CopyInv, [Next]_vars
    PROVE  /\ \A k \in Key : rows[k] # Null => rows'[k] # Null
           /\ \/ \E r \in Request : Commit(r)
              \/ UNCHANGED <<rows, counted>> /\ now' \in Nat /\ now' >= now
<1>1. CASE \E r \in Request : Commit(r)
  BY <1>1, CommitFacts DEF TypeOK
<1>2. CASE \E r \in Request : RequestStep(r)
  <2>1. PICK r \in Request : RequestStep(r)
    BY <1>2
  <2>2. now' = now /\ (rows' # rows \/ counted' # counted => Commit(r))
    BY <2>1, OnlyMine
  <2> QED
    BY <1>1, <2>1, <2>2, ClockStep
<1>3. CASE Tick \/ UNCHANGED vars
  BY <1>3, ClockStep DEF Tick, vars
<1> QED
  BY <1>2, <1>3 DEF Next, RequestStep

LEMMA UrlStep ==
    ASSUME TypeOK, TodoInv, CopyInv, UrlInv, [Next]_vars
    PROVE  UrlInv'
<1>1. ASSUME NEW r \in Request, Commit(r) PROVE UrlInv'
  <2> SUFFICES ASSUME NEW u \in Url, rows'[u] # Null
               PROVE  rows'[u].reset_at >= expiresAt(u)
    BY DEF UrlInv
  <2>1. u \in Key
    BY DEF Key
  <2>2. CASE u = hit(r).key
    BY <1>1, <2>1, <2>2, CommitFacts DEF TypeOK
  <2>3. CASE u # hit(r).key
    <3>1. rows'[u] = rows[u]
      BY <1>1, <2>1, <2>3, CommitFacts DEF TypeOK
    <3> QED
      BY <3>1 DEF UrlInv
  <2> QED
    BY <2>2, <2>3
<1>2. CASE rows' = rows
  BY <1>2 DEF UrlInv
<1> QED
  BY <1>1, <1>2, RowsStay

LEMMA LockStep ==
    ASSUME TypeOK, TodoInv, CopyInv, LockInv, [Next]_vars
    PROVE  LockInv'
<1> USE DEF GoTo
<1>0. pc \in [Request -> Step] /\ own \in [Request -> Row \cup {Null}]
  BY DEF TypeOK
<1>1. ASSUME NEW s \in Request, own'[s] = own[s], pc'[s] = pc[s], todo'[s] = todo[s]
      PROVE  pc'[s] = "lock" /\ own'[s] = Null => rows'[hit(s)'.key] # Null
  <2> SUFFICES ASSUME pc[s] = "lock", own[s] = Null PROVE rows'[hit(s)'.key] # Null
    BY <1>1
  <2>1. hit(s)' = hit(s)
    BY <1>1 DEF hit
  <2>2. hit(s).key \in Key
    BY HitFacts DEF InTransaction
  <2> QED
    BY <2>1, <2>2, RowsStay DEF LockInv
<1>2. ASSUME NEW r \in Request, RequestStep(r), pc'[r] = "lock", own'[r] = Null
      PROVE  rows'[hit(r)'.key] # Null
  <2>1. CASE Find(r)
    <3>1. hit(r)' = hit(r) /\ rows' = rows
      BY <2>1 DEF Find, hit
    <3> QED
      BY <1>0, <1>2, <2>1, <3>1 DEF Find
  <2>2. CASE Insert(r)
    <3>1. hit(r)' = hit(r) /\ rows' = rows /\ InTransaction(r)
      BY <2>2 DEF Insert, hit, InTransaction
    <3>2. newRow(hit(r)) # Null
      BY <3>1, NewRowFacts
    <3> QED
      BY <1>0, <1>2, <2>2, <3>1, <3>2 DEF Insert, insertSettled
  <2>3. CASE ~Find(r) /\ ~Insert(r)
    <3>1. CASE \/ \E route \in Routes : Arrive(r, route)
               \/ \E u \in Url : OpenUrl(r, u)
      BY <1>0, <1>2, <3>1 DEF Arrive, OpenUrl
    <3>2. CASE FindForUpdate(r)
      BY <1>0, <1>2, <3>2 DEF FindForUpdate
    <3>3. CASE Lock(r)
      BY <1>0, <1>2, <3>3 DEF Lock
    <3>4. CASE ResetIfExpired(r)
      BY <1>0, <1>2, <3>4 DEF ResetIfExpired
    <3>5. CASE Count(r)
      BY <1>0, <1>2, <3>5 DEF Count
    <3>6. CASE Block(r)
      BY <1>0, <1>2, <3>6 DEF Block
    <3>7. CASE Commit(r)
      BY <1>0, <1>2, <3>7 DEF Commit
    <3>8. CASE Rollback(r)
      BY <1>0, <1>2, <3>8 DEF Rollback
    <3> QED
      BY <1>2, <2>3, <3>1, <3>2, <3>3, <3>4, <3>5, <3>6, <3>7, <3>8
      DEF RequestStep, Work
  <2> QED
    BY <2>1, <2>2, <2>3
<1>3. CASE \E r \in Request : RequestStep(r)
  <2>1. PICK r \in Request : RequestStep(r)
    BY <1>3
  <2>2. ASSUME NEW s \in Request \ {r}
        PROVE  own'[s] = own[s] /\ pc'[s] = pc[s] /\ todo'[s] = todo[s]
    BY <2>1, OnlyMine
  <2> QED
    BY <1>1, <1>2, <2>1, <2>2 DEF LockInv
<1>4. CASE Tick \/ UNCHANGED vars
  <2>1. UNCHANGED <<own, pc, todo>>
    BY <1>4 DEF Tick, vars
  <2> QED
    BY <1>1, <2>1 DEF LockInv
<1> QED
  BY <1>3, <1>4 DEF Next, RequestStep

---------------------------------------------------------------------------
(* What the committed verdicts have to do with the row of their key.        *)
VerdictOK(v, row, t) ==
    /\ row # Null
    /\ v.window <= row.reset_at
    /\ v.window = row.reset_at => v.number <= row.hits
    /\ v.key \in Url /\ t < expiresAt(v.key) => v.window = row.reset_at

LEMMA VerdictStep ==
    ASSUME TypeOK, TodoInv, CopyInv, UrlInv, VerdictInv, [Next]_vars
    PROVE  VerdictInv'
<1>0. ASSUME NEW v \in counted
      PROVE  /\ v \in Verdict /\ v.key \in Key /\ v.window \in Nat /\ v.number \in Nat
             /\ VerdictOK(v, rows[v.key], now)
             /\ v.accepted => v.number \in 1 .. limitOf(v.key)
             /\ rows \in [Key -> Row \cup {Null}] /\ now \in Nat
             /\ rows[v.key].reset_at \in Nat /\ rows[v.key].hits \in Nat
  BY DEF TypeOK, Verdict, VerdictInv, VerdictOK, Row
<1>1. ASSUME NEW r \in Request, Commit(r) PROVE VerdictInv'
  <2> DEFINE k == hit(r).key
             c == verdict(r)
  <2>1. now' = now /\ rows \in [Key -> Row \cup {Null}]
    BY <1>1 DEF Commit, TypeOK
  <2>2. rows'[k] = own[r] /\ \A j \in Key : j # k => rows'[j] = rows[j]
    BY <1>1, <2>1, CommitFacts
  <2>3. VerdictOK(c, own[r], now) /\ (c.accepted => c.number \in 1 .. limitOf(k))
    BY <1>1, CommitFacts, RuleFacts DEF VerdictOK, Continues
  <2>4. ASSUME NEW v \in counted, v.key = k PROVE VerdictOK(v, own[r], now)
    <3>1. k \in Url => expiresAt(k) \in Nat /\ (rows[k] # Null => rows[k].reset_at >= expiresAt(k))
      BY RuleFacts DEF UrlInv
    <3>2. VerdictOK(v, rows[k], now) /\ v.window \in Nat /\ v.number \in Nat
      BY <1>0, <2>4
    <3>3. /\ own[r] # Null
          /\ own[r].reset_at \in Nat /\ own[r].hits \in Nat
          /\ rows[k].reset_at \in Nat /\ rows[k].hits \in Nat /\ now \in Nat
      BY <1>0, <1>1, <2>4, CommitFacts
    <3>4. \/ own[r].reset_at = rows[k].reset_at /\ own[r].hits >= rows[k].hits
          \/ rows[k].reset_at <= now /\ rows[k].reset_at < own[r].reset_at
      BY <1>1, <3>2, <3>3, CommitFacts DEF Continues, Opens, VerdictOK
    <3> HIDE DEF k
    <3> QED
      BY <2>4, <3>1, <3>2, <3>3, <3>4 DEF VerdictOK
  <2>5. ASSUME NEW v \in counted'
        PROVE  VerdictOK(v, rows'[v.key], now) /\ (v.accepted => v.number \in 1 .. limitOf(v.key))
    <3>1. CASE v = c
      BY <1>1, <2>2, <2>3, <3>1, CommitFacts
    <3>2. CASE v \in counted
      BY <1>0, <2>2, <2>4, <3>2
    <3> QED
      BY <1>1, <3>1, <3>2 DEF Commit
  <2> QED
    BY <2>1, <2>5 DEF VerdictInv, VerdictOK, limitOf
<1>2. CASE UNCHANGED <<rows, counted>> /\ now' \in Nat /\ now' >= now
  <2> SUFFICES ASSUME NEW v \in counted
               PROVE  VerdictOK(v, rows[v.key], now')
                      /\ (v.accepted => v.number \in 1 .. limitOf(v.key))
    BY <1>2 DEF VerdictInv, VerdictOK, limitOf
  <2>1. v.key \in Url => expiresAt(v.key) \in Nat
    BY RuleFacts
  <2> QED
    BY <1>0, <1>2, <2>1 DEF VerdictOK
<1> QED
  BY <1>1, <1>2, RowsStay

LEMMA NumberStep ==
    ASSUME TypeOK, TodoInv, CopyInv, VerdictInv, NumberInv, [Next]_vars
    PROVE  NumberInv'
<1>1. ASSUME NEW r \in Request, Commit(r) PROVE NumberInv'
  <2>1. ASSUME NEW v \in counted, v.key = verdict(r).key, v.window = verdict(r).window,
               v.number = verdict(r).number
        PROVE  v.number = 0
    <3>1. /\ rows[v.key] # Null
          /\ v.window <= rows[v.key].reset_at
          /\ v.window = rows[v.key].reset_at => v.number <= rows[v.key].hits
          /\ v.window \in Nat /\ v.number \in Nat
      BY <2>1 DEF VerdictInv, TypeOK, Verdict
    <3> QED
      BY <1>1, <2>1, <3>1, CommitFacts DEF Continues, Opens
  <2>2. counted' = counted \cup {verdict(r)}
    BY <1>1 DEF Commit
  <2> QED
    BY <2>1, <2>2 DEF NumberInv
<1>2. CASE counted' = counted
  BY <1>2 DEF NumberInv
<1> QED
  BY <1>1, <1>2, RowsStay

---------------------------------------------------------------------------
(* Counting the verdicts of a window, among any set of verdicts.            *)
AcceptedOf(C, k, w) == {v \in C : v.key = k /\ v.window = w /\ v.accepted}
CountedOf(C, k, w) == {v \in C : v.key = k /\ v.window = w /\ v.number # 0}

(* HitsCounted of any rows and verdicts.                                    *)
HitsOf(R, C) ==
    \A k \in Key :
      R[k] # Null => R[k].hits = Cardinality(CountedOf(C, k, R[k].reset_at))

LEMMA HitsForm ==
    /\ HitsCounted <=> HitsOf(rows, counted)
    /\ HitsCounted' <=> HitsOf(rows', counted')
<1>1. \A C, k, w : {v \in {v \in C : v.key = k /\ v.window = w} : v.number # 0}
                    = CountedOf(C, k, w)
  BY DEF CountedOf
<1> QED
  BY <1>1 DEF HitsCounted, InWindow, HitsOf

LEMMA VerdictFacts ==
    ASSUME TypeOK, VerdictInv, NEW v \in counted
    PROVE  /\ v.key \in Key /\ rows[v.key] # Null
           /\ v.window \in Nat /\ v.number \in Nat
           /\ rows[v.key].reset_at \in Nat /\ rows[v.key].hits \in Nat
           /\ v.window <= rows[v.key].reset_at
           /\ v.window = rows[v.key].reset_at => v.number <= rows[v.key].hits
BY DEF TypeOK, VerdictInv, Verdict, Row

LEMMA FiniteStep ==
    ASSUME TypeOK, TodoInv, CopyInv, FiniteInv, [Next]_vars
    PROVE  FiniteInv'
<1>1. ASSUME NEW r \in Request, Commit(r) PROVE FiniteInv'
  <2>1. counted' = counted \cup {verdict(r)}
    BY <1>1 DEF Commit
  <2> QED
    BY <2>1, FS_AddElement DEF FiniteInv
<1>2. CASE counted' = counted
  BY <1>2 DEF FiniteInv
<1> QED
  BY <1>1, <1>2, RowsStay

(* One more verdict adds one to the counts of its window only.              *)
LEMMA OneMore ==
    ASSUME NEW C, IsFiniteSet(C), NEW c, c \notin C, NEW k, NEW w
    PROVE  /\ Cardinality(CountedOf(C, k, w)) \in Nat
           /\ Cardinality(AcceptedOf(C, k, w)) \in Nat
           /\ Cardinality(CountedOf(C \cup {c}, k, w)) =
                IF c.key = k /\ c.window = w /\ c.number # 0
                THEN Cardinality(CountedOf(C, k, w)) + 1
                ELSE Cardinality(CountedOf(C, k, w))
           /\ Cardinality(AcceptedOf(C \cup {c}, k, w)) =
                IF c.key = k /\ c.window = w /\ c.accepted
                THEN Cardinality(AcceptedOf(C, k, w)) + 1
                ELSE Cardinality(AcceptedOf(C, k, w))
<1>1. IsFiniteSet(CountedOf(C, k, w)) /\ IsFiniteSet(AcceptedOf(C, k, w))
  <2>1. CountedOf(C, k, w) \in SUBSET C /\ AcceptedOf(C, k, w) \in SUBSET C
    BY DEF CountedOf, AcceptedOf
  <2> QED
    BY <2>1, FS_Subset
<1>2. c \notin CountedOf(C, k, w) /\ c \notin AcceptedOf(C, k, w)
  BY DEF CountedOf, AcceptedOf
<1>3. Cardinality(CountedOf(C \cup {c}, k, w)) =
        IF c.key = k /\ c.window = w /\ c.number # 0
        THEN Cardinality(CountedOf(C, k, w)) + 1
        ELSE Cardinality(CountedOf(C, k, w))
  <2>1. CASE c.key = k /\ c.window = w /\ c.number # 0
    <3>1. CountedOf(C \cup {c}, k, w) = CountedOf(C, k, w) \cup {c}
      BY <2>1 DEF CountedOf
    <3> DEFINE S == CountedOf(C, k, w)
    <3>2. IsFiniteSet(S) /\ c \notin S
      BY <1>1, <1>2
    <3> HIDE DEF S
    <3>3. Cardinality(S \cup {c}) = Cardinality(S) + 1
      BY <3>2, FS_AddElement
    <3> USE DEF S
    <3> QED
      BY <2>1, <3>1, <3>3
  <2>2. CASE ~(c.key = k /\ c.window = w /\ c.number # 0)
    <3>1. CountedOf(C \cup {c}, k, w) = CountedOf(C, k, w)
      BY <2>2 DEF CountedOf
    <3> QED
      BY <2>2, <3>1
  <2> QED
    BY <2>1, <2>2
<1>4. Cardinality(AcceptedOf(C \cup {c}, k, w)) =
        IF c.key = k /\ c.window = w /\ c.accepted
        THEN Cardinality(AcceptedOf(C, k, w)) + 1
        ELSE Cardinality(AcceptedOf(C, k, w))
  <2>1. CASE c.key = k /\ c.window = w /\ c.accepted
    <3>1. AcceptedOf(C \cup {c}, k, w) = AcceptedOf(C, k, w) \cup {c}
      BY <2>1 DEF AcceptedOf
    <3> DEFINE S == AcceptedOf(C, k, w)
    <3>2. IsFiniteSet(S) /\ c \notin S
      BY <1>1, <1>2
    <3> HIDE DEF S
    <3>3. Cardinality(S \cup {c}) = Cardinality(S) + 1
      BY <3>2, FS_AddElement
    <3> USE DEF S
    <3> QED
      BY <2>1, <3>1, <3>3
  <2>2. CASE ~(c.key = k /\ c.window = w /\ c.accepted)
    <3>1. AcceptedOf(C \cup {c}, k, w) = AcceptedOf(C, k, w)
      BY <2>2 DEF AcceptedOf
    <3> QED
      BY <2>2, <3>1
  <2> QED
    BY <2>1, <2>2
<1> QED
  BY <1>1, <1>3, <1>4, FS_CardinalityType

(* A window without verdicts counts none.                                   *)
LEMMA NoneYet ==
    ASSUME NEW C, NEW k, NEW w, ~\E v \in C : v.key = k /\ v.window = w
    PROVE  /\ Cardinality(CountedOf(C, k, w)) = 0
           /\ Cardinality(AcceptedOf(C, k, w)) = 0
<1>1. CountedOf(C, k, w) = {} /\ AcceptedOf(C, k, w) = {}
  BY DEF CountedOf, AcceptedOf
<1> QED
  BY <1>1, FS_EmptySet

(* A window that a commit opens has no verdict yet.                         *)
LEMMA OpenedWindowIsEmpty ==
    ASSUME TypeOK, VerdictInv, NEW k \in Key, NEW row \in Row, Opens(row, rows[k], now)
    PROVE  ~\E v \in counted : v.key = k /\ v.window = row.reset_at
<1> SUFFICES ASSUME NEW v \in counted, v.key = k, v.window = row.reset_at
             PROVE  FALSE
  OBVIOUS
<1>1. row.reset_at \in Nat
  BY DEF Row
<1> QED
  BY <1>1, VerdictFacts DEF Opens

(* A commit adds its verdict, once, to the counts of the window it is of.   *)
LEMMA CommitCounts ==
    ASSUME TypeOK, TodoInv, CopyInv, VerdictInv, FiniteInv,
           NEW r \in Request, Commit(r), NEW j \in Key, NEW w
    PROVE  LET c == verdict(r)
               mine == j = hit(r).key /\ w = own[r].reset_at
           IN  /\ Cardinality(CountedOf(counted, j, w)) \in Nat
               /\ Cardinality(AcceptedOf(counted, j, w)) \in Nat
               /\ Cardinality(CountedOf(counted', j, w)) =
                    IF mine /\ c.number # 0
                    THEN Cardinality(CountedOf(counted, j, w)) + 1
                    ELSE Cardinality(CountedOf(counted, j, w))
               /\ Cardinality(AcceptedOf(counted', j, w)) =
                    IF mine /\ c.accepted
                    THEN Cardinality(AcceptedOf(counted, j, w)) + 1
                    ELSE Cardinality(AcceptedOf(counted, j, w))
<1> DEFINE c == verdict(r)
<1>1. /\ counted' = counted \cup {c}
      /\ c.key = hit(r).key /\ c.window = own[r].reset_at
  BY CommitFacts
<1>2. ASSUME c \in counted PROVE c.number = 0 /\ ~c.accepted
  BY <1>2, CommitFacts, VerdictFacts DEF Continues, Opens
<1> HIDE DEF c
<1>3. CASE c \notin counted
  <2>1. IsFiniteSet(counted)
    BY DEF FiniteInv
  <2>2. /\ Cardinality(CountedOf(counted, j, w)) \in Nat
        /\ Cardinality(AcceptedOf(counted, j, w)) \in Nat
        /\ Cardinality(CountedOf(counted \cup {c}, j, w)) =
             IF c.key = j /\ c.window = w /\ c.number # 0
             THEN Cardinality(CountedOf(counted, j, w)) + 1
             ELSE Cardinality(CountedOf(counted, j, w))
        /\ Cardinality(AcceptedOf(counted \cup {c}, j, w)) =
             IF c.key = j /\ c.window = w /\ c.accepted
             THEN Cardinality(AcceptedOf(counted, j, w)) + 1
             ELSE Cardinality(AcceptedOf(counted, j, w))
    BY <1>3, <2>1, OneMore
  <2> QED
    BY <1>1, <2>2 DEF c
<1>4. CASE c \in counted
  <2>1. counted' = counted
    BY <1>1, <1>4
  <2>2. /\ IsFiniteSet(CountedOf(counted, j, w))
        /\ IsFiniteSet(AcceptedOf(counted, j, w))
    <3>1. CountedOf(counted, j, w) \in SUBSET counted /\ AcceptedOf(counted, j, w) \in SUBSET counted
      BY DEF CountedOf, AcceptedOf
    <3> QED
      BY <3>1, FS_Subset DEF FiniteInv
  <2> QED
    BY <1>2, <1>4, <2>1, <2>2, FS_CardinalityType DEF c
<1> QED
  BY <1>3, <1>4

(* What a commit makes of the rows, and of a window it opens.               *)
LEMMA CommitRow ==
    ASSUME TypeOK, TodoInv, CopyInv, VerdictInv, NEW r \in Request, Commit(r)
    PROVE  /\ rows'[hit(r).key] = own[r]
           /\ \A j \in Key : j # hit(r).key => rows'[j] = rows[j]
           /\ Opens(own[r], rows[hit(r).key], now) =>
                /\ Cardinality(CountedOf(counted, hit(r).key, own[r].reset_at)) = 0
                /\ Cardinality(AcceptedOf(counted, hit(r).key, own[r].reset_at)) = 0
<1>1. rows \in [Key -> Row \cup {Null}]
  BY DEF TypeOK
<1>2. hit(r).key \in Key /\ own[r] \in Row /\ rows' = [rows EXCEPT ![hit(r).key] = own[r]]
  BY CommitFacts
<1>3. ASSUME Opens(own[r], rows[hit(r).key], now)
      PROVE  ~\E v \in counted : v.key = hit(r).key /\ v.window = own[r].reset_at
  BY <1>2, <1>3, OpenedWindowIsEmpty
<1> QED
  BY <1>1, <1>2, <1>3, NoneYet

LEMMA HitsStep ==
    ASSUME TypeOK, TodoInv, CopyInv, VerdictInv, FiniteInv, HitsCounted, [Next]_vars
    PROVE  HitsCounted'
<1>0. HitsOf(rows, counted)
  BY HitsForm
<1>1. ASSUME NEW r \in Request, Commit(r), NEW j \in Key, rows'[j] # Null
      PROVE  rows'[j].hits = Cardinality(CountedOf(counted', j, rows'[j].reset_at))
  <2>1. CASE j # hit(r).key
    <3>1. rows'[j] = rows[j]
      BY <1>1, <2>1, CommitRow
    <3>2. rows[j].hits = Cardinality(CountedOf(counted, j, rows[j].reset_at))
      BY <1>0, <1>1, <3>1 DEF HitsOf
    <3>3. Cardinality(CountedOf(counted', j, rows[j].reset_at))
            = Cardinality(CountedOf(counted, j, rows[j].reset_at))
      BY <1>1, <2>1, CommitCounts
    <3> QED
      BY <3>1, <3>2, <3>3
  <2>2. CASE j = hit(r).key
    <3> DEFINE before == Cardinality(CountedOf(counted, j, own[r].reset_at))
               after == Cardinality(CountedOf(counted', j, own[r].reset_at))
    <3>1. /\ before \in Nat
          /\ after = IF verdict(r).number # 0 THEN before + 1 ELSE before
      BY <1>1, <2>2, CommitCounts
    <3>2. rows[j] # Null /\ rows[j].reset_at = own[r].reset_at => rows[j].hits = before
      BY <1>0, <1>1 DEF HitsOf
    <3>3. Opens(own[r], rows[j], now) => before = 0
      BY <1>1, <2>2, CommitRow
    <3>4. /\ rows'[j] = own[r] /\ own[r].hits \in Nat
          /\ rows[j] # Null => rows[j].hits \in Nat
          /\ \/ rows[j] # Null /\ own[r] = rows[j] /\ verdict(r).number = 0
             \/ /\ Continues(own[r], rows[j])
                /\ own[r].hits = rows[j].hits + 1
                /\ verdict(r).number = own[r].hits
             \/ Opens(own[r], rows[j], now) /\ own[r].hits = 1 /\ verdict(r).number = 1
      BY <1>1, <2>2, CommitFacts, CommitRow
    <3> HIDE DEF before, after
    <3>5. own[r].hits = after
      BY <3>1, <3>2, <3>3, <3>4 DEF Continues
    <3> QED
      BY <3>4, <3>5 DEF after
  <2> QED
    BY <2>1, <2>2
<1>2. CASE \E r \in Request : Commit(r)
  BY <1>1, <1>2, HitsForm DEF HitsOf
<1>3. CASE UNCHANGED <<rows, counted>>
  BY <1>0, <1>3, HitsForm DEF HitsOf
<1> QED
  BY <1>2, <1>3, RowsStay

(* AcceptedInv, and the bounds on the accepted hits, of any rows and        *)
(* verdicts.                                                                *)
AcceptedRows(R, C) ==
    \A k \in Key : R[k] # Null =>
      Cardinality(AcceptedOf(C, k, R[k].reset_at)) =
        IF R[k].hits <= limitOf(k) THEN R[k].hits ELSE limitOf(k)

AcceptedBounds(C) ==
    \A v \in C :
      /\ Cardinality(AcceptedOf(C, v.key, v.window)) <= limitOf(v.key)
      /\ ~v.accepted => Cardinality(AcceptedOf(C, v.key, v.window)) = limitOf(v.key)

LEMMA AcceptedForm ==
    /\ AcceptedInv <=> AcceptedRows(rows, counted)
    /\ AcceptedInv' <=> AcceptedRows(rows', counted')
    /\ WithinLimit /\ NobodyRefusedEarly <=> AcceptedBounds(counted)
    /\ WithinLimit' /\ NobodyRefusedEarly' <=> AcceptedBounds(counted')
<1>1. /\ \A k, w : Accepted(k, w) = AcceptedOf(counted, k, w)
      /\ \A k, w : Accepted(k, w)' = AcceptedOf(counted', k, w)
  BY DEF Accepted, InWindow, AcceptedOf
<1>2. \A k : limitOf(k)' = limitOf(k)
  BY DEF limitOf
<1>3. AcceptedInv <=> AcceptedRows(rows, counted)
  BY <1>1 DEF AcceptedInv, AcceptedRows
<1>4. AcceptedInv' <=> AcceptedRows(rows', counted')
  BY <1>1, <1>2 DEF AcceptedInv, AcceptedRows
<1>5. WithinLimit /\ NobodyRefusedEarly <=> AcceptedBounds(counted)
  BY <1>1 DEF WithinLimit, NobodyRefusedEarly, AcceptedBounds
<1>6. WithinLimit' /\ NobodyRefusedEarly' <=> AcceptedBounds(counted')
  BY <1>1, <1>2 DEF WithinLimit, NobodyRefusedEarly, AcceptedBounds
<1> QED
  BY <1>3, <1>4, <1>5, <1>6

LEMMA AcceptedStep ==
    ASSUME TypeOK, TodoInv, CopyInv, VerdictInv, FiniteInv, AcceptedInv, [Next]_vars
    PROVE  AcceptedInv'
<1>0. AcceptedRows(rows, counted)
  BY AcceptedForm
<1>1. ASSUME NEW r \in Request, Commit(r), NEW j \in Key, rows'[j] # Null
      PROVE  Cardinality(AcceptedOf(counted', j, rows'[j].reset_at)) =
               IF rows'[j].hits <= limitOf(j) THEN rows'[j].hits ELSE limitOf(j)
  <2>1. CASE j # hit(r).key
    <3>1. rows'[j] = rows[j]
      BY <1>1, <2>1, CommitRow
    <3>2. Cardinality(AcceptedOf(counted, j, rows[j].reset_at)) =
            IF rows[j].hits <= limitOf(j) THEN rows[j].hits ELSE limitOf(j)
      BY <1>0, <1>1, <3>1 DEF AcceptedRows
    <3>3. Cardinality(AcceptedOf(counted', j, rows[j].reset_at))
            = Cardinality(AcceptedOf(counted, j, rows[j].reset_at))
      BY <1>1, <2>1, CommitCounts
    <3> QED
      BY <3>1, <3>2, <3>3
  <2>2. CASE j = hit(r).key
    <3> DEFINE before == Cardinality(AcceptedOf(counted, j, own[r].reset_at))
               after == Cardinality(AcceptedOf(counted', j, own[r].reset_at))
    <3>1. /\ before \in Nat
          /\ after = IF verdict(r).accepted THEN before + 1 ELSE before
      BY <1>1, <2>2, CommitCounts
    <3>2. rows[j] # Null /\ rows[j].reset_at = own[r].reset_at =>
            before = IF rows[j].hits <= limitOf(j) THEN rows[j].hits ELSE limitOf(j)
      BY <1>0, <1>1 DEF AcceptedRows
    <3>3. Opens(own[r], rows[j], now) => before = 0
      BY <1>1, <2>2, CommitRow
    <3>4. /\ rows'[j] = own[r] /\ own[r].hits \in Nat
          /\ rows[j] # Null => rows[j].hits \in Nat
          /\ \/ rows[j] # Null /\ own[r] = rows[j] /\ ~verdict(r).accepted
             \/ Continues(own[r], rows[j]) /\ own[r].hits = rows[j].hits + 1
             \/ Opens(own[r], rows[j], now) /\ own[r].hits = 1
      BY <1>1, <2>2, CommitFacts, CommitRow
    <3>5. /\ verdict(r).accepted => own[r].hits <= limitOf(j)
          /\ ~verdict(r).accepted => own[r].hits > limitOf(j)
      BY <1>1, <2>2, CommitFacts
    <3>6. limitOf(j) \in Nat
      BY RuleFacts
    <3> HIDE DEF before, after
    <3>7. after = IF own[r].hits <= limitOf(j) THEN own[r].hits ELSE limitOf(j)
      BY <3>1, <3>2, <3>3, <3>4, <3>5, <3>6 DEF Continues
    <3> QED
      BY <3>4, <3>7 DEF after
  <2> QED
    BY <2>1, <2>2
<1>2. CASE \E r \in Request : Commit(r)
  BY <1>1, <1>2, AcceptedForm DEF AcceptedRows
<1>3. CASE UNCHANGED <<rows, counted>>
  BY <1>0, <1>3, AcceptedForm DEF AcceptedRows
<1> QED
  BY <1>2, <1>3, RowsStay

(* A commit makes of no window one with too many accepted hits, or with     *)
(* more of them than when somebody was refused.                             *)
LEMMA BoundsStep ==
    ASSUME TypeOK, TodoInv, CopyInv, VerdictInv, FiniteInv, AcceptedInv,
           WithinLimit, NobodyRefusedEarly, [Next]_vars
    PROVE  WithinLimit' /\ NobodyRefusedEarly'
<1>0. AcceptedRows(rows, counted) /\ AcceptedRows(rows', counted') /\ AcceptedBounds(counted)
  BY AcceptedForm, AcceptedStep
<1>1. ASSUME NEW r \in Request, Commit(r), NEW v \in counted'
      PROVE  LET n == Cardinality(AcceptedOf(counted', v.key, v.window))
             IN  n <= limitOf(v.key) /\ (~v.accepted => n = limitOf(v.key))
  <2>1. CASE v.key = hit(r).key /\ v.window = own[r].reset_at
    <3> DEFINE n == Cardinality(AcceptedOf(counted', v.key, v.window))
               k == v.key
    <3>1. /\ k \in Key /\ rows'[k] = own[r] /\ own[r] # Null /\ own[r].hits \in Nat
          /\ limitOf(k) \in Nat
      BY <1>1, <2>1, CommitFacts, CommitRow, RuleFacts
    <3>2. n = IF own[r].hits <= limitOf(k) THEN own[r].hits ELSE limitOf(k)
      BY <1>0, <2>1, <3>1 DEF AcceptedRows
    <3>3. ASSUME ~v.accepted PROVE own[r].hits >= limitOf(k)
      <4>1. CASE v = verdict(r)
        BY <1>1, <2>1, <3>1, <3>3, <4>1, CommitFacts
      <4>2. CASE v \in counted
        <5> DEFINE before == Cardinality(AcceptedOf(counted, k, v.window))
        <5>1. before = limitOf(k)
          BY <1>0, <3>3, <4>2 DEF AcceptedBounds
        <5>2. before \in Nat /\ (n = before \/ n = before + 1)
          BY <1>1, <2>1, <3>1, CommitCounts
        <5> HIDE DEF before, n, k
        <5> QED
          BY <3>1, <3>2, <5>1, <5>2
      <4>3. counted' = counted \cup {verdict(r)}
        BY <1>1, CommitFacts
      <4> QED
        BY <1>1, <4>1, <4>2, <4>3
    <3> HIDE DEF n, k
    <3>4. n <= limitOf(k) /\ (~v.accepted => n = limitOf(k))
      BY <3>1, <3>2, <3>3
    <3> QED
      BY <3>4 DEF n, k
  <2>2. CASE ~(v.key = hit(r).key /\ v.window = own[r].reset_at)
    <3>1. v \in counted
      BY <1>1, <2>2, CommitFacts
    <3>2. v.key \in Key
      BY <3>1, VerdictFacts
    <3>3. Cardinality(AcceptedOf(counted', v.key, v.window))
            = Cardinality(AcceptedOf(counted, v.key, v.window))
      BY <1>1, <2>2, <3>2, CommitCounts
    <3> QED
      BY <1>0, <3>1, <3>3 DEF AcceptedBounds
  <2> QED
    BY <2>1, <2>2
<1>2. CASE \E r \in Request : Commit(r)
  BY <1>1, <1>2, AcceptedForm DEF AcceptedBounds
<1>3. CASE UNCHANGED <<rows, counted>>
  BY <1>0, <1>3, AcceptedForm DEF AcceptedBounds
<1> QED
  BY <1>2, <1>3, RowsStay

LEMMA BlockedStep ==
    ASSUME TypeOK, TodoInv, CopyInv, VerdictInv, BlockedInv, [Next]_vars
    PROVE  BlockedInv'
<1>1. ASSUME NEW r \in Request, Commit(r), NEW k \in Key, rows'[k] # Null, rows'[k].is_blocked
      PROVE  rows'[k].hits > limitOf(k)
  <2>1. CASE k = hit(r).key
    BY <1>1, <2>1, CommitRow, CommitFacts
  <2>2. CASE k # hit(r).key
    BY <1>1, <2>2, CommitRow DEF BlockedInv
  <2> QED
    BY <2>1, <2>2
<1>2. \A k : limitOf(k)' = limitOf(k)
  BY DEF limitOf
<1>3. CASE UNCHANGED <<rows, counted>>
  BY <1>2, <1>3 DEF BlockedInv
<1> QED
  BY <1>1, <1>2, <1>3, RowsStay DEF BlockedInv

---------------------------------------------------------------------------
(* No hit has been made, planned or counted at first.                       *)
LEMMA InitInvariant ==
    Init => IInv
<1> SUFFICES ASSUME Init PROVE IInv
  OBVIOUS
<1> USE DEF Init
<1>1. TypeOK
  <2>1. <<>> \in Seq(Hit)
    BY EmptySeq
  <2> QED
    BY <2>1, RuleAssumption DEF TypeOK, Step, RequestOK, InTransaction, HoldingStep
<1>2. TodoInv
  <2>1. <<>> \in Seq(PlannedHit)
    BY EmptySeq
  <2> QED
    BY <2>1 DEF TodoInv
<1>3. CopyInv /\ LockInv
  BY DEF CopyInv, LockInv
<1>4. UrlInv /\ BlockedInv /\ AcceptedInv /\ HitsCounted
  BY DEF UrlInv, BlockedInv, AcceptedInv, HitsCounted, Key
<1>5. VerdictInv /\ NumberInv /\ WithinLimit /\ NobodyRefusedEarly
  BY DEF VerdictInv, NumberInv, WithinLimit, NobodyRefusedEarly
<1>6. FiniteInv
  BY FS_EmptySet DEF FiniteInv
<1> QED
  BY <1>1, <1>2, <1>3, <1>4, <1>5, <1>6 DEF IInv

(* Every reachable state satisfies the inductive invariant.                 *)
THEOREM InvariantHolds ==
    Spec => []IInv
<1>1. IInv /\ [Next]_vars => IInv'
  <2> SUFFICES ASSUME IInv, [Next]_vars PROVE IInv'
    OBVIOUS
  <2> USE DEF IInv
  <2>1. TypeOK' /\ TodoInv'
    BY TypeStep, TodoStep
  <2>2. CopyInv' /\ LockInv'
    BY CopyStep, LockStep
  <2>3. UrlInv' /\ BlockedInv'
    BY UrlStep, BlockedStep
  <2>4. VerdictInv' /\ NumberInv'
    BY VerdictStep, NumberStep
  <2>5. FiniteInv' /\ HitsCounted'
    BY FiniteStep, HitsStep
  <2>6. AcceptedInv' /\ WithinLimit' /\ NobodyRefusedEarly'
    BY AcceptedStep, BoundsStep
  <2> QED
    BY <2>1, <2>2, <2>3, <2>4, <2>5, <2>6
<1> QED
  BY <1>1, InitInvariant, PTL DEF Spec

(* The columns keep their types and a copied row is a locked row.           *)
THEOREM TypeOKHolds ==
    Spec => []TypeOK
<1>1. IInv => TypeOK
  BY DEF IInv
<1> QED
  BY <1>1, InvariantHolds, PTL

(* A hit that comes to its locking read finds a row, so hit() never throws. *)
THEOREM RowIsThereHolds ==
    Spec => []RowIsThere
<1>1. IInv => RowIsThere
  <2> SUFFICES ASSUME IInv, NEW r \in Request, pc[r] = "lock" PROVE visible(r) # Null
    BY DEF RowIsThere
  <2> QED
    BY DEF IInv, LockInv, visible
<1> QED
  BY <1>1, InvariantHolds, PTL

(* The counter of a row is the number of hits committed in its window.      *)
THEOREM HitsCountedHolds ==
    Spec => []HitsCounted
<1>1. IInv => HitsCounted
  BY DEF IInv
<1> QED
  BY <1>1, InvariantHolds, PTL

(* No window lets more than its limit of hits through, however many         *)
(* requests race for it and whenever the window expires under them.         *)
THEOREM WithinLimitHolds ==
    Spec => []WithinLimit
<1>1. IInv => WithinLimit
  BY DEF IInv
<1> QED
  BY <1>1, InvariantHolds, PTL

(* A refusal comes only after limit many accepted hits of the window.       *)
THEOREM NobodyRefusedEarlyHolds ==
    Spec => []NobodyRefusedEarly
<1>1. IInv => NobodyRefusedEarly
  BY DEF IInv
<1> QED
  BY <1>1, InvariantHolds, PTL

(* Nobody is let through by a URL that has not expired and has let another  *)
(* through: the row of its nonce is still in the window of that hit, which  *)
(* has the only number there is.  Whatever a second is, and at whichever of *)
(* its instants the URL is opened.                                          *)
THEOREM FreshUrlOnceHolds ==
    Spec => []FreshUrlOnce
<1>1. IInv => FreshUrlOnce
  <2> SUFFICES ASSUME IInv, NEW r \in Request, pc[r] = "accept",
                      hit(r).key \in Url, now < expiresAt(hit(r).key),
                      NEW v \in counted, v.key = hit(r).key, v.accepted
               PROVE  FALSE
    BY DEF FreshUrlOnce
  <2> DEFINE k == hit(r).key
  <2>1. /\ rows[k] # Null /\ v.window = rows[k].reset_at
        /\ v.number <= rows[k].hits /\ v.number \in 1 .. limitOf(k)
    BY DEF IInv, VerdictInv
  <2>2. own[r] # Null /\ InTransaction(r) /\ limitOf(k) = 1
    BY DEF IInv, TypeOK, RequestOK, InTransaction, HoldingStep, limitOf
  <2>3. Copy("accept", own[r], rows[k], k, now)
    BY <2>2 DEF IInv, CopyInv, CopyOK
  <2>4. /\ rows[k].reset_at >= expiresAt(k) /\ expiresAt(k) \in Nat /\ now \in Nat
        /\ rows[k].reset_at \in Nat /\ rows[k].hits \in Nat /\ own[r].hits \in Nat
    BY <2>1, <2>2, RowFacts, RuleFacts DEF IInv, UrlInv, TypeOK
  <2>5. ~Opens(own[r], rows[k], now)
    BY <2>1, <2>4 DEF Opens
  <2>6. own[r].hits = rows[k].hits + 1 /\ own[r].hits <= 1
    BY <2>2, <2>3, <2>5 DEF Copy, CountedStep
  <2> QED
    BY <2>1, <2>2, <2>4, <2>6
<1> QED
  BY <1>1, InvariantHolds, PTL

(* No commit takes hits or a block from a row whose window is not over.     *)
THEOREM CountersOnlyGrowHolds ==
    Spec => CountersOnlyGrow
<1> DEFINE Grows(k) ==
      rows[k] # Null =>
        /\ rows'[k] # Null
        /\ \/ /\ rows'[k].reset_at = rows[k].reset_at
              /\ rows'[k].hits >= rows[k].hits
              /\ rows[k].is_blocked => rows'[k].is_blocked
           \/ /\ rows'[k].reset_at > rows[k].reset_at
              /\ rows[k].reset_at <= now
<1>1. ASSUME IInv, [Next]_vars, NEW k \in Key PROVE Grows(k)
  <2>1. ASSUME NEW r \in Request, Commit(r), rows[k] # Null PROVE Grows(k)
    <3>1. CASE k # hit(r).key
      <4>1. rows'[k] = rows[k] /\ rows[k].hits \in Nat
        BY <1>1, <2>1, <3>1, CommitRow DEF IInv, TypeOK, Row
      <4> QED
        BY <4>1
    <3>2. CASE k = hit(r).key
      <4>1. rows'[k] = own[r] /\ own[r] # Null
        BY <1>1, <2>1, <3>2, CommitFacts, CommitRow DEF IInv
      <4>2. CASE own[r] = rows[k] \/ Continues(own[r], rows[k])
        BY <1>1, <2>1, <3>2, <4>1, <4>2, CommitFacts DEF IInv, Continues, Opens
      <4>3. CASE Opens(own[r], rows[k], now)
        <5>1. own[r].reset_at \in Nat /\ rows[k].reset_at \in Nat
          BY <1>1, <2>1, <3>2, CommitFacts DEF IInv
        <5> QED
          BY <2>1, <4>1, <4>3, <5>1 DEF Opens
      <4> QED
        BY <1>1, <2>1, <3>2, <4>2, <4>3, CommitFacts DEF IInv
    <3> QED
      BY <3>1, <3>2
  <2>2. CASE rows' = rows
    <3>1. rows[k] # Null => rows[k].hits \in Nat
      BY <1>1 DEF IInv, TypeOK, Row
    <3> QED
      BY <2>2, <3>1
  <2> QED
    BY <1>1, <2>1, <2>2, RowsStay DEF IInv
<1>2. IInv /\ [Next]_vars => [\A k \in Key : Grows(k)]_vars
  BY <1>1
<1> QED
  BY <1>2, InvariantHolds, PTL DEF Spec, CountersOnlyGrow
===========================================================================
