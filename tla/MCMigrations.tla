---------------------------- MODULE MCMigrations ----------------------------
(* Databases for checking Migrations: one on which a first run died, one of  *)
(* an older release, one with rate limits counted twice, one whose payments  *)
(* share a reference, one with the index of 0008 made by hand, and one that  *)
(* the Drizzle adapter made.                                                 *)
EXTENDS Migrations

CONSTANTS r1, r2, p1, p2

MCRunner == {r1, r2}
MCPayment == {p1, p2}

KnexBy(k) ==
  (IF k >= 1 THEN {"transactions", "transactionItems", "invoices",
                   "requestMetadata", "rateLimits", "blacklist"} ELSE {})
    \cup (IF k >= 2 THEN {"transactionLogs"} ELSE {})
    \cup (IF k >= 3 THEN {"transactionAttempts"} ELSE {})
    \cup (IF k >= 4 THEN {"paymentIntents"} ELSE {})

ColumnsBy(t, k) ==
  KnexTable[t].columns
    \cup (IF k >= 6 /\ t = "paymentIntents" THEN {"request_hash"} ELSE {})
    \cup (IF k >= 7 /\ t = "transactions" THEN {"pos_id"} ELSE {})

KeysBy(t, k) ==
  KnexTable[t].keys
    \cup (IF k >= 3 /\ t = "transactions" THEN {NewKey[t]} ELSE {})
    \cup (IF k >= 7 /\ t = "transactions" THEN Indexes({<<"pos_id">>}) ELSE {})
    \cup (IF k >= 8 /\ t = "requestMetadata" THEN {NewKey[t]} ELSE {})

Release(k) ==
  [tables |-> [t \in Tables |-> IF t \in KnexBy(k)
                 THEN TableOf(ColumnsBy(t, k), KeysBy(t, k)) ELSE NoTable],
   control |-> k > 0, recorded |-> 1..k, keyless |-> {}, sharedRef |-> FALSE,
   payments |-> IF k = 0 THEN {} ELSE {p1, p2},
   attempts |-> [p \in {p1, p2} |-> IF k >= 3 THEN 1 ELSE 0],
   limits |-> <<>>]

Limit(context, hits, blocked) ==
  [context |-> context, hits |-> hits, blocked |-> blocked]

TwoLimits ==
  [Release(4) EXCEPT
     !.tables["rateLimits"].keys = @ \ {NewKey["rateLimits"]},
     !.limits = <<Limit("", 2, 0), Limit("null", 3, 1)>>]

DrizzleMade ==
  [Release(0) EXCEPT
     !.tables = [t \in Tables |-> TableOf(tableSpec[t].columns, tableSpec[t].keys)],
     !.payments = {p1, p2}, !.attempts = [p \in {p1, p2} |-> 1]]

(* A first run died in 0001, before its last table. *)
Begun ==
  [Release(1) EXCEPT !.tables["blacklist"] = NoTable, !.recorded = {},
                     !.payments = {}]

MCDatabase ==
  {Begun, Release(2), TwoLimits, DrizzleMade,
   [Release(2) EXCEPT !.sharedRef = TRUE],
   [Release(7) EXCEPT !.tables["requestMetadata"].keys =
                        @ \cup {NewKey["requestMetadata"]}]}

MCSymmetry == Permutations(MCRunner)
=============================================================================
