------------------------------- MODULE Schema -------------------------------
(* The tables of the package, declared twice in the code: by the statements  *)
(* of the knex migrations (storage/knex/migrations/*.ts) and by the table    *)
(* specs of the Drizzle adapter (storage/drizzle/schema/tables.ts).          *)
(*                                                                           *)
(* A table is its columns and its keys.  A column is its name: types, nulls  *)
(* and defaults are left out.  A key is known to the database by its name,   *)
(* which both adapters build from the kind of key and the column list        *)
(* (drizzle/schema/naming.ts), so a key is that pair here.                   *)
EXTENDS Sequences, FiniteSets

uniqueName(columns) == <<"unique", columns>>
indexName(columns) == <<"index", columns>>

Uniques(lists) == {uniqueName(l) : l \in lists}
Indexes(lists) == {indexName(l) : l \in lists}

TableOf(columns, keys) == [columns |-> columns, keys |-> keys]

(* A table the database does not have. *)
NoTable == TableOf({}, {})

TIMESTAMPS == {"created_at", "updated_at"}

-----------------------------------------------------------------------------
(* The tables as the knex migrations create them. *)

createTransactionsTable == TableOf(
  {"id", "merchant_ref", "merchant_session", "amount_cents", "currency",
   "status", "transaction_code", "transaction_id", "message_type",
   "response_code", "merchant_response", "fingerprint", "payload",
   "customer_name", "customer_email", "customer_phone", "customer_country",
   "customer_city", "customer_address", "customer_postal_code", "locale",
   "cancelled_at", "refunded_at"} \cup TIMESTAMPS,
  {<<"merchant_lookup_idx">>}
    \cup Indexes({<<"transaction_id">>, <<"customer_email">>}))

createTransactionItemsTable == TableOf(
  {"id", "transaction_id", "product_id", "product_name", "quantity",
   "unit_price_cents", "total_price_cents", "description",
   "metadata"} \cup TIMESTAMPS,
  Indexes({<<"transaction_id", "product_id">>}))

createInvoicesTable == TableOf(
  {"id", "transaction_id", "invoice_number", "invoice_date", "due_date",
   "status", "customer_name", "customer_email", "customer_city",
   "customer_address", "customer_country", "notes", "pdf_path",
   "metadata"} \cup TIMESTAMPS,
  Uniques({<<"transaction_id">>, <<"invoice_number">>})
    \cup Indexes({<<"invoice_number", "status">>}))

createRequestMetadataTable == TableOf(
  {"id", "transaction_id", "ip_address", "user_agent", "referer",
   "country_code", "country_name", "region", "city", "latitude", "longitude",
   "isp", "device_type", "browser", "os", "device_fingerprint",
   "response_time_ms", "api_version", "is_vpn", "is_proxy", "is_mobile",
   "risk_score", "risk_reason", "custom_metadata"} \cup TIMESTAMPS,
  Indexes({<<"ip_address", "created_at">>, <<"country_code">>,
           <<"device_fingerprint">>, <<"risk_score">>, <<"transaction_id">>}))

createRateLimitsTable == TableOf(
  {"id", "identifier", "limit_type", "context", "hits", "limit",
   "window_seconds", "reset_at", "is_blocked",
   "blocked_until"} \cup TIMESTAMPS,
  Uniques({<<"identifier", "limit_type", "context">>})
    \cup Indexes({<<"identifier", "limit_type", "reset_at">>,
                  <<"is_blocked">>, <<"reset_at">>}))

createBlacklistTable == TableOf(
  {"id", "type", "value", "reason", "severity", "notes", "added_by",
   "expires_at"} \cup TIMESTAMPS,
  Uniques({<<"type", "value">>})
    \cup Indexes({<<"expires_at">>, <<"severity">>}))

createTransactionLogsTable == TableOf(
  {"id", "transaction_id", "source", "changed_attributes", "old_values",
   "new_values"} \cup TIMESTAMPS,
  Indexes({<<"transaction_id", "created_at">>, <<"source", "created_at">>}))

createTransactionAttemptsTable == TableOf(
  {"id", "transaction_id", "attempt_number", "merchant_ref",
   "merchant_session", "status", "gateway_transaction_id", "message_type",
   "response_code", "merchant_response", "fingerprint", "payload",
   "callback_payload", "failure_reason", "submitted_at",
   "callback_received_at", "superseded_at"} \cup TIMESTAMPS,
  Uniques({<<"merchant_session">>, <<"merchant_ref", "merchant_session">>,
           <<"transaction_id", "attempt_number">>})
    \cup Indexes({<<"transaction_id", "status">>,
                  <<"gateway_transaction_id">>}))

createPaymentIntentsTable == TableOf(
  {"id", "idempotency_key", "transaction_id", "status",
   "failure_reason"} \cup TIMESTAMPS,
  Uniques({<<"idempotency_key">>})
    \cup Indexes({<<"transaction_id", "status">>}))

KnexTable ==
  [transactions        |-> createTransactionsTable,
   transactionItems    |-> createTransactionItemsTable,
   invoices            |-> createInvoicesTable,
   requestMetadata     |-> createRequestMetadataTable,
   rateLimits          |-> createRateLimitsTable,
   blacklist           |-> createBlacklistTable,
   transactionLogs     |-> createTransactionLogsTable,
   transactionAttempts |-> createTransactionAttemptsTable,
   paymentIntents      |-> createPaymentIntentsTable]

Tables == DOMAIN KnexTable

-----------------------------------------------------------------------------
(* The tables as the Drizzle adapter declares them. *)

CUSTOMER_COLUMNS ==
  {"customer_name", "customer_email", "customer_phone", "customer_country",
   "customer_city", "customer_address", "customer_postal_code"}

transactions == TableOf(
  {"id", "merchant_ref", "merchant_session", "pos_id", "amount_cents",
   "currency", "status", "transaction_code", "transaction_id",
   "message_type", "response_code", "merchant_response", "fingerprint",
   "payload"} \cup CUSTOMER_COLUMNS
  \cup {"locale", "cancelled_at", "refunded_at"} \cup TIMESTAMPS,
  Uniques({<<"merchant_ref">>})
    \cup Indexes({<<"merchant_ref", "merchant_session">>,
                  <<"transaction_id">>, <<"customer_email">>, <<"pos_id">>}))

transactionItems == TableOf(
  {"id", "transaction_id", "product_id", "product_name", "quantity",
   "unit_price_cents", "total_price_cents", "description",
   "metadata"} \cup TIMESTAMPS,
  Indexes({<<"transaction_id", "product_id">>}))

transactionAttempts == TableOf(
  {"id", "transaction_id", "attempt_number", "merchant_ref",
   "merchant_session", "status", "gateway_transaction_id", "message_type",
   "response_code", "merchant_response", "fingerprint", "payload",
   "callback_payload", "failure_reason", "submitted_at",
   "callback_received_at", "superseded_at"} \cup TIMESTAMPS,
  Uniques({<<"merchant_session">>, <<"merchant_ref", "merchant_session">>,
           <<"transaction_id", "attempt_number">>})
    \cup Indexes({<<"transaction_id", "status">>,
                  <<"gateway_transaction_id">>}))

paymentIntents == TableOf(
  {"id", "idempotency_key", "request_hash", "transaction_id", "status",
   "failure_reason"} \cup TIMESTAMPS,
  Uniques({<<"idempotency_key">>})
    \cup Indexes({<<"transaction_id", "status">>}))

invoices == TableOf(
  {"id", "transaction_id", "invoice_number", "invoice_date", "due_date",
   "status", "customer_name", "customer_email", "customer_city",
   "customer_address", "customer_country", "notes", "pdf_path",
   "metadata"} \cup TIMESTAMPS,
  Uniques({<<"transaction_id">>, <<"invoice_number">>})
    \cup Indexes({<<"invoice_number", "status">>}))

transactionLogs == TableOf(
  {"id", "transaction_id", "source", "changed_attributes", "old_values",
   "new_values"} \cup TIMESTAMPS,
  Indexes({<<"transaction_id", "created_at">>, <<"source", "created_at">>}))

blacklist == TableOf(
  {"id", "type", "value", "reason", "severity", "notes", "added_by",
   "expires_at"} \cup TIMESTAMPS,
  Uniques({<<"type", "value">>})
    \cup Indexes({<<"expires_at">>, <<"severity">>}))

rateLimits == TableOf(
  {"id", "identifier", "limit_type", "context", "hits", "limit",
   "window_seconds", "reset_at", "is_blocked",
   "blocked_until"} \cup TIMESTAMPS,
  Uniques({<<"identifier", "limit_type", "context">>})
    \cup Indexes({<<"identifier", "limit_type", "reset_at">>,
                  <<"is_blocked">>, <<"reset_at">>}))

requestMetadata == TableOf(
  {"id", "transaction_id", "ip_address", "user_agent", "referer",
   "country_code", "country_name", "region", "city", "latitude", "longitude",
   "isp", "device_type", "browser", "os", "device_fingerprint",
   "response_time_ms", "api_version", "is_vpn", "is_proxy", "is_mobile",
   "risk_score", "risk_reason", "custom_metadata"} \cup TIMESTAMPS,
  Indexes({<<"ip_address", "created_at">>, <<"created_at">>,
           <<"country_code">>, <<"device_fingerprint">>, <<"risk_score">>,
           <<"transaction_id">>}))

tableSpec ==
  [transactions        |-> transactions,
   transactionItems    |-> transactionItems,
   transactionAttempts |-> transactionAttempts,
   paymentIntents      |-> paymentIntents,
   invoices            |-> invoices,
   transactionLogs     |-> transactionLogs,
   blacklist           |-> blacklist,
   rateLimits          |-> rateLimits,
   requestMetadata     |-> requestMetadata]

SISP_TABLE_SPECS ==
  <<"transactions", "transactionItems", "transactionAttempts",
    "paymentIntents", "invoices", "transactionLogs", "blacklist",
    "rateLimits", "requestMetadata">>

(* Columns declared unique in place are part of CREATE TABLE on every        *)
(* database; the other keys are statements of their own except on MySQL.     *)
inlineUniques(t) ==
  CASE t = "paymentIntents" -> Uniques({<<"idempotency_key">>})
    [] t = "invoices" -> Uniques({<<"transaction_id">>, <<"invoice_number">>})
    [] OTHER -> {}

standaloneIndexes(t) == tableSpec[t].keys \ inlineUniques(t)
=============================================================================
