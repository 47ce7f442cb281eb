--------------------------- MODULE PaymentEvents ---------------------------
(***************************************************************************)
(* The vocabulary every component shares: what a producer delivers (a raw  *)
(* record), what the contract gate makes of it (a payment event, or a      *)
(* reason to quarantine it) and the fingerprint that separates an exact    *)
(* replay from a conflicting reuse of an event id.                         *)
(*                                                                         *)
(* A raw record carries the business fields, the arrival time and the set  *)
(* of contract defects it has; the text of a field is never modelled.      *)
(***************************************************************************)
EXTENDS Integers, Sequences, FiniteSets, FiniteSetsExt, Functions

EVENT_TYPES == {"authorization", "capture", "refund", "chargeback"}

\* The fields of the identity hash.  received_at is not among them: the same
\* mutation delivered later is the same mutation.  schema_version, source_id
\* and customer_email never differ between the records of a run and are left out.
IDENTITY_FIELDS == {"id", "txn", "version", "type", "amount", "currency",
                    "processor", "merchant", "date"}

\* The fields of a validated event; the arrival time is kept for operations.
EVENT_FIELDS == IDENTITY_FIELDS \cup {"received"}

\* The gates of validate_event in the order the code applies them; the last one
\* is that of tokenize_customer.
CONTRACT_GATES ==
  << "prohibited_fields", "missing_fields", "unexpected_fields",
     "unsupported_schema_version", "invalid_identifier", "unknown_source",
     "source_contract_mismatch", "invalid_transaction_version",
     "unsupported_event_type", "invalid_amount_minor", "unsupported_currency",
     "invalid_event_time", "invalid_received_at", "invalid_customer_email",
     "token_key_too_short" >>

\* The first of the names of seq that occurs in found.
FirstOf(seq, found) == seq[Min({i \in DOMAIN seq : seq[i] \in found})]

PassesContract(raw) == raw.defects = {}

\* validate_event: what the gates on the version, the type and the amount leave.
ValidEvent(e) ==
  /\ e.version \in Nat \ {0}
  /\ e.type \in EVENT_TYPES
  /\ e.amount \in Nat \ {0}

\* validate_event raises at the first gate the record fails.
ContractReason(raw) == FirstOf(CONTRACT_GATES, raw.defects)

\* validate_event: the event a record that passes every gate denotes.
EventOf(raw) == [f \in EVENT_FIELDS |-> raw[f]]

\* identity_fingerprint: a hash, so equal exactly when the fields are equal.
Fingerprint(raw) == [f \in IDENTITY_FIELDS |-> raw[f]]
=============================================================================
