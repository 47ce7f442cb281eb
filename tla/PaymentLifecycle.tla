-------------------------- MODULE PaymentLifecycle --------------------------
(***************************************************************************)
(* How the accepted events of one transaction are judged and projected.    *)
(* The repository holds two implementations of the same rules: the         *)
(* transactional core (store.py, row by row) and the distributed job       *)
(* (reconstruct_payment_state.py, window aggregates).  Both are here, each *)
(* written the way its source computes it.                                 *)
(*                                                                         *)
(* E is the non-empty set of accepted events of one transaction.           *)
(***************************************************************************)
EXTENDS PaymentEvents

OfType(E, types) == {e \in E : e.type \in types}
Total(E)         == SumFunction([e \in E |-> e.amount])
Versions(E)      == {e.version : e \in E}

REVERSALS == {"refund", "chargeback"}

\* The checks of either implementation, in the order they are tried.
REASONS ==
  << "transaction_version_conflict", "transaction_version_gap",
     "currency_mutation", "processor_mutation", "merchant_mutation",
     "duplicate_authorization", "capture_without_authorization",
     "missing_authorization", "capture_before_authorization",
     "reversal_without_capture", "reversal_before_capture",
     "capture_exceeds_authorization", "refund_or_chargeback_exceeds_capture" >>

VALID == "valid"

\* An elif chain reports the first check that fails.
FirstReason(violated) == IF violated = {} THEN VALID ELSE FirstOf(REASONS, violated)

-----------------------------------------------------------------------------
(* The transactional core: LedgerStore._project_transaction.               *)

StoreFails(E, reason) ==
  LET auths     == OfType(E, {"authorization"})
      captures  == OfType(E, {"capture"})
      reversals == OfType(E, REVERSALS)
  IN  CASE reason = "transaction_version_conflict" ->
             Cardinality(Versions(E)) # Cardinality(E)
        [] reason = "transaction_version_gap" ->
             Min(Versions(E)) # 1 \/ Max(Versions(E)) # Cardinality(E)
        [] reason = "currency_mutation"  -> Cardinality({e.currency : e \in E}) # 1
        [] reason = "processor_mutation" -> Cardinality({e.processor : e \in E}) # 1
        [] reason = "merchant_mutation"  -> Cardinality({e.merchant : e \in E}) # 1
        [] reason = "duplicate_authorization"       -> Cardinality(auths) > 1
        [] reason = "capture_without_authorization" -> auths = {} /\ captures # {}
        [] reason = "missing_authorization"         -> auths = {}
        [] reason = "capture_before_authorization" ->
             /\ captures # {} /\ auths # {}
             /\ Min(Versions(captures)) <= Min(Versions(auths))
        [] reason = "reversal_without_capture" -> reversals # {} /\ captures = {}
        [] reason = "reversal_before_capture" ->
             /\ reversals # {} /\ captures # {}
             /\ Min(Versions(reversals)) <= Min(Versions(captures))
        [] reason = "capture_exceeds_authorization" -> Total(captures) > Total(auths)
        [] reason = "refund_or_chargeback_exceeds_capture" ->
             Total(reversals) > Total(captures)

StoreViolations(E) == {reason \in Range(REASONS) : StoreFails(E, reason)}

\* Mutant of StoreVerdict: over-reversal is not checked.
StoreVerdictUncapped(E) ==
  FirstReason(StoreViolations(E) \ {"refund_or_chargeback_exceeds_capture"})

StoreVerdict(E) == FirstReason(StoreViolations(E))

StoreStatus(authorized, captured, refunded, charged) ==
  CASE charged > 0 ->
         IF refunded + charged = captured THEN "CHARGEDBACK" ELSE "PARTIALLY_CHARGEDBACK"
    [] charged = 0 /\ refunded > 0 ->
         IF refunded = captured THEN "REFUNDED" ELSE "PARTIALLY_REFUNDED"
    [] charged = 0 /\ refunded = 0 /\ captured > 0 ->
         IF captured = authorized THEN "CAPTURED" ELSE "PARTIALLY_CAPTURED"
    [] OTHER -> "AUTHORIZED"

\* The payment_state row of a valid transaction; events[-1] is the event of
\* the highest version, versions being distinct in a valid transaction.
StoreState(E) ==
  LET current    == CHOOSE e \in E : e.version = Max(Versions(E))
      authorized == Total(OfType(E, {"authorization"}))
      captured   == Total(OfType(E, {"capture"}))
      refunded   == Total(OfType(E, {"refund"}))
      charged    == Total(OfType(E, {"chargeback"}))
  IN  [txn |-> current.txn, version |-> current.version, event |-> current.id,
       status |-> StoreStatus(authorized, captured, refunded, charged),
       authorized |-> authorized, captured |-> captured, refunded |-> refunded,
       chargeback |-> charged, currency |-> current.currency,
       processor |-> current.processor, merchant |-> current.merchant]

-----------------------------------------------------------------------------
(* The distributed job: reconstruct.  A window aggregate over no rows is   *)
(* NULL, and a comparison with NULL does not fire its branch.              *)

\* F.max over the authorizations, not their sum.
SparkAuthorized(E) == Max({e.amount : e \in OfType(E, {"authorization"})})

SparkFires(E, reason) ==
  LET auths     == OfType(E, {"authorization"})
      captures  == OfType(E, {"capture"})
      reversals == OfType(E, REVERSALS)
      SameVersion(e) == {f \in E : f.version = e.version}
  IN  CASE reason = "transaction_version_conflict" ->
             \E e \in E : Cardinality(SameVersion(e)) > 1
        [] reason = "transaction_version_gap" ->
             Min(Versions(E)) # 1 \/ Max(Versions(E)) # Cardinality(E)
        [] reason = "currency_mutation"  -> Cardinality({e.currency : e \in E}) > 1
        [] reason = "processor_mutation" -> Cardinality({e.processor : e \in E}) > 1
        [] reason = "merchant_mutation"  -> Cardinality({e.merchant : e \in E}) > 1
        [] reason = "duplicate_authorization"       -> Cardinality(auths) > 1
        [] reason = "capture_without_authorization" -> auths = {} /\ Total(captures) > 0
        [] reason = "missing_authorization"         -> auths = {}
        [] reason = "capture_before_authorization" ->
             /\ captures # {} /\ auths # {}
             /\ Min(Versions(captures)) <= Min(Versions(auths))
        [] reason = "reversal_without_capture" -> reversals # {} /\ captures = {}
        [] reason = "reversal_before_capture" ->
             /\ reversals # {} /\ captures # {}
             /\ Min(Versions(reversals)) <= Min(Versions(captures))
        [] reason = "capture_exceeds_authorization" ->
             auths # {} /\ Total(captures) > SparkAuthorized(E)
        [] reason = "refund_or_chargeback_exceeds_capture" ->
             Total(OfType(E, {"refund"})) + Total(OfType(E, {"chargeback"}))
               > Total(captures)

SparkViolations(E) == {reason \in Range(REASONS) : SparkFires(E, reason)}

SparkVerdict(E) == FirstReason(SparkViolations(E))

\* Mutant of SparkStatus: a chargeback after a partial refund is never complete.
SparkStatusIgnoringRefunds(authorized, captured, refunded, charged) ==
  IF captured > 0 /\ charged = captured /\ charged > 0 THEN "CHARGEDBACK"
  ELSE IF charged > 0 THEN "PARTIALLY_CHARGEDBACK"
  ELSE IF captured > 0 /\ refunded = captured THEN "REFUNDED"
  ELSE IF refunded > 0 THEN "PARTIALLY_REFUNDED"
  ELSE IF captured = authorized THEN "CAPTURED"
  ELSE IF captured > 0 THEN "PARTIALLY_CAPTURED"
  ELSE "AUTHORIZED"

SparkStatus(authorized, captured, refunded, charged) ==
  IF captured > 0 /\ refunded + charged = captured /\ charged > 0 THEN "CHARGEDBACK"
  ELSE IF charged > 0 THEN "PARTIALLY_CHARGEDBACK"
  ELSE IF captured > 0 /\ refunded = captured THEN "REFUNDED"
  ELSE IF refunded > 0 THEN "PARTIALLY_REFUNDED"
  ELSE IF captured = authorized THEN "CAPTURED"
  ELSE IF captured > 0 THEN "PARTIALLY_CAPTURED"
  ELSE "AUTHORIZED"

SparkState(E) ==
  LET current  == CHOOSE e \in E : e.version = Max(Versions(E))
      captured == Total(OfType(E, {"capture"}))
      refunded == Total(OfType(E, {"refund"}))
      charged  == Total(OfType(E, {"chargeback"}))
  IN  [txn |-> current.txn, version |-> current.version, event |-> current.id,
       status |-> SparkStatus(SparkAuthorized(E), captured, refunded, charged),
       authorized |-> SparkAuthorized(E), captured |-> captured,
       refunded |-> refunded, chargeback |-> charged,
       currency |-> current.currency, processor |-> current.processor,
       merchant |-> current.merchant]
=============================================================================
