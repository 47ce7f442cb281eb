--------------------------- MODULE MCPaymentBook ---------------------------
(***************************************************************************)
(* Small instance of PaymentBook: in one transaction every combination of  *)
(* type, amount and the versions around the lawful one, captures that      *)
(* mutate one other field, and a second transaction on another date.       *)
(***************************************************************************)
EXTENDS PaymentBook

CONSTANTS MaxAmount, MaxEvents

MCPayment(txn, type, version, amount) ==
  [id |-> <<txn, type, version, amount>>, txn |-> txn, version |-> version,
   type |-> type, amount |-> amount, currency |-> "INR", processor |-> "p1",
   merchant |-> "m1", date |-> 1, received |-> 1]

MCVersions == [authorization |-> {1, 2}, capture |-> {1, 2, 3},
               refund |-> {2, 3, 4}, chargeback |-> {2, 3, 4}]

MCFirst ==
  UNION {{MCPayment("t1", type, version, amount) :
            version \in MCVersions[type], amount \in 1 .. MaxAmount}
         : type \in EVENT_TYPES}

\* Captures that keep type, version and amount and change one other field.
MCMutations ==
  LET base == MCPayment("t1", "capture", 2, 1)
  IN  { [base EXCEPT !.id[1] = "currency",  !.currency = "USD"],
        [base EXCEPT !.id[1] = "processor", !.processor = "p2"],
        [base EXCEPT !.id[1] = "merchant",  !.merchant = "m2"],
        [base EXCEPT !.id[1] = "date",      !.date = 2] }

MCSecond ==
  { MCPayment("t2", "authorization", 1, 1),
    [MCPayment("t2", "capture", 2, 1) EXCEPT !.date = 2] }

MCEvent    == MCFirst \cup MCMutations \cup MCSecond
MCArrivals == {{e} : e \in MCEvent}

\* The configured file, a revision of it, and two files the load gate refuses.
MCRevised  == [ConfiguredRules EXCEPT !.version = 2,
                 !.rules.chargeback[1].account = "merchant_payable"]
MCLopsided == [ConfiguredRules EXCEPT !.rules.refund[1].multiplier = 2]
MCUnversioned == [ConfiguredRules EXCEPT !.version = 0]
MCRuleFiles == {ConfiguredRules, MCRevised, MCLopsided, MCUnversioned}

\* Bound: histories of at most MaxEvents events.
MCSpec == Init /\ [][Cardinality(accepted) < MaxEvents /\ Next]_vars
=============================================================================
