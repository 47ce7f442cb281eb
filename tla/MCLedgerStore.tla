--------------------------- MODULE MCLedgerStore ---------------------------
(***************************************************************************)
(* Small instance of LedgerStore: one payment whose records arrive new,    *)
(* replayed, conflicting, defective and late, in batches that overlap.     *)
(***************************************************************************)
EXTENDS LedgerStore, TLC

MCRaw(id, type, version, amount) ==
  [defects |-> {}, id |-> id, txn |-> "t1", version |-> version, type |-> type,
   amount |-> amount, currency |-> "INR", processor |-> "p1", merchant |-> "m1",
   date |-> 1, received |-> 1]

MCAuthorization == MCRaw("e1", "authorization", 1, 2)
MCCapture       == MCRaw("e2", "capture", 2, 2)
\* The capture delivered again later, and its id reused for another amount.
MCReplay   == [MCCapture EXCEPT !.received = 2]
MCConflict == [MCCapture EXCEPT !.amount = 1]
\* A reversal with two defects, and a sound one.
MCDefective  == [MCRaw("e3", "chargeback", 3, 1) EXCEPT
                   !.defects = {"invalid_amount_minor", "unknown_source"}]
MCChargeback == MCRaw("e3", "chargeback", 3, 1)
\* A late event that reuses a version and invalidates the payment.
MCLate == MCRaw("e4", "refund", 2, 1)

MCRawRecord == {MCAuthorization, MCCapture, MCReplay, MCConflict, MCDefective,
                MCChargeback, MCLate}

MCBatches == { <<MCAuthorization, MCCapture>>,
               <<MCConflict, MCReplay>>,
               <<MCDefective, MCChargeback>>,
               <<MCLate>> }

\* The configured file, a revision of it and one the load gate refuses.
MCRevised  == [ConfiguredRules EXCEPT !.version = 2,
                 !.rules.chargeback =
                   << [account |-> "chargeback_loss",      multiplier |-> 1],
                      [account |-> "chargeback_fee",       multiplier |-> 1],
                      [account |-> "processor_receivable", multiplier |-> -2] >>]
MCLopsided == [ConfiguredRules EXCEPT !.rules.refund[2].multiplier = 1]
MCRuleFiles == {ConfiguredRules, MCRevised, MCLopsided}

MCRow(date, amount) == [date |-> date, processor |-> "p1", currency |-> "INR",
                        amount |-> amount]

\* Evidence for one day, for two, for nothing, and a delivery that repeats a key.
MCSettlements == { {}, {MCRow(1, 2)}, {MCRow(1, 1), MCRow(2, 1)},
                   {MCRow(1, 1), MCRow(1, 2)} }

\* Evidence that holds nothing: everything posted is a difference.
MCNoEvidence == { {} }

MCNoSettlements == {}

MCSymmetry == Permutations(Worker) \cup Permutations(RunId)
=============================================================================
