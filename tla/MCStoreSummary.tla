-------------------------- MODULE MCStoreSummary --------------------------
(***************************************************************************)
(* Small instance of StoreSummary, with the records of MCLedgerStore: a    *)
(* payment with a chargeback, the late event that invalidates it, and its  *)
(* settlement.                                                             *)
(***************************************************************************)
EXTENDS MCLedgerStore, StoreSummary

MCTwoBatches == {<<MCAuthorization, MCCapture, MCChargeback>>, <<MCLate>>}

\* Evidence for one day, and a delivery that repeats a key.
MCTwoSettlements == {{MCRow(1, 2)}, {MCRow(1, 1), MCRow(1, 2)}}
=============================================================================
