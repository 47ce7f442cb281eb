------------------------ MODULE MCSettlementWorkflow ------------------------
(***************************************************************************)
(* Small instances of SettlementWorkflow: payments that lie on one date or *)
(* span two, and settlements of two dates and two revisions of one.        *)
(***************************************************************************)
EXTENDS SettlementWorkflow, TLC

MCPayment(txn, version, type, amount, date) ==
  [id |-> <<txn, version>>, txn |-> txn, version |-> version, type |-> type,
   amount |-> amount, currency |-> "INR", processor |-> "p1", merchant |-> "m1",
   date |-> date, received |-> 1]

MCSettle(date, revision) == [date |-> date, revision |-> revision, sha |-> revision]

MCTwoDates     == {MCSettle(1, 1), MCSettle(2, 1)}
MCTwoRevisions == {MCSettle(1, 1), MCSettle(1, 2)}

MCThree         == MCTwoDates \cup MCTwoRevisions

\* A payment of one date that a refund of the next, of too much, invalidates.
MCInvalidated == {MCPayment("t1", 1, "authorization", 2, 1),
                  MCPayment("t1", 2, "capture", 2, 1),
                  MCPayment("t1", 3, "refund", 3, 2)}

\* A payment authorized on one date and captured on the next, and one of the first
\* date alone; each is an orphaned capture as long as its authorization is missing.
MCTwoPayments == {MCPayment("t1", 1, "authorization", 2, 1),
                  MCPayment("t1", 2, "capture", 2, 2),
                  MCPayment("t2", 1, "authorization", 1, 1),
                  MCPayment("t2", 2, "capture", 1, 1)}

\* An orphaned refund of the first date and the capture of the second.
MCOrphans == {MCPayment("t1", 2, "refund", 1, 1), MCPayment("t1", 1, "capture", 2, 2)}

\* Every event is written with the date it has in UTC.
MCUtcDate == [e \in Event |-> e.date]

\* The files report what the events of the date amount to; the first revision of
\* two was made before the captures.
MCProcessed ==
  [s \in Settlement |->
     IF \E u \in Settlement : u.date = s.date /\ u.revision > s.revision
     THEN <<"p1", "INR">> :> 0
     ELSE <<"p1", "INR">> :> MapThenSumSet(Effect, {e \in Event : UtcDate[e] = s.date})]
=============================================================================
