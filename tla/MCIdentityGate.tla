-------------------------- MODULE MCIdentityGate --------------------------
(***************************************************************************)
(* Small instance of IdentityGate: a payment event, the same event sent    *)
(* again later, its id reused for another amount on another date, a record *)
(* with card data in its payload, and an envelope with card data beside    *)
(* the event it carries.                                                   *)
(***************************************************************************)
EXTENDS IdentityGate

CONSTANTS new, replay, reuse, sensitive, enveloped

MCRaw ==
  LET capture == [defects |-> {}, card |-> {}, id |-> "e1", txn |-> "t1", version |-> 2,
                  type |-> "capture", amount |-> 2, currency |-> "INR",
                  processor |-> "p1", merchant |-> "m1", date |-> 1, received |-> 1]
  IN  [r \in Record |->
         CASE r = new       -> capture
           [] r = replay    -> [capture EXCEPT !.received = 2]
           [] r = reuse     -> [capture EXCEPT !.amount = 1, !.date = 2]
           [] r = sensitive -> [capture EXCEPT !.id = "e3", !.card = {"payload"},
                                  !.defects = {"missing_fields"}]
           [] r = enveloped -> [capture EXCEPT !.id = "e4", !.card = {"envelope"}]]
=============================================================================
