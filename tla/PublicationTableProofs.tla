----------------------- MODULE PublicationTableProofs -----------------------
(***************************************************************************)
(* Lemmas about the two conditional updates of the publication table, for  *)
(* the proofs of the components that make them.                            *)
(***************************************************************************)
EXTENDS PublicationTable, TLAPS

\* What a settlement is made of.
LEMMA PartFacts ==
  ASSUME NEW s \in Settlement
  PROVE  /\ s.date \in Date /\ s.sha \in Sha /\ s.revision \in Nat \ {0}
         /\ [revision |-> s.revision, sha |-> s.sha, status |-> "PROCESSING"] \in Item
         /\ [revision |-> s.revision, sha |-> s.sha, status |-> "RECONCILED"] \in Item
BY SettlementAssumption DEF Date, Sha, Item

\* Two settlements with equal parts are one.
LEMMA SamePartsSame ==
  ASSUME NEW s \in Settlement, NEW t \in Settlement,
         s.date = t.date, s.revision = t.revision, s.sha = t.sha
  PROVE  s = t
<1>1. /\ s = [date |-> s.date, revision |-> s.revision, sha |-> s.sha]
      /\ t = [date |-> t.date, revision |-> t.revision, sha |-> t.sha]
  BY SettlementAssumption
<1> QED
  BY <1>1

\* The item of a date after its registration.
LEMMA RegisterFacts ==
  ASSUME RegistryOK, NEW s \in Settlement, Register(s)
  PROVE  /\ RegistryOK'
         /\ registry'[s.date] # None
         /\ registry'[s.date].revision = s.revision /\ registry'[s.date].sha = s.sha
         /\ registry'[s.date].status = "PROCESSING"
         /\ \A d \in Date \ {s.date} : registry'[d] = registry[d]
<1> DEFINE item == [revision |-> s.revision, sha |-> s.sha, status |-> "PROCESSING"]
<1>1. item \in Item /\ s.date \in Date
  BY PartFacts
<1>2. item # None
  BY <1>1, NoItemAssumption
<1>3. registry' = [registry EXCEPT ![s.date] = item]
  BY DEF Register
<1>4. item.revision = s.revision /\ item.sha = s.sha /\ item.status = "PROCESSING"
  OBVIOUS
<1> HIDE DEF item
<1> QED
  BY <1>1, <1>2, <1>3, <1>4 DEF RegistryOK

\* The item of a date after the update of the gate.
LEMMA ReconcileFacts ==
  ASSUME RegistryOK, NEW s \in Settlement, IsActive(s), MarkReconciled(s.date)
  PROVE  /\ RegistryOK'
         /\ registry'[s.date] # None
         /\ registry'[s.date].revision = s.revision /\ registry'[s.date].sha = s.sha
         /\ registry'[s.date].status = "RECONCILED"
         /\ \A d \in Date \ {s.date} : registry'[d] = registry[d]
<1> DEFINE item == [registry[s.date] EXCEPT !.status = "RECONCILED"]
<1>1. s.date \in Date /\ registry[s.date] \in Item
  BY PartFacts DEF IsActive, RegistryOK
<1>2. /\ item \in Item /\ item.revision = s.revision /\ item.sha = s.sha
      /\ item.status = "RECONCILED"
  BY <1>1 DEF Item, IsActive
<1>3. item # None
  BY <1>2, NoItemAssumption
<1>4. registry' = [registry EXCEPT ![s.date] = item]
  BY DEF MarkReconciled
<1> HIDE DEF item
<1> QED
  BY <1>1, <1>2, <1>3, <1>4 DEF RegistryOK

\* The settlement an item stands for.
LEMMA ActiveFacts ==
  ASSUME NEW s \in Settlement, registry[s.date] # None,
         registry[s.date].revision = s.revision, registry[s.date].sha = s.sha
  PROVE  ActiveSettlement(s.date) = s
BY SettlementAssumption DEF ActiveSettlement
=============================================================================
