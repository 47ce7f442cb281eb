-------------------------- MODULE PublicationTable --------------------------
(***************************************************************************)
(* The publication table: one item for a business date with the revision   *)
(* and checksum that are authoritative and the status of the date.  It is  *)
(* written by two conditional updates only, one of the manifest loader and *)
(* one of the settlement workflow, and read by both and by the finance     *)
(* DAG.  A settlement is a date, a revision and a checksum; it is also the *)
(* name of the execution that processes it.                                *)
(***************************************************************************)
EXTENDS Integers

CONSTANTS
  Settlement,  \* records [date, revision, sha]
  None         \* no item

ASSUME SettlementAssumption ==
  \A s \in Settlement : /\ s = [date |-> s.date, revision |-> s.revision, sha |-> s.sha]
                        /\ s.revision \in Nat \ {0}

Date == {s.date : s \in Settlement}
Sha  == {s.sha : s \in Settlement}

Item == [revision : Nat \ {0}, sha : Sha, status : {"PROCESSING", "RECONCILED"}]

ASSUME NoItemAssumption == None \notin Item \cup Settlement

VARIABLE registry

RegistryOK   == registry \in [Date -> Item \cup {None}]
RegistryInit == registry = [d \in Date |-> None]

\* attribute_not_exists(revision) OR revision < :revision
Newer(s) == registry[s.date] # None => registry[s.date].revision < s.revision

\* Mutant of Register: the status of the revision before stays.
RegisterKeepingStatus(s) ==
  registry' = [registry EXCEPT ![s.date] =
    [revision |-> s.revision, sha |-> s.sha,
     status |-> IF @ = None THEN "PROCESSING" ELSE @.status]]

Register(s) ==
  registry' = [registry EXCEPT ![s.date] =
                 [revision |-> s.revision, sha |-> s.sha, status |-> "PROCESSING"]]

\* revision = :revision AND manifest_sha256 = :sha
IsActive(s) ==
  /\ registry[s.date] # None
  /\ registry[s.date].revision = s.revision
  /\ registry[s.date].sha = s.sha

MarkReconciled(d) == registry' = [registry EXCEPT ![d].status = "RECONCILED"]

ActiveSettlement(d) ==
  IF registry[d] = None THEN None
  ELSE [date |-> d, revision |-> registry[d].revision, sha |-> registry[d].sha]

Reconciled(d) == registry[d] # None /\ registry[d].status = "RECONCILED"
=============================================================================
