-------------------------- MODULE PublicationGate --------------------------
(***************************************************************************)
(* What finance relies on when it waits for a business date, without       *)
(* notifications, jobs, retries or failures: one settlement is active for  *)
(* a date, only a newer revision replaces it, and the date is reconciled   *)
(* only while evidence that its active settlement passed is on record.     *)
(***************************************************************************)
EXTENDS Integers

CONSTANTS
  Date,        \* business dates
  Settlement,  \* what may be delivered: a date, a revision and a content
  None         \* no settlement yet

VARIABLES
  active,      \* the settlement that is authoritative for each date
  evidence,    \* the settlements that are known to have passed
  reconciled   \* the dates that finance may publish

vars == <<active, evidence, reconciled>>

Init == active = [d \in Date |-> None] /\ evidence = {} /\ reconciled = {}

Activate(s) ==
  /\ active[s.date] = None \/ active[s.date].revision < s.revision
  /\ active' = [active EXCEPT ![s.date] = s]
  /\ reconciled' = reconciled \ {s.date}
  /\ UNCHANGED evidence

Pass(s) ==
  /\ evidence' = evidence \cup {s}
  /\ UNCHANGED <<active, reconciled>>

Reconcile(d) ==
  /\ active[d] \in evidence
  /\ reconciled' = reconciled \cup {d}
  /\ UNCHANGED <<active, evidence>>

Next ==
  \/ \E s \in Settlement : Activate(s) \/ Pass(s)
  \/ \E d \in Date : Reconcile(d)

Spec == Init /\ [][Next]_vars
=============================================================================
