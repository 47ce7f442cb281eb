---------------------------- MODULE PaymentBook ----------------------------
(***************************************************************************)
(* DerivedBook with the projection of the transactional core, and what     *)
(* must be true of the tables it derives from every history.               *)
(***************************************************************************)
EXTENDS FinancialProjection

CONSTANTS
  Event,       \* the events producers may emit
  Arrivals,    \* the sets of events one batch can add
  RuleFiles    \* the posting-rule files that may be offered for loading

ASSUME EventAssumption == \A e \in Event : ValidEvent(e)

ASSUME ArrivalsAreEvents ==
  \A batch \in Arrivals : batch \subseteq Event /\ IsFiniteSet(batch)

VARIABLES
  accepted,    \* accepted_event
  book         \* the derived tables

\* The rule sets load_posting_rules lets through.
LoadedRules == {file \in RuleFiles : LoadsRules(file)}

\* The files in use move the receivable as config/posting_rules.json does.
ASSUME ReceivableAssumption == \A rules \in LoadedRules : PostsReceivable(rules)

INSTANCE DerivedBook WITH Rules <- LoadedRules, Project <- Book, Sound <- SoundBook

-----------------------------------------------------------------------------
(* Properties                                                              *)

\* The derived tables hold rows of the accepted events, with the reasons,
\* amounts and versions the columns of store.py declare.
TypeOK ==
  /\ accepted \subseteq Event
  /\ book.posted \subseteq accepted
  /\ \A x \in book.exception : x.reason \in {REASONS[i] : i \in DOMAIN REASONS}
  /\ \A l \in book.ledger : l.signed \in Int
  /\ \A s \in book.state : s.version \in Nat \ {0}

\* The transactional core (store.py) and the distributed job
\* (reconstruct_payment_state.py, post_ledger.py) reach the same verdict, the
\* same payment state and the same ledger lines for every history, although
\* one folds rows and the other compares window aggregates.
ImplementationsAgree ==
  \A t \in {e.txn : e \in accepted} :
    LET E == EventsOf(accepted, t)
    IN  /\ SparkVerdict(E) = StoreVerdict(E)
        /\ StoreVerdict(E) = VALID =>
             /\ SparkState(E) = StoreState(E)
             /\ \A e \in E : SparkPostings(e) = BuildPostings(e, ConfiguredRules)

\* For every published payment the processor_receivable balance the ledger
\* carries is the net amount its payment_state row shows (dbt's
\* net_processor_receivable_minor), and the net lies between nothing and what
\* was authorized: two tables built by different code from one history.
LedgerCarriesPaymentState ==
  \A s \in book.state :
    LET net == s.captured - s.refunded - s.chargeback
    IN  /\ Balance({l \in ReceivableLines(book.ledger) : l.txn = s.txn}) = net
        /\ net \in 0 .. s.authorized

\* The settlement expected of a processor in a currency, summed over the
\* business dates, is the receivable the ledger holds against it: the external
\* reconciliation tests the same money the ledger posted.
SettlementMatchesLedger ==
  LET rows == ExpectedSettlement(book.posted)
  IN  \A p \in {<<e.processor, e.currency>> : e \in accepted} :
        SumFunction([r \in {x \in rows : <<x.processor, x.currency>> = p} |-> r.amount])
          = Balance({l \in ReceivableLines(book.ledger) :
                       <<l.processor, l.currency>> = p})

\* A transaction is published or quarantined as a unit: its events are all
\* exceptions with no trace in the published tables, or it has one state row at
\* the version of its last event and every money-moving event of it is posted.
WholeOrHeld(t) ==
  LET E      == EventsOf(accepted, t)
      rows   == {s \in book.state : s.txn = t}
      posted == {e \in book.posted : e.txn = t}
      lines  == {l \in book.ledger : l.txn = t}
      held   == {x.event : x \in {y \in book.exception : y.txn = t}}
  IN  \/ held = {e.id : e \in E} /\ rows = {} /\ posted = {} /\ lines = {}
      \/ /\ held = {} /\ Cardinality(rows) = 1
         /\ \A s \in rows : s.version = Cardinality(E)
         /\ posted = E \ OfType(E, {"authorization"})
         /\ {l.event : l \in lines} = {e.id : e \in posted}

TransactionAtomic == \A t \in {e.txn : e \in accepted} : WholeOrHeld(t)

\* A rule file that passes load_posting_rules never trips the run-time
\* assertion of build_postings, so no run is lost to it after ingestion.
LoadGateSuffices ==
  \A rules \in LoadedRules : Balanced(Book(accepted, rules).ledger)
=============================================================================
