------------------------- MODULE PaymentBookProofs -------------------------
(***************************************************************************)
(* What PaymentBook promises holds of every history of every set of        *)
(* events, whatever rule files are offered for loading.  The invariant is  *)
(* that the book is the projection of the history under rules that load;   *)
(* the rest is what the projection of any history is, from PaymentTheorems.*)
(***************************************************************************)
EXTENDS PaymentBook, PaymentTheorems

\* The history is one of finitely many sound events, one for each id, and the
\* derived tables are those of the rules some batch was processed under.
BookInv ==
  /\ accepted \subseteq Event
  /\ History(accepted)
  /\ \/ accepted = {} /\ book = EmptyBook
     \/ \E rules \in LoadedRules : book = Book(accepted, rules)

\* The empty book is that of the empty history.
LEMMA InitBook == Init => BookInv
<1> SUFFICES ASSUME Init PROVE BookInv
  OBVIOUS
<1>1. accepted = {} /\ book = EmptyBook
  BY DEF Init
<1> QED
  BY <1>1, FS_EmptySet DEF BookInv, History, UniqueIds

\* A batch adds events to a finite history, and the book is derived from all of it.
LEMMA NextBook == BookInv /\ [Next]_vars => BookInv'
<1> SUFFICES ASSUME BookInv, [Next]_vars PROVE BookInv'
  OBVIOUS
<1>1. ASSUME NEW batch \in Arrivals, NEW rules \in LoadedRules, Record(batch, rules)
      PROVE  BookInv'
  <2>1. batch \subseteq Event /\ IsFiniteSet(batch)
    BY ArrivalsAreEvents
  <2>2. accepted' = accepted \cup batch /\ OneEventPerId(accepted') /\ book' = Book(accepted', rules)
    BY <1>1 DEF Record
  <2>3. accepted' \subseteq Event /\ \A e \in accepted' : ValidEvent(e)
    BY <2>1, <2>2, EventAssumption DEF BookInv
  <2>4. IsFiniteSet(accepted')
    BY <2>1, <2>2, FS_Union DEF BookInv, History
  <2>5. History(accepted')
    BY <2>2, <2>3, <2>4 DEF History, UniqueIds, OneEventPerId
  <2> QED
    BY <2>2, <2>3, <2>5 DEF BookInv
<1>2. CASE UNCHANGED vars
  BY <1>2 DEF BookInv, vars
<1> QED
  BY <1>1, <1>2 DEF Next

\* The history stays finite and free of reused ids, and the book is always its
\* projection under rules that load.
LEMMA BookAlways == Spec => []BookInv
<1> QED
  BY InitBook, NextBook, PTL DEF Spec
-----------------------------------------------------------------------------
(* What the invariant says of the tables                                   *)

\* The published events are a history of their own.
LEMMA PublishedHistory ==
  ASSUME History(accepted)
  PROVE  Published(accepted) \subseteq accepted /\ History(Published(accepted))
<1>1. Published(accepted) \subseteq accepted
  BY DEF Published
<1> QED
  BY <1>1, PartOfHistory

\* Every state row is that of a valid payment.
LEMMA RowOfPayment ==
  ASSUME History(accepted), NEW rules, NEW s \in Book(accepted, rules).state
  PROVE  \E e \in accepted :
           LET E == EventsOf(accepted, e.txn)
           IN  /\ s = StoreState(E) /\ Payment(E) /\ StoreVerdict(E) = VALID
               /\ s.txn = e.txn /\ s.version = Cardinality(E) /\ s.version \in Nat \ {0}
               /\ s.authorized = Total(OfType(E, {"authorization"}))
               /\ s.captured = Total(OfType(E, {"capture"}))
               /\ s.refunded = Total(OfType(E, {"refund"}))
               /\ s.chargeback = Total(OfType(E, {"chargeback"}))
<1>1. PICK e \in Published(accepted) : s = StoreState(EventsOf(accepted, e.txn))
  BY BookRows
<1>2. e \in accepted
  BY DEF Published
<1> DEFINE E == EventsOf(accepted, e.txn)
<1>3. Payment(E) /\ StoreVerdict(E) = VALID /\ \A d \in E : d.txn = e.txn
  BY <1>1, <1>2, PaymentOf
<1>4. Max(Versions(E)) = Cardinality(E)
  BY <1>3, ValidPayment
<1> HIDE DEF E
<1>5. /\ StoreState(E).txn = e.txn /\ StoreState(E).version = Cardinality(E)
      /\ StoreState(E).version \in Nat \ {0}
      /\ StoreState(E).authorized = Total(OfType(E, {"authorization"}))
      /\ StoreState(E).captured = Total(OfType(E, {"capture"}))
      /\ StoreState(E).refunded = Total(OfType(E, {"refund"}))
      /\ StoreState(E).chargeback = Total(OfType(E, {"chargeback"}))
  BY <1>3, <1>4, StateRow
<1>6. s = StoreState(E)
  BY <1>1 DEF E
<1> USE DEF E
<1> WITNESS e \in accepted
<1> QED
  BY ONLY <1>3, <1>5, <1>6 DEF E

\* A file in use loads and moves the receivable account by what an event means.
LEMMA LoadedRulesLoad ==
  ASSUME NEW rules \in LoadedRules
  PROVE  LoadsRules(rules) /\ PostsReceivable(rules)
BY ReceivableAssumption DEF LoadedRules

\* The tables before the first batch are those of a history of no events.
LEMMA BookOfHistory ==
  ASSUME BookInv
  PROVE  /\ History(accepted)
         /\ book = EmptyBook \/ \E rules \in LoadedRules : book = Book(accepted, rules)
BY DEF BookInv

-----------------------------------------------------------------------------
(* The theorems                                                            *)

\* The derived tables hold rows of the accepted events, with reasons the code
\* can give, whole amounts and versions from one.
THEOREM TypesOfBook == Spec => []TypeOK
<1>1. BookInv => TypeOK
  <2> SUFFICES ASSUME BookInv PROVE TypeOK
    OBVIOUS
  <2>1. History(accepted) /\ accepted \subseteq Event
    BY DEF BookInv
  <2>2. CASE book = EmptyBook
    BY <2>1, <2>2 DEF TypeOK, EmptyBook
  <2>3. ASSUME NEW rules \in LoadedRules, book = Book(accepted, rules)
        PROVE  TypeOK
    <3>1. book.posted \subseteq accepted
      BY <2>1, <2>3, BookRows, PublishedHistory
    <3>2. ASSUME NEW x \in book.exception
          PROVE  x.reason \in {REASONS[i] : i \in DOMAIN REASONS}
      <4>1. PICK e \in accepted \ Published(accepted) :
              x.reason = StoreVerdict(EventsOf(accepted, e.txn))
        BY <2>3, BookRows
      <4> DEFINE V == StoreViolations(EventsOf(accepted, e.txn))
      <4>2. V \in SUBSET Range(REASONS) /\ x.reason = FirstReason(V)
        BY <4>1 DEF StoreViolations, StoreVerdict
      <4>3. x.reason # VALID
        BY <4>1 DEF Published
      <4> HIDE DEF V
      <4>4. x.reason \in Range(REASONS)
        BY <4>2, <4>3, ValidVerdict
      <4> QED
        BY <4>4 DEF Range
    <3>3. \A l \in book.ledger : l.signed \in Int
      BY <2>1, <2>3, BookRows, PublishedHistory, LoadedRulesLoad, LinesOfHistory
    <3>4. \A s \in book.state : s.version \in Nat \ {0}
      BY <2>1, <2>3, RowOfPayment
    <3> QED
      BY <2>1, <3>1, <3>2, <3>3, <3>4 DEF TypeOK
  <2> QED
    BY <2>2, <2>3, BookOfHistory
<1> QED
  BY <1>1, BookAlways, PTL

\* A rule file that loads never trips the assertion of build_postings,
\* whatever the history it is used on.
THEOREM LoadGateAlways == Spec => []LoadGateSuffices
<1>1. BookInv => LoadGateSuffices
  <2> SUFFICES ASSUME BookInv, NEW rules \in LoadedRules
               PROVE  Balanced(Book(accepted, rules).ledger)
    BY DEF LoadGateSuffices
  <2>1. History(Published(accepted))
    BY BookOfHistory, PublishedHistory
  <2> QED
    BY <2>1, LoadedRulesLoad, HistoryBalances, BookRows
<1> QED
  BY <1>1, BookAlways, PTL

\* The transactional core and the distributed job agree on the verdict, the
\* state and the lines of every payment of every history.
THEOREM ImplementationsAlwaysAgree == Spec => []ImplementationsAgree
<1>1. BookInv => ImplementationsAgree
  <2> SUFFICES ASSUME BookInv, NEW d \in accepted, NEW E, E = EventsOf(accepted, d.txn)
               PROVE  /\ SparkVerdict(E) = StoreVerdict(E)
                      /\ StoreVerdict(E) = VALID =>
                           /\ SparkState(E) = StoreState(E)
                           /\ \A e \in E : SparkPostings(e) = BuildPostings(e, ConfiguredRules)
    BY DEF ImplementationsAgree
  <2>1. Payment(E)
    BY BookOfHistory, PaymentOf
  <2>2. \A e \in E : ValidEvent(e)
    BY <2>1 DEF Payment
  <2> QED
    BY <2>1, <2>2, VerdictsAgree, StatesAgree, PostingsAgree
<1> QED
  BY <1>1, BookAlways, PTL
\* The receivable that the lines of a transaction, or of any other part of the
\* history, hold is the settlement effect of the published events of that part.
LEMMA ReceivableOfPart ==
  ASSUME History(accepted), NEW rules \in LoadedRules, NEW part,
         part \subseteq Published(accepted), NEW lines,
         lines = {l \in ReceivableLines(Book(accepted, rules).ledger) :
                    \E e \in part : l.event = e.id}
  PROVE  Balance(lines) = SumFunctionOnSet([e \in part |-> SettlementEffect(e)], part)
<1>1. History(Published(accepted)) /\ History(part)
  BY PublishedHistory, PartOfHistory
<1>2. LoadsRules(rules) /\ PostsReceivable(rules)
  BY LoadedRulesLoad
<1>3. lines = ReceivableLines(LinesOf(part, rules))
  <2> DEFINE L == LinesOf(Published(accepted), rules)
  <2>1. Book(accepted, rules).ledger = L
    BY BookRows
  <2>2. \A l \in L, e \in part : l.event = e.id <=> l \in BuildPostings(e, rules)
    BY <1>1, <1>2, LinesOfHistory
  <2>3. \A l : l \in LinesOf(part, rules) <=> \E e \in part : l \in BuildPostings(e, rules)
    BY DEF LinesOf
  <2>4. \A l \in LinesOf(part, rules) : l \in L
    BY DEF LinesOf
  <2> HIDE DEF L
  <2>5. \A l : l \in lines <=> l \in L /\ l.account = "processor_receivable"
                                 /\ \E e \in part : l.event = e.id
    BY <2>1 DEF ReceivableLines
  <2>6. \A l : l \in lines <=> l \in ReceivableLines(LinesOf(part, rules))
    BY <2>2, <2>3, <2>4, <2>5 DEF ReceivableLines
  <2>7. lines \subseteq ReceivableLines(LinesOf(part, rules))
    BY <2>6
  <2>8. ReceivableLines(LinesOf(part, rules)) \subseteq lines
    BY <2>6
  <2> QED
    BY <2>7, <2>8
<1> QED
  BY <1>1, <1>2, <1>3, HistoryMovesReceivable

\* The lines of the book name an event that is published, and what it names of
\* that event.
LEMMA LineOfEvent ==
  ASSUME History(accepted), NEW rules \in LoadedRules, NEW l \in Book(accepted, rules).ledger
  PROVE  \E e \in Published(accepted) :
           /\ l \in BuildPostings(e, rules) /\ l.event = e.id /\ l.txn = e.txn
           /\ l.processor = e.processor /\ l.currency = e.currency
<1>1. PICK e \in Published(accepted) : l \in BuildPostings(e, rules)
  BY BookRows DEF LinesOf
<1>2. ValidEvent(e)
  BY PublishedHistory DEF History
<1> QED
  BY <1>1, <1>2, LoadedRulesLoad, LinesOfEvent

\* The receivable the ledger holds for a payment is the net of its state row,
\* between nothing and what was authorized.
THEOREM LedgerAlwaysCarriesState == Spec => []LedgerCarriesPaymentState
<1>1. BookInv => LedgerCarriesPaymentState
  <2> SUFFICES ASSUME BookInv, NEW s \in book.state, NEW net,
                      net = s.captured - s.refunded - s.chargeback
               PROVE  /\ Balance({l \in ReceivableLines(book.ledger) : l.txn = s.txn}) = net
                      /\ net \in 0 .. s.authorized
    BY DEF LedgerCarriesPaymentState
  <2>1. History(accepted)
    BY BookOfHistory
  <2>2. PICK rules \in LoadedRules : book = Book(accepted, rules)
    BY BookOfHistory DEF EmptyBook
  <2>3. PICK e \in accepted :
          /\ Payment(EventsOf(accepted, e.txn)) /\ StoreVerdict(EventsOf(accepted, e.txn)) = VALID
          /\ s.txn = e.txn
          /\ s.authorized = Total(OfType(EventsOf(accepted, e.txn), {"authorization"}))
          /\ s.captured = Total(OfType(EventsOf(accepted, e.txn), {"capture"}))
          /\ s.refunded = Total(OfType(EventsOf(accepted, e.txn), {"refund"}))
          /\ s.chargeback = Total(OfType(EventsOf(accepted, e.txn), {"chargeback"}))
    BY <2>1, <2>2, RowOfPayment
  <2> DEFINE E == EventsOf(accepted, e.txn)
             lines == {l \in ReceivableLines(book.ledger) : l.txn = s.txn}
             effect == SumFunctionOnSet([d \in E |-> SettlementEffect(d)], E)
  <2>4. E \subseteq Published(accepted)
    BY <2>1, <2>3, PaymentOf
  <2>5. lines = {l \in ReceivableLines(Book(accepted, rules).ledger) :
                   \E d \in E : l.event = d.id}
    <3>1. ASSUME NEW l \in Book(accepted, rules).ledger
          PROVE  l.txn = s.txn <=> \E d \in E : l.event = d.id
      <4>1. PICK d \in Published(accepted) : l.event = d.id /\ l.txn = d.txn
        BY <2>1, LineOfEvent
      <4>2. d \in accepted
        BY DEF Published
      <4>3. l.txn = s.txn <=> d \in E
        BY <2>3, <4>1, <4>2 DEF EventsOf
      <4>4. \A c \in E : c.id = d.id => c = d
        BY <2>1, <4>2 DEF EventsOf, History, UniqueIds
      <4> QED
        BY <4>1, <4>3, <4>4
    <3> QED
      BY <2>2, <3>1 DEF ReceivableLines
  <2>6. Balance(lines) = effect
    <3> HIDE DEF E, lines
    <3> QED
      BY <2>1, <2>4, <2>5, ReceivableOfPart
  <2>7. effect = s.captured - s.refunded - s.chargeback
    BY <2>3, EffectOfPayment
  <2>8. /\ s.captured \in Nat /\ s.refunded \in Nat /\ s.chargeback \in Nat
        /\ s.authorized \in Nat
    BY <2>3, PaymentPart, TotalPositive
  <2>9. s.captured <= s.authorized /\ s.refunded + s.chargeback <= s.captured
    BY <2>3, ValidPayment
  <2>10. net \in 0 .. s.authorized
    BY <2>8, <2>9
  <2> QED
    BY <2>6, <2>7, <2>10
<1> QED
  BY <1>1, BookAlways, PTL
\* Over the business dates, what a processor is expected to settle in a currency
\* is the receivable the ledger holds against it.
THEOREM SettlementAlwaysMatches == Spec => []SettlementMatchesLedger
<1>1. BookInv => SettlementMatchesLedger
  <2> SUFFICES ASSUME BookInv, NEW c \in accepted, NEW p, p = <<c.processor, c.currency>>
               PROVE  SumFunction([r \in {x \in ExpectedSettlement(book.posted) :
                                           <<x.processor, x.currency>> = p} |-> r.amount])
                        = Balance({l \in ReceivableLines(book.ledger) :
                                     <<l.processor, l.currency>> = p})
    BY DEF SettlementMatchesLedger
  <2>1. History(accepted)
    BY BookOfHistory
  <2>2. PICK rules \in LoadedRules : book = Book(accepted, rules)
    BY DEF BookInv
  <2>3. LoadsRules(rules) /\ PostsReceivable(rules)
    BY LoadedRulesLoad
  <2> DEFINE posted == book.posted
             part == {e \in Published(accepted) : <<e.processor, e.currency>> = p}
             paid == {e \in posted : <<e.processor, e.currency>> = p}
             rest == part \ paid
             f == [e \in part |-> SettlementEffect(e)]
             lines == {l \in ReceivableLines(book.ledger) : <<l.processor, l.currency>> = p}
             rows == {x \in ExpectedSettlement(posted) : <<x.processor, x.currency>> = p}
  <2>4. posted = {e \in Published(accepted) : rules.rules[e.type] # << >>}
    BY <2>2, BookRows
  <2>5. History(Published(accepted)) /\ posted \subseteq Published(accepted)
    BY <2>1, <2>4, PublishedHistory
  <2>6. History(posted) /\ History(part)
    BY <2>5, PartOfHistory
  <2>7. \A e \in Published(accepted) : ValidEvent(e) /\ SettlementEffect(e) \in Int
    BY <2>3, <2>5, EventMovesReceivable DEF History
  <2>8. Balance(lines) = SumFunctionOnSet(f, part)
    <3>1. ASSUME NEW l \in Book(accepted, rules).ledger
          PROVE  <<l.processor, l.currency>> = p <=> \E e \in part : l.event = e.id
      <4>1. PICK e \in Published(accepted) :
              l.event = e.id /\ l.processor = e.processor /\ l.currency = e.currency
        BY <2>1, LineOfEvent
      <4>2. \A d \in part : d.id = e.id => d = e
        BY <2>5 DEF History, UniqueIds
      <4> QED
        BY <4>1, <4>2
    <3>2. lines = {l \in ReceivableLines(Book(accepted, rules).ledger) :
                     \E e \in part : l.event = e.id}
      BY <2>2, <3>1 DEF ReceivableLines
    <3>3. part \subseteq Published(accepted)
      OBVIOUS
    <3> HIDE DEF part, lines
    <3> QED
      BY <2>1, <3>2, <3>3, ReceivableOfPart
  <2>9. SumFunction([r \in rows |-> r.amount])
          = SumFunctionOnSet([e \in paid |-> SettlementEffect(e)], paid)
    <3>1. \A d \in paid, e \in posted : KeyOf(d) = KeyOf(e) => e \in paid
      BY DEF KeyOf
    <3>2. ASSUME NEW x \in ExpectedSettlement(posted)
          PROVE  <<x.processor, x.currency>> = p <=> \E e \in paid : KeyOf(x) = KeyOf(e)
      <4>1. PICK d \in posted : KeyOf(x) = KeyOf(d)
        BY DEF ExpectedSettlement, KeyOf
      <4>2. \A e : KeyOf(x) = KeyOf(e) => x.processor = e.processor /\ x.currency = e.currency
        BY DEF KeyOf
      <4> QED
        BY <4>1, <4>2
    <3>3. rows = {x \in ExpectedSettlement(posted) : \E e \in paid : KeyOf(x) = KeyOf(e)}
      BY <3>2
    <3>4. IsFiniteSet(posted) /\ \A e \in posted : SettlementEffect(e) \in Int
      BY <2>5, <2>6, <2>7 DEF History
    <3>5. paid \in SUBSET posted
      OBVIOUS
    <3> HIDE DEF posted, paid, rows
    <3> QED
      BY <3>1, <3>3, <3>4, <3>5, ExpectedAddsUp
  <2>10. /\ IsFiniteSet(paid) /\ IsFiniteSet(rest)
         /\ part = paid \cup rest /\ paid \cap rest = {}
    <3>1. paid \subseteq part
      BY <2>5
    <3> QED
      BY <2>6, <3>1, FS_Subset DEF History
  <2>11. \A e \in rest : f[e] = 0
    <3>1. ASSUME NEW e \in rest PROVE SettlementEffect(e) = 0
      <4>1. e \in Published(accepted) /\ rules.rules[e.type] = << >>
        BY <2>4
      <4> QED
        BY <2>3, <2>7, <4>1, NoLinesNoEffect
    <3> QED
      BY <3>1
  <2>12. IntOn(f, part) /\ \A e \in paid : f[e] = [d \in paid |-> SettlementEffect(d)][e]
    BY <2>7, <2>10 DEF IntOn
  <2>13. SumFunctionOnSet(f, paid)
           = SumFunctionOnSet([e \in paid |-> SettlementEffect(e)], paid)
    <3> HIDE DEF f, paid
    <3> QED
      BY <2>10, <2>12, SumAgree
  <2>14. SumFunctionOnSet(f, part) = SumFunctionOnSet(f, paid)
    <3> HIDE DEF f, paid, rest, part
    <3>1. SumFunctionOnSet(f, rest) = 0
      BY <2>10, <2>11, SumZero
    <3>2. SumFunctionOnSet(f, part) = SumFunctionOnSet(f, paid) + SumFunctionOnSet(f, rest)
      BY <2>10, <2>12, SumUnion
    <3>3. SumFunctionOnSet(f, paid) \in Int
      BY <2>10, <2>12, SumInt DEF IntOn
    <3> QED
      BY <3>1, <3>2, <3>3
  <2> QED
    BY <2>8, <2>9, <2>13, <2>14
<1> QED
  BY <1>1, BookAlways, PTL

\* Money moves exactly when the rule of the type has a line.
LEMMA MoneyMoves ==
  ASSUME NEW rules \in LoadedRules, NEW e, ValidEvent(e)
  PROVE  rules.rules[e.type] # << >> <=> e.type # "authorization"
<1>1. LoadsRules(rules) /\ PostsReceivable(rules)
  BY LoadedRulesLoad
<1>2. CASE rules.rules[e.type] = << >>
  <2>1. SettlementEffect(e) = 0 /\ e.amount \in Nat \ {0} /\ e.type \in EVENT_TYPES
    BY <1>1, <1>2, NoLinesNoEffect DEF ValidEvent
  <2> QED
    BY <1>2, <2>1 DEF SettlementEffect, EVENT_TYPES, REVERSALS
<1>3. CASE rules.rules[e.type] # << >>
  BY <1>1, <1>3 DEF PostsReceivable
<1> QED
  BY <1>2, <1>3

\* A transaction is published or quarantined as a unit.
THEOREM TransactionsAlwaysAtomic == Spec => []TransactionAtomic
<1>1. BookInv => TransactionAtomic
  <2> SUFFICES ASSUME BookInv, NEW c \in accepted
               PROVE  WholeOrHeld(c.txn)
    BY DEF TransactionAtomic
  <2> DEFINE t      == c.txn
             E      == EventsOf(accepted, t)
             rows   == {s \in book.state : s.txn = t}
             posted == {e \in book.posted : e.txn = t}
             lines  == {l \in book.ledger : l.txn = t}
             held   == {x.event : x \in {y \in book.exception : y.txn = t}}
  <2> SUFFICES \/ held = {e.id : e \in E} /\ rows = {} /\ posted = {} /\ lines = {}
               \/ /\ held = {} /\ Cardinality(rows) = 1
                  /\ \A s \in rows : s.version = Cardinality(E)
                  /\ posted = E \ OfType(E, {"authorization"})
                  /\ {l.event : l \in lines} = {e.id : e \in posted}
    BY DEF WholeOrHeld
  <2>1. History(accepted)
    BY BookOfHistory
  <2>2. PICK rules \in LoadedRules : book = Book(accepted, rules)
    BY DEF BookInv
  <2>3. Payment(E) /\ \A e : e \in E <=> e \in accepted /\ e.txn = t
    BY <2>1, PaymentOf DEF EventsOf
  <2>4. \A e \in E : e \in Published(accepted) <=> StoreVerdict(E) = VALID
    BY <2>1, <2>3, PaymentOf
  <2>5. \A e \in Published(accepted) : e \in accepted /\ (e.txn = t <=> e \in E)
    BY <2>3 DEF Published
  <2>6. posted = {e \in Published(accepted) : e.txn = t /\ rules.rules[e.type] # << >>}
    BY <2>2, BookRows
  <2>7. ASSUME NEW l \in lines
        PROVE  \E e \in Published(accepted) : l \in BuildPostings(e, rules) /\ l.event = e.id
                                             /\ e.txn = t
    BY <2>1, <2>2, LineOfEvent
  <2>8. ASSUME NEW s \in rows
        PROVE  s = StoreState(E) /\ StoreVerdict(E) = VALID /\ s.version = Cardinality(E)
    BY <2>1, <2>2, RowOfPayment
  <2>9. held = {e.id : e \in E \ Published(accepted)}
    <3>1. book.exception = {[event |-> e.id, txn |-> e.txn,
                             reason |-> StoreVerdict(EventsOf(accepted, e.txn))]
                            : e \in accepted \ Published(accepted)}
      BY <2>2, BookRows
    <3>2. ASSUME NEW e \in E \ Published(accepted) PROVE e.id \in held
      <4> DEFINE y == [event |-> e.id, txn |-> e.txn,
                       reason |-> StoreVerdict(EventsOf(accepted, e.txn))]
      <4>1. y \in book.exception /\ y.txn = t /\ y.event = e.id
        BY <2>3, <3>1
      <4> HIDE DEF y
      <4> QED
        BY <4>1
    <3>3. ASSUME NEW i \in held PROVE \E e \in E \ Published(accepted) : i = e.id
      <4>1. PICK x \in book.exception : x.txn = t /\ i = x.event
        OBVIOUS
      <4>2. PICK e \in accepted \ Published(accepted) : x.event = e.id /\ x.txn = e.txn
        BY <3>1
      <4> QED
        BY <2>3, <4>1, <4>2
    <3> QED
      BY <3>2, <3>3
  <2>10. CASE StoreVerdict(E) # VALID
    <3>1. held = {e.id : e \in E}
      BY <2>4, <2>9, <2>10
    <3>2. rows = {}
      BY <2>8, <2>10
    <3>3. posted = {} /\ lines = {}
      BY <2>4, <2>5, <2>6, <2>7, <2>10
    <3> QED
      BY <3>1, <3>2, <3>3
  <2>11. CASE StoreVerdict(E) = VALID
    <3>1. held = {}
      BY <2>4, <2>9, <2>11
    <3>2. StoreState(E) \in rows
      <4>1. c \in Published(accepted) /\ \A e \in E : e.txn = t
        BY <2>3, <2>4, <2>11
      <4>2. StoreState(E).txn = t
        BY <2>3, <4>1, StateRow
      <4>3. StoreState(E) \in book.state
        BY <2>2, <4>1, BookRows
      <4> QED
        BY <4>2, <4>3
    <3>3. rows = {StoreState(E)}
      BY <2>8, <3>2
    <3>4. Cardinality(rows) = 1
      BY <3>3, FS_Singleton, Zenon
    <3>5. \A e \in E : rules.rules[e.type] # << >> <=> e.type # "authorization"
      BY <2>3, MoneyMoves DEF Payment
    <3>6. posted = E \ OfType(E, {"authorization"})
      BY <2>4, <2>5, <2>6, <2>11, <3>5 DEF OfType
    <3>7. ASSUME NEW l \in lines PROVE l.event \in {e.id : e \in posted}
      <4>1. PICK e \in Published(accepted) :
              l \in BuildPostings(e, rules) /\ l.event = e.id /\ e.txn = t
        BY <2>7
      <4>2. rules.rules[e.type] # << >>
        BY <4>1 DEF BuildPostings
      <4> QED
        BY <2>6, <4>1, <4>2
    <3>8. ASSUME NEW e \in posted PROVE \E l \in lines : l.event = e.id
      <4>1. e \in Published(accepted) /\ e.txn = t /\ rules.rules[e.type] # << >>
        BY <2>6
      <4>2. ValidEvent(e)
        BY <2>1, <4>1, PublishedHistory DEF History
      <4>3. PICK i : i \in DOMAIN rules.rules[e.type]
        <5> DEFINE R == rules.rules[e.type]
        <5>1. R \in Seq(RuleLine) /\ R # << >>
          BY <4>1, <4>2, LoadedRulesLoad DEF LoadsRules, ValidEvent
        <5> HIDE DEF R
        <5>2. Len(R) \in Nat /\ Len(R) # 0 /\ DOMAIN R = 1 .. Len(R)
          BY <5>1
        <5>3. 1 \in DOMAIN R
          BY <5>2
        <5> QED
          BY <5>3 DEF R
      <4>4. LineAt(e, rules, i) \in BuildPostings(e, rules)
        BY <4>2, <4>3, LoadedRulesLoad, LinesOfEvent
      <4>5. LineAt(e, rules, i) \in book.ledger
        BY <2>2, <4>1, <4>4, BookRows DEF LinesOf
      <4>6. LineAt(e, rules, i).txn = t /\ LineAt(e, rules, i).event = e.id
        BY <4>1 DEF LineAt
      <4> QED
        BY <4>5, <4>6
    <3>9. {l.event : l \in lines} = {e.id : e \in posted}
      BY <3>7, <3>8
    <3> QED
      BY <2>8, <3>1, <3>4, <3>6, <3>9
  <2> QED
    BY <2>10, <2>11
<1> QED
  BY <1>1, BookAlways, PTL
=============================================================================
