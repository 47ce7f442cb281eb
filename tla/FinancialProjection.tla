------------------------ MODULE FinancialProjection ------------------------
(***************************************************************************)
(* The derived tables of the transactional core as functions of the        *)
(* accepted events: posted events, business exceptions, ledger lines,      *)
(* payment states, the expected settlement and its comparison with         *)
(* processor evidence.                                                     *)
(***************************************************************************)
EXTENDS PaymentLifecycle, PostingRules

EventsOf(accepted, t) == {e \in accepted : e.txn = t}

\* The verdict on each transaction that has an accepted event.
Verdicts(accepted) ==
  [t \in {e.txn : e \in accepted} |-> StoreVerdict(EventsOf(accepted, t))]

\* Mutants of Book: every event is an exception, or the authorizations of an
\* invalid transaction are published.
BookExceptingAll(accepted, rules) ==
  LET verdict == Verdicts(accepted)
      valid   == {e \in accepted : verdict[e.txn] = VALID}
  IN  [posted    |-> {e \in valid : rules.rules[e.type] # << >>},
       exception |-> {[event |-> e.id, txn |-> e.txn, reason |-> verdict[e.txn]]
                      : e \in accepted},
       ledger    |-> UNION {BuildPostings(e, rules) : e \in valid},
       state     |-> {StoreState(EventsOf(accepted, t)) : t \in {e.txn : e \in valid}}]

BookPartial(accepted, rules) ==
  LET verdict == Verdicts(accepted)
      valid   == {e \in accepted : verdict[e.txn] = VALID \/ e.type = "authorization"}
  IN  [posted    |-> {e \in valid : rules.rules[e.type] # << >>},
       exception |-> {[event |-> e.id, txn |-> e.txn, reason |-> verdict[e.txn]]
                      : e \in accepted \ valid},
       ledger    |-> UNION {BuildPostings(e, rules) : e \in valid},
       state     |-> {StoreState(EventsOf(accepted, t)) : t \in {e.txn : e \in valid}}]

\* _rebuild_projections: every derived table from nothing but the history.
Book(accepted, rules) ==
  LET verdict == Verdicts(accepted)
      valid   == {e \in accepted : verdict[e.txn] = VALID}
  IN  [posted    |-> {e \in valid : rules.rules[e.type] # << >>},
       exception |-> {[event |-> e.id, txn |-> e.txn, reason |-> verdict[e.txn]]
                      : e \in accepted \ valid},
       ledger    |-> UNION {BuildPostings(e, rules) : e \in valid},
       state     |-> {StoreState(EventsOf(accepted, t)) : t \in {e.txn : e \in valid}}]

\* assert_balanced, over every line of the book.
SoundBook(book) == Balanced(book.ledger)

EmptyBook == [posted |-> {}, exception |-> {}, ledger |-> {}, state |-> {}]

-----------------------------------------------------------------------------
(* Settlement.  A key is a business date, a processor and a currency.      *)

KeyOf(r) == [date |-> r.date, processor |-> r.processor, currency |-> r.currency]

\* Mutant of SettlementEffect: chargebacks are forgotten.
SettlementEffectOfRefunds(e) ==
  IF e.type = "capture" THEN e.amount ELSE IF e.type = "refund" THEN -e.amount ELSE 0

\* What one posted event contributes to the expected settlement.
SettlementEffect(e) ==
  IF e.type = "capture" THEN e.amount ELSE IF e.type \in REVERSALS THEN -e.amount ELSE 0

\* The lines on the account that settlement clears, and what the configured
\* rules do to it, which load_posting_rules does not check: an authorization
\* posts nothing, the other types move it by their effect on the settlement.
ReceivableLines(lines) == {l \in lines : l.account = "processor_receivable"}

PostsReceivable(file) ==
  LET Of(t) == {i \in DOMAIN file.rules[t] :
                  file.rules[t][i].account = "processor_receivable"}
  IN  /\ file.rules["authorization"] = << >>
      /\ \A t \in EVENT_TYPES :
           SumFunction([i \in Of(t) |-> file.rules[t][i].multiplier])
             = IF t = "capture" THEN 1 ELSE IF t \in REVERSALS THEN -1 ELSE 0

ExpectedMinor(posted, k) ==
  SumFunction([e \in {x \in posted : KeyOf(x) = k} |-> SettlementEffect(e)])

\* expected_settlement: one row for each key that has a posted event.
ExpectedSettlement(posted) ==
  {[date |-> k.date, processor |-> k.processor, currency |-> k.currency,
    amount |-> ExpectedMinor(posted, k)] : k \in {KeyOf(e) : e \in posted}}

ActualMinor(rows, k) ==
  SumFunction([r \in {x \in rows : KeyOf(x) = k} |-> r.amount])

\* The non-zero differences between expectation and evidence, over the keys
\* of either side.
SettlementDeltas(posted, rows) ==
  {d \in {[key |-> k, expected |-> ExpectedMinor(posted, k),
           actual |-> ActualMinor(rows, k),
           delta |-> ExpectedMinor(posted, k) - ActualMinor(rows, k)]
          : k \in {KeyOf(e) : e \in posted} \cup {KeyOf(r) : r \in rows}}
   : d.delta # 0}
=============================================================================
