---------------------------- MODULE PostingRules ----------------------------
(***************************************************************************)
(* Double-entry posting: the load gate over a rule file, the lines an      *)
(* event produces under loaded rules, the balance assertion over those     *)
(* lines, and the hard-wired lines of the distributed ledger job.          *)
(*                                                                         *)
(* A rule set is [version, rules], rules mapping an event type to the      *)
(* sequence of its [account, multiplier] lines.                            *)
(***************************************************************************)
EXTENDS PaymentEvents

\* config/posting_rules.json
ConfiguredRules ==
  LET Line(a, m) == [account |-> a, multiplier |-> m]
  IN  [version |-> 1,
       rules |->
         [authorization |-> << >>,
          capture    |-> << Line("processor_receivable", 1),
                            Line("merchant_payable", -1) >>,
          refund     |-> << Line("merchant_payable", 1),
                            Line("processor_receivable", -1) >>,
          chargeback |-> << Line("chargeback_loss", 1),
                            Line("processor_receivable", -1) >>]]

\* The accounts of the configured rules are named.
ASSUME AccountAssumption ==
  {"processor_receivable", "merchant_payable", "chargeback_loss"} \subseteq STRING \ {""}

RuleLine == [account : STRING \ {""}, multiplier : Int]

\* Mutant of LoadsRules: the multipliers are not summed.
LoadsUnbalancedRules(file) ==
  /\ file.version \in Nat \ {0}
  /\ \A t \in EVENT_TYPES : t \in DOMAIN file.rules /\ file.rules[t] \in Seq(RuleLine)

\* load_posting_rules: the version is positive, every event type has a rule,
\* a list of named accounts and whole multipliers, and the multipliers cancel.
LoadsRules(file) ==
  /\ file.version \in Nat \ {0}
  /\ \A t \in EVENT_TYPES :
       /\ t \in DOMAIN file.rules
       /\ file.rules[t] \in Seq(RuleLine)
       /\ SumFunction([i \in DOMAIN file.rules[t] |-> file.rules[t][i].multiplier]) = 0

\* build_postings: one line for each line of the rule, numbered from 1.
BuildPostings(e, rules) ==
  { [event |-> e.id, position |-> i, txn |-> e.txn, processor |-> e.processor,
     merchant |-> e.merchant, currency |-> e.currency,
     account |-> rules.rules[e.type][i].account,
     signed |-> e.amount * rules.rules[e.type][i].multiplier,
     rule_version |-> rules.version]
    : i \in DOMAIN rules.rules[e.type] }

\* The sum of the signed amounts of a set of lines.
Balance(lines) == SumFunction([l \in lines |-> l.signed])

\* assert_balanced: every (event, currency) group of the lines sums to zero.
Balanced(lines) ==
  \A l \in lines :
    Balance({m \in lines : m.event = l.event /\ m.currency = l.currency}) = 0

\* posting_lines of the distributed job: the accounts are in the code and the
\* rule version is the literal 1; authorizations are filtered out first.
SparkPostings(e) ==
  IF e.type \notin {"capture", "refund", "chargeback"} THEN {}
  ELSE LET debit  == CASE e.type = "capture" -> "processor_receivable"
                       [] e.type = "refund"  -> "merchant_payable"
                       [] OTHER              -> "chargeback_loss"
           credit == IF e.type = "capture" THEN "merchant_payable"
                                           ELSE "processor_receivable"
           Line(i, a, s) ==
             [event |-> e.id, position |-> i, txn |-> e.txn,
              processor |-> e.processor, merchant |-> e.merchant,
              currency |-> e.currency, account |-> a, signed |-> s,
              rule_version |-> 1]
       IN  {Line(1, debit, e.amount), Line(2, credit, -e.amount)}
=============================================================================
