-------------------------- MODULE PaymentTheorems --------------------------
(***************************************************************************)
(* What the pure parts of the payment core compute, for every event, every *)
(* history and every rule file that loads: the lines of an event balance,  *)
(* the lines of a history balance and carry its settlement effect, and the *)
(* two implementations of the payment rules agree.                         *)
(***************************************************************************)
EXTENDS FinancialProjection, SumTheorems

-----------------------------------------------------------------------------
(* The lines of one event                                                  *)

\* The line an event produces for the i-th line of its rule.
LineAt(e, rules, i) ==
  [event |-> e.id, position |-> i, txn |-> e.txn, processor |-> e.processor,
   merchant |-> e.merchant, currency |-> e.currency,
   account |-> rules.rules[e.type][i].account,
   signed |-> e.amount * rules.rules[e.type][i].multiplier,
   rule_version |-> rules.version]

\* The rule of an event type is a finite list with whole multipliers.
LEMMA LoadedRule ==
  ASSUME NEW rules, LoadsRules(rules), NEW t \in EVENT_TYPES
  PROVE  /\ IsFiniteSet(DOMAIN rules.rules[t])
         /\ \A i \in DOMAIN rules.rules[t] : rules.rules[t][i].multiplier \in Int
         /\ SumFunction([i \in DOMAIN rules.rules[t] |-> rules.rules[t][i].multiplier]) = 0
<1> DEFINE R == rules.rules[t]
<1>1. R \in Seq(RuleLine) /\ SumFunction([i \in DOMAIN R |-> R[i].multiplier]) = 0
  BY DEF LoadsRules
<1> HIDE DEF R
<1>2. DOMAIN R = 1 .. Len(R) /\ Len(R) \in Nat
  BY <1>1
<1>3. IsFiniteSet(DOMAIN R)
  BY <1>2, FS_Interval
<1>4. \A i \in DOMAIN R : R[i] \in RuleLine
  BY <1>1
<1>5. \A i \in DOMAIN R : R[i].multiplier \in Int
  BY <1>4 DEF RuleLine
<1> QED
  BY <1>1, <1>3, <1>5 DEF R

\* The lines name the event they come from and carry whole amounts.
LEMMA LinesOfEvent ==
  ASSUME NEW e, ValidEvent(e), NEW rules, LoadsRules(rules)
  PROVE  /\ BuildPostings(e, rules)
              = {LineAt(e, rules, i) : i \in DOMAIN rules.rules[e.type]}
         /\ IsFiniteSet(BuildPostings(e, rules))
         /\ \A l \in BuildPostings(e, rules) :
              /\ l.event = e.id /\ l.txn = e.txn /\ l.currency = e.currency
              /\ l.processor = e.processor /\ l.signed \in Int
<1> DEFINE D == DOMAIN rules.rules[e.type]
           f == [i \in D |-> LineAt(e, rules, i)]
<1>1. BuildPostings(e, rules) = {LineAt(e, rules, i) : i \in D}
  BY DEF BuildPostings, LineAt
<1>2. IsFiniteSet(D) /\ \A i \in D : rules.rules[e.type][i].multiplier \in Int
  BY LoadedRule DEF ValidEvent
<1>3. {LineAt(e, rules, i) : i \in D} = {f[i] : i \in D}
  OBVIOUS
<1>4. IsFiniteSet({f[i] : i \in D})
  <2> HIDE DEF f, D
  <2> QED
    BY <1>2, FiniteImage
<1>5. e.amount \in Int
  BY DEF ValidEvent
<1>6. ASSUME NEW l \in BuildPostings(e, rules)
      PROVE  /\ l.event = e.id /\ l.txn = e.txn /\ l.currency = e.currency
             /\ l.processor = e.processor /\ l.signed \in Int
  <2>1. PICK i \in D : l = LineAt(e, rules, i)
    BY <1>1
  <2>2. e.amount * rules.rules[e.type][i].multiplier \in Int
    BY <1>2, <1>5
  <2> QED
    BY <2>1, <2>2 DEF LineAt
<1>7. IsFiniteSet(BuildPostings(e, rules))
  BY <1>1, <1>3, <1>4
<1> QED
  BY <1>1, <1>6, <1>7

\* Some lines of an event add up to its amount times their multipliers.
LEMMA SumOfLines ==
  ASSUME NEW e, ValidEvent(e), NEW rules, LoadsRules(rules),
         NEW D \in SUBSET DOMAIN rules.rules[e.type]
  PROVE  Balance({LineAt(e, rules, i) : i \in D})
           = e.amount * SumFunction([i \in D |-> rules.rules[e.type][i].multiplier])
<1> DEFINE T == {LineAt(e, rules, i) : i \in D}
           m == [i \in D |-> LineAt(e, rules, i)]
           f == [l \in T |-> l.signed]
           h == [i \in D |-> rules.rules[e.type][i].multiplier]
           g == [i \in D |-> e.amount * h[i]]
<1>1. IsFiniteSet(D) /\ IntOn(h, D)
  BY LoadedRule, FS_Subset DEF ValidEvent, IntOn
<1>2. e.amount \in Int
  BY DEF ValidEvent
<1>3. m \in [D -> T] /\ \A z \in T : \E i \in D : m[i] = z
  OBVIOUS
<1>4. \A i, j \in D : m[i] = m[j] => i = j
  <2> TAKE i, j \in D
  <2>1. m[i].position = i /\ m[j].position = j
    BY DEF LineAt
  <2> QED
    BY <2>1
<1>5. \A i \in D : LineAt(e, rules, i).signed = g[i]
  BY DEF LineAt
<1>6. \A i \in D : g[i] = f[m[i]]
  BY <1>5
<1>7. \A i \in D : g[i] \in Int
  <2> TAKE i \in D
  <2>1. h[i] \in Int
    BY <1>1 DEF IntOn
  <2> HIDE DEF h
  <2> QED
    BY <2>1, <1>2
<1>9. \A i \in D : g[i] = e.amount * h[i]
  OBVIOUS
<1>10. DOMAIN f = T /\ DOMAIN h = D
  OBVIOUS
<1>11. Balance(T) = SumFunction(f)
  BY DEF Balance
<1> HIDE DEF T, m, f, g, h
<1>8. IntOn(f, T)
  BY <1>3, <1>6, <1>7 DEF IntOn
<1>12. SumFunctionOnSet(g, D) = SumFunctionOnSet(f, T)
  BY <1>1, <1>3, <1>4, <1>6, <1>8, SumMap
<1>13. SumFunctionOnSet(g, D) = e.amount * SumFunctionOnSet(h, D)
  BY <1>1, <1>2, <1>9, SumScale
<1>14. Balance(T) = e.amount * SumFunction(h)
  BY <1>10, <1>11, <1>12, <1>13 DEF SumFunction
<1> QED
  BY <1>14 DEF T, h

\* The lines of an event cancel.
LEMMA EventBalances ==
  ASSUME NEW e, ValidEvent(e), NEW rules, LoadsRules(rules)
  PROVE  Balance(BuildPostings(e, rules)) = 0
<1> DEFINE D == DOMAIN rules.rules[e.type]
           s == SumFunction([i \in D |-> rules.rules[e.type][i].multiplier])
<1>1. Balance({LineAt(e, rules, i) : i \in D}) = e.amount * s
  BY SumOfLines
<1>2. s = 0 /\ e.amount \in Int
  BY LoadedRule DEF ValidEvent
<1> HIDE DEF s
<1>3. Balance({LineAt(e, rules, i) : i \in D}) = 0
  BY <1>1, <1>2
<1> QED
  BY <1>3, LinesOfEvent

\* An event moves the receivable by what it adds to the expected settlement.
LEMMA EventMovesReceivable ==
  ASSUME NEW e, ValidEvent(e), NEW rules, LoadsRules(rules), PostsReceivable(rules)
  PROVE  /\ Balance(ReceivableLines(BuildPostings(e, rules))) = SettlementEffect(e)
         /\ SettlementEffect(e) \in Int
<1> DEFINE R == rules.rules[e.type]
           D == {i \in DOMAIN R : R[i].account = "processor_receivable"}
           s == SumFunction([i \in D |-> R[i].multiplier])
<1>1. ReceivableLines(BuildPostings(e, rules)) = {LineAt(e, rules, i) : i \in D}
  <2>1. \A i \in DOMAIN R : LineAt(e, rules, i).account = R[i].account
    BY DEF LineAt
  <2> QED
    BY <2>1, LinesOfEvent DEF ReceivableLines
<1>2. Balance({LineAt(e, rules, i) : i \in D}) = e.amount * s
  BY SumOfLines
<1>3. s = IF e.type = "capture" THEN 1 ELSE IF e.type \in REVERSALS THEN -1 ELSE 0
  BY DEF PostsReceivable, ValidEvent
<1>4. e.amount \in Int
  BY DEF ValidEvent
<1> HIDE DEF s
<1>5. e.amount * s = SettlementEffect(e) /\ SettlementEffect(e) \in Int
  BY <1>3, <1>4 DEF SettlementEffect
<1> QED
  BY <1>1, <1>2, <1>5
-----------------------------------------------------------------------------
(* The lines of a history                                                  *)

LinesOf(events, rules) == UNION {BuildPostings(e, rules) : e \in events}

UniqueIds(events) == \A e, f \in events : e.id = f.id => e = f

\* The history of a run: finitely many sound events, one for each id.
History(events) == IsFiniteSet(events) /\ UniqueIds(events) /\ \A e \in events : ValidEvent(e)

\* Part of a history is a history.
LEMMA PartOfHistory ==
  ASSUME NEW events, History(events), NEW part, part \subseteq events
  PROVE  History(part)
BY FS_Subset DEF History, UniqueIds

\* Each line is one of an event of the history, and there are finitely many.
LEMMA LinesOfHistory ==
  ASSUME NEW events, History(events), NEW rules, LoadsRules(rules)
  PROVE  /\ IsFiniteSet(LinesOf(events, rules))
         /\ \A l \in LinesOf(events, rules) : l.signed \in Int
         /\ \A l \in LinesOf(events, rules), e \in events :
              l.event = e.id <=> l \in BuildPostings(e, rules)
<1> DEFINE f == [e \in events |-> BuildPostings(e, rules)]
<1>1. \A e \in events : ValidEvent(e)
  BY DEF History
<1>2. ASSUME NEW l \in LinesOf(events, rules)
      PROVE  /\ l.signed \in Int
             /\ \A e \in events : l.event = e.id <=> l \in BuildPostings(e, rules)
  <2>1. PICK d \in events : l \in BuildPostings(d, rules)
    BY DEF LinesOf
  <2>2. l.event = d.id /\ l.signed \in Int
    BY <1>1, <2>1, LinesOfEvent
  <2>3. ASSUME NEW e \in events
        PROVE  l.event = e.id <=> l \in BuildPostings(e, rules)
    <3>1. l \in BuildPostings(e, rules) => l.event = e.id
      BY <1>1, LinesOfEvent
    <3>2. l.event = e.id => e = d
      BY <2>2 DEF History, UniqueIds
    <3> QED
      BY <2>1, <3>1, <3>2
  <2> QED
    BY <2>2, <2>3
<1>3. \A e \in events : IsFiniteSet(BuildPostings(e, rules))
  BY <1>1, LinesOfEvent
<1>4. LinesOf(events, rules) = UNION {f[e] : e \in events} /\ \A e \in events : IsFiniteSet(f[e])
  BY <1>3 DEF LinesOf
<1> HIDE DEF f
<1>5. IsFiniteSet({f[e] : e \in events})
  BY FiniteImage DEF History
<1>6. IsFiniteSet(LinesOf(events, rules))
  BY <1>4, <1>5, FS_UNION
<1> QED
  BY <1>2, <1>6

\* Every (event, currency) group of the lines cancels.
LEMMA HistoryBalances ==
  ASSUME NEW events, History(events), NEW rules, LoadsRules(rules)
  PROVE  Balanced(LinesOf(events, rules))
<1> SUFFICES ASSUME NEW l \in LinesOf(events, rules)
             PROVE  Balance({m \in LinesOf(events, rules) :
                               m.event = l.event /\ m.currency = l.currency}) = 0
  BY DEF Balanced
<1>1. PICK e \in events : l \in BuildPostings(e, rules)
  BY DEF LinesOf
<1>2. ValidEvent(e)
  BY DEF History
<1>3. \A m \in BuildPostings(e, rules) : m.event = e.id /\ m.currency = e.currency
  BY <1>2, LinesOfEvent
<1>4. BuildPostings(e, rules) \subseteq LinesOf(events, rules)
  BY DEF LinesOf
<1>5. {m \in LinesOf(events, rules) : m.event = l.event /\ m.currency = l.currency}
        = BuildPostings(e, rules)
  BY <1>1, <1>3, <1>4, LinesOfHistory
<1> QED
  BY <1>2, <1>5, EventBalances

\* Lines whose groups cancel cancel as a whole.
LEMMA BalancedAsAWhole ==
  ASSUME NEW lines, IsFiniteSet(lines), \A l \in lines : l.signed \in Int, Balanced(lines)
  PROVE  Balance(lines) = 0
<1> DEFINE f == [l \in lines |-> l.signed]
           key == [l \in lines |-> <<l.event, l.currency>>]
           S == {key[l] : l \in lines}
           Group(k) == {l \in lines : key[l] = k}
           g == [k \in S |-> SumFunctionOnSet(f, Group(k))]
<1>1. IntOn(f, lines)
  BY DEF IntOn
<1>2. \A l \in lines : key[l] \in S
  OBVIOUS
<1>3. IsFiniteSet(S)
  <2> HIDE DEF key
  <2> QED
    BY FiniteImage
<1>4. ASSUME NEW k \in S PROVE g[k] = 0
  <2>1. PICK l \in lines : k = key[l]
    OBVIOUS
  <2>2. Group(k) = {m \in lines : m.event = l.event /\ m.currency = l.currency}
    BY <2>1
  <2>3. Balance(Group(k)) = 0
    BY <2>2 DEF Balanced
  <2> DEFINE h == [m \in Group(k) |-> m.signed]
  <2>4. Balance(Group(k)) = SumFunctionOnSet(h, Group(k))
    BY DEF Balance, SumFunction
  <2>5. \A m \in Group(k) : h[m] = f[m]
    OBVIOUS
  <2>6. IsFiniteSet(Group(k))
    BY FS_Subset
  <2>7. g[k] = SumFunctionOnSet(f, Group(k))
    OBVIOUS
  <2> HIDE DEF h, f, g, Group
  <2>8. SumFunctionOnSet(h, Group(k)) = SumFunctionOnSet(f, Group(k))
    BY <2>5, <2>6, SumAgree
  <2> QED
    BY <2>3, <2>4, <2>7, <2>8
<1>5. Balance(lines) = SumFunctionOnSet(f, lines)
  BY DEF Balance, SumFunction
<1>6. g = [k \in S |-> SumFunctionOnSet(f, {l \in lines : key[l] = k})]
  OBVIOUS
<1> HIDE DEF f, key, S, g
<1>7. SumFunctionOnSet(f, lines)
        = SumFunctionOnSet([k \in S |-> SumFunctionOnSet(f, {l \in lines : key[l] = k})], S)
  BY <1>1, <1>2, <1>3, SumParts
<1>8. SumFunctionOnSet(g, S) = 0
  BY <1>3, <1>4, SumZero
<1> QED
  BY <1>5, <1>6, <1>7, <1>8

\* The receivable of a history is the sum of its effects on the settlement.
LEMMA HistoryMovesReceivable ==
  ASSUME NEW events, History(events), NEW rules, LoadsRules(rules), PostsReceivable(rules)
  PROVE  Balance(ReceivableLines(LinesOf(events, rules)))
           = SumFunctionOnSet([e \in events |-> SettlementEffect(e)], events)
<1> DEFINE R == ReceivableLines(LinesOf(events, rules))
           f == [l \in R |-> l.signed]
           key == [l \in R |-> CHOOSE e \in events : e.id = l.event]
           Group(e) == {l \in R : key[l] = e}
           g == [e \in events |-> SumFunctionOnSet(f, Group(e))]
           h == [e \in events |-> SettlementEffect(e)]
<1>1. IsFiniteSet(R) /\ R \subseteq LinesOf(events, rules)
  BY LinesOfHistory, FS_Subset DEF ReceivableLines
<1>2. IntOn(f, R)
  BY <1>1, LinesOfHistory DEF IntOn
<1>3. \A l \in R : key[l] \in events /\ key[l].id = l.event
  <2> TAKE l \in R
  <2>1. PICK e \in events : l \in BuildPostings(e, rules)
    BY <1>1 DEF LinesOf
  <2>2. e.id = l.event
    BY <1>1, <2>1, LinesOfHistory
  <2> QED
    BY <2>2
<1>4. ASSUME NEW e \in events PROVE g[e] = h[e]
  <2>1. ValidEvent(e)
    BY DEF History
  <2>2. \A l \in R : key[l] = e <=> l.event = e.id
    BY <1>3 DEF History, UniqueIds
  <2>3. \A l \in R : l.event = e.id <=> l \in BuildPostings(e, rules)
    BY <1>1, LinesOfHistory
  <2>4. BuildPostings(e, rules) \subseteq LinesOf(events, rules)
    BY DEF LinesOf
  <2>5. Group(e) = ReceivableLines(BuildPostings(e, rules))
    <3> HIDE DEF key
    <3> QED
      BY <2>2, <2>3, <2>4 DEF ReceivableLines
  <2>6. Balance(Group(e)) = h[e]
    BY <2>1, <2>5, EventMovesReceivable
  <2> DEFINE d == [l \in Group(e) |-> l.signed]
  <2>7. Balance(Group(e)) = SumFunctionOnSet(d, Group(e))
    BY DEF Balance, SumFunction
  <2>8. \A l \in Group(e) : d[l] = f[l]
    OBVIOUS
  <2>9. IsFiniteSet(Group(e))
    BY <1>1, FS_Subset
  <2>10. g[e] = SumFunctionOnSet(f, Group(e))
    OBVIOUS
  <2> HIDE DEF d, f, g, h, Group
  <2>11. SumFunctionOnSet(d, Group(e)) = SumFunctionOnSet(f, Group(e))
    BY <2>8, <2>9, SumAgree
  <2> QED
    BY <2>6, <2>7, <2>10, <2>11
<1>5. Balance(R) = SumFunctionOnSet(f, R)
  BY DEF Balance, SumFunction
<1>6. g = [e \in events |-> SumFunctionOnSet(f, {l \in R : key[l] = e})] /\ IsFiniteSet(events)
  BY DEF History
<1>7. g = h
  BY <1>4
<1> HIDE DEF R, f, key, g, h
<1>8. SumFunctionOnSet(f, R)
        = SumFunctionOnSet([e \in events |-> SumFunctionOnSet(f, {l \in R : key[l] = e})], events)
  BY <1>1, <1>2, <1>3, <1>6, SumParts
<1>9. Balance(R) = SumFunctionOnSet(h, events)
  BY <1>5, <1>6, <1>7, <1>8
<1> QED
  BY <1>9 DEF R, h
-----------------------------------------------------------------------------
(* Totals                                                                  *)

\* Amounts are positive, so a total is zero only if there is nothing to add up.
LEMMA TotalPositive ==
  ASSUME NEW E, IsFiniteSet(E), \A e \in E : ValidEvent(e)
  PROVE  /\ Total(E) \in Nat
         /\ Total(E) = 0 <=> E = {}
<1> DEFINE f == [e \in E |-> e.amount]
<1>1. \A e \in E : f[e] \in Nat /\ f[e] # 0
  BY DEF ValidEvent
<1>2. Total(E) = SumFunctionOnSet(f, E)
  BY DEF Total, SumFunction
<1> HIDE DEF f
<1> QED
  BY <1>1, <1>2, SumNat

\* A total over a set that contains the one to add up.
LEMMA TotalWithin ==
  ASSUME NEW E, IsFiniteSet(E), NEW F, E \subseteq F
  PROVE  Total(E) = SumFunctionOnSet([e \in F |-> e.amount], E)
<1> DEFINE f == [e \in E |-> e.amount]
           g == [e \in F |-> e.amount]
<1>1. \A e \in E : f[e] = g[e]
  OBVIOUS
<1>2. Total(E) = SumFunctionOnSet(f, E)
  BY DEF Total, SumFunction
<1> HIDE DEF f, g
<1>3. Total(E) = SumFunctionOnSet(g, E)
  BY <1>1, <1>2, SumAgree
<1> QED
  BY <1>3 DEF g

\* The total of one event is its amount.
LEMMA TotalOfOne ==
  ASSUME NEW a, ValidEvent(a)
  PROVE  Total({a}) = a.amount
<1> DEFINE f == [e \in {a} |-> e.amount]
<1>1. Total({a}) = SumFunctionOnSet(f, {a})
  BY DEF Total, SumFunction
<1>2. f[a] = a.amount /\ a.amount \in Int /\ IntOn(f, {a})
  BY DEF ValidEvent, IntOn
<1> HIDE DEF f
<1>3. SumFunctionOnSet(f, {} \cup {a}) = f[a] + SumFunctionOnSet(f, {})
  BY <1>2, SumAdd, FS_EmptySet
<1> QED
  BY <1>1, <1>2, <1>3, SumEmpty

\* The total of two disjoint sets is the sum of their totals.
LEMMA TotalOfTwo ==
  ASSUME NEW E, NEW F, IsFiniteSet(E), IsFiniteSet(F), E \cap F = {},
         \A e \in E \cup F : ValidEvent(e)
  PROVE  Total(E \cup F) = Total(E) + Total(F)
<1> DEFINE f == [e \in E \cup F |-> e.amount]
<1>1. IntOn(f, E \cup F)
  BY DEF ValidEvent, IntOn
<1>2. IsFiniteSet(E \cup F)
  BY FS_Union
<1>3. /\ Total(E) = SumFunctionOnSet(f, E)
      /\ Total(F) = SumFunctionOnSet(f, F)
      /\ Total(E \cup F) = SumFunctionOnSet(f, E \cup F)
  BY <1>2, TotalWithin
<1> HIDE DEF f
<1> QED
  BY <1>1, <1>3, SumUnion

-----------------------------------------------------------------------------
(* The two implementations of the payment rules                            *)

\* The accepted events of one payment.
Payment(E) == IsFiniteSet(E) /\ E # {} /\ \A e \in E : ValidEvent(e)

\* The events of some types are a finite part of the payment.
LEMMA PaymentPart ==
  ASSUME NEW E, Payment(E), NEW types
  PROVE  /\ IsFiniteSet(OfType(E, types)) /\ OfType(E, types) \subseteq E
         /\ \A e \in OfType(E, types) : ValidEvent(e) /\ e.type \in types
BY FS_Subset DEF Payment, OfType

\* A set of values that the events of a payment have: it is not empty, and has
\* one member for each event exactly when no two events share a value.
LEMMA Values ==
  ASSUME NEW E, IsFiniteSet(E), E # {}, NEW f
  PROVE  /\ IsFiniteSet({f[e] : e \in E}) /\ {f[e] : e \in E} # {}
         /\ Cardinality({f[e] : e \in E}) \in Nat \ {0}
         /\ Cardinality({f[e] : e \in E}) = Cardinality(E)
              <=> \A d, e \in E : f[d] = f[e] => d = e
<1>1. IsFiniteSet({f[e] : e \in E}) /\ {f[e] : e \in E} # {}
  BY FiniteImage
<1>2. Cardinality({f[e] : e \in E}) \in Nat /\ Cardinality({f[e] : e \in E}) # 0
  BY <1>1, FS_CardinalityType, FS_EmptySet
<1> QED
  BY <1>1, <1>2, FiniteImage

\* The checks are numbered.
LEMMA FiniteReasons == IsFiniteSet(DOMAIN REASONS) /\ DOMAIN REASONS \subseteq Int
<1>1. PICK n \in Nat : DOMAIN REASONS = 1 .. n
  <2>1. DOMAIN REASONS = 1 .. 13
    BY DEF REASONS
  <2> QED
    BY <2>1
<1> QED
  BY <1>1, FS_Interval

\* What is reversed is what is refunded and what is charged back.
LEMMA ReversalsAddUp ==
  ASSUME NEW E, Payment(E)
  PROVE  Total(OfType(E, REVERSALS)) = Total(OfType(E, {"refund"})) + Total(OfType(E, {"chargeback"}))
<1> DEFINE R == OfType(E, {"refund"})
           C == OfType(E, {"chargeback"})
<1>1. OfType(E, REVERSALS) = R \cup C
  BY DEF OfType, REVERSALS
<1>2. R \cap C = {}
  BY DEF OfType
<1>3. /\ IsFiniteSet(R) /\ IsFiniteSet(C)
      /\ \A e \in R \cup C : ValidEvent(e)
  BY PaymentPart
<1> HIDE DEF R, C
<1> QED
  BY <1>1, <1>2, <1>3, TotalOfTwo DEF R, C

\* The reasons two implementations agree on up to the first that either reports
\* lead to the same verdict.
LEMMA FirstReasonAgrees ==
  ASSUME NEW V \in SUBSET Range(REASONS), NEW W \in SUBSET Range(REASONS),
         \A i \in DOMAIN REASONS :
           (\A j \in DOMAIN REASONS : j < i => REASONS[j] \notin V)
             => (REASONS[i] \in V <=> REASONS[i] \in W)
  PROVE  FirstReason(V) = FirstReason(W)
<1> DEFINE D == DOMAIN REASONS
           P == {i \in D : REASONS[i] \in V}
           Q == {i \in D : REASONS[i] \in W}
<1>1. D = 1 .. 13
  BY DEF REASONS
<1>2. IsFiniteSet(P) /\ P \in SUBSET Int
  BY FiniteReasons, FS_Subset
<1>3. (V = {} <=> P = {}) /\ (W = {} <=> Q = {})
  BY DEF Range
<1>4. FirstReason(V) = (IF P = {} THEN VALID ELSE REASONS[Min(P)])
  BY <1>3 DEF FirstReason, FirstOf
<1>5. FirstReason(W) = (IF Q = {} THEN VALID ELSE REASONS[Min(Q)])
  BY <1>3 DEF FirstReason, FirstOf
<1>6. CASE P = {}
  BY <1>4, <1>5, <1>6
<1>7. CASE P # {}
  <2>1. Min(P) \in P /\ \A i \in P : Min(P) <= i
    BY <1>2, <1>7, Extremes
  <2>2. IsFiniteSet(Q) /\ Q \in SUBSET Int
    BY FiniteReasons, FS_Subset
  <2>3. \A j \in D : j < Min(P) => REASONS[j] \notin V
    BY <1>1, <2>1
  <2>4. Min(P) \in Q
    BY <2>1, <2>3
  <2>5. \A j \in D : j < Min(P) => REASONS[j] \notin W
    BY <1>1, <2>1, <2>3
  <2>6. Min(Q) \in Q /\ \A i \in Q : Min(Q) <= i
    BY <2>2, <2>4, Extremes
  <2>7. Min(P) = Min(Q)
    BY <1>1, <2>1, <2>4, <2>5, <2>6
  <2> QED
    BY <1>4, <1>5, <1>7, <2>4, <2>7
<1> QED
  BY <1>6, <1>7

\* A verdict is "valid" exactly when no check fails.
LEMMA ValidVerdict ==
  ASSUME NEW V \in SUBSET Range(REASONS)
  PROVE  /\ FirstReason(V) = VALID <=> V = {}
         /\ FirstReason(V) \in V \cup {VALID}
<1> DEFINE D == DOMAIN REASONS
           P == {i \in D : REASONS[i] \in V}
<1>1. D = 1 .. 13 /\ \A i \in D : REASONS[i] # VALID
  BY DEF REASONS, VALID
<1>2. IsFiniteSet(P) /\ P \in SUBSET Int
  BY FiniteReasons, FS_Subset
<1>3. V = {} <=> P = {}
  BY DEF Range
<1>4. FirstReason(V) = (IF P = {} THEN VALID ELSE REASONS[Min(P)])
  BY <1>3 DEF FirstReason, FirstOf
<1>5. P # {} => Min(P) \in P
  BY <1>2, Extremes
<1> QED
  BY <1>1, <1>3, <1>4, <1>5
\* Every check but the one on the authorized amount is the same check, written
\* once over rows and once over window aggregates.
LEMMA ChecksAgree ==
  ASSUME NEW E, Payment(E), NEW reason \in Range(REASONS),
         reason # "capture_exceeds_authorization"
  PROVE  StoreFails(E, reason) <=> SparkFires(E, reason)
<1> DEFINE auths     == OfType(E, {"authorization"})
           captures  == OfType(E, {"capture"})
           refunds   == OfType(E, {"refund"})
           charges   == OfType(E, {"chargeback"})
           reversals == OfType(E, REVERSALS)
           SameVersion(e) == {f \in E : f.version = e.version}
<1>1. CASE reason = "transaction_version_conflict"
  <2> DEFINE f == [e \in E |-> e.version]
  <2>1. Versions(E) = {f[e] : e \in E} /\ \A e \in E : f[e] = e.version
    BY DEF Versions
  <2> HIDE DEF f
  <2>2. Cardinality(Versions(E)) = Cardinality(E) <=> \A d, e \in E : f[d] = f[e] => d = e
    BY <2>1, FiniteImage DEF Payment
  <2>3. ASSUME NEW e \in E
        PROVE  Cardinality(SameVersion(e)) > 1 <=> \E d \in E : d # e /\ d.version = e.version
    <3>1. IsFiniteSet(SameVersion(e)) /\ e \in SameVersion(e)
      BY FS_Subset DEF Payment
    <3>4. SameVersion(e) \ {e} # {} <=> \E d \in E : d # e /\ d.version = e.version
      OBVIOUS
    <3> HIDE DEF SameVersion
    <3>2. /\ IsFiniteSet(SameVersion(e) \ {e})
          /\ Cardinality(SameVersion(e)) = Cardinality(SameVersion(e) \ {e}) + 1
      <4> DEFINE S == SameVersion(e)
      <4> HIDE DEF S
      <4>1. IsFiniteSet(S) /\ e \in S
        BY <3>1 DEF S
      <4>2. IsFiniteSet(S \ {e}) /\ Cardinality(S \ {e}) = Cardinality(S) - 1
        BY <4>1, FS_RemoveElement
      <4>3. Cardinality(S) \in Nat
        BY <4>1, FS_CardinalityType
      <4>4. Cardinality(S) = Cardinality(S \ {e}) + 1
        BY <4>2, <4>3
      <4> QED
        BY <4>2, <4>4 DEF S
    <3>3. /\ Cardinality(SameVersion(e) \ {e}) \in Nat
          /\ Cardinality(SameVersion(e) \ {e}) = 0 <=> SameVersion(e) \ {e} = {}
      BY <3>2, FS_CardinalityType, FS_EmptySet
    <3> QED
      BY <3>2, <3>3, <3>4
  <2>4. (\E e \in E : Cardinality(SameVersion(e)) > 1)
          <=> \E d, e \in E : f[d] = f[e] /\ d # e
    <3> HIDE DEF SameVersion
    <3> QED
      BY <2>1, <2>3
  <2>5. StoreFails(E, reason) <=> Cardinality(Versions(E)) # Cardinality(E)
    BY <1>1 DEF StoreFails
  <2>6. SparkFires(E, reason) <=> \E e \in E : Cardinality(SameVersion(e)) > 1
    BY <1>1 DEF SparkFires
  <2> QED
    BY <2>2, <2>4, <2>5, <2>6
<1>2. CASE reason = "transaction_version_gap"
  BY <1>2 DEF StoreFails, SparkFires
<1>3. CASE reason = "currency_mutation"
  <2> DEFINE f == [e \in E |-> e.currency]
             C == {e.currency : e \in E}
  <2>1. C = {f[e] : e \in E}
    OBVIOUS
  <2> HIDE DEF f, C
  <2>2. Cardinality(C) \in Nat \ {0}
    BY <2>1, Values DEF Payment
  <2> USE DEF C
  <2> QED
    BY <1>3, <2>2 DEF StoreFails, SparkFires
<1>4. CASE reason = "processor_mutation"
  <2> DEFINE f == [e \in E |-> e.processor]
             C == {e.processor : e \in E}
  <2>1. C = {f[e] : e \in E}
    OBVIOUS
  <2> HIDE DEF f, C
  <2>2. Cardinality(C) \in Nat \ {0}
    BY <2>1, Values DEF Payment
  <2> USE DEF C
  <2> QED
    BY <1>4, <2>2 DEF StoreFails, SparkFires
<1>5. CASE reason = "merchant_mutation"
  <2> DEFINE f == [e \in E |-> e.merchant]
             C == {e.merchant : e \in E}
  <2>1. C = {f[e] : e \in E}
    OBVIOUS
  <2> HIDE DEF f, C
  <2>2. Cardinality(C) \in Nat \ {0}
    BY <2>1, Values DEF Payment
  <2> USE DEF C
  <2> QED
    BY <1>5, <2>2 DEF StoreFails, SparkFires
<1>6. CASE reason = "duplicate_authorization"
  BY <1>6 DEF StoreFails, SparkFires
<1>7. CASE reason = "capture_without_authorization"
  <2>1. Total(captures) \in Nat /\ (Total(captures) = 0 <=> captures = {})
    BY PaymentPart, TotalPositive
  <2> QED
    BY <1>7, <2>1 DEF StoreFails, SparkFires
<1>8. CASE reason = "missing_authorization"
  BY <1>8 DEF StoreFails, SparkFires
<1>9. CASE reason = "capture_before_authorization"
  BY <1>9 DEF StoreFails, SparkFires
<1>10. CASE reason = "reversal_without_capture"
  BY <1>10 DEF StoreFails, SparkFires
<1>11. CASE reason = "reversal_before_capture"
  BY <1>11 DEF StoreFails, SparkFires
<1>12. CASE reason = "refund_or_chargeback_exceeds_capture"
  <2>1. Total(reversals) = Total(refunds) + Total(charges)
    BY ReversalsAddUp
  <2>2. StoreFails(E, reason) <=> Total(reversals) > Total(captures)
    BY <1>12 DEF StoreFails
  <2>3. SparkFires(E, reason) <=> Total(refunds) + Total(charges) > Total(captures)
    BY <1>12 DEF SparkFires
  <2> QED
    BY <2>1, <2>2, <2>3
<1>13. reason \in {"transaction_version_conflict", "transaction_version_gap",
                   "currency_mutation", "processor_mutation", "merchant_mutation",
                   "duplicate_authorization", "capture_without_authorization",
                   "missing_authorization", "capture_before_authorization",
                   "reversal_without_capture", "reversal_before_capture",
                   "refund_or_chargeback_exceeds_capture"}
  <2>1. PICK i \in DOMAIN REASONS : reason = REASONS[i]
    BY DEF Range
  <2>2. i \in 1 .. 13
    BY DEF REASONS
  <2> QED
    BY <2>1, <2>2 DEF REASONS
<1> QED
  BY <1>1, <1>2, <1>3, <1>4, <1>5, <1>6, <1>7, <1>8, <1>9, <1>10, <1>11, <1>12, <1>13
\* One authorization is its own sum and its own maximum.
LEMMA OneAuthorization ==
  ASSUME NEW E, Payment(E), OfType(E, {"authorization"}) # {},
         ~(Cardinality(OfType(E, {"authorization"})) > 1)
  PROVE  \E a \in E : /\ OfType(E, {"authorization"}) = {a} /\ a.type = "authorization"
                     /\ Total(OfType(E, {"authorization"})) = a.amount
                     /\ SparkAuthorized(E) = a.amount
                     /\ a.amount \in Nat \ {0}
<1> DEFINE A == OfType(E, {"authorization"})
<1>1. IsFiniteSet(A) /\ A \subseteq E /\ A # {} /\ Cardinality(A) \in Nat /\ ~(Cardinality(A) > 1)
  BY PaymentPart, FS_CardinalityType
<1>2. PICK a \in E : a \in A
  BY <1>1
<1>3. ValidEvent(a) /\ a.type = "authorization"
  BY <1>2, PaymentPart
<1>4. A = {a}
  <2> HIDE DEF A
  <2>1. IsFiniteSet(A \ {a}) /\ Cardinality(A \ {a}) = Cardinality(A) - 1
    BY <1>1, <1>2, FS_RemoveElement
  <2>2. Cardinality(A \ {a}) \in Nat
    BY <2>1, FS_CardinalityType
  <2>3. Cardinality(A \ {a}) = 0
    BY <1>1, <2>1, <2>2
  <2>4. A \ {a} = {}
    BY <2>1, <2>3, FS_EmptySet
  <2> QED
    BY <1>2, <2>4
<1>5. Total(A) = a.amount
  BY <1>3, <1>4, TotalOfOne
<1>6. a.amount \in Nat \ {0}
  BY <1>3 DEF ValidEvent
<1>7. SparkAuthorized(E) = a.amount
  <2>1. {e.amount : e \in A} = {a.amount}
    BY <1>4
  <2> DEFINE S == {a.amount}
  <2>2. Max(S) \in S
    <3>1. S \in SUBSET Int /\ S # {}
      BY <1>6
    <3>2. IsFiniteSet(S)
      BY FS_Singleton, Zenon
    <3> HIDE DEF S
    <3> QED
      BY <3>1, <3>2, Extremes
  <2> QED
    BY <2>1, <2>2 DEF SparkAuthorized
<1> QED
  BY <1>3, <1>4, <1>5, <1>6, <1>7

\* Both implementations give every payment the same verdict.
LEMMA VerdictsAgree ==
  ASSUME NEW E, Payment(E)
  PROVE  SparkVerdict(E) = StoreVerdict(E)
<1> DEFINE V == StoreViolations(E)
           W == SparkViolations(E)
<1>1. V \in SUBSET Range(REASONS) /\ W \in SUBSET Range(REASONS)
  BY DEF StoreViolations, SparkViolations
<1>2. \A i \in DOMAIN REASONS :
        /\ REASONS[i] \in Range(REASONS)
        /\ REASONS[i] \in V <=> StoreFails(E, REASONS[i])
        /\ REASONS[i] \in W <=> SparkFires(E, REASONS[i])
  BY DEF StoreViolations, SparkViolations, Range
<1>3. ASSUME NEW i \in DOMAIN REASONS,
             \A j \in DOMAIN REASONS : j < i => REASONS[j] \notin V
      PROVE  REASONS[i] \in V <=> REASONS[i] \in W
  <2>1. CASE REASONS[i] # "capture_exceeds_authorization"
    BY <1>2, <2>1, ChecksAgree
  <2>2. CASE REASONS[i] = "capture_exceeds_authorization"
    <3>1. i = 12 /\ 6 \in DOMAIN REASONS /\ 8 \in DOMAIN REASONS
          /\ REASONS[6] = "duplicate_authorization" /\ REASONS[8] = "missing_authorization"
      BY <2>2 DEF REASONS
    <3>2. ~StoreFails(E, "duplicate_authorization") /\ ~StoreFails(E, "missing_authorization")
      BY <1>2, <1>3, <3>1
    <3>3. ~(Cardinality(OfType(E, {"authorization"})) > 1)
      BY <3>2 DEF StoreFails
    <3>4. OfType(E, {"authorization"}) # {}
      BY <3>2 DEF StoreFails
    <3>5. Total(OfType(E, {"authorization"})) = SparkAuthorized(E)
      BY <3>3, <3>4, OneAuthorization
    <3>6. StoreFails(E, REASONS[i]) <=> SparkFires(E, REASONS[i])
      BY <2>2, <3>4, <3>5 DEF StoreFails, SparkFires
    <3> QED
      BY <1>2, <3>6
  <2> QED
    BY <2>1, <2>2
<1> HIDE DEF V, W
<1>4. FirstReason(V) = FirstReason(W)
  BY <1>1, <1>3, FirstReasonAgrees
<1> QED
  BY <1>4 DEF V, W, StoreVerdict, SparkVerdict

\* What a valid payment looks like: versions that count its events, one
\* authorization, captures within it and reversals within the captures.
LEMMA ValidPayment ==
  ASSUME NEW E, Payment(E), StoreVerdict(E) = VALID
  PROVE  /\ \A d, e \in E : d.version = e.version => d = e
         /\ Max(Versions(E)) = Cardinality(E)
         /\ \E a \in E : OfType(E, {"authorization"}) = {a}
         /\ SparkAuthorized(E) = Total(OfType(E, {"authorization"}))
         /\ Total(OfType(E, {"authorization"})) \in Nat \ {0}
         /\ Total(OfType(E, {"capture"})) <= Total(OfType(E, {"authorization"}))
         /\ Total(OfType(E, {"refund"})) + Total(OfType(E, {"chargeback"}))
              <= Total(OfType(E, {"capture"}))
<1>1. \A reason \in Range(REASONS) : ~StoreFails(E, reason)
  <2>1. StoreViolations(E) \in SUBSET Range(REASONS)
    BY DEF StoreViolations
  <2>2. StoreViolations(E) = {}
    BY <2>1, ValidVerdict DEF StoreVerdict
  <2> QED
    BY <2>2 DEF StoreViolations
<1>2. /\ ~StoreFails(E, "transaction_version_conflict")
      /\ ~StoreFails(E, "transaction_version_gap")
      /\ ~StoreFails(E, "duplicate_authorization")
      /\ ~StoreFails(E, "missing_authorization")
      /\ ~StoreFails(E, "capture_exceeds_authorization")
      /\ ~StoreFails(E, "refund_or_chargeback_exceeds_capture")
  <2>1. \A i \in 1 .. 13 : REASONS[i] \in Range(REASONS)
    BY DEF REASONS, Range
  <2> QED
    BY <1>1, <2>1 DEF REASONS
<1>3. Cardinality(Versions(E)) = Cardinality(E)
  BY <1>2 DEF StoreFails
<1>4. Max(Versions(E)) = Cardinality(E)
  BY <1>2 DEF StoreFails
<1>5. /\ ~(Cardinality(OfType(E, {"authorization"})) > 1)
      /\ OfType(E, {"authorization"}) # {}
  BY <1>2 DEF StoreFails
<1>6. ~(Total(OfType(E, {"capture"})) > Total(OfType(E, {"authorization"})))
  BY <1>2 DEF StoreFails
<1>7. ~(Total(OfType(E, REVERSALS)) > Total(OfType(E, {"capture"})))
  BY <1>2 DEF StoreFails
<1>8. /\ Total(OfType(E, {"capture"})) \in Nat
      /\ Total(OfType(E, {"refund"})) \in Nat
      /\ Total(OfType(E, {"chargeback"})) \in Nat
  BY PaymentPart, TotalPositive
<1>9. \A d, e \in E : d.version = e.version => d = e
  <2> DEFINE f == [e \in E |-> e.version]
  <2>1. Versions(E) = {f[e] : e \in E} /\ \A e \in E : f[e] = e.version
    BY DEF Versions
  <2> HIDE DEF f
  <2> QED
    BY <1>3, <2>1, FiniteImage DEF Payment
<1>10. \E a \in E : /\ OfType(E, {"authorization"}) = {a}
                   /\ Total(OfType(E, {"authorization"})) = a.amount
                   /\ SparkAuthorized(E) = a.amount
                   /\ a.amount \in Nat \ {0}
  BY <1>5, OneAuthorization
<1>11. Total(OfType(E, REVERSALS)) = Total(OfType(E, {"refund"})) + Total(OfType(E, {"chargeback"}))
  BY ReversalsAddUp
<1> QED
  BY <1>4, <1>6, <1>7, <1>8, <1>9, <1>10, <1>11

\* Both implementations publish the same state of a valid payment.
LEMMA StatesAgree ==
  ASSUME NEW E, Payment(E), StoreVerdict(E) = VALID
  PROVE  SparkState(E) = StoreState(E)
<1> DEFINE authorized == Total(OfType(E, {"authorization"}))
           captured   == Total(OfType(E, {"capture"}))
           refunded   == Total(OfType(E, {"refund"}))
           charged    == Total(OfType(E, {"chargeback"}))
<1>1. captured \in Nat /\ refunded \in Nat /\ charged \in Nat
  BY PaymentPart, TotalPositive
<1>2. /\ SparkAuthorized(E) = authorized /\ authorized \in Nat \ {0}
      /\ captured <= authorized /\ refunded + charged <= captured
  BY ValidPayment
<1>3. SparkStatus(authorized, captured, refunded, charged)
        = StoreStatus(authorized, captured, refunded, charged)
  <2> HIDE DEF authorized, captured, refunded, charged
  <2>1. CASE charged > 0
    BY <1>1, <1>2, <2>1 DEF SparkStatus, StoreStatus
  <2>2. CASE charged = 0 /\ refunded > 0
    BY <1>1, <1>2, <2>2 DEF SparkStatus, StoreStatus
  <2>3. CASE charged = 0 /\ refunded = 0 /\ captured > 0
    BY <1>1, <1>2, <2>3 DEF SparkStatus, StoreStatus
  <2>4. CASE charged = 0 /\ refunded = 0 /\ captured = 0
    BY <1>1, <1>2, <2>4 DEF SparkStatus, StoreStatus
  <2> QED
    BY <1>1, <2>1, <2>2, <2>3, <2>4
<1> QED
  BY <1>2, <1>3 DEF SparkState, StoreState

\* The lines written into the distributed job are those of the configured rules.
LEMMA PostingsAgree ==
  ASSUME NEW e, ValidEvent(e)
  PROVE  SparkPostings(e) = BuildPostings(e, ConfiguredRules)
<1>1. e.amount \in Int /\ e.amount * 1 = e.amount /\ e.amount * (-1) = -e.amount
  BY DEF ValidEvent
<1>2. CASE e.type = "authorization"
  BY <1>2 DEF SparkPostings, BuildPostings, ConfiguredRules
<1>3. CASE e.type = "capture"
  BY <1>1, <1>3 DEF SparkPostings, BuildPostings, ConfiguredRules
<1>4. CASE e.type = "refund"
  BY <1>1, <1>4 DEF SparkPostings, BuildPostings, ConfiguredRules
<1>5. CASE e.type = "chargeback"
  BY <1>1, <1>5 DEF SparkPostings, BuildPostings, ConfiguredRules
<1> QED
  BY <1>2, <1>3, <1>4, <1>5 DEF ValidEvent, EVENT_TYPES
\* What a payment contributes to the settlement is what was captured and not
\* given back.
LEMMA EffectOfPayment ==
  ASSUME NEW E, Payment(E)
  PROVE  SumFunctionOnSet([e \in E |-> SettlementEffect(e)], E)
           = Total(OfType(E, {"capture"})) - Total(OfType(E, {"refund"}))
               - Total(OfType(E, {"chargeback"}))
<1> DEFINE A == OfType(E, {"authorization"})
           C == OfType(E, {"capture"})
           R == OfType(E, REVERSALS)
           f == [e \in E |-> SettlementEffect(e)]
           g == [e \in E |-> e.amount]
<1>1. /\ IsFiniteSet(A) /\ IsFiniteSet(C) /\ IsFiniteSet(R)
      /\ A \subseteq E /\ C \subseteq E /\ R \subseteq E
  BY PaymentPart
<1>2. \A e \in E : e.amount \in Int /\ e.type \in EVENT_TYPES
  BY DEF Payment, ValidEvent
<1>3. E = (A \cup C) \cup R /\ A \cap C = {} /\ (A \cup C) \cap R = {}
  BY <1>2 DEF OfType, EVENT_TYPES, REVERSALS
<1>4. \A e \in A : f[e] = 0
  BY <1>1 DEF OfType, SettlementEffect, REVERSALS
<1>5. \A e \in C : f[e] = g[e]
  BY <1>1 DEF OfType, SettlementEffect
<1>6. \A e \in R : f[e] = (-1) * g[e]
  <2>1. \A e \in R : f[e] = -e.amount
    BY <1>1 DEF OfType, SettlementEffect, REVERSALS
  <2> QED
    BY <1>1, <1>2, <2>1
<1>7. IntOn(g, E) /\ IntOn(g, R)
  BY <1>1, <1>2 DEF IntOn
<1>8. Total(C) = SumFunctionOnSet(g, C) /\ Total(R) = SumFunctionOnSet(g, R)
  BY <1>1, TotalWithin
<1>9. IntOn(f, E)
  BY <1>2 DEF IntOn, SettlementEffect
<1> HIDE DEF f, g, A, C, R
<1>10. SumFunctionOnSet(f, A) = 0
  BY <1>1, <1>4, SumZero
<1>11. SumFunctionOnSet(f, C) = Total(C)
  BY <1>1, <1>5, <1>8, SumAgree
<1>12. SumFunctionOnSet(f, R) = (-1) * Total(R)
  BY <1>1, <1>6, <1>7, <1>8, SumScale
<1>13. IsFiniteSet(A \cup C) /\ IntOn(f, A \cup C) /\ IntOn(f, (A \cup C) \cup R)
  BY <1>1, <1>3, <1>9, FS_Union DEF IntOn
<1>14. SumFunctionOnSet(f, A \cup C) = SumFunctionOnSet(f, A) + SumFunctionOnSet(f, C)
  BY <1>1, <1>3, <1>13, SumUnion
<1>15. SumFunctionOnSet(f, E) = SumFunctionOnSet(f, A \cup C) + SumFunctionOnSet(f, R)
  BY <1>1, <1>3, <1>13, SumUnion
<1>16. Total(C) \in Int /\ Total(R) \in Int
  BY <1>1, <1>7, <1>8, SumInt DEF IntOn
<1>17. SumFunctionOnSet(f, E) = Total(C) - Total(R)
  BY <1>10, <1>11, <1>12, <1>14, <1>15, <1>16
<1>18. Total(R) = Total(OfType(E, {"refund"})) + Total(OfType(E, {"chargeback"}))
  BY ReversalsAddUp DEF R
<1>19. Total(OfType(E, {"refund"})) \in Int /\ Total(OfType(E, {"chargeback"})) \in Int
  BY PaymentPart, TotalPositive
<1> QED
  BY <1>16, <1>17, <1>18, <1>19 DEF f, C
\* An event whose rule has no line has no effect on the settlement.
LEMMA NoLinesNoEffect ==
  ASSUME NEW e, ValidEvent(e), NEW rules, LoadsRules(rules), PostsReceivable(rules),
         rules.rules[e.type] = << >>
  PROVE  SettlementEffect(e) = 0
<1>1. BuildPostings(e, rules) = {}
  BY DEF BuildPostings
<1>2. ReceivableLines(BuildPostings(e, rules)) = {}
  BY <1>1 DEF ReceivableLines
<1>3. Balance({}) = 0
  BY SumEmpty DEF Balance, SumFunction
<1> QED
  BY <1>2, <1>3, EventMovesReceivable

\* The rows expected of a settlement, over any part of its keys, add up to the
\* effects of the posted events with these keys.
LEMMA ExpectedAddsUp ==
  ASSUME NEW posted, IsFiniteSet(posted), \A e \in posted : SettlementEffect(e) \in Int,
         NEW part \in SUBSET posted,
         \A d \in part, e \in posted : KeyOf(d) = KeyOf(e) => e \in part
  PROVE  SumFunction([r \in {x \in ExpectedSettlement(posted) :
                               \E e \in part : KeyOf(x) = KeyOf(e)} |-> r.amount])
           = SumFunctionOnSet([e \in part |-> SettlementEffect(e)], part)
<1> DEFINE Row(k) == [date |-> k.date, processor |-> k.processor, currency |-> k.currency,
                      amount |-> ExpectedMinor(posted, k)]
           rows == {x \in ExpectedSettlement(posted) : \E e \in part : KeyOf(x) = KeyOf(e)}
           key == [e \in part |-> KeyOf(e)]
           K == {key[e] : e \in part}
           m == [k \in K |-> Row(k)]
           a == [r \in rows |-> r.amount]
           f == [e \in part |-> SettlementEffect(e)]
           g == [k \in K |-> SumFunctionOnSet(f, {e \in part : key[e] = k})]
<1>1. IsFiniteSet(part) /\ IntOn(f, part) /\ \A e \in part : key[e] \in K
  BY FS_Subset DEF IntOn
<1>2. IsFiniteSet(K)
  <2> HIDE DEF key
  <2> QED
    BY <1>1, FiniteImage
<1>3. \A k \in K : k = KeyOf(k) /\ KeyOf(Row(k)) = k
  BY DEF KeyOf
<1>4. rows = {Row(k) : k \in K}
  <2>1. ASSUME NEW k \in K PROVE Row(k) \in rows
    <3>1. PICK e \in part : k = KeyOf(e)
      OBVIOUS
    <3>2. Row(k) \in ExpectedSettlement(posted)
      BY <3>1 DEF ExpectedSettlement
    <3> QED
      BY <1>3, <3>1, <3>2
  <2>2. ASSUME NEW x \in rows PROVE \E k \in K : x = Row(k)
    <3>1. PICK d \in posted : x = Row(KeyOf(d))
      BY DEF ExpectedSettlement
    <3>2. PICK e \in part : KeyOf(x) = KeyOf(e)
      OBVIOUS
    <3>3. KeyOf(x) = KeyOf(d)
      BY <3>1 DEF KeyOf
    <3>4. KeyOf(d) = key[e] /\ key[e] \in K
      BY <3>2, <3>3
    <3> QED
      BY <3>1, <3>4
  <2> HIDE DEF rows, Row, K
  <2> QED
    BY <2>1, <2>2
<1>5. ASSUME NEW k \in K PROVE g[k] = ExpectedMinor(posted, k)
  <2> DEFINE P == {e \in posted : KeyOf(e) = k}
             h == [e \in P |-> SettlementEffect(e)]
  <2>1. P = {e \in part : key[e] = k}
    <3>1. PICK d \in part : k = KeyOf(d)
      OBVIOUS
    <3> QED
      BY <3>1
  <2>2. ExpectedMinor(posted, k) = SumFunctionOnSet(h, P)
    BY DEF ExpectedMinor, SumFunction
  <2>3. g[k] = SumFunctionOnSet(f, P)
    BY <2>1
  <2>4. P \subseteq part /\ IsFiniteSet(P)
    BY <1>1, <2>1, FS_Subset
  <2>5. \A e \in P : h[e] = f[e]
    BY <2>4
  <2> HIDE DEF P, h, f, g
  <2> QED
    BY <2>2, <2>3, <2>4, <2>5, SumAgree
<1>6. m \in [K -> rows] /\ \A z \in rows : \E k \in K : m[k] = z
  <2> HIDE DEF rows, Row, K
  <2> QED
    BY <1>4
<1>7. \A j, k \in K : m[j] = m[k] => j = k
  <2> HIDE DEF Row, K
  <2> QED
    BY <1>3
<1>8. \A k \in K : m[k] \in rows /\ a[m[k]] = ExpectedMinor(posted, k)
  <2>1. \A k \in K : m[k] \in rows /\ m[k].amount = ExpectedMinor(posted, k)
    BY <1>6
  <2> HIDE DEF rows, K, m
  <2> QED
    BY <2>1
<1>9. IntOn(g, K)
  <2> SUFFICES ASSUME NEW k \in K
               PROVE  SumFunctionOnSet(f, {e \in part : key[e] = k}) \in Int
    BY DEF IntOn
  <2> HIDE DEF f, key, K
  <2>1. IsFiniteSet({e \in part : key[e] = k})
    BY <1>1, FS_Subset
  <2>2. IntOn(f, {e \in part : key[e] = k})
    BY <1>1 DEF IntOn
  <2> QED
    BY <2>1, <2>2, SumInt
<1>10. g = [k \in K |-> SumFunctionOnSet(f, {e \in part : key[e] = k})]
  OBVIOUS
<1>11. SumFunction(a) = SumFunctionOnSet(a, rows)
  BY DEF SumFunction
<1> HIDE DEF rows, key, K, m, a, f, g, Row
<1>12. \A k \in K : g[k] = a[m[k]]
  BY <1>5, <1>8
<1>13. IntOn(a, rows)
  BY <1>6, <1>9, <1>12 DEF IntOn
<1>14. SumFunctionOnSet(g, K) = SumFunctionOnSet(a, rows)
  BY <1>2, <1>6, <1>7, <1>12, <1>13, SumMap
<1>15. SumFunctionOnSet(f, part)
        = SumFunctionOnSet([k \in K |-> SumFunctionOnSet(f, {e \in part : key[e] = k})], K)
  BY <1>1, <1>2, SumParts
<1>16. SumFunction(a) = SumFunctionOnSet(f, part)
  BY <1>10, <1>11, <1>14, <1>15
<1> QED
  BY <1>16 DEF a, f, rows

-----------------------------------------------------------------------------
(* The derived tables                                                      *)

\* The events of the payments the rules of the core hold valid.
Published(accepted) == {e \in accepted : StoreVerdict(EventsOf(accepted, e.txn)) = VALID}

\* The rows of each derived table.
LEMMA BookRows ==
  ASSUME NEW accepted, NEW rules
  PROVE  /\ Book(accepted, rules).posted
              = {e \in Published(accepted) : rules.rules[e.type] # << >>}
         /\ Book(accepted, rules).exception
              = {[event |-> e.id, txn |-> e.txn,
                  reason |-> StoreVerdict(EventsOf(accepted, e.txn))]
                 : e \in accepted \ Published(accepted)}
         /\ Book(accepted, rules).ledger = LinesOf(Published(accepted), rules)
         /\ Book(accepted, rules).state
              = {StoreState(EventsOf(accepted, t)) : t \in {e.txn : e \in Published(accepted)}}
<1> DEFINE verdict == Verdicts(accepted)
<1>1. \A e \in accepted : verdict[e.txn] = StoreVerdict(EventsOf(accepted, e.txn))
  BY DEF Verdicts
<1> HIDE DEF verdict
<1>2. {e \in accepted : verdict[e.txn] = VALID} = Published(accepted)
  BY <1>1 DEF Published
<1>3. Published(accepted) \subseteq accepted
  BY DEF Published
<1>4. {[event |-> e.id, txn |-> e.txn, reason |-> verdict[e.txn]]
        : e \in accepted \ Published(accepted)}
        = {[event |-> e.id, txn |-> e.txn, reason |-> StoreVerdict(EventsOf(accepted, e.txn))]
             : e \in accepted \ Published(accepted)}
  BY <1>1
<1>5. Book(accepted, rules)
        = [posted    |-> {e \in Published(accepted) : rules.rules[e.type] # << >>},
           exception |-> {[event |-> e.id, txn |-> e.txn, reason |-> verdict[e.txn]]
                          : e \in accepted \ Published(accepted)},
           ledger    |-> LinesOf(Published(accepted), rules),
           state     |-> {StoreState(EventsOf(accepted, t))
                          : t \in {e.txn : e \in Published(accepted)}}]
  BY <1>2 DEF Book, LinesOf, verdict
<1> QED
  BY <1>4, <1>5

\* The accepted events of a transaction are a payment, valid or not as a whole.
LEMMA PaymentOf ==
  ASSUME NEW accepted, History(accepted), NEW e \in accepted
  PROVE  /\ Payment(EventsOf(accepted, e.txn)) /\ e \in EventsOf(accepted, e.txn)
         /\ \A d \in EventsOf(accepted, e.txn) :
              d.txn = e.txn /\ (d \in Published(accepted) <=> e \in Published(accepted))
         /\ e \in Published(accepted) <=> StoreVerdict(EventsOf(accepted, e.txn)) = VALID
BY FS_Subset DEF History, Payment, EventsOf, Published

\* A payment has finitely many versions, and one at least.
LEMMA FiniteVersions ==
  ASSUME NEW E, IsFiniteSet(E), E # {}
  PROVE  IsFiniteSet(Versions(E)) /\ Versions(E) # {}
<1> DEFINE f == [e \in E |-> e.version]
<1>1. Versions(E) = {f[e] : e \in E} /\ Versions(E) # {}
  BY DEF Versions
<1> HIDE DEF f
<1> QED
  BY <1>1, FiniteImage

\* The state row of a payment carries the transaction, the last version, the
\* totals, and what the accepted events say of them.
LEMMA StateRow ==
  ASSUME NEW E, Payment(E), NEW t, \A e \in E : e.txn = t
  PROVE  /\ StoreState(E).txn = t
         /\ StoreState(E).version = Max(Versions(E))
         /\ Max(Versions(E)) \in Nat \ {0}
         /\ StoreState(E).authorized = Total(OfType(E, {"authorization"}))
         /\ StoreState(E).captured = Total(OfType(E, {"capture"}))
         /\ StoreState(E).refunded = Total(OfType(E, {"refund"}))
         /\ StoreState(E).chargeback = Total(OfType(E, {"chargeback"}))
<1> DEFINE current == CHOOSE e \in E : e.version = Max(Versions(E))
<1>2. IsFiniteSet(Versions(E)) /\ Versions(E) # {}
  BY FiniteVersions DEF Payment
<1>3. Versions(E) \subseteq Nat \ {0}
  BY DEF Versions, Payment, ValidEvent
<1>4. Max(Versions(E)) \in Versions(E)
  BY <1>2, <1>3, Extremes
<1>5. \E e \in E : e.version = Max(Versions(E))
  BY <1>4 DEF Versions
<1>6. current \in E /\ current.version = Max(Versions(E))
  BY <1>5
<1>7. StoreState(E).txn = current.txn /\ StoreState(E).version = current.version
  BY DEF StoreState
<1> HIDE DEF current
<1> QED
  BY <1>3, <1>4, <1>6, <1>7 DEF StoreState

-----------------------------------------------------------------------------
(* The configured rules                                                    *)

\* A sum over one element, and over two.
LEMMA SumOfOne ==
  ASSUME NEW f, NEW a, f[a] \in Int
  PROVE  SumFunctionOnSet(f, {a}) = f[a]
<1>1. IsFiniteSet({}) /\ SumFunctionOnSet(f, {}) = 0
  BY FS_EmptySet, SumEmpty
<1>2. SumFunctionOnSet(f, {} \cup {a}) = f[a] + SumFunctionOnSet(f, {})
  BY <1>1, SumAdd DEF IntOn
<1>3. {} \cup {a} = {a}
  OBVIOUS
<1> QED
  BY <1>1, <1>2, <1>3

\* A sum over two elements.
LEMMA SumOfTwo ==
  ASSUME NEW f, NEW a, NEW b, a # b, f[a] \in Int, f[b] \in Int
  PROVE  SumFunctionOnSet(f, {a, b}) = f[a] + f[b]
<1>1. IsFiniteSet({a})
  BY FS_Singleton, Zenon
<1>2. {a} \cup {b} = {a, b} /\ b \notin {a}
  OBVIOUS
<1>3. SumFunctionOnSet(f, {a} \cup {b}) = f[b] + SumFunctionOnSet(f, {a})
  BY <1>1, <1>2, SumAdd DEF IntOn
<1> QED
  BY <1>2, <1>3, SumOfOne

\* A list of two.
LEMMA PairFacts ==
  ASSUME NEW x, NEW y, NEW S
  PROVE  /\ <<x, y>>[1] = x /\ <<x, y>>[2] = y /\ DOMAIN <<x, y>> = {1, 2}
         /\ x \in S /\ y \in S => <<x, y>> \in Seq(S)
<1>1. <<x, y>>[1] = x /\ <<x, y>>[2] = y
  OBVIOUS
<1>2. DOMAIN <<x, y>> = 1 .. 2
  OBVIOUS
<1>3. 1 .. 2 = {1, 2}
  OBVIOUS
<1>4. x \in S /\ y \in S => <<x, y>> \in Seq(S)
  OBVIOUS
<1> QED
  BY <1>1, <1>2, <1>3, <1>4

\* A rule of two lines, one of them on the receivable account.
LEMMA RuleOfTwo ==
  ASSUME NEW rule, DOMAIN rule = {1, 2}, rule[1] \in RuleLine, rule[2] \in RuleLine,
         NEW at \in {1, 2}, rule[at].account = "processor_receivable",
         \A i \in {1, 2} \ {at} : rule[i].account # "processor_receivable"
  PROVE  /\ SumFunction([i \in DOMAIN rule |-> rule[i].multiplier])
              = rule[1].multiplier + rule[2].multiplier
         /\ SumFunction([i \in {i \in DOMAIN rule : rule[i].account = "processor_receivable"}
                           |-> rule[i].multiplier]) = rule[at].multiplier
<1> DEFINE f == [i \in DOMAIN rule |-> rule[i].multiplier]
           Of == {i \in DOMAIN rule : rule[i].account = "processor_receivable"}
           g == [i \in Of |-> rule[i].multiplier]
<1>1. rule[1].multiplier \in Int /\ rule[2].multiplier \in Int
  BY DEF RuleLine
<1>2. DOMAIN f = {1, 2} /\ f[1] = rule[1].multiplier /\ f[2] = rule[2].multiplier
  OBVIOUS
<1>3. Of = {at}
  OBVIOUS
<1>4. DOMAIN g = {at} /\ g[at] = rule[at].multiplier /\ g[at] \in Int
  BY <1>1, <1>3
<1> HIDE DEF f, g, Of
<1>5. SumFunctionOnSet(f, {1, 2}) = f[1] + f[2]
  <2>1. 1 # 2 /\ f[1] \in Int /\ f[2] \in Int
    BY <1>1, <1>2
  <2> QED
    BY <2>1, SumOfTwo
<1>6. SumFunctionOnSet(g, {at}) = g[at]
  BY <1>4, SumOfOne
<1>7. SumFunction(f) = SumFunctionOnSet(f, {1, 2}) /\ SumFunction(g) = SumFunctionOnSet(g, {at})
  BY <1>2, <1>4 DEF SumFunction
<1>8. SumFunction(f) = rule[1].multiplier + rule[2].multiplier /\ SumFunction(g) = rule[at].multiplier
  BY <1>2, <1>4, <1>5, <1>6, <1>7
<1> QED
  BY <1>8 DEF f, g, Of

\* A rule that loads and moves the receivable account by n.
RuleMoves(rule, n) ==
  /\ rule \in Seq(RuleLine)
  /\ SumFunction([i \in DOMAIN rule |-> rule[i].multiplier]) = 0
  /\ SumFunction([i \in {j \in DOMAIN rule : rule[j].account = "processor_receivable"}
                    |-> rule[i].multiplier]) = n

\* A rule of the configured file: a debit and a credit that cancel, one of them on the
\* receivable account, which moves by its multiplier.
LEMMA ConfiguredRule ==
  ASSUME NEW debit \in RuleLine, debit.multiplier = 1,
         NEW credit \in RuleLine, credit.multiplier = -1,
         debit.account = "processor_receivable" <=> credit.account # "processor_receivable"
  PROVE  RuleMoves(<<debit, credit>>, IF debit.account = "processor_receivable" THEN 1 ELSE -1)
<1> DEFINE rule == <<debit, credit>>
<1>1. /\ rule \in Seq(RuleLine) /\ DOMAIN rule = {1, 2}
      /\ rule[1] = debit /\ rule[2] = credit
  BY PairFacts
<1> HIDE DEF rule
<1>2. CASE debit.account = "processor_receivable"
  <2>1. 1 \in {1, 2} /\ rule[1].account = "processor_receivable"
        /\ \A i \in {1, 2} \ {1} : rule[i].account # "processor_receivable"
    BY <1>1, <1>2
  <2>2. RuleMoves(rule, 1)
    BY <1>1, <2>1, RuleOfTwo DEF RuleMoves
  <2> QED
    BY <1>2, <2>2 DEF rule
<1>3. CASE debit.account # "processor_receivable"
  <2>1. 2 \in {1, 2} /\ rule[2].account = "processor_receivable"
        /\ \A i \in {1, 2} \ {2} : rule[i].account # "processor_receivable"
    BY <1>1, <1>3
  <2>2. RuleMoves(rule, -1)
    BY <1>1, <2>1, RuleOfTwo DEF RuleMoves
  <2> QED
    BY <1>3, <2>2 DEF rule
<1> QED
  BY <1>2, <1>3

\* A named line of whole multiplier.
LEMMA LineFacts ==
  ASSUME NEW a \in STRING \ {""}, NEW m \in Int, NEW line, line = [account |-> a, multiplier |-> m]
  PROVE  line \in RuleLine /\ line.account = a /\ line.multiplier = m
BY DEF RuleLine

\* config/posting_rules.json loads, and moves the receivable account by what an event
\* means for the settlement.
LEMMA ConfiguredRulesLoad == LoadsRules(ConfiguredRules) /\ PostsReceivable(ConfiguredRules)
<1> DEFINE Line(a, m) == [account |-> a, multiplier |-> m]
           R == ConfiguredRules.rules
           Effect(t) == IF t = "capture" THEN 1 ELSE IF t \in REVERSALS THEN -1 ELSE 0
<1>1. /\ R["authorization"] = << >>
      /\ R["capture"] = <<Line("processor_receivable", 1), Line("merchant_payable", -1)>>
      /\ R["refund"] = <<Line("merchant_payable", 1), Line("processor_receivable", -1)>>
      /\ R["chargeback"] = <<Line("chargeback_loss", 1), Line("processor_receivable", -1)>>
      /\ DOMAIN R = EVENT_TYPES
      /\ ConfiguredRules.version = 1
  BY DEF ConfiguredRules, EVENT_TYPES
<1>2. \A a \in STRING \ {""}, m \in Int :
        Line(a, m) \in RuleLine /\ Line(a, m).account = a /\ Line(a, m).multiplier = m
  BY LineFacts
<1> HIDE DEF R, Line
<1>3. /\ "processor_receivable" \in STRING \ {""} /\ "merchant_payable" \in STRING \ {""}
      /\ "chargeback_loss" \in STRING \ {""} /\ 1 \in Int /\ -1 \in Int
  BY AccountAssumption
<1>4. RuleMoves(R["authorization"], 0)
  <2> DEFINE f == [i \in DOMAIN << >> |-> << >>[i].multiplier]
             g == [i \in {j \in DOMAIN << >> : << >>[j].account = "processor_receivable"}
                     |-> << >>[i].multiplier]
  <2>1. DOMAIN f = {} /\ DOMAIN g = {} /\ << >> \in Seq(RuleLine)
    OBVIOUS
  <2>2. SumFunction(f) = 0 /\ SumFunction(g) = 0
    <3> HIDE DEF f, g
    <3> QED
      BY <2>1, SumEmpty DEF SumFunction
  <2> QED
    BY <1>1, <2>1, <2>2 DEF RuleMoves
<1>5. RuleMoves(R["capture"], 1)
  <2>1. RuleMoves(<<Line("processor_receivable", 1), Line("merchant_payable", -1)>>,
          IF Line("processor_receivable", 1).account = "processor_receivable" THEN 1 ELSE -1)
    <3>1. /\ Line("processor_receivable", 1).account = "processor_receivable"
          /\ Line("merchant_payable", -1).account = "merchant_payable"
      BY <1>2, <1>3
    <3> QED
      BY <1>2, <1>3, <3>1, ConfiguredRule
  <2> QED
    BY <1>1, <1>2, <1>3, <2>1
<1>6. RuleMoves(R["refund"], -1)
  <2>1. RuleMoves(<<Line("merchant_payable", 1), Line("processor_receivable", -1)>>,
          IF Line("merchant_payable", 1).account = "processor_receivable" THEN 1 ELSE -1)
    BY <1>2, <1>3, ConfiguredRule
  <2> QED
    BY <1>1, <1>2, <1>3, <2>1
<1>7. RuleMoves(R["chargeback"], -1)
  <2>1. RuleMoves(<<Line("chargeback_loss", 1), Line("processor_receivable", -1)>>,
          IF Line("chargeback_loss", 1).account = "processor_receivable" THEN 1 ELSE -1)
    BY <1>2, <1>3, ConfiguredRule
  <2> QED
    BY <1>1, <1>2, <1>3, <2>1
<1>8. \A t \in EVENT_TYPES : RuleMoves(R[t], Effect(t))
  BY <1>4, <1>5, <1>6, <1>7 DEF EVENT_TYPES, REVERSALS
<1>9. LoadsRules(ConfiguredRules)
  <2>1. ConfiguredRules.version \in Nat \ {0}
    BY <1>1
  <2> HIDE DEF Effect
  <2> QED
    BY <1>1, <1>8, <2>1 DEF LoadsRules, RuleMoves, R
<1>10. PostsReceivable(ConfiguredRules)
  BY <1>1, <1>8 DEF PostsReceivable, RuleMoves, R
<1> QED
  BY <1>9, <1>10
=============================================================================
