---------------------------- MODULE LedgerStore ----------------------------
(***************************************************************************)
(* The transactional core, LedgerStore in store.py: processes that share   *)
(* one SQLite file.  A call of process() is four transactions that other   *)
(* processes interleave with: the journal row, the identity gate with the  *)
(* rebuild of every derived table, and the final status of the journal     *)
(* row; its third step is the failure path.  A call of                     *)
(* reconcile_settlement() is one transaction and two reads after it.       *)
(*                                                                         *)
(* SQLite is modelled by what the code relies on: one write lock, a        *)
(* transaction that is invisible until it commits and disappears when its  *)
(* process rolls back or dies, and a wait for the lock that gives up.      *)
(***************************************************************************)
EXTENDS FinancialProjection

CONSTANTS
  Worker,       \* processes that call the store
  RunId,        \* run identifiers callers may use
  RawRecord,    \* raw records producers may deliver
  Batches,      \* the inputs of process(): sequences of raw records
  RuleFiles,    \* the posting-rule files that may be offered for loading
  Settlements,  \* the inputs of reconcile_settlement(): sets of evidence rows
  None          \* no worker, no run, no outcome

ASSUME BatchAssumption == Batches \subseteq Seq(RawRecord)

ASSUME DeliveredRecordAssumption ==
  \A raw \in RawRecord :
    /\ raw.defects \subseteq {CONTRACT_GATES[i] : i \in DOMAIN CONTRACT_GATES}
    /\ PassesContract(raw) => ValidEvent(EventOf(raw))

OUTCOMES == {"ARRIVAL", "ACCEPTED", "DUPLICATE", "QUARANTINED"}

Outcome == [OUTCOMES -> Nat]

STATUSES == {"STARTED", "SUCCEEDED", "FAILED"}

ASSUME NoneAssumption == None \notin Worker \cup RunId \cup Outcome \cup STATUSES

VARIABLES
  db,      \* the committed tables
  tx,      \* the tables as the open transaction sees them
  lock,    \* the worker whose transaction is open
  pc,      \* where each worker is in its call
  job,     \* the arguments and the position of a process() call
  counts,  \* its Counter of outcomes
  report   \* what a reconcile_settlement() call computed and read back

vars == <<db, tx, lock, pc, job, counts, report>>

Event == {EventOf(raw) : raw \in RawRecord}

LoadedRules == {file \in RuleFiles : LoadsRules(file)}

EmptyTables ==
  [journal |-> [r \in RunId |-> None], outcome |-> [r \in RunId |-> None],
   seen |-> {}, accepted |-> {}, quarantine |-> {},
   posted |-> {}, exception |-> {}, ledger |-> {}, state |-> {},
   actual |-> {}, delta |-> {}]

ZeroCounts == [o \in OUTCOMES |-> 0]
NoJob      == [run |-> None, batch |-> << >>, rules |-> None, index |-> 0]
NoReport   == [found |-> None, count |-> None, absolute |-> None]

Init ==
  /\ db = EmptyTables
  /\ tx = EmptyTables
  /\ lock = None
  /\ pc = [w \in Worker |-> "idle"]
  /\ job = [w \in Worker |-> NoJob]
  /\ counts = [w \in Worker |-> ZeroCounts]
  /\ report = [w \in Worker |-> NoReport]

\* A call ends, by returning or by raising.
EndCall(w) ==
  /\ pc' = [pc EXCEPT ![w] = "idle"]
  /\ job' = [job EXCEPT ![w] = NoJob]
  /\ counts' = [counts EXCEPT ![w] = ZeroCounts]
  /\ report' = [report EXCEPT ![w] = NoReport]

\* The open transaction is gone, committed or not.
Release == lock' = None /\ tx' = EmptyTables

-----------------------------------------------------------------------------
(* process()                                                               *)

\* Mutant of Start: the journal row replaces the one of an earlier call.
StartReplacingRow(w, run, batch, rules) ==
  /\ pc[w] = "idle" /\ lock = None
  /\ db' = [db EXCEPT !.journal[run] = "STARTED"]
  /\ job' = [job EXCEPT ![w] = [run |-> run, batch |-> batch, rules |-> rules, index |-> 1]]
  /\ pc' = [pc EXCEPT ![w] = "begin"]
  /\ UNCHANGED <<tx, lock, counts, report>>

\* The journal row is inserted and committed before any work.  A run id that
\* is in the journal raises on its primary key, before the try block.
Start(w, run, batch, rules) ==
  /\ pc[w] = "idle"
  /\ lock = None
  /\ db.journal[run] = None
  /\ db' = [db EXCEPT !.journal[run] = "STARTED"]
  /\ job' = [job EXCEPT ![w] = [run |-> run, batch |-> batch, rules |-> rules, index |-> 1]]
  /\ pc' = [pc EXCEPT ![w] = "begin"]
  /\ UNCHANGED <<tx, lock, counts, report>>

\* Mutant of Begin: a deferred BEGIN does not wait for the write lock.
BeginDeferred(w) ==
  /\ pc[w] = "begin"
  /\ lock' = w
  /\ tx' = db
  /\ pc' = [pc EXCEPT ![w] = "ingest"]
  /\ UNCHANGED <<db, job, counts, report>>

\* BEGIN IMMEDIATE takes the write lock.
Begin(w) ==
  /\ pc[w] = "begin"
  /\ lock = None
  /\ lock' = w
  /\ tx' = db
  /\ pc' = [pc EXCEPT ![w] = "ingest"]
  /\ UNCHANGED <<db, job, counts, report>>

Reading(w)   == pc[w] = "ingest" /\ job[w].index \in DOMAIN job[w].batch
Arrival(w)   == job[w].batch[job[w].index]
Seen(tables) == {s.id : s \in tables.seen}

\* One record of the batch is counted, as an arrival and under its outcome.
Count(w, outcome) ==
  /\ counts' = [counts EXCEPT ![w] =
                  [o \in OUTCOMES |-> IF o \in {"ARRIVAL", outcome}
                                     THEN counts[w][o] + 1 ELSE counts[w][o]]]
  /\ job' = [job EXCEPT ![w].index = @ + 1]
  /\ UNCHANGED <<db, lock, pc, report>>

\* The quarantine row of the current record; its key is AUTOINCREMENT.
QuarantineRow(w, reason) ==
  [run |-> job[w].run, index |-> job[w].index, event |-> Arrival(w).id, reason |-> reason]

IngestInvalid(w) ==
  /\ Reading(w)
  /\ ~PassesContract(Arrival(w))
  /\ tx' = [tx EXCEPT !.quarantine = @ \cup {QuarantineRow(w, ContractReason(Arrival(w)))}]
  /\ Count(w, "QUARANTINED")

IngestReplay(w) ==
  /\ Reading(w)
  /\ PassesContract(Arrival(w))
  /\ \E s \in tx.seen : s.id = Arrival(w).id /\ s.identity = Fingerprint(Arrival(w))
  /\ UNCHANGED tx
  /\ Count(w, "DUPLICATE")

\* Mutants of IngestConflict: the conflicting payload is accepted, or it is
\* quarantined but counted as a replay.
AcceptConflict(w) ==
  /\ Reading(w)
  /\ PassesContract(Arrival(w))
  /\ \E s \in tx.seen : s.id = Arrival(w).id /\ s.identity # Fingerprint(Arrival(w))
  /\ tx' = [tx EXCEPT !.accepted = @ \cup {EventOf(Arrival(w))}]
  /\ Count(w, "ACCEPTED")

CountConflictAsReplay(w) ==
  /\ Reading(w)
  /\ PassesContract(Arrival(w))
  /\ \E s \in tx.seen : s.id = Arrival(w).id /\ s.identity # Fingerprint(Arrival(w))
  /\ tx' = [tx EXCEPT !.quarantine = @ \cup {QuarantineRow(w, "identity_payload_conflict")}]
  /\ Count(w, "DUPLICATE")

IngestConflict(w) ==
  /\ Reading(w)
  /\ PassesContract(Arrival(w))
  /\ \E s \in tx.seen : s.id = Arrival(w).id /\ s.identity # Fingerprint(Arrival(w))
  /\ tx' = [tx EXCEPT !.quarantine = @ \cup {QuarantineRow(w, "identity_payload_conflict")}]
  /\ Count(w, "QUARANTINED")

IngestNew(w) ==
  /\ Reading(w)
  /\ PassesContract(Arrival(w))
  /\ Arrival(w).id \notin Seen(tx)
  /\ tx' = [tx EXCEPT
              !.seen = @ \cup {[id |-> Arrival(w).id, identity |-> Fingerprint(Arrival(w)),
                                run |-> job[w].run]},
              !.accepted = @ \cup {EventOf(Arrival(w))}]
  /\ Count(w, "ACCEPTED")

IngestOne(w) == IngestInvalid(w) \/ IngestReplay(w) \/ IngestConflict(w) \/ IngestNew(w)

\* Mutants of Rebuilt, each without one of the DELETE statements: ledger lines
\* already stored under an entry id stay, exceptions stay, the comparison stays.
RebuiltOverLines(tables, rules) ==
  LET book == Book(tables.accepted, rules)
      Stored(l) == \E k \in tables.ledger : k.event = l.event /\ k.position = l.position
  IN  [tables EXCEPT !.posted = book.posted, !.exception = book.exception,
                     !.ledger = @ \cup {l \in book.ledger : ~Stored(l)},
                     !.state = book.state, !.actual = {}, !.delta = {}]

RebuiltOverExceptions(tables, rules) ==
  LET book == Book(tables.accepted, rules)
  IN  [tables EXCEPT !.posted = book.posted, !.exception = @ \cup book.exception,
                     !.ledger = book.ledger, !.state = book.state,
                     !.actual = {}, !.delta = {}]

RebuiltOverComparison(tables, rules) ==
  LET book == Book(tables.accepted, rules)
  IN  [tables EXCEPT !.posted = book.posted, !.exception = book.exception,
                     !.ledger = book.ledger, !.state = book.state]

\* _rebuild_projections: the settlement tables are emptied and the others are
\* derived again from the whole accepted history.
Rebuilt(tables, rules) ==
  LET book == Book(tables.accepted, rules)
  IN  [tables EXCEPT !.posted = book.posted, !.exception = book.exception,
                     !.ledger = book.ledger, !.state = book.state,
                     !.actual = {}, !.delta = {}]

\* build_postings asserts that the lines balance; when they do not the run fails.
Rebuild(w) ==
  /\ pc[w] = "ingest"
  /\ job[w].index \notin DOMAIN job[w].batch
  /\ Balanced(Book(tx.accepted, job[w].rules).ledger)
  /\ tx' = Rebuilt(tx, job[w].rules)
  /\ pc' = [pc EXCEPT ![w] = "commit"]
  /\ UNCHANGED <<db, lock, job, counts, report>>

\* The run_outcome rows are written and everything becomes visible at once.
Commit(w) ==
  /\ pc[w] = "commit"
  /\ db' = [tx EXCEPT !.outcome[job[w].run] = counts[w]]
  /\ Release
  /\ pc' = [pc EXCEPT ![w] = "succeeding"]
  /\ UNCHANGED <<job, counts, report>>

\* The status is a transaction of its own.
MarkSucceeded(w) ==
  /\ pc[w] = "succeeding"
  /\ lock = None
  /\ db' = [db EXCEPT !.journal[job[w].run] = "SUCCEEDED"]
  /\ EndCall(w)
  /\ UNCHANGED <<tx, lock>>

\* Mutants of Fail: without the rollback the commit of the FAILED status commits
\* the partial transaction, or the transaction stays open.
FailCommitting(w) ==
  /\ pc[w] \in {"ingest", "commit"}
  /\ db' = tx
  /\ Release
  /\ pc' = [pc EXCEPT ![w] = "failing"]
  /\ UNCHANGED <<job, counts, report>>

FailHoldingLock(w) ==
  /\ pc[w] \in {"ingest", "commit"}
  /\ pc' = [pc EXCEPT ![w] = "failing"]
  /\ UNCHANGED <<db, tx, lock, job, counts, report>>

\* Anything raised inside the try block: the input iterator, a failpoint, a
\* posting rule, the database.  The handler rolls back first.
Fail(w) ==
  /\ pc[w] \in {"ingest", "commit"}
  /\ Release
  /\ pc' = [pc EXCEPT ![w] = "failing"]
  /\ UNCHANGED <<db, job, counts, report>>

MarkFailed(w) ==
  /\ pc[w] = "failing"
  /\ lock = None
  /\ db' = [db EXCEPT !.journal[job[w].run] = "FAILED"]
  /\ EndCall(w)
  /\ UNCHANGED <<tx, lock>>

\* The wait for the write lock gives up.  BEGIN IMMEDIATE is inside the try
\* block; the updates of the status are not, and their error leaves the
\* journal row as it is.
LockTimeout(w) ==
  /\ lock \notin {None, w}
  /\ \/ /\ pc[w] = "begin"
        /\ pc' = [pc EXCEPT ![w] = "failing"]
        /\ UNCHANGED <<job, counts, report>>
     \/ /\ pc[w] \in {"succeeding", "failing"}
        /\ EndCall(w)
  /\ UNCHANGED <<db, tx, lock>>

-----------------------------------------------------------------------------
(* reconcile_settlement()                                                  *)

\* settlement_actual has one row per key: a repeated key raises and the
\* transaction is rolled back.
OneRowPerKey(rows) == \A r, s \in rows : KeyOf(r) = KeyOf(s) => r = s

\* One transaction replaces the evidence and the differences.
Reconcile(w, rows) ==
  LET found == SettlementDeltas(db.posted, rows)
  IN  /\ pc[w] = "idle"
      /\ lock = None
      /\ OneRowPerKey(rows)
      /\ db' = [db EXCEPT !.actual = rows, !.delta = found]
      /\ report' = [report EXCEPT ![w].found = found]
      /\ pc' = [pc EXCEPT ![w] = "counting"]
      /\ UNCHANGED <<tx, lock, job, counts>>

\* After the commit the result is read back, one query at a time.
ReadCount(w) ==
  /\ pc[w] = "counting"
  /\ report' = [report EXCEPT ![w].count = Cardinality(db.delta)]
  /\ pc' = [pc EXCEPT ![w] = "summing"]
  /\ UNCHANGED <<db, tx, lock, job, counts>>

Magnitude(d) == IF d.delta < 0 THEN -d.delta ELSE d.delta

ReadAbsoluteDelta(w) ==
  /\ pc[w] = "summing"
  /\ report' = [report EXCEPT ![w].absolute = MapThenSumSet(Magnitude, db.delta)]
  /\ pc' = [pc EXCEPT ![w] = "reported"]
  /\ UNCHANGED <<db, tx, lock, job, counts>>

Return(w) ==
  /\ pc[w] = "reported"
  /\ EndCall(w)
  /\ UNCHANGED <<db, tx, lock>>

-----------------------------------------------------------------------------
\* The process dies.  Its transaction is rolled back by whoever opens the file
\* next; its journal row stays STARTED.
Crash(w) ==
  /\ pc[w] # "idle"
  /\ IF lock = w THEN Release ELSE UNCHANGED <<tx, lock>>
  /\ EndCall(w)
  /\ UNCHANGED db

\* What a worker does without its caller or its environment.
Step(w) ==
  \/ Begin(w) \/ IngestOne(w) \/ Rebuild(w) \/ Commit(w) \/ Fail(w)
  \/ MarkSucceeded(w) \/ MarkFailed(w) \/ LockTimeout(w)
  \/ ReadCount(w) \/ ReadAbsoluteDelta(w) \/ Return(w)

Call(w) ==
  \/ \E run \in RunId, batch \in Batches, rules \in LoadedRules :
       Start(w, run, batch, rules)
  \/ \E rows \in Settlements : Reconcile(w, rows)

Next == \E w \in Worker : Call(w) \/ Step(w) \/ Crash(w)

Spec == Init /\ [][Next]_vars
-----------------------------------------------------------------------------
(* Properties                                                              *)

Job == [run : RunId \cup {None}, batch : Batches \cup {<< >>},
        rules : LoadedRules \cup {None}, index : Nat]

TABLES == {"journal", "outcome", "seen", "accepted", "quarantine", "posted",
           "exception", "ledger", "state", "actual", "delta"}

TablesOK(tables) ==
  /\ DOMAIN tables = TABLES
  /\ tables.journal \in [RunId -> STATUSES \cup {None}]
  /\ tables.outcome \in [RunId -> Outcome \cup {None}]
  /\ tables.accepted \subseteq Event

\* The tables and the calls hold what they hold in store.py: a worker has a run
\* exactly while it is inside process(), and the write lock exactly while it is
\* between BEGIN IMMEDIATE and the end of its transaction.
TypeOK ==
  /\ TablesOK(db)
  /\ TablesOK(tx)
  /\ lock \in Worker \cup {None}
  /\ pc \in [Worker -> {"idle", "begin", "ingest", "commit", "succeeding", "failing",
                        "counting", "summing", "reported"}]
  /\ job \in [Worker -> Job]
  /\ counts \in [Worker -> Outcome]
  /\ \A w \in Worker :
       /\ pc[w] \in {"begin", "ingest", "commit", "succeeding", "failing"}
            <=> job[w].run # None
       /\ pc[w] \in {"ingest", "commit"} <=> lock = w

\* The final status of a run is true of the tables although it is written by a
\* transaction of its own: SUCCEEDED only over committed outcomes, FAILED only
\* when the run left no outcome, no identity and no quarantine row.
NoTrace(tables, r) ==
  /\ tables.outcome[r] = None
  /\ \A s \in tables.seen : s.run # r
  /\ \A q \in tables.quarantine : q.run # r

JournalTruth ==
  \A r \in RunId :
    /\ db.journal[r] = "SUCCEEDED" => db.outcome[r] # None
    /\ db.journal[r] \in {None, "FAILED"} => NoTrace(db, r)

\* Every arrival of a committed run is classified once, and the classes agree
\* with the rows the run left: its accepted count with the identities it
\* reserved and its quarantined count with its quarantine rows.
Reserved(tables, r) == {s \in tables.seen : s.run = r}
Held(tables, r)     == {q \in tables.quarantine : q.run = r}

ArrivalsReconciled ==
  \A r \in RunId : db.outcome[r] # None =>
    LET o == db.outcome[r]
    IN  /\ o["ARRIVAL"] = o["ACCEPTED"] + o["DUPLICATE"] + o["QUARANTINED"]
        /\ o["ACCEPTED"] = Cardinality(Reserved(db, r))
        /\ o["QUARANTINED"] = Cardinality(Held(db, r))

\* One identity per event id, whatever the interleaving of runs, replays and
\* conflicting payloads: the accepted event of an id is the one whose
\* fingerprint reserved it.
IdentityOK(tables) ==
  /\ \A s, t \in tables.seen : s.id = t.id => s = t
  /\ \A e, f \in tables.accepted : e.id = f.id => e = f
  /\ {e.id : e \in tables.accepted} = Seen(tables)
  /\ \A e \in tables.accepted, s \in tables.seen :
       s.id = e.id => s.identity = Fingerprint(e)

IdentityUnique == IdentityOK(db)

\* The stored settlement comparison is never stale: whatever runs committed
\* since, its rows are the differences between the stored evidence and the
\* events posted now.
ComparisonCurrent ==
  db.actual # {} \/ db.delta # {} => db.delta = SettlementDeltas(db.posted, db.actual)

\* Every committed (event, currency) group of ledger lines sums to zero,
\* although the posting rules change from one run to the next.
LedgerBalanced == Balanced(db.ledger)

\* Nothing a run committed is ever taken back: identities, accepted events,
\* quarantine rows, outcomes and a final status.
EvidenceIsPermanent ==
  [][/\ db.seen \subseteq db'.seen
     /\ db.accepted \subseteq db'.accepted
     /\ db.quarantine \subseteq db'.quarantine
     /\ \A r \in RunId :
          /\ db.outcome[r] # None => db'.outcome[r] = db.outcome[r]
          /\ db.journal[r] \in {"SUCCEEDED", "FAILED"} => db'.journal[r] = db.journal[r]]_db

\* The events one batch can add: those of some of its records.
BatchArrivals ==
  UNION {{{EventOf(b[i]) : i \in I} : I \in SUBSET DOMAIN b} : b \in Batches}

StoreBook(tables) == [posted |-> tables.posted, exception |-> tables.exception,
                      ledger |-> tables.ledger, state |-> tables.state]

Abstract == INSTANCE DerivedBook
              WITH Arrivals <- BatchArrivals, Rules <- LoadedRules,
                   Project <- Book, Sound <- SoundBook,
                   accepted <- db.accepted, book <- StoreBook(db)

\* Seen through its accepted events and derived tables, the store takes the
\* atomic steps of DerivedBook: crashes, rollbacks and other workers included,
\* the book is at every moment the projection of exactly the accepted history.
ImplementsDerivedBook == Abstract!Spec

\* docs/invariants.md: "Ledger lines are append-only consequences of accepted
\* events."
LedgerAppendOnly == [][db.ledger \subseteq db'.ledger]_db

\* The result of reconcile_settlement() says reconciled only when its own
\* comparison found no difference (tests/test_store.py, on a mismatch:
\* assert mismatch["settlement_reconciled"] is False).
MismatchReported ==
  \A w \in Worker : report[w].count = 0 => report[w].found = {}
=============================================================================
