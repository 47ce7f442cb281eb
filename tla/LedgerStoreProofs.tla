------------------------- MODULE LedgerStoreProofs -------------------------
(***************************************************************************)
(* Machine-checked proofs about LedgerStore and StoreSummary, for every    *)
(* set of workers, runs, batches, rule files and settlement evidence.      *)
(***************************************************************************)
EXTENDS StoreSummary, PaymentTheorems, SequenceTheorems

USE NoneAssumption DEF STATUSES

\* The record a reading step handles is one a producer delivered.
LEMMA BatchArrival ==
  ASSUME TypeOK, NEW w \in Worker, Reading(w)
  PROVE  Arrival(w) \in RawRecord
<1>1. job[w].batch \in Batches \cup {<< >>}
  BY DEF TypeOK, Job
<1>2. job[w].batch # << >>
  BY DEF Reading
<1>3. job[w].batch \in Seq(RawRecord)
  BY <1>1, <1>2, BatchAssumption
<1> QED
  BY <1>3 DEF Reading, Arrival

\* The empty file is well formed.
LEMMA TypeInit == Init => TypeOK
<1> SUFFICES ASSUME Init PROVE TypeOK
  OBVIOUS
<1>1. TablesOK(EmptyTables)
  BY DEF TablesOK, EmptyTables, TABLES
<1>2. ZeroCounts \in Outcome
  BY DEF ZeroCounts, Outcome
<1>3. NoJob \in Job
  BY DEF NoJob, Job
<1> QED
  BY <1>1, <1>2, <1>3 DEF Init, TypeOK, NoJob

-----------------------------------------------------------------------------
(* Types and the lock discipline                                           *)

\* A step of IngestOne moves the transaction and the position, nothing else.
LEMMA IngestFrame ==
  ASSUME TypeOK, NEW w \in Worker, IngestOne(w)
  PROVE  /\ Reading(w)
         /\ UNCHANGED <<db, lock, pc, report>>
         /\ job' = [job EXCEPT ![w].index = @ + 1]
         /\ job' \in [Worker -> Job]
         /\ \A v \in Worker : /\ job'[v].run = job[v].run
                              /\ job'[v].batch = job[v].batch
                              /\ job'[v].rules = job[v].rules
         /\ counts' \in [Worker -> Outcome]
         /\ TablesOK(tx')
<1>1. Arrival(w) \in RawRecord /\ Reading(w)
  BY BatchArrival DEF IngestOne, IngestInvalid, IngestReplay, IngestConflict, IngestNew, Reading
<1>2. EventOf(Arrival(w)) \in Event
  BY <1>1 DEF Event
<1>3. PICK outcome \in OUTCOMES : Count(w, outcome)
  BY DEF IngestOne, IngestInvalid, IngestReplay, IngestConflict, IngestNew, OUTCOMES
<1>4. \A o \in OUTCOMES : counts[w][o] + 1 \in Nat /\ counts[w][o] \in Nat
  BY DEF TypeOK, Outcome
<1>5. counts' \in [Worker -> Outcome]
  BY <1>3, <1>4 DEF Count, TypeOK, Outcome
<1>6. TablesOK(tx')
  <2>1. CASE IngestInvalid(w) \/ IngestConflict(w)
    BY <2>1 DEF IngestInvalid, IngestConflict, TypeOK, TablesOK, TABLES
  <2>2. CASE IngestReplay(w)
    BY <2>2 DEF IngestReplay, TypeOK
  <2>3. CASE IngestNew(w)
    BY <1>2, <2>3 DEF IngestNew, TypeOK, TablesOK, TABLES
  <2> QED
    BY <2>1, <2>2, <2>3 DEF IngestOne
<1> DEFINE next == [job[w] EXCEPT !.index = @ + 1]
<1>7. /\ next \in Job /\ next.run = job[w].run
      /\ next.batch = job[w].batch /\ next.rules = job[w].rules
  <2>1. job[w] \in Job
    BY DEF TypeOK
  <2> QED
    BY <2>1 DEF Job
<1>8. job' = [job EXCEPT ![w] = next] /\ job \in [Worker -> Job]
  BY <1>3 DEF Count, TypeOK
<1> HIDE DEF next
<1>9. /\ job' \in [Worker -> Job]
      /\ \A v \in Worker : /\ job'[v].run = job[v].run
                           /\ job'[v].batch = job[v].batch
                           /\ job'[v].rules = job[v].rules
  BY <1>7, <1>8
<1> QED
  BY <1>1, <1>3, <1>5, <1>6, <1>9 DEF Count

\* So it is after a call was started.
LEMMA TypeCall ==
  ASSUME TypeOK, NEW w \in Worker, Call(w)
  PROVE  TypeOK'
<1>1. ASSUME NEW run \in RunId, NEW batch \in Batches, NEW rules \in LoadedRules,
             Start(w, run, batch, rules)
      PROVE  TypeOK'
  <2>1. TablesOK(db')
    BY <1>1 DEF Start, TypeOK, TablesOK, TABLES
  <2> DEFINE next == [run |-> run, batch |-> batch, rules |-> rules, index |-> 1]
  <2>2. next \in Job /\ next.run # None
    BY DEF Job
  <2>3. job' = [job EXCEPT ![w] = next] /\ job \in [Worker -> Job]
    BY <1>1 DEF Start, TypeOK
  <2> HIDE DEF next
  <2> QED
    BY <1>1, <2>1, <2>2, <2>3 DEF Start, TypeOK
<1>2. ASSUME NEW rows \in Settlements, Reconcile(w, rows)
      PROVE  TypeOK'
  <2>1. TablesOK(db')
    BY <1>2 DEF Reconcile, TypeOK, TablesOK, TABLES
  <2> QED
    BY <1>2, <2>1 DEF Reconcile, TypeOK
<1> QED
  BY <1>1, <1>2 DEF Call

\* Empty tables are well formed.
LEMMA EmptyTablesOK == TablesOK(EmptyTables)
  BY DEF TablesOK, EmptyTables, TABLES

\* A call that ends leaves an idle worker.
LEMMA EndCallTypes ==
  ASSUME TypeOK, NEW w \in Worker, EndCall(w)
  PROVE  /\ pc' = [pc EXCEPT ![w] = "idle"]
         /\ job' \in [Worker -> Job]
         /\ job'[w].run = None
         /\ \A v \in Worker \ {w} : job'[v] = job[v]
         /\ counts' \in [Worker -> Outcome]
<1>1. ZeroCounts \in Outcome /\ NoJob \in Job
  BY DEF ZeroCounts, Outcome, NoJob, Job
<1> QED
  BY <1>1 DEF EndCall, TypeOK, NoJob

\* When the worker that ends its call has no transaction left, types hold again.
LEMMA EndCallOK ==
  ASSUME TypeOK, NEW w \in Worker, EndCall(w), TablesOK(db'), TablesOK(tx'),
         \/ lock' = lock /\ lock # w
         \/ lock' = None /\ lock = w
  PROVE  TypeOK'
<1>1. pc' \in [Worker -> {"idle", "begin", "ingest", "commit", "succeeding", "failing",
                          "counting", "summing", "reported"}]
  BY EndCallTypes DEF TypeOK
<1>2. ASSUME NEW v \in Worker
      PROVE  /\ pc'[v] \in {"begin", "ingest", "commit", "succeeding", "failing"}
                  <=> job'[v].run # None
             /\ pc'[v] \in {"ingest", "commit"} <=> lock' = v
  <2>1. CASE v = w
    BY <2>1, EndCallTypes DEF TypeOK
  <2>2. CASE v # w
    BY <2>2, EndCallTypes DEF TypeOK
  <2> QED
    BY <2>1, <2>2
<1> QED
  BY <1>1, <1>2, EndCallTypes DEF TypeOK

\* Every step of a call, and a crash, keeps the tables and the calls well formed.
LEMMA TypeStep ==
  ASSUME TypeOK, NEW w \in Worker, Step(w) \/ Crash(w)
  PROVE  TypeOK'
<1>1. CASE Begin(w)
  BY <1>1 DEF Begin, TypeOK
<1>2. CASE IngestOne(w)
  BY <1>2, IngestFrame DEF TypeOK
<1>3. CASE Rebuild(w)
  <2>1. TablesOK(tx')
    BY <1>3 DEF Rebuild, Rebuilt, TypeOK, TablesOK, TABLES
  <2> QED
    BY <1>3, <2>1 DEF Rebuild, TypeOK
<1>4. CASE Commit(w)
  <2>1. TablesOK(db')
    BY <1>4 DEF Commit, TypeOK, TablesOK, TABLES
  <2> QED
    BY <1>4, <2>1, EmptyTablesOK DEF Commit, Release, TypeOK
<1>5. CASE Fail(w)
  BY <1>5, EmptyTablesOK DEF Fail, Release, TypeOK
<1>6. CASE MarkSucceeded(w) \/ MarkFailed(w)
  <2>1. EndCall(w) /\ lock = None /\ UNCHANGED <<tx, lock>>
    BY <1>6 DEF MarkSucceeded, MarkFailed
  <2>2. job[w].run \in RunId
    BY <1>6 DEF MarkSucceeded, MarkFailed, TypeOK, Job
  <2>3. TablesOK(db')
    BY <1>6, <2>2 DEF MarkSucceeded, MarkFailed, TypeOK, TablesOK, TABLES
  <2> QED
    BY <2>1, <2>3, EndCallOK DEF TypeOK
<1>7. CASE LockTimeout(w)
  <2>1. CASE EndCall(w)
    BY <1>7, <2>1, EndCallOK DEF LockTimeout, TypeOK
  <2>2. CASE pc[w] = "begin" /\ pc' = [pc EXCEPT ![w] = "failing"]
             /\ UNCHANGED <<job, counts, report>>
    BY <1>7, <2>2 DEF LockTimeout, TypeOK
  <2> QED
    BY <1>7, <2>1, <2>2 DEF LockTimeout
<1>8. CASE ReadCount(w) \/ ReadAbsoluteDelta(w)
  BY <1>8 DEF ReadCount, ReadAbsoluteDelta, TypeOK
<1>9. CASE Return(w)
  BY <1>9, EndCallOK DEF Return, TypeOK
<1>10. CASE Crash(w)
  <2>1. CASE lock = w
    BY <1>10, <2>1, EndCallOK, EmptyTablesOK DEF Crash, Release, TypeOK
  <2>2. CASE lock # w
    BY <1>10, <2>2, EndCallOK DEF Crash, TypeOK
  <2> QED
    BY <2>1, <2>2
<1> QED
  BY <1>1, <1>2, <1>3, <1>4, <1>5, <1>6, <1>7, <1>8, <1>9, <1>10 DEF Step

\* Type correctness, and with it the lock discipline of process(): a worker
\* holds the write lock exactly between BEGIN IMMEDIATE and the end of its
\* transaction, whoever crashes, times out or fails.
THEOREM TypeCorrect == Spec => []TypeOK
<1>1. TypeOK /\ [Next]_vars => TypeOK'
  <2> SUFFICES ASSUME TypeOK, [Next]_vars PROVE TypeOK'
    OBVIOUS
  <2>1. CASE Next
    BY <2>1, TypeCall, TypeStep DEF Next
  <2>2. CASE UNCHANGED vars
    BY <2>2 DEF vars, TypeOK
  <2> QED
    BY <2>1, <2>2
<1> QED
  BY <1>1, TypeInit, PTL DEF Spec

-----------------------------------------------------------------------------
(* The journal tells the truth                                             *)

\* A run belongs to one worker; while it runs its row is STARTED, it has left
\* no trace before its commit and has its outcomes after it.
RunsInProgress ==
  /\ \A v, w \in Worker : job[v].run = job[w].run /\ job[w].run # None => v = w
  /\ \A w \in Worker : job[w].run # None => db.journal[job[w].run] = "STARTED"
  /\ \A w \in Worker :
       pc[w] \in {"begin", "ingest", "commit", "failing"} => NoTrace(db, job[w].run)
  /\ \A w \in Worker : pc[w] = "succeeding" => db.outcome[job[w].run] # None

\* The open transaction adds to the committed tables rows of its own run.
TransactionExtends ==
  \A w \in Worker : lock = w =>
    /\ tx.journal = db.journal
    /\ tx.outcome = db.outcome
    /\ db.accepted \subseteq tx.accepted
    /\ db.seen \subseteq tx.seen
    /\ db.quarantine \subseteq tx.quarantine
    /\ \A s \in tx.seen \ db.seen : s.run = job[w].run
    /\ \A q \in tx.quarantine \ db.quarantine : q.run = job[w].run

JournalInv == RunsInProgress /\ TransactionExtends /\ JournalTruth

\* The journal layer holds of the empty file.
LEMMA JournalInit == Init => JournalInv
<1> SUFFICES ASSUME Init PROVE JournalInv
  OBVIOUS
<1>1. RunsInProgress
  BY DEF Init, RunsInProgress, NoJob
<1>2. TransactionExtends
  BY DEF Init, TransactionExtends
<1>3. JournalTruth
  BY DEF Init, JournalTruth, NoTrace, EmptyTables
<1> QED
  BY <1>1, <1>2, <1>3 DEF JournalInv

\* A call that ends with the tables as they were.
LEMMA JournalEndCall ==
  ASSUME TypeOK, JournalInv, NEW w \in Worker, EndCall(w), UNCHANGED db,
         \/ UNCHANGED <<tx, lock>> /\ lock # w
         \/ lock = w /\ lock' = None
  PROVE  JournalInv'
<1>1. RunsInProgress'
  BY EndCallTypes DEF JournalInv, RunsInProgress, NoTrace, TypeOK
<1>2. TransactionExtends'
  BY EndCallTypes DEF JournalInv, TransactionExtends
<1>3. JournalTruth'
  BY DEF JournalInv, JournalTruth, NoTrace
<1> QED
  BY <1>1, <1>2, <1>3 DEF JournalInv

\* A call that starts takes a run id nobody has.
LEMMA JournalCall ==
  ASSUME TypeOK, JournalInv, NEW w \in Worker, Call(w)
  PROVE  JournalInv'
<1>1. ASSUME NEW run \in RunId, NEW batch \in Batches, NEW rules \in LoadedRules,
             Start(w, run, batch, rules)
      PROVE  JournalInv'
  <2>1. /\ db'.journal = [db.journal EXCEPT ![run] = "STARTED"]
        /\ db'.outcome = db.outcome /\ db'.seen = db.seen
        /\ db'.quarantine = db.quarantine /\ db'.accepted = db.accepted
    BY <1>1 DEF Start, TypeOK, TablesOK, TABLES
  <2>2. /\ job'[w].run = run /\ \A v \in Worker \ {w} : job'[v] = job[v]
        /\ pc'[w] = "begin" /\ \A v \in Worker \ {w} : pc'[v] = pc[v]
        /\ lock = None /\ lock' = None /\ db.journal[run] = None
    BY <1>1 DEF Start, TypeOK
  <2>3. db.journal \in [RunId -> STATUSES \cup {None}]
    BY DEF TypeOK, TablesOK
  <2>4. \A v \in Worker : job[v].run \in RunId \cup {None} /\ job[v].run # run
    BY <2>2 DEF TypeOK, Job, JournalInv, RunsInProgress
  <2>5. NoTrace(db, run)
    BY <2>2 DEF JournalInv, JournalTruth
  <2>6. RunsInProgress'
    BY <2>1, <2>2, <2>3, <2>4, <2>5 DEF JournalInv, RunsInProgress, NoTrace, TypeOK
  <2>7. TransactionExtends'
    BY <2>2 DEF TransactionExtends
  <2>8. JournalTruth'
    BY <2>1, <2>3 DEF JournalInv, JournalTruth, NoTrace
  <2> QED
    BY <2>6, <2>7, <2>8 DEF JournalInv
<1>2. ASSUME NEW rows \in Settlements, Reconcile(w, rows)
      PROVE  JournalInv'
  <2>1. /\ db'.journal = db.journal /\ db'.outcome = db.outcome
        /\ db'.seen = db.seen /\ db'.quarantine = db.quarantine
    BY <1>2 DEF Reconcile, TypeOK, TablesOK, TABLES
  <2>2. lock' = None /\ job' = job /\ pc' = [pc EXCEPT ![w] = "counting"]
    BY <1>2 DEF Reconcile
  <2> QED
    BY <2>1, <2>2 DEF JournalInv, RunsInProgress, TransactionExtends, JournalTruth,
                      NoTrace, TypeOK
<1> QED
  BY <1>1, <1>2 DEF Call

\* The steps of a call keep the journal layer.
LEMMA JournalStep ==
  ASSUME TypeOK, JournalInv, NEW w \in Worker, Step(w) \/ Crash(w)
  PROVE  JournalInv'
<1>1. CASE Begin(w)
  <2>1. RunsInProgress'
    BY <1>1 DEF Begin, JournalInv, RunsInProgress, NoTrace, TypeOK
  <2>2. TransactionExtends'
    BY <1>1 DEF Begin, TransactionExtends
  <2> QED
    BY <1>1, <2>1, <2>2 DEF Begin, JournalInv, JournalTruth, NoTrace
<1>2. CASE IngestOne(w)
  <2>1. \A v \in Worker : job'[v].run = job[v].run
    BY <1>2, IngestFrame
  <2>2. lock = w /\ UNCHANGED <<db, lock, pc>>
    BY <1>2, IngestFrame DEF Reading, TypeOK
  <2>3. /\ tx'.journal = tx.journal /\ tx'.outcome = tx.outcome
        /\ tx.accepted \subseteq tx'.accepted
        /\ tx.seen \subseteq tx'.seen /\ tx.quarantine \subseteq tx'.quarantine
        /\ \A s \in tx'.seen \ tx.seen : s.run = job[w].run
        /\ \A q \in tx'.quarantine \ tx.quarantine : q.run = job[w].run
    <3>1. CASE IngestInvalid(w) \/ IngestConflict(w)
      BY <3>1 DEF IngestInvalid, IngestConflict, QuarantineRow, TypeOK, TablesOK, TABLES
    <3>2. CASE IngestReplay(w)
      BY <3>2 DEF IngestReplay
    <3>3. CASE IngestNew(w)
      BY <3>3 DEF IngestNew, TypeOK, TablesOK, TABLES
    <3> QED
      BY <1>2, <3>1, <3>2, <3>3 DEF IngestOne
  <2>4. TransactionExtends'
    BY <2>1, <2>2, <2>3 DEF JournalInv, TransactionExtends
  <2>5. RunsInProgress' /\ JournalTruth'
    BY <2>1, <2>2 DEF JournalInv, RunsInProgress, JournalTruth, NoTrace
  <2> QED
    BY <2>4, <2>5 DEF JournalInv
<1>3. CASE Rebuild(w)
  <2>1. /\ tx'.journal = tx.journal /\ tx'.outcome = tx.outcome
        /\ tx'.accepted = tx.accepted /\ tx'.seen = tx.seen
        /\ tx'.quarantine = tx.quarantine
    BY <1>3 DEF Rebuild, Rebuilt, TypeOK, TablesOK, TABLES
  <2>2. UNCHANGED <<db, lock, job>> /\ pc[w] = "ingest" /\ pc' = [pc EXCEPT ![w] = "commit"]
    BY <1>3 DEF Rebuild
  <2> QED
    BY <2>1, <2>2 DEF JournalInv, RunsInProgress, TransactionExtends, JournalTruth,
                      NoTrace, TypeOK
<1>4. CASE Commit(w)
  <2> DEFINE run == job[w].run
  <2>1. lock = w /\ run \in RunId /\ counts[w] # None /\ lock' = None /\ job' = job
    BY <1>4 DEF Commit, Release, TypeOK, Job
  <2>2. /\ db'.journal = db.journal
        /\ db'.outcome = [db.outcome EXCEPT ![run] = counts[w]]
        /\ db'.seen = tx.seen /\ db'.quarantine = tx.quarantine
        /\ db.journal \in [RunId -> STATUSES \cup {None}]
        /\ db.outcome \in [RunId -> Outcome \cup {None}]
    BY <1>4, <2>1 DEF Commit, TypeOK, TablesOK, TABLES, JournalInv, TransactionExtends
  <2>3. /\ \A s \in tx.seen \ db.seen : s.run = run
        /\ \A q \in tx.quarantine \ db.quarantine : q.run = run
    BY <2>1 DEF JournalInv, TransactionExtends
  <2>4. \A r \in RunId \ {run} : NoTrace(db, r) => NoTrace(db', r)
    BY <2>2, <2>3 DEF NoTrace
  <2>5. db.journal[run] = "STARTED"
    BY <2>1 DEF JournalInv, RunsInProgress, TypeOK
  <2>6. JournalTruth'
    BY <2>1, <2>2, <2>4, <2>5 DEF JournalInv, JournalTruth
  <2>7. \A v \in Worker : job[v].run # None => job[v].run \in RunId /\ (v # w => job[v].run # run)
    BY <2>1 DEF TypeOK, Job, JournalInv, RunsInProgress
  <2>8. pc' = [pc EXCEPT ![w] = "succeeding"]
    BY <1>4 DEF Commit
  <2>9. RunsInProgress'
    BY <2>1, <2>2, <2>4, <2>7, <2>8 DEF JournalInv, RunsInProgress, TypeOK
  <2>10. TransactionExtends'
    BY <2>1 DEF TransactionExtends
  <2> QED
    BY <2>6, <2>9, <2>10 DEF JournalInv
<1>5. CASE Fail(w)
  <2>1. RunsInProgress'
    BY <1>5 DEF Fail, JournalInv, RunsInProgress, NoTrace, TypeOK
  <2> QED
    BY <1>5, <2>1 DEF Fail, Release, JournalInv, TransactionExtends, JournalTruth, NoTrace
<1>6. CASE MarkSucceeded(w) \/ MarkFailed(w)
  <2> DEFINE run == job[w].run
  <2>1. EndCall(w) /\ lock = None /\ lock' = None
    BY <1>6 DEF MarkSucceeded, MarkFailed
  <2>2. run \in RunId
    BY <1>6 DEF MarkSucceeded, MarkFailed, TypeOK, Job
  <2>3. /\ \/ /\ db'.journal = [db.journal EXCEPT ![run] = "SUCCEEDED"]
              /\ db.outcome[run] # None
           \/ /\ db'.journal = [db.journal EXCEPT ![run] = "FAILED"]
              /\ NoTrace(db, run)
        /\ db.journal \in [RunId -> STATUSES \cup {None}]
    BY <1>6, <2>2 DEF MarkSucceeded, MarkFailed, TypeOK, TablesOK, TABLES,
                      JournalInv, RunsInProgress
  <2>4. db'.outcome = db.outcome /\ db'.seen = db.seen /\ db'.quarantine = db.quarantine
    BY <1>6 DEF MarkSucceeded, MarkFailed, TypeOK, TablesOK, TABLES
  <2>5. JournalTruth'
    BY <2>2, <2>3, <2>4 DEF JournalInv, JournalTruth, NoTrace
  <2>6. RunsInProgress'
    <3>1. \A v \in Worker \ {w} : job[v].run # None => job[v].run # run
      BY <2>2 DEF JournalInv, RunsInProgress, NoTrace
    <3>2. \A v \in Worker \ {w} : job'[v] = job[v] /\ pc'[v] = pc[v]
      BY <2>1, EndCallTypes DEF TypeOK
    <3>3. job'[w].run = None /\ pc'[w] = "idle"
      BY <2>1, EndCallTypes DEF TypeOK
    <3>4. \A v \in Worker : job[v].run \in RunId \cup {None}
      BY DEF TypeOK, Job
    <3> QED
      BY <2>2, <2>3, <2>4, <3>1, <3>2, <3>3, <3>4 DEF JournalInv, RunsInProgress, NoTrace
  <2> QED
    BY <2>1, <2>5, <2>6 DEF JournalInv, TransactionExtends
<1>7. CASE LockTimeout(w)
  <2>1. CASE EndCall(w)
    BY <1>7, <2>1, JournalEndCall DEF LockTimeout
  <2>2. CASE pc[w] = "begin" /\ pc' = [pc EXCEPT ![w] = "failing"]
             /\ UNCHANGED <<job, counts, report>>
    <3>1. RunsInProgress'
      BY <1>7, <2>2 DEF LockTimeout, JournalInv, RunsInProgress, NoTrace, TypeOK
    <3> QED
      BY <1>7, <2>2, <3>1 DEF LockTimeout, JournalInv, TransactionExtends, JournalTruth, NoTrace
  <2> QED
    BY <1>7, <2>1, <2>2 DEF LockTimeout
<1>8. CASE ReadCount(w) \/ ReadAbsoluteDelta(w)
  BY <1>8 DEF ReadCount, ReadAbsoluteDelta, TypeOK, JournalInv, RunsInProgress,
              TransactionExtends, JournalTruth, NoTrace
<1>9. CASE Return(w)
  <2>1. lock # w
    BY <1>9 DEF Return, TypeOK
  <2> QED
    BY <1>9, <2>1, JournalEndCall DEF Return
<1>10. CASE Crash(w)
  BY <1>10, JournalEndCall DEF Crash, Release
<1> QED
  BY <1>1, <1>2, <1>3, <1>4, <1>5, <1>6, <1>7, <1>8, <1>9, <1>10 DEF Step

\* The journal layer is inductive.
LEMMA JournalAlways == Spec => []JournalInv
<1>1. TypeOK /\ JournalInv /\ [Next]_vars => JournalInv'
  <2> SUFFICES ASSUME TypeOK, JournalInv, [Next]_vars PROVE JournalInv'
    OBVIOUS
  <2>1. CASE Next
    BY <2>1, JournalCall, JournalStep DEF Next
  <2>2. CASE UNCHANGED vars
    BY <2>2 DEF vars, JournalInv, RunsInProgress, TransactionExtends, JournalTruth, NoTrace
  <2> QED
    BY <2>1, <2>2
<1> QED
  BY <1>1, JournalInit, TypeCorrect, PTL DEF Spec

\* A status in run_journal is true of the tables although process() writes it in
\* a transaction of its own: no interleaving, crash, failure or lock timeout
\* leaves SUCCEEDED without outcomes or FAILED with effects.
THEOREM JournalTruthful == Spec => []JournalTruth
<1>1. JournalInv => JournalTruth
  BY DEF JournalInv
<1> QED
  BY <1>1, JournalAlways, PTL

-----------------------------------------------------------------------------
(* One identity per event id                                               *)

\* The committed history changes by a commit only, and a transaction's by one
\* new record.
LEMMA HistoryStep ==
  ASSUME TypeOK, [Next]_vars
  PROVE  /\ \/ db'.seen = db.seen /\ db'.accepted = db.accepted
            \/ /\ db'.seen = tx.seen /\ db'.accepted = tx.accepted
               /\ \E w \in Worker : Commit(w)
         /\ \/ tx'.seen = tx.seen /\ tx'.accepted = tx.accepted
            \/ tx' = db
            \/ tx' = EmptyTables
            \/ \E w \in Worker : IngestNew(w)
<1>1. CASE UNCHANGED vars
  BY <1>1 DEF vars
<1>2. ASSUME NEW w \in Worker, Call(w)
      PROVE  db'.seen = db.seen /\ db'.accepted = db.accepted /\ tx' = tx
  BY <1>2 DEF Call, Start, Reconcile, TypeOK, TablesOK, TABLES
<1>3. ASSUME NEW w \in Worker,
             \/ Begin(w) \/ Fail(w) \/ LockTimeout(w) \/ ReadCount(w)
             \/ ReadAbsoluteDelta(w) \/ Return(w) \/ Crash(w)
      PROVE  db' = db /\ (tx' = db \/ tx' = tx \/ tx' = EmptyTables)
  BY <1>3 DEF Begin, Fail, LockTimeout, ReadCount, ReadAbsoluteDelta, Return, Crash, Release
<1>4. ASSUME NEW w \in Worker, MarkSucceeded(w) \/ MarkFailed(w)
      PROVE  db'.seen = db.seen /\ db'.accepted = db.accepted /\ tx' = tx
  BY <1>4 DEF MarkSucceeded, MarkFailed, TypeOK, TablesOK, TABLES
<1>5. ASSUME NEW w \in Worker, Commit(w)
      PROVE  db'.seen = tx.seen /\ db'.accepted = tx.accepted /\ tx' = EmptyTables
  BY <1>5 DEF Commit, Release, TypeOK, TablesOK, TABLES
<1>6. ASSUME NEW w \in Worker,
             Rebuild(w) \/ IngestInvalid(w) \/ IngestReplay(w) \/ IngestConflict(w)
      PROVE  db' = db /\ tx'.seen = tx.seen /\ tx'.accepted = tx.accepted
  <2>1. CASE Rebuild(w)
    BY <2>1 DEF Rebuild, Rebuilt, TypeOK, TablesOK, TABLES
  <2>2. CASE IngestInvalid(w) \/ IngestConflict(w)
    BY <2>2 DEF IngestInvalid, IngestConflict, Count, TypeOK, TablesOK, TABLES
  <2>3. CASE IngestReplay(w)
    BY <2>3 DEF IngestReplay, Count
  <2> QED
    BY <1>6, <2>1, <2>2, <2>3
<1>7. ASSUME NEW w \in Worker, IngestNew(w) PROVE db' = db
  BY <1>7 DEF IngestNew, Count
<1> QED
  BY <1>1, <1>2, <1>3, <1>4, <1>5, <1>6, <1>7 DEF Next, Step, IngestOne

\* An event has the fields of its record.
LEMMA EventOfRecord ==
  ASSUME NEW raw
  PROVE  /\ EventOf(raw).id = raw.id
         /\ Fingerprint(EventOf(raw)) = Fingerprint(raw)
  BY DEF EventOf, Fingerprint, EVENT_FIELDS, IDENTITY_FIELDS

\* Empty tables hold no identity twice.
LEMMA IdentityEmpty == IdentityOK(EmptyTables)
  BY DEF IdentityOK, Seen, EmptyTables

\* Only a record with an unseen id is accepted, under its own fingerprint.
LEMMA IdentityNew ==
  ASSUME TypeOK, IdentityOK(tx), NEW w \in Worker, IngestNew(w)
  PROVE  IdentityOK(tx')
<1> DEFINE event == EventOf(Arrival(w))
           row   == [id |-> Arrival(w).id, identity |-> Fingerprint(Arrival(w)),
                     run |-> job[w].run]
<1>1. tx'.seen = tx.seen \cup {row} /\ tx'.accepted = tx.accepted \cup {event}
  BY DEF IngestNew, TypeOK, TablesOK, TABLES
<1>2. event.id = row.id /\ Fingerprint(event) = row.identity
  BY EventOfRecord
<1>3. \A s \in tx.seen : s.id # row.id
  BY DEF IngestNew, Seen
<1>4. \A e \in tx.accepted : e.id # row.id
  BY <1>3 DEF IdentityOK, Seen
<1> HIDE DEF event, row
<1> QED
  BY <1>1, <1>2, <1>3, <1>4 DEF IdentityOK, Seen

\* Identities are unique in the file and in the open transaction.
LEMMA IdentityAlways == Spec => [](IdentityOK(db) /\ IdentityOK(tx))
<1>1. Init => IdentityOK(db) /\ IdentityOK(tx)
  BY IdentityEmpty DEF Init
<1>2. TypeOK /\ IdentityOK(db) /\ IdentityOK(tx) /\ [Next]_vars
        => (IdentityOK(db) /\ IdentityOK(tx))'
  <2> SUFFICES ASSUME TypeOK, IdentityOK(db), IdentityOK(tx), [Next]_vars
               PROVE  IdentityOK(db') /\ IdentityOK(tx')
    OBVIOUS
  <2>1. IdentityOK(db')
    BY HistoryStep DEF IdentityOK, Seen
  <2>2. CASE tx'.seen = tx.seen /\ tx'.accepted = tx.accepted
    BY <2>1, <2>2 DEF IdentityOK, Seen
  <2>3. CASE tx' = db \/ tx' = EmptyTables
    BY <2>1, <2>3, IdentityEmpty
  <2>4. CASE \E w \in Worker : IngestNew(w)
    BY <2>1, <2>4, IdentityNew
  <2> QED
    BY <2>1, <2>2, <2>3, <2>4, HistoryStep
<1> QED
  BY <1>1, <1>2, TypeCorrect, PTL DEF Spec

\* An event id has one identity and one accepted event, the one that reserved
\* it, under every interleaving of runs, replays, conflicts and crashes.
THEOREM OneIdentityPerEvent == Spec => []IdentityUnique
<1>1. IdentityOK(db) /\ IdentityOK(tx) => IdentityUnique
  BY DEF IdentityUnique
<1> QED
  BY <1>1, IdentityAlways, PTL

-----------------------------------------------------------------------------
(* Evidence is permanent                                                   *)

\* Only a commit touches the outcomes, the identities and the quarantine.
LEMMA EvidenceStep ==
  ASSUME TypeOK, [Next]_vars
  PROVE  \/ /\ db'.outcome = db.outcome
            /\ db'.seen = db.seen
            /\ db'.quarantine = db.quarantine
         \/ \E w \in Worker : Commit(w)
<1>1. CASE UNCHANGED vars
  BY <1>1 DEF vars
<1>2. ASSUME NEW w \in Worker, Call(w)
      PROVE  db'.outcome = db.outcome /\ db'.seen = db.seen /\ db'.quarantine = db.quarantine
  <2>1. ASSUME NEW run, NEW batch, NEW rules, Start(w, run, batch, rules)
        PROVE  db'.outcome = db.outcome /\ db'.seen = db.seen /\ db'.quarantine = db.quarantine
    BY <2>1 DEF Start, TypeOK, TablesOK, TABLES
  <2>2. ASSUME NEW rows, Reconcile(w, rows)
        PROVE  db'.outcome = db.outcome /\ db'.seen = db.seen /\ db'.quarantine = db.quarantine
    BY <2>2 DEF Reconcile, TypeOK, TablesOK, TABLES
  <2> QED
    BY <1>2, <2>1, <2>2 DEF Call
<1>3. ASSUME NEW w \in Worker, MarkSucceeded(w) \/ MarkFailed(w)
      PROVE  db'.outcome = db.outcome /\ db'.seen = db.seen /\ db'.quarantine = db.quarantine
  BY <1>3 DEF MarkSucceeded, MarkFailed, TypeOK, TablesOK, TABLES
<1>4. ASSUME NEW w \in Worker,
             \/ Begin(w) \/ IngestOne(w) \/ Rebuild(w) \/ Fail(w) \/ LockTimeout(w)
             \/ ReadCount(w) \/ ReadAbsoluteDelta(w) \/ Return(w) \/ Crash(w)
      PROVE  db' = db
  BY <1>4 DEF Begin, IngestOne, IngestInvalid, IngestReplay, IngestConflict, IngestNew,
              Count, Rebuild, Fail, LockTimeout, ReadCount, ReadAbsoluteDelta, Return, Crash
<1> QED
  BY <1>1, <1>2, <1>3, <1>4 DEF Next, Step

\* The journal and the outcomes: what a step may do to them.
LEMMA JournalChange ==
  ASSUME TypeOK, JournalInv, [Next]_vars, NEW r \in RunId
  PROVE  /\ db.outcome[r] # None => db'.outcome[r] = db.outcome[r]
         /\ db.journal[r] \in {"SUCCEEDED", "FAILED"} => db'.journal[r] = db.journal[r]
<1>1. CASE UNCHANGED db
  BY <1>1
<1>2. ASSUME NEW w \in Worker, NEW run \in RunId, NEW batch, NEW rules,
             Start(w, run, batch, rules)
      PROVE  /\ db'.outcome = db.outcome
             /\ db'.journal = [db.journal EXCEPT ![run] = "STARTED"]
             /\ db.journal[run] = None
  BY <1>2 DEF Start, TypeOK, TablesOK, TABLES
<1>3. ASSUME NEW w \in Worker, NEW rows, Reconcile(w, rows)
      PROVE  db'.outcome = db.outcome /\ db'.journal = db.journal
  BY <1>3 DEF Reconcile, TypeOK, TablesOK, TABLES
<1>4. ASSUME NEW w \in Worker, Commit(w)
      PROVE  /\ db'.outcome = [db.outcome EXCEPT ![job[w].run] = counts[w]]
             /\ db.outcome[job[w].run] = None
             /\ db'.journal = db.journal
  BY <1>4 DEF Commit, TypeOK, TablesOK, TABLES, JournalInv, RunsInProgress,
              TransactionExtends, NoTrace
<1>5. ASSUME NEW w \in Worker, MarkSucceeded(w) \/ MarkFailed(w)
      PROVE  /\ db'.outcome = db.outcome
             /\ db.journal[job[w].run] = "STARTED"
             /\ \E s \in STATUSES : db'.journal = [db.journal EXCEPT ![job[w].run] = s]
  <2>1. job[w].run # None
    BY <1>5 DEF MarkSucceeded, MarkFailed, TypeOK
  <2> QED
    BY <1>5, <2>1 DEF MarkSucceeded, MarkFailed, TypeOK, TablesOK, TABLES, JournalInv,
                      RunsInProgress
<1>6. ASSUME NEW w \in Worker,
             \/ Begin(w) \/ IngestOne(w) \/ Rebuild(w) \/ Fail(w) \/ LockTimeout(w)
             \/ ReadCount(w) \/ ReadAbsoluteDelta(w) \/ Return(w) \/ Crash(w)
      PROVE  UNCHANGED db
  BY <1>6 DEF Begin, IngestOne, IngestInvalid, IngestReplay, IngestConflict, IngestNew,
              Count, Rebuild, Fail, LockTimeout, ReadCount, ReadAbsoluteDelta, Return, Crash
<1>7. /\ db.journal \in [RunId -> STATUSES \cup {None}]
      /\ db.outcome \in [RunId -> Outcome \cup {None}]
  BY DEF TypeOK, TablesOK
<1> QED
  BY <1>1, <1>2, <1>3, <1>4, <1>5, <1>6, <1>7 DEF Next, Call, Step, vars

\* Nothing a run committed is taken back by a later run, a failure, a crash or
\* a settlement delivery.
THEOREM CommittedEvidenceStays == Spec => EvidenceIsPermanent
<1>1. TypeOK /\ JournalInv /\ [Next]_vars =>
        [/\ db.seen \subseteq db'.seen
         /\ db.accepted \subseteq db'.accepted
         /\ db.quarantine \subseteq db'.quarantine
         /\ \A r \in RunId :
              /\ db.outcome[r] # None => db'.outcome[r] = db.outcome[r]
              /\ db.journal[r] \in {"SUCCEEDED", "FAILED"} => db'.journal[r] = db.journal[r]]_db
  <2> SUFFICES ASSUME TypeOK, JournalInv, [Next]_vars
               PROVE  /\ db.seen \subseteq db'.seen
                      /\ db.accepted \subseteq db'.accepted
                      /\ db.quarantine \subseteq db'.quarantine
    BY JournalChange
  <2>1. CASE \E w \in Worker : Commit(w)
    <3>1. PICK w \in Worker : Commit(w)
      BY <2>1
    <3>2. db'.seen = tx.seen /\ db'.quarantine = tx.quarantine /\ db'.accepted = tx.accepted
      BY <3>1 DEF Commit, TypeOK, TablesOK, TABLES
    <3>3. lock = w
      BY <3>1 DEF Commit, TypeOK
    <3> QED
      BY <3>2, <3>3 DEF JournalInv, TransactionExtends
  <2>2. CASE \A w \in Worker : ~Commit(w)
    <3>1. db'.accepted = db.accepted
      BY <2>2, HistoryStep
    <3> QED
      BY <2>2, <3>1, EvidenceStep
  <2> QED
    BY <2>1, <2>2
<1> QED
  BY <1>1, TypeCorrect, JournalAlways, PTL DEF Spec, EvidenceIsPermanent

-----------------------------------------------------------------------------
(* Every arrival is reconciled                                             *)

\* The Counter of a run agrees with the rows its transaction has written.
Counted(tables, run, count) ==
  /\ IsFiniteSet(Reserved(tables, run))
  /\ IsFiniteSet(Held(tables, run))
  /\ count["ARRIVAL"] = count["ACCEPTED"] + count["DUPLICATE"] + count["QUARANTINED"]
  /\ count["ACCEPTED"] = Cardinality(Reserved(tables, run))
  /\ count["QUARANTINED"] = Cardinality(Held(tables, run))

CountingInv ==
  /\ \A w \in Worker : pc[w] \in {"idle", "begin"} => counts[w] = ZeroCounts
  /\ \A w \in Worker : lock = w =>
       /\ Counted(tx, job[w].run, counts[w])
       /\ \A q \in Held(tx, job[w].run) : q.index \in Nat /\ q.index < job[w].index
  /\ ArrivalsReconciled

\* A run that has left no trace has counted nothing.
LEMMA CountedNothing ==
  ASSUME NEW tables, NEW run, NoTrace(tables, run)
  PROVE  Counted(tables, run, ZeroCounts) /\ Held(tables, run) = {}
<1>1. Reserved(tables, run) = {} /\ Held(tables, run) = {}
  BY DEF NoTrace, Reserved, Held
<1> QED
  BY <1>1, FS_EmptySet DEF Counted, ZeroCounts, OUTCOMES

\* A record adds to one of the counts what it adds to the rows.
LEMMA CountingIngest ==
  ASSUME TypeOK, IdentityOK(tx), CountingInv, NEW w \in Worker, IngestOne(w)
  PROVE  /\ Counted(tx', job'[w].run, counts'[w])
         /\ \A q \in Held(tx', job'[w].run) : q.index \in Nat /\ q.index < job'[w].index
<1> DEFINE run == job[w].run
<1>1. lock = w /\ pc[w] = "ingest" /\ job[w].index \in Nat
  BY IngestFrame DEF Reading, TypeOK, Job
<1>2. Counted(tx, run, counts[w]) /\ \A q \in Held(tx, run) : q.index \in Nat /\ q.index < job[w].index
  BY <1>1 DEF CountingInv
<1>3. job'[w].run = run /\ job'[w].index = job[w].index + 1
  BY IngestFrame DEF TypeOK, Job
<1>4. \A o \in OUTCOMES : counts[w][o] \in Nat
  BY DEF TypeOK, Outcome
<1>5. ASSUME NEW outcome \in OUTCOMES, Count(w, outcome)
      PROVE  counts'[w] = [o \in OUTCOMES |-> IF o \in {"ARRIVAL", outcome}
                                              THEN counts[w][o] + 1 ELSE counts[w][o]]
  BY <1>5 DEF Count, TypeOK
<1>6. CASE IngestInvalid(w) \/ IngestConflict(w)
  <2>1. PICK reason : /\ tx' = [tx EXCEPT !.quarantine = @ \cup {QuarantineRow(w, reason)}]
                      /\ Count(w, "QUARANTINED")
    BY <1>6 DEF IngestInvalid, IngestConflict
  <2> DEFINE row == QuarantineRow(w, reason)
  <2>2. row.run = run /\ row.index = job[w].index
    BY DEF QuarantineRow
  <2>3. tx'.quarantine = tx.quarantine \cup {row} /\ tx'.seen = tx.seen
    BY <2>1 DEF TypeOK, TablesOK, TABLES
  <2>4. row \notin Held(tx, run)
    BY <1>1, <1>2, <2>2
  <2> HIDE DEF row
  <2>5. Held(tx', run) = Held(tx, run) \cup {row} /\ Reserved(tx', run) = Reserved(tx, run)
    BY <2>2, <2>3 DEF Held, Reserved
  <2>6. /\ IsFiniteSet(Held(tx', run))
        /\ Cardinality(Held(tx', run)) = Cardinality(Held(tx, run)) + 1
    BY <1>2, <2>4, <2>5, FS_AddElement DEF Counted
  <2>7. counts'[w] = [o \in OUTCOMES |-> IF o \in {"ARRIVAL", "QUARANTINED"}
                                         THEN counts[w][o] + 1 ELSE counts[w][o]]
    BY <1>5, <2>1 DEF OUTCOMES
  <2>8. Counted(tx', run, counts'[w])
    BY <1>2, <1>4, <2>5, <2>6, <2>7 DEF Counted, OUTCOMES
  <2>9. \A q \in Held(tx', run) : q.index \in Nat /\ q.index < job[w].index + 1
    BY <1>1, <1>2, <2>2, <2>5
  <2> QED
    BY <1>3, <2>8, <2>9
<1>7. CASE IngestReplay(w)
  <2>1. tx' = tx /\ Count(w, "DUPLICATE")
    BY <1>7 DEF IngestReplay
  <2>2. counts'[w] = [o \in OUTCOMES |-> IF o \in {"ARRIVAL", "DUPLICATE"}
                                         THEN counts[w][o] + 1 ELSE counts[w][o]]
    BY <1>5, <2>1 DEF OUTCOMES
  <2>3. Counted(tx', run, counts'[w])
    BY <1>2, <1>4, <2>1, <2>2 DEF Counted, OUTCOMES
  <2> QED
    BY <1>1, <1>2, <1>3, <2>1, <2>3
<1>8. CASE IngestNew(w)
  <2> DEFINE row == [id |-> Arrival(w).id, identity |-> Fingerprint(Arrival(w)), run |-> run]
  <2>1. tx'.seen = tx.seen \cup {row} /\ tx'.quarantine = tx.quarantine
    BY <1>8 DEF IngestNew, TypeOK, TablesOK, TABLES
  <2>2. row \notin tx.seen /\ row.run = run
    BY <1>8 DEF IngestNew, Seen
  <2> HIDE DEF row
  <2>3. Reserved(tx', run) = Reserved(tx, run) \cup {row} /\ Held(tx', run) = Held(tx, run)
    BY <2>1, <2>2 DEF Held, Reserved
  <2>4. /\ IsFiniteSet(Reserved(tx', run))
        /\ Cardinality(Reserved(tx', run)) = Cardinality(Reserved(tx, run)) + 1
    <3>1. row \notin Reserved(tx, run)
      BY <2>2 DEF Reserved
    <3> QED
      BY <1>2, <2>3, <3>1, FS_AddElement DEF Counted
  <2>5. counts'[w] = [o \in OUTCOMES |-> IF o \in {"ARRIVAL", "ACCEPTED"}
                                         THEN counts[w][o] + 1 ELSE counts[w][o]]
    BY <1>5, <1>8 DEF IngestNew, OUTCOMES
  <2>6. Counted(tx', run, counts'[w])
    BY <1>2, <1>4, <2>3, <2>4, <2>5 DEF Counted, OUTCOMES
  <2> QED
    BY <1>1, <1>2, <1>3, <2>3, <2>6
<1> QED
  BY <1>6, <1>7, <1>8 DEF IngestOne

\* The counts of a committed run become its outcomes; those of other runs
\* keep describing their rows.
LEMMA CountingCommit ==
  ASSUME TypeOK, JournalInv, CountingInv, NEW w \in Worker, Commit(w)
  PROVE  ArrivalsReconciled'
<1> DEFINE run == job[w].run
<1>1. lock = w /\ run \in RunId
  BY DEF Commit, TypeOK, Job
<1>2. /\ db'.outcome = [db.outcome EXCEPT ![run] = counts[w]]
      /\ db'.seen = tx.seen /\ db'.quarantine = tx.quarantine
      /\ db.outcome \in [RunId -> Outcome \cup {None}]
  BY <1>1 DEF Commit, TypeOK, TablesOK, TABLES, JournalInv, TransactionExtends
<1>3. Counted(tx, run, counts[w])
  BY <1>1 DEF CountingInv
<1>4. \A r \in RunId \ {run} : Reserved(tx, r) = Reserved(db, r) /\ Held(tx, r) = Held(db, r)
  BY <1>1 DEF JournalInv, TransactionExtends, Reserved, Held
<1>5. \A r : Reserved(db', r) = Reserved(tx, r) /\ Held(db', r) = Held(tx, r)
  BY <1>2 DEF Reserved, Held
<1>6. ASSUME NEW r \in RunId \ {run}, db'.outcome[r] # None
      PROVE  /\ db'.outcome[r] = db.outcome[r]
             /\ Reserved(db', r) = Reserved(db, r) /\ Held(db', r) = Held(db, r)
  BY <1>2, <1>4, <1>5
<1>7. db'.outcome[run] = counts[w]
  BY <1>1, <1>2
<1> QED
  BY <1>3, <1>5, <1>6, <1>7 DEF CountingInv, ArrivalsReconciled, Counted

\* The worker whose transaction is open after a step either was ingesting
\* already or has just begun.
LEMMA CountingStep ==
  ASSUME TypeOK, JournalInv, IdentityOK(tx), CountingInv, NEW w \in Worker,
         Call(w) \/ Step(w) \/ Crash(w)
  PROVE  /\ \A v \in Worker : pc'[v] \in {"idle", "begin"} => counts'[v] = ZeroCounts
         /\ \A v \in Worker : lock' = v =>
              /\ Counted(tx', job'[v].run, counts'[v])
              /\ \A q \in Held(tx', job'[v].run) : q.index \in Nat /\ q.index < job'[v].index
<1>1. CASE Call(w)
  <2>1. /\ lock' = None /\ counts' = counts /\ pc[w] = "idle"
        /\ \A v \in Worker \ {w} : pc'[v] = pc[v]
    BY <1>1 DEF Call, Start, Reconcile, TypeOK
  <2> QED
    BY <2>1 DEF CountingInv
<1>2. CASE Begin(w)
  <2>1. lock' = w /\ tx' = db /\ job' = job /\ counts[w] = ZeroCounts /\ counts' = counts
    BY <1>2 DEF Begin, CountingInv
  <2>2. NoTrace(db, job[w].run)
    BY <1>2 DEF Begin, JournalInv, RunsInProgress
  <2>3. Counted(db, job[w].run, counts[w]) /\ Held(db, job[w].run) = {}
    BY <2>1, <2>2, CountedNothing
  <2> QED
    BY <1>2, <2>1, <2>3 DEF Begin, CountingInv, TypeOK
<1>3. CASE IngestOne(w)
  <2>1. lock = w /\ lock' = w /\ pc[w] = "ingest" /\ pc' = pc
    BY <1>3, IngestFrame DEF Reading, TypeOK
  <2>2. \A v \in Worker \ {w} : counts'[v] = counts[v]
    BY <1>3 DEF IngestOne, IngestInvalid, IngestReplay, IngestConflict, IngestNew, Count, TypeOK
  <2> QED
    BY <1>3, <2>1, <2>2, CountingIngest DEF CountingInv
<1>4. CASE Rebuild(w)
  <2>1. /\ tx'.seen = tx.seen /\ tx'.quarantine = tx.quarantine
        /\ UNCHANGED <<lock, job, counts>> /\ pc' = [pc EXCEPT ![w] = "commit"]
    BY <1>4 DEF Rebuild, Rebuilt, TypeOK, TablesOK, TABLES
  <2>2. \A r : Reserved(tx', r) = Reserved(tx, r) /\ Held(tx', r) = Held(tx, r)
    BY <2>1 DEF Reserved, Held
  <2>3. \A r, c : Counted(tx', r, c) <=> Counted(tx, r, c)
    BY <2>2 DEF Counted
  <2> QED
    BY <2>1, <2>2, <2>3 DEF CountingInv, TypeOK
<1>5. CASE Commit(w) \/ Fail(w)
  <2>1. /\ lock' = None /\ counts' = counts
        /\ pc' \in {[pc EXCEPT ![w] = "succeeding"], [pc EXCEPT ![w] = "failing"]}
    BY <1>5 DEF Commit, Fail, Release
  <2> QED
    BY <2>1 DEF CountingInv, TypeOK
<1>6. ASSUME EndCall(w), \/ UNCHANGED <<tx, lock>> /\ lock # w
                         \/ lock' = None
      PROVE  /\ \A v \in Worker : pc'[v] \in {"idle", "begin"} => counts'[v] = ZeroCounts
             /\ \A v \in Worker : lock' = v =>
                  /\ Counted(tx', job'[v].run, counts'[v])
                  /\ \A q \in Held(tx', job'[v].run) : q.index \in Nat /\ q.index < job'[v].index
  BY <1>6 DEF EndCall, CountingInv, TypeOK
<1>7. CASE MarkSucceeded(w) \/ MarkFailed(w)
  BY <1>6, <1>7 DEF MarkSucceeded, MarkFailed
<1>8. CASE LockTimeout(w)
  <2>1. CASE EndCall(w)
    BY <1>6, <1>8, <2>1 DEF LockTimeout
  <2>2. CASE pc' = [pc EXCEPT ![w] = "failing"] /\ UNCHANGED <<job, counts, report>>
    BY <1>8, <2>2 DEF LockTimeout, CountingInv, TypeOK
  <2> QED
    BY <1>8, <2>1, <2>2 DEF LockTimeout
<1>9. CASE ReadCount(w) \/ ReadAbsoluteDelta(w)
  BY <1>9 DEF ReadCount, ReadAbsoluteDelta, CountingInv, TypeOK
<1>10. CASE Return(w)
  <2>1. lock # w
    BY <1>10 DEF Return, TypeOK
  <2> QED
    BY <1>6, <1>10, <2>1 DEF Return
<1>11. CASE Crash(w)
  BY <1>6, <1>11 DEF Crash, Release
<1> QED
  BY <1>1, <1>2, <1>3, <1>4, <1>5, <1>7, <1>8, <1>9, <1>10, <1>11 DEF Step

\* Every arrival of a committed run is classified exactly once, and its counts
\* are the numbers of rows the run left, however runs interleave or die.
THEOREM EveryArrivalReconciled == Spec => []ArrivalsReconciled
<1>1. Init => CountingInv
  BY DEF Init, CountingInv, ArrivalsReconciled, EmptyTables
<1>2. TypeOK /\ JournalInv /\ IdentityOK(tx) /\ CountingInv /\ [Next]_vars => CountingInv'
  <2> SUFFICES ASSUME TypeOK, JournalInv, IdentityOK(tx), CountingInv, [Next]_vars
               PROVE  CountingInv'
    OBVIOUS
  <2>1. ArrivalsReconciled'
    <3>1. CASE \E w \in Worker : Commit(w)
      BY <3>1, CountingCommit
    <3>2. CASE /\ db'.outcome = db.outcome
               /\ db'.seen = db.seen
               /\ db'.quarantine = db.quarantine
      BY <3>2 DEF CountingInv, ArrivalsReconciled, Reserved, Held
    <3> QED
      BY <3>1, <3>2, EvidenceStep
  <2>2. CASE UNCHANGED vars
    BY <2>1, <2>2 DEF vars, CountingInv
  <2>3. CASE Next
    BY <2>1, <2>3, CountingStep DEF Next, CountingInv
  <2> QED
    BY <2>2, <2>3
<1>3. CountingInv => ArrivalsReconciled
  BY DEF CountingInv
<1>4. IdentityOK(db) /\ IdentityOK(tx) => IdentityOK(tx)
  OBVIOUS
<1> QED
  BY <1>1, <1>2, <1>3, TypeCorrect, JournalAlways, IdentityAlways, PTL DEF Spec

-----------------------------------------------------------------------------
(* The store implements DerivedBook                                        *)

\* The open transaction holds the history plus events of its batch, and once
\* rebuilt exactly the book of that history, with no settlement comparison.
BookInv ==
  /\ \A w \in Worker : pc[w] \in {"begin", "ingest", "commit"} =>
       job[w].batch \in Batches /\ job[w].rules \in LoadedRules
  /\ \A w \in Worker : lock = w =>
       \E I \in SUBSET DOMAIN job[w].batch :
         tx.accepted = db.accepted \cup {EventOf(job[w].batch[i]) : i \in I}
  /\ \A w \in Worker : pc[w] = "commit" =>
       /\ StoreBook(tx) = Book(tx.accepted, job[w].rules)
       /\ Balanced(tx.ledger)
       /\ tx.actual = {} /\ tx.delta = {}

\* The book of a history, table by table.
LEMMA BookFields ==
  ASSUME NEW accepted, NEW rules
  PROVE  Book(accepted, rules) =
           [posted    |-> Book(accepted, rules).posted,
            exception |-> Book(accepted, rules).exception,
            ledger    |-> Book(accepted, rules).ledger,
            state     |-> Book(accepted, rules).state]
  BY DEF Book

\* A record adds to the history at most its own event.
LEMMA BookIngest ==
  ASSUME TypeOK, BookInv, NEW w \in Worker, IngestOne(w)
  PROVE  \E I \in SUBSET DOMAIN job'[w].batch :
           tx'.accepted = db'.accepted \cup {EventOf(job'[w].batch[i]) : i \in I}
<1> DEFINE batch == job[w].batch
<1>1. lock = w /\ job[w].index \in DOMAIN batch /\ UNCHANGED db
  BY IngestFrame DEF Reading, TypeOK
<1>2. job'[w].batch = batch
  BY IngestFrame DEF TypeOK, Job
<1>3. PICK I \in SUBSET DOMAIN batch :
        tx.accepted = db.accepted \cup {EventOf(batch[i]) : i \in I}
  BY <1>1 DEF BookInv
<1>4. CASE IngestInvalid(w) \/ IngestReplay(w) \/ IngestConflict(w)
  <2>1. tx'.accepted = tx.accepted
    BY <1>4 DEF IngestInvalid, IngestReplay, IngestConflict, TypeOK, TablesOK, TABLES
  <2> QED
    BY <1>1, <1>2, <1>3, <2>1
<1>5. CASE IngestNew(w)
  <2> DEFINE J == I \cup {job[w].index}
  <2>1. tx'.accepted = tx.accepted \cup {EventOf(batch[job[w].index])}
    BY <1>5 DEF IngestNew, Arrival, TypeOK, TablesOK, TABLES
  <2>2. tx'.accepted = db.accepted \cup {EventOf(batch[i]) : i \in J}
    BY <1>3, <2>1
  <2>3. J \in SUBSET DOMAIN batch
    BY <1>1
  <2> HIDE DEF J
  <2> QED
    BY <1>1, <1>2, <2>2, <2>3
<1> QED
  BY <1>4, <1>5 DEF IngestOne

\* The rebuild leaves the history and stores its book.
LEMMA BookRebuild ==
  ASSUME TypeOK, NEW w \in Worker, Rebuild(w)
  PROVE  /\ tx'.accepted = tx.accepted
         /\ StoreBook(tx') = Book(tx'.accepted, job[w].rules)
         /\ Balanced(tx'.ledger)
         /\ tx'.actual = {} /\ tx'.delta = {}
<1> DEFINE book == Book(tx.accepted, job[w].rules)
<1>1. /\ tx'.accepted = tx.accepted
      /\ tx'.posted = book.posted /\ tx'.exception = book.exception
      /\ tx'.ledger = book.ledger /\ tx'.state = book.state
      /\ tx'.actual = {} /\ tx'.delta = {}
  BY DEF Rebuild, Rebuilt, TypeOK, TablesOK, TABLES
<1>2. Balanced(book.ledger)
  BY DEF Rebuild
<1>3. StoreBook(tx') = book
  BY <1>1, BookFields DEF StoreBook
<1> QED
  BY <1>1, <1>2, <1>3

\* Every step keeps the open transaction between the history of the file and that of its
\* batch.
LEMMA BookStep ==
  ASSUME TypeOK, BookInv, NEW w \in Worker, Call(w) \/ Step(w) \/ Crash(w)
  PROVE  BookInv'
<1>1. CASE Call(w)
  <2>1. lock' = None /\ lock = None
    BY <1>1 DEF Call, Start, Reconcile
  <2>2. ASSUME NEW run \in RunId, NEW batch \in Batches, NEW rules \in LoadedRules,
               Start(w, run, batch, rules)
        PROVE  \A v \in Worker : pc'[v] \in {"begin", "ingest", "commit"} =>
                 job'[v].batch \in Batches /\ job'[v].rules \in LoadedRules
    BY <2>2 DEF Start, BookInv, TypeOK
  <2>3. ASSUME NEW rows, Reconcile(w, rows)
        PROVE  \A v \in Worker : pc'[v] \in {"begin", "ingest", "commit"} =>
                 job'[v].batch \in Batches /\ job'[v].rules \in LoadedRules
    BY <2>3 DEF Reconcile, BookInv, TypeOK
  <2>4. \A v \in Worker : pc'[v] # "commit"
    BY <1>1, <2>1 DEF Call, Start, Reconcile, TypeOK
  <2> QED
    BY <1>1, <2>1, <2>2, <2>3, <2>4 DEF Call, BookInv
<1>2. CASE Begin(w)
  <2>1. lock' = w /\ tx' = db /\ db' = db /\ job' = job /\ pc' = [pc EXCEPT ![w] = "ingest"]
    BY <1>2 DEF Begin
  <2>2. \A v \in Worker : pc[v] # "commit"
    BY <1>2 DEF Begin, TypeOK
  <2>3. tx'.accepted = db'.accepted \cup {EventOf(job'[w].batch[i]) : i \in {}}
    BY <2>1
  <2>4. {} \in SUBSET DOMAIN job'[w].batch
    OBVIOUS
  <2>5. \E I \in SUBSET DOMAIN job'[w].batch :
          tx'.accepted = db'.accepted \cup {EventOf(job'[w].batch[i]) : i \in I}
    BY <2>3, <2>4
  <2> QED
    BY <1>2, <2>1, <2>2, <2>5 DEF Begin, BookInv, TypeOK
<1>3. CASE IngestOne(w)
  <2>1. lock' = w /\ pc' = pc /\ pc[w] = "ingest" /\ lock = w
    BY <1>3, IngestFrame DEF Reading, TypeOK
  <2>2. \A v \in Worker : job'[v].batch = job[v].batch /\ job'[v].rules = job[v].rules
    BY <1>3, IngestFrame
  <2>3. \A v \in Worker : pc'[v] # "commit"
    BY <2>1 DEF TypeOK
  <2> QED
    BY <1>3, <2>1, <2>2, <2>3, BookIngest DEF BookInv
<1>4. CASE Rebuild(w)
  <2>1. UNCHANGED <<db, lock, job>> /\ pc' = [pc EXCEPT ![w] = "commit"] /\ pc[w] = "ingest"
    BY <1>4 DEF Rebuild
  <2>2. lock = w /\ \A v \in Worker : pc'[v] = "commit" => v = w
    BY <2>1 DEF TypeOK
  <2> QED
    BY <1>4, <2>1, <2>2, BookRebuild DEF BookInv, TypeOK
<1>5. CASE Commit(w) \/ Fail(w)
  <2>1. /\ lock' = None /\ job' = job /\ lock = w
        /\ pc' \in {[pc EXCEPT ![w] = "succeeding"], [pc EXCEPT ![w] = "failing"]}
    BY <1>5 DEF Commit, Fail, Release, TypeOK
  <2>2. \A v \in Worker : pc'[v] # "commit"
    BY <2>1 DEF TypeOK
  <2> QED
    BY <2>1, <2>2 DEF BookInv, TypeOK
<1>6. ASSUME EndCall(w), \/ UNCHANGED <<db, tx, lock>> /\ lock # w
                         \/ lock' = None /\ (lock = None \/ lock = w)
      PROVE  BookInv'
  <2>1. pc' = [pc EXCEPT ![w] = "idle"] /\ \A v \in Worker \ {w} : job'[v] = job[v]
    BY <1>6, EndCallTypes
  <2>2. CASE UNCHANGED <<db, tx, lock>> /\ lock # w
    BY <2>1, <2>2 DEF BookInv, TypeOK
  <2>3. CASE lock' = None /\ (lock = None \/ lock = w)
    <3>1. \A v \in Worker : pc'[v] # "commit"
      BY <2>1, <2>3 DEF TypeOK
    <3> QED
      BY <2>1, <2>3, <3>1 DEF BookInv, TypeOK
  <2> QED
    BY <1>6, <2>2, <2>3
<1>7. CASE MarkSucceeded(w) \/ MarkFailed(w)
  BY <1>6, <1>7 DEF MarkSucceeded, MarkFailed
<1>8. CASE LockTimeout(w)
  <2>1. CASE EndCall(w)
    BY <1>6, <1>8, <2>1 DEF LockTimeout
  <2>2. CASE pc' = [pc EXCEPT ![w] = "failing"] /\ UNCHANGED <<job, counts, report>>
    BY <1>8, <2>2 DEF LockTimeout, BookInv, TypeOK
  <2> QED
    BY <1>8, <2>1, <2>2 DEF LockTimeout
<1>9. CASE ReadCount(w) \/ ReadAbsoluteDelta(w)
  BY <1>9 DEF ReadCount, ReadAbsoluteDelta, BookInv, TypeOK
<1>10. CASE Return(w)
  <2>1. lock # w
    BY <1>10 DEF Return, TypeOK
  <2> QED
    BY <1>6, <1>10, <2>1 DEF Return
<1>11. CASE Crash(w)
  <2>1. CASE lock = w
    BY <1>6, <1>11, <2>1 DEF Crash, Release
  <2>2. CASE lock # w
    BY <1>6, <1>11, <2>2 DEF Crash
  <2> QED
    BY <2>1, <2>2
<1> QED
  BY <1>1, <1>2, <1>3, <1>4, <1>5, <1>7, <1>8, <1>9, <1>10, <1>11 DEF Step

\* The book layer is inductive.
LEMMA BookAlways == Spec => []BookInv
<1>1. Init => BookInv
  BY DEF Init, BookInv
<1>2. TypeOK /\ BookInv /\ [Next]_vars => BookInv'
  <2> SUFFICES ASSUME TypeOK, BookInv, [Next]_vars PROVE BookInv'
    OBVIOUS
  <2>1. CASE Next
    BY <2>1, BookStep DEF Next
  <2>2. CASE UNCHANGED vars
    BY <2>2 DEF vars, BookInv, StoreBook
  <2> QED
    BY <2>1, <2>2
<1> QED
  BY <1>1, <1>2, TypeCorrect, PTL DEF Spec

\* Outside a commit the abstract state does not move.
LEMMA BookStutter ==
  ASSUME TypeOK, [Next]_vars, \A w \in Worker : ~Commit(w)
  PROVE  UNCHANGED <<db.accepted, StoreBook(db)>>
<1>1. db'.accepted = db.accepted
  BY HistoryStep
<1>2. ASSUME NEW w \in Worker, NEW run, NEW batch, NEW rules, Start(w, run, batch, rules)
      PROVE  StoreBook(db') = StoreBook(db)
  BY <1>2 DEF Start, StoreBook, TypeOK, TablesOK, TABLES
<1>3. ASSUME NEW w \in Worker, NEW rows, Reconcile(w, rows)
      PROVE  StoreBook(db') = StoreBook(db)
  BY <1>3 DEF Reconcile, StoreBook, TypeOK, TablesOK, TABLES
<1>4. ASSUME NEW w \in Worker, MarkSucceeded(w) \/ MarkFailed(w)
      PROVE  StoreBook(db') = StoreBook(db)
  BY <1>4 DEF MarkSucceeded, MarkFailed, StoreBook, TypeOK, TablesOK, TABLES
<1>5. ASSUME NEW w \in Worker,
             \/ Begin(w) \/ IngestOne(w) \/ Rebuild(w) \/ Fail(w) \/ LockTimeout(w)
             \/ ReadCount(w) \/ ReadAbsoluteDelta(w) \/ Return(w) \/ Crash(w)
      PROVE  db' = db
  BY <1>5 DEF Begin, IngestOne, IngestInvalid, IngestReplay, IngestConflict, IngestNew,
              Count, Rebuild, Fail, LockTimeout, ReadCount, ReadAbsoluteDelta, Return, Crash
<1>6. StoreBook(db') = StoreBook(db)
  BY <1>2, <1>3, <1>4, <1>5 DEF Next, Call, Step, vars
<1> QED
  BY <1>1, <1>6

\* A commit is one atomic step of the abstract specification.
LEMMA BookCommit ==
  ASSUME TypeOK, JournalInv, IdentityOK(tx), BookInv, NEW w \in Worker, Commit(w)
  PROVE  Abstract!Next
<1> DEFINE batch == job[w].batch
           rules == job[w].rules
<1>1. lock = w /\ batch \in Batches /\ rules \in LoadedRules
  BY DEF Commit, TypeOK, BookInv
<1>2. PICK I \in SUBSET DOMAIN batch :
        tx.accepted = db.accepted \cup {EventOf(batch[i]) : i \in I}
  BY <1>1 DEF BookInv
<1> DEFINE events == {EventOf(batch[i]) : i \in I}
<1>3. events \in BatchArrivals
  BY <1>1 DEF BatchArrivals
<1>4. db'.accepted = tx.accepted /\ StoreBook(db') = StoreBook(tx)
  BY DEF Commit, StoreBook, TypeOK, TablesOK, TABLES
<1>5. /\ StoreBook(tx) = Book(tx.accepted, rules)
      /\ Balanced(tx.ledger)
  BY DEF Commit, BookInv
<1>6. SoundBook(Book(tx.accepted, rules))
  <2>1. Book(tx.accepted, rules).ledger = tx.ledger
    BY <1>5 DEF StoreBook
  <2> QED
    BY <1>5, <2>1 DEF SoundBook
<1>7. Abstract!OneEventPerId(tx.accepted)
  BY DEF Abstract!OneEventPerId, IdentityOK
<1> HIDE DEF events, rules
<1>8. Abstract!Record(events, rules)
  BY <1>2, <1>4, <1>5, <1>6, <1>7 DEF Abstract!Record, events
<1> QED
  BY <1>1, <1>3, <1>8 DEF Abstract!Next, rules

\* The transactional core implements the atomic specification: whatever the
\* workers, crashes, rollbacks and settlement deliveries, the book is the
\* projection of the accepted history after every step.
THEOREM StoreImplementsDerivedBook == Spec => ImplementsDerivedBook
<1>1. Init => Abstract!Init
  BY DEF Init, Abstract!Init, EmptyTables, StoreBook, EmptyBook
<1>2. TypeOK /\ JournalInv /\ (IdentityOK(db) /\ IdentityOK(tx)) /\ BookInv /\ [Next]_vars
        => [Abstract!Next]_(Abstract!vars)
  <2> SUFFICES ASSUME TypeOK, JournalInv, IdentityOK(tx), BookInv, [Next]_vars
               PROVE  [Abstract!Next]_(Abstract!vars)
    OBVIOUS
  <2>1. CASE \E w \in Worker : Commit(w)
    BY <2>1, BookCommit
  <2>2. CASE \A w \in Worker : ~Commit(w)
    BY <2>2, BookStutter DEF Abstract!vars
  <2> QED
    BY <2>1, <2>2
<1> QED
  BY <1>1, <1>2, TypeCorrect, JournalAlways, IdentityAlways, BookAlways, PTL
     DEF Spec, ImplementsDerivedBook, Abstract!Spec

-----------------------------------------------------------------------------
(* The two money gates of the stored tables                                *)

\* What a step does to the ledger and to the settlement comparison.
LEMMA MoneyStep ==
  ASSUME TypeOK, BookInv, [Next]_vars
  PROVE  /\ db'.ledger = db.ledger \/ Balanced(db'.ledger)
         /\ \/ /\ db'.posted = db.posted
               /\ db'.actual = db.actual /\ db'.delta = db.delta
            \/ db'.actual = {} /\ db'.delta = {}
            \/ db'.delta = SettlementDeltas(db'.posted, db'.actual)
<1>1. ASSUME NEW w \in Worker, Commit(w)
      PROVE  Balanced(db'.ledger) /\ db'.actual = {} /\ db'.delta = {}
  <2>1. db'.ledger = tx.ledger /\ db'.actual = tx.actual /\ db'.delta = tx.delta
    BY <1>1 DEF Commit, TypeOK, TablesOK, TABLES
  <2> QED
    BY <1>1, <2>1 DEF Commit, BookInv
<1>2. ASSUME NEW w \in Worker, NEW rows, Reconcile(w, rows)
      PROVE  /\ db'.ledger = db.ledger
             /\ db'.delta = SettlementDeltas(db'.posted, db'.actual)
  <2>1. /\ db'.ledger = db.ledger /\ db'.posted = db.posted /\ db'.actual = rows
        /\ db'.delta = SettlementDeltas(db.posted, rows)
    BY <1>2 DEF Reconcile, TypeOK, TablesOK, TABLES
  <2> QED
    BY <2>1
<1>3. ASSUME NEW w \in Worker, NEW run, NEW batch, NEW rules, Start(w, run, batch, rules)
      PROVE  /\ db'.ledger = db.ledger /\ db'.posted = db.posted
             /\ db'.actual = db.actual /\ db'.delta = db.delta
  BY <1>3 DEF Start, TypeOK, TablesOK, TABLES
<1>4. ASSUME NEW w \in Worker, MarkSucceeded(w) \/ MarkFailed(w)
      PROVE  /\ db'.ledger = db.ledger /\ db'.posted = db.posted
             /\ db'.actual = db.actual /\ db'.delta = db.delta
  BY <1>4 DEF MarkSucceeded, MarkFailed, TypeOK, TablesOK, TABLES
<1>5. ASSUME NEW w \in Worker,
             \/ Begin(w) \/ IngestOne(w) \/ Rebuild(w) \/ Fail(w) \/ LockTimeout(w)
             \/ ReadCount(w) \/ ReadAbsoluteDelta(w) \/ Return(w) \/ Crash(w)
      PROVE  db' = db
  BY <1>5 DEF Begin, IngestOne, IngestInvalid, IngestReplay, IngestConflict, IngestNew,
              Count, Rebuild, Fail, LockTimeout, ReadCount, ReadAbsoluteDelta, Return, Crash
<1>6. CASE UNCHANGED vars
  BY <1>6 DEF vars
<1> QED
  BY <1>1, <1>2, <1>3, <1>4, <1>5, <1>6 DEF Next, Call, Step

\* The committed ledger balances in every (event, currency) group, whichever
\* posting rules each run was given.
THEOREM LedgerAlwaysBalanced == Spec => []LedgerBalanced
<1>1. Init => LedgerBalanced
  BY DEF Init, LedgerBalanced, Balanced, EmptyTables
<1>2. TypeOK /\ BookInv /\ LedgerBalanced /\ [Next]_vars => LedgerBalanced'
  BY MoneyStep DEF LedgerBalanced
<1> QED
  BY <1>1, <1>2, TypeCorrect, BookAlways, PTL DEF Spec

\* The stored comparison with processor evidence is never stale: a run that
\* changes what is posted empties it in the same transaction.
THEOREM ComparisonNeverStale == Spec => []ComparisonCurrent
<1>1. Init => ComparisonCurrent
  BY DEF Init, ComparisonCurrent, EmptyTables
<1>2. TypeOK /\ BookInv /\ ComparisonCurrent /\ [Next]_vars => ComparisonCurrent'
  BY MoneyStep DEF ComparisonCurrent
<1> QED
  BY <1>1, <1>2, TypeCorrect, BookAlways, PTL DEF Spec

-----------------------------------------------------------------------------
(* The stored ledger is that of a sound history                            *)

\* The tables hold finitely many rows, and only events that passed the gates.
SoundTables(tables) ==
  /\ IsFiniteSet(tables.seen)
  /\ IsFiniteSet(tables.accepted)
  /\ IsFiniteSet(tables.quarantine)
  /\ \A e \in tables.accepted : ValidEvent(e)

\* Empty tables balance.
LEMMA SoundEmpty == SoundTables(EmptyTables)
  BY FS_EmptySet DEF SoundTables, EmptyTables

\* A record adds at most one row to a table, and an event only if it is valid.
LEMMA SoundIngest ==
  ASSUME TypeOK, SoundTables(tx), NEW w \in Worker, IngestOne(w)
  PROVE  SoundTables(tx')
<1>1. CASE IngestInvalid(w) \/ IngestConflict(w)
  <2>1. PICK row : tx'.quarantine = tx.quarantine \cup {row}
    BY <1>1 DEF IngestInvalid, IngestConflict, TypeOK, TablesOK, TABLES
  <2>2. tx'.seen = tx.seen /\ tx'.accepted = tx.accepted
    BY <1>1 DEF IngestInvalid, IngestConflict, TypeOK, TablesOK, TABLES
  <2> QED
    BY <2>1, <2>2, FS_AddElement DEF SoundTables
<1>2. CASE IngestReplay(w)
  BY <1>2 DEF IngestReplay
<1>3. CASE IngestNew(w)
  <2>1. PICK row : tx'.seen = tx.seen \cup {row}
    BY <1>3 DEF IngestNew, TypeOK, TablesOK, TABLES
  <2>2. /\ tx'.accepted = tx.accepted \cup {EventOf(Arrival(w))}
        /\ tx'.quarantine = tx.quarantine
    BY <1>3 DEF IngestNew, TypeOK, TablesOK, TABLES
  <2>3. ValidEvent(EventOf(Arrival(w)))
    BY <1>3, BatchArrival, DeliveredRecordAssumption DEF IngestNew
  <2>4. \A e \in tx'.accepted : ValidEvent(e)
    BY <2>2, <2>3 DEF SoundTables
  <2>5. IsFiniteSet(tx'.seen)
    BY <2>1, FS_AddElement DEF SoundTables
  <2>6. PICK event : tx'.accepted = tx.accepted \cup {event}
    BY <2>2
  <2>7. IsFiniteSet(tx'.accepted)
    BY <2>6, FS_AddElement DEF SoundTables
  <2> QED
    BY <2>2, <2>4, <2>5, <2>7 DEF SoundTables
<1> QED
  BY <1>1, <1>2, <1>3 DEF IngestOne

\* Every step keeps the tables of the file and of the transaction sound.
LEMMA SoundStep ==
  ASSUME TypeOK, SoundTables(db), SoundTables(tx), [Next]_vars
  PROVE  SoundTables(db') /\ SoundTables(tx')
<1>1. CASE UNCHANGED vars
  BY <1>1 DEF vars, SoundTables
<1>2. ASSUME NEW w \in Worker, Call(w)
      PROVE  SoundTables(db') /\ SoundTables(tx')
  <2>1. ASSUME NEW run, NEW batch, NEW rules, Start(w, run, batch, rules)
        PROVE  SoundTables(db') /\ SoundTables(tx')
    BY <2>1 DEF Start, TypeOK, TablesOK, TABLES, SoundTables
  <2>2. ASSUME NEW rows, Reconcile(w, rows)
        PROVE  SoundTables(db') /\ SoundTables(tx')
    BY <2>2 DEF Reconcile, TypeOK, TablesOK, TABLES, SoundTables
  <2> QED
    BY <1>2, <2>1, <2>2 DEF Call
<1>3. ASSUME NEW w \in Worker,
             \/ Begin(w) \/ Fail(w) \/ LockTimeout(w) \/ ReadCount(w)
             \/ ReadAbsoluteDelta(w) \/ Return(w) \/ Crash(w)
      PROVE  db' = db /\ (tx' = db \/ tx' = tx \/ tx' = EmptyTables)
  BY <1>3 DEF Begin, Fail, LockTimeout, ReadCount, ReadAbsoluteDelta, Return, Crash, Release
<1>4. ASSUME NEW w \in Worker, MarkSucceeded(w) \/ MarkFailed(w)
      PROVE  SoundTables(db') /\ tx' = tx
  BY <1>4 DEF MarkSucceeded, MarkFailed, TypeOK, TablesOK, TABLES, SoundTables
<1>5. ASSUME NEW w \in Worker, Commit(w)
      PROVE  SoundTables(db') /\ tx' = EmptyTables
  BY <1>5 DEF Commit, Release, TypeOK, TablesOK, TABLES, SoundTables
<1>6. ASSUME NEW w \in Worker, Rebuild(w)
      PROVE  db' = db /\ SoundTables(tx')
  BY <1>6 DEF Rebuild, Rebuilt, TypeOK, TablesOK, TABLES, SoundTables
<1>7. ASSUME NEW w \in Worker, IngestOne(w)
      PROVE  db' = db /\ SoundTables(tx')
  BY <1>7, SoundIngest, IngestFrame
<1> QED
  BY <1>1, <1>2, <1>3, <1>4, <1>5, <1>6, <1>7, SoundEmpty DEF Next, Step

\* The tables of the file and of the open transaction are sound.
LEMMA SoundAlways == Spec => [](SoundTables(db) /\ SoundTables(tx))
<1>1. Init => SoundTables(db) /\ SoundTables(tx)
  BY SoundEmpty DEF Init
<1>2. TypeOK /\ SoundTables(db) /\ SoundTables(tx) /\ [Next]_vars
        => (SoundTables(db) /\ SoundTables(tx))'
  BY SoundStep
<1> QED
  BY <1>1, <1>2, TypeCorrect, PTL DEF Spec

\* The history a table holds: sound events, one for each id.
LEMMA HistoryOfTables ==
  ASSUME NEW tables, SoundTables(tables), IdentityOK(tables)
  PROVE  /\ History(tables.accepted)
         /\ Published(tables.accepted) \subseteq tables.accepted
         /\ History(Published(tables.accepted))
<1>1. History(tables.accepted)
  BY DEF SoundTables, IdentityOK, History, UniqueIds
<1>2. Published(tables.accepted) \subseteq tables.accepted
  BY DEF Published
<1> QED
  BY <1>1, <1>2, PartOfHistory

\* A run whose rules loaded is never lost to the assertion of build_postings
\* after it has ingested its batch, whatever was accepted before it.
NoRunLostToRules ==
  \A w \in Worker : pc[w] = "ingest" => Balanced(Book(tx.accepted, job[w].rules).ledger)

\* The load gate suffices inside the store: whatever history the open
\* transaction sees, the assertion over the rebuilt lines holds.
THEOREM RebuildNeverAsserts == Spec => []NoRunLostToRules
<1>1. TypeOK /\ BookInv /\ SoundTables(tx) /\ IdentityOK(tx) => NoRunLostToRules
  <2> SUFFICES ASSUME TypeOK, BookInv, SoundTables(tx), IdentityOK(tx),
                      NEW w \in Worker, pc[w] = "ingest"
               PROVE  Balanced(Book(tx.accepted, job[w].rules).ledger)
    BY DEF NoRunLostToRules
  <2>1. LoadsRules(job[w].rules)
    BY DEF BookInv, LoadedRules
  <2>2. Balanced(LinesOf(Published(tx.accepted), job[w].rules))
    BY <2>1, HistoryOfTables, HistoryBalances
  <2> QED
    BY <2>2, BookRows
<1>2. (SoundTables(db) /\ SoundTables(tx)) /\ (IdentityOK(db) /\ IdentityOK(tx))
        => SoundTables(tx) /\ IdentityOK(tx)
  OBVIOUS
<1> QED
  BY <1>1, <1>2, TypeCorrect, BookAlways, SoundAlways, IdentityAlways, PTL

\* The derived tables are empty, or a book of the accepted history.
BookStored ==
  \/ StoreBook(db) = EmptyBook
  \/ \E rules \in LoadedRules : StoreBook(db) = Book(db.accepted, rules)

\* The file holds the book of its history at every moment.
LEMMA BookAlwaysStored == Spec => []BookStored
<1>1. Init => BookStored
  BY DEF Init, BookStored, EmptyTables, StoreBook, EmptyBook
<1>2. TypeOK /\ BookInv /\ BookStored /\ [Next]_vars => BookStored'
  <2> SUFFICES ASSUME TypeOK, BookInv, BookStored, [Next]_vars PROVE BookStored'
    OBVIOUS
  <2>1. ASSUME NEW w \in Worker, Commit(w) PROVE BookStored'
    <3>1. db'.accepted = tx.accepted /\ StoreBook(db') = StoreBook(tx)
      BY <2>1 DEF Commit, StoreBook, TypeOK, TablesOK, TABLES
    <3>2. StoreBook(tx) = Book(tx.accepted, job[w].rules) /\ job[w].rules \in LoadedRules
      BY <2>1 DEF Commit, BookInv
    <3> QED
      BY <3>1, <3>2 DEF BookStored
  <2>2. CASE \A w \in Worker : ~Commit(w)
    <3>1. db'.accepted = db.accepted /\ StoreBook(db') = StoreBook(db)
      BY <2>2, BookStutter
    <3> QED
      BY <3>1 DEF BookStored
  <2> QED
    BY <2>1, <2>2
<1> QED
  BY <1>1, <1>2, TypeCorrect, BookAlways, PTL DEF Spec

\* Read as a whole the stored ledger balances too.
LEMMA LedgerAddsUp ==
  ASSUME BookStored, SoundTables(db), IdentityOK(db), LedgerBalanced
  PROVE  Balance(db.ledger) = 0
<1>1. IsFiniteSet(db.ledger) /\ \A l \in db.ledger : l.signed \in Int
  <2>1. StoreBook(db).ledger = db.ledger
    BY DEF StoreBook
  <2>2. CASE StoreBook(db) = EmptyBook
    BY <2>1, <2>2, FS_EmptySet DEF EmptyBook
  <2>3. ASSUME NEW rules \in LoadedRules, StoreBook(db) = Book(db.accepted, rules)
        PROVE  IsFiniteSet(db.ledger) /\ \A l \in db.ledger : l.signed \in Int
    <3>1. LoadsRules(rules)
      BY DEF LoadedRules
    <3>2. db.ledger = LinesOf(Published(db.accepted), rules)
      BY <2>1, <2>3, BookRows
    <3> QED
      BY <3>1, <3>2, HistoryOfTables, LinesOfHistory
  <2> QED
    BY <2>2, <2>3 DEF BookStored
<1> QED
  BY <1>1, BalancedAsAWhole DEF LedgerBalanced

-----------------------------------------------------------------------------
(* What process() reports of its run                                       *)

\* A step of a summary reads the tables; every other step is one of the store.
LEMMA SummaryStep ==
  ASSUME [SummaryNext]_allvars
  PROVE  [Next]_vars
<1>1. ASSUME NEW w \in Worker, Succeed(w) \/ Proceed(w) PROVE Next
  BY <1>1 DEF Succeed, Proceed, Next, Step
<1>2. ASSUME NEW w \in Worker, Call(w) \/ Crash(w) PROVE Next
  BY <1>2 DEF Next
<1>3. ASSUME NEW w \in Worker, Query(w) \/ ReturnSummary(w) \/ LoseSummary(w)
      PROVE  UNCHANGED vars
  BY <1>3 DEF Query, ReturnSummary, LoseSummary
<1>4. UNCHANGED allvars => UNCHANGED vars
  BY DEF allvars
<1> QED
  BY <1>1, <1>2, <1>3, <1>4 DEF SummaryNext, Continue

\* Whatever holds of the store holds of it while calls report.
LEMMA SummaryOfStore == SummarySpec => Spec
<1>1. SummaryInit => Init
  BY DEF SummaryInit
<1>2. [SummaryNext]_allvars => [Next]_vars
  BY SummaryStep
<1> QED
  BY <1>1, <1>2, PTL DEF SummarySpec, Spec

\* The facts about the store that the figures of a summary depend on.
StoreFacts ==
  /\ TypeOK
  /\ JournalInv
  /\ ArrivalsReconciled
  /\ IdentityOK(db)
  /\ SoundTables(db)
  /\ BookStored
  /\ LedgerBalanced

\* What the summary relies on, together.
LEMMA StoreFactsAlways == Spec => []StoreFacts
<1>1. TypeOK /\ JournalInv /\ ArrivalsReconciled /\ (IdentityOK(db) /\ IdentityOK(tx))
        /\ (SoundTables(db) /\ SoundTables(tx)) /\ BookStored /\ LedgerBalanced
        => StoreFacts
  BY DEF StoreFacts
<1> QED
  BY <1>1, TypeCorrect, JournalAlways, EveryArrivalReconciled, IdentityAlways, SoundAlways,
     BookAlwaysStored, LedgerAlwaysBalanced, PTL

\* The figures read so far, against the outcomes of the run: those are as they
\* were read, and the tables had grown to at least what the run added.
FiguresHold(run, read) ==
  /\ Len(read) >= 1 => read[1] = db.outcome[run]
  /\ Len(read) >= 2 => read[2] >= db.outcome[run]["ACCEPTED"]
  /\ Len(read) >= 3 => read[3] >= db.outcome[run]["QUARANTINED"]
  /\ Len(read) >= 8 => read[8] = 0
  /\ Len(read) >= 9 => read[9] = 0

SummaryTypes ==
  \E Figures : summary \in [Worker -> [run : RunId \cup {None}, read : Seq(Figures)]]

\* A worker that reports is outside every transaction and its run is committed.
Reporting(w) ==
  /\ Len(summary[w].read) <= 10
  /\ summary[w].run = None => summary[w].read = << >>
  /\ summary[w].run # None =>
       /\ pc[w] = "idle"
       /\ db.outcome[summary[w].run] # None
       /\ FiguresHold(summary[w].run, summary[w].read)

SummaryInv == SummaryTypes /\ \A w \in Worker : Reporting(w)

\* What the queries that the figures depend on find in a state of the store.
LEMMA AnswersHold ==
  ASSUME StoreFacts, NEW run \in RunId, db.outcome[run] # None
  PROVE  /\ Answer("outcome", run) = db.outcome[run]
         /\ Answer("accepted", run) >= db.outcome[run]["ACCEPTED"]
         /\ Answer("quarantine", run) >= db.outcome[run]["QUARANTINED"]
         /\ Answer("unbalanced", run) = 0
         /\ Answer("balance", run) = 0
<1>1. /\ db.outcome[run]["ACCEPTED"] = Cardinality(Reserved(db, run))
      /\ db.outcome[run]["QUARANTINED"] = Cardinality(Held(db, run))
  BY DEF StoreFacts, ArrivalsReconciled
<1>2. /\ IsFiniteSet(db.seen) /\ IsFiniteSet(db.accepted) /\ IsFiniteSet(db.quarantine)
  BY DEF StoreFacts, SoundTables
<1>3. Cardinality(db.accepted) >= Cardinality(Reserved(db, run))
  <2> DEFINE IdOf == [s \in db.seen |-> s.id]
             EventId == [e \in db.accepted |-> e.id]
             SeenIds == {IdOf[s] : s \in db.seen}
             EventIds == {EventId[e] : e \in db.accepted}
  <2>1. SeenIds = EventIds
    <3>1. SeenIds = Seen(db)
      BY DEF Seen
    <3>2. EventIds = {e.id : e \in db.accepted}
      OBVIOUS
    <3> QED
      BY <3>1, <3>2 DEF StoreFacts, IdentityOK
  <2>2. \A s, t \in db.seen : IdOf[s] = IdOf[t] => s = t
    BY DEF StoreFacts, IdentityOK
  <2> HIDE DEF IdOf, EventId
  <2>3. Cardinality(SeenIds) = Cardinality(db.seen)
    BY <1>2, <2>2, FiniteImage
  <2>4. Cardinality(EventIds) <= Cardinality(db.accepted)
    BY <1>2, FiniteImage
  <2> HIDE DEF SeenIds, EventIds
  <2>5. Reserved(db, run) \subseteq db.seen
    BY DEF Reserved
  <2>6. /\ Cardinality(Reserved(db, run)) <= Cardinality(db.seen)
        /\ IsFiniteSet(Reserved(db, run))
    BY <1>2, <2>5, FS_Subset
  <2>7. /\ Cardinality(db.seen) \in Nat /\ Cardinality(db.accepted) \in Nat
        /\ Cardinality(Reserved(db, run)) \in Nat
    BY <1>2, <2>6, FS_CardinalityType
  <2> QED
    BY <2>1, <2>3, <2>4, <2>6, <2>7
<1>4. Cardinality(db.quarantine) >= Cardinality(Held(db, run))
  <2>1. Held(db, run) \subseteq db.quarantine
    BY DEF Held
  <2>2. /\ Cardinality(Held(db, run)) <= Cardinality(db.quarantine)
        /\ IsFiniteSet(Held(db, run))
    BY <1>2, <2>1, FS_Subset
  <2> QED
    BY <1>2, <2>2, FS_CardinalityType
<1>5. Unbalanced(db.ledger) = {}
  BY DEF StoreFacts, LedgerBalanced, Balanced, Unbalanced
<1>6. Balance(db.ledger) = 0
  BY LedgerAddsUp DEF StoreFacts
<1>7. /\ Answer("outcome", run) = db.outcome[run]
      /\ Answer("accepted", run) = Cardinality(db.accepted)
      /\ Answer("quarantine", run) = Cardinality(db.quarantine)
      /\ Answer("unbalanced", run) = Cardinality(Unbalanced(db.ledger))
      /\ Answer("balance", run) = Balance(db.ledger)
  BY DEF Answer
<1> QED
  BY <1>1, <1>3, <1>4, <1>5, <1>6, <1>7, FS_EmptySet

\* The summaries when that of one worker is replaced.
LEMMA SummaryReplaced ==
  ASSUME NEW R, NEW S \in [Worker -> R], NEW w \in Worker, NEW x \in R, NEW T,
         T = [S EXCEPT ![w] = x]
  PROVE  T \in [Worker -> R] /\ T[w] = x /\ \A v \in Worker \ {w} : T[v] = S[v]
  OBVIOUS

\* A summary when its figures are replaced.
LEMMA ReadReplaced ==
  ASSUME NEW A, NEW B, NEW r \in [run : A, read : B], NEW x \in B
  PROVE  [r EXCEPT !.read = x] = [run |-> r.run, read |-> x]
  OBVIOUS

\* One more figure is read.
LEMMA QueryHolds ==
  ASSUME StoreFacts, SummaryInv, NEW w \in Worker, Query(w)
  PROVE  SummaryInv'
<1> DEFINE run == summary[w].run
           read == summary[w].read
           p == Position(w)
           figure == Answer(QUERIES[p], run)
<1>1. PICK Figures : summary \in [Worker -> [run : RunId \cup {None}, read : Seq(Figures)]]
  BY DEF SummaryInv, SummaryTypes
<1>2. /\ run \in RunId /\ db.outcome[run] # None /\ pc[w] = "idle"
      /\ FiguresHold(run, read) /\ Len(read) <= 10
  BY <1>1 DEF Query, Summarising, SummaryInv, Reporting
<1>3. read \in Seq(Figures)
  BY <1>1
<1>4. p = Len(read) + 1 /\ p \in 1 .. 10 /\ Len(read) \in Nat
  BY <1>3 DEF Query, Position, QUERIES
<1>5. summary' = [summary EXCEPT ![w].read = Append(read, figure)] /\ UNCHANGED vars
  BY DEF Query
<1>6. read \in Seq(Figures \cup {figure})
  BY <1>3
<1>7. /\ Append(read, figure) \in Seq(Figures \cup {figure})
      /\ Len(Append(read, figure)) = p
      /\ Append(read, figure)[p] = figure
      /\ \A i \in 1 .. Len(read) : Append(read, figure)[i] = read[i]
  <2>1. figure \in Figures \cup {figure}
    OBVIOUS
  <2> HIDE DEF figure, read
  <2> QED
    BY <1>4, <1>6, <2>1, AppendProperties
<1>8. /\ p = 1 => figure = db.outcome[run]
      /\ p = 2 => figure >= db.outcome[run]["ACCEPTED"]
      /\ p = 3 => figure >= db.outcome[run]["QUARANTINED"]
      /\ p = 8 => figure = 0
      /\ p = 9 => figure = 0
  <2>1. /\ QUERIES[1] = "outcome" /\ QUERIES[2] = "accepted" /\ QUERIES[3] = "quarantine"
        /\ QUERIES[8] = "unbalanced" /\ QUERIES[9] = "balance"
    BY DEF QUERIES
  <2> HIDE DEF run, p
  <2> QED
    BY <1>2, <2>1, AnswersHold
<1>9. db' = db /\ pc' = pc
  BY <1>5 DEF vars
<1>10. /\ summary'[w] = [run |-> run, read |-> Append(read, figure)]
       /\ \A v \in Worker \ {w} : summary'[v] = summary[v]
       /\ summary' \in [Worker -> [run : RunId \cup {None}, read : Seq(Figures \cup {figure})]]
  <2> DEFINE Record == [run : RunId \cup {None}, read : Seq(Figures \cup {figure})]
             longer == Append(read, figure)
             old == summary[w]
             new == [run |-> run, read |-> longer]
  <2>1. summary \in [Worker -> Record] /\ old \in Record
    BY <1>1
  <2>2. longer \in Seq(Figures \cup {figure}) /\ new \in Record
    BY <1>2, <1>7
  <2>3. summary' = [summary EXCEPT ![w] = [old EXCEPT !.read = longer]]
    BY <1>5
  <2>4. run = old.run
    OBVIOUS
  <2> HIDE DEF figure, longer, old, run
  <2>5. [old EXCEPT !.read = longer] = new
    BY <2>1, <2>2, <2>4, ReadReplaced
  <2>6. summary' = [summary EXCEPT ![w] = new]
    BY <2>3, <2>5
  <2> HIDE DEF new, Record
  <2>7. summary' \in [Worker -> Record] /\ summary'[w] = new
        /\ \A v \in Worker \ {w} : summary'[v] = summary[v]
    BY <2>1, <2>2, <2>6, SummaryReplaced
  <2> QED
    BY <2>7 DEF new, longer, Record
<1> HIDE DEF figure, run, read, p
<1>11. FiguresHold(run, Append(read, figure))
  BY <1>2, <1>4, <1>7, <1>8 DEF FiguresHold
<1>12. Reporting(w)'
  BY <1>2, <1>4, <1>7, <1>9, <1>10, <1>11 DEF Reporting, FiguresHold
<1>13. \A v \in Worker \ {w} : Reporting(v)'
  BY <1>9, <1>10 DEF SummaryInv, Reporting, FiguresHold
<1>14. SummaryTypes'
  BY <1>10 DEF SummaryTypes
<1> QED
  BY <1>12, <1>13, <1>14 DEF SummaryInv

\* The run of a worker whose store step ends its call becomes its report; every
\* other report stays true although other workers commit.
LEMMA ReportsStay ==
  ASSUME StoreFacts, SummaryInv, [SummaryNext]_allvars, NEW v \in Worker,
         summary'[v] = summary[v]
  PROVE  Reporting(v)'
<1> DEFINE run == summary[v].run
<1>1. Reporting(v) /\ run \in RunId \cup {None}
  BY DEF SummaryInv, SummaryTypes
<1>2. CASE run = None
  BY <1>1, <1>2 DEF Reporting
<1>3. CASE run # None
  <2>1. run \in RunId /\ pc[v] = "idle" /\ db.outcome[run] # None
    BY <1>1, <1>3 DEF Reporting
  <2>2. db'.outcome[run] = db.outcome[run]
    BY <2>1, SummaryStep, JournalChange DEF StoreFacts
  <2>3. pc'[v] = "idle"
    <3>1. pc \in [Worker -> {"idle", "begin", "ingest", "commit", "succeeding", "failing",
                             "counting", "summing", "reported"}]
      BY DEF StoreFacts, TypeOK
    <3>2. CASE UNCHANGED pc
      BY <2>1, <3>2
    <3>3. ASSUME NEW w \in Worker, Succeed(w) \/ Proceed(w) PROVE pc'[v] = "idle"
      <4>1. MarkSucceeded(w) \/ Fail(w) \/ Begin(w) \/ IngestOne(w) \/ Rebuild(w) \/ Commit(w)
              \/ MarkFailed(w) \/ LockTimeout(w) \/ ReadCount(w) \/ ReadAbsoluteDelta(w) \/ Return(w)
        BY <3>3 DEF Succeed, Proceed
      <4>2. pc[w] # "idle"
        BY <4>1 DEF MarkSucceeded, Fail, Begin, IngestOne, IngestInvalid, IngestReplay,
                    IngestConflict, IngestNew, Reading, Rebuild, Commit, MarkFailed,
                    LockTimeout, ReadCount, ReadAbsoluteDelta, Return
      <4>3. \/ pc' = pc
            \/ \E place : pc' = [pc EXCEPT ![w] = place]
        BY <4>1 DEF MarkSucceeded, Fail, Begin, IngestOne, IngestInvalid, IngestReplay,
                    IngestConflict, IngestNew, Count, Rebuild, Commit, MarkFailed, EndCall,
                    LockTimeout, ReadCount, ReadAbsoluteDelta, Return
      <4> QED
        BY <2>1, <3>1, <4>2, <4>3
    <3>4. ASSUME NEW w \in Worker, ~Summarising(w), Call(w) PROVE pc'[v] = "idle"
      <4>1. v # w
        BY <1>3, <3>4 DEF Summarising
      <4>2. \E place : pc' = [pc EXCEPT ![w] = place]
        BY <3>4 DEF Call, Start, Reconcile
      <4> QED
        BY <2>1, <3>1, <4>1, <4>2
    <3>5. ASSUME NEW w \in Worker, Crash(w) PROVE pc'[v] = "idle"
      BY <2>1, <3>1, <3>5 DEF Crash, EndCall
    <3>6. ASSUME NEW w \in Worker, Query(w) \/ ReturnSummary(w) \/ LoseSummary(w)
          PROVE  UNCHANGED pc
      BY <3>6 DEF Query, ReturnSummary, LoseSummary, vars
    <3> QED
      BY <3>2, <3>3, <3>4, <3>5, <3>6 DEF SummaryNext, Continue, allvars, vars
  <2> QED
    BY <1>1, <1>3, <2>1, <2>2, <2>3 DEF Reporting, FiguresHold
<1> QED
  BY <1>2, <1>3

\* What a call has read stays a lower bound of what the file holds, whoever commits.
LEMMA SummaryInvStep ==
  ASSUME StoreFacts, SummaryInv, [SummaryNext]_allvars
  PROVE  SummaryInv'
<1>1. PICK Figures : summary \in [Worker -> [run : RunId \cup {None}, read : Seq(Figures)]]
  BY DEF SummaryInv, SummaryTypes
<1> DEFINE Record == [run : RunId \cup {None}, read : Seq(Figures)]
<1>2. CASE UNCHANGED summary
  <2>1. \A v \in Worker : Reporting(v)'
    BY <1>2, ReportsStay
  <2> QED
    BY <1>2, <2>1 DEF SummaryInv, SummaryTypes
<1>3. ASSUME NEW w \in Worker, Query(w) PROVE SummaryInv'
  BY <1>3, QueryHolds
<1>4. ASSUME NEW w \in Worker, ReturnSummary(w) \/ LoseSummary(w) PROVE SummaryInv'
  <2>1. summary' = [summary EXCEPT ![w] = NoSummary] /\ NoSummary \in Record
    BY <1>4 DEF ReturnSummary, LoseSummary, NoSummary
  <2> HIDE DEF Record
  <2>2. /\ summary' \in [Worker -> Record] /\ summary'[w] = NoSummary
        /\ \A v \in Worker \ {w} : summary'[v] = summary[v]
    BY <1>1, <2>1, SummaryReplaced DEF Record
  <2>3. Reporting(w)'
    BY <2>2 DEF Reporting, NoSummary
  <2>4. \A v \in Worker \ {w} : Reporting(v)'
    BY <2>2, ReportsStay
  <2>5. SummaryTypes'
    BY <2>2 DEF SummaryTypes, Record
  <2> QED
    BY <2>3, <2>4, <2>5 DEF SummaryInv
<1>5. ASSUME NEW w \in Worker, Succeed(w) PROVE SummaryInv'
  <2> DEFINE old == summary[w]
             new == [run |-> job[w].run, read |-> << >>]
  <2>1. pc[w] = "succeeding" /\ pc'[w] = "idle"
    BY <1>5 DEF Succeed, MarkSucceeded, EndCall, StoreFacts, TypeOK
  <2>2. old.run = None /\ old.read = << >>
    BY <2>1 DEF SummaryInv, Reporting
  <2>3. job[w].run \in RunId /\ db.outcome[job[w].run] # None
    BY <2>1 DEF StoreFacts, TypeOK, Job, JournalInv, RunsInProgress
  <2>4. old \in Record /\ new \in Record
    BY <1>1, <2>3
  <2>5. [old EXCEPT !.run = job[w].run] = new
    BY <2>2, <2>4
  <2>6. summary' = [summary EXCEPT ![w] = new]
    BY <1>5, <2>5 DEF Succeed
  <2> HIDE DEF new, old, Record
  <2>7. /\ summary' \in [Worker -> Record] /\ summary'[w] = new
        /\ \A v \in Worker \ {w} : summary'[v] = summary[v]
    BY <1>1, <2>4, <2>6, SummaryReplaced DEF Record
  <2>8. db'.outcome[job[w].run] # None
    BY <2>3, SummaryStep, JournalChange DEF StoreFacts
  <2>9. Reporting(w)'
    <3>1. summary'[w].run = job[w].run /\ summary'[w].read = << >>
      BY <2>7 DEF new
    <3> QED
      BY <2>1, <2>3, <2>8, <3>1 DEF Reporting, FiguresHold
  <2>10. \A v \in Worker \ {w} : Reporting(v)'
    BY <2>7, ReportsStay
  <2>11. SummaryTypes'
    BY <2>7 DEF SummaryTypes, Record
  <2> QED
    BY <2>9, <2>10, <2>11 DEF SummaryInv
<1> QED
  BY <1>2, <1>3, <1>4, <1>5 DEF SummaryNext, Continue, Proceed, allvars

\* Each query has its own place.
LEMMA QueryPlaces ==
  ASSUME NEW i \in 1 .. 10
  PROVE  /\ QUERIES[i] = "outcome" <=> i = 1
         /\ QUERIES[i] = "accepted" <=> i = 2
         /\ QUERIES[i] = "quarantine" <=> i = 3
         /\ QUERIES[i] = "unbalanced" <=> i = 8
         /\ QUERIES[i] = "balance" <=> i = 9
  BY DEF QUERIES

\* The figures of a run's report hold together although each is read from
\* another state of the tables: the arrivals reconcile, the sizes cover what the
\* run counted and the ledger balances, whatever other runs commit in between.
THEOREM SummaryAlwaysHolds == SummarySpec => []SummaryHolds
<1>1. SummaryInit => SummaryInv
  <2> SUFFICES ASSUME SummaryInit PROVE SummaryInv
    OBVIOUS
  <2>1. NoSummary \in [run : RunId \cup {None}, read : Seq({})]
    BY DEF NoSummary
  <2>2. SummaryTypes
    BY <2>1 DEF SummaryInit, SummaryTypes
  <2> QED
    BY <2>2 DEF SummaryInit, SummaryInv, Reporting, NoSummary
<1>2. StoreFacts /\ SummaryInv /\ [SummaryNext]_allvars => SummaryInv'
  BY SummaryInvStep
<1>3. StoreFacts /\ SummaryInv => SummaryHolds
  <2> SUFFICES ASSUME StoreFacts, SummaryInv, NEW w \in Worker
               PROVE  /\ Asked(w, "outcome") =>
                           LET o == Figure(w, "outcome")
                           IN  /\ o # None
                               /\ o["ARRIVAL"] = o["ACCEPTED"] + o["DUPLICATE"] + o["QUARANTINED"]
                      /\ Asked(w, "accepted") =>
                           Figure(w, "accepted") >= Figure(w, "outcome")["ACCEPTED"]
                      /\ Asked(w, "quarantine") =>
                           Figure(w, "quarantine") >= Figure(w, "outcome")["QUARANTINED"]
                      /\ Asked(w, "unbalanced") => Figure(w, "unbalanced") = 0
                      /\ Asked(w, "balance") => Figure(w, "balance") = 0
    BY DEF SummaryHolds
  <2> DEFINE run == summary[w].run
             read == summary[w].read
  <2>1. PICK Figures : read \in Seq(Figures) /\ run \in RunId \cup {None}
    BY DEF SummaryInv, SummaryTypes
  <2>2. Len(read) \in Nat /\ Len(read) <= 10 /\ DOMAIN read = 1 .. Len(read)
    BY <2>1 DEF SummaryInv, Reporting
  <2>3. CASE run = None
    <3>1. Len(read) = 0
      BY <2>3 DEF SummaryInv, Reporting
    <3> QED
      BY <2>2, <3>1 DEF Asked
  <2>4. CASE run # None
    <3>1. run \in RunId /\ db.outcome[run] # None /\ FiguresHold(run, read)
      BY <2>1, <2>4 DEF SummaryInv, Reporting
    <3>2. LET o == db.outcome[run]
          IN  o["ARRIVAL"] = o["ACCEPTED"] + o["DUPLICATE"] + o["QUARANTINED"]
      BY <3>1 DEF StoreFacts, ArrivalsReconciled
    <3> HIDE DEF read, run
    <3>3. ASSUME NEW query, NEW place \in 1 .. 10,
                 \A i \in 1 .. 10 : QUERIES[i] = query <=> i = place
          PROVE  /\ Asked(w, query) <=> Len(read) >= place
                 /\ Asked(w, query) => Figure(w, query) = read[place]
      <4>1. \A i \in DOMAIN read : i \in 1 .. 10
        BY <2>2
      <4>2. Asked(w, query) <=> place \in DOMAIN read
        BY <3>3, <4>1 DEF Asked, read
      <4>3. place \in DOMAIN read <=> Len(read) >= place
        BY <2>2
      <4>4. Asked(w, query) => (CHOOSE i \in DOMAIN read : QUERIES[i] = query) = place
        BY <3>3, <4>1, <4>2
      <4> QED
        BY <4>2, <4>3, <4>4 DEF Figure, read
    <3>4. /\ Asked(w, "outcome") <=> Len(read) >= 1
          /\ Asked(w, "outcome") => Figure(w, "outcome") = read[1]
      BY <3>3, QueryPlaces
    <3>5. /\ Asked(w, "accepted") <=> Len(read) >= 2
          /\ Asked(w, "accepted") => Figure(w, "accepted") = read[2]
      BY <3>3, QueryPlaces
    <3>6. /\ Asked(w, "quarantine") <=> Len(read) >= 3
          /\ Asked(w, "quarantine") => Figure(w, "quarantine") = read[3]
      BY <3>3, QueryPlaces
    <3>7. /\ Asked(w, "unbalanced") <=> Len(read) >= 8
          /\ Asked(w, "unbalanced") => Figure(w, "unbalanced") = read[8]
      BY <3>3, QueryPlaces
    <3>8. /\ Asked(w, "balance") <=> Len(read) >= 9
          /\ Asked(w, "balance") => Figure(w, "balance") = read[9]
      BY <3>3, QueryPlaces
    <3>9. /\ Asked(w, "accepted") => Asked(w, "outcome")
          /\ Asked(w, "quarantine") => Asked(w, "outcome")
      BY <2>2, <3>4, <3>5, <3>6
    <3> QED
      BY <3>1, <3>2, <3>4, <3>5, <3>6, <3>7, <3>8, <3>9 DEF FiguresHold
  <2> QED
    BY <2>3, <2>4
<1> QED
  BY <1>1, <1>2, <1>3, SummaryOfStore, StoreFactsAlways, PTL DEF SummarySpec
=============================================================================
