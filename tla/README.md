# LedgerFlow in TLA+

A specification of LedgerFlow, the payment reconciliation platform of this repository, with the
instances TLC checks and the theorems TLAPS proves. Every definition is a translation of source
code; `PROJECT.json` ("map") names the lines each one stands for.

## 1. The system

LedgerFlow receives payment events (authorizations, captures, refunds, chargebacks), decides which
of them it accepts, derives payment states and a double-entry ledger from the accepted ones, and
compares the money the ledger expects with the settlement evidence processors deliver. It exists
twice: a **transactional core** on one SQLite file (`src/ledgerflow`), which is the executable
reference, and a **distributed path** on AWS (Kinesis, Lambda, DynamoDB, S3, Step Functions, Glue,
Iceberg, Airflow). The two share the contract and the fingerprint (`contracts.py`) and each have
their own lifecycle and posting code.

| Component | State it keeps | Operations | Talks to |
|---|---|---|---|
| contract gate, fingerprint (`contracts.py`) | none | `validate_event`, `identity_fingerprint` | called by the core and by the identity gate |
| posting rules (`ledger.py`, `config/posting_rules.json`) | the rule file | `load_posting_rules`, `build_postings`, `assert_balanced` | called by the core |
| transactional core (`store.py`) | eleven tables in one SQLite file | `process`, `reconcile_settlement`; reads: `summary`, `expected_settlement`, ... | other processes on the same file, through the write lock |
| identity gate (`lambdas/schema_identity_gate`) | bronze, quarantine and accepted buckets, identity table | `handler` on a batch of stream records | Kinesis (redelivery, dead-letter queue), S3, DynamoDB |
| manifest loader (`lambdas/manifest_loader`) | verified bucket, publication table | `handler` on one manifest | S3, DynamoDB, starts the workflow |
| settlement workflow (`settlement_workflow.asl.json`) | publication table, control bucket | five Glue stages, evidence, conditional gate | the Glue jobs, the publication table |
| Glue jobs (`spark_jobs`) | Iceberg tables: accepted, state, business exception, posted, ledger, evidence, settlement exception | ingest, reconstruct, post, validate, reconcile | each other, through tables read and written by separate jobs |
| finance DAG (`orchestration/airflow`) | none | sensor on the publication table, then dbt | publication table, marts |
| dbt, simulator, evidence builder, CLI, infrastructure | reports, views, declarations | - | - |

### What is hard about it

* **Concurrency.** `process()` is not one transaction but four: the journal row, the work, and one
  of two final statuses. Other processes run between them. `reconcile_settlement()` reads its
  result after it has committed.
* **Failure between separate stores.** The identity gate writes S3, DynamoDB, S3, DynamoDB, and may
  fail after each; the stream then delivers the record again, with records that were handled.
* **Identity.** Records are replayed, and event ids reused for other payloads, in one batch, in
  different batches, in concurrent invocations.
* **Late events.** The core derives every table again from the whole history, so a late event may
  take a published payment back.
* **Two implementations** of one lifecycle: loops over rows, and window aggregates with NULLs.
* **Separate stages over shared tables.** The workflow's jobs each read tables that an execution of
  another date or revision may be writing, commit two MERGEs one after the other, and are retried
  over what an earlier attempt committed.
* **Objects that are replaced.** The manifest and the data file lie under keys the processor may
  write again while the loader, or a job much later, is reading them.

### What makes each component correct

* *Lifecycle, postings, settlement:* the two implementations agree; the ledger carries the money
  the payment state shows; settlement expectation and ledger account for the same money; a
  transaction is published or quarantined as a unit; a rule file that loads never fails later.
* *Transactional core:* the derived tables are at every moment the projection of exactly the accepted
  history; the journal's final statuses are true; arrivals are classified once and the counts
  match the rows; one identity per event id; committed evidence is permanent; the stored settlement
  comparison is current; every call ends.
* *Identity gate:* one payload claims an id for ever and only it becomes visible; PUBLISHED means the
  object exists; what the stream is done with left durable evidence; nothing is accepted, reserved or held as a
  conflict before it is archived, and no payload with card data is archived; interrupted publications are
  resolved; no record stays with the stream for ever.
* *Manifest loader:* what is processed are the bytes that were checked; a revision has one content;
  nothing runs for a settlement that was never the active one of its date; an execution that ended is never run
  again; a revision that was registered is started.
* *Publication table and gate:* a date is RECONCILED only for the settlement that is registered and on
  the evidence that it passed; an older revision never replaces a newer one.
* *Workflow over the tables:* a payment is published or held back as a unit in four tables that four
  jobs write; posted events and ledger lines keep together; the state is that of the whole
  history and never goes back; the money of a reconciled date equals the file and stays so; the two
  finance views show the same money; every execution ends.

`PROJECT.json` ("hazards") lists the places in the code where these can go wrong, with the
properties that watch each, and says of the others why no property does.

## 2. Modules

```
PaymentEvents            raw records, contract gates, fingerprint
  |-- PostingRules       load gate, postings, balance; postings of the ledger job
  |-- PaymentLifecycle   verdict, state and status: transactional core and Spark job
  |     |
FinancialProjection      Book: the derived tables; settlement comparison
  |                      (lemmas about it: PaymentTheorems, on SumTheorems)
  |-- PaymentBook        DerivedBook with Book           <- MCPaymentBook, PaymentBookProofs
  |-- LedgerStore        processes over SQLite           <- MCLedgerStore, LedgerStoreProofs
        |-- StoreSummary what process() returns          <- MCStoreSummary
DerivedBook              abstract: atomic history + projection (implemented by LedgerStore)
IdentityGate             the identity-gate Lambda        <- MCIdentityGate, IdentityGateProofs
AcceptOnce               abstract: claim once, reveal    (implemented by IdentityGate)
PublicationTable         the conditional updates of the date's item <- PublicationTableProofs
  |-- ManifestLoader     landing, loader, executions     <- MCManifestLoader, ManifestLoaderProofs
  |-- SettlementWorkflow the jobs over the Iceberg tables, with PaymentLifecycle and
                         PostingRules                    <- MCSettlementWorkflow, SettlementWorkflowProofs
PublicationGate          abstract: activate, pass, reconcile (implemented by the two above)
```

**PaymentEvents.** A raw record has the fields of an event and its set of contract *defects*;
`ContractReason` is the first gate of `CONTRACT_GATES` (the order of `validate_event`) it fails. A gate
stands for all the checks that raise the same family of reasons: `invalid_identifier` for every id
field, `invalid_event_time` also for `timezone_required:event_time`; the last one, `token_key_too_short`, is raised by
`tokenize_customer` inside `validate_event`. The SHA-256 fingerprint is the
record of the identity fields, i.e. collision free. `ValidEvent` is what the gates on version, type and amount
leave of an event. `received_at` is an event field and not an
identity field, as in the code: that is what makes a later delivery a replay. Fields that take one
value in every instance (`schema_version`, `source_id`, the customer's e-mail) are left out.

**PostingRules, PaymentLifecycle, FinancialProjection.** Pure operators. `StoreViolations` and
`SparkViolations` are the two if-chains, each as the set of checks that fire, and `FirstReason` is the
chain's order. They differ where the sources do: `F.max` over authorizations instead of a sum,
aggregates over no rows that are NULL, one status chain by cases and one by nested `when`. `Book` is
`_rebuild_projections`: all derived tables from the accepted events and the rules.

**LedgerStore.** `db` is the committed content of the eleven tables that change
(`EmptyTables`: journal, outcome, seen, accepted, quarantine, posted, exception, ledger, state,
settlement actual and delta), `tx` the content as the open transaction sees it, `lock` its owner, and
`pc`, `job`, `counts`, `report` the local state of a call.

| Action | Code (`store.py`) |
|---|---|
| `Start` | journal row STARTED, committed; a used run id raises |
| `Begin`, `LockTimeout` | `BEGIN IMMEDIATE`; the busy timeout raises inside the `try` for `Begin` and outside it for the status updates |
| `IngestInvalid / Replay / Conflict / New` | one record through `_ingest_one` |
| `Rebuild` | `_rebuild_projections`, with the balance assertion as its guard |
| `Commit` | `run_outcome` rows and commit |
| `MarkSucceeded`, `Fail`, `MarkFailed` | status; rollback; FAILED |
| `Reconcile`, `ReadCount`, `ReadAbsoluteDelta`, `Return` | `reconcile_settlement`, one transaction and two reads |
| `Crash` | the process dies; SQLite rolls its transaction back |

SQLite is modelled by what the code relies on: one writer, isolation until commit, rollback on death,
a bounded wait. `settlement_exception` and the other tables are sets of rows; `quarantine`'s
AUTOINCREMENT key is the run and the position of the record. The two failpoints are instances of `Fail`.
An outcome row's count is kept per outcome; the reason, which the code also keys it by, is fixed
by the outcome except for QUARANTINED, whose reasons are in the quarantine rows.

**IdentityGate.** A worker is an invocation with the record it is at (an invocation takes its batch
record by record and carries nothing over). `bronze`, `contract`, `conflict`, `object` are the objects
in the buckets under the keys the handler uses, so a second conflict of an id replaces the first, and
the accepted object of a date and an id is one object; `identity` is the DynamoDB table. `Archive`,
`Quarantine`, `Reserve`, `Compare`, `QuarantineConflict`, `Publish`, `MarkPublished` are the handler's
writes in order; `Fault` ends the handling of a record before its next write (an exception, a timeout,
a dead invocation). `Deliver` and `GiveUp` are the event source mapping that
`infrastructure/terraform/streams.tf` configures (partial-batch responses, bisection, a retry limit, a dead-letter
queue): any record that is not dead may be delivered again, handled ones included,
up to `MaxAttempts` times.

A record is an event, or a CDC envelope with the event in its `data`, and its card-security fields may lie in either
part (`PARTS`). The two parts matter because the handler treats them differently: `reject_prohibited_fields` sees only the
payload (`Prohibited`), which for an envelope is its `data` alone, and the archive gets the whole record. Hence
`ArchivedFirst` says of card data only what the code does, that none of a payload is archived, and the stronger
promise of the documents, `CardDataStaysOut`, is a run of its own that TLC refutes (section 5).

**StoreSummary** adds to the store what `process()` does after its status is committed: `summary()` opens
the file again and runs ten SELECTs without a transaction (`Query`, one figure a step, `QUERIES` in the
code's order), so that other processes commit between any two figures. `Succeed` is `MarkSucceeded`
going on to the summary, `ReturnSummary` its return, `LoseSummary` a query that raises or a process that dies.
The hash of the payment states is the states themselves.

**PublicationTable** has the item of a date (revision, checksum, status) and the two conditional updates that
write it: `Newer` / `Register` (the loader's `attribute_not_exists OR revision < :revision`) and
`IsActive` / `MarkReconciled` (the state machine's `revision = :revision AND manifest_sha256 = :sha`).

**ManifestLoader.** A *delivery* is a data file and then a manifest put under a key, which replaces
whatever lies there. An invocation holds what the handler holds: the manifest it read and the version it checked.

| Action | Code |
|---|---|
| `PutData`, `PutManifest` | the processor; the creation of the manifest is notified |
| `Deliver`, `GiveUp` | the EventBridge target of `infrastructure/terraform/ingestion.tf`, with the retries of asynchronous invocations: at least once, also while another invocation is at it; dropped when the attempts are used up |
| `ReadManifest`, `CheckData` | `get_object` of the manifest and its checks; `head_object` of the data, whose size, checksum and version id are kept |
| `CopyVersion` | `copy_object` of that version to the verified bucket |
| `RegisterRevision`, `LookUp` | `_register_revision`: the conditional update; when it is refused, the consistent read that tells a duplicate, a stale revision and a conflicting one apart |
| `StartExecution` | `start_execution` under the name of the settlement, `ExecutionAlreadyExists` swallowed |
| `Fault` | any raise, timeout or death, before the next call |
| `Validate` | `validate_settlement_manifest.py`: the control values of the manifest, read again by key, against the verified bytes |
| `Process` | the four jobs on the tables, which are `SettlementWorkflow`'s |
| `WriteEvidence`, `PublishGate`, `FailExecution` | the last states of the state machine and its catches; the answer to an update that was made may be lost, and the execution then fails with its date RECONCILED |

The checks of the manifest's own fields are one flag (`sound`), a file is its checksum, and the control values
(count and totals) are one value.

**SettlementWorkflow.** An execution has a `stage`; within a stage, a `job` run that has loaded its input
(`view`) and may have committed its first MERGE (`half`); and the `retries` of the stage. The tables
are sets of rows or functions by key, which is what the MERGE conditions make of them.

| Action | Code |
|---|---|
| `Publish` | the identity gate, at any time |
| `RegisterRevision`, `Launch` | the loader, as far as this module needs it: a registered revision may be launched when it is already superseded |
| `StartIngestion`, `MergeAccepted` | `ingest_accepted_events.py`: the prefix of the date, insert by event id |
| `StartReconstruction`, `MergeStates`, `MergeExceptions` | `reconstruct_payment_state.py`: all history of the transactions the date touches; two MERGEs, exceptions inserted and updated and never removed |
| `StartPosting`, `MergePosted`, `MergeLedger` | `post_ledger.py`: the history is selected again, events with an exception left out, the balance check; two MERGEs |
| `StartReconciliation`, `MergeEvidence`, `OverwriteDeltas` | `reconcile_settlements.py`: the posted events of the date against the file; evidence merged by key, differences of the date replaced, then failure if there are any |
| `WriteEvidence`, `PublishGate` | evidence object; conditional update to RECONCILED, or superseded; an update whose answer is lost leads to `WorkflowFailed` although it was made |
| `Collide`, `TimeOut`, `FailExecution` | Glue refuses a concurrent run of a job (only two stages retry for that), the stage times out, or fails for good |
| `WaitForGate`, `BuildMarts` | the finance DAG's sensor and build |
| `Held`, `CurrentPayments`, `NetReceivable`, `VisibleLedger` | the exception overlay and the net receivable of `dim_payment_current.sql` and `fct_ledger_daily.sql` |

Three facts about the services are assumed, because nothing in the repository overrides them: a job reads the
snapshot of a table it loaded, a Glue job allows one run at a time (the default; the Terraform sets no other), and a run that timed
out is stopped. An event has two dates where the code has two: `date` is the first ten characters of
`event_time` (prefix of the accepted bucket, core), `UtcDate` the date the jobs compute.

**PublicationGate** says what finance relies on, without notifications, jobs or failures: `Activate`
a newer settlement (the date is not reconciled any more), `Pass`, `Reconcile` only what is active and passed.

**DerivedBook** says what the core promises without runs, locks or crashes: a history in which an
event id occurs once and a book that is its projection, replaced atomically. Its projection is a
parameter, so that the proof that the store implements it needs nothing about lifecycles.
**AcceptOnce** says what readers of the accepted bucket rely on: an id is claimed once, and only the
claiming payload ever becomes visible.

## 3. What TLC checks

Every property has a mutant of the code (a dropped guard, a missing rollback, ...) that the same run
refutes; mutant definitions stand before the definition they replace and nothing uses them.

| Run | Question | Instance |
|---|---|---|
| `payment_book` | do the two implementations agree and do the tables fit together, for every history? | all histories of at most 4 of the events of `MCEvent`: every type, amounts 1-2, versions around the lawful ones, captures that mutate currency, processor, merchant or date, a second transaction; 2 loadable rule files and 2 that must not load |
| `ledger_store` | is the store right under interleaving, failure, lock timeout and crash? | 2 processes, 3 run ids, 4 batches (new, conflict then replay, defective then sound under one id, late), 3 rule files, evidence that holds nothing |
| `store_summary` | can a stored comparison be stale, does the summary hold although it is read piecewise, does every call end? | 2 processes, 2 runs of 2 batches, 2 deliveries of evidence, fairness |
| `identity_gate` | is the gate right when invocations interleave and fail, is an interrupted publication resolved, does every record leave the stream? | 2 invocations; a record, its replay, a conflicting reuse on another date, an event with card data in its payload; 2 deliveries each, fairness |
| `manifest_loader` | is the loader right when invocations race, fail and are repeated, and the landing objects replaced? | 2 invocations; a settlement, its correction under the same key, a rival file for the correction's revision; 2 deliveries each |
| `loader_liveness` | is a registered revision started? | the settlement and its correction, 2 invocations, 2 deliveries each, fairness |
| `workflow` | do the tables, the gate and finance fit together under retries, collisions, timeouts and failures, and does every execution end? | 2 dates; a payment authorized on one and captured on the other, and a payment of two events on one date; 1 retry, fairness |
| `workflow_overlap` | what may overlapping executions do to states, views, publication and the money of a reconciled date? | 3 executions, two of them revisions of one date; a payment that a refund on the other date invalidates; no retries |
| `ledger_append_only` | violation: are ledger lines append-only? | as `ledger_store`, 2 runs |
| `mismatch_reported` | violation: does a mismatch reach the caller? | 2 processes, 2 runs, deliveries of evidence |
| `card_data_archived` | violation: does card data stay out of the archive? | 2 invocations; a record, an event with card data in its payload, an envelope with card data beside its payload |
| `unassessed_posting` | violation: is a capture without an authorization excluded? | 2 dates; an orphaned refund of the first, a capture of the same transaction on the second |

### Why the bounds are enough to be interesting

* `MaxEvents = 4`: authorization, capture, refund and chargeback in one payment, so that every check of
  the lifecycle and every status is reached; a second, valid transaction on another day fits beside
  a short first one. Amounts 1 and 2 give partial, exact and excessive capture and reversal.
* Two processes are enough for each pair of transactions to interleave. Three runs make a
  late event arrive after a run committed while another one is open. With two rule files that
  load, consecutive runs post under different rules (one with three lines, one of them doubled).
* `MaxAttempts` of a gate or a loader is 2 in the instances and 6 in the deployment (`maximum_retry_attempts = 5` and the
  first delivery): 2 is the least number with a failure and a retry, and the proofs hold for any.
* In `manifest_loader` the correction replaces the objects of the settlement under one key and the rival claims the
  correction's revision from another, so that each pair of read, check, copy, registration and lookup of two
  invocations can be of different contents.
* In `identity_gate` the three records of one event id give two invocations each pair of equal and different payloads at
  each pair of steps. A record with a defect that is found only after the archive, and one that does not decode, are not in
  the instance, where each would multiply the states by ten: such a record has an id nobody else uses, archives and is
  quarantined, or fails, by itself. `GateTypeCorrect`, `HandledLeavesEvidence` and `ArchiveComesFirst` are about every record.
* In the workflow runs two dates are needed for a job to meet rows of another execution and for jobs to collide;
  a second revision of a date for a gate that refuses. One retry lets a stage meet what its first attempt
  committed; the deployment has two. `workflow_overlap` has no retries, because an attempt that is cut
  short is there an execution that fails, and the retried ones are in `workflow`. Every event of the
  instances has one date in both senses.
* In `workflow` the payment of one date becomes valid or stays an orphaned capture, depending on which of its events the
  gate published before the ingestion, so that `ProcessedAsAUnit` meets units of several events, published and held back, while the
  execution of the other date is anywhere in its jobs. In `workflow_overlap` the payment of the first date is captured and
  reconciled by itself, published while the second date is not started, and invalidated by the refund of the second one
  afterwards, which is the case `ReconciledMeansEqual` is about; the file of the first of two revisions reports
  other money and never passes once the events are there.
* `SYMMETRY` permutes processes and run ids, only in runs without liveness.

### Fairness

* `StoreSummary`: `WF(Continue(w))` for each process: a process that runs continues its call, its summary included. While another process
  holds the lock, its own step is `LockTimeout`, which SQLite's busy timeout guarantees; nobody is
  assumed to call the store, to succeed or to die. A crash or a failure may come at any point.
* `IdentityGate`: `WF(Step(w))` for each invocation, because it ends at the latest by the Lambda timeout (`Fault`);
  one `WF` for the delivery of some record that is not handled, and one for giving some record up: that is what the event source
  mapping does with failed records until their retries are used up, and nothing promises a particular record its
  turn before the others. No fairness makes any write succeed: a step may always
  be `Fault`, which is why `PendingResolved` has the alternative that all records of the payload were given up.
* `ManifestLoader`: as `IdentityGate`, with the retries of the notification. Processors need not deliver anything and
  executions need not get on; `RegisteredIsStarted` has the alternatives that the notification was dropped, the
  manifest replaced or the revision superseded, each of which the code allows.
* `SettlementWorkflow`: `WF(Run(s))` for each execution: Step Functions takes an execution on until it ends, every Glue
  stage has a timeout, and any stage may fail.

CHECK_DEADLOCK is FALSE only in runs in which the system may really stop: all run ids used and no
settlement to reconcile, all histories at the bound, all deliveries used up, all executions ended.

## 4. What is proved

TLAPS proves the following for all values of the constants: any processes, run ids, records, batches, rule
files, settlements, events, dates, and any bound on deliveries and retries.

### The pure part: sums, lifecycle, postings

`SumTheorems` has the laws of a sum over a finite set (`SumFunctionOnSet` of the community modules, on which `Total`,
`Balance`, `Expected...` rest): adding and removing an element, disjoint unions, scaling, reindexing, grouping. The
recursion is unfolded and the laws are shown by induction over finite sets. Since no prover here instantiates an
operator parameter, the induction is one over the subsets of the set for which the law holds: a smallest set
outside of them has a smaller one inside (`SetInduction`).

`PaymentTheorems` builds on it what is true of every history, with no state machine: the postings of an event
cancel under any rules that load (`EventBalances`), hence those of a history group by group (`HistoryBalances`) and as a
whole (`BalancedAsAWhole`); each check of the lifecycle fires in one implementation exactly if it does in the other, up
to the checks an earlier one in the chain hides (`ChecksAgree`, `VerdictsAgree`), and verdict, state and lines are equal
(`StatesAgree`, `PostingsAgree`); what a valid payment captured and reversed lies between nothing and its authorization
(`ValidPayment`); the receivable moves by the effect on the settlement (`HistoryMovesReceivable`); expectation by date adds up
(`ExpectedAddsUp`); the rows of the book depend on the events of their transaction alone (`BookRows`); and the file in
`config/posting_rules.json` loads and moves the receivable account (`ConfiguredRulesLoad`).

`PaymentBookProofs` (from `EventAssumption` and `ArrivalsAreEvents`: producers' events passed the contract and arrive in finite
batches; `ReceivableAssumption`: the rule files in use move `processor_receivable` as `config/posting_rules.json` does;
`AccountAssumption`: the three account names are nonempty strings, of which the provers know nothing):

| Theorem | Property |
|---|---|
| `TypesOfBook` | `TypeOK` |
| `LoadGateAlways` | `LoadGateSuffices` |
| `ImplementationsAlwaysAgree` | `ImplementationsAgree` |
| `LedgerAlwaysCarriesState` | `LedgerCarriesPaymentState` |
| `SettlementAlwaysMatches` | `SettlementMatchesLedger` |
| `TransactionsAlwaysAtomic` | `TransactionAtomic` |

The inductive invariant `BookInv` is short: the history is a finite set of valid events with one event an id, and the book is its
projection under rules that load. All the rest is about the projection. `ReceivableAssumption` is needed by the two
theorems that compare the ledger with amounts of events: `load_posting_rules` checks only that the multipliers of a rule
cancel, so a file with every line doubled, or with other accounts, would load and carry other money. It is no assumption
about the file of the repository, for which it is a lemma.

### The transactional core

`LedgerStoreProofs` (from `BatchAssumption`, `NoneAssumption` and `DeliveredRecordAssumption`,
which say that batches are sequences of the records, that `None` is none of the values it is compared with,
that a defect is one of the gates, and that a record which passes them has the version, type and amount they check):

| Theorem | Property |
|---|---|
| `TypeCorrect` | `TypeOK` |
| `JournalTruthful` | `JournalTruth` |
| `OneIdentityPerEvent` | `IdentityUnique` |
| `EveryArrivalReconciled` | `ArrivalsReconciled` |
| `CommittedEvidenceStays` | `EvidenceIsPermanent` |
| `LedgerAlwaysBalanced` | `LedgerBalanced` |
| `ComparisonNeverStale` | `ComparisonCurrent` |
| `RebuildNeverAsserts` | `NoRunLostToRules`: a run that has ingested its batch is never lost to the balance assertion |
| `SummaryAlwaysHolds` | `SummaryHolds`, of `SummarySpec` |
| `StoreImplementsDerivedBook` | `ImplementsDerivedBook` |

None of the properties is inductive: each speaks of `db`, and what a commit writes was decided
earlier, in `tx`. The argument is in layers, each of which may use those before it. `TypeOK` ties the lock to the
program counters, so that there is at most one open transaction and it belongs to one worker. The journal layer says that a run id belongs to
at most one call, that a worker in a call has a STARTED row, that `tx` differs from `db` only by what the
owner's run added, and that a worker about to write SUCCEEDED has committed outcomes and one about to write FAILED left no trace.
The identity layer carries `IdentityOK` of both `db` and `tx`.
The counting layer relates the worker's Counter, its position in the batch and the rows in `tx`; it needs finite sets
and their cardinalities, because a run's counts are compared with its rows. The book layer says that the open transaction holds
`db`'s history and events of its own batch, and, once rebuilt, exactly the book of that history under the run's rules,
balanced and without a settlement comparison.
The refinement then maps `Commit` to `DerivedBook!Record` and everything else to a stutter.

`SummaryHolds` compares figures of different states. Its invariant says that what a call has read so far is a lower bound of
what the file holds: the tables a run counted only grow (`CommittedEvidenceStays`), and the two figures of the ledger are zero
in every committed state, because a ledger whose groups balance balances as a whole. That the accepted events are as many
as the identities of the run needs one identity an event id.

### The identity gate

`IdentityGateProofs` (from the module's three assumptions):

| Theorem | Property |
|---|---|
| `GateTypeCorrect` | `TypeOK` |
| `PublishedIsThere` | `PublishedHasObject` |
| `ArchiveComesFirst` | `ArchivedFirst`, for records with card data in any of their parts |
| `HandledLeavesEvidence` | `HandledIsDurable` |
| `GateImplementsAcceptOnce` | `ImplementsAcceptOnce` |

The inductive invariant `GateInv` says what an invocation knows at each label (at `publish` and `mark` its payload
holds the reservation, at `mark` its object is written, at `conflict` another payload holds it) and that every object is
under an id its payload reserved. Two lemmas make this stable under other invocations: a reservation never changes
hands (`ReservationsStay`) and evidence never disappears (`EvidenceStays`).

### The loader and the workflow

`ManifestLoaderProofs` and `SettlementWorkflowProofs` (from `SettlementAssumption` and `NoItemAssumption` on the
settlements, `DeliveryAssumption` on the manifests, `WorkflowAssumption` that event ids are unique, and
`HistoryAssumption` that the events passed the contract and that `None` is neither a reason nor a row):

| Theorem | Property |
|---|---|
| `LoaderTypeCorrect` | `TypeOK` |
| `LoaderProcessesVerifiedBytes` | `ProcessesVerifiedBytes` |
| `OnlyActivatedSettlementsRun` | `StartedWasActive`, of `HistorySpec`: whatever was started is a settlement, by date, revision and checksum, that was itself the active one of its date at some time |
| `RevisionHasOneContent` | `OneContentPerRevision` |
| `ExecutionsDecidedOnce` | `DecidedOnce` |
| `LoaderImplementsPublicationGate` | `ImplementsPublicationGate` |
| `WorkflowTypeCorrect` | `TypeOK` |
| `NoLineWithoutItsEvent` | `LedgerFollowsPosted` |
| `PostedGetsItsLines` | `PostedIsLedgered` |
| `FinanceWaitsForEvidence` | `MartsWaitForEvidence` |
| `WorkflowImplementsPublicationGate` | `ImplementsPublicationGate` |
| `StateNeverGoesBack` | `StateMovesForward` |
| `StateIsAlwaysCurrent` | `StateIsCurrent` |
| `FinanceViewsAlwaysAgree` | `FinanceViewsAgree` |
| `TransactionsArePublishedAsUnits` | `ProcessedAsAUnit` |
| `ReconciledAlwaysMeansEqual` | `ReconciledMeansEqual` |

`PublicationTableProofs` has the facts about the two updates that both use. The loader's invariant says what an
invocation knows after each call: once checked, its version has the checksum of its manifest; once copied, those bytes
are under the key of its settlement; once registered, the revision of the date is at least its own and
a settlement of that revision has its checksum. A revision of a date is won once, because `Newer` is
strict and revisions of a date only grow; that is why a rival with the same revision is refused for ever,
whichever comes first. That a settlement was active *earlier* is not a state of the loader, so `HistorySpec` writes down
beside each step which settlements the table holds (`activated`, which nothing reads), and the theorem is about that record.
For the workflow, the layers are the execution that holds a
job (`Free` makes its view the only one of that stage), what its view has to do with the tables after the first MERGE,
and, for the gate, that an execution at the gate has its evidence and that an execution is registered before it
runs (`RegisteredOnceAlways`). Both refinements map registration to `Activate`, `WriteEvidence` to `Pass`, the gate to `Reconcile`
and everything else to a stutter.

The later theorems about the workflow rest on these invariants, each checked by TLC before it was proved:

* `OneRunPerJob` and `RowsInv`: a job has one run at most, which is what `Free` is for, and every row in a table or in the
  hands of a run is an event that came through the bucket.
* `StateRows`: a state row is that of a part of the accepted history, and the run that may replace it has that part in its input. A
  longer history has no smaller last version, so states never go back. Without `Free` a run with an older history could write last.
* `StateInv`: while no execution of a date of it has failed, a payment whose state or error is missing or stale is in the
  hands of an execution that will load the whole history: either one in the state stage that has not loaded yet, or one whose
  run holds all of it. A run that holds only a part has such a follower (`PartialHasFollower`), because the missing event was
  ingested by an execution that is itself on its way to the state stage.
* `AcceptedDebt`, with `PostingViews`: an accepted event that moves money is posted with its lines, held back by an exception, or
  owed by an execution in its state or ledger stage. With `StateInv` this gives the agreement of the two finance views
  on a payment when nothing is under way on its dates.
* `UnitInv`: for the only execution of its date, what each of the four tables and its run hold of a transaction that lies on
  the date, stage by stage (`OwnStep`); executions of other dates may be anywhere, and the same jobs of theirs write none of those rows
  (`OthersLeaveRows`).
* `CompareInv`: for such an execution, from its ledger stage on, each accepted event that is money of the date is posted or has an
  exception (`Decided`); its reconciliation compares what counts for the date, and that set *stands* (`Stands`): what another
  execution takes out of it later is a transaction that lies on another date as well and was held back after it was posted
  (`StandsStep`). Since an exception is never removed and a posted event is never removed, a transaction held back can be counted in again
  to give the money that was compared. Beyond the stage there is no difference (`NoDifference`). The argument is tied to
  the evidence object (`marker`) and not to the stage, because the mark of a date may be made by an execution that then fails
  for a lost answer; `GateInv` says that an execution that is marked has its evidence.

### What is only model-checked

`CallsEnd`, `PendingResolved`, `RecordsLeave`, `RegisteredIsStarted`, `ExecutionsEnd`: liveness under fairness, which is outside
TLAPS. Every invariant, action property and refinement of a passing run is proved. The four properties that
TLC refutes are what documents say and the code does not do (section 5).

## 5. What the runs disagree with

* `ledger_append_only`: `docs/invariants.md:14` calls ledger lines append-only consequences of accepted events. `_rebuild_projections`
  deletes all of them on each run; a late event that invalidates a payment takes its lines away (and `docs/invariants.md`
  itself asks for that: no partial projection), and a revised rule file rewrites lines of earlier events.
* `mismatch_reported`: `tests/test_store.py:135` asserts that a reconciliation with a difference is not reported as reconciled. That holds for a lone
  process; since the result is read back after the commit, a run that commits in between empties the table and the result says reconciled.

* `unassessed_posting`: `docs/failure-recovery.md:10` says that a capture without an authorization is excluded from the ledger by
  the lifecycle reconstruction. The ledger job selects the history a second time; an event that the execution of another date
  ingested after the state job has no exception yet and is posted, and its lines stay when the exception comes.

* `card_data_archived`: `docs/security.md:5` says that PAN, CVV, PIN and track data are rejected recursively before raw persistence, and
  `README.md:29` and `docs/claims.json:20` repeat it. `handler.py:116` looks at the business payload, for a CDC envelope its `data`;
  the archive of the next lines holds the whole record. Card-security fields in the envelope's metadata or beside `data` are archived.

Five more things met while modelling, which no run claims. Exceptions are merged and never removed, so a payment whose
events arrived out of order over two executions stays held back when its history has become valid. An
execution of an older revision replaces the stored differences of a date after the newer one was published. The
validation job reads the manifest by its key a second time, so that one put there since decides whether the settlement passes. An event
written with an offset that changes its date is ingested under one date and looked for under the other. And the publication update may be
made and its answer lost: `settlement_workflow.asl.json:151` says of an execution that fails that no authoritative publication status
was committed, and its date is RECONCILED all the same. No property breaks on that, since the evidence was written before.

Four hazards of `PROJECT.json` name no property, because the ones there are exempt exactly these cases: exceptions that are never lifted,
an older revision that overwrites a newer one's differences (`ReconciledMeansEqual` asks for a single execution of the date), the finance views
between the state job and the end of the ledger job, and marts built after the sensor while a newer revision is PROCESSING
(`MartsWaitForEvidence` asks only that some settlement of the date passed). The first two are what the code does, the other two
are how its stages are cut.

## 6. Not modelled

* Field syntax, tokenisation, redaction, the source registry, canonical JSON: text processing without state.
* `table_count()` and the other small reads of the core: they change nothing. `expected_settlement()` is the operator `ExpectedSettlement`.
* `manifest.py`, simulator, evidence builder, CLI: sequential and pure, or drivers of the core.
* dbt, Terraform, SQL, containers, Iceberg maintenance: declarations. Where they set a bound or a promise a model needs
  (retries, versioned buckets, the net receivable column), the model says so.
* Integer width: the contract asks only for a positive amount; one that does not fit SQLite's 64 bits raises inside the `try`
  block, which is a `Fail` of the model.
* The contract and duplicate-key checks of the validation job: a failure of the stage. Grouping, naming and the settlement view of dbt.

## 7. Plan

1. Done: the pure operators, `PaymentBook`, `LedgerStore`, `StoreSummary`, `IdentityGate`, `ManifestLoader`,
   `SettlementWorkflow`, the three abstract specifications, and the proofs of section 4.
2. Invariants that are proved as lemmas and would be worth runs of their own: `StateInv` and `AcceptedDebt` say more than the
   properties they imply (who owes what to whom while something is under way).
3. The liveness arguments as safety: ranking functions (attempts left, stages to go) shown to decrease with every step, so that
   only the fairness itself is left to TLC.
4. Composition: the identity gate's accepted bucket as the source of `Publish`, with events of one id under two dates.
5. The evidence builder as a client of the store (process, expected settlement, reconcile, replay), sequentially.
