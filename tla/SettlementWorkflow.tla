------------------------- MODULE SettlementWorkflow -------------------------
(***************************************************************************)
(* What an execution does to the Iceberg tables: the stages of             *)
(* orchestration/stepfunctions/settlement_workflow.asl.json and main() of  *)
(* the jobs under spark_jobs/ that they run, for concurrent executions of  *)
(* one date and of several.                                                *)
(*                                                                         *)
(* A job loads its input, a snapshot of the tables or a prefix of the      *)
(* accepted bucket, and commits each MERGE or overwrite by itself; it may  *)
(* fail or time out between any two of them.  Glue runs one run of a job   *)
(* at a time and refuses another.                                          *)
(*                                                                         *)
(* ManifestLoader has how executions come to be started, and the           *)
(* validation of the file, which touches no table.                         *)
(***************************************************************************)
EXTENDS PublicationTable, PaymentLifecycle, PostingRules

CONSTANTS
  Event,        \* what the identity gate publishes to the accepted bucket
  UtcDate,      \* the date of each event in UTC; e.date is the one it is written with
  Processed,    \* the net amount in the file of each settlement, by settlement key
  MaxAttempts   \* retries of a stage

Txn == {e.txn : e \in Event}

MONEY == {"capture", "refund", "chargeback"}

ASSUME WorkflowAssumption ==
  /\ \A e, f \in Event : e.id = f.id => e = f
  /\ UtcDate \in [Event -> Date]
  /\ MaxAttempts \in Nat

\* The identity gate published the events, so they are valid; no reason and no
\* row is None.
ASSUME HistoryAssumption ==
  /\ \A e \in Event : ValidEvent(e)
  /\ None \notin Range(REASONS) \cup {VALID}
  /\ \A E \in (SUBSET Event) \ {{}} :
       IsFiniteSet(E) /\ SparkVerdict(E) = VALID => SparkState(E) # None

VARIABLES
  bucket,     \* the accepted objects, by the date they are written with
  accepted,   \* accepted_event
  state,      \* payment_state: the row of each transaction
  exception,  \* business_exception: the error of each event
  posted,     \* posted_event
  ledger,     \* ledger_entry
  evidence,   \* settlement_evidence: the amounts of each date, by settlement key
  delta,      \* settlement_exception: the deltas of each date, by settlement key
  marker,     \* the evidence objects in the control bucket
  stage,      \* the state of each execution
  job,        \* how far the job run of its stage is
  view,       \* the rows that run works on
  retries,    \* the retries of its stage
  marts       \* how far the finance DAG is with each date

tables     == <<accepted, state, exception, posted, ledger, evidence, delta>>
executions == <<stage, job, view, retries>>
vars == <<registry, bucket, tables, marker, executions, marts>>

Init ==
  /\ RegistryInit
  /\ bucket = {} /\ accepted = {} /\ posted = {} /\ ledger = {} /\ marker = {}
  /\ state = [t \in Txn |-> None]
  /\ exception = [e \in Event |-> None]
  /\ evidence = [d \in Date |-> << >>]
  /\ delta = [d \in Date |-> << >>]
  /\ stage = [s \in Settlement |-> "absent"]
  /\ job = [s \in Settlement |-> "none"]
  /\ view = [s \in Settlement |-> {}]
  /\ retries = [s \in Settlement |-> 0]
  /\ marts = [d \in Date |-> "waiting"]

-----------------------------------------------------------------------------
(* Around the executions                                                   *)

\* The identity gate publishes an event.
Publish(e) ==
  /\ bucket' = bucket \cup {e}
  /\ UNCHANGED <<registry, tables, marker, executions, marts>>

RegisterRevision(s) ==
  /\ Newer(s)
  /\ Register(s)
  /\ stage' = [stage EXCEPT ![s] = "registered"]
  /\ UNCHANGED <<bucket, tables, marker, job, view, retries, marts>>

\* The execution of a revision that was registered, by now perhaps superseded,
\* starts and passes the validation of its file.
Launch(s) ==
  /\ stage[s] = "registered"
  /\ stage' = [stage EXCEPT ![s] = "ingest"]
  /\ UNCHANGED <<registry, bucket, tables, marker, job, view, retries, marts>>

\* Mutant of WaitForGate: any item of the date will do.
WaitForItem(d) ==
  /\ marts[d] = "waiting" /\ registry[d] # None
  /\ marts' = [marts EXCEPT ![d] = "open"]
  /\ UNCHANGED <<registry, bucket, tables, marker, executions>>

\* The sensor of the finance DAG.
WaitForGate(d) ==
  /\ marts[d] = "waiting" /\ Reconciled(d)
  /\ marts' = [marts EXCEPT ![d] = "open"]
  /\ UNCHANGED <<registry, bucket, tables, marker, executions>>

BuildMarts(d) ==
  /\ marts[d] = "open"
  /\ marts' = [marts EXCEPT ![d] = "built"]
  /\ UNCHANGED <<registry, bucket, tables, marker, executions>>

-----------------------------------------------------------------------------
(* Job runs                                                                *)

\* Mutant of Free: the jobs allow concurrent runs.
FreeAlways(s) == TRUE

\* No other execution runs the job of this stage.
Free(s) == \A u \in Settlement : stage[u] = stage[s] => job[u] = "none"

Start(s, label, rows) ==
  /\ stage[s] = label /\ job[s] = "none"
  /\ Free(s)
  /\ job' = [job EXCEPT ![s] = "loaded"]
  /\ view' = [view EXCEPT ![s] = rows]
  /\ UNCHANGED <<registry, bucket, tables, marker, stage, retries, marts>>

Running(s, label, progress) == stage[s] = label /\ job[s] = progress

Halfway(s) ==
  /\ job' = [job EXCEPT ![s] = "half"]
  /\ UNCHANGED <<registry, bucket, marker, stage, view, retries, marts>>

Leave(s, label) ==
  /\ stage' = [stage EXCEPT ![s] = label]
  /\ job' = [job EXCEPT ![s] = "none"]
  /\ view' = [view EXCEPT ![s] = {}]
  /\ retries' = [retries EXCEPT ![s] = 0]
  /\ UNCHANGED <<bucket, marts>>

\* The events of the transactions that have an event on the date, of any date.
AffectedHistory(d) ==
  {e \in accepted : \E f \in accepted : f.txn = e.txn /\ UtcDate[f] = d}

HistoryOf(t, E) == {e \in E : e.txn = t}

ErrorOf(e, E) == SparkVerdict(HistoryOf(e.txn, E))

-----------------------------------------------------------------------------
(* ingest_accepted_events.py                                               *)

\* The prefix of the date in the bucket.
StartIngestion(s) == Start(s, "ingest", {e \in bucket : e.date = s.date})

\* Event ids are unique, so what is not matched by id is what is not there.
MergeAccepted(s) ==
  /\ Running(s, "ingest", "loaded")
  /\ accepted' = accepted \cup view[s]
  /\ Leave(s, "state")
  /\ UNCHANGED <<registry, state, exception, posted, ledger, evidence, delta, marker>>

-----------------------------------------------------------------------------
(* reconstruct_payment_state.py                                            *)

\* Mutant of StartReconstruction: the history is cut to the date.
StartOnDate(s) == Start(s, "state", {e \in accepted : UtcDate[e] = s.date})

StartReconstruction(s) == Start(s, "state", AffectedHistory(s.date))

MergeStates(s) ==
  /\ Running(s, "state", "loaded")
  /\ state' = [t \in Txn |->
       LET E == HistoryOf(t, view[s])
       IN  IF E # {} /\ SparkVerdict(E) = VALID THEN SparkState(E) ELSE state[t]]
  /\ Halfway(s)
  /\ UNCHANGED <<accepted, exception, posted, ledger, evidence, delta>>

\* Rows are updated and inserted, none is removed.
MergeExceptions(s) ==
  /\ Running(s, "state", "half")
  /\ exception' = [e \in Event |->
       IF e \in view[s] /\ ErrorOf(e, view[s]) # VALID THEN ErrorOf(e, view[s])
                                                        ELSE exception[e]]
  /\ Leave(s, "ledger")
  /\ UNCHANGED <<registry, accepted, state, posted, ledger, evidence, delta, marker>>

-----------------------------------------------------------------------------
(* post_ledger.py                                                          *)

PostingLines(E) == UNION {SparkPostings(e) : e \in E}

\* Mutant of StartPosting: the exceptions are not left out.
StartPostingAll(s) ==
  Start(s, "ledger", OfType(AffectedHistory(s.date), MONEY))

\* Events with an exception are left out, event by event.
StartPosting(s) ==
  LET E == {e \in OfType(AffectedHistory(s.date), MONEY) : exception[e] = None}
  IN  Start(s, "ledger", E) /\ Balanced(PostingLines(E))

\* Mutant of MergePosted: the lines are merged first.
MergeLedgerFirst(s) ==
  /\ Running(s, "ledger", "loaded")
  /\ ledger' = ledger \cup PostingLines(view[s])
  /\ Halfway(s)
  /\ UNCHANGED <<accepted, state, exception, posted, evidence, delta>>

MergePosted(s) ==
  /\ Running(s, "ledger", "loaded")
  /\ posted' = posted \cup view[s]
  /\ Halfway(s)
  /\ UNCHANGED <<accepted, state, exception, ledger, evidence, delta>>

\* An entry id is the event id and the position of the line.
MergeLedger(s) ==
  /\ Running(s, "ledger", "half")
  /\ ledger' = ledger \cup PostingLines(view[s])
  /\ Leave(s, "reconcile")
  /\ UNCHANGED <<registry, accepted, state, exception, posted, evidence, delta, marker>>

-----------------------------------------------------------------------------
(* reconcile_settlements.py                                                *)

SettlementKey(e) == <<e.processor, e.currency>>

Effect(e) == CASE e.type = "capture"    -> e.amount
               [] e.type \in REVERSALS  -> -e.amount
               [] OTHER                 -> 0

Expected(E, k) == SumFunction([e \in {x \in E : SettlementKey(x) = k} |-> Effect(e)])

Amount(f, k) == IF k \in DOMAIN f THEN f[k] ELSE 0

\* The full join of what is expected with the file.
Deltas(E, file) ==
  LET Delta(k) == Expected(E, k) - Amount(file, k)
      keys     == {SettlementKey(e) : e \in E} \cup DOMAIN file
  IN  [k \in {key \in keys : Delta(key) # 0} |-> Delta(k)]

\* The posted events of the date whose transaction has no exception.
Settled(d) ==
  LET invalid == {e.txn : e \in {f \in Event : exception[f] # None}}
  IN  {e \in posted : UtcDate[e] = d /\ e.txn \notin invalid}

StartReconciliation(s) == Start(s, "reconcile", Settled(s.date))

\* Keys are updated and inserted, none is removed.
Merged(file, rows) ==
  [k \in DOMAIN file \cup DOMAIN rows |-> IF k \in DOMAIN file THEN file[k] ELSE rows[k]]

MergeEvidence(s) ==
  /\ Running(s, "reconcile", "loaded")
  /\ evidence' = [evidence EXCEPT ![s.date] = Merged(Processed[s], @)]
  /\ Halfway(s)
  /\ UNCHANGED <<accepted, state, exception, posted, ledger, delta>>

\* Mutant of OverwriteDeltas: a difference does not fail the job.
OverwriteAndPass(s) ==
  /\ Running(s, "reconcile", "half")
  /\ delta' = [delta EXCEPT ![s.date] = Deltas(view[s], Processed[s])]
  /\ Leave(s, "evidence")
  /\ UNCHANGED <<registry, accepted, state, exception, posted, ledger, evidence, marker>>

\* The deltas of the date are replaced, then the job fails if there are any.
OverwriteDeltas(s) ==
  /\ Running(s, "reconcile", "half")
  /\ LET deltas == Deltas(view[s], Processed[s])
     IN  /\ delta' = [delta EXCEPT ![s.date] = deltas]
         /\ Leave(s, IF DOMAIN deltas = {} THEN "evidence" ELSE "failed")
  /\ UNCHANGED <<registry, accepted, state, exception, posted, ledger, evidence, marker>>

-----------------------------------------------------------------------------
(* The state machine                                                       *)

JOBS == {"ingest", "state", "ledger", "reconcile"}

\* Mutant of Again: the limit is missed by one.
AgainBeyond(s) ==
  /\ retries[s] <= MaxAttempts
  /\ retries' = [retries EXCEPT ![s] = @ + 1]
  /\ job' = [job EXCEPT ![s] = "none"]
  /\ view' = [view EXCEPT ![s] = {}]
  /\ UNCHANGED <<registry, bucket, tables, marker, stage, marts>>

\* The stage is run again, by a retry.
Again(s) ==
  /\ retries[s] < MaxAttempts
  /\ retries' = [retries EXCEPT ![s] = @ + 1]
  /\ job' = [job EXCEPT ![s] = "none"]
  /\ view' = [view EXCEPT ![s] = {}]
  /\ UNCHANGED <<registry, bucket, tables, marker, stage, marts>>

\* Glue refuses the run; only two of the stages retry for that.
Collide(s) ==
  /\ stage[s] \in {"state", "ledger"} /\ job[s] = "none"
  /\ ~Free(s)
  /\ Again(s)

\* Mutant of TimeOut: the attempts are not counted.
TimeOutAlways(s) ==
  /\ stage[s] \in JOBS /\ job[s] # "none"
  /\ job' = [job EXCEPT ![s] = "none"]
  /\ view' = [view EXCEPT ![s] = {}]
  /\ UNCHANGED <<registry, bucket, tables, marker, stage, retries, marts>>

\* Mutant of TimeOut: the stage counts as done.
TimeOutForward(s) ==
  /\ stage[s] \in JOBS /\ job[s] # "none"
  /\ Leave(s, CASE stage[s] = "ingest" -> "state" [] stage[s] = "state" -> "ledger"
                [] stage[s] = "ledger" -> "reconcile" [] OTHER -> "evidence")
  /\ UNCHANGED <<registry, tables, marker>>

TimeOut(s) ==
  /\ stage[s] \in JOBS /\ job[s] # "none"
  /\ Again(s)

WriteEvidence(s) ==
  /\ stage[s] = "evidence"
  /\ marker' = marker \cup {s}
  /\ Leave(s, "gate")
  /\ UNCHANGED <<registry, tables>>

\* Mutant of PublishGate: the update is unconditional.
PublishAlways(s) ==
  /\ stage[s] = "gate"
  /\ MarkReconciled(s.date) /\ Leave(s, "published")
  /\ UNCHANGED <<tables, marker>>

\* The answer to an update that was made may be lost, and the catch then leads to
\* WorkflowFailed.
PublishGate(s) ==
  /\ stage[s] = "gate"
  /\ IF IsActive(s)
     THEN MarkReconciled(s.date) /\ \E end \in {"published", "failed"} : Leave(s, end)
     ELSE UNCHANGED registry /\ Leave(s, "superseded")
  /\ UNCHANGED <<tables, marker>>

\* A job fails, is refused or times out with no retry left, or a call fails.
FailExecution(s) ==
  /\ stage[s] \in JOBS \cup {"evidence", "gate"}
  /\ Leave(s, "failed")
  /\ UNCHANGED <<registry, tables, marker>>

-----------------------------------------------------------------------------
(* The finance views of dbt, evaluated when they are read                  *)

\* Mutant of Held: the views do not look at the exceptions.
HeldNever(t) == FALSE

\* A transaction with an event among the business exceptions is left out.
Held(t) == \E e \in HistoryOf(t, Event) : exception[e] # None

\* dim_payment_current: the net amount of each payment.
CurrentPayments == {t \in Txn : state[t] # None /\ ~Held(t)}

NetReceivable(t) == state[t].captured - state[t].refunded - state[t].chargeback

\* What fct_ledger_daily sums up.
VisibleLedger == {l \in ledger : ~Held(l.txn)}

-----------------------------------------------------------------------------
Run(s) ==
  \/ FailExecution(s)
  \/ StartIngestion(s) \/ MergeAccepted(s)
  \/ StartReconstruction(s) \/ MergeStates(s) \/ MergeExceptions(s)
  \/ StartPosting(s) \/ MergePosted(s) \/ MergeLedger(s)
  \/ StartReconciliation(s) \/ MergeEvidence(s) \/ OverwriteDeltas(s)
  \/ WriteEvidence(s) \/ PublishGate(s)
  \/ Collide(s) \/ TimeOut(s)

Next ==
  \/ \E e \in Event : Publish(e)
  \/ \E s \in Settlement : RegisterRevision(s) \/ Launch(s) \/ Run(s)
  \/ \E d \in Date : WaitForGate(d) \/ BuildMarts(d)

Spec == Init /\ [][Next]_vars

\* Step Functions takes an execution on until it ends.
FairSpec == Spec /\ \A s \in Settlement : WF_vars(Run(s))
-----------------------------------------------------------------------------
(* Properties                                                              *)

WAITING   == {"absent", "registered"}
ENDED     == {"published", "superseded", "failed"}
PROCESSED == {"reconcile", "evidence", "gate", "published", "superseded"}

\* The tables and the executions hold what they hold in the code.
TypeOK ==
  /\ RegistryOK
  /\ bucket \subseteq Event /\ accepted \subseteq Event /\ posted \subseteq Event
  /\ DOMAIN state = Txn
  /\ DOMAIN exception = Event
  /\ marker \subseteq Settlement
  /\ stage \in [Settlement -> WAITING \cup JOBS \cup {"evidence", "gate"} \cup ENDED]
  /\ job \in [Settlement -> {"none", "loaded", "half"}]
  /\ view \in [Settlement -> SUBSET Event]
  /\ retries \in [Settlement -> 0 .. MaxAttempts]
  /\ marts \in [Date -> {"waiting", "open", "built"}]

\* No ledger line without its event among the posted ones and without its
\* counterpart, whatever fails, is retried or runs concurrently.
LedgerFollowsPosted ==
  \A l \in ledger :
    \E e \in posted : l \in SparkPostings(e) /\ SparkPostings(e) \subseteq ledger

\* The transaction has an accepted event of the date of the execution.
Concerns(s, t) == \E e \in HistoryOf(t, accepted) : UtcDate[e] = s.date

\* Reconciliation counts posted events, finance reads ledger lines: an event that
\* counts is posted without its lines only while an execution of one of the dates of
\* its transaction is posting or after one of them failed.  One whose exception comes
\* between the two merges, when the job is run again, never gets lines, and does not
\* count.
PostedIsLedgered ==
  \A e \in posted :
    \/ SparkPostings(e) \subseteq ledger
    \/ exception[e] # None
    \/ \E s \in Settlement : stage[s] \in {"ledger", "failed"} /\ Concerns(s, e.txn)

\* Payment state is the projection of the accepted history, of all dates and in
\* whatever order it came: a payment whose history is valid has the state of all of
\* it, except while an execution of one of its dates has ingested and not yet
\* reconstructed, or after one failed.
StateIsCurrent ==
  \A t \in Txn :
    LET E == HistoryOf(t, accepted)
    IN  E # {} /\ SparkVerdict(E) = VALID /\ (\A e \in E : UtcDate[e] = e.date) =>
          \/ state[t] = SparkState(E)
          \/ \E s \in Settlement : stage[s] \in {"state", "failed"} /\ Concerns(s, t)

\* The two finance views agree: the ledger finance sees carries, for each payment
\* it sees, the net amount that payment shows, except while an execution of one of
\* its dates is between ingestion and posting, or after one failed.
FinanceViewsAgree ==
  \A t \in CurrentPayments :
    (\A e \in HistoryOf(t, accepted) : UtcDate[e] = e.date) =>
      \/ Balance({l \in VisibleLedger : l.txn = t /\ l.account = "processor_receivable"})
           = NetReceivable(t)
      \/ \E s \in Settlement : stage[s] \in {"state", "ledger", "failed"} /\ Concerns(s, t)

\* The transactions an execution of the date may work on.
TouchedOn(d) == {e.txn : e \in {f \in Event : f.date = d \/ UtcDate[f] = d}}

\* No other execution of the date was started; those of other dates may be anywhere.
Alone(s) == \A u \in Settlement \ {s} : u.date = s.date => stage[u] \in WAITING

\* The transaction lies on this date, by either notion of date.
LiesOn(t, d) == \A e \in HistoryOf(t, Event) : e.date = d /\ UtcDate[e] = d

\* Once an execution has posted, a transaction of its date alone is published or held
\* back as a unit, in all four tables, and as the rules of the lifecycle judge it,
\* whatever executions of other dates do to the same tables at the same time.
ProcessedAsAUnit ==
  \A s \in Settlement : stage[s] \in PROCESSED /\ Alone(s) =>
    \A t \in TouchedOn(s.date) : LiesOn(t, s.date) =>
      LET E     == HistoryOf(t, accepted)
          lines == {l \in ledger : l.txn = t}
      IN  IF E # {} /\ SparkVerdict(E) = VALID
          THEN /\ \A e \in E : exception[e] = None
               /\ state[t] = SparkState(E)
               /\ HistoryOf(t, posted) = OfType(E, MONEY)
               /\ lines = PostingLines(E)
          ELSE /\ \A e \in E : exception[e] = SparkVerdict(E)
               /\ state[t] = None
               /\ HistoryOf(t, posted) = {} /\ lines = {}

\* The posted events of the date that count, or would without the exceptions of the
\* transactions of X.
Counted(d, X) == {e \in posted : UtcDate[e] = d /\ (Held(e.txn) => e.txn \in X)}

\* A date is reconciled on a comparison without differences that lasts: whatever
\* executions of other dates ingest, post and judge, the money that counts for the
\* date stays that of the file of its active revision, but for payments that lie on
\* another date as well and have been held back, and evidence and deltas say so.
ReconciledMeansEqual ==
  \A s \in Settlement :
    /\ IsActive(s) /\ Reconciled(s.date) /\ Alone(s)
    /\ \A e \in accepted : UtcDate[e] = s.date => e.date = s.date
    => /\ \E X \in SUBSET {t \in Txn : Held(t) /\ ~LiesOn(t, s.date)} :
            Deltas(Counted(s.date, X), Processed[s]) = << >>
       /\ delta[s.date] = << >>
       /\ \A k \in DOMAIN Processed[s] : Amount(evidence[s.date], k) = Processed[s][k]

\* Finance builds nothing for a date no settlement of which passed.
MartsWaitForEvidence ==
  \A d \in Date : marts[d] # "waiting" => \E s \in marker : s.date = d

\* The state of a payment never goes back to an earlier version and never
\* disappears, however executions overlap.
StateMovesForward ==
  [][\A t \in Txn : state[t] # None =>
       state'[t] # None /\ state'[t].version >= state[t].version]_vars

Gate == INSTANCE PublicationGate
          WITH active <- [d \in Date |-> ActiveSettlement(d)], evidence <- marker,
               reconciled <- {d \in Date : Reconciled(d)}

\* With the jobs, their collisions and their retries in between, a date is
\* reconciled only for the active revision and on its evidence.
ImplementsPublicationGate == Gate!Spec

\* Every execution ends: retries, collisions and timeouts do not go on for ever.
ExecutionsEnd == \A s \in Settlement : stage[s] \notin WAITING ~> stage[s] \in ENDED

-----------------------------------------------------------------------------
(* What the documents say                                                  *)

\* A capture of a transaction without any authorization is not posted.
UnauthorizedExcluded ==
  \A e \in posted : e.type = "capture" =>
    OfType(HistoryOf(e.txn, accepted), {"authorization"}) # {}
=============================================================================
