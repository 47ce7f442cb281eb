---------------------- MODULE SettlementWorkflowProofs ----------------------
(***************************************************************************)
(* Machine-checked proofs about SettlementWorkflow, for every set of       *)
(* events, dates and settlements, every content of the files and every     *)
(* limit on the retries.                                                   *)
(***************************************************************************)
EXTENDS SettlementWorkflow, PublicationTableProofs, PaymentTheorems

-----------------------------------------------------------------------------
(* Types                                                                   *)

\* An event has a transaction and a date in UTC.
LEMMA EventFacts ==
  ASSUME NEW e \in Event
  PROVE  e.txn \in Txn /\ UtcDate[e] \in Date
BY WorkflowAssumption DEF Txn

\* The tables are empty and no execution has started at first.
LEMMA TypeInit == Init => TypeOK
BY WorkflowAssumption DEF Init, RegistryInit, RegistryOK, TypeOK, WAITING

\* What a job works on, and what it may add to the tables, are events.
LEMMA RowsAreEvents ==
  ASSUME TypeOK, NEW d \in Date
  PROVE  AffectedHistory(d) \subseteq Event /\ Settled(d) \subseteq Event
BY DEF TypeOK, AffectedHistory, Settled

\* A job run that starts with rows keeps the state well formed.
LEMMA StartType ==
  ASSUME TypeOK, NEW s \in Settlement, NEW label, NEW rows \in SUBSET Event, Start(s, label, rows)
  PROVE  TypeOK'
BY DEF Start, TypeOK, RegistryOK, tables

\* So does one that has committed its first MERGE,
LEMMA HalfwayType ==
  ASSUME TypeOK, NEW s \in Settlement, Halfway(s)
  PROVE  /\ job' \in [Settlement -> {"none", "loaded", "half"}]
         /\ UNCHANGED <<registry, bucket, marker, stage, view, retries, marts>>
BY DEF Halfway, TypeOK

\* one that is left for the next stage,
LEMMA LeaveType ==
  ASSUME TypeOK, NEW s \in Settlement, Leave(s, "state") \/ Leave(s, "ledger")
           \/ Leave(s, "reconcile") \/ Leave(s, "evidence") \/ Leave(s, "gate")
           \/ Leave(s, "published") \/ Leave(s, "superseded") \/ Leave(s, "failed")
  PROVE  /\ stage' \in [Settlement -> WAITING \cup JOBS \cup {"evidence", "gate"} \cup ENDED]
         /\ job' \in [Settlement -> {"none", "loaded", "half"}]
         /\ view' \in [Settlement -> SUBSET Event]
         /\ retries' \in [Settlement -> 0 .. MaxAttempts]
         /\ UNCHANGED <<bucket, marts>>
BY WorkflowAssumption DEF Leave, TypeOK, JOBS, ENDED

\* and one that is tried again.
LEMMA AgainType ==
  ASSUME TypeOK, NEW s \in Settlement, Again(s)
  PROVE  TypeOK'
<1>1. retries' \in [Settlement -> 0 .. MaxAttempts]
  BY WorkflowAssumption DEF Again, TypeOK
<1> QED
  BY <1>1 DEF Again, TypeOK, RegistryOK, tables

\* Every step keeps the tables and the executions well formed.
LEMMA TypeStep == TypeOK /\ [Next]_vars => TypeOK'
<1> SUFFICES ASSUME TypeOK, [Next]_vars PROVE TypeOK'
  OBVIOUS
<1>1. ASSUME NEW e \in Event, Publish(e) PROVE TypeOK'
  BY <1>1 DEF Publish, TypeOK, RegistryOK, tables, executions
<1>2. ASSUME NEW s \in Settlement, RegisterRevision(s) PROVE TypeOK'
  <2>1. RegistryOK'
    BY <1>2, RegisterFacts DEF RegisterRevision, TypeOK
  <2> QED
    BY <1>2, <2>1 DEF RegisterRevision, TypeOK, tables, WAITING
<1>3. ASSUME NEW s \in Settlement, Launch(s) PROVE TypeOK'
  BY <1>3 DEF Launch, TypeOK, RegistryOK, tables, JOBS
<1>4. ASSUME NEW d \in Date, WaitForGate(d) \/ BuildMarts(d) PROVE TypeOK'
  BY <1>4 DEF WaitForGate, BuildMarts, TypeOK, RegistryOK, tables, executions
<1>5. ASSUME NEW s \in Settlement, Run(s) PROVE TypeOK'
  <2>0. s.date \in Date
    BY PartFacts
  <2>1. CASE StartIngestion(s) \/ StartReconstruction(s) \/ StartPosting(s) \/ StartReconciliation(s)
    <3>1. /\ {e \in bucket : e.date = s.date} \in SUBSET Event
          /\ AffectedHistory(s.date) \in SUBSET Event
          /\ {e \in OfType(AffectedHistory(s.date), MONEY) : exception[e] = None} \in SUBSET Event
          /\ Settled(s.date) \in SUBSET Event
      BY <2>0, RowsAreEvents DEF TypeOK, OfType
    <3> QED
      BY <2>1, <3>1, StartType DEF StartIngestion, StartReconstruction, StartPosting,
                                   StartReconciliation
  <2>2. CASE MergeAccepted(s)
    <3>1. accepted' \subseteq Event
      BY <2>2 DEF MergeAccepted, TypeOK
    <3> QED
      BY <2>2, <3>1, LeaveType DEF MergeAccepted, TypeOK, RegistryOK
  <2>3. CASE MergeStates(s) \/ MergePosted(s) \/ MergeEvidence(s)
    <3>1. DOMAIN state' = Txn /\ posted' \subseteq Event
      BY <2>3 DEF MergeStates, MergePosted, MergeEvidence, TypeOK
    <3>2. UNCHANGED <<accepted, exception>>
      BY <2>3 DEF MergeStates, MergePosted, MergeEvidence
    <3>3. Halfway(s)
      BY <2>3 DEF MergeStates, MergePosted, MergeEvidence
    <3> QED
      BY <3>1, <3>2, <3>3, HalfwayType DEF TypeOK, RegistryOK
  <2>4. CASE MergeExceptions(s) \/ MergeLedger(s) \/ OverwriteDeltas(s)
    <3>1. DOMAIN exception' = Event
      BY <2>4 DEF MergeExceptions, MergeLedger, OverwriteDeltas, TypeOK
    <3>2. UNCHANGED <<registry, accepted, state, posted, marker>>
      BY <2>4 DEF MergeExceptions, MergeLedger, OverwriteDeltas
    <3>3. Leave(s, "ledger") \/ Leave(s, "reconcile") \/ Leave(s, "evidence") \/ Leave(s, "failed")
      BY <2>4 DEF MergeExceptions, MergeLedger, OverwriteDeltas
    <3> QED
      BY <3>1, <3>2, <3>3, LeaveType DEF TypeOK, RegistryOK
  <2>5. CASE WriteEvidence(s)
    BY <2>5, LeaveType DEF WriteEvidence, TypeOK, RegistryOK, tables
  <2>6. CASE PublishGate(s)
    <3>1. RegistryOK'
      BY <2>6, ReconcileFacts DEF PublishGate, TypeOK, RegistryOK
    <3>2. Leave(s, "published") \/ Leave(s, "superseded") \/ Leave(s, "failed")
      BY <2>6 DEF PublishGate
    <3> QED
      BY <2>6, <3>1, <3>2, LeaveType DEF PublishGate, TypeOK, tables
  <2>7. CASE FailExecution(s)
    BY <2>7, LeaveType DEF FailExecution, TypeOK, RegistryOK, tables
  <2>8. CASE Collide(s) \/ TimeOut(s)
    BY <2>8, AgainType DEF Collide, TimeOut
  <2> QED
    BY <1>5, <2>1, <2>2, <2>3, <2>4, <2>5, <2>6, <2>7, <2>8 DEF Run
<1>6. CASE UNCHANGED vars
  BY <1>6 DEF vars, TypeOK, RegistryOK, tables, executions
<1> QED
  BY <1>1, <1>2, <1>3, <1>4, <1>5, <1>6 DEF Next

\* The tables, the bucket, the registry and the executions are well formed
\* whatever is published, registered, launched, retried or fails.
THEOREM WorkflowTypeCorrect == Spec => []TypeOK
BY TypeInit, TypeStep, PTL DEF Spec

-----------------------------------------------------------------------------
(* Registration                                                            *)

\* A revision that was registered is never newer than the registered one again.
RegisteredOnce == \A s \in Settlement : stage[s] # "absent" => ~Newer(s)

\* Only a registration and the gate write the publication table.
LEMMA RegistryFrame ==
  ASSUME TypeOK, [Next]_vars
  PROVE  \/ UNCHANGED registry
         \/ \E s \in Settlement : RegisterRevision(s)
         \/ \E s \in Settlement : PublishGate(s) /\ IsActive(s)
BY DEF Next, Run, vars, tables, Publish, Launch, WaitForGate, BuildMarts, Start, Halfway, Leave,
       StartIngestion, StartReconstruction, StartPosting, StartReconciliation, MergeAccepted,
       MergeStates, MergeExceptions, MergePosted, MergeLedger, MergeEvidence, OverwriteDeltas,
       WriteEvidence, PublishGate, FailExecution, Collide, TimeOut, Again

\* The revision of a date never goes back.
LEMMA NeverNewerAgain ==
  ASSUME TypeOK, [Next]_vars, NEW s \in Settlement, ~Newer(s)
  PROVE  ~Newer(s)'
<1>0. /\ s.date \in Date /\ s.revision \in Nat
      /\ registry[s.date] \in Item /\ registry[s.date] # None
      /\ registry[s.date].revision \in Nat /\ registry[s.date].revision >= s.revision
  BY PartFacts DEF Newer, TypeOK, RegistryOK, Item
<1>1. ASSUME NEW u \in Settlement, RegisterRevision(u) PROVE ~Newer(s)'
  <2>1. /\ registry'[u.date] # None /\ registry'[u.date].revision = u.revision
        /\ \A d \in Date \ {u.date} : registry'[d] = registry[d]
    BY <1>1, RegisterFacts DEF RegisterRevision, TypeOK
  <2>2. CASE u.date = s.date
    <3>1. registry[s.date].revision < u.revision /\ u.revision \in Nat
      BY <1>0, <1>1, <2>2, PartFacts DEF RegisterRevision, Newer
    <3> QED
      BY <1>0, <2>1, <2>2, <3>1 DEF Newer
  <2>3. CASE u.date # s.date
    BY <1>0, <2>1, <2>3 DEF Newer
  <2> QED
    BY <2>2, <2>3
<1>2. ASSUME NEW u \in Settlement, PublishGate(u), IsActive(u) PROVE ~Newer(s)'
  <2>1. /\ registry'[u.date] # None /\ registry'[u.date].revision = u.revision
        /\ \A d \in Date \ {u.date} : registry'[d] = registry[d]
    BY <1>2, ReconcileFacts DEF PublishGate, TypeOK
  <2> QED
    BY <1>0, <1>2, <2>1 DEF Newer, IsActive
<1>3. CASE UNCHANGED registry
  BY <1>0, <1>3 DEF Newer
<1> QED
  BY <1>1, <1>2, <1>3, RegistryFrame

\* A step of another execution leaves this one alone.
LEMMA OthersRun ==
  ASSUME TypeOK, NEW u \in Settlement, Run(u), NEW s \in Settlement, u # s
  PROVE  stage'[s] = stage[s] /\ job'[s] = job[s] /\ view'[s] = view[s]
BY DEF TypeOK, Run, Start, Halfway, Leave, Again,
       StartIngestion, StartReconstruction, StartPosting, StartReconciliation, MergeAccepted,
       MergeStates, MergeExceptions, MergePosted, MergeLedger, MergeEvidence, OverwriteDeltas,
       WriteEvidence, PublishGate, FailExecution, Collide, TimeOut

\* An execution is absent until its revision is registered, and a revision is registered
\* once.
LEMMA RegisteredOnceStep ==
  ASSUME TypeOK, RegisteredOnce, [Next]_vars
  PROVE  RegisteredOnce'
<1> SUFFICES ASSUME NEW s \in Settlement, stage'[s] # "absent"
             PROVE  ~Newer(s)'
  BY DEF RegisteredOnce
<1>1. CASE stage[s] # "absent"
  BY <1>1, NeverNewerAgain DEF RegisteredOnce
<1>2. CASE stage[s] = "absent"
  <2>1. RegisterRevision(s)
    <3>1. ASSUME NEW u \in Settlement, Run(u)  PROVE  stage'[s] = "absent"
      <4>1. CASE u = s
        BY <1>2, <3>1, <4>1 DEF Run, FailExecution, StartIngestion, MergeAccepted,
           StartReconstruction, MergeStates, MergeExceptions, StartPosting, MergePosted,
           MergeLedger, StartReconciliation, MergeEvidence, OverwriteDeltas, WriteEvidence,
           PublishGate, Collide, TimeOut, Start, Halfway, Running, JOBS
      <4> QED
        BY <1>2, <3>1, <4>1, OthersRun
    <3>2. ASSUME NEW u \in Settlement, RegisterRevision(u), u # s  PROVE  stage'[s] = "absent"
      BY <1>2, <3>2 DEF RegisterRevision, TypeOK
    <3>3. ASSUME NEW u \in Settlement, Launch(u)  PROVE  stage'[s] = "absent"
      BY <1>2, <3>3 DEF Launch, TypeOK
    <3>4. ASSUME NEW e \in Event, Publish(e)  PROVE  stage'[s] = "absent"
      BY <1>2, <3>4 DEF Publish, executions
    <3>5. ASSUME NEW d \in Date, WaitForGate(d) \/ BuildMarts(d)  PROVE  stage'[s] = "absent"
      BY <1>2, <3>5 DEF WaitForGate, BuildMarts, executions
    <3> QED
      BY <1>2, <3>1, <3>2, <3>3, <3>4, <3>5 DEF Next, vars, executions
  <2>2. registry'[s.date] # None /\ registry'[s.date].revision = s.revision
    BY <2>1, RegisterFacts DEF RegisterRevision, TypeOK
  <2>3. s.revision \in Nat
    BY PartFacts
  <2> QED
    BY <2>2, <2>3 DEF Newer
<1> QED
  BY <1>1, <1>2

\* A revision that has an execution is not newer than the registered one.
LEMMA RegisteredOnceAlways == Spec => []RegisteredOnce
<1>1. Init => RegisteredOnce
  BY DEF Init, RegisteredOnce
<1>2. TypeOK /\ RegisteredOnce /\ [Next]_vars => RegisteredOnce'
  BY RegisteredOnceStep
<1> QED
  BY <1>1, <1>2, WorkflowTypeCorrect, PTL DEF Spec

\* An execution that is past its registration is moved by its own steps only.
LEMMA OwnRun ==
  ASSUME TypeOK, RegisteredOnce, [Next]_vars, NEW s \in Settlement, stage[s] \notin WAITING
  PROVE  \/ stage'[s] = stage[s] /\ job'[s] = job[s] /\ view'[s] = view[s]
         \/ Run(s)
<1>1. ASSUME NEW u \in Settlement, RegisterRevision(u) \/ Launch(u)
      PROVE  stage'[s] = stage[s] /\ job'[s] = job[s] /\ view'[s] = view[s]
  <2>1. u # s
    BY <1>1 DEF RegisterRevision, Launch, RegisteredOnce, WAITING
  <2> QED
    BY <1>1, <2>1 DEF RegisterRevision, Launch, TypeOK
<1>2. \/ \E u \in Settlement : Run(u) \/ RegisterRevision(u) \/ Launch(u)
      \/ UNCHANGED executions
  BY DEF Next, vars, Publish, WaitForGate, BuildMarts
<1> QED
  BY <1>1, <1>2, OthersRun DEF executions

-----------------------------------------------------------------------------
(* The two merges of the ledger job                                        *)

\* Between the two merges everything the job works on is posted.
HalfPosted ==
  \A s \in Settlement : stage[s] = "ledger" /\ job[s] = "half" => view[s] \subseteq posted

\* Posted events and ledger lines are never removed.
LEMMA PostedGrows ==
  ASSUME TypeOK, [Next]_vars
  PROVE  posted \subseteq posted' /\ ledger \subseteq ledger'
BY DEF Next, Run, vars, tables, Publish, RegisterRevision, Launch, WaitForGate, BuildMarts, Start,
       StartIngestion, StartReconstruction, StartPosting, StartReconciliation, MergeAccepted,
       MergeStates, MergeExceptions, MergePosted, MergeLedger, MergeEvidence, OverwriteDeltas,
       WriteEvidence, PublishGate, FailExecution, Collide, TimeOut, Again

\* What a step of the jobs does to the execution that takes it.
LEMMA JobFrame ==
  ASSUME TypeOK, [Next]_vars, NEW s \in Settlement, stage'[s] = "ledger", job'[s] = "half"
  PROVE  \/ MergePosted(s)
         \/ stage[s] = "ledger" /\ job[s] = "half" /\ view'[s] = view[s]
<1>1. ASSUME NEW u \in Settlement, Run(u), u # s
      PROVE  stage'[s] = stage[s] /\ job'[s] = job[s] /\ view'[s] = view[s]
  BY <1>1, OthersRun
<1>2. ASSUME Run(s) PROVE MergePosted(s)
  BY <1>2 DEF TypeOK, Run, Start, Halfway, Leave, Again, Running,
       StartIngestion, StartReconstruction, StartPosting, StartReconciliation, MergeAccepted,
       MergeStates, MergeExceptions, MergePosted, MergeLedger, MergeEvidence, OverwriteDeltas,
       WriteEvidence, PublishGate, FailExecution, Collide, TimeOut
<1>3. ASSUME NEW u \in Settlement, RegisterRevision(u) \/ Launch(u)
      PROVE  stage[s] = "ledger" /\ job[s] = "half" /\ view'[s] = view[s]
  BY <1>3 DEF RegisterRevision, Launch, TypeOK
<1>4. \/ \E u \in Settlement : Run(u) \/ RegisterRevision(u) \/ Launch(u)
      \/ UNCHANGED executions
  BY DEF Next, vars, Publish, WaitForGate, BuildMarts
<1> QED
  BY <1>1, <1>2, <1>3, <1>4 DEF executions

\* What the job works on stays posted, and no other run of the job changes what that is.
LEMMA HalfPostedStep ==
  ASSUME TypeOK, HalfPosted, [Next]_vars
  PROVE  HalfPosted'
<1> SUFFICES ASSUME NEW s \in Settlement, stage'[s] = "ledger", job'[s] = "half"
             PROVE  view'[s] \subseteq posted'
  BY DEF HalfPosted
<1>1. CASE MergePosted(s)
  BY <1>1 DEF MergePosted, Halfway
<1>2. CASE stage[s] = "ledger" /\ job[s] = "half" /\ view'[s] = view[s]
  BY <1>2, PostedGrows DEF HalfPosted
<1> QED
  BY <1>1, <1>2, JobFrame

\* The ledger is written by the second MERGE only.
LEMMA LedgerFrame ==
  ASSUME [Next]_vars
  PROVE  UNCHANGED ledger \/ \E s \in Settlement : MergeLedger(s)
BY DEF Next, Run, vars, tables, Publish, RegisterRevision, Launch, WaitForGate, BuildMarts, Start,
       StartIngestion, StartReconstruction, StartPosting, StartReconciliation, MergeAccepted,
       MergeStates, MergeExceptions, MergePosted, MergeEvidence, OverwriteDeltas,
       WriteEvidence, PublishGate, FailExecution, Collide, TimeOut, Again

\* The lines of a MERGE are all the lines of events that were posted before.
LEMMA FollowsStep ==
  ASSUME TypeOK, HalfPosted, LedgerFollowsPosted, [Next]_vars
  PROVE  LedgerFollowsPosted'
<1> SUFFICES ASSUME NEW l \in ledger'
             PROVE  \E e \in posted' : l \in SparkPostings(e) /\ SparkPostings(e) \subseteq ledger'
  BY DEF LedgerFollowsPosted
<1>1. CASE l \in ledger
  BY <1>1, PostedGrows DEF LedgerFollowsPosted
<1>2. CASE l \notin ledger
  <2>1. PICK s \in Settlement : MergeLedger(s)
    BY <1>2, LedgerFrame
  <2>2. PICK e \in view[s] : l \in SparkPostings(e)
    BY <1>2, <2>1 DEF MergeLedger, PostingLines
  <2>3. e \in posted
    BY <2>1, <2>2 DEF MergeLedger, Running, HalfPosted
  <2>4. SparkPostings(e) \subseteq ledger'
    BY <2>1, <2>2 DEF MergeLedger, PostingLines
  <2> QED
    BY <2>2, <2>3, <2>4, PostedGrows
<1> QED
  BY <1>1, <1>2

\* No line of the ledger without its posted event and its counterpart: the ledger
\* job may stop between its two merges and executions may overlap.
THEOREM NoLineWithoutItsEvent == Spec => []LedgerFollowsPosted
<1>1. Init => HalfPosted /\ LedgerFollowsPosted
  BY DEF Init, HalfPosted, LedgerFollowsPosted
<1>2. TypeOK /\ HalfPosted /\ LedgerFollowsPosted /\ [Next]_vars
      => HalfPosted' /\ LedgerFollowsPosted'
  BY HalfPostedStep, FollowsStep
<1> QED
  BY <1>1, <1>2, WorkflowTypeCorrect, PTL DEF Spec

-----------------------------------------------------------------------------
(* What is posted gets its lines                                           *)

\* An event that still lacks its lines is in the hands of an execution whose
\* ledger job has it in its input, now or when it runs again.
Owes(s, e) ==
  /\ stage[s] = "ledger"
  /\ e \in AffectedHistory(s.date)
  /\ job[s] # "none" => e \in view[s]

\* A failed execution of a date of the transaction.
FailedOn(s, t) == stage[s] = "failed" /\ Concerns(s, t)

DebtInv ==
  \A e \in posted :
    \/ SparkPostings(e) \subseteq ledger
    \/ exception[e] # None
    \/ \E s \in Settlement : FailedOn(s, e.txn) \/ Owes(s, e)

\* The ledger job works on money events of the history it is about.
PostingViews ==
  /\ \A s \in Settlement : stage[s] = "ledger" /\ job[s] # "none" =>
       view[s] \subseteq OfType(AffectedHistory(s.date), MONEY)
  /\ posted \subseteq OfType(Event, MONEY)

\* Accepted events are added by the ingestion job only, and never removed.
LEMMA AcceptedFrame ==
  ASSUME TypeOK, [Next]_vars
  PROVE  /\ accepted \subseteq accepted'
         /\ UNCHANGED exception \/ \E s \in Settlement : MergeExceptions(s)
         /\ UNCHANGED posted \/ \E s \in Settlement : MergePosted(s)
<1>1. accepted \subseteq accepted'
  BY DEF Next, Run, vars, tables, Publish, RegisterRevision, Launch, WaitForGate, BuildMarts, Start,
       StartIngestion, StartReconstruction, StartPosting, StartReconciliation, MergeAccepted,
       MergeStates, MergeExceptions, MergePosted, MergeLedger, MergeEvidence, OverwriteDeltas,
       WriteEvidence, PublishGate, FailExecution, Collide, TimeOut, Again
<1>2. UNCHANGED exception \/ \E s \in Settlement : MergeExceptions(s)
  BY DEF Next, Run, vars, tables, Publish, RegisterRevision, Launch, WaitForGate, BuildMarts, Start,
       StartIngestion, StartReconstruction, StartPosting, StartReconciliation, MergeAccepted,
       MergeStates, MergePosted, MergeLedger, MergeEvidence, OverwriteDeltas,
       WriteEvidence, PublishGate, FailExecution, Collide, TimeOut, Again
<1>3. UNCHANGED posted \/ \E s \in Settlement : MergePosted(s)
  BY DEF Next, Run, vars, tables, Publish, RegisterRevision, Launch, WaitForGate, BuildMarts, Start,
       StartIngestion, StartReconstruction, StartPosting, StartReconciliation, MergeAccepted,
       MergeStates, MergeExceptions, MergeLedger, MergeEvidence, OverwriteDeltas,
       WriteEvidence, PublishGate, FailExecution, Collide, TimeOut, Again
<1> QED
  BY <1>1, <1>2, <1>3

\* So the history of a date grows.
LEMMA HistoryGrows ==
  ASSUME TypeOK, [Next]_vars, NEW d
  PROVE  AffectedHistory(d) \subseteq AffectedHistory(d)'
BY AcceptedFrame DEF AffectedHistory

\* A verdict is never None.
LEMMA VerdictIsOne == ASSUME NEW E PROVE SparkVerdict(E) # None
<1>1. SparkViolations(E) \in SUBSET Range(REASONS)
  BY DEF SparkViolations
<1>2. SparkVerdict(E) \in SparkViolations(E) \cup {VALID}
  BY <1>1, ValidVerdict DEF SparkVerdict
<1> QED
  BY <1>1, <1>2, HistoryAssumption

\* An exception is never removed.
LEMMA ExceptionStays ==
  ASSUME TypeOK, [Next]_vars, NEW e \in Event, exception[e] # None
  PROVE  exception'[e] # None
<1>1. ASSUME NEW s \in Settlement, MergeExceptions(s) PROVE exception'[e] # None
  <2>1. exception'[e] = IF e \in view[s] /\ ErrorOf(e, view[s]) # VALID
                        THEN ErrorOf(e, view[s]) ELSE exception[e]
    BY <1>1 DEF MergeExceptions
  <2>2. CASE e \in view[s]
    <3>1. ErrorOf(e, view[s]) # None
      BY VerdictIsOne DEF ErrorOf
    <3> QED
      BY <2>1, <3>1
  <2> QED
    BY <2>1, <2>2
<1> QED
  BY <1>1, AcceptedFrame

\* The steps of an execution that is in the ledger stage.
LEMMA LedgerStage ==
  ASSUME TypeOK, RegisteredOnce, [Next]_vars, NEW s \in Settlement, stage[s] = "ledger"
  PROVE  \/ stage'[s] = stage[s] /\ job'[s] = job[s] /\ view'[s] = view[s]
         \/ StartPosting(s)
         \/ MergePosted(s)
         \/ MergeLedger(s)
         \/ stage'[s] = "ledger" /\ job'[s] = "none"
         \/ stage'[s] = "failed"
<1>1. ASSUME Run(s)
      PROVE  \/ StartPosting(s) \/ MergePosted(s) \/ MergeLedger(s)
             \/ stage'[s] = "ledger" /\ job'[s] = "none"
             \/ stage'[s] = "failed"
  BY <1>1 DEF TypeOK, Run, Start, Leave, Again, Running,
       StartIngestion, StartReconstruction, StartReconciliation, MergeAccepted,
       MergeStates, MergeExceptions, MergeEvidence, OverwriteDeltas,
       WriteEvidence, PublishGate, FailExecution, Collide, TimeOut
<1> QED
  BY <1>1, OwnRun DEF WAITING

\* An execution that failed stays so.
LEMMA FailedStays ==
  ASSUME TypeOK, RegisteredOnce, [Next]_vars, NEW s \in Settlement, stage[s] = "failed"
  PROVE  stage'[s] = "failed"
<1>1. ~Run(s)
  BY DEF Run, Start, Running, JOBS,
       StartIngestion, StartReconstruction, StartPosting, StartReconciliation, MergeAccepted,
       MergeStates, MergeExceptions, MergePosted, MergeLedger, MergeEvidence, OverwriteDeltas,
       WriteEvidence, PublishGate, FailExecution, Collide, TimeOut
<1> QED
  BY <1>1, OwnRun DEF WAITING

\* What concerns a transaction goes on to concern it: nothing leaves the accepted events.
LEMMA ConcernStays ==
  ASSUME TypeOK, [Next]_vars, NEW s, NEW t, Concerns(s, t)
  PROVE  Concerns(s, t)'
BY AcceptedFrame DEF Concerns, HistoryOf

\* An execution concerns the transactions whose history it is about.
LEMMA AffectedConcerns ==
  ASSUME NEW s, NEW e, e \in AffectedHistory(s.date)
  PROVE  Concerns(s, e.txn)
BY DEF AffectedHistory, Concerns, HistoryOf

\* A transaction that a failed execution concerned is never rid of it.
LEMMA FailureStays ==
  ASSUME TypeOK, RegisteredOnce, [Next]_vars, NEW s \in Settlement, NEW t, FailedOn(s, t)
  PROVE  FailedOn(s, t)'
BY FailedStays, ConcernStays DEF FailedOn

\* What enters the ledger stage, or is in it, has no job or a job on its history.
LEMMA PostingViewsStep ==
  ASSUME TypeOK, RegisteredOnce, PostingViews, [Next]_vars
  PROVE  PostingViews'
<1>1. posted' \subseteq OfType(Event, MONEY)
  <2>1. ASSUME NEW s \in Settlement, MergePosted(s) PROVE posted' \subseteq OfType(Event, MONEY)
    <3>1. view[s] \subseteq OfType(AffectedHistory(s.date), MONEY) /\ posted' = posted \cup view[s]
      BY <2>1 DEF MergePosted, Running, PostingViews
    <3>2. AffectedHistory(s.date) \subseteq Event
      BY RowsAreEvents, PartFacts
    <3> QED
      BY <3>1, <3>2 DEF PostingViews, OfType
  <2> QED
    BY <2>1, AcceptedFrame DEF PostingViews
<1>2. ASSUME NEW s \in Settlement, stage'[s] = "ledger", job'[s] # "none"
      PROVE  view'[s] \subseteq OfType(AffectedHistory(s.date), MONEY)'
  <2>1. OfType(AffectedHistory(s.date), MONEY) \subseteq OfType(AffectedHistory(s.date), MONEY)'
    BY HistoryGrows DEF OfType
  <2>2. CASE stage[s] = "ledger"
    <3>1. \/ job[s] # "none" /\ view'[s] = view[s]
          \/ view'[s] \subseteq OfType(AffectedHistory(s.date), MONEY)
      BY <1>2, <2>2, LedgerStage DEF StartPosting, Start, MergePosted, MergeLedger, Halfway, Leave,
             Running, TypeOK
    <3> QED
      BY <2>1, <2>2, <3>1 DEF PostingViews
  <2>3. CASE stage[s] # "ledger"
    <3>1. ASSUME Run(s) PROVE FALSE
      BY <1>2, <2>3, <3>1 DEF TypeOK, Run, Start, Halfway, Leave, Again, Running,
           StartIngestion, StartReconstruction, StartPosting, StartReconciliation, MergeAccepted,
           MergeStates, MergeExceptions, MergePosted, MergeLedger, MergeEvidence, OverwriteDeltas,
           WriteEvidence, PublishGate, FailExecution, Collide, TimeOut
    <3>2. ASSUME NEW u \in Settlement, RegisterRevision(u) \/ Launch(u) PROVE FALSE
      BY <1>2, <2>3, <3>2 DEF RegisterRevision, Launch, TypeOK
    <3>3. \/ \E u \in Settlement : Run(u) \/ RegisterRevision(u) \/ Launch(u)
          \/ UNCHANGED executions
      BY DEF Next, vars, Publish, WaitForGate, BuildMarts
    <3> QED
      BY <1>2, <2>3, <3>1, <3>2, <3>3, OthersRun DEF executions
  <2> QED
    BY <2>2, <2>3
<1> QED
  BY <1>1, <1>2 DEF PostingViews

\* A run that owes an event its lines goes on owing them, has merged them, or failed.
LEMMA OwesStep ==
  ASSUME TypeOK, RegisteredOnce, PostingViews, [Next]_vars,
         NEW s \in Settlement, NEW e \in OfType(Event, MONEY), Owes(s, e), exception[e] = None
  PROVE  SparkPostings(e) \subseteq ledger' \/ FailedOn(s, e.txn)' \/ Owes(s, e)'
<1>0. e \in AffectedHistory(s.date) /\ e \in AffectedHistory(s.date)' /\ e.type \in MONEY
  BY HistoryGrows DEF Owes, PostingViews, OfType
<1>1. CASE stage'[s] = stage[s] /\ job'[s] = job[s] /\ view'[s] = view[s]
  BY <1>0, <1>1 DEF Owes
<1>2. CASE StartPosting(s)
  BY <1>0, <1>2 DEF StartPosting, Start, Owes, OfType, TypeOK
<1>3. CASE MergePosted(s)
  BY <1>0, <1>3 DEF MergePosted, Halfway, Running, Owes
<1>4. CASE MergeLedger(s)
  BY <1>4 DEF MergeLedger, Running, Owes, PostingLines
<1>5. CASE stage'[s] = "ledger" /\ job'[s] = "none"
  BY <1>0, <1>5 DEF Owes
<1>6. Concerns(s, e.txn)'
  BY <1>0, AffectedConcerns, ConcernStays
<1> QED
  BY <1>1, <1>2, <1>3, <1>4, <1>5, <1>6, LedgerStage DEF Owes, FailedOn

\* A posted event has its lines, an exception, or a run that owes them.
LEMMA DebtStep ==
  ASSUME TypeOK, RegisteredOnce, PostingViews, DebtInv, [Next]_vars
  PROVE  DebtInv'
<1> SUFFICES ASSUME NEW e \in posted', ~(SparkPostings(e) \subseteq ledger'), exception'[e] = None
             PROVE  \E s \in Settlement : FailedOn(s, e.txn)' \/ Owes(s, e)'
  BY DEF DebtInv
<1>1. CASE e \in posted
  <2>1. exception[e] = None /\ ~(SparkPostings(e) \subseteq ledger)
    BY <1>1, ExceptionStays, PostedGrows DEF TypeOK
  <2>2. PICK s \in Settlement : FailedOn(s, e.txn) \/ Owes(s, e)
    BY <1>1, <2>1 DEF DebtInv
  <2>3. e \in OfType(Event, MONEY)
    BY <1>1 DEF PostingViews
  <2> QED
    BY <2>1, <2>2, <2>3, FailureStays, OwesStep
<1>2. CASE e \notin posted
  <2>1. PICK s \in Settlement : MergePosted(s)
    BY <1>2, AcceptedFrame
  <2>2. e \in view[s] /\ stage[s] = "ledger" /\ job[s] # "none"
    BY <1>2, <2>1 DEF MergePosted, Running
  <2>3. e \in AffectedHistory(s.date)'
    BY <2>2, HistoryGrows DEF PostingViews, OfType
  <2> QED
    BY <2>1, <2>2, <2>3 DEF MergePosted, Halfway, Owes
<1> QED
  BY <1>1, <1>2

\* An event that counts is posted without its lines only while an execution of a date
\* of its transaction is in the ledger stage or after such a one failed: a job that
\* stopped between its merges finds the event again when it is run again.
THEOREM PostedGetsItsLines == Spec => []PostedIsLedgered
<1>1. Init => PostingViews /\ DebtInv
  BY DEF Init, PostingViews, DebtInv
<1>2. TypeOK /\ RegisteredOnce /\ PostingViews /\ DebtInv /\ [Next]_vars
      => PostingViews' /\ DebtInv'
  BY PostingViewsStep, DebtStep
<1>3. DebtInv => PostedIsLedgered
  BY AffectedConcerns DEF DebtInv, PostedIsLedgered, Owes, FailedOn
<1> QED
  BY <1>1, <1>2, <1>3, WorkflowTypeCorrect, RegisteredOnceAlways, PTL DEF Spec

-----------------------------------------------------------------------------
(* The gate                                                                *)

\* An execution at the gate has written its evidence, and a reconciled date has
\* that of its active settlement.
GateInv ==
  /\ \A s \in Settlement : stage[s] = "gate" => s \in marker
  /\ \A s \in Settlement : IsActive(s) /\ Reconciled(s.date) => s \in marker
  /\ \A d \in Date : Reconciled(d) => \E s \in marker : s.date = d

\* Evidence is written by the executions only,
LEMMA MarkerFrame ==
  ASSUME TypeOK, [Next]_vars
  PROVE  UNCHANGED marker \/ \E s \in Settlement : WriteEvidence(s)
BY DEF Next, Run, vars, Publish, RegisterRevision, Launch, WaitForGate, BuildMarts, Start,
       Halfway, StartIngestion, StartReconstruction, StartPosting, StartReconciliation,
       MergeAccepted, MergeStates, MergeExceptions, MergePosted, MergeLedger, MergeEvidence,
       OverwriteDeltas, PublishGate, FailExecution, Collide, TimeOut, Again

\* and never removed.
LEMMA MarkerGrows ==
  ASSUME TypeOK, [Next]_vars
  PROVE  marker \subseteq marker'
BY MarkerFrame DEF WriteEvidence

\* An execution comes to the gate by writing its evidence.
LEMMA GateStageStep ==
  ASSUME TypeOK, RegisteredOnce, GateInv, [Next]_vars, NEW s \in Settlement, stage'[s] = "gate"
  PROVE  s \in marker'
<1>1. CASE stage[s] = "gate"
  BY <1>1, MarkerGrows DEF GateInv
<1>2. CASE stage[s] # "gate"
  <2>1. ASSUME Run(s) PROVE s \in marker'
    BY <1>2, <2>1 DEF TypeOK, Run, Start, Halfway, Leave, Again, Running,
       StartIngestion, StartReconstruction, StartPosting, StartReconciliation, MergeAccepted,
       MergeStates, MergeExceptions, MergePosted, MergeLedger, MergeEvidence, OverwriteDeltas,
       WriteEvidence, PublishGate, FailExecution, Collide, TimeOut
  <2>2. ASSUME NEW u \in Settlement, RegisterRevision(u) \/ Launch(u) PROVE FALSE
    BY <1>2, <2>2 DEF RegisterRevision, Launch, TypeOK
  <2>3. \/ \E u \in Settlement : Run(u) \/ RegisterRevision(u) \/ Launch(u)
        \/ UNCHANGED executions
    BY DEF Next, vars, Publish, WaitForGate, BuildMarts
  <2> QED
    BY <1>2, <2>1, <2>2, <2>3, OthersRun DEF executions
<1> QED
  BY <1>1, <1>2

\* Evidence, gate and marts keep in order.
LEMMA GateStep ==
  ASSUME TypeOK, RegisteredOnce, GateInv, [Next]_vars
  PROVE  GateInv'
<1>1. \A s \in Settlement : stage'[s] = "gate" => s \in marker'
  BY GateStageStep
<1>2. CASE UNCHANGED registry
  BY <1>1, <1>2, MarkerGrows DEF GateInv, IsActive, Reconciled
<1>3. ASSUME NEW u \in Settlement, RegisterRevision(u) PROVE GateInv'
  <2>1. /\ registry'[u.date].status = "PROCESSING"
        /\ \A d \in Date \ {u.date} : registry'[d] = registry[d]
    BY <1>3, RegisterFacts DEF RegisterRevision, TypeOK
  <2>2. \A s \in Settlement : s.date \in Date
    BY PartFacts
  <2> QED
    BY <1>1, <2>1, <2>2, MarkerGrows DEF GateInv, IsActive, Reconciled
<1>4. ASSUME NEW u \in Settlement, PublishGate(u), IsActive(u) PROVE GateInv'
  <2>1. /\ registry'[u.date].revision = u.revision /\ registry'[u.date].sha = u.sha
        /\ \A d \in Date \ {u.date} : registry'[d] = registry[d]
    BY <1>4, ReconcileFacts DEF PublishGate, TypeOK
  <2>2. u \in marker'
    BY <1>4, MarkerGrows DEF PublishGate, GateInv
  <2>3. ASSUME NEW s \in Settlement, IsActive(s)', Reconciled(s.date)'
        PROVE  s \in marker'
    <3>1. CASE s.date = u.date
      BY <2>1, <2>2, <2>3, <3>1, SamePartsSame DEF IsActive
    <3>2. CASE s.date # u.date
      BY <2>1, <2>3, <3>2, PartFacts, MarkerGrows DEF GateInv, IsActive, Reconciled
    <3> QED
      BY <3>1, <3>2
  <2>4. ASSUME NEW d \in Date, Reconciled(d)'
        PROVE  \E s \in marker' : s.date = d
    BY <2>1, <2>2, <2>4, MarkerGrows DEF GateInv, Reconciled
  <2> QED
    BY <1>1, <2>3, <2>4 DEF GateInv
<1> QED
  BY <1>2, <1>3, <1>4, RegistryFrame

\* The invariant of the gate.
LEMMA GateAlways == Spec => []GateInv
<1>1. Init => GateInv
  <2> SUFFICES ASSUME Init PROVE GateInv
    OBVIOUS
  <2>1. \A s \in Settlement : s.date \in Date
    BY PartFacts
  <2>2. \A d \in Date : registry[d] = None
    BY DEF Init, RegistryInit
  <2>3. \A s \in Settlement : stage[s] # "gate"
    BY DEF Init
  <2> QED
    BY <2>1, <2>2, <2>3 DEF GateInv, IsActive, Reconciled
<1>2. TypeOK /\ RegisteredOnce /\ GateInv /\ [Next]_vars => GateInv'
  BY GateStep
<1> QED
  BY <1>1, <1>2, WorkflowTypeCorrect, RegisteredOnceAlways, PTL DEF Spec

\* The finance DAG never gets past its sensor for a date of which no settlement was
\* reconciled without differences.
THEOREM FinanceWaitsForEvidence == Spec => []MartsWaitForEvidence
<1>1. Init => MartsWaitForEvidence
  BY DEF Init, MartsWaitForEvidence
<1>2. ASSUME TypeOK, GateInv, MartsWaitForEvidence, [Next]_vars
      PROVE  MartsWaitForEvidence'
  <2>1. ASSUME NEW d \in Date, WaitForGate(d) \/ BuildMarts(d) PROVE MartsWaitForEvidence'
    BY <1>2, <2>1 DEF WaitForGate, BuildMarts, MartsWaitForEvidence, GateInv, TypeOK
  <2>2. UNCHANGED marts \/ \E d \in Date : WaitForGate(d) \/ BuildMarts(d)
    BY <1>2 DEF Next, Run, vars, Publish, RegisterRevision, Launch, Start,
       Halfway, Leave, StartIngestion, StartReconstruction, StartPosting, StartReconciliation,
       MergeAccepted, MergeStates, MergeExceptions, MergePosted, MergeLedger, MergeEvidence,
       OverwriteDeltas, WriteEvidence, PublishGate, FailExecution, Collide, TimeOut, Again
  <2>3. CASE UNCHANGED marts
    BY <1>2, <2>3, MarkerGrows DEF MartsWaitForEvidence
  <2> QED
    BY <2>1, <2>2, <2>3
<1>3. TypeOK /\ GateInv /\ MartsWaitForEvidence /\ [Next]_vars => MartsWaitForEvidence'
  BY <1>2
<1> QED
  BY <1>1, <1>3, WorkflowTypeCorrect, GateAlways, PTL DEF Spec

Active == [d \in Date |-> ActiveSettlement(d)]
Done   == {d \in Date : Reconciled(d)}

\* A registration activates the settlement.
LEMMA RefineRegister ==
  ASSUME TypeOK, NEW s \in Settlement, RegisterRevision(s)
  PROVE  Gate!Activate(s)
<1>1. /\ registry'[s.date] # None /\ s.date \in Date
      /\ registry'[s.date].revision = s.revision /\ registry'[s.date].sha = s.sha
      /\ registry'[s.date].status = "PROCESSING"
      /\ \A d \in Date \ {s.date} : registry'[d] = registry[d]
  BY RegisterFacts, PartFacts DEF TypeOK, RegisterRevision
<1>2. Active[s.date] = None \/ Active[s.date].revision < s.revision
  BY <1>1 DEF RegisterRevision, Newer, Active, ActiveSettlement
<1>3. ActiveSettlement(s.date)' = s
  BY <1>1, SettlementAssumption DEF ActiveSettlement
<1>4. Active' = [Active EXCEPT ![s.date] = s]
  BY <1>1, <1>3 DEF Active, ActiveSettlement
<1>5. Done' = Done \ {s.date}
  BY <1>1 DEF Done, Reconciled
<1>6. UNCHANGED marker
  BY DEF RegisterRevision
<1> QED
  BY <1>2, <1>4, <1>5, <1>6 DEF Gate!Activate, Active, Done

\* The gate reconciles the date of the active settlement, which has its evidence.
LEMMA RefineReconcile ==
  ASSUME TypeOK, GateInv, NEW s \in Settlement, PublishGate(s), IsActive(s)
  PROVE  Gate!Reconcile(s.date)
<1>1. /\ registry'[s.date] # None /\ s.date \in Date
      /\ registry'[s.date].revision = s.revision /\ registry'[s.date].sha = s.sha
      /\ registry'[s.date].status = "RECONCILED"
      /\ \A d \in Date \ {s.date} : registry'[d] = registry[d]
  BY ReconcileFacts, PartFacts DEF TypeOK, PublishGate
<1>2. Active[s.date] = s
  BY <1>1, ActiveFacts DEF IsActive, Active
<1>3. Active' = Active
  BY <1>1 DEF IsActive, Active, ActiveSettlement
<1>4. Done' = Done \cup {s.date}
  BY <1>1 DEF Done, Reconciled
<1>5. s \in marker /\ UNCHANGED marker
  BY DEF PublishGate, GateInv
<1> QED
  BY <1>2, <1>3, <1>4, <1>5 DEF Gate!Reconcile, Active, Done

\* With all the stages in between, table and evidence take the steps of
\* PublicationGate: a date is reconciled only for its active revision, and only
\* after that revision was compared without differences.
THEOREM WorkflowImplementsPublicationGate == Spec => ImplementsPublicationGate
<1>1. Init => Gate!Init
  BY DEF Init, RegistryInit, Gate!Init, ActiveSettlement, Reconciled
<1>2. UNCHANGED <<registry, marker>> => UNCHANGED Gate!vars
  BY DEF Gate!vars, ActiveSettlement, Reconciled
<1>3. ASSUME TypeOK, GateInv, [Next]_vars
      PROVE  [Gate!Next]_(Gate!vars)
  <2>1. ASSUME NEW s \in Settlement, RegisterRevision(s) PROVE [Gate!Next]_(Gate!vars)
    BY <1>3, <2>1, RefineRegister DEF Gate!Next
  <2>2. ASSUME NEW s \in Settlement, PublishGate(s), IsActive(s) PROVE [Gate!Next]_(Gate!vars)
    BY <1>3, <2>2, RefineReconcile, PartFacts DEF Gate!Next
  <2>3. ASSUME NEW s \in Settlement, WriteEvidence(s) PROVE [Gate!Next]_(Gate!vars)
    <3>1. Gate!Pass(s)
      BY <2>3 DEF WriteEvidence, Gate!Pass, ActiveSettlement, Reconciled
    <3> QED
      BY <3>1 DEF Gate!Next
  <2> QED
    BY <1>2, <1>3, <2>1, <2>2, <2>3, RegistryFrame, MarkerFrame
<1>4. TypeOK /\ GateInv /\ [Next]_vars => [Gate!Next]_(Gate!vars)
  BY <1>3
<1> QED
  BY <1>1, <1>4, WorkflowTypeCorrect, GateAlways, PTL DEF Spec, ImplementsPublicationGate, Gate!Spec

-----------------------------------------------------------------------------
(* What the jobs work on                                                   *)

\* One run of a job at a time, and only in the stages that have a job.
OneRunPerJob ==
  /\ \A s \in Settlement : job[s] # "none" => stage[s] \in JOBS
  /\ \A s, u \in Settlement :
       stage[s] = stage[u] /\ job[s] # "none" /\ job[u] # "none" => s = u

\* The tables hold finitely many published events, a job those of its date or of
\* the transactions of its date.
RowsInv ==
  /\ IsFiniteSet(bucket) /\ bucket \subseteq Event /\ accepted \subseteq bucket
  /\ posted \subseteq accepted
  /\ \A s \in Settlement : job[s] # "none" =>
       /\ stage[s] = "ingest" => view[s] \subseteq {e \in bucket : e.date = s.date}
       /\ stage[s] \in {"state", "ledger"} => view[s] \subseteq AffectedHistory(s.date)

\* A run of a job starts on its input, merges its first table, or ends.
LEMMA RunKind ==
  ASSUME TypeOK, NEW s \in Settlement, Run(s)
  PROVE  \/ /\ job[s] = "none" /\ job'[s] = "loaded" /\ stage[s] \in JOBS
            /\ stage'[s] = stage[s] /\ Free(s) /\ UNCHANGED <<bucket, tables>>
            /\ \/ stage[s] = "ingest" /\ view'[s] = {e \in bucket : e.date = s.date}
               \/ stage[s] = "state" /\ view'[s] = AffectedHistory(s.date)
               \/ /\ stage[s] = "ledger"
                  /\ view'[s] = {e \in OfType(AffectedHistory(s.date), MONEY) : exception[e] = None}
               \/ stage[s] = "reconcile" /\ view'[s] = Settled(s.date)
         \/ /\ job[s] = "loaded" /\ job'[s] = "half"
            /\ stage'[s] = stage[s] /\ view'[s] = view[s]
            /\ \/ stage[s] = "state" /\ MergeStates(s)
               \/ stage[s] = "ledger" /\ MergePosted(s)
               \/ stage[s] = "reconcile" /\ MergeEvidence(s)
         \/ job'[s] = "none" /\ view'[s] = {}
<1>1. CASE StartIngestion(s) \/ StartReconstruction(s) \/ StartPosting(s) \/ StartReconciliation(s)
  BY <1>1 DEF StartIngestion, StartReconstruction, StartPosting, StartReconciliation, Start,
              TypeOK, JOBS
<1>2. CASE MergeStates(s) \/ MergePosted(s) \/ MergeEvidence(s)
  BY <1>2 DEF MergeStates, MergePosted, MergeEvidence, Halfway, Running, TypeOK
<1>3. ASSUME NEW label, Leave(s, label) PROVE job'[s] = "none" /\ view'[s] = {}
  BY <1>3 DEF Leave, TypeOK
<1>4. CASE \/ MergeAccepted(s) \/ MergeExceptions(s) \/ MergeLedger(s) \/ OverwriteDeltas(s)
           \/ WriteEvidence(s) \/ PublishGate(s) \/ FailExecution(s)
  BY <1>3, <1>4 DEF MergeAccepted, MergeExceptions, MergeLedger, OverwriteDeltas, WriteEvidence,
                    PublishGate, FailExecution
<1>5. CASE Collide(s) \/ TimeOut(s)
  BY <1>5 DEF Collide, TimeOut, Again, TypeOK
<1> QED
  BY <1>1, <1>2, <1>4, <1>5 DEF Run

\* What becomes of an execution in a step.
LEMMA ExecutionStep ==
  ASSUME TypeOK, RegisteredOnce, [Next]_vars, NEW s \in Settlement
  PROVE  \/ stage'[s] = stage[s] /\ job'[s] = job[s] /\ view'[s] = view[s]
         \/ Run(s)
         \/ /\ \/ stage[s] = "absent" /\ stage'[s] = "registered"
               \/ stage[s] = "registered" /\ stage'[s] = "ingest"
            /\ job'[s] = job[s] /\ view'[s] = view[s] /\ UNCHANGED <<bucket, tables>>
<1>1. ASSUME NEW u \in Settlement, RegisterRevision(u)
      PROVE  /\ job'[s] = job[s] /\ view'[s] = view[s] /\ UNCHANGED <<bucket, tables>>
             /\ stage'[s] = stage[s] \/ (stage[s] = "absent" /\ stage'[s] = "registered")
  BY <1>1 DEF RegisterRevision, RegisteredOnce, TypeOK
<1>2. ASSUME NEW u \in Settlement, Launch(u)
      PROVE  /\ job'[s] = job[s] /\ view'[s] = view[s] /\ UNCHANGED <<bucket, tables>>
             /\ stage'[s] = stage[s] \/ (stage[s] = "registered" /\ stage'[s] = "ingest")
  BY <1>2 DEF Launch, TypeOK
<1>3. ASSUME NEW u \in Settlement, Run(u)
      PROVE  Run(s) \/ (stage'[s] = stage[s] /\ job'[s] = job[s] /\ view'[s] = view[s])
  BY <1>3, OthersRun
<1>4. \/ \E u \in Settlement : Run(u) \/ RegisterRevision(u) \/ Launch(u)
      \/ UNCHANGED executions
  BY DEF Next, vars, Publish, WaitForGate, BuildMarts
<1> QED
  BY <1>1, <1>2, <1>3, <1>4 DEF executions

\* The bucket and the table of accepted events only grow.
LEMMA BucketGrows ==
  ASSUME TypeOK, [Next]_vars
  PROVE  /\ bucket' = bucket \/ \E e \in Event : bucket' = bucket \cup {e}
         /\ \/ accepted' = accepted
            \/ \E s \in Settlement : MergeAccepted(s)
<1>1. UNCHANGED bucket \/ \E e \in Event : Publish(e)
  BY DEF Next, Run, vars, tables, RegisterRevision, Launch, WaitForGate, BuildMarts, Start,
       Halfway, Leave, StartIngestion, StartReconstruction, StartPosting, StartReconciliation,
       MergeAccepted, MergeStates, MergeExceptions, MergePosted, MergeLedger, MergeEvidence,
       OverwriteDeltas, WriteEvidence, PublishGate, FailExecution, Collide, TimeOut, Again
<1>2. UNCHANGED accepted \/ \E s \in Settlement : MergeAccepted(s)
  BY DEF Next, Run, vars, tables, Publish, RegisterRevision, Launch, WaitForGate, BuildMarts, Start,
       StartIngestion, StartReconstruction, StartPosting, StartReconciliation,
       MergeStates, MergeExceptions, MergePosted, MergeLedger, MergeEvidence, OverwriteDeltas,
       WriteEvidence, PublishGate, FailExecution, Collide, TimeOut, Again
<1> QED
  BY <1>1, <1>2 DEF Publish

\* A run starts only when no other execution runs the job, so there is one at most.
LEMMA OneRunStep ==
  ASSUME TypeOK, RegisteredOnce, OneRunPerJob, [Next]_vars
  PROVE  OneRunPerJob'
<1>1. ASSUME NEW s \in Settlement, job'[s] # "none" PROVE stage'[s] \in JOBS
  <2>1. ASSUME Run(s) PROVE stage'[s] \in JOBS
    BY <1>1, <2>1, RunKind DEF JOBS
  <2> QED
    BY <1>1, <2>1, ExecutionStep DEF OneRunPerJob, JOBS
<1>2. ASSUME NEW s \in Settlement, NEW u \in Settlement, s # u,
             stage'[s] = stage'[u], job'[s] # "none", job'[u] # "none"
      PROVE  FALSE
  \* A run that was under way, or that starts now.
  <2>1. ASSUME NEW r \in Settlement, job'[r] # "none"
        PROVE  /\ stage'[r] = stage[r]
               /\ job[r] # "none" \/ (Run(r) /\ Free(r))
    <3>1. CASE Run(r)
      BY <2>1, <3>1, RunKind
    <3>2. CASE ~Run(r)
      BY <2>1, <3>2, ExecutionStep DEF OneRunPerJob, JOBS
    <3> QED
      BY <3>1, <3>2
  <2>2. ~(Run(s) /\ Run(u)) \/ (job[s] # "none" /\ job[u] # "none")
    <3>1. ASSUME Run(s), Run(u) PROVE job'[s] = job[s] /\ job'[u] = job[u]
      BY <1>2, <3>1, OthersRun
    <3> QED
      BY <1>2, <3>1
  <2> QED
    BY <1>2, <2>1, <2>2 DEF OneRunPerJob, Free
<1> QED
  BY <1>1, <1>2 DEF OneRunPerJob

\* A job has one run at most.
LEMMA OneRunAlways == Spec => []OneRunPerJob
<1>1. Init => OneRunPerJob
  BY DEF Init, OneRunPerJob
<1>2. TypeOK /\ RegisteredOnce /\ OneRunPerJob /\ [Next]_vars => OneRunPerJob'
  BY OneRunStep
<1> QED
  BY <1>1, <1>2, WorkflowTypeCorrect, RegisteredOnceAlways, PTL DEF Spec

\* What a run has loaded are events of the bucket or of the accepted table.
LEMMA RowsStep ==
  ASSUME TypeOK, RegisteredOnce, OneRunPerJob, RowsInv, [Next]_vars
  PROVE  RowsInv'
<1>1. IsFiniteSet(bucket') /\ bucket' \subseteq Event /\ bucket \subseteq bucket'
  BY BucketGrows, FS_AddElement DEF RowsInv
<1>2. accepted' \subseteq bucket'
  <2>1. ASSUME NEW s \in Settlement, MergeAccepted(s) PROVE accepted' \subseteq bucket
    BY <2>1 DEF MergeAccepted, Running, RowsInv
  <2> QED
    BY <1>1, <2>1, BucketGrows DEF RowsInv
<1>3. posted' \subseteq accepted'
  <2>1. ASSUME NEW s \in Settlement, MergePosted(s) PROVE posted' \subseteq accepted
    BY <2>1 DEF MergePosted, Running, RowsInv, AffectedHistory
  <2> QED
    BY <2>1, AcceptedFrame DEF RowsInv
<1>4. ASSUME NEW s \in Settlement, job'[s] # "none"
      PROVE  /\ stage'[s] = "ingest" => view'[s] \subseteq {e \in bucket' : e.date = s.date}
             /\ stage'[s] \in {"state", "ledger"} => view'[s] \subseteq AffectedHistory(s.date)'
  <2>1. /\ stage'[s] = stage[s]
        /\ stage[s] = "ingest" => view'[s] \subseteq {e \in bucket : e.date = s.date}
        /\ stage[s] \in {"state", "ledger"} => view'[s] \subseteq AffectedHistory(s.date)
    <3>1. CASE Run(s)
      BY <1>4, <3>1, RunKind DEF RowsInv, OfType
    <3>2. CASE ~Run(s)
      BY <1>4, <3>2, ExecutionStep DEF RowsInv, OneRunPerJob, JOBS
    <3> QED
      BY <3>1, <3>2
  <2> QED
    BY <1>1, <2>1, HistoryGrows
<1> QED
  BY <1>1, <1>2, <1>3, <1>4 DEF RowsInv

\* The rows of the tables and of the runs are events that came through the bucket.
LEMMA RowsAlways == Spec => []RowsInv
<1>1. Init => RowsInv
  BY FS_EmptySet DEF Init, RowsInv
<1>2. TypeOK /\ RegisteredOnce /\ OneRunPerJob /\ RowsInv /\ [Next]_vars => RowsInv'
  BY RowsStep
<1> QED
  BY <1>1, <1>2, WorkflowTypeCorrect, RegisteredOnceAlways, OneRunAlways, PTL DEF Spec

-----------------------------------------------------------------------------
(* Payment state                                                           *)

\* A state row was computed from a part of this history.
RowOf(row, H) ==
  \E E \in SUBSET H : E # {} /\ SparkVerdict(E) = VALID /\ row = SparkState(E)

\* What a state row was computed from is accepted, and the run that may replace
\* the row has it in its input.
StateRows ==
  \A t \in Txn : state[t] # None =>
    /\ RowOf(state[t], HistoryOf(t, accepted))
    /\ \A s \in Settlement :
         stage[s] = "state" /\ job[s] # "none" /\ HistoryOf(t, view[s]) # {} =>
           RowOf(state[t], HistoryOf(t, view[s]))

\* The history of a transaction is loaded as a whole or not at all.
LEMMA LoadedWhole ==
  ASSUME NEW d, NEW t
  PROVE  /\ HistoryOf(t, AffectedHistory(d)) \in {{}, HistoryOf(t, accepted)}
         /\ (\E e \in HistoryOf(t, accepted) : UtcDate[e] = d) <=>
              HistoryOf(t, AffectedHistory(d)) # {}
         /\ (\E e \in HistoryOf(t, accepted) : UtcDate[e] = d) =>
              HistoryOf(t, AffectedHistory(d)) = HistoryOf(t, accepted)
BY DEF HistoryOf, AffectedHistory

\* The steps of an execution that is in the state stage.
LEMMA StateStage ==
  ASSUME TypeOK, RegisteredOnce, [Next]_vars, NEW s \in Settlement, stage[s] = "state"
  PROVE  \/ stage'[s] = stage[s] /\ job'[s] = job[s] /\ view'[s] = view[s]
         \/ StartReconstruction(s)
         \/ MergeStates(s)
         \/ MergeExceptions(s)
         \/ stage'[s] = "state" /\ job'[s] = "none"
         \/ stage'[s] = "failed"
<1>1. ASSUME Run(s)
      PROVE  \/ StartReconstruction(s) \/ MergeStates(s) \/ MergeExceptions(s)
             \/ stage'[s] = "state" /\ job'[s] = "none"
             \/ stage'[s] = "failed"
  BY <1>1 DEF TypeOK, Run, Start, Leave, Again, Running,
       StartIngestion, StartPosting, StartReconciliation, MergeAccepted,
       MergePosted, MergeLedger, MergeEvidence, OverwriteDeltas,
       WriteEvidence, PublishGate, FailExecution, Collide, TimeOut
<1> QED
  BY <1>1, OwnRun DEF WAITING

\* Only the first merge of the reconstruction writes states.
LEMMA StateFrame ==
  ASSUME TypeOK, [Next]_vars
  PROVE  UNCHANGED state \/ \E s \in Settlement : MergeStates(s)
BY DEF Next, Run, vars, tables, Publish, RegisterRevision, Launch, WaitForGate, BuildMarts, Start,
       StartIngestion, StartReconstruction, StartPosting, StartReconciliation, MergeAccepted,
       MergeExceptions, MergePosted, MergeLedger, MergeEvidence, OverwriteDeltas,
       WriteEvidence, PublishGate, FailExecution, Collide, TimeOut, Again

\* The first merge replaces the row of each valid history it has, and no execution
\* changes its stage or its input.
LEMMA MergeFacts ==
  ASSUME TypeOK, NEW s \in Settlement, MergeStates(s)
  PROVE  /\ UNCHANGED <<stage, view, accepted>>
         /\ \A u \in Settlement : job'[u] # "none" => job[u] # "none"
         /\ stage[s] = "state" /\ job[s] = "loaded" /\ job'[s] = "half"
         /\ \A t \in Txn :
              state'[t] = IF HistoryOf(t, view[s]) # {} /\ SparkVerdict(HistoryOf(t, view[s])) = VALID
                          THEN SparkState(HistoryOf(t, view[s])) ELSE state[t]
BY DEF MergeStates, Halfway, Running, TypeOK

\* A state row is that of a part of the accepted history, and the row in the hands of a run
\* is of no smaller part.
LEMMA StateRowsStep ==
  ASSUME TypeOK, RegisteredOnce, OneRunPerJob, RowsInv, StateRows, [Next]_vars
  PROVE  StateRows'
<1> SUFFICES ASSUME NEW t \in Txn, state'[t] # None
             PROVE  /\ RowOf(state'[t], HistoryOf(t, accepted'))
                    /\ \A s \in Settlement :
                         stage'[s] = "state" /\ job'[s] # "none" /\ HistoryOf(t, view'[s]) # {} =>
                           RowOf(state'[t], HistoryOf(t, view'[s]))
  BY DEF StateRows, HistoryOf
<1>1. ASSUME NEW u \in Settlement, MergeStates(u)
      PROVE  /\ RowOf(state'[t], HistoryOf(t, accepted'))
             /\ \A s \in Settlement :
                  stage'[s] = "state" /\ job'[s] # "none" /\ HistoryOf(t, view'[s]) # {} =>
                    RowOf(state'[t], HistoryOf(t, view'[s]))
  <2>1. CASE state'[t] = state[t]
    BY <1>1, <2>1, MergeFacts DEF StateRows
  <2>2. CASE state'[t] # state[t]
    <3>1. /\ HistoryOf(t, view[u]) # {} /\ SparkVerdict(HistoryOf(t, view[u])) = VALID
          /\ state'[t] = SparkState(HistoryOf(t, view[u]))
      BY <1>1, <2>2, MergeFacts
    <3>2. RowOf(state'[t], HistoryOf(t, view[u]))
      BY <3>1 DEF RowOf
    <3>3. HistoryOf(t, view[u]) \subseteq HistoryOf(t, accepted)
      BY <1>1, MergeFacts DEF RowsInv, AffectedHistory, HistoryOf
    <3>4. \A s \in Settlement : stage'[s] = "state" /\ job'[s] # "none" => s = u
      BY <1>1, MergeFacts DEF OneRunPerJob
    <3> QED
      BY <1>1, <3>2, <3>3, <3>4, MergeFacts DEF RowOf
  <2> QED
    BY <2>1, <2>2
<1>2. CASE UNCHANGED state
  <2>1. RowOf(state'[t], HistoryOf(t, accepted))
    BY <1>2 DEF StateRows
  <2>2. HistoryOf(t, accepted) \subseteq HistoryOf(t, accepted')
    BY AcceptedFrame DEF HistoryOf
  <2>3. ASSUME NEW s \in Settlement, stage'[s] = "state", job'[s] # "none", HistoryOf(t, view'[s]) # {}
        PROVE  RowOf(state'[t], HistoryOf(t, view'[s]))
    <3>1. CASE Run(s)
      <4>1. CASE view'[s] = AffectedHistory(s.date)
        BY <2>1, <2>3, <4>1, LoadedWhole
      <4>2. CASE view'[s] = view[s] /\ job[s] # "none" /\ stage[s] = "state"
        BY <1>2, <2>3, <4>2 DEF StateRows
      <4> QED
        BY <2>3, <3>1, <4>1, <4>2, RunKind
    <3>2. CASE stage'[s] = stage[s] /\ job'[s] = job[s] /\ view'[s] = view[s]
      BY <1>2, <2>3, <3>2 DEF StateRows
    <3> QED
      BY <2>3, <3>1, <3>2, ExecutionStep
  <2> QED
    BY <2>1, <2>2, <2>3 DEF RowOf
<1> QED
  BY <1>1, <1>2, StateFrame

\* State rows are those of parts of the accepted history.
LEMMA StateRowsAlways == Spec => []StateRows
<1>1. Init => StateRows
  BY DEF Init, StateRows
<1>2. TypeOK /\ RegisteredOnce /\ OneRunPerJob /\ RowsInv /\ StateRows /\ [Next]_vars => StateRows'
  BY StateRowsStep
<1> QED
  BY <1>1, <1>2, WorkflowTypeCorrect, RegisteredOnceAlways, OneRunAlways, RowsAlways, PTL DEF Spec

\* The row of a history carries its last version.
LEMMA RowVersion ==
  ASSUME NEW E \in SUBSET Event, IsFiniteSet(E), E # {}
  PROVE  /\ SparkState(E).version \in Nat
         /\ \A e \in E : e.version \in Nat /\ e.version <= SparkState(E).version
         /\ \E e \in E : e.version = SparkState(E).version
<1>1. IsFiniteSet(Versions(E)) /\ Versions(E) # {}
  BY FiniteVersions
<1>2. Versions(E) \in SUBSET Nat
  BY HistoryAssumption DEF Versions, ValidEvent
<1>3. Max(Versions(E)) \in Versions(E) /\ \A v \in Versions(E) : v <= Max(Versions(E))
  BY <1>1, <1>2, Extremes
<1> DEFINE current == CHOOSE e \in E : e.version = Max(Versions(E))
<1>4. current \in E /\ current.version = Max(Versions(E))
  BY <1>3 DEF Versions
<1>5. SparkState(E).version = current.version
  BY DEF SparkState
<1> HIDE DEF current
<1> QED
  BY <1>2, <1>3, <1>4, <1>5 DEF Versions

\* A MERGE replaces a state row by that of a longer history, and a longer history has no
\* smaller last version.
LEMMA ForwardStep ==
  ASSUME TypeOK, OneRunPerJob, RowsInv, StateRows, [Next]_vars, NEW t \in Txn, state[t] # None
  PROVE  state'[t] # None /\ state'[t].version >= state[t].version
<1>1. ASSUME NEW H \in SUBSET accepted, RowOf(state[t], H)
      PROVE  \E E \in SUBSET H : /\ E # {} /\ state[t] = SparkState(E)
                                 /\ E \in SUBSET Event /\ IsFiniteSet(E)
  <2>1. PICK E \in SUBSET H : E # {} /\ SparkVerdict(E) = VALID /\ state[t] = SparkState(E)
    BY <1>1 DEF RowOf
  <2>2. E \subseteq bucket
    BY <1>1 DEF RowsInv
  <2> QED
    BY <2>1, <2>2, FS_Subset DEF RowsInv
<1>2. CASE state'[t] = state[t]
  <2>1. PICK E \in SUBSET accepted : /\ E # {} /\ state[t] = SparkState(E)
                                     /\ E \in SUBSET Event /\ IsFiniteSet(E)
    <3>1. HistoryOf(t, accepted) \in SUBSET accepted
      BY DEF HistoryOf
    <3>2. RowOf(state[t], HistoryOf(t, accepted))
      BY DEF StateRows
    <3> QED
      BY <1>1, <3>1, <3>2
  <2>2. state[t].version \in Nat
    BY <2>1, RowVersion
  <2> QED
    BY <1>2, <2>2
<1>3. CASE state'[t] # state[t]
  <2>1. PICK s \in Settlement : MergeStates(s)
    BY <1>3, StateFrame
  <2> DEFINE H == HistoryOf(t, view[s])
  <2>2. /\ H # {} /\ SparkVerdict(H) = VALID /\ state'[t] = SparkState(H)
        /\ stage[s] = "state" /\ job[s] # "none"
    BY <1>3, <2>1, MergeFacts
  <2>3. H \in SUBSET accepted /\ H \in SUBSET bucket
    BY <2>2 DEF RowsInv, AffectedHistory, HistoryOf
  <2>4. RowOf(state[t], H)
    BY <2>2 DEF StateRows
  <2> HIDE DEF H
  <2>5. H \in SUBSET Event /\ IsFiniteSet(H)
    BY <2>3, FS_Subset DEF RowsInv
  <2>6. PICK E \in SUBSET H : /\ E # {} /\ state[t] = SparkState(E)
                              /\ E \in SUBSET Event /\ IsFiniteSet(E)
    BY <1>1, <2>3, <2>4
  <2>7. PICK e \in E : e.version = state[t].version /\ e.version \in Nat
    BY <2>6, RowVersion
  <2>8. e.version <= state'[t].version /\ state'[t].version \in Nat
    BY <2>2, <2>5, <2>6, <2>7, RowVersion
  <2>9. state'[t] # None
    BY <2>2, <2>5, HistoryAssumption
  <2> QED
    BY <2>7, <2>8, <2>9
<1> QED
  BY <1>2, <1>3

\* However executions of any dates overlap, the state of a payment never goes back
\* to an earlier version: one run of the job at a time, and each loads at least what
\* the row it may replace was computed from.
THEOREM StateNeverGoesBack == Spec => StateMovesForward
<1>1. TypeOK /\ OneRunPerJob /\ RowsInv /\ StateRows /\ [Next]_vars
      => [\A t \in Txn : state[t] # None =>
            state'[t] # None /\ state'[t].version >= state[t].version]_vars
  BY ForwardStep
<1> QED
  BY <1>1, WorkflowTypeCorrect, OneRunAlways, RowsAlways, StateRowsAlways, PTL
     DEF Spec, StateMovesForward

-----------------------------------------------------------------------------
(* What the states and the exceptions miss                                 *)

WrittenInUtc(t) == \A e \in HistoryOf(t, accepted) : UtcDate[e] = e.date

\* An execution that will load the history of a transaction, and one that has all
\* of it loaded.
Waits(s, t) == stage[s] = "state" /\ job[s] = "none" /\ Concerns(s, t)

Carries(s, t) ==
  /\ stage[s] = "state" /\ job[s] # "none"
  /\ HistoryOf(t, view[s]) = HistoryOf(t, accepted)

\* An execution failed on a date of the transaction.
Spoilt(t) == \E s \in Settlement : FailedOn(s, t)

\* Behind a job that works on a part of a history waits another that will load it.
PartialHasFollower(t) ==
  \A s \in Settlement :
    stage[s] = "state" /\ job[s] # "none" /\ HistoryOf(t, view[s]) \notin {{}, HistoryOf(t, accepted)} =>
      \E u \in Settlement : Waits(u, t)

\* A state row that is not what a valid history says is about to be replaced.
StaleStateInHands(t) ==
  LET E == HistoryOf(t, accepted)
  IN  SparkVerdict(E) = VALID /\ state[t] # SparkState(E) =>
        \E s \in Settlement : Waits(s, t) \/ (Carries(s, t) /\ job[s] = "loaded")

\* An exception that an invalid history still misses is about to be written.
MissingErrorInHands(t) ==
  LET E == HistoryOf(t, accepted)
  IN  SparkVerdict(E) # VALID /\ (\E e \in E : exception[e] = None) =>
        \E s \in Settlement : Waits(s, t) \/ Carries(s, t)

StateInv ==
  \A t \in Txn : ~Spoilt(t) /\ WrittenInUtc(t) /\ HistoryOf(t, accepted) # {} =>
    PartialHasFollower(t) /\ StaleStateInHands(t) /\ MissingErrorInHands(t)

\* If nothing has failed on a transaction now, nothing had failed before.
LEMMA NoFailureBefore ==
  ASSUME TypeOK, RegisteredOnce, [Next]_vars, NEW t, ~Spoilt(t)'
  PROVE  ~Spoilt(t)
BY FailureStays DEF Spoilt

\* Whoever adds to a history will load it next.
LEMMA IngestedWaits ==
  ASSUME TypeOK, RowsInv, [Next]_vars, NEW t \in Txn, WrittenInUtc(t)',
         HistoryOf(t, accepted') # HistoryOf(t, accepted)
  PROVE  \E u \in Settlement : Waits(u, t)'
<1>1. PICK u \in Settlement : MergeAccepted(u)
  BY BucketGrows
<1>2. /\ accepted' = accepted \cup view[u] /\ view[u] \subseteq {e \in bucket : e.date = u.date}
      /\ stage'[u] = "state" /\ job'[u] = "none"
  BY <1>1 DEF MergeAccepted, Running, Leave, RowsInv, TypeOK
<1>3. PICK e \in view[u] : e \in HistoryOf(t, accepted')
  BY <1>2 DEF HistoryOf
<1>4. UtcDate[e] = u.date
  BY <1>2, <1>3 DEF WrittenInUtc, HistoryOf
<1> QED
  BY <1>2, <1>3, <1>4 DEF Waits, Concerns, HistoryOf

\* An execution that waits goes on waiting until it loads the history.
LEMMA WaitsStep ==
  ASSUME TypeOK, RegisteredOnce, [Next]_vars, NEW t \in Txn, ~Spoilt(t)',
         HistoryOf(t, accepted') = HistoryOf(t, accepted), NEW u \in Settlement, Waits(u, t)
  PROVE  \/ Waits(u, t)'
         \/ StartReconstruction(u) /\ Carries(u, t)' /\ job'[u] = "loaded"
<1>1. Concerns(u, t)'
  BY DEF Waits, Concerns, HistoryOf
<1>2. CASE StartReconstruction(u)
  <2>1. /\ stage'[u] = "state" /\ job'[u] = "loaded" /\ view'[u] = AffectedHistory(u.date)
    BY <1>2 DEF StartReconstruction, Start, TypeOK
  <2>2. HistoryOf(t, AffectedHistory(u.date)) = HistoryOf(t, accepted)
    BY LoadedWhole DEF Waits, Concerns
  <2> QED
    BY <1>2, <2>1, <2>2 DEF Carries, HistoryOf
<1>3. ~MergeStates(u) /\ ~MergeExceptions(u)
  BY DEF MergeStates, MergeExceptions, Running, Waits
<1> QED
  BY <1>1, <1>2, <1>3, StateStage DEF Waits, Spoilt, FailedOn

\* An execution that works on a part of a history is in its way before.
LEMMA PartialStep ==
  ASSUME TypeOK, RegisteredOnce, OneRunPerJob, [Next]_vars, NEW t \in Txn, ~Spoilt(t)',
         HistoryOf(t, accepted') = HistoryOf(t, accepted), PartialHasFollower(t)
  PROVE  PartialHasFollower(t)'
<1> SUFFICES ASSUME NEW s \in Settlement, stage'[s] = "state", job'[s] # "none",
                    HistoryOf(t, view'[s]) \notin {{}, HistoryOf(t, accepted')}
             PROVE  \E u \in Settlement : Waits(u, t)'
  BY DEF PartialHasFollower, HistoryOf
<1>1. stage[s] = "state" /\ job[s] # "none" /\ view'[s] = view[s]
  <2>1. CASE Run(s)
    BY <2>1, RunKind, LoadedWhole
  <2>2. CASE ~Run(s)
    BY <2>2, ExecutionStep
  <2> QED
    BY <2>1, <2>2
<1>2. PICK u \in Settlement : Waits(u, t)
  BY <1>1 DEF PartialHasFollower
<1>3. ~StartReconstruction(u)
  BY <1>1 DEF StartReconstruction, Start, Free
<1> QED
  BY <1>2, <1>3, WaitsStep

\* An execution that has a whole history loaded has a date of it.
LEMMA CarriesConcerns ==
  ASSUME RowsInv, NEW t \in Txn, HistoryOf(t, accepted) # {}, NEW s \in Settlement, Carries(s, t)
  PROVE  Concerns(s, t)
<1>1. view[s] \subseteq AffectedHistory(s.date)
  BY DEF Carries, RowsInv
<1>2. PICK e \in HistoryOf(t, accepted) : e \in AffectedHistory(s.date)
  BY <1>1 DEF Carries, HistoryOf
<1> QED
  BY <1>2, AffectedConcerns DEF HistoryOf

\* An execution that has a whole history loaded writes it, or will load it again.
LEMMA CarriesStep ==
  ASSUME TypeOK, RegisteredOnce, RowsInv, [Next]_vars, NEW t \in Txn, ~Spoilt(t)',
         HistoryOf(t, accepted) # {},
         HistoryOf(t, accepted') = HistoryOf(t, accepted), NEW s \in Settlement, Carries(s, t)
  PROVE  \/ Carries(s, t)' /\ job'[s] = job[s]
         \/ Carries(s, t)' /\ MergeStates(s)
         \/ MergeExceptions(s)
         \/ Waits(s, t)'
<1>0. Concerns(s, t)'
  BY CarriesConcerns, ConcernStays
<1>1. CASE stage'[s] = stage[s] /\ job'[s] = job[s] /\ view'[s] = view[s]
  BY <1>1 DEF Carries, HistoryOf
<1>2. ~StartReconstruction(s)
  BY DEF StartReconstruction, Start, Carries
<1>3. CASE MergeStates(s)
  BY <1>3, MergeFacts DEF Carries, HistoryOf
<1>4. CASE stage'[s] = "state" /\ job'[s] = "none"
  BY <1>0, <1>4 DEF Waits
<1> QED
  BY <1>0, <1>1, <1>2, <1>3, <1>4, StateStage DEF Carries, Spoilt, FailedOn

\* A payment without its state is in the hands of an execution that is going to write it.
LEMMA StaleStateStep ==
  ASSUME TypeOK, RegisteredOnce, RowsInv, [Next]_vars, NEW t \in Txn, ~Spoilt(t)',
         HistoryOf(t, accepted) # {},
         HistoryOf(t, accepted') = HistoryOf(t, accepted),
         PartialHasFollower(t), StaleStateInHands(t)
  PROVE  StaleStateInHands(t)'
<1> DEFINE E == HistoryOf(t, accepted)
<1> SUFFICES ASSUME SparkVerdict(E) = VALID, state'[t] # SparkState(E)
             PROVE  \E s \in Settlement : Waits(s, t)' \/ (Carries(s, t)' /\ job'[s] = "loaded")
  BY DEF StaleStateInHands, HistoryOf
<1>1. CASE state[t] # SparkState(E)
  <2>1. PICK s \in Settlement : Waits(s, t) \/ (Carries(s, t) /\ job[s] = "loaded")
    BY <1>1 DEF StaleStateInHands
  <2>2. CASE Waits(s, t)
    BY <2>2, WaitsStep
  <2>3. CASE Carries(s, t) /\ job[s] = "loaded"
    <3>1. ~MergeStates(s)
      BY <2>3, MergeFacts DEF Carries
    <3>2. ~MergeExceptions(s)
      BY <2>3 DEF MergeExceptions, Running
    <3> QED
      BY <2>3, <3>1, <3>2, CarriesStep
  <2> QED
    BY <2>1, <2>2, <2>3
<1>2. CASE state[t] = SparkState(E)
  <2>1. PICK s \in Settlement : MergeStates(s)
    BY <1>2, StateFrame
  <2>2. HistoryOf(t, view[s]) \notin {{}, E}
    BY <1>2, <2>1, MergeFacts
  <2>3. PICK u \in Settlement : Waits(u, t)
    BY <2>1, <2>2, MergeFacts DEF PartialHasFollower
  <2>4. ~StartReconstruction(u)
    BY <2>1, <2>3 DEF StartReconstruction, Start, Free, MergeStates, Running, Waits
  <2> QED
    BY <2>3, <2>4, WaitsStep
<1> QED
  BY <1>1, <1>2

\* A payment without its error is in the hands of an execution that is going to write it.
LEMMA MissingErrorStep ==
  ASSUME TypeOK, RegisteredOnce, RowsInv, [Next]_vars, NEW t \in Txn, ~Spoilt(t)',
         HistoryOf(t, accepted) # {},
         HistoryOf(t, accepted') = HistoryOf(t, accepted), MissingErrorInHands(t)
  PROVE  MissingErrorInHands(t)'
<1> DEFINE E == HistoryOf(t, accepted)
<1> SUFFICES ASSUME SparkVerdict(E) # VALID, NEW e \in E, exception'[e] = None
             PROVE  \E s \in Settlement : Waits(s, t)' \/ Carries(s, t)'
  BY DEF MissingErrorInHands, HistoryOf
<1>0. e \in Event /\ e.txn = t
  BY DEF TypeOK, HistoryOf
<1>1. exception[e] = None
  BY <1>0, ExceptionStays
<1>2. PICK s \in Settlement : Waits(s, t) \/ Carries(s, t)
  BY <1>1 DEF MissingErrorInHands
<1>3. CASE Waits(s, t)
  BY <1>3, WaitsStep
<1>4. CASE Carries(s, t)
  <2>1. ASSUME MergeExceptions(s) PROVE FALSE
    <3>1. HistoryOf(t, view[s]) = E
      BY <1>4 DEF Carries
    <3>2. e \in view[s] /\ ErrorOf(e, view[s]) = SparkVerdict(E)
      BY <1>0, <3>1 DEF ErrorOf, HistoryOf
    <3>3. exception'[e] = SparkVerdict(E)
      BY <1>0, <2>1, <3>2 DEF MergeExceptions
    <3> QED
      BY <3>3, VerdictIsOne
  <2> QED
    BY <1>4, <2>1, CarriesStep
<1> QED
  BY <1>2, <1>3, <1>4

\* Every step keeps a follower for what is not reconstructed yet.
LEMMA StateInvStep ==
  ASSUME TypeOK, RegisteredOnce, OneRunPerJob, RowsInv, StateInv, [Next]_vars
  PROVE  StateInv'
<1> SUFFICES ASSUME NEW t \in Txn, ~Spoilt(t)', WrittenInUtc(t)', HistoryOf(t, accepted') # {}
             PROVE  /\ PartialHasFollower(t)' /\ StaleStateInHands(t)' /\ MissingErrorInHands(t)'
  BY DEF StateInv, HistoryOf
<1>1. CASE HistoryOf(t, accepted') # HistoryOf(t, accepted)
  <2>1. \E u \in Settlement : Waits(u, t)'
    BY <1>1, IngestedWaits
  <2> QED
    BY <2>1 DEF PartialHasFollower, StaleStateInHands, MissingErrorInHands
<1>2. CASE HistoryOf(t, accepted') = HistoryOf(t, accepted)
  <2>1. ~Spoilt(t) /\ WrittenInUtc(t) /\ HistoryOf(t, accepted) # {}
    BY <1>2, NoFailureBefore DEF WrittenInUtc, HistoryOf
  <2>2. PartialHasFollower(t) /\ StaleStateInHands(t) /\ MissingErrorInHands(t)
    BY <2>1 DEF StateInv
  <2> QED
    BY <1>2, <2>1, <2>2, PartialStep, StaleStateStep, MissingErrorStep
<1> QED
  BY <1>1, <1>2

\* What is not reconstructed yet has a follower, unless an execution failed on it.
LEMMA StateInvAlways == Spec => []StateInv
<1>1. Init => StateInv
  BY DEF Init, StateInv, HistoryOf
<1>2. TypeOK /\ RegisteredOnce /\ OneRunPerJob /\ RowsInv /\ StateInv /\ [Next]_vars => StateInv'
  BY StateInvStep
<1> QED
  BY <1>1, <1>2, WorkflowTypeCorrect, RegisteredOnceAlways, OneRunAlways, RowsAlways, PTL DEF Spec

\* A payment whose history is valid has the state of all of it, of whatever dates
\* and in whatever order it came, unless an execution of one of its dates has yet to
\* reconstruct it or failed.
THEOREM StateIsAlwaysCurrent == Spec => []StateIsCurrent
<1>1. ASSUME TypeOK, RowsInv, StateInv PROVE StateIsCurrent
  <2> SUFFICES ASSUME NEW t \in Txn, HistoryOf(t, accepted) # {},
                      SparkVerdict(HistoryOf(t, accepted)) = VALID, WrittenInUtc(t),
                      \A s \in Settlement : Concerns(s, t) => stage[s] \notin {"state", "failed"}
               PROVE  state[t] = SparkState(HistoryOf(t, accepted))
    BY DEF StateIsCurrent, WrittenInUtc
  <2>1. ~Spoilt(t) /\ \A s \in Settlement : ~Waits(s, t) /\ ~Carries(s, t)
    BY <1>1, CarriesConcerns DEF Spoilt, FailedOn, Waits, Carries
  <2> QED
    BY <1>1, <2>1 DEF StateInv, StaleStateInHands
<1>2. TypeOK /\ RowsInv /\ StateInv => StateIsCurrent
  BY <1>1
<1> QED
  BY <1>2, WorkflowTypeCorrect, RowsAlways, StateInvAlways, PTL

-----------------------------------------------------------------------------
(* The two finance views                                                   *)

\* A money event that is accepted has its lines or an exception, or an execution
\* has yet to judge or to post it.
AcceptedDebt ==
  \A e \in accepted : ~Spoilt(e.txn) /\ UtcDate[e] = e.date /\ e.type \in MONEY =>
    \/ SparkPostings(e) \subseteq ledger
    \/ exception[e] # None
    \/ \E s \in Settlement :
         Owes(s, e) \/ (stage[s] = "state" /\ e \in AffectedHistory(s.date))

\* What an execution in the state stage is about, it hands on to its ledger stage.
LEMMA HandedOn ==
  ASSUME TypeOK, RegisteredOnce, [Next]_vars, NEW e, ~Spoilt(e.txn)',
         NEW s \in Settlement, stage[s] = "state", e \in AffectedHistory(s.date)
  PROVE  Owes(s, e)' \/ (stage'[s] = "state" /\ e \in AffectedHistory(s.date)')
<1>1. e \in AffectedHistory(s.date)'
  BY HistoryGrows
<1>2. stage'[s] \in {"state", "failed"} \/ (stage'[s] = "ledger" /\ job'[s] = "none")
  BY StateStage DEF StartReconstruction, Start, MergeStates, MergeExceptions, Halfway, Leave, TypeOK
<1>3. Concerns(s, e.txn)'
  BY AffectedConcerns, ConcernStays
<1> QED
  BY <1>1, <1>2, <1>3 DEF Owes, Spoilt, FailedOn

\* An accepted event that is published has its lines, or an execution that is going to post
\* them.
LEMMA AcceptedDebtStep ==
  ASSUME TypeOK, RegisteredOnce, RowsInv, PostingViews, AcceptedDebt, [Next]_vars
  PROVE  AcceptedDebt'
<1> SUFFICES ASSUME NEW e \in accepted', ~Spoilt(e.txn)', UtcDate[e] = e.date, e.type \in MONEY,
                    ~(SparkPostings(e) \subseteq ledger'), exception'[e] = None
             PROVE  \E s \in Settlement :
                      Owes(s, e)' \/ (stage'[s] = "state" /\ e \in AffectedHistory(s.date)')
  BY DEF AcceptedDebt
<1>1. CASE e \in accepted
  <2>1. e \in OfType(Event, MONEY) /\ ~Spoilt(e.txn)
    BY <1>1, NoFailureBefore DEF TypeOK, OfType
  <2>2. exception[e] = None /\ ~(SparkPostings(e) \subseteq ledger)
    BY <2>1, ExceptionStays, PostedGrows DEF TypeOK, OfType
  <2>3. PICK s \in Settlement : Owes(s, e) \/ (stage[s] = "state" /\ e \in AffectedHistory(s.date))
    BY <1>1, <2>1, <2>2 DEF AcceptedDebt
  <2> QED
    BY <2>1, <2>2, <2>3, OwesStep, HandedOn DEF Spoilt
<1>2. CASE e \notin accepted
  <2>1. PICK s \in Settlement : MergeAccepted(s)
    BY <1>2, BucketGrows
  <2>2. e \in view[s] /\ e.date = s.date /\ stage'[s] = "state"
    BY <1>2, <2>1 DEF MergeAccepted, Running, Leave, RowsInv, TypeOK
  <2> QED
    BY <2>2 DEF AffectedHistory
<1> QED
  BY <1>1, <1>2

\* Accepted events are posted or going to be, unless an execution failed on them.
LEMMA AcceptedDebtAlways == Spec => [](PostingViews /\ AcceptedDebt)
<1>1. Init => PostingViews /\ AcceptedDebt
  BY DEF Init, PostingViews, AcceptedDebt
<1>2. TypeOK /\ RegisteredOnce /\ RowsInv /\ PostingViews /\ AcceptedDebt /\ [Next]_vars
      => PostingViews' /\ AcceptedDebt'
  BY PostingViewsStep, AcceptedDebtStep
<1> QED
  BY <1>1, <1>2, WorkflowTypeCorrect, RegisteredOnceAlways, RowsAlways, PTL DEF Spec

\* The accepted events of a transaction are a payment with its own history.
LEMMA AcceptedPayment ==
  ASSUME TypeOK, RowsInv, NEW t, HistoryOf(t, accepted) # {}
  PROVE  Payment(HistoryOf(t, accepted)) /\ History(HistoryOf(t, accepted))
<1>1. HistoryOf(t, accepted) \subseteq bucket /\ HistoryOf(t, accepted) \subseteq Event
  BY DEF RowsInv, HistoryOf
<1>2. IsFiniteSet(HistoryOf(t, accepted))
  BY <1>1, FS_Subset DEF RowsInv
<1>3. UniqueIds(HistoryOf(t, accepted))
  BY <1>1, WorkflowAssumption DEF UniqueIds
<1>4. \A e \in HistoryOf(t, accepted) : ValidEvent(e)
  BY <1>1, HistoryAssumption
<1> QED
  BY <1>2, <1>3, <1>4 DEF Payment, History

\* The lines of an event carry its transaction; an authorization has none.
LEMMA LinesCarryTxn ==
  ASSUME NEW e
  PROVE  /\ \A l \in SparkPostings(e) : l.txn = e.txn
         /\ e.type \notin MONEY => SparkPostings(e) = {}
BY DEF SparkPostings, MONEY

\* The receivable lines of a payment add up to its net amount.
LEMMA PaymentReceivable ==
  ASSUME NEW E, Payment(E), History(E)
  PROVE  Balance(ReceivableLines(PostingLines(E)))
           = SparkState(E).captured - SparkState(E).refunded - SparkState(E).chargeback
<1>1. PostingLines(E) = LinesOf(E, ConfiguredRules)
  <2>1. \A e \in E : SparkPostings(e) = BuildPostings(e, ConfiguredRules)
    BY PostingsAgree DEF Payment
  <2> QED
    BY <2>1 DEF PostingLines, LinesOf
<1>2. Balance(ReceivableLines(LinesOf(E, ConfiguredRules)))
        = SumFunctionOnSet([e \in E |-> SettlementEffect(e)], E)
  BY ConfiguredRulesLoad, HistoryMovesReceivable
<1>3. /\ SparkState(E).captured = Total(OfType(E, {"capture"}))
      /\ SparkState(E).refunded = Total(OfType(E, {"refund"}))
      /\ SparkState(E).chargeback = Total(OfType(E, {"chargeback"}))
  BY DEF SparkState
<1> QED
  BY <1>1, <1>2, <1>3, EffectOfPayment

\* When nothing is under way, the lines of a visible payment are those of its whole history.
LEMMA ViewsAgree ==
  ASSUME TypeOK, RowsInv, StateRows, StateInv, AcceptedDebt, LedgerFollowsPosted
  PROVE  FinanceViewsAgree
<1> SUFFICES ASSUME NEW t \in CurrentPayments, WrittenInUtc(t),
                    \A s \in Settlement :
                      Concerns(s, t) => stage[s] \notin {"state", "ledger", "failed"}
             PROVE  Balance({l \in VisibleLedger : l.txn = t /\ l.account = "processor_receivable"})
                      = NetReceivable(t)
  BY DEF FinanceViewsAgree, WrittenInUtc
<1> DEFINE E == HistoryOf(t, accepted)
<1>1. t \in Txn /\ state[t] # None /\ ~Held(t)
  BY DEF CurrentPayments
<1>2. E # {} /\ \A e \in E : e \in Event /\ e.txn = t /\ exception[e] = None
  <2>1. RowOf(state[t], E)
    BY <1>1 DEF StateRows
  <2> QED
    BY <1>1, <2>1 DEF RowOf, Held, HistoryOf, TypeOK
<1>3. /\ ~Spoilt(t)
      /\ \A s \in Settlement : ~Waits(s, t) /\ ~Carries(s, t)
      /\ \A s \in Settlement, e \in E : ~Owes(s, e)
  BY <1>1, <1>2, CarriesConcerns, AffectedConcerns DEF Spoilt, FailedOn, Waits, Carries, Owes
<1>4. SparkVerdict(E) = VALID /\ state[t] = SparkState(E)
  <2>1. StaleStateInHands(t) /\ MissingErrorInHands(t)
    BY <1>1, <1>2, <1>3 DEF StateInv
  <2> QED
    BY <1>2, <1>3, <2>1 DEF StaleStateInHands, MissingErrorInHands
<1>5. {l \in VisibleLedger : l.txn = t} = PostingLines(E)
  <2>1. ASSUME NEW l \in VisibleLedger, l.txn = t PROVE l \in PostingLines(E)
    <3>1. PICK e \in posted : l \in SparkPostings(e)
      BY <2>1 DEF VisibleLedger, LedgerFollowsPosted
    <3>2. e.txn = t /\ e \in accepted
      BY <2>1, <3>1, LinesCarryTxn DEF RowsInv
    <3> QED
      BY <3>1, <3>2 DEF PostingLines, HistoryOf
  <2>2. ASSUME NEW l \in PostingLines(E) PROVE l \in VisibleLedger /\ l.txn = t
    <3>1. PICK e \in E : l \in SparkPostings(e)
      BY <2>2 DEF PostingLines
    <3>2. l.txn = t /\ e.type \in MONEY /\ UtcDate[e] = e.date /\ e \in accepted
      BY <1>2, <3>1, LinesCarryTxn DEF WrittenInUtc, HistoryOf
    <3>3. SparkPostings(e) \subseteq ledger
      BY <1>2, <1>3, <3>2, AffectedConcerns DEF AcceptedDebt
    <3> QED
      BY <1>1, <3>1, <3>2, <3>3 DEF VisibleLedger
  <2> QED
    BY <2>1, <2>2
<1>6. {l \in VisibleLedger : l.txn = t /\ l.account = "processor_receivable"}
        = ReceivableLines(PostingLines(E))
  BY <1>5 DEF ReceivableLines
<1>7. Payment(E) /\ History(E)
  BY <1>2, AcceptedPayment
<1> HIDE DEF E
<1>8. Balance(ReceivableLines(PostingLines(E)))
        = SparkState(E).captured - SparkState(E).refunded - SparkState(E).chargeback
  BY <1>7, PaymentReceivable
<1> QED
  BY <1>4, <1>6, <1>8 DEF NetReceivable

\* The ledger that finance sees carries, for each payment that finance sees, exactly
\* the net amount the payment shows, unless an execution of one of its dates is between
\* its ingestion and its posting, or failed.
THEOREM FinanceViewsAlwaysAgree == Spec => []FinanceViewsAgree
<1>1. TypeOK /\ RowsInv /\ StateRows /\ StateInv /\ AcceptedDebt /\ LedgerFollowsPosted
      => FinanceViewsAgree
  BY ViewsAgree
<1> QED
  BY <1>1, WorkflowTypeCorrect, RowsAlways, StateRowsAlways, StateInvAlways, AcceptedDebtAlways,
     NoLineWithoutItsEvent, PTL

-----------------------------------------------------------------------------
(* An execution that is the only one of its date                           *)

\* What the four tables should say of a transaction with this history.
ProjectedState(E) ==
  IF E # {} /\ SparkVerdict(E) = VALID THEN SparkState(E) ELSE None

ProjectedError(E) == IF SparkVerdict(E) = VALID THEN None ELSE SparkVerdict(E)

Moved(E) == IF E # {} /\ SparkVerdict(E) = VALID THEN OfType(E, MONEY) ELSE {}

LinesOfTxn(t) == {l \in ledger : l.txn = t}

Untouched(t) ==
  /\ \A e \in HistoryOf(t, Event) : exception[e] = None
  /\ HistoryOf(t, posted) = {} /\ LinesOfTxn(t) = {}

\* How far an execution is with a transaction that lies on its date.
OwnStep(s, t) ==
  LET E == HistoryOf(t, accepted)
      V == HistoryOf(t, view[s])
  IN  /\ stage[s] \in WAITING \cup {"ingest"} => E = {} /\ state[t] = None /\ Untouched(t)
      /\ stage[s] = "state" =>
           /\ Untouched(t) /\ (state[t] = None \/ state[t] = ProjectedState(E))
           /\ job[s] # "none" => V = E
           /\ job[s] = "half" => state[t] = ProjectedState(E)
      /\ stage[s] \in {"ledger"} \cup PROCESSED =>
           /\ state[t] = ProjectedState(E)
           /\ \A e \in E : exception[e] = ProjectedError(E)
      /\ stage[s] = "ledger" =>
           /\ LinesOfTxn(t) = {} /\ HistoryOf(t, posted) \in {{}, Moved(E)}
           /\ job[s] # "none" => V = Moved(E)
           /\ job[s] = "half" => HistoryOf(t, posted) = Moved(E)
      /\ stage[s] \in PROCESSED =>
           HistoryOf(t, posted) = Moved(E) /\ LinesOfTxn(t) = PostingLines(Moved(E))

UnitInv ==
  \A s \in Settlement : Alone(s) =>
    \A t \in TouchedOn(s.date) : LiesOn(t, s.date) => OwnStep(s, t)

\* The step leaves the rows of the transaction as they are.
SameRows(t) ==
  /\ HistoryOf(t, accepted') = HistoryOf(t, accepted)
  /\ state'[t] = state[t]
  /\ \A e \in HistoryOf(t, Event) : exception'[e] = exception[e]
  /\ HistoryOf(t, posted') = HistoryOf(t, posted)
  /\ LinesOfTxn(t)' = LinesOfTxn(t)

\* An execution that was launched is never waiting again, and only such a one runs.
LEMMA NeverWaitsAgain ==
  ASSUME TypeOK, RegisteredOnce, [Next]_vars, NEW u \in Settlement
  PROVE  /\ stage[u] \notin WAITING => stage'[u] \notin WAITING
         /\ Run(u) => stage[u] \notin WAITING
<1>1. ASSUME Run(u) PROVE stage[u] \notin WAITING /\ stage'[u] \notin WAITING
  BY <1>1 DEF TypeOK, Run, Start, Halfway, Leave, Again, Running, WAITING, JOBS,
       StartIngestion, StartReconstruction, StartPosting, StartReconciliation, MergeAccepted,
       MergeStates, MergeExceptions, MergePosted, MergeLedger, MergeEvidence, OverwriteDeltas,
       WriteEvidence, PublishGate, FailExecution, Collide, TimeOut
<1> QED
  BY <1>1, OwnRun

\* An execution that is the only one of its date now was so before.
LEMMA AloneBefore ==
  ASSUME TypeOK, RegisteredOnce, [Next]_vars, NEW s \in Settlement, Alone(s)'
  PROVE  Alone(s)
BY NeverWaitsAgain DEF Alone

\* The tables are written by the jobs only.
LEMMA TablesFrame ==
  ASSUME [Next]_vars
  PROVE  UNCHANGED tables \/ \E u \in Settlement : Run(u)
BY DEF Next, vars, Publish, RegisterRevision, Launch, WaitForGate, BuildMarts

\* The merges of an execution that works on no event of the transaction.
LEMMA ForeignRun ==
  ASSUME TypeOK, NEW u \in Settlement, Run(u), NEW t \in Txn,
         job[u] # "none" /\ stage[u] \in {"ingest", "state", "ledger"} => HistoryOf(t, view[u]) = {}
  PROVE  SameRows(t)
<1>2. CASE MergeAccepted(u)
  BY <1>2 DEF MergeAccepted, Running, SameRows, HistoryOf, LinesOfTxn
<1>3. CASE MergeStates(u)
  <2>1. HistoryOf(t, view[u]) = {}
    BY <1>3 DEF MergeStates, Running
  <2>2. state'[t] = state[t]
    BY <1>3, <2>1, MergeFacts
  <2> QED
    BY <1>3, <2>2 DEF MergeStates, SameRows, HistoryOf, LinesOfTxn
<1>4. CASE MergeExceptions(u)
  <2>1. HistoryOf(t, view[u]) = {}
    BY <1>4 DEF MergeExceptions, Running
  <2>2. \A e \in HistoryOf(t, Event) : exception'[e] = exception[e]
    BY <1>4, <2>1 DEF MergeExceptions, HistoryOf
  <2> QED
    BY <1>4, <2>2 DEF MergeExceptions, SameRows, HistoryOf, LinesOfTxn
<1>5. CASE MergePosted(u)
  BY <1>5 DEF MergePosted, Running, SameRows, HistoryOf, LinesOfTxn
<1>6. CASE MergeLedger(u)
  <2>1. HistoryOf(t, view[u]) = {}
    BY <1>6 DEF MergeLedger, Running
  <2>2. \A l \in PostingLines(view[u]) : l.txn # t
    BY <2>1, LinesCarryTxn DEF PostingLines, HistoryOf
  <2>3. LinesOfTxn(t)' = LinesOfTxn(t)
    BY <1>6, <2>2 DEF MergeLedger, LinesOfTxn
  <2> QED
    BY <1>6, <2>3 DEF MergeLedger, SameRows, HistoryOf
<1>7. CASE UNCHANGED <<accepted, state, exception, posted, ledger>>
  BY <1>7 DEF SameRows, HistoryOf, LinesOfTxn
<1>8. \/ MergeAccepted(u) \/ MergeStates(u) \/ MergeExceptions(u) \/ MergePosted(u) \/ MergeLedger(u)
      \/ UNCHANGED <<accepted, state, exception, posted, ledger>>
  BY DEF Run, tables, Start, StartIngestion, StartReconstruction, StartPosting, StartReconciliation,
       MergeEvidence, OverwriteDeltas, WriteEvidence, PublishGate, FailExecution, Collide, TimeOut,
       Again
<1> QED
  BY <1>2, <1>3, <1>4, <1>5, <1>6, <1>7, <1>8

\* A job works on events of the transactions its date touches.
LEMMA WorksOnTouched ==
  ASSUME TypeOK, RowsInv, NEW u \in Settlement, job[u] # "none",
         stage[u] \in {"ingest", "state", "ledger"}, NEW e \in view[u]
  PROVE  e.txn \in TouchedOn(u.date)
<1>1. CASE stage[u] = "ingest"
  BY <1>1 DEF RowsInv, TouchedOn
<1>2. CASE stage[u] \in {"state", "ledger"}
  <2>1. PICK f \in accepted : f.txn = e.txn /\ UtcDate[f] = u.date
    BY <1>2 DEF RowsInv, AffectedHistory
  <2> QED
    BY <2>1 DEF TypeOK, TouchedOn
<1> QED
  BY <1>1, <1>2

\* Executions of other dates leave the rows of a transaction alone that lies on this one.
LEMMA OthersLeaveRows ==
  ASSUME TypeOK, RegisteredOnce, RowsInv, [Next]_vars, NEW s \in Settlement, Alone(s),
         NEW t \in Txn, LiesOn(t, s.date), ~Run(s)
  PROVE  SameRows(t)
<1>1. CASE UNCHANGED tables
  BY <1>1 DEF tables, SameRows, HistoryOf, LinesOfTxn
<1>2. ASSUME NEW u \in Settlement, Run(u) PROVE SameRows(t)
  <2>1. u.date # s.date
    BY <1>2, NeverWaitsAgain DEF Alone
  <2>2. t \notin TouchedOn(u.date)
    BY <2>1 DEF TouchedOn, LiesOn, HistoryOf
  <2>3. job[u] # "none" /\ stage[u] \in {"ingest", "state", "ledger"} => HistoryOf(t, view[u]) = {}
    BY <2>2, WorksOnTouched DEF HistoryOf
  <2> QED
    BY <1>2, <2>3, ForeignRun
<1> QED
  BY <1>1, <1>2, TablesFrame

\* The rows of a transaction decide how far its execution is with it.
LEMMA OwnStepFrame ==
  ASSUME NEW s \in Settlement, NEW t, OwnStep(s, t), SameRows(t), TypeOK,
         \/ stage'[s] = stage[s] /\ job'[s] = job[s] /\ view'[s] = view[s]
         \/ stage[s] \in WAITING \cup {"ingest"} /\ stage'[s] \in WAITING \cup {"ingest"}
  PROVE  OwnStep(s, t)'
<1>0. HistoryOf(t, accepted') \subseteq HistoryOf(t, Event)
  BY DEF SameRows, TypeOK, HistoryOf
<1>1. Untouched(t) => Untouched(t)'
  BY DEF Untouched, SameRows, HistoryOf
<1>2. CASE stage[s] \in WAITING \cup {"ingest"} /\ stage'[s] \in WAITING \cup {"ingest"}
  BY <1>1, <1>2 DEF OwnStep, SameRows, WAITING, PROCESSED, HistoryOf
<1>3. CASE stage'[s] = stage[s] /\ job'[s] = job[s] /\ view'[s] = view[s]
  BY <1>0, <1>1, <1>3 DEF OwnStep, SameRows, HistoryOf
<1> QED
  BY <1>2, <1>3

\* A merge of accepted events makes a history, and touches nothing else.
LEMMA OwnIngestion ==
  ASSUME TypeOK, NEW s \in Settlement, NEW t, OwnStep(s, t), MergeAccepted(s)
  PROVE  OwnStep(s, t)'
<1>1. /\ stage[s] = "ingest" /\ stage'[s] = "state" /\ job'[s] = "none"
      /\ UNCHANGED <<state, exception, posted, ledger>>
  BY DEF MergeAccepted, Running, Leave, TypeOK
<1>2. state[t] = None /\ Untouched(t)
  BY <1>1 DEF OwnStep
<1>3. state'[t] = None /\ Untouched(t)'
  BY <1>1, <1>2 DEF Untouched, LinesOfTxn, HistoryOf
<1> QED
  BY <1>1, <1>3 DEF OwnStep, WAITING, PROCESSED

\* The state job loads the whole history of the transaction,
LEMMA OwnReconstruction ==
  ASSUME TypeOK, NEW s \in Settlement, NEW t \in Txn, LiesOn(t, s.date), OwnStep(s, t),
         StartReconstruction(s)
  PROVE  OwnStep(s, t)'
<1>1. /\ stage[s] = "state" /\ stage'[s] = "state" /\ job'[s] = "loaded"
      /\ view'[s] = AffectedHistory(s.date) /\ UNCHANGED tables
  BY DEF StartReconstruction, Start, TypeOK
<1>2. HistoryOf(t, AffectedHistory(s.date)) = HistoryOf(t, accepted)
  BY DEF LiesOn, HistoryOf, AffectedHistory, TypeOK
<1>3. Untouched(t) /\ (state[t] = None \/ state[t] = ProjectedState(HistoryOf(t, accepted)))
  BY <1>1 DEF OwnStep
<1>4. Untouched(t)'
  BY <1>1, <1>3 DEF tables, Untouched, LinesOfTxn, HistoryOf
<1> QED
  BY <1>1, <1>2, <1>3, <1>4 DEF OwnStep, WAITING, PROCESSED, tables, HistoryOf

\* writes the state of it,
LEMMA OwnStates ==
  ASSUME TypeOK, NEW s \in Settlement, NEW t \in Txn, OwnStep(s, t), MergeStates(s)
  PROVE  OwnStep(s, t)'
<1>1. /\ stage[s] = "state" /\ stage'[s] = "state" /\ job[s] = "loaded" /\ job'[s] = "half"
      /\ view'[s] = view[s] /\ UNCHANGED <<accepted, exception, posted, ledger>>
  BY MergeFacts DEF MergeStates
<1>2. /\ Untouched(t) /\ (state[t] = None \/ state[t] = ProjectedState(HistoryOf(t, accepted)))
      /\ HistoryOf(t, view[s]) = HistoryOf(t, accepted)
  BY <1>1 DEF OwnStep
<1>3. Untouched(t)'
  BY <1>1, <1>2 DEF Untouched, LinesOfTxn, HistoryOf
<1>4. state'[t] = ProjectedState(HistoryOf(t, accepted))
  BY <1>2, MergeFacts DEF ProjectedState
<1> QED
  BY <1>1, <1>2, <1>3, <1>4 DEF OwnStep, WAITING, PROCESSED, HistoryOf

\* and its error;
LEMMA OwnExceptions ==
  ASSUME TypeOK, NEW s \in Settlement, NEW t \in Txn, OwnStep(s, t), MergeExceptions(s)
  PROVE  OwnStep(s, t)'
<1> DEFINE E == HistoryOf(t, accepted)
<1>1. /\ stage[s] = "state" /\ stage'[s] = "ledger" /\ job[s] = "half" /\ job'[s] = "none"
      /\ UNCHANGED <<accepted, state, posted, ledger>>
  BY DEF MergeExceptions, Running, Leave, TypeOK
<1>2. Untouched(t) /\ state[t] = ProjectedState(E) /\ HistoryOf(t, view[s]) = E
  BY <1>1 DEF OwnStep
<1>3. ASSUME NEW e \in E PROVE exception'[e] = ProjectedError(E)
  <2>1. e \in Event /\ e \in view[s] /\ e.txn = t /\ exception[e] = None
    BY <1>2 DEF Untouched, TypeOK, HistoryOf
  <2>2. ErrorOf(e, view[s]) = SparkVerdict(E)
    BY <1>2, <2>1 DEF ErrorOf
  <2> QED
    BY <2>1, <2>2 DEF MergeExceptions, ProjectedError
<1>4. LinesOfTxn(t)' = {} /\ HistoryOf(t, posted') = {}
  BY <1>1, <1>2 DEF Untouched, LinesOfTxn
<1> QED
  BY <1>1, <1>2, <1>3, <1>4 DEF OwnStep, WAITING, PROCESSED, HistoryOf

\* the ledger job loads what is to be moved of a valid payment and nothing of another,
LEMMA OwnPosting ==
  ASSUME TypeOK, NEW s \in Settlement, NEW t \in Txn, LiesOn(t, s.date), OwnStep(s, t),
         StartPosting(s)
  PROVE  OwnStep(s, t)'
<1> DEFINE E == HistoryOf(t, accepted)
           rows == {e \in OfType(AffectedHistory(s.date), MONEY) : exception[e] = None}
<1>1. /\ stage[s] = "ledger" /\ stage'[s] = "ledger" /\ job'[s] = "loaded"
      /\ view'[s] = rows /\ UNCHANGED tables
  BY DEF StartPosting, Start, TypeOK
<1>2. /\ state[t] = ProjectedState(E) /\ \A e \in E : exception[e] = ProjectedError(E)
      /\ LinesOfTxn(t) = {} /\ HistoryOf(t, posted) \in {{}, Moved(E)}
  BY <1>1 DEF OwnStep
<1>3. HistoryOf(t, rows) = {e \in OfType(E, MONEY) : exception[e] = None}
  BY DEF LiesOn, HistoryOf, AffectedHistory, TypeOK, OfType
<1>4. {e \in OfType(E, MONEY) : exception[e] = None} = Moved(E)
  BY <1>2, VerdictIsOne DEF Moved, ProjectedError, OfType
<1>5. LinesOfTxn(t)' = {}
  BY <1>1, <1>2 DEF tables, LinesOfTxn
<1> QED
  BY <1>1, <1>2, <1>3, <1>4, <1>5 DEF OwnStep, WAITING, PROCESSED, tables, HistoryOf

\* posts it,
LEMMA OwnPosted ==
  ASSUME TypeOK, NEW s \in Settlement, NEW t \in Txn, OwnStep(s, t), MergePosted(s)
  PROVE  OwnStep(s, t)'
<1> DEFINE E == HistoryOf(t, accepted)
<1>1. /\ stage[s] = "ledger" /\ stage'[s] = "ledger" /\ job[s] = "loaded" /\ job'[s] = "half"
      /\ view'[s] = view[s] /\ posted' = posted \cup view[s]
      /\ UNCHANGED <<accepted, state, exception, ledger>>
  BY DEF MergePosted, Running, Halfway, TypeOK
<1>2. /\ state[t] = ProjectedState(E) /\ \A e \in E : exception[e] = ProjectedError(E)
      /\ LinesOfTxn(t) = {} /\ HistoryOf(t, posted) \in {{}, Moved(E)}
      /\ HistoryOf(t, view[s]) = Moved(E)
  BY <1>1 DEF OwnStep
<1>3. HistoryOf(t, posted') = Moved(E)
  BY <1>1, <1>2 DEF HistoryOf
<1>4. LinesOfTxn(t)' = {}
  BY <1>1, <1>2 DEF LinesOfTxn
<1> QED
  BY <1>1, <1>2, <1>3, <1>4 DEF OwnStep, WAITING, PROCESSED, HistoryOf

\* and writes its lines.
LEMMA OwnLedger ==
  ASSUME TypeOK, NEW s \in Settlement, NEW t \in Txn, OwnStep(s, t), MergeLedger(s)
  PROVE  OwnStep(s, t)'
<1> DEFINE E == HistoryOf(t, accepted)
<1>1. /\ stage[s] = "ledger" /\ stage'[s] = "reconcile" /\ job[s] = "half" /\ job'[s] = "none"
      /\ ledger' = ledger \cup PostingLines(view[s])
      /\ UNCHANGED <<accepted, state, exception, posted>>
  BY DEF MergeLedger, Running, Leave, TypeOK
<1>2. /\ state[t] = ProjectedState(E) /\ \A e \in E : exception[e] = ProjectedError(E)
      /\ LinesOfTxn(t) = {} /\ HistoryOf(t, posted) = Moved(E)
      /\ HistoryOf(t, view[s]) = Moved(E)
  BY <1>1 DEF OwnStep
<1>3. {l \in PostingLines(view[s]) : l.txn = t} = PostingLines(HistoryOf(t, view[s]))
  BY LinesCarryTxn DEF PostingLines, HistoryOf
<1>4. LinesOfTxn(t)' = PostingLines(Moved(E))
  BY <1>1, <1>2, <1>3 DEF LinesOfTxn
<1> QED
  BY <1>1, <1>2, <1>4 DEF OwnStep, WAITING, PROCESSED, HistoryOf

\* The steps that write no row of a transaction.
LEMMA OwnQuietRun ==
  ASSUME TypeOK, NEW s \in Settlement, NEW t \in Txn, OwnStep(s, t),
         UNCHANGED <<accepted, state, exception, posted, ledger>>,
         \/ stage'[s] = "failed"
         \/ stage[s] \in PROCESSED /\ stage'[s] \in PROCESSED
         \/ stage'[s] = stage[s] /\ job'[s] = "none"
         \/ stage[s] = "ingest" /\ stage'[s] = "ingest"
  PROVE  OwnStep(s, t)'
<1>1. SameRows(t)
  BY DEF SameRows, HistoryOf, LinesOfTxn
<1>2. Untouched(t) => Untouched(t)'
  BY DEF Untouched, HistoryOf, LinesOfTxn
<1> QED
  BY <1>1, <1>2 DEF SameRows, OwnStep, WAITING, PROCESSED, HistoryOf

\* Every step of an execution takes the transaction as far as it has got.
LEMMA OwnRunStep ==
  ASSUME TypeOK, NEW s \in Settlement, NEW t \in Txn, LiesOn(t, s.date), OwnStep(s, t), Run(s)
  PROVE  OwnStep(s, t)'
<1>1. CASE MergeAccepted(s) \/ StartReconstruction(s) \/ MergeStates(s) \/ MergeExceptions(s)
           \/ StartPosting(s) \/ MergePosted(s) \/ MergeLedger(s)
  BY <1>1, OwnIngestion, OwnReconstruction, OwnStates, OwnExceptions, OwnPosting, OwnPosted,
     OwnLedger
<1>2. CASE StartIngestion(s) \/ StartReconciliation(s)
  <2>1. /\ UNCHANGED <<accepted, state, exception, posted, ledger>>
        /\ stage'[s] = stage[s] /\ stage[s] \in {"ingest", "reconcile"}
    BY <1>2 DEF StartIngestion, StartReconciliation, Start, tables
  <2> QED
    BY <2>1, OwnQuietRun DEF PROCESSED
<1>3. CASE MergeEvidence(s) \/ OverwriteDeltas(s) \/ WriteEvidence(s) \/ PublishGate(s)
           \/ FailExecution(s)
  <2>1. /\ UNCHANGED <<accepted, state, exception, posted, ledger>>
        /\ stage'[s] = "failed" \/ (stage[s] \in PROCESSED /\ stage'[s] \in PROCESSED)
    BY <1>3 DEF MergeEvidence, OverwriteDeltas, WriteEvidence, PublishGate, FailExecution,
                Halfway, Leave, Running, tables, PROCESSED, TypeOK
  <2> QED
    BY <2>1, OwnQuietRun
<1>4. CASE Collide(s) \/ TimeOut(s)
  <2>1. /\ UNCHANGED <<accepted, state, exception, posted, ledger>>
        /\ stage'[s] = stage[s] /\ job'[s] = "none"
    BY <1>4 DEF Collide, TimeOut, Again, tables, TypeOK
  <2> QED
    BY <2>1, OwnQuietRun
<1> QED
  BY <1>1, <1>2, <1>3, <1>4 DEF Run

\* The steps of executions of other dates leave its rows alone.
LEMMA UnitStep ==
  ASSUME TypeOK, RegisteredOnce, RowsInv, UnitInv, [Next]_vars
  PROVE  UnitInv'
<1> SUFFICES ASSUME NEW s \in Settlement, Alone(s)', NEW t \in TouchedOn(s.date), LiesOn(t, s.date)
             PROVE  OwnStep(s, t)'
  BY DEF UnitInv, TouchedOn, LiesOn, HistoryOf
<1>1. Alone(s) /\ t \in Txn
  BY AloneBefore DEF TouchedOn, Txn
<1>2. OwnStep(s, t)
  BY <1>1 DEF UnitInv
<1>3. CASE Run(s)
  BY <1>1, <1>2, <1>3, OwnRunStep
<1>4. CASE ~Run(s)
  <2>1. SameRows(t)
    BY <1>1, <1>4, OthersLeaveRows
  <2>2. \/ stage'[s] = stage[s] /\ job'[s] = job[s] /\ view'[s] = view[s]
        \/ stage[s] \in WAITING \cup {"ingest"} /\ stage'[s] \in WAITING \cup {"ingest"}
    BY <1>4, ExecutionStep DEF WAITING
  <2> QED
    BY <1>2, <2>1, <2>2, OwnStepFrame
<1> QED
  BY <1>3, <1>4

\* The part of a processed execution in the inductive invariant is the property.
LEMMA UnitHolds == TypeOK /\ UnitInv => ProcessedAsAUnit
<1> SUFFICES ASSUME TypeOK, UnitInv, NEW s \in Settlement, stage[s] \in PROCESSED, Alone(s),
                    NEW t \in TouchedOn(s.date), LiesOn(t, s.date)
             PROVE  LET E     == HistoryOf(t, accepted)
                        lines == {l \in ledger : l.txn = t}
                    IN  IF E # {} /\ SparkVerdict(E) = VALID
                        THEN /\ \A e \in E : exception[e] = None
                             /\ state[t] = SparkState(E)
                             /\ HistoryOf(t, posted) = OfType(E, MONEY)
                             /\ lines = PostingLines(E)
                        ELSE /\ \A e \in E : exception[e] = SparkVerdict(E)
                             /\ state[t] = None
                             /\ HistoryOf(t, posted) = {} /\ lines = {}
  BY DEF ProcessedAsAUnit
<1> DEFINE E == HistoryOf(t, accepted)
<1>1. /\ state[t] = ProjectedState(E) /\ \A e \in E : exception[e] = ProjectedError(E)
      /\ HistoryOf(t, posted) = Moved(E) /\ LinesOfTxn(t) = PostingLines(Moved(E))
  BY DEF UnitInv, OwnStep
<1>2. PostingLines(OfType(E, MONEY)) = PostingLines(E)
  BY LinesCarryTxn DEF PostingLines, OfType
<1>3. PostingLines({}) = {}
  BY DEF PostingLines
<1> HIDE DEF E
<1>4. CASE E # {} /\ SparkVerdict(E) = VALID
  BY <1>1, <1>2, <1>4 DEF ProjectedState, ProjectedError, Moved, LinesOfTxn, E
<1>5. CASE ~(E # {} /\ SparkVerdict(E) = VALID)
  BY <1>1, <1>3, <1>5 DEF ProjectedState, ProjectedError, Moved, LinesOfTxn, E
<1> QED
  BY <1>4, <1>5

\* Once the only execution of a date has posted, a transaction that lies on the date is
\* in the four tables as the rules of the lifecycle judge it: published with its state,
\* its posted events and its lines, or held back in all of them.  Executions of other
\* dates may be anywhere in their merges.
THEOREM TransactionsArePublishedAsUnits == Spec => []ProcessedAsAUnit
<1>1. Init => UnitInv
  <2> SUFFICES ASSUME Init, NEW s \in Settlement, NEW t \in TouchedOn(s.date)
               PROVE  OwnStep(s, t)
    BY DEF UnitInv
  <2>1. t \in Txn
    BY DEF TouchedOn, Txn
  <2> QED
    BY <2>1 DEF Init, OwnStep, Untouched, LinesOfTxn, HistoryOf, WAITING, PROCESSED
<1>2. TypeOK /\ RegisteredOnce /\ RowsInv /\ UnitInv /\ [Next]_vars => UnitInv'
  BY UnitStep
<1> QED
  BY <1>1, <1>2, UnitHolds, WorkflowTypeCorrect, RegisteredOnceAlways, RowsAlways, PTL DEF Spec

-----------------------------------------------------------------------------
(* What reconciled means                                                   *)

\* The accepted events of a date that its money consists of, all of them written with
\* the date.
Due(d) == {e \in accepted : UtcDate[e] = d /\ e.type \in MONEY}

WrittenWithDate(s) == \A e \in accepted : UtcDate[e] = s.date => e.date = s.date

\* The ledger job of the execution has them in its input, or they are out of its way;
\* after its first merge each is posted or has an exception.
Collected(s) == \A e \in Due(s.date) : e \in view[s] \/ e \in posted \/ exception[e] # None

Decided(s) == \A e \in Due(s.date) : e \in posted \/ exception[e] # None

Through(s) ==
  \/ stage[s] = "ledger" /\ job[s] = "half"
  \/ stage[s] \in PROCESSED
  \/ s \in marker

\* The transactions that were held back and lie on another date as well.
Shared(d) == {t \in Txn : Held(t) /\ ~LiesOn(t, d)}

\* E is what counts for the date, but for transactions held back since, the money of
\* which is posted.
Stands(d, E) ==
  \E X \in SUBSET Shared(d) :
    Counted(d, X) = E /\ \A e \in Due(d) : e.txn \in X => e \in posted

\* The evidence of the date is that of the file.
EvidenceHolds(s) ==
  \A k \in DOMAIN Processed[s] : Amount(evidence[s.date], k) = Processed[s][k]

\* An execution is behind a comparison without differences: it is in one of these
\* stages, or failed after it wrote its evidence.
COMPARED == {"evidence", "gate", "published", "superseded"}

Compared(s) == stage[s] \in COMPARED \/ s \in marker

NoDifference(s) ==
  /\ \E E \in SUBSET Event : Stands(s.date, E) /\ Deltas(E, Processed[s]) = << >>
  /\ delta[s.date] = << >>
  /\ EvidenceHolds(s)

\* How far an execution is with the comparison of its date.
CompareStep(s) ==
  /\ stage[s] = "ledger" /\ job[s] = "loaded" => Collected(s)
  /\ Through(s) => Decided(s)
  /\ stage[s] = "reconcile" /\ job[s] # "none" => Stands(s.date, view[s])
  /\ stage[s] = "reconcile" /\ job[s] = "half" => EvidenceHolds(s)
  /\ Compared(s) => NoDifference(s)

CompareInv ==
  /\ DOMAIN evidence = Date /\ DOMAIN delta = Date
  /\ \A s \in marker : stage[s] \in {"gate"} \cup ENDED
  /\ \A s \in Settlement : Alone(s) /\ WrittenWithDate(s) => CompareStep(s)

\* After the execution has ingested, no event of its date is accepted any more: another
\* execution ingests events that are written with another date.
LEMMA DueFrame ==
  ASSUME TypeOK, RegisteredOnce, RowsInv, [Next]_vars, NEW s \in Settlement, Alone(s),
         WrittenWithDate(s)', stage[s] # "ingest"
  PROVE  Due(s.date)' = Due(s.date)
<1>1. CASE accepted' = accepted
  BY <1>1 DEF Due
<1>2. ASSUME NEW u \in Settlement, MergeAccepted(u) PROVE Due(s.date)' = Due(s.date)
  <2>1. /\ Run(u) /\ stage[u] = "ingest" /\ job[u] = "loaded"
        /\ accepted' = accepted \cup view[u]
    BY <1>2 DEF Run, MergeAccepted, Running
  <2>2. u.date # s.date
    BY <2>1, NeverWaitsAgain DEF Alone
  <2>3. \A e \in view[u] : e.date = u.date
    BY <2>1 DEF RowsInv
  <2>4. \A e \in view[u] : UtcDate[e] # s.date
    BY <2>1, <2>2, <2>3 DEF WrittenWithDate
  <2> QED
    BY <2>1, <2>4 DEF Due
<1> QED
  BY <1>1, <1>2, BucketGrows

\* A transaction that is held back stays so,
LEMMA HeldStays ==
  ASSUME TypeOK, [Next]_vars, NEW t, Held(t)
  PROVE  Held(t)'
BY ExceptionStays DEF Held, HistoryOf

\* and one that another execution holds back lies on the date of that one as well.
LEMMA HeldByAnother ==
  ASSUME TypeOK, RegisteredOnce, RowsInv, [Next]_vars, NEW s \in Settlement, Alone(s),
         stage[s] # "state", NEW t, ~Held(t), Held(t)'
  PROVE  ~LiesOn(t, s.date)
<1>1. PICK e \in HistoryOf(t, Event) : exception'[e] # None
  BY DEF Held, HistoryOf
<1>2. e \in Event /\ e.txn = t /\ exception[e] = None
  BY <1>1 DEF Held, HistoryOf
<1>3. PICK u \in Settlement : MergeExceptions(u)
  BY <1>1, <1>2, AcceptedFrame
<1>4. Run(u) /\ stage[u] = "state" /\ job[u] # "none" /\ e \in view[u]
  BY <1>1, <1>2, <1>3 DEF Run, MergeExceptions, Running
<1>5. u.date # s.date
  BY <1>4, NeverWaitsAgain DEF Alone
<1>6. PICK f \in accepted : f.txn = e.txn /\ UtcDate[f] = u.date
  BY <1>4 DEF RowsInv, AffectedHistory
<1>7. f \in HistoryOf(t, Event)
  BY <1>2, <1>6 DEF TypeOK, HistoryOf
<1> QED
  BY <1>5, <1>6, <1>7 DEF LiesOn

\* What is posted or has an exception stays so.
LEMMA DecidedStays ==
  ASSUME TypeOK, [Next]_vars, NEW s \in Settlement, Due(s.date)' = Due(s.date), Decided(s)
  PROVE  Decided(s)'
<1>1. Due(s.date) \subseteq Event
  BY DEF Due, TypeOK
<1> QED
  BY <1>1, ExceptionStays, PostedGrows DEF Decided

\* What counts for a date goes on to count, but for the transactions held back meanwhile.
LEMMA StandsStep ==
  ASSUME TypeOK, RegisteredOnce, RowsInv, [Next]_vars, NEW s \in Settlement, Alone(s),
         RowsInv', PostingViews', stage[s] # "state",
         Due(s.date)' = Due(s.date), Decided(s), NEW E, Stands(s.date, E)
  PROVE  Stands(s.date, E)'
<1>1. PICK X \in SUBSET Shared(s.date) :
        Counted(s.date, X) = E /\ \A e \in Due(s.date) : e.txn \in X => e \in posted
  BY DEF Stands
<1>0. PICK Y : Y = X \cup {t \in Txn : ~Held(t) /\ Held(t)'}
  OBVIOUS
<1>2. Y \subseteq {t \in Txn : Held(t)' /\ ~LiesOn(t, s.date)}
  BY <1>0, HeldStays, HeldByAnother DEF Shared
<1>3. \A e \in Due(s.date) : e \in Event /\ e.txn \in Txn
  BY EventFacts DEF Due, TypeOK
<1>4. ASSUME NEW e \in Due(s.date), ~Held(e.txn) PROVE e \in posted
  BY <1>3, <1>4 DEF Held, HistoryOf, Decided
<1>5. \A e \in Due(s.date) : e.txn \in Y => e \in posted'
  BY <1>0, <1>1, <1>3, <1>4, PostedGrows
<1>6. ASSUME NEW e, e \in posted', UtcDate[e] = s.date PROVE e \in Due(s.date)
  <2>1. e \in Due(s.date)'
    BY <1>6 DEF RowsInv, PostingViews, OfType, Due
  <2> QED
    BY <2>1
<1>7. ASSUME NEW e, e \in posted, UtcDate[e] = s.date, Held(e.txn) => e.txn \in X
      PROVE  e \in posted' /\ (Held(e.txn)' => e.txn \in Y)
  <2>1. e \in posted'
    BY <1>7, PostedGrows
  <2>2. e.txn \in Txn
    BY <1>3, <1>6, <1>7, <2>1
  <2> QED
    BY <1>0, <1>7, <2>1, <2>2
<1>8. ASSUME NEW e, e \in posted', UtcDate[e] = s.date, Held(e.txn)' => e.txn \in Y
      PROVE  e \in posted /\ (Held(e.txn) => e.txn \in X)
  <2>1. e \in Due(s.date)
    BY <1>6, <1>8
  <2>2. CASE Held(e.txn)
    <3>1. e.txn \in Y
      BY <1>8, <2>2, HeldStays
    <3>2. e.txn \in X
      BY <1>0, <2>2, <3>1
    <3> QED
      BY <1>1, <2>1, <3>2
  <2>3. CASE ~Held(e.txn)
    BY <1>4, <2>1, <2>3
  <2> QED
    BY <2>2, <2>3
<1>9. Counted(s.date, Y)' = Counted(s.date, X)
  <2>1. Counted(s.date, X) = {e \in posted : UtcDate[e] = s.date /\ (Held(e.txn) => e.txn \in X)}
    BY DEF Counted
  <2>2. Counted(s.date, Y)' = {e \in posted' : UtcDate[e] = s.date /\ (Held(e.txn)' => e.txn \in Y)}
    BY DEF Counted
  <2> QED
    BY <1>7, <1>8, <2>1, <2>2
<1> QED
  BY <1>1, <1>2, <1>5, <1>9 DEF Stands, Shared, LiesOn

\* Steps that write none of the tables of accepted events, exceptions and posted events
\* leave what counts as it is.
LEMMA StandsFrame ==
  ASSUME NEW d, NEW E, Stands(d, E), UNCHANGED <<accepted, exception, posted>>
  PROVE  Stands(d, E)'
<1>1. PICK X \in SUBSET Shared(d) :
        Counted(d, X) = E /\ \A e \in Due(d) : e.txn \in X => e \in posted
  BY DEF Stands
<1>2. \A t : Held(t)' <=> Held(t)
  BY DEF Held, HistoryOf
<1>3. Shared(d)' = Shared(d) /\ Counted(d, X)' = Counted(d, X) /\ Due(d)' = Due(d)
  BY <1>2 DEF Shared, LiesOn, Counted, Due
<1> QED
  BY <1>1, <1>3 DEF Stands

\* What the job compares counts when it starts.
LEMMA SettledStands ==
  ASSUME NEW d
  PROVE  Stands(d, Settled(d))
<1>1. Counted(d, {}) = Settled(d)
  BY DEF Counted, Settled, Held, HistoryOf, TypeOK
<1> QED
  BY <1>1 DEF Stands

\* Evidence and deltas are written by the reconciliation job, each date by itself.
LEMMA ComparisonFrame ==
  ASSUME [Next]_vars
  PROVE  \/ UNCHANGED <<evidence, delta>>
         \/ \E u \in Settlement : MergeEvidence(u) \/ OverwriteDeltas(u)
BY DEF Next, Run, vars, tables, Publish, RegisterRevision, Launch, WaitForGate, BuildMarts, Start,
       StartIngestion, StartReconstruction, StartPosting, StartReconciliation, MergeAccepted,
       MergeStates, MergeExceptions, MergePosted, MergeLedger,
       WriteEvidence, PublishGate, FailExecution, Collide, TimeOut, Again

\* The only execution of a date is the only one to write the deltas and the evidence of it.
LEMMA OtherDates ==
  ASSUME TypeOK, RegisteredOnce, DOMAIN evidence = Date, DOMAIN delta = Date, [Next]_vars
  PROVE  /\ DOMAIN evidence' = Date /\ DOMAIN delta' = Date
         /\ \A s \in Settlement : Alone(s) /\ ~MergeEvidence(s) /\ ~OverwriteDeltas(s)
              => evidence'[s.date] = evidence[s.date] /\ delta'[s.date] = delta[s.date]
<1>1. ASSUME NEW u \in Settlement, MergeEvidence(u) \/ OverwriteDeltas(u)
      PROVE  /\ DOMAIN evidence' = Date /\ DOMAIN delta' = Date /\ stage[u] \notin WAITING
             /\ \A d \in Date : d # u.date => evidence'[d] = evidence[d] /\ delta'[d] = delta[d]
  <2>1. CASE MergeEvidence(u)
    BY <2>1 DEF MergeEvidence, Running, WAITING
  <2>2. CASE OverwriteDeltas(u)
    BY <2>2 DEF OverwriteDeltas, Running, WAITING
  <2> QED
    BY <1>1, <2>1, <2>2
<1> QED
  BY <1>1, ComparisonFrame, PartFacts DEF Alone

\* A job run that starts is in its own stage, and one that is left or tried again is over.
LEMMA RunStage ==
  ASSUME TypeOK, NEW s \in Settlement
  PROVE  /\ \A label, rows : Start(s, label, rows) =>
              stage'[s] = label /\ job'[s] = "loaded" /\ view'[s] = rows
         /\ \A label : Leave(s, label) => stage'[s] = label /\ job'[s] = "none"
         /\ Halfway(s) => stage'[s] = stage[s] /\ job'[s] = "half" /\ view'[s] = view[s]
         /\ Again(s) => stage'[s] = stage[s] /\ job'[s] = "none"
BY DEF TypeOK, Start, Leave, Halfway, Again

\* The steps by which an execution gets on with its posting and its comparison.
LEMMA CompareKind ==
  ASSUME TypeOK, NEW s \in Settlement, Run(s)
  PROVE  /\ stage'[s] = "reconcile" /\ job'[s] # "none" =>
              StartReconciliation(s) \/ MergeEvidence(s)
         /\ stage'[s] \in COMPARED => OverwriteDeltas(s) \/ stage[s] \in COMPARED
         /\ stage'[s] = "ledger" /\ job'[s] = "half" => MergePosted(s)
         /\ stage'[s] = "ledger" /\ job'[s] = "loaded" => StartPosting(s)
         /\ stage'[s] = "reconcile" =>
              stage[s] = "reconcile" \/ (stage[s] = "ledger" /\ job[s] = "half")
<1>1. CASE StartIngestion(s) \/ StartReconstruction(s) \/ StartPosting(s) \/ StartReconciliation(s)
  BY <1>1, RunStage DEF StartIngestion, StartReconstruction, StartPosting, StartReconciliation,
                        Start, COMPARED
<1>2. CASE MergeStates(s) \/ MergePosted(s) \/ MergeEvidence(s)
  BY <1>2, RunStage DEF MergeStates, MergePosted, MergeEvidence, Running, COMPARED
<1>3. CASE MergeAccepted(s) \/ MergeExceptions(s) \/ MergeLedger(s) \/ FailExecution(s)
  BY <1>3, RunStage DEF MergeAccepted, MergeExceptions, MergeLedger, FailExecution, Running, COMPARED
<1>4. CASE WriteEvidence(s) \/ PublishGate(s)
  BY <1>4, RunStage DEF WriteEvidence, PublishGate, COMPARED
<1>5. CASE OverwriteDeltas(s)
  BY <1>5, RunStage DEF OverwriteDeltas, Running
<1>6. CASE Collide(s) \/ TimeOut(s)
  BY <1>6, RunStage DEF Collide, TimeOut, COMPARED, JOBS
<1> QED
  BY <1>1, <1>2, <1>3, <1>4, <1>5, <1>6 DEF Run

\* The keys of the file have the amounts of the file, whatever else the date holds.
LEMMA MergedAmount ==
  ASSUME NEW file, NEW rows, NEW k \in DOMAIN file
  PROVE  Amount(Merged(file, rows), k) = file[k]
BY DEF Amount, Merged

\* Deltas for no key are none.
LEMMA NoDeltas ==
  ASSUME NEW E, NEW file, DOMAIN Deltas(E, file) = {}
  PROVE  Deltas(E, file) = << >>
BY DEF Deltas

\* An execution that wrote its evidence is at the gate or over.
LEMMA MarkedStage ==
  ASSUME TypeOK, RegisteredOnce, CompareInv, [Next]_vars, NEW s \in marker'
  PROVE  stage'[s] \in {"gate"} \cup ENDED
<1>1. s \in Settlement
  BY TypeStep DEF TypeOK
<1>2. CASE s \in marker
  <2>1. stage[s] \in {"gate"} \cup ENDED
    BY <1>2 DEF CompareInv
  <2>2. CASE ~Run(s)
    BY <1>1, <2>1, <2>2, OwnRun DEF WAITING, ENDED
  <2>3. CASE Run(s)
    <3>1. PublishGate(s) \/ FailExecution(s)
      BY <2>1, <2>3 DEF Run, Start, Running, JOBS, ENDED, StartIngestion, StartReconstruction,
             StartPosting, StartReconciliation, MergeAccepted, MergeStates, MergeExceptions,
             MergePosted, MergeLedger, MergeEvidence, OverwriteDeltas, WriteEvidence, Collide,
             TimeOut
    <3> QED
      BY <1>1, <3>1, RunStage DEF PublishGate, FailExecution, ENDED
  <2> QED
    BY <2>2, <2>3
<1>3. CASE s \notin marker
  <2>1. PICK u \in Settlement : WriteEvidence(u)
    BY <1>3, MarkerFrame
  <2>2. WriteEvidence(s)
    BY <1>3, <2>1 DEF WriteEvidence
  <2> QED
    BY <1>1, <2>2, RunStage DEF WriteEvidence
<1> QED
  BY <1>2, <1>3

\* The ledger job of an execution takes in, and posts, what is due on its date.
LEMMA DecidedStep ==
  ASSUME TypeOK, RegisteredOnce, RowsInv, CompareInv, [Next]_vars, NEW s \in Settlement,
         Alone(s), WrittenWithDate(s)', CompareStep(s)
  PROVE  /\ stage'[s] = "ledger" /\ job'[s] = "loaded" => Collected(s)'
         /\ Through(s)' => Decided(s)'
<1>1. ASSUME stage'[s] = "ledger", job'[s] = "loaded" PROVE Collected(s)'
  <2>1. CASE Run(s)
    <3>1. StartPosting(s)
      BY <1>1, <2>1, CompareKind
    <3>2. /\ view'[s] = {e \in OfType(AffectedHistory(s.date), MONEY) : exception[e] = None}
          /\ UNCHANGED tables
      BY <3>1 DEF StartPosting, Start, TypeOK
    <3> QED
      BY <3>2 DEF Collected, Due, tables, AffectedHistory, OfType
  <2>2. CASE ~Run(s)
    <3>1. stage[s] = "ledger" /\ job[s] = "loaded" /\ view'[s] = view[s]
      BY <1>1, <2>2, ExecutionStep
    <3>2. Due(s.date)' = Due(s.date) /\ Due(s.date) \subseteq Event
      BY <3>1, DueFrame DEF Due, TypeOK
    <3> QED
      BY <3>1, <3>2, ExceptionStays, PostedGrows DEF CompareStep, Collected
  <2> QED
    BY <2>1, <2>2
<1>2. ASSUME Through(s)' PROVE Decided(s)'
  <2>1. CASE MergePosted(s)
    <3>1. /\ stage[s] = "ledger" /\ job[s] = "loaded" /\ posted' = posted \cup view[s]
          /\ UNCHANGED <<accepted, exception>>
      BY <2>1 DEF MergePosted, Running
    <3> QED
      BY <3>1 DEF CompareStep, Collected, Decided, Due
  <2>2. CASE Through(s)
    <3>1. stage[s] # "ingest"
      BY <2>2 DEF Through, PROCESSED, CompareInv, ENDED
    <3> QED
      BY <2>2, <3>1, DueFrame, DecidedStays DEF CompareStep
  <2>3. Through(s) \/ MergePosted(s)
    <3>1. CASE s \in marker' /\ s \notin marker
      <4>1. WriteEvidence(s)
        BY <3>1, MarkerFrame DEF WriteEvidence
      <4> QED
        BY <4>1 DEF WriteEvidence, Through, PROCESSED
    <3>2. CASE s \in marker
      BY <3>2 DEF Through
    <3>3. CASE s \notin marker'
      <4>1. (stage'[s] = "ledger" /\ job'[s] = "half") \/ stage'[s] \in PROCESSED
        BY <1>2, <3>3 DEF Through
      <4>2. CASE Run(s)
        BY <4>1, <4>2, CompareKind DEF Through, PROCESSED, COMPARED, OverwriteDeltas, Running
      <4>3. CASE ~Run(s)
        BY <4>1, <4>3, ExecutionStep DEF Through, PROCESSED
      <4> QED
        BY <4>2, <4>3
    <3> QED
      BY <3>1, <3>2, <3>3
  <2> QED
    BY <2>1, <2>2, <2>3
<1> QED
  BY <1>1, <1>2

\* What an execution compares, or has compared, goes on to stand.
LEMMA StandsOn ==
  ASSUME TypeOK, RegisteredOnce, RowsInv, CompareInv, [Next]_vars, RowsInv', PostingViews',
         NEW s \in Settlement, Alone(s), WrittenWithDate(s)', CompareStep(s),
         stage[s] = "reconcile" \/ Compared(s), NEW E, Stands(s.date, E)
  PROVE  Stands(s.date, E)'
<1>1. stage[s] \notin {"ingest", "state"} /\ Through(s)
  BY DEF Compared, COMPARED, CompareInv, ENDED, Through, PROCESSED
<1>2. Due(s.date)' = Due(s.date) /\ Decided(s)
  BY <1>1, DueFrame DEF CompareStep
<1> QED
  BY <1>1, <1>2, StandsStep

\* The job compares what counts for the date, and writes the evidence of its file.
LEMMA ReconcileStep ==
  ASSUME TypeOK, RegisteredOnce, RowsInv, CompareInv, [Next]_vars, RowsInv', PostingViews',
         NEW s \in Settlement, Alone(s), WrittenWithDate(s)', CompareStep(s),
         stage'[s] = "reconcile", job'[s] # "none"
  PROVE  Stands(s.date, view[s])' /\ (job'[s] = "half" => EvidenceHolds(s)')
<1>0. s.date \in Date /\ DOMAIN evidence = Date
  BY PartFacts DEF CompareInv
<1>1. CASE StartReconciliation(s)
  <2>1. /\ view'[s] = Settled(s.date) /\ job'[s] = "loaded"
        /\ UNCHANGED <<accepted, exception, posted>>
    BY <1>1, RunStage DEF StartReconciliation, Start, tables
  <2>2. PICK E : E = Settled(s.date) /\ Stands(s.date, E)
    BY SettledStands
  <2>3. Stands(s.date, E)'
    BY <2>1, <2>2, StandsFrame
  <2> QED
    BY <2>1, <2>2, <2>3 DEF Stands
<1>2. CASE MergeEvidence(s)
  <2>1. /\ view'[s] = view[s] /\ UNCHANGED <<accepted, exception, posted>>
        /\ stage[s] = "reconcile" /\ job[s] # "none"
    BY <1>2, RunStage DEF MergeEvidence, Running
  <2>2. PICK E : E = view[s] /\ Stands(s.date, E)
    BY <2>1 DEF CompareStep
  <2>3. Stands(s.date, E)'
    BY <2>1, <2>2, StandsFrame
  <2>4. evidence'[s.date] = Merged(Processed[s], evidence[s.date])
    BY <1>0, <1>2 DEF MergeEvidence
  <2>5. EvidenceHolds(s)'
    BY <2>4, MergedAmount DEF EvidenceHolds
  <2> QED
    BY <2>1, <2>2, <2>3, <2>5 DEF Stands
<1>3. CASE ~Run(s)
  <2>1. stage[s] = "reconcile" /\ job[s] = job'[s] /\ view'[s] = view[s]
    BY <1>3, ExecutionStep
  <2>2. PICK E : E = view[s] /\ Stands(s.date, E)
    BY <2>1 DEF CompareStep
  <2>3. Stands(s.date, E)'
    BY <2>1, <2>2, StandsOn
  <2>4. evidence'[s.date] = evidence[s.date]
    BY <1>3, OtherDates DEF CompareInv, Run
  <2>5. job'[s] = "half" => EvidenceHolds(s)'
    BY <2>1, <2>4 DEF CompareStep, EvidenceHolds, Amount
  <2> QED
    BY <2>1, <2>2, <2>3, <2>5 DEF Stands
<1> QED
  BY <1>1, <1>2, <1>3, CompareKind

\* An execution gets behind its comparison only if that showed no difference, and no
\* step of its own or of another changes the outcome.
LEMMA NoDifferenceStep ==
  ASSUME TypeOK, RegisteredOnce, RowsInv, CompareInv, [Next]_vars, RowsInv', PostingViews',
         NEW s \in Settlement, Alone(s), WrittenWithDate(s)', CompareStep(s), Compared(s)'
  PROVE  NoDifference(s)'
<1>0. s.date \in Date /\ DOMAIN evidence = Date /\ DOMAIN delta = Date
  BY PartFacts DEF CompareInv
<1>1. CASE Compared(s)
  <2>1. stage[s] # "reconcile"
    BY <1>1 DEF Compared, COMPARED, CompareInv, ENDED
  <2>2. evidence'[s.date] = evidence[s.date] /\ delta'[s.date] = delta[s.date]
    BY <1>0, <2>1, OtherDates DEF MergeEvidence, OverwriteDeltas, Running
  <2>3. NoDifference(s)
    BY <1>1 DEF CompareStep
  <2>4. PICK E \in SUBSET Event : Stands(s.date, E) /\ Deltas(E, Processed[s]) = << >>
    BY <2>3 DEF NoDifference
  <2>5. Stands(s.date, E)'
    BY <1>1, <2>4, StandsOn
  <2>6. EvidenceHolds(s)'
    BY <2>2, <2>3 DEF NoDifference, EvidenceHolds, Amount
  <2>7. \E F \in SUBSET Event : Stands(s.date, F)' /\ Deltas(F, Processed[s]) = << >>
    BY <2>4, <2>5
  <2> QED
    BY <2>2, <2>3, <2>6, <2>7 DEF NoDifference, Deltas, Expected, Amount
<1>2. CASE OverwriteDeltas(s)
  <2> DEFINE deltas == Deltas(view[s], Processed[s])
  <2>1. /\ stage[s] = "reconcile" /\ job[s] = "half" /\ view[s] \in SUBSET Event
        /\ UNCHANGED <<accepted, exception, posted, evidence, marker>>
        /\ delta' = [delta EXCEPT ![s.date] = deltas]
        /\ Leave(s, IF DOMAIN deltas = {} THEN "evidence" ELSE "failed")
    BY <1>2 DEF OverwriteDeltas, Running, TypeOK
  <2>2. s \notin marker
    BY <2>1 DEF CompareInv, ENDED
  <2>3. stage'[s] \in COMPARED
    BY <2>1, <2>2 DEF Compared
  <2>4. DOMAIN deltas = {}
    BY <2>1, <2>3, RunStage DEF COMPARED
  <2>5. deltas = << >>
    BY <2>4, NoDeltas
  <2>6. PICK E : E = view[s] /\ Stands(s.date, E)
    BY <2>1 DEF CompareStep
  <2>7. Stands(s.date, E)'
    BY <2>1, <2>6, StandsFrame
  <2>8. E \in SUBSET Event /\ Deltas(E, Processed[s]) = << >>
    BY <2>1, <2>5, <2>6
  <2>9. EvidenceHolds(s)'
    BY <2>1 DEF CompareStep, EvidenceHolds
  <2>10. delta'[s.date] = << >>
    BY <1>0, <2>1, <2>5
  <2> HIDE DEF deltas
  <2>11. \E F \in SUBSET Event : Stands(s.date, F)' /\ Deltas(F, Processed[s]) = << >>
    BY <2>7, <2>8
  <2> QED
    BY <2>9, <2>10, <2>11 DEF NoDifference, Deltas, Expected, Amount
<1>3. Compared(s) \/ OverwriteDeltas(s)
  <2>1. CASE s \in marker' /\ s \notin marker
    <3>1. WriteEvidence(s)
      BY <2>1, MarkerFrame DEF WriteEvidence
    <3> QED
      BY <3>1 DEF WriteEvidence, Compared, COMPARED
  <2>2. CASE s \in marker
    BY <2>2 DEF Compared
  <2>3. CASE s \notin marker'
    <3>1. stage'[s] \in COMPARED
      BY <2>3 DEF Compared
    <3>2. CASE Run(s)
      BY <3>1, <3>2, CompareKind DEF Compared
    <3>3. CASE ~Run(s)
      BY <3>1, <3>3, ExecutionStep DEF Compared, COMPARED
    <3> QED
      BY <3>2, <3>3
  <2> QED
    BY <2>1, <2>2, <2>3
<1> QED
  BY <1>1, <1>2, <1>3

\* The comparison of the only execution of a date holds, stage by stage.
LEMMA CompareInvStep ==
  ASSUME TypeOK, RegisteredOnce, OneRunPerJob, RowsInv, PostingViews, CompareInv, [Next]_vars
  PROVE  CompareInv'
<1>1. DOMAIN evidence' = Date /\ DOMAIN delta' = Date
  BY OtherDates DEF CompareInv
<1>2. RowsInv' /\ PostingViews'
  BY RowsStep, PostingViewsStep
<1>3. ASSUME NEW s \in Settlement, Alone(s)', WrittenWithDate(s)' PROVE CompareStep(s)'
  <2>1. Alone(s)
    BY <1>3, AloneBefore
  <2>2. WrittenWithDate(s)
    BY <1>3, AcceptedFrame DEF WrittenWithDate
  <2>3. CompareStep(s)
    BY <2>1, <2>2 DEF CompareInv
  <2>4. /\ stage'[s] = "ledger" /\ job'[s] = "loaded" => Collected(s)'
        /\ Through(s)' => Decided(s)'
    BY <1>3, <2>1, <2>3, DecidedStep
  <2>5. stage'[s] = "reconcile" /\ job'[s] # "none" =>
          Stands(s.date, view[s])' /\ (job'[s] = "half" => EvidenceHolds(s)')
    BY <1>2, <1>3, <2>1, <2>3, ReconcileStep
  <2>6. Compared(s)' => NoDifference(s)'
    BY <1>2, <1>3, <2>1, <2>3, NoDifferenceStep
  <2> QED
    BY <2>4, <2>5, <2>6 DEF CompareStep
<1>4. \A s \in marker' : stage'[s] \in {"gate"} \cup ENDED
  BY MarkedStage
<1> QED
  BY <1>1, <1>3, <1>4 DEF CompareInv

\* A date that is reconciled for the active revision was compared without differences, and
\* while no other execution of the date is started the money that counts for it stays that
\* of the file, but for payments on several dates that are held back afterwards; no delta
\* is left and the evidence is that of the file.  Executions of other dates may ingest,
\* judge and post at any time.
THEOREM ReconciledAlwaysMeansEqual == Spec => []ReconciledMeansEqual
<1>1. Init => CompareInv
  BY DEF Init, CompareInv, CompareStep, Through, PROCESSED, Compared, COMPARED
<1>2. TypeOK /\ RegisteredOnce /\ OneRunPerJob /\ RowsInv /\ PostingViews /\ CompareInv /\ [Next]_vars
      => CompareInv'
  BY CompareInvStep
<1>3. GateInv /\ CompareInv => ReconciledMeansEqual
  <2> SUFFICES ASSUME GateInv, CompareInv, NEW s \in Settlement,
                      IsActive(s), Reconciled(s.date), Alone(s), WrittenWithDate(s)
               PROVE  /\ \E X \in SUBSET {t \in Txn : Held(t) /\ ~LiesOn(t, s.date)} :
                           Deltas(Counted(s.date, X), Processed[s]) = << >>
                      /\ delta[s.date] = << >> /\ EvidenceHolds(s)
    BY DEF ReconciledMeansEqual, WrittenWithDate, EvidenceHolds
  <2>1. NoDifference(s)
    BY DEF GateInv, CompareInv, CompareStep, Compared
  <2>2. PICK E \in SUBSET Event : Stands(s.date, E) /\ Deltas(E, Processed[s]) = << >>
    BY <2>1 DEF NoDifference
  <2> QED
    BY <2>1, <2>2 DEF NoDifference, Stands, Shared
<1> QED
  BY <1>1, <1>2, <1>3, WorkflowTypeCorrect, RegisteredOnceAlways, OneRunAlways, RowsAlways,
     AcceptedDebtAlways, GateAlways, PTL DEF Spec
=============================================================================
