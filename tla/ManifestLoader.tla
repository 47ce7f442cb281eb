--------------------------- MODULE ManifestLoader ---------------------------
(***************************************************************************)
(* From a delivered settlement file to its publication:                    *)
(* lambdas/manifest_loader/handler.py and the executions it starts         *)
(* (orchestration/stepfunctions/settlement_workflow.asl.json).             *)
(*                                                                         *)
(* A processor puts a data file and then its manifest under a key of the   *)
(* landing bucket, possibly over those of an earlier delivery.  The        *)
(* notification of the manifest is delivered at least once, to concurrent  *)
(* invocations.  Each reads the manifest that is there now, checks the     *)
(* data object, copies the checked version to the verified bucket,         *)
(* registers the revision and starts the execution named after it; it may  *)
(* fail between any two of these calls.                                    *)
(*                                                                         *)
(* A file is identified with its checksum.  The jobs of an execution that  *)
(* work on the tables are one step here; SettlementWorkflow has them.      *)
(***************************************************************************)
EXTENDS PublicationTable

CONSTANTS
  Invocation,    \* concurrent invocations of the handler
  Delivery,      \* what the processors deliver
  Placed,        \* the key, data file and manifest of each delivery
  BusinessDate,  \* the date in each key
  Control,       \* the control values (count, totals) of the lines of a file
  MaxAttempts    \* attempts at a notification before it is given up

\* A manifest is [revision, sha, control, sound]; sound says that it passes the
\* checks that depend on the manifest and its key alone.
Key      == {Placed[x].key : x \in Delivery}
File     == {Placed[x].file : x \in Delivery}
Manifest == {Placed[x].manifest : x \in Delivery}

\* The settlement, and execution, a manifest under a key stands for.
SettlementOf(k, m) == [date |-> BusinessDate[k], revision |-> m.revision, sha |-> m.sha]

ASSUME DeliveryAssumption ==
  /\ \A k \in Key, m \in Manifest : m.sound => SettlementOf(k, m) \in Settlement
  /\ MaxAttempts \in Nat
  /\ None \notin Key /\ None \notin File /\ None \notin Manifest /\ None \notin Delivery

VARIABLES
  data,      \* the data object under each key of the landing bucket
  manifest,  \* the manifest object under it
  placed,    \* how far each delivery is
  verified,  \* the verified bucket: the bytes under the key of a settlement
  marker,    \* the evidence objects in the control bucket
  stage,     \* the state of each execution
  source,    \* the manifest key in the input of each execution
  pc,        \* where each invocation is
  task,      \* the delivery whose notification it handles
  held,      \* the manifest it read
  version,   \* the version of the data object it checked
  attempts,  \* how often each notification was delivered
  fate       \* whether the notification is done with

landing     == <<data, manifest, placed>>
executions  == <<stage, source, marker>>
invocations == <<pc, task, held, version>>
notices     == <<attempts, fate>>
vars == <<registry, landing, verified, executions, invocations, notices>>

Init ==
  /\ RegistryInit
  /\ data = [k \in Key |-> None] /\ manifest = [k \in Key |-> None]
  /\ placed = [x \in Delivery |-> "nothing"]
  /\ verified = {} /\ marker = {}
  /\ stage = [s \in Settlement |-> "absent"]
  /\ source = [s \in Settlement |-> None]
  /\ pc = [w \in Invocation |-> "idle"]
  /\ task = [w \in Invocation |-> None]
  /\ held = [w \in Invocation |-> None]
  /\ version = [w \in Invocation |-> None]
  /\ attempts = [x \in Delivery |-> 0]
  /\ fate = [x \in Delivery |-> "unsent"]

KeyOf(w) == Placed[task[w]].key
Target(w) == SettlementOf(KeyOf(w), held[w])

-----------------------------------------------------------------------------
(* Landing and notifications                                               *)

PutData(x) ==
  /\ placed[x] = "nothing"
  /\ data' = [data EXCEPT ![Placed[x].key] = Placed[x].file]
  /\ placed' = [placed EXCEPT ![x] = "data"]
  /\ UNCHANGED <<registry, manifest, verified, executions, invocations, notices>>

\* The manifest comes last; its creation is what is notified.
PutManifest(x) ==
  /\ placed[x] = "data"
  /\ manifest' = [manifest EXCEPT ![Placed[x].key] = Placed[x].manifest]
  /\ placed' = [placed EXCEPT ![x] = "manifest"]
  /\ fate' = [fate EXCEPT ![x] = "open"]
  /\ UNCHANGED <<registry, data, verified, executions, invocations, attempts>>

\* Mutant of Deliver: the attempts are not counted against the limit.
DeliverAlways(w, x) ==
  /\ pc[w] = "idle"
  /\ fate[x] \in {"open", "done"}
  /\ attempts' = [attempts EXCEPT ![x] = @ + 1]
  /\ pc' = [pc EXCEPT ![w] = "received"]
  /\ task' = [task EXCEPT ![w] = x]
  /\ UNCHANGED <<registry, landing, verified, executions, held, version, fate>>

\* A notification names a key.  It may be delivered again after it was handled
\* and while another invocation is handling it.
Deliver(w, x) ==
  /\ pc[w] = "idle"
  /\ fate[x] \in {"open", "done"}
  /\ attempts[x] < MaxAttempts
  /\ attempts' = [attempts EXCEPT ![x] = @ + 1]
  /\ pc' = [pc EXCEPT ![w] = "received"]
  /\ task' = [task EXCEPT ![w] = x]
  /\ UNCHANGED <<registry, landing, verified, executions, held, version, fate>>

\* The rule has no dead-letter queue: the notification is dropped.
GiveUp(x) ==
  /\ fate[x] = "open"
  /\ attempts[x] = MaxAttempts
  /\ \A w \in Invocation : task[w] # x
  /\ fate' = [fate EXCEPT ![x] = "dead"]
  /\ UNCHANGED <<registry, landing, verified, executions, invocations, attempts>>

-----------------------------------------------------------------------------
(* handler()                                                               *)

Goto(w, label) == pc' = [pc EXCEPT ![w] = label]

Leave(w) ==
  /\ pc' = [pc EXCEPT ![w] = "idle"]
  /\ task' = [task EXCEPT ![w] = None]
  /\ held' = [held EXCEPT ![w] = None]
  /\ version' = [version EXCEPT ![w] = None]
  /\ UNCHANGED <<landing, attempts>>

\* The invocation returns.
Handled(w) == Leave(w) /\ fate' = [fate EXCEPT ![task[w]] = "done"]

\* The manifest that is there now, which may be another delivery's.
ReadManifest(w) ==
  /\ pc[w] = "received"
  /\ manifest[KeyOf(w)].sound
  /\ held' = [held EXCEPT ![w] = manifest[KeyOf(w)]]
  /\ Goto(w, "read")
  /\ UNCHANGED <<registry, landing, verified, executions, task, version, notices>>

\* The version the head request names has the size and checksum of the manifest.
CheckData(w) ==
  /\ pc[w] = "read"
  /\ data[KeyOf(w)] = held[w].sha
  /\ version' = [version EXCEPT ![w] = data[KeyOf(w)]]
  /\ Goto(w, "checked")
  /\ UNCHANGED <<registry, landing, verified, executions, task, held, notices>>

\* Mutant of CopyVersion: the object that is there now is copied, unchecked.
CopyCurrent(w) ==
  /\ pc[w] = "checked"
  /\ verified' = {v \in verified : v.settlement # Target(w)}
                   \cup {[settlement |-> Target(w), bytes |-> data[KeyOf(w)]]}
  /\ Goto(w, "copied")
  /\ UNCHANGED <<registry, landing, executions, task, held, version, notices>>

\* The checked version is copied, whatever is under the key by now.
CopyVersion(w) ==
  /\ pc[w] = "checked"
  /\ verified' = {v \in verified : v.settlement # Target(w)}
                   \cup {[settlement |-> Target(w), bytes |-> version[w]]}
  /\ Goto(w, "copied")
  /\ UNCHANGED <<registry, landing, executions, task, held, version, notices>>

\* Mutant of RegisterRevision: an equal revision replaces the one registered.
RegisterAgain(w) ==
  /\ pc[w] = "copied"
  /\ IF Newer(Target(w)) \/ registry[BusinessDate[KeyOf(w)]].revision = held[w].revision
     THEN Register(Target(w)) /\ Goto(w, "registered")
     ELSE UNCHANGED registry /\ Goto(w, "refused")
  /\ UNCHANGED <<landing, verified, executions, task, held, version, notices>>

RegisterRevision(w) ==
  /\ pc[w] = "copied"
  /\ IF Newer(Target(w))
     THEN Register(Target(w)) /\ Goto(w, "registered")
     ELSE UNCHANGED registry /\ Goto(w, "refused")
  /\ UNCHANGED <<landing, verified, executions, task, held, version, notices>>

\* Mutant of LookUp: a duplicate returns as a stale manifest does.
LookUpStale(w) ==
  /\ pc[w] = "refused"
  /\ \/ IsActive(Target(w)) \/ registry[BusinessDate[KeyOf(w)]].revision > held[w].revision
  /\ Handled(w)
  /\ UNCHANGED <<registry, verified, executions>>

\* A consistent read after the condition failed: a duplicate goes on, a stale
\* revision returns, and the revision with another content raises (Fault).
LookUp(w) ==
  /\ pc[w] = "refused"
  /\ \/ IsActive(Target(w)) /\ Goto(w, "registered")
        /\ UNCHANGED <<landing, task, held, version, notices>>
     \/ registry[BusinessDate[KeyOf(w)]].revision > held[w].revision /\ Handled(w)
  /\ UNCHANGED <<registry, verified, executions>>

\* Mutant of StartExecution: an execution that exists is started again.
Restart(w) ==
  /\ pc[w] = "registered"
  /\ stage' = [stage EXCEPT ![Target(w)] = "validate"]
  /\ source' = [source EXCEPT ![Target(w)] = KeyOf(w)]
  /\ Handled(w)
  /\ UNCHANGED <<registry, verified, marker>>

\* Executions are named after the settlement.  One that runs with the same
\* input answers like a new one, any other with ExecutionAlreadyExists; the
\* handler returns in all three cases.
StartExecution(w) ==
  /\ pc[w] = "registered"
  /\ IF stage[Target(w)] = "absent"
     THEN /\ stage' = [stage EXCEPT ![Target(w)] = "validate"]
          /\ source' = [source EXCEPT ![Target(w)] = KeyOf(w)]
     ELSE UNCHANGED <<stage, source>>
  /\ Handled(w)
  /\ UNCHANGED <<registry, verified, marker>>

\* A check or a call fails, or the invocation times out or dies; the
\* notification is delivered again.
Fault(w) ==
  /\ pc[w] # "idle"
  /\ Leave(w)
  /\ UNCHANGED <<registry, verified, executions, fate>>

-----------------------------------------------------------------------------
(* Executions                                                              *)

Enter(s, label) == stage' = [stage EXCEPT ![s] = label]

\* The job reads the manifest again, by its key, and compares its control
\* values with those of the verified bytes.
Validate(s) ==
  /\ stage[s] = "validate"
  /\ manifest[source[s]].control = Control[s.sha]
  /\ Enter(s, "process")
  /\ UNCHANGED <<registry, landing, verified, source, marker, invocations, notices>>

\* Ingestion, reconstruction, posting and reconciliation pass.
Process(s) ==
  /\ stage[s] = "process"
  /\ Enter(s, "evidence")
  /\ UNCHANGED <<registry, landing, verified, source, marker, invocations, notices>>

WriteEvidence(s) ==
  /\ stage[s] = "evidence"
  /\ marker' = marker \cup {s}
  /\ Enter(s, "gate")
  /\ UNCHANGED <<registry, landing, verified, source, invocations, notices>>

\* The answer to an update that was made may be lost, and the catch then leads to
\* WorkflowFailed.
PublishGate(s) ==
  /\ stage[s] = "gate"
  /\ IF IsActive(s)
     THEN MarkReconciled(s.date) /\ \E end \in {"published", "failed"} : Enter(s, end)
     ELSE UNCHANGED registry /\ Enter(s, "superseded")
  /\ UNCHANGED <<landing, verified, source, marker, invocations, notices>>

\* A stage fails, after its retries, and the catch leads to WorkflowFailed.
FailExecution(s) ==
  /\ stage[s] \in {"validate", "process", "evidence", "gate"}
  /\ Enter(s, "failed")
  /\ UNCHANGED <<registry, landing, verified, source, marker, invocations, notices>>

-----------------------------------------------------------------------------
Step(w) ==
  \/ Fault(w) \/ ReadManifest(w) \/ CheckData(w) \/ CopyVersion(w)
  \/ RegisterRevision(w) \/ LookUp(w) \/ StartExecution(w)

Run(s) ==
  \/ Validate(s) \/ Process(s) \/ WriteEvidence(s) \/ PublishGate(s) \/ FailExecution(s)

Next ==
  \/ \E x \in Delivery : PutData(x) \/ PutManifest(x) \/ GiveUp(x)
  \/ \E w \in Invocation : Step(w) \/ \E x \in Delivery : Deliver(w, x)
  \/ \E s \in Settlement : Run(s)

Spec == Init /\ [][Next]_vars

\* An invocation ends, if only by its timeout; a notification that was not
\* handled is delivered until its attempts are used up.  Processors need not
\* deliver anything and executions need not get on.
Fairness ==
  /\ \A w \in Invocation : WF_vars(Step(w))
  /\ \A x \in Delivery : /\ WF_vars(fate[x] = "open" /\ \E w \in Invocation : Deliver(w, x))
                         /\ WF_vars(GiveUp(x))

FairSpec == Spec /\ Fairness
-----------------------------------------------------------------------------
(* Properties                                                              *)

LABELS == {"idle", "received", "read", "checked", "copied", "refused", "registered"}
STAGES == {"absent", "validate", "process", "evidence", "gate", "published",
           "superseded", "failed"}
ENDED  == {"published", "superseded", "failed"}

\* The buckets, the table, the invocations and the executions hold what they
\* hold in the code.
TypeOK ==
  /\ RegistryOK
  /\ data \in [Key -> File \cup {None}]
  /\ manifest \in [Key -> Manifest \cup {None}]
  /\ placed \in [Delivery -> {"nothing", "data", "manifest"}]
  /\ verified \subseteq [settlement : Settlement, bytes : File]
  /\ marker \subseteq Settlement
  /\ stage \in [Settlement -> STAGES]
  /\ source \in [Settlement -> Key \cup {None}]
  /\ pc \in [Invocation -> LABELS]
  /\ task \in [Invocation -> Delivery \cup {None}]
  /\ held \in [Invocation -> Manifest \cup {None}]
  /\ version \in [Invocation -> File \cup {None}]
  /\ attempts \in [Delivery -> 0 .. MaxAttempts]
  /\ fate \in [Delivery -> {"unsent", "open", "done", "dead"}]

\* What an execution processes are the bytes of its checksum, in the bucket
\* before its revision became authoritative, whatever happened to the landing
\* object since and however often it was copied.
ProcessesVerifiedBytes ==
  \A s \in Settlement : stage[s] # "absent" \/ IsActive(s) =>
    /\ [settlement |-> s, bytes |-> s.sha] \in verified
    /\ \A v \in verified : v.settlement = s => v.bytes = s.sha

\* A revision of a date has one content: no two executions of one revision are
\* ever started for different files, also when the two are delivered at once.
OneContentPerRevision ==
  \A s, t \in Settlement :
    /\ stage[s] # "absent" /\ stage[t] # "absent"
    /\ s.date = t.date /\ s.revision = t.revision
    => s = t

\* An execution that ended is never run again; a new attempt at a date takes a
\* new revision.
DecidedOnce == [][\A s \in Settlement : stage[s] \in ENDED => stage'[s] = stage[s]]_vars

Gate == INSTANCE PublicationGate
          WITH active <- [d \in Date |-> ActiveSettlement(d)], evidence <- marker,
               reconciled <- {d \in Date : Reconciled(d)}

\* However deliveries, invocations and executions race, the date's revision only
\* grows and it is reconciled only for the active revision and on evidence.
ImplementsPublicationGate == Gate!Spec

\* A registered revision is processed: the crash between the registration and
\* the start is repaired by the next delivery of the notification, unless none
\* is left, the manifest was replaced, or a newer revision took over.
RegisteredIsStarted ==
  \A s \in Settlement :
    IsActive(s) ~>
      \/ stage[s] # "absent"
      \/ ~IsActive(s)
      \/ \A x \in Delivery :
           SettlementOf(Placed[x].key, Placed[x].manifest) = s =>
             \/ fate[x] \in {"unsent", "dead"}
             \/ manifest[Placed[x].key] # Placed[x].manifest
=============================================================================
