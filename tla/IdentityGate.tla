---------------------------- MODULE IdentityGate ----------------------------
(***************************************************************************)
(* The identity gate, lambdas/schema_identity_gate/handler.py: concurrent  *)
(* invocations that take records of the lifecycle stream, archive them,    *)
(* reserve their event id in the identity table and publish the accepted   *)
(* object.  Each write goes to a store of its own and an invocation may    *)
(* fail between any two of them; the stream then delivers the record       *)
(* again, together with records that were handled already, until the       *)
(* retries are used up and the record goes to the dead-letter queue.       *)
(*                                                                         *)
(* An invocation handles its batch record by record and remembers nothing  *)
(* from one to the next, so a worker of the model takes one record at a    *)
(* time.  Records are taken in any order: an event id may arrive on        *)
(* several shards.                                                         *)
(***************************************************************************)
EXTENDS PaymentEvents

CONSTANTS
  Worker,       \* concurrent invocations
  Record,       \* stream records, by the id of their delivery
  Raw,          \* the raw record each of them carries
  MaxAttempts,  \* deliveries of a record before it is given up
  None          \* no record, no reservation

\* A record is an event, or a CDC envelope with the event in its data; card-security
\* fields may lie in either part of it.  The payload of an event is all of it.
PARTS == {"payload", "envelope"}

\* The gates before the archive: the CDC envelope, then the prohibited fields.
EARLY_GATES ==
  << "non_object_event", "invalid_cdc_envelope", "unsupported_cdc_table",
     "non_insert_outbox_mutation", "prohibited_fields" >>

\* Data that is not base64 or not JSON raises no ContractError.
UNDECODABLE == "undecodable"

GATES == EARLY_GATES \o CONTRACT_GATES
Names(gates) == {gates[i] : i \in DOMAIN gates}

\* Raw[r].card says where card-security fields lie, Raw[r].defects what else is
\* wrong with the record.
ASSUME DeliveredRecordAssumption ==
  \A r \in Record :
    /\ Raw[r].card \subseteq PARTS
    /\ Raw[r].defects \subseteq (Names(GATES) \ {"prohibited_fields"}) \cup {UNDECODABLE}

ASSUME AttemptsAssumption == MaxAttempts \in Nat

EventId == {Raw[r].id : r \in Record}
Entry   == [by : {Fingerprint(Raw[r]) : r \in Record}, status : {"PENDING", "PUBLISHED"}]

ASSUME NoneAssumption ==
  None \notin Record \cup Entry \cup {Fingerprint(Raw[r]) : r \in Record}

VARIABLES
  bronze,     \* the records archived in the bronze bucket
  contract,   \* contract/ of the quarantine bucket: a reason for a record
  conflict,   \* identity-conflict/ of it, one object for an event id
  identity,   \* the identity table
  object,     \* the accepted bucket, one object for a date and an event id
  pc,         \* where each invocation is with its record
  task,       \* the record it handles
  attempts,   \* how often the stream delivered each record
  fate        \* whether the stream is done with it

stores == <<bronze, contract, conflict, identity, object>>
vars   == <<stores, pc, task, attempts, fate>>

Init ==
  /\ bronze = {} /\ contract = {} /\ conflict = {} /\ object = {}
  /\ identity = [i \in EventId |-> None]
  /\ pc = [w \in Worker |-> "idle"]
  /\ task = [w \in Worker |-> None]
  /\ attempts = [r \in Record |-> 0]
  /\ fate = [r \in Record |-> "open"]

\* What reject_prohibited_fields looks at is the payload, not the whole record.
Prohibited(r) == "payload" \in Raw[r].card
Defects(r)    == Raw[r].defects \cup (IF Prohibited(r) THEN {"prohibited_fields"} ELSE {})
Event(r)      == EventOf(Raw[r])
Identity(r)   == Fingerprint(Raw[r])
Stopped(r)    == Defects(r) \cap Names(EARLY_GATES) # {}
Decodes(r)    == UNDECODABLE \notin Defects(r)
Claimed(r)    == identity[Raw[r].id]
Taken         == {task[w] : w \in Worker}

-----------------------------------------------------------------------------
(* Delivery                                                                *)

\* Mutant of Deliver: the deliveries are not counted against the limit.
DeliverUnlimited(w, r) ==
  /\ pc[w] = "idle"
  /\ r \notin Taken
  /\ fate[r] # "dead"
  /\ attempts' = [attempts EXCEPT ![r] = @ + 1]
  /\ task' = [task EXCEPT ![w] = r]
  /\ pc' = [pc EXCEPT ![w] = "received"]
  /\ UNCHANGED <<stores, fate>>

\* The stream hands a record to an invocation.  A retry starts at the first
\* record that failed, so records that were handled come again as well.
Deliver(w, r) ==
  /\ pc[w] = "idle"
  /\ r \notin Taken
  /\ fate[r] # "dead"
  /\ attempts[r] < MaxAttempts
  /\ attempts' = [attempts EXCEPT ![r] = @ + 1]
  /\ task' = [task EXCEPT ![w] = r]
  /\ pc' = [pc EXCEPT ![w] = "received"]
  /\ UNCHANGED <<stores, fate>>

\* Mutant of GiveUp: the limit is missed by one.
GiveUpBeyond(r) ==
  /\ fate[r] = "open"
  /\ attempts[r] > MaxAttempts
  /\ r \notin Taken
  /\ fate' = [fate EXCEPT ![r] = "dead"]
  /\ UNCHANGED <<stores, pc, task, attempts>>

\* The record goes to the dead-letter queue.
GiveUp(r) ==
  /\ fate[r] = "open"
  /\ attempts[r] = MaxAttempts
  /\ r \notin Taken
  /\ fate' = [fate EXCEPT ![r] = "dead"]
  /\ UNCHANGED <<stores, pc, task, attempts>>

-----------------------------------------------------------------------------
(* handler()                                                               *)

Goto(w, label) == pc' = [pc EXCEPT ![w] = label] /\ UNCHANGED <<task, attempts, fate>>

Leave(w) == pc' = [pc EXCEPT ![w] = "idle"] /\ task' = [task EXCEPT ![w] = None]

\* The record is not among the failures the invocation returns.
Handled(w) ==
  /\ Leave(w)
  /\ fate' = [fate EXCEPT ![task[w]] = "done"]
  /\ UNCHANGED attempts

\* Mutant of Archive: the archive comes before the gates.
ArchiveFirst(w) ==
  /\ pc[w] = "received"
  /\ Decodes(task[w])
  /\ bronze' = bronze \cup {task[w]}
  /\ Goto(w, "archived")
  /\ UNCHANGED <<contract, conflict, identity, object>>

\* Only a record whose payload passed the early gates is archived, and all of it is.
Archive(w) ==
  /\ pc[w] = "received"
  /\ Decodes(task[w])
  /\ ~Stopped(task[w])
  /\ bronze' = bronze \cup {task[w]}
  /\ Goto(w, "archived")
  /\ UNCHANGED <<contract, conflict, identity, object>>

\* except ContractError: the record is quarantined under its first defect.
Quarantine(w) ==
  LET r == task[w]
  IN  /\ \/ pc[w] = "received" /\ Decodes(r) /\ Stopped(r)
         \/ pc[w] = "archived" /\ Defects(r) # {}
      /\ contract' = contract \cup {[record |-> r, reason |-> FirstOf(GATES, Defects(r))]}
      /\ Handled(w)
      /\ UNCHANGED <<bronze, conflict, identity, object>>

\* Mutants of Reserve: the put is unconditional, or the reservation is published
\* at once.
ReserveUnconditionally(w) ==
  LET r == task[w]
  IN  /\ pc[w] = "archived"
      /\ Defects(r) = {}
      /\ identity' = [identity EXCEPT ![Raw[r].id] =
                        [by |-> Identity(r), status |-> "PENDING"]]
      /\ Goto(w, "publish")
      /\ UNCHANGED <<bronze, contract, conflict, object>>

ReservePublished(w) ==
  LET r == task[w]
  IN  /\ pc[w] = "archived"
      /\ Defects(r) = {}
      /\ IF Claimed(r) = None
         THEN /\ identity' = [identity EXCEPT ![Raw[r].id] =
                                [by |-> Identity(r), status |-> "PUBLISHED"]]
              /\ Goto(w, "publish")
         ELSE UNCHANGED identity /\ Goto(w, "compare")
      /\ UNCHANGED <<bronze, contract, conflict, object>>

\* The put is conditional on the event id not being in the table.
Reserve(w) ==
  LET r == task[w]
  IN  /\ pc[w] = "archived"
      /\ Defects(r) = {}
      /\ IF Claimed(r) = None
         THEN /\ identity' = [identity EXCEPT ![Raw[r].id] =
                                [by |-> Identity(r), status |-> "PENDING"]]
              /\ Goto(w, "publish")
         ELSE UNCHANGED identity /\ Goto(w, "compare")
      /\ UNCHANGED <<bronze, contract, conflict, object>>

\* Mutant of Compare: an equal fingerprint is a replay, published or not.
ComparePayload(w) ==
  LET r == task[w]
  IN  /\ pc[w] = "compare"
      /\ Claimed(r) # None
      /\ IF Claimed(r).by # Identity(r) THEN Goto(w, "conflict") ELSE Handled(w)
      /\ UNCHANGED stores

\* A consistent read of the reservation: another payload's, a published one of
\* this payload, or one of this payload whose publication was interrupted.
Compare(w) ==
  LET r == task[w]
  IN  /\ pc[w] = "compare"
      /\ Claimed(r) # None
      /\ CASE Claimed(r).by # Identity(r) -> Goto(w, "conflict")
           [] Claimed(r).by = Identity(r) /\ Claimed(r).status = "PUBLISHED" -> Handled(w)
           [] OTHER -> Goto(w, "publish")
      /\ UNCHANGED stores

QuarantineConflict(w) ==
  LET e == Event(task[w])
  IN  /\ pc[w] = "conflict"
      /\ conflict' = {c \in conflict : c.id # e.id} \cup {e}
      /\ Handled(w)
      /\ UNCHANGED <<bronze, contract, identity, object>>

\* The key of the object is the date of the event and its id.
Publish(w) ==
  LET e == Event(task[w])
  IN  /\ pc[w] = "publish"
      /\ object' = {o \in object : <<o.date, o.id>> # <<e.date, e.id>>} \cup {e}
      /\ Goto(w, "mark")
      /\ UNCHANGED <<bronze, contract, conflict, identity>>

\* The update is conditional on the fingerprint in the table.
MarkPublished(w) ==
  LET r == task[w]
  IN  /\ pc[w] = "mark"
      /\ Claimed(r) # None
      /\ Claimed(r).by = Identity(r)
      /\ identity' = [identity EXCEPT ![Raw[r].id].status = "PUBLISHED"]
      /\ Handled(w)
      /\ UNCHANGED <<bronze, contract, conflict, object>>

\* Mutant of Fault: the exception is swallowed.
FaultSwallowed(w) ==
  /\ pc[w] # "idle"
  /\ Handled(w)
  /\ UNCHANGED stores

\* A call to a store fails, the data does not decode, or the invocation dies or
\* times out: the record comes again.
Fault(w) ==
  /\ pc[w] # "idle"
  /\ Leave(w)
  /\ UNCHANGED <<stores, attempts, fate>>

Step(w) ==
  \/ Fault(w) \/ Archive(w) \/ Quarantine(w) \/ Reserve(w) \/ Compare(w)
  \/ QuarantineConflict(w) \/ Publish(w) \/ MarkPublished(w)

Next ==
  \/ \E w \in Worker : Step(w) \/ \E r \in Record : Deliver(w, r)
  \/ \E r \in Record : GiveUp(r)

Spec == Init /\ [][Next]_vars

\* An invocation ends, if only by its timeout, and while records are not handled the
\* stream keeps delivering one of them, until their deliveries are used up.
Fairness ==
  /\ \A w \in Worker : WF_vars(Step(w))
  /\ WF_vars(\E r \in Record : fate[r] = "open" /\ \E w \in Worker : Deliver(w, r))
  /\ WF_vars(\E r \in Record : GiveUp(r))

FairSpec == Spec /\ Fairness
-----------------------------------------------------------------------------
(* Properties                                                              *)

\* The stores, the invocations and the stream hold what they hold in the
\* handler; a record is with one invocation at a time.
TypeOK ==
  /\ bronze \subseteq Record
  /\ \A q \in contract : q.record \in Record
  /\ conflict \subseteq {Event(r) : r \in Record}
  /\ object \subseteq {Event(r) : r \in Record}
  /\ identity \in [EventId -> Entry \cup {None}]
  /\ pc \in [Worker -> {"idle", "received", "archived", "compare", "conflict",
                        "publish", "mark"}]
  /\ task \in [Worker -> Record \cup {None}]
  /\ attempts \in [Record -> 0 .. MaxAttempts]
  /\ fate \in [Record -> {"open", "done", "dead"}]
  /\ \A w \in Worker : pc[w] = "idle" <=> task[w] = None
  /\ \A v, w \in Worker : task[v] = task[w] /\ task[v] # None => v = w

\* A reservation that says PUBLISHED has its object: whoever reads PUBLISHED
\* and returns, readers of the bucket find the payload that holds the id.
PublishedHasObject ==
  \A i \in EventId :
    identity[i] # None /\ identity[i].status = "PUBLISHED" =>
      \E o \in object : o.id = i /\ Fingerprint(o) = identity[i].by

\* When the stream is done with a record, whatever failed on the way, its
\* evidence is durable: quarantined under the contract, or archived and either
\* published under its id or held as a conflict with the payload that has it.
HandledIsDurable ==
  \A r \in Record : fate[r] = "done" =>
    IF Defects(r) # {}
    THEN \E q \in contract : q.record = r
    ELSE /\ r \in bronze
         /\ Claimed(r) # None
         /\ IF Claimed(r).by = Identity(r)
            THEN Claimed(r).status = "PUBLISHED"
            ELSE \E c \in conflict : c.id = Raw[r].id

\* Nothing is accepted, reserved or held as a conflict that was not archived
\* first, and no record is archived whose envelope is refused or whose payload has
\* card-security fields, whatever order deliveries and failures come in.
ArchivedFirst ==
  LET archived == {r \in bronze : Defects(r) = {}}
  IN  /\ \A r \in bronze : ~Stopped(r)
      /\ object \cup conflict \subseteq {Event(r) : r \in archived}
      /\ \A i \in EventId : identity[i] # None =>
           \E r \in archived : Raw[r].id = i /\ Identity(r) = identity[i].by

Claims  == [i \in EventId |-> IF identity[i] = None THEN None ELSE identity[i].by]
Visible == {<<o.id, Fingerprint(o)>> : o \in object}

Abstract == INSTANCE AcceptOnce
              WITH Id <- EventId, Payload <- {Identity(r) : r \in Record},
                   claimed <- Claims, visible <- Visible

\* However invocations interleave, fail and repeat, an event id is claimed by
\* one payload for ever and no other payload is ever published under it.
ImplementsAcceptOnce == Abstract!Spec

\* No record stays with the stream for ever: one that can never be handled is
\* retried and then given up, and the deliveries of records that were handled
\* already do not keep it from either.
RecordsLeave == <>[](\A r \in Record : fate[r] # "open")

\* The reservation journal recovers: a reservation left PENDING by a failure is
\* published, unless every record that carries its payload was given up.
PendingResolved ==
  \A p \in {Identity(r) : r \in {x \in Record : Defects(x) = {}}} :
    identity[p.id] = [by |-> p, status |-> "PENDING"]
      ~> \/ identity[p.id] = [by |-> p, status |-> "PUBLISHED"]
         \/ \A r \in Record : Defects(r) = {} /\ Identity(r) = p => fate[r] = "dead"

-----------------------------------------------------------------------------
(* What the documents say                                                  *)

\* Card-security fields are rejected, wherever they are in a record, before it is
\* archived.
CardDataStaysOut == \A r \in bronze : Raw[r].card = {}
=============================================================================
