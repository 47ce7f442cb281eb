------------------------- MODULE IdentityGateProofs -------------------------
(***************************************************************************)
(* Machine-checked proofs about IdentityGate, for every set of workers and *)
(* records and every limit on the deliveries.                              *)
(***************************************************************************)
EXTENDS IdentityGate, TLAPS

\* An event carries the id and the identity fields of its record.
LEMMA EventFacts ==
  ASSUME NEW r \in Record
  PROVE  /\ Raw[r].id \in EventId
         /\ Event(r).id = Raw[r].id
         /\ Fingerprint(Event(r)) = Identity(r)
<1>1. Raw[r].id \in EventId
  BY DEF EventId
<1>2. IDENTITY_FIELDS \subseteq EVENT_FIELDS /\ "id" \in EVENT_FIELDS
  BY DEF IDENTITY_FIELDS, EVENT_FIELDS
<1>3. Event(r) = [f \in EVENT_FIELDS |-> Raw[r][f]]
  BY DEF Event, EventOf
<1>4. \A f \in IDENTITY_FIELDS : Event(r)[f] = Raw[r][f]
  BY <1>2, <1>3
<1>5. Fingerprint(Event(r)) = Identity(r)
  BY <1>4 DEF Fingerprint, Identity
<1> QED
  BY <1>1, <1>2, <1>3, <1>5

\* The two entries the table ever holds for a record.
LEMMA EntryFacts ==
  ASSUME NEW r \in Record, NEW status \in {"PENDING", "PUBLISHED"}
  PROVE  [by |-> Identity(r), status |-> status] \in Entry
BY DEF Entry, Identity

\* What an invocation works on is a record.
LEMMA TaskFacts ==
  ASSUME TypeOK, NEW w \in Worker, pc[w] # "idle"
  PROVE  task[w] \in Record
BY DEF TypeOK

-----------------------------------------------------------------------------
(* Types                                                                   *)

\* Nothing is stored and nobody is at work at first.
LEMMA TypeInit == Init => TypeOK
BY AttemptsAssumption, NoneAssumption DEF Init, TypeOK

\* A step that keeps its record moves only the position of its invocation.
LEMMA TypeGoto ==
  ASSUME TypeOK, NEW w \in Worker, pc[w] # "idle",
         NEW label \in {"archived", "compare", "conflict", "publish", "mark"},
         Goto(w, label)
  PROVE  /\ pc' \in [Worker -> {"idle", "received", "archived", "compare", "conflict",
                                "publish", "mark"}]
         /\ UNCHANGED <<task, attempts, fate>>
         /\ \A v \in Worker : pc'[v] = "idle" <=> task'[v] = None
BY DEF Goto, TypeOK

\* An invocation that leaves its record is idle.
LEMMA TypeLeave ==
  ASSUME TypeOK, NEW w \in Worker, Leave(w)
  PROVE  /\ pc' \in [Worker -> {"idle", "received", "archived", "compare", "conflict",
                                "publish", "mark"}]
         /\ task' \in [Worker -> Record \cup {None}]
         /\ \A v \in Worker : pc'[v] = "idle" <=> task'[v] = None
         /\ \A u, v \in Worker : task'[u] = task'[v] /\ task'[u] # None => u = v
BY DEF Leave, TypeOK

\* A record that was handled is done, or dead already.
LEMMA TypeHandled ==
  ASSUME TypeOK, NEW w \in Worker, Handled(w)
  PROVE  Leave(w) /\ UNCHANGED attempts /\ fate' \in [Record -> {"open", "done", "dead"}]
BY DEF Handled, TypeOK

\* Every write of the handler, every fault and every delivery keeps the stores well formed.
LEMMA TypeStep ==
  ASSUME TypeOK, [Next]_vars
  PROVE  TypeOK'
<1>1. ASSUME NEW w \in Worker, NEW r \in Record, Deliver(w, r) PROVE TypeOK'
  <2>1. attempts' \in [Record -> 0 .. MaxAttempts]
    BY <1>1, AttemptsAssumption DEF Deliver, TypeOK
  <2>2. task' \in [Worker -> Record \cup {None}] /\ r # None
    BY <1>1, NoneAssumption DEF Deliver, TypeOK
  <2>3. \A u, v \in Worker : task'[u] = task'[v] /\ task'[u] # None => u = v
    BY <1>1 DEF Deliver, TypeOK, Taken
  <2> QED
    BY <1>1, <2>1, <2>2, <2>3 DEF Deliver, TypeOK, stores
<1>2. ASSUME NEW r \in Record, GiveUp(r) PROVE TypeOK'
  BY <1>2 DEF GiveUp, TypeOK, stores
<1>3. ASSUME NEW w \in Worker, Archive(w) PROVE TypeOK'
  BY <1>3, TaskFacts, TypeGoto DEF Archive, TypeOK
<1>4. ASSUME NEW w \in Worker, Quarantine(w) PROVE TypeOK'
  <2>1. task[w] \in Record
    BY <1>4, TaskFacts DEF Quarantine
  <2>2. \A q \in contract' : q.record \in Record
    BY <1>4, <2>1 DEF Quarantine, TypeOK
  <2> QED
    BY <1>4, <2>2, TypeHandled, TypeLeave DEF Quarantine, TypeOK
<1>5. ASSUME NEW w \in Worker, Reserve(w) PROVE TypeOK'
  <2>1. task[w] \in Record
    BY <1>5, TaskFacts DEF Reserve
  <2>2. identity' \in [EventId -> Entry \cup {None}]
    BY <1>5, <2>1, EntryFacts DEF Reserve, TypeOK
  <2>3. CASE Goto(w, "publish")
    BY <1>5, <2>2, <2>3, TypeGoto DEF Reserve, TypeOK
  <2>4. CASE Goto(w, "compare")
    BY <1>5, <2>2, <2>4, TypeGoto DEF Reserve, TypeOK
  <2> QED
    BY <1>5, <2>3, <2>4 DEF Reserve
<1>6. ASSUME NEW w \in Worker, Compare(w) PROVE TypeOK'
  <2>1. CASE Goto(w, "publish") \/ Goto(w, "conflict")
    BY <1>6, <2>1, TypeGoto DEF Compare, TypeOK, stores
  <2>2. CASE Handled(w)
    BY <1>6, <2>2, TypeHandled, TypeLeave DEF Compare, TypeOK, stores
  <2> QED
    BY <1>6, <2>1, <2>2 DEF Compare
<1>7. ASSUME NEW w \in Worker, QuarantineConflict(w) PROVE TypeOK'
  BY <1>7, TaskFacts, TypeHandled, TypeLeave DEF QuarantineConflict, TypeOK
<1>8. ASSUME NEW w \in Worker, Publish(w) PROVE TypeOK'
  BY <1>8, TaskFacts, TypeGoto DEF Publish, TypeOK
<1>9. ASSUME NEW w \in Worker, MarkPublished(w) PROVE TypeOK'
  <2>1. task[w] \in Record /\ Raw[task[w]].id \in EventId
    BY <1>9, TaskFacts, EventFacts DEF MarkPublished
  <2>2. [identity[Raw[task[w]].id] EXCEPT !.status = "PUBLISHED"] \in Entry
    BY <1>9, <2>1 DEF MarkPublished, TypeOK, Entry, Claimed
  <2>3. identity' \in [EventId -> Entry \cup {None}]
    BY <1>9, <2>1, <2>2 DEF MarkPublished, TypeOK
  <2> QED
    BY <1>9, <2>3, TypeHandled, TypeLeave DEF MarkPublished, TypeOK
<1>10. ASSUME NEW w \in Worker, Fault(w) PROVE TypeOK'
  BY <1>10, TypeLeave DEF Fault, TypeOK, stores
<1>11. CASE UNCHANGED vars
  BY <1>11 DEF vars, stores, TypeOK
<1> QED
  BY <1>1, <1>2, <1>3, <1>4, <1>5, <1>6, <1>7, <1>8, <1>9, <1>10, <1>11 DEF Next, Step

\* The stores, invocations and deliveries of every behaviour are well formed, and
\* no two invocations ever hold the same record.
THEOREM GateTypeCorrect == Spec => []TypeOK
BY TypeInit, TypeStep, PTL DEF Spec

-----------------------------------------------------------------------------
(* What an invocation relies on                                            *)

\* Every invocation past the archive has archived its record; past the
\* reservation it knows whose the id is; before the mark the object is there.
WorkerInv ==
  \A w \in Worker :
    /\ pc[w] \in {"archived", "compare", "conflict", "publish", "mark"} =>
         task[w] \in bronze
    /\ pc[w] \in {"compare", "conflict", "publish", "mark"} =>
         Defects(task[w]) = {} /\ Claimed(task[w]) # None
    /\ pc[w] = "conflict" => Claimed(task[w]).by # Identity(task[w])
    /\ pc[w] \in {"publish", "mark"} => Claimed(task[w]).by = Identity(task[w])
    /\ pc[w] = "mark" => \E o \in object : /\ o.id = Raw[task[w]].id
                                          /\ Fingerprint(o) = Identity(task[w])

\* An object belongs to the payload that holds its id.
ObjectInv ==
  \A o \in object : identity[o.id] # None /\ identity[o.id].by = Fingerprint(o)

GateInv == WorkerInv /\ ObjectInv

\* Reservations are never released, handed over or unpublished.
LEMMA ReservationsStay ==
  ASSUME TypeOK, [Next]_vars, NEW i \in EventId, identity[i] # None
  PROVE  /\ identity'[i] # None
         /\ identity'[i].by = identity[i].by
         /\ identity[i].status = "PUBLISHED" => identity'[i].status = "PUBLISHED"
<1>1. ASSUME NEW w \in Worker, Reserve(w)
      PROVE  identity'[i] = identity[i]
  <2>1. task[w] \in Record /\ Raw[task[w]].id \in EventId
    BY <1>1, TaskFacts, EventFacts DEF Reserve
  <2> QED
    BY <1>1, <2>1 DEF Reserve, Claimed, TypeOK
<1>2. ASSUME NEW w \in Worker, MarkPublished(w)
      PROVE  /\ identity'[i] # None
             /\ identity'[i].by = identity[i].by
             /\ identity[i].status = "PUBLISHED" => identity'[i].status = "PUBLISHED"
  <2>1. identity[i] \in Entry
    BY DEF TypeOK
  <2>2. [identity[i] EXCEPT !.status = "PUBLISHED"]
          = [by |-> identity[i].by, status |-> "PUBLISHED"]
    BY <2>1 DEF Entry
  <2>3. identity'[i] = identity[i]
          \/ identity'[i] = [identity[i] EXCEPT !.status = "PUBLISHED"]
    BY <1>2 DEF MarkPublished, TypeOK
  <2>4. [by |-> identity[i].by, status |-> "PUBLISHED"] \in Entry
    BY <2>1 DEF Entry
  <2> QED
    BY <2>2, <2>3, <2>4, NoneAssumption
<1>3. ASSUME NEW w \in Worker, NEW r \in Record, Deliver(w, r)
      PROVE  identity' = identity
  BY <1>3 DEF Deliver, stores
<1>4. ASSUME NEW w \in Worker, Archive(w) \/ Quarantine(w) \/ Compare(w)
                               \/ QuarantineConflict(w) \/ Publish(w) \/ Fault(w)
      PROVE  identity' = identity
  BY <1>4 DEF Archive, Quarantine, Compare, QuarantineConflict, Publish, Fault, stores
<1>5. ASSUME NEW r \in Record, GiveUp(r) PROVE identity' = identity
  BY <1>5 DEF GiveUp, stores
<1>6. CASE UNCHANGED vars
  BY <1>6 DEF vars, stores
<1> QED
  BY <1>1, <1>2, <1>3, <1>4, <1>5, <1>6 DEF Next, Step

\* Evidence is never lost: the archive and the contract quarantine only grow,
\* and a conflict or an object is only replaced by one of the same identity.
LEMMA EvidenceStays ==
  ASSUME TypeOK, GateInv, [Next]_vars
  PROVE  /\ bronze \subseteq bronze'
         /\ contract \subseteq contract'
         /\ \A c \in conflict : \E d \in conflict' : d.id = c.id
         /\ \A o \in object : \E p \in object' : /\ p.id = o.id
                                              /\ Fingerprint(p) = Fingerprint(o)
<1>1. ASSUME NEW w \in Worker, Publish(w)
      PROVE  /\ UNCHANGED <<bronze, contract, conflict>>
             /\ \A o \in object : \E p \in object' : /\ p.id = o.id
                                                  /\ Fingerprint(p) = Fingerprint(o)
  <2>1. task[w] \in Record
    BY <1>1, TaskFacts DEF Publish
  <2> DEFINE e == Event(task[w])
  <2>2. e \in object' /\ identity[e.id].by = Fingerprint(e)
    BY <1>1, <2>1, EventFacts DEF Publish, GateInv, WorkerInv, Claimed
  <2>3. ASSUME NEW o \in object, o \notin object'
        PROVE  o.id = e.id /\ Fingerprint(o) = Fingerprint(e)
    BY <1>1, <2>2, <2>3 DEF Publish, GateInv, ObjectInv
  <2> HIDE DEF e
  <2> QED
    BY <1>1, <2>2, <2>3 DEF Publish
<1>2. ASSUME NEW w \in Worker, QuarantineConflict(w)
      PROVE  /\ UNCHANGED <<bronze, contract, object>>
             /\ \A c \in conflict : \E d \in conflict' : d.id = c.id
  BY <1>2 DEF QuarantineConflict
<1>3. ASSUME NEW w \in Worker,
             Archive(w) \/ Quarantine(w) \/ Reserve(w) \/ Compare(w)
               \/ MarkPublished(w) \/ Fault(w)
      PROVE  /\ bronze \subseteq bronze' /\ contract \subseteq contract'
             /\ UNCHANGED <<conflict, object>>
  BY <1>3 DEF Archive, Quarantine, Reserve, Compare, MarkPublished, Fault, stores
<1>4. ASSUME NEW w \in Worker, NEW r \in Record, Deliver(w, r)
      PROVE  UNCHANGED stores
  BY <1>4 DEF Deliver
<1>5. ASSUME NEW r \in Record, GiveUp(r) PROVE UNCHANGED stores
  BY <1>5 DEF GiveUp
<1>6. CASE UNCHANGED vars
  BY <1>6 DEF vars, stores
<1> QED
  BY <1>1, <1>2, <1>3, <1>4, <1>5, <1>6 DEF Next, Step, stores

\* What an invocation knows at its label stays true, whatever the others write.
LEMMA WorkerStep ==
  ASSUME TypeOK, TypeOK', GateInv, [Next]_vars
  PROVE  WorkerInv'
<1> DEFINE Sound(v) ==
      /\ pc[v] \in {"archived", "compare", "conflict", "publish", "mark"} =>
           task[v] \in bronze
      /\ pc[v] \in {"compare", "conflict", "publish", "mark"} =>
           Defects(task[v]) = {} /\ Claimed(task[v]) # None
      /\ pc[v] = "conflict" => Claimed(task[v]).by # Identity(task[v])
      /\ pc[v] \in {"publish", "mark"} => Claimed(task[v]).by = Identity(task[v])
      /\ pc[v] = "mark" => \E o \in object : /\ o.id = Raw[task[v]].id
                                            /\ Fingerprint(o) = Identity(task[v])
<1>1. \A v \in Worker : Sound(v)
  BY DEF GateInv, WorkerInv
\* An invocation that does not move keeps what it knows: evidence stays.
<1>2. ASSUME NEW v \in Worker, pc'[v] = pc[v], task'[v] = task[v]
      PROVE  Sound(v)'
  <2>1. CASE pc[v] = "idle"
    BY <1>2, <2>1
  <2>2. CASE pc[v] # "idle"
    <3>1. task[v] \in Record /\ Raw[task[v]].id \in EventId
      BY <2>2, TaskFacts, EventFacts
    <3>2. Claimed(task[v]) # None => /\ Claimed(task[v])' # None
                                     /\ Claimed(task[v])'.by = Claimed(task[v]).by
      BY <1>2, <3>1, ReservationsStay DEF Claimed
    <3>3. Sound(v)
      BY <1>1
    <3>4. /\ bronze \subseteq bronze'
          /\ \A o \in object : \E p \in object' : /\ p.id = o.id
                                               /\ Fingerprint(p) = Fingerprint(o)
      BY EvidenceStays
    <3> QED
      BY <1>2, <3>2, <3>3, <3>4 DEF Defects, Identity
  <2> QED
    BY <2>1, <2>2
\* The one that moves.
<1>3. ASSUME NEW v \in Worker, pc'[v] \in {"idle", "received"}
      PROVE  Sound(v)'
  BY <1>3
<1>4. ASSUME NEW w \in Worker, Archive(w)
      PROVE  \A v \in Worker : Sound(v)'
  <2>1. Sound(w)'
    BY <1>4 DEF Archive, Goto, TypeOK
  <2>2. \A v \in Worker \ {w} : pc'[v] = pc[v] /\ task'[v] = task[v]
    BY <1>4 DEF Archive, Goto, TypeOK
  <2> QED
    BY <2>1, <2>2, <1>2
<1>5. ASSUME NEW w \in Worker, Reserve(w)
      PROVE  \A v \in Worker : Sound(v)'
  <2>1. task[w] \in Record /\ Raw[task[w]].id \in EventId /\ task'[w] = task[w]
    BY <1>5, TaskFacts, EventFacts DEF Reserve, Goto
  <2>2. CASE Claimed(task[w]) = None
    <3>1. Claimed(task[w])' = [by |-> Identity(task[w]), status |-> "PENDING"]
      BY <1>5, <2>1, <2>2 DEF Reserve, Claimed, TypeOK
    <3>2. Claimed(task[w])' # None /\ Claimed(task[w])'.by = Identity(task[w])
      <4> DEFINE entry == [by |-> Identity(task[w]), status |-> "PENDING"]
      <4>1. entry \in Entry
        BY <2>1, EntryFacts
      <4>2. entry # None
        BY <4>1, NoneAssumption
      <4> QED
        BY <3>1, <4>2
    <3>3. pc'[w] = "publish" /\ Defects(task[w]) = {} /\ task[w] \in bronze'
      BY <1>1, <1>5, <2>2 DEF Reserve, Goto, TypeOK
    <3> QED
      BY <1>2, <1>5, <2>1, <2>2, <3>2, <3>3 DEF Reserve, Goto, TypeOK, Defects, Identity
  <2>3. CASE Claimed(task[w]) # None
    <3>1. pc'[w] = "compare" /\ Defects(task[w]) = {} /\ task[w] \in bronze'
      BY <1>1, <1>5, <2>3 DEF Reserve, Goto, TypeOK
    <3>2. Claimed(task[w])' # None
      BY <2>1, <2>3, ReservationsStay DEF Claimed
    <3> QED
      BY <1>2, <1>5, <2>1, <2>3, <3>1, <3>2 DEF Reserve, Goto, TypeOK, Defects
  <2> QED
    BY <2>2, <2>3
<1>6. ASSUME NEW w \in Worker, Compare(w)
      PROVE  \A v \in Worker : Sound(v)'
  <2>1. Sound(w) /\ pc[w] = "compare" /\ UNCHANGED stores
    BY <1>1, <1>6 DEF Compare
  <2>2. CASE Handled(w)
    BY <1>2, <1>3, <2>2 DEF Handled, Leave, TypeOK
  <2>3. CASE Claimed(task[w]).by # Identity(task[w]) /\ Goto(w, "conflict")
    <3>1. Sound(w)'
      BY <2>1, <2>3 DEF Goto, TypeOK, Claimed, Defects, Identity, stores
    <3> QED
      BY <1>2, <2>3, <3>1 DEF Goto, TypeOK
  <2>4. CASE Claimed(task[w]).by = Identity(task[w]) /\ Goto(w, "publish")
    <3>1. Sound(w)'
      BY <2>1, <2>4 DEF Goto, TypeOK, Claimed, Defects, Identity, stores
    <3> QED
      BY <1>2, <2>4, <3>1 DEF Goto, TypeOK
  <2> QED
    BY <1>6, <2>2, <2>3, <2>4 DEF Compare
<1>7. ASSUME NEW w \in Worker, Publish(w)
      PROVE  \A v \in Worker : Sound(v)'
  <2>1. task[w] \in Record /\ Sound(w) /\ pc[w] = "publish"
    BY <1>1, <1>7, TaskFacts DEF Publish
  <2>2. \E o \in object' : o.id = Raw[task[w]].id /\ Fingerprint(o) = Identity(task[w])
    BY <1>7, <2>1, EventFacts DEF Publish
  <2>3. Sound(w)'
    BY <1>7, <2>1, <2>2 DEF Publish, Goto, TypeOK, Claimed, Defects, Identity
  <2> QED
    BY <1>2, <1>7, <2>3 DEF Publish, Goto, TypeOK
<1>8. ASSUME NEW w \in Worker,
             Quarantine(w) \/ QuarantineConflict(w) \/ MarkPublished(w) \/ Fault(w)
      PROVE  \A v \in Worker : Sound(v)'
  <2>1. Leave(w)
    BY <1>8 DEF Quarantine, QuarantineConflict, MarkPublished, Fault, Handled
  <2> QED
    BY <1>2, <1>3, <2>1 DEF Leave, TypeOK
<1>9. ASSUME NEW w \in Worker, NEW r \in Record, Deliver(w, r)
      PROVE  \A v \in Worker : Sound(v)'
  BY <1>2, <1>3, <1>9 DEF Deliver, TypeOK
<1>10. ASSUME UNCHANGED <<pc, task>>
       PROVE  \A v \in Worker : Sound(v)'
  <2>1. \A v \in Worker : pc'[v] = pc[v] /\ task'[v] = task[v]
    BY <1>10
  <2> QED
    BY <1>2, <2>1
<1>11. (\A v \in Worker : Sound(v)') => WorkerInv'
  BY DEF WorkerInv
<1> QED
  BY <1>4, <1>5, <1>6, <1>7, <1>8, <1>9, <1>10, <1>11 DEF Next, Step, GiveUp, vars

\* An object is under an id its payload reserved, after every step.
LEMMA ObjectStep ==
  ASSUME TypeOK, GateInv, [Next]_vars
  PROVE  ObjectInv'
<1>1. \A o \in object : /\ identity'[o.id] # None
                       /\ identity'[o.id].by = Fingerprint(o)
  BY ReservationsStay, EventFacts DEF GateInv, ObjectInv, TypeOK
<1>2. ASSUME NEW w \in Worker, Publish(w) PROVE ObjectInv'
  <2>1. task[w] \in Record
    BY <1>2, TaskFacts DEF Publish
  <2> DEFINE e == Event(task[w])
  <2>2. identity[e.id] # None /\ identity[e.id].by = Fingerprint(e) /\ identity' = identity
    BY <1>2, <2>1, EventFacts DEF Publish, GateInv, WorkerInv, Claimed
  <2>3. object' \subseteq object \cup {e}
    BY <1>2 DEF Publish
  <2> HIDE DEF e
  <2> QED
    BY <1>1, <2>2, <2>3 DEF ObjectInv
<1>3. ASSUME NEW w \in Worker,
             Archive(w) \/ Quarantine(w) \/ Reserve(w) \/ Compare(w)
               \/ QuarantineConflict(w) \/ MarkPublished(w) \/ Fault(w)
      PROVE  object' = object
  BY <1>3 DEF Archive, Quarantine, Reserve, Compare, QuarantineConflict, MarkPublished,
              Fault, stores
<1>4. ASSUME NEW w \in Worker, NEW r \in Record, Deliver(w, r)
      PROVE  object' = object
  BY <1>4 DEF Deliver, stores
<1>5. ASSUME NEW r \in Record, GiveUp(r) PROVE object' = object
  BY <1>5 DEF GiveUp, stores
<1>6. CASE UNCHANGED vars
  BY <1>1, <1>6 DEF vars, stores, ObjectInv
<1>7. object' = object => ObjectInv'
  BY <1>1 DEF ObjectInv
<1> QED
  BY <1>2, <1>3, <1>4, <1>5, <1>6, <1>7 DEF Next, Step

\* The inductive invariant of the gate.
LEMMA GateAlways == Spec => []GateInv
<1>1. Init => GateInv
  BY DEF Init, GateInv, WorkerInv, ObjectInv
<1>2. TypeOK /\ TypeOK' /\ GateInv /\ [Next]_vars => GateInv'
  BY WorkerStep, ObjectStep DEF GateInv
<1> QED
  BY <1>1, <1>2, GateTypeCorrect, PTL DEF Spec

-----------------------------------------------------------------------------
(* What readers of the stores rely on                                      *)

\* A reservation only becomes PUBLISHED in the hands of the invocation that has
\* just written the object.
LEMMA PublishedStep ==
  ASSUME TypeOK, GateInv, PublishedHasObject, [Next]_vars
  PROVE  PublishedHasObject'
<1> DEFINE Shown(i) == identity[i] # None /\ identity[i].status = "PUBLISHED" =>
                         \E o \in object : o.id = i /\ Fingerprint(o) = identity[i].by
<1>1. ASSUME NEW i \in EventId, identity'[i] = identity[i]
      PROVE  Shown(i)'
  BY <1>1, EvidenceStays DEF PublishedHasObject
<1>2. ASSUME NEW w \in Worker, Reserve(w) PROVE \A i \in EventId : Shown(i)'
  <2>1. task[w] \in Record /\ Raw[task[w]].id \in EventId
    BY <1>2, TaskFacts, EventFacts DEF Reserve
  <2>2. CASE identity' = identity
    BY <1>1, <2>2
  <2>3. CASE identity' = [identity EXCEPT ![Raw[task[w]].id] =
                            [by |-> Identity(task[w]), status |-> "PENDING"]]
    <3>1. identity'[Raw[task[w]].id].status = "PENDING"
      BY <2>1, <2>3 DEF TypeOK
    <3>2. \A i \in EventId \ {Raw[task[w]].id} : identity'[i] = identity[i]
      BY <2>3 DEF TypeOK
    <3> QED
      BY <1>1, <3>1, <3>2
  <2> QED
    BY <1>2, <2>2, <2>3 DEF Reserve
<1>3. ASSUME NEW w \in Worker, MarkPublished(w) PROVE \A i \in EventId : Shown(i)'
  <2>1. task[w] \in Record /\ Raw[task[w]].id \in EventId
    BY <1>3, TaskFacts, EventFacts DEF MarkPublished
  <2>2. /\ identity'[Raw[task[w]].id].by = Identity(task[w])
        /\ object' = object
    BY <1>3, <2>1, ReservationsStay DEF MarkPublished, Claimed
  <2>3. \E o \in object : o.id = Raw[task[w]].id /\ Fingerprint(o) = Identity(task[w])
    BY <1>3 DEF MarkPublished, GateInv, WorkerInv
  <2>4. \A i \in EventId \ {Raw[task[w]].id} : identity'[i] = identity[i]
    BY <1>3 DEF MarkPublished, TypeOK
  <2> QED
    BY <1>1, <2>2, <2>3, <2>4
<1>4. ASSUME NEW w \in Worker, Archive(w) \/ Quarantine(w) \/ Compare(w)
                               \/ QuarantineConflict(w) \/ Publish(w) \/ Fault(w)
      PROVE  identity' = identity
  BY <1>4 DEF Archive, Quarantine, Compare, QuarantineConflict, Publish, Fault, stores
<1>5. ASSUME NEW w \in Worker, NEW r \in Record, Deliver(w, r) PROVE identity' = identity
  BY <1>5 DEF Deliver, stores
<1>6. ASSUME NEW r \in Record, GiveUp(r) PROVE identity' = identity
  BY <1>6 DEF GiveUp, stores
<1>7. CASE UNCHANGED vars
  BY <1>7 DEF vars, stores, PublishedHasObject
<1>8. identity' = identity => \A i \in EventId : Shown(i)'
  BY <1>1
<1>9. (\A i \in EventId : Shown(i)') => PublishedHasObject'
  BY DEF PublishedHasObject
<1> QED
  BY <1>2, <1>3, <1>4, <1>5, <1>6, <1>7, <1>8, <1>9 DEF Next, Step

\* Whoever finds a reservation PUBLISHED may rely on its object, at every moment
\* of every interleaving.
THEOREM PublishedIsThere == Spec => []PublishedHasObject
<1>1. Init => PublishedHasObject
  BY DEF Init, PublishedHasObject
<1> QED
  BY <1>1, PublishedStep, GateTypeCorrect, GateAlways, PTL DEF Spec

\* The archive precedes every other trace of a record.
LEMMA ArchivedStep ==
  ASSUME TypeOK, GateInv, ArchivedFirst, [Next]_vars
  PROVE  ArchivedFirst'
<1> DEFINE archived == {r \in bronze : Defects(r) = {}}
<1>1. archived \subseteq archived'
  BY EvidenceStays DEF Defects
<1>2. \A r \in bronze' : ~Stopped(r)
  <2>1. ASSUME NEW w \in Worker, Archive(w) PROVE \A r \in bronze' : ~Stopped(r)
    BY <2>1 DEF Archive, ArchivedFirst
  <2>2. ASSUME NEW w \in Worker, Step(w), ~Archive(w) PROVE bronze' = bronze
    BY <2>2 DEF Step, Quarantine, Reserve, Compare, QuarantineConflict, Publish,
                MarkPublished, Fault, stores
  <2>3. ASSUME NEW w \in Worker, NEW r \in Record, Deliver(w, r) PROVE bronze' = bronze
    BY <2>3 DEF Deliver, stores
  <2>4. ASSUME NEW r \in Record, GiveUp(r) PROVE bronze' = bronze
    BY <2>4 DEF GiveUp, stores
  <2> QED
    BY <2>1, <2>2, <2>3, <2>4 DEF Next, vars, stores, ArchivedFirst
<1>3. object' \cup conflict' \subseteq {Event(r) : r \in archived'}
  <2>1. ASSUME NEW w \in Worker, Publish(w) \/ QuarantineConflict(w)
        PROVE  /\ object' \cup conflict' \subseteq object \cup conflict \cup {Event(task[w])}
               /\ task[w] \in archived
    BY <2>1 DEF Publish, QuarantineConflict, GateInv, WorkerInv
  <2>2. ASSUME NEW w \in Worker, Step(w), ~Publish(w), ~QuarantineConflict(w)
        PROVE  UNCHANGED <<object, conflict>>
    BY <2>2 DEF Step, Archive, Quarantine, Reserve, Compare, MarkPublished, Fault, stores
  <2>3. ASSUME NEW w \in Worker, NEW r \in Record, Deliver(w, r)
        PROVE  UNCHANGED <<object, conflict>>
    BY <2>3 DEF Deliver, stores
  <2>4. ASSUME NEW r \in Record, GiveUp(r) PROVE UNCHANGED <<object, conflict>>
    BY <2>4 DEF GiveUp, stores
  <2>5. object \cup conflict \subseteq {Event(r) : r \in archived}
    BY DEF ArchivedFirst
  <2>6. {Event(r) : r \in archived} \subseteq {Event(r) : r \in archived'}
    BY <1>1
  <2>7. CASE UNCHANGED <<object, conflict>>
    BY <2>5, <2>6, <2>7
  <2>8. CASE \E w \in Worker : Publish(w) \/ QuarantineConflict(w)
    <3>1. PICK w \in Worker : Publish(w) \/ QuarantineConflict(w)
      BY <2>8
    <3>2. Event(task[w]) \in {Event(r) : r \in archived}
      BY <2>1, <3>1
    <3> QED
      BY <2>1, <2>5, <2>6, <3>1, <3>2
  <2> QED
    BY <2>2, <2>3, <2>4, <2>7, <2>8 DEF Next, vars, stores
<1>4. ASSUME NEW i \in EventId, identity'[i] # None
      PROVE  \E r \in archived' : Raw[r].id = i /\ Identity(r) = identity'[i].by
  <2>1. CASE identity[i] # None
    <3>1. PICK r \in archived : Raw[r].id = i /\ Identity(r) = identity[i].by
      BY <2>1 DEF ArchivedFirst
    <3> QED
      BY <1>1, <2>1, <3>1, ReservationsStay
  <2>2. CASE identity[i] = None
    <3>1. PICK w \in Worker : Reserve(w) \/ MarkPublished(w)
      <4>1. ASSUME NEW w \in Worker, Step(w), ~Reserve(w), ~MarkPublished(w)
            PROVE  identity' = identity
        BY <4>1 DEF Step, Archive, Quarantine, Compare, QuarantineConflict, Publish,
                    Fault, stores
      <4>2. ASSUME NEW w \in Worker, NEW r \in Record, Deliver(w, r)
            PROVE  identity' = identity
        BY <4>2 DEF Deliver, stores
      <4>3. ASSUME NEW r \in Record, GiveUp(r) PROVE identity' = identity
        BY <4>3 DEF GiveUp, stores
      <4> QED
        BY <1>4, <2>2, <4>1, <4>2, <4>3 DEF Next, vars, stores
    <3>2. task[w] \in Record /\ Raw[task[w]].id \in EventId /\ pc[w] # "idle"
      BY <3>1, TaskFacts, EventFacts DEF Reserve, MarkPublished
    <3>3. Reserve(w) /\ Raw[task[w]].id = i /\ identity'[i].by = Identity(task[w])
      BY <1>4, <2>2, <3>1, <3>2 DEF Reserve, MarkPublished, Claimed, TypeOK
    <3>4. task[w] \in archived
      BY <3>3 DEF Reserve, GateInv, WorkerInv
    <3> QED
      BY <1>1, <3>3, <3>4
  <2> QED
    BY <2>1, <2>2
<1> QED
  BY <1>2, <1>3, <1>4 DEF ArchivedFirst, Defects, Identity, Stopped, Event

\* Nothing is accepted, reserved or held as a conflict before it is archived, and no
\* record is archived whose envelope is refused or whose payload has card-security
\* fields; what lies beside the payload is archived with it.
THEOREM ArchiveComesFirst == Spec => []ArchivedFirst
<1>1. Init => ArchivedFirst
  BY DEF Init, ArchivedFirst
<1> QED
  BY <1>1, ArchivedStep, GateTypeCorrect, GateAlways, PTL DEF Spec

\* What makes a record safe to forget stays true once it is true, and every way
\* to be handled establishes it.
LEMMA HandledStep ==
  ASSUME TypeOK, GateInv, HandledIsDurable, [Next]_vars
  PROVE  HandledIsDurable'
<1> DEFINE Durable(r) ==
      IF Defects(r) # {}
      THEN \E q \in contract : q.record = r
      ELSE /\ r \in bronze
           /\ Claimed(r) # None
           /\ IF Claimed(r).by = Identity(r)
              THEN Claimed(r).status = "PUBLISHED"
              ELSE \E c \in conflict : c.id = Raw[r].id
<1>1. ASSUME NEW r \in Record, Durable(r) PROVE Durable(r)'
  <2>1. Raw[r].id \in EventId
    BY EventFacts
  <2>2. Claimed(r) # None =>
          /\ Claimed(r)' # None
          /\ Claimed(r)'.by = Claimed(r).by
          /\ Claimed(r).status = "PUBLISHED" => Claimed(r)'.status = "PUBLISHED"
    BY <2>1, ReservationsStay DEF Claimed
  <2> QED
    BY <1>1, <2>2, EvidenceStays DEF Defects, Identity
<1>2. ASSUME NEW w \in Worker, NEW r \in Record, r = task[w], Handled(w), Durable(r)'
      PROVE  HandledIsDurable'
  <2>1. ASSUME NEW s \in Record, fate'[s] = "done" PROVE Durable(s)'
    <3>1. CASE s = r
      BY <1>2, <3>1
    <3>2. CASE s # r
      <4>1. fate[s] = "done"
        BY <1>2, <2>1, <3>2 DEF Handled, TypeOK
      <4> QED
        BY <1>1, <4>1 DEF HandledIsDurable
    <3> QED
      BY <3>1, <3>2
  <2> QED
    BY <2>1 DEF HandledIsDurable
<1>3. ASSUME UNCHANGED fate PROVE HandledIsDurable'
  BY <1>1, <1>3 DEF HandledIsDurable
<1>4. ASSUME NEW w \in Worker, Quarantine(w) PROVE HandledIsDurable'
  <2>1. PICK r \in Record : r = task[w]
    BY <1>4, TaskFacts DEF Quarantine
  <2>2. Defects(r) # {} /\ (\E q \in contract' : q.record = r) /\ Handled(w)
    <3>1. Stopped(r) => Defects(r) # {}
      BY DEF Stopped
    <3>2. Defects(r) # {} /\ Handled(w)
      BY <1>4, <2>1, <3>1 DEF Quarantine
    <3>3. \E q \in contract' : q.record = r
      <4> DEFINE row == [record |-> r, reason |-> FirstOf(GATES, Defects(r))]
      <4>1. row \in contract' /\ row.record = r
        BY <1>4, <2>1 DEF Quarantine
      <4> QED
        BY <4>1
    <3> QED
      BY <3>2, <3>3
  <2>3. Durable(r)'
    BY <2>2 DEF Defects
  <2> QED
    BY <1>2, <2>1, <2>2, <2>3
<1>5. ASSUME NEW w \in Worker, Compare(w) PROVE HandledIsDurable'
  <2>1. PICK r \in Record : r = task[w]
    BY <1>5, TaskFacts DEF Compare
  <2>2. CASE ~Handled(w)
    BY <1>3, <1>5, <2>2 DEF Compare, Goto
  <2>3. CASE Handled(w)
    <3>1. fate' # fate => Claimed(r).by = Identity(r) /\ Claimed(r).status = "PUBLISHED"
      BY <1>5, <2>1 DEF Compare, Goto
    <3>2. r \in bronze /\ Defects(r) = {} /\ Claimed(r) # None
      BY <1>5, <2>1 DEF Compare, GateInv, WorkerInv
    <3>3. fate' # fate => Durable(r)'
      BY <1>1, <3>1, <3>2
    <3> QED
      BY <1>2, <1>3, <2>1, <2>3, <3>3
  <2> QED
    BY <2>2, <2>3
<1>6. ASSUME NEW w \in Worker, QuarantineConflict(w) PROVE HandledIsDurable'
  <2>1. PICK r \in Record : r = task[w]
    BY <1>6, TaskFacts DEF QuarantineConflict
  <2>2. /\ r \in bronze /\ Defects(r) = {}
        /\ Claimed(r) # None /\ Claimed(r).by # Identity(r)
    BY <1>6, <2>1 DEF QuarantineConflict, GateInv, WorkerInv
  <2>3. \E c \in conflict' : c.id = Raw[r].id
    BY <1>6, <2>1, EventFacts DEF QuarantineConflict
  <2>4. bronze' = bronze /\ identity' = identity /\ Handled(w)
    BY <1>6 DEF QuarantineConflict
  <2>5. Durable(r)'
    BY <2>2, <2>3, <2>4 DEF Defects, Claimed, Identity
  <2> QED
    BY <1>2, <2>1, <2>4, <2>5
<1>7. ASSUME NEW w \in Worker, MarkPublished(w) PROVE HandledIsDurable'
  <2>1. PICK r \in Record : r = task[w] /\ Raw[r].id \in EventId
    BY <1>7, TaskFacts, EventFacts DEF MarkPublished
  <2>2. r \in bronze /\ Defects(r) = {} /\ Claimed(r) # None /\ Claimed(r).by = Identity(r)
    BY <1>7, <2>1 DEF MarkPublished, GateInv, WorkerInv
  <2>3. /\ Claimed(r)' # None /\ Claimed(r)'.by = Identity(r)
    BY <2>1, <2>2, ReservationsStay DEF Claimed
  <2>4. Claimed(r)'.status = "PUBLISHED"
    BY <1>7, <2>1, <2>2 DEF MarkPublished, Claimed, TypeOK, Entry
  <2>5. bronze' = bronze /\ Handled(w)
    BY <1>7 DEF MarkPublished
  <2>6. Durable(r)'
    BY <2>2, <2>3, <2>4, <2>5 DEF Defects, Identity
  <2> QED
    BY <1>2, <2>1, <2>5, <2>6
<1>8. ASSUME NEW w \in Worker, Archive(w) \/ Reserve(w) \/ Publish(w) \/ Fault(w)
      PROVE  UNCHANGED fate
  BY <1>8 DEF Archive, Reserve, Publish, Fault, Goto
<1>9. ASSUME NEW w \in Worker, NEW r \in Record, Deliver(w, r) PROVE UNCHANGED fate
  BY <1>9 DEF Deliver
<1>10. ASSUME NEW r \in Record, GiveUp(r) PROVE HandledIsDurable'
  BY <1>1, <1>10 DEF GiveUp, HandledIsDurable, TypeOK
<1> QED
  BY <1>3, <1>4, <1>5, <1>6, <1>7, <1>8, <1>9, <1>10 DEF Next, Step, vars

\* A record the stream is done with has left durable evidence of what became of
\* it, although each store is written by a call of its own that may fail.
THEOREM HandledLeavesEvidence == Spec => []HandledIsDurable
<1>1. Init => HandledIsDurable
  BY DEF Init, HandledIsDurable
<1> QED
  BY <1>1, HandledStep, GateTypeCorrect, GateAlways, PTL DEF Spec

-----------------------------------------------------------------------------
(* Implementation of AcceptOnce                                            *)

\* A reservation that succeeds claims the id; one that is refused changes nothing.
LEMMA RefineReserve ==
  ASSUME TypeOK, NEW w \in Worker, Reserve(w)
  PROVE  [Abstract!Next]_(Abstract!vars)
<1>1. task[w] \in Record /\ Raw[task[w]].id \in EventId
  BY TaskFacts, EventFacts DEF Reserve
<1>2. Visible' = Visible
  BY DEF Reserve, Visible
<1>3. CASE Claimed(task[w]) # None
  BY <1>2, <1>3 DEF Reserve, Abstract!vars, Claims
<1>4. CASE Claimed(task[w]) = None
  <2> DEFINE i == Raw[task[w]].id
             p == Identity(task[w])
             entry == [by |-> p, status |-> "PENDING"]
  <2>1. identity' = [identity EXCEPT ![i] = entry] /\ identity[i] = None
    BY <1>4 DEF Reserve, Claimed
  <2>2. entry # None /\ entry.by = p
    BY <1>1, EntryFacts, NoneAssumption
  <2>3. Claims' = [Claims EXCEPT ![i] = p] /\ Claims[i] = None
    <3> HIDE DEF entry, p
    <3> QED
      BY <1>1, <2>1, <2>2 DEF Claims, TypeOK
  <2>4. Abstract!Claim(i, p)
    BY <1>2, <2>3 DEF Abstract!Claim
  <2> QED
    BY <1>1, <2>4 DEF Abstract!Next
<1> QED
  BY <1>3, <1>4

\* Writing the object reveals the payload that claimed the id.
LEMMA RefinePublish ==
  ASSUME TypeOK, GateInv, NEW w \in Worker, Publish(w)
  PROVE  [Abstract!Next]_(Abstract!vars)
<1> DEFINE r == task[w]
           i == Raw[r].id
           e == Event(r)
<1>1. r \in Record /\ i \in EventId /\ e.id = i /\ Fingerprint(e) = Identity(r)
  BY TaskFacts, EventFacts DEF Publish
<1>2. identity[i] # None /\ identity[i].by = Identity(r) /\ identity' = identity
  BY DEF Publish, GateInv, WorkerInv, Claimed
<1>3. Claims' = Claims /\ Claims[i] = Identity(r) /\ Identity(r) # None
  BY <1>1, <1>2, NoneAssumption DEF Claims, Identity
<1>4. Visible' = Visible \cup {<<i, Claims[i]>>}
  <2>1. e \in object' /\ object' \subseteq object \cup {e}
    BY DEF Publish
  <2>2. ASSUME NEW o \in object
        PROVE  \E p \in object' : p.id = o.id /\ Fingerprint(p) = Fingerprint(o)
    <3>1. CASE o \in object'
      BY <3>1
    <3>2. CASE o \notin object'
      <4>1. o.id = e.id
        BY <3>2 DEF Publish
      <4>2. Fingerprint(o) = Fingerprint(e)
        BY <1>1, <1>2, <4>1 DEF GateInv, ObjectInv
      <4> HIDE DEF e
      <4> QED
        BY <2>1, <4>1, <4>2
    <3> QED
      BY <3>1, <3>2
  <2> HIDE DEF e, i, r
  <2> QED
    BY <1>1, <1>3, <2>1, <2>2 DEF Visible
<1>5. Abstract!Reveal(i)
  BY <1>3, <1>4 DEF Abstract!Reveal
<1> QED
  BY <1>1, <1>5 DEF Abstract!Next

\* The PUBLISHED mark changes neither who claimed an id nor what is visible.
LEMMA RefineMark ==
  ASSUME TypeOK, NEW w \in Worker, MarkPublished(w)
  PROVE  UNCHANGED <<Claims, Visible>>
<1>1. task[w] \in Record /\ Raw[task[w]].id \in EventId
  BY TaskFacts, EventFacts DEF MarkPublished
<1>2. identity[Raw[task[w]].id] \in Entry
  BY <1>1 DEF MarkPublished, Claimed, TypeOK
<1> DEFINE entry == [identity[Raw[task[w]].id] EXCEPT !.status = "PUBLISHED"]
<1>3. entry \in Entry /\ entry.by = identity[Raw[task[w]].id].by
  BY <1>2 DEF Entry
<1>4. identity' = [identity EXCEPT ![Raw[task[w]].id] = entry]
  BY DEF MarkPublished
<1>5. Claims' = Claims
  <2> HIDE DEF entry
  <2> QED
    BY <1>1, <1>2, <1>3, <1>4, NoneAssumption DEF Claims, TypeOK
<1> QED
  BY <1>5 DEF MarkPublished, Visible

\* Seen through its reservations and its accepted objects, the gate takes the
\* steps of AcceptOnce: one payload for an event id, for ever, and no other is
\* ever published under it.
THEOREM GateImplementsAcceptOnce == Spec => ImplementsAcceptOnce
<1>1. Init => Abstract!Init
  BY DEF Init, Abstract!Init, Claims, Visible
<1>2. ASSUME TypeOK, GateInv, [Next]_vars
      PROVE  [Abstract!Next]_(Abstract!vars)
  <2>1. ASSUME NEW w \in Worker, Archive(w) \/ Quarantine(w) \/ Compare(w)
                                 \/ QuarantineConflict(w) \/ Fault(w)
        PROVE  UNCHANGED <<identity, object>>
    BY <2>1 DEF Archive, Quarantine, Compare, QuarantineConflict, Fault, stores
  <2>2. ASSUME NEW w \in Worker, NEW r \in Record, Deliver(w, r)
        PROVE  UNCHANGED <<identity, object>>
    BY <2>2 DEF Deliver, stores
  <2>3. ASSUME NEW r \in Record, GiveUp(r) PROVE UNCHANGED <<identity, object>>
    BY <2>3 DEF GiveUp, stores
  <2>4. UNCHANGED <<identity, object>> => UNCHANGED <<Claims, Visible>>
    BY DEF Claims, Visible
  <2>5. UNCHANGED <<Claims, Visible>> => UNCHANGED Abstract!vars
    BY DEF Abstract!vars
  <2> QED
    BY <1>2, <2>1, <2>2, <2>3, <2>4, <2>5, RefineReserve, RefinePublish, RefineMark
    DEF Next, Step, vars, stores
<1> QED
  BY <1>1, <1>2, GateTypeCorrect, GateAlways, PTL
  DEF Spec, ImplementsAcceptOnce, Abstract!Spec
=============================================================================
