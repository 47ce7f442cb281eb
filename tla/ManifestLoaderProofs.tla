------------------------- MODULE ManifestLoaderProofs -------------------------
(***************************************************************************)
(* Machine-checked proofs about ManifestLoader, for every set of           *)
(* deliveries, dates, revisions and invocations and every limit on the     *)
(* attempts at a notification.                                             *)
(***************************************************************************)
EXTENDS ManifestLoader, PublicationTableProofs

\* An invocation that read a sound manifest works on one settlement.
LEMMA SettlementFacts ==
  ASSUME NEW x \in Delivery, NEW m \in Manifest, m.sound
  PROVE  /\ Placed[x].key \in Key
         /\ SettlementOf(Placed[x].key, m) \in Settlement
         /\ SettlementOf(Placed[x].key, m).date = BusinessDate[Placed[x].key]
         /\ SettlementOf(Placed[x].key, m).revision = m.revision
         /\ SettlementOf(Placed[x].key, m).sha = m.sha
<1>1. Placed[x].key \in Key
  BY DEF Key
<1> QED
  BY <1>1, DeliveryAssumption DEF SettlementOf

-----------------------------------------------------------------------------
(* Types                                                                   *)

\* What an invocation holds at each label.
HoldsInv ==
  \A w \in Invocation :
    /\ pc[w] # "idle" => task[w] \in Delivery /\ fate[task[w]] # "unsent"
    /\ pc[w] \in {"read", "checked", "copied", "refused", "registered"} =>
         held[w] \in Manifest /\ held[w].sound
    /\ pc[w] = "checked" => version[w] = held[w].sha /\ version[w] \in File

\* A delivery that is notified has put its manifest.
NoticeInv ==
  /\ \A x \in Delivery : fate[x] # "unsent" => manifest[Placed[x].key] # None
  /\ \A x \in Delivery : placed[x] # "nothing" => data[Placed[x].key] # None
  /\ \A x \in Delivery : placed[x] = "manifest" <=> fate[x] # "unsent"

WellFormed == TypeOK /\ NoticeInv /\ HoldsInv

\* A delivery lies under a key that is a key.
LEMMA KeyFacts ==
  ASSUME NEW x \in Delivery
  PROVE  /\ Placed[x].key \in Key /\ Placed[x].key # None
         /\ Placed[x].file \in File /\ Placed[x].file # None
         /\ Placed[x].manifest \in Manifest /\ Placed[x].manifest # None
         /\ x # None
<1>1. Placed[x].key \in Key /\ Placed[x].file \in File /\ Placed[x].manifest \in Manifest
  BY DEF Key, File, Manifest
<1> QED
  BY <1>1, DeliveryAssumption

\* The settlement an invocation is about, once it has read its manifest.
LEMMA TargetFacts ==
  ASSUME WellFormed, NEW w \in Invocation,
         pc[w] \in {"read", "checked", "copied", "refused", "registered"}
  PROVE  /\ task[w] \in Delivery /\ KeyOf(w) \in Key
         /\ held[w] \in Manifest
         /\ Target(w) \in Settlement
         /\ Target(w).date = BusinessDate[KeyOf(w)]
         /\ Target(w).revision = held[w].revision
         /\ Target(w).sha = held[w].sha
<1>1. task[w] \in Delivery /\ held[w] \in Manifest /\ held[w].sound
  BY DEF WellFormed, HoldsInv
<1> QED
  BY <1>1, SettlementFacts DEF KeyOf, Target

\* Nothing is landed, verified or registered at first.
LEMMA FormInit == Init => WellFormed
<1> SUFFICES ASSUME Init PROVE WellFormed
  OBVIOUS
<1>1. TypeOK
  BY DeliveryAssumption DEF Init, TypeOK, RegistryInit, RegistryOK, LABELS, STAGES
<1>2. NoticeInv /\ HoldsInv
  BY DEF Init, NoticeInv, HoldsInv
<1> QED
  BY <1>1, <1>2 DEF WellFormed

\* A step that moves one invocation leaves what the others hold.
LEMMA LeaveForm ==
  ASSUME WellFormed, NEW w \in Invocation, Leave(w),
         \A x \in Delivery : fate[x] # "unsent" => fate'[x] # "unsent"
  PROVE  /\ pc' \in [Invocation -> LABELS]
         /\ task' \in [Invocation -> Delivery \cup {None}]
         /\ held' \in [Invocation -> Manifest \cup {None}]
         /\ version' \in [Invocation -> File \cup {None}]
         /\ HoldsInv'
BY DEF WellFormed, TypeOK, HoldsInv, Leave, LABELS, KeyOf

\* A notification that was handled leaves an idle invocation.
LEMMA HandledForm ==
  ASSUME WellFormed, NEW w \in Invocation, pc[w] # "idle", Handled(w)
  PROVE  /\ fate' \in [Delivery -> {"unsent", "open", "done", "dead"}]
         /\ NoticeInv'
         /\ \A x \in Delivery : fate[x] # "unsent" => fate'[x] # "unsent"
BY DEF WellFormed, TypeOK, HoldsInv, NoticeInv, Handled, Leave, landing

\* An invocation that gets on keeps what it holds.
LEMMA GotoForm ==
  ASSUME WellFormed, NEW w \in Invocation, pc[w] # "idle",
         NEW label \in {"copied", "refused", "registered"},
         pc[w] \in {"checked", "copied", "refused"},
         Goto(w, label), UNCHANGED <<task, held, version, fate>>
  PROVE  pc' \in [Invocation -> LABELS] /\ HoldsInv'
BY DEF WellFormed, TypeOK, HoldsInv, Goto, LABELS, KeyOf

\* An execution that enters a stage keeps the rest as it is.
LEMMA RunForm ==
  ASSUME WellFormed, NEW s \in Settlement, NEW label \in STAGES, Enter(s, label),
         UNCHANGED <<landing, verified, source, invocations, notices>>,
         marker' \subseteq Settlement, RegistryOK'
  PROVE  WellFormed'
<1>1. stage' \in [Settlement -> STAGES]
  BY DEF WellFormed, TypeOK, Enter
<1>2. TypeOK'
  BY <1>1 DEF WellFormed, TypeOK, landing, invocations, notices
<1>3. NoticeInv' /\ HoldsInv'
  BY DEF WellFormed, NoticeInv, HoldsInv, landing, invocations, notices, KeyOf
<1> QED
  BY <1>2, <1>3 DEF WellFormed

\* Every call of the handler and every stage keeps the state well formed.
LEMMA FormStep ==
  ASSUME WellFormed, [Next]_vars
  PROVE  WellFormed'
<1> USE DEF WellFormed
<1>1. ASSUME NEW x \in Delivery, PutData(x) PROVE WellFormed'
  <2>1. TypeOK'
    BY <1>1, KeyFacts DEF PutData, TypeOK, RegistryOK, executions, invocations, notices
  <2>2. NoticeInv'
    BY <1>1, KeyFacts DEF PutData, TypeOK, NoticeInv, notices
  <2>3. HoldsInv'
    BY <1>1 DEF PutData, HoldsInv, invocations, notices
  <2> QED
    BY <2>1, <2>2, <2>3
<1>2. ASSUME NEW x \in Delivery, PutManifest(x) PROVE WellFormed'
  <2>1. TypeOK'
    BY <1>2, KeyFacts DEF PutManifest, TypeOK, RegistryOK, executions, invocations
  <2>2. NoticeInv'
    BY <1>2, KeyFacts DEF PutManifest, TypeOK, NoticeInv
  <2>4. HoldsInv'
    BY <1>2 DEF PutManifest, TypeOK, HoldsInv, invocations
  <2> QED
    BY <2>1, <2>2, <2>4
<1>3. ASSUME NEW x \in Delivery, GiveUp(x) PROVE WellFormed'
  BY <1>3 DEF GiveUp, TypeOK, RegistryOK, NoticeInv, HoldsInv, landing, executions, invocations
<1>4. ASSUME NEW w \in Invocation, NEW x \in Delivery, Deliver(w, x) PROVE WellFormed'
  <2>1. attempts' \in [Delivery -> 0 .. MaxAttempts]
    BY <1>4, DeliveryAssumption DEF Deliver, TypeOK
  <2>2. TypeOK'
    BY <1>4, <2>1 DEF Deliver, TypeOK, RegistryOK, landing, executions, LABELS
  <2>3. NoticeInv'
    BY <1>4 DEF Deliver, NoticeInv, landing
  <2>4. HoldsInv'
    BY <1>4 DEF Deliver, TypeOK, NoticeInv, HoldsInv
  <2> QED
    BY <2>2, <2>3, <2>4
<1>5. ASSUME NEW w \in Invocation, ReadManifest(w) PROVE WellFormed'
  <2>1. task[w] \in Delivery /\ KeyOf(w) \in Key /\ manifest[KeyOf(w)] \in Manifest
    BY <1>5, KeyFacts DEF ReadManifest, TypeOK, NoticeInv, HoldsInv, KeyOf
  <2>2. TypeOK'
    BY <1>5, <2>1 DEF ReadManifest, TypeOK, RegistryOK, landing, executions, notices, Goto, LABELS
  <2>3. NoticeInv'
    BY <1>5 DEF ReadManifest, NoticeInv, landing, notices
  <2>4. HoldsInv'
    BY <1>5, <2>1 DEF ReadManifest, TypeOK, HoldsInv, notices, Goto
  <2> QED
    BY <2>2, <2>3, <2>4
<1>6. ASSUME NEW w \in Invocation, CheckData(w) PROVE WellFormed'
  <2>1. task[w] \in Delivery /\ KeyOf(w) \in Key /\ held[w] \in Manifest /\ held[w].sound
    BY <1>6, TargetFacts DEF CheckData, HoldsInv
  <2>2. TypeOK'
    BY <1>6, <2>1 DEF CheckData, TypeOK, RegistryOK, landing, executions, notices, Goto, LABELS
  <2>3. NoticeInv'
    BY <1>6 DEF CheckData, NoticeInv, landing, notices
  <2>4. data[KeyOf(w)] \in File
    BY <1>6, <2>1 DEF TypeOK, NoticeInv, HoldsInv, CheckData, KeyOf
  <2>5. HoldsInv'
    BY <1>6, <2>1, <2>4 DEF CheckData, TypeOK, HoldsInv, notices, Goto
  <2> QED
    BY <2>2, <2>3, <2>5
<1>7. ASSUME NEW w \in Invocation, CopyVersion(w) PROVE WellFormed'
  <2>1. Target(w) \in Settlement /\ version[w] \in File
    BY <1>7, TargetFacts DEF CopyVersion, HoldsInv
  <2>2. verified' \subseteq [settlement : Settlement, bytes : File]
    BY <1>7, <2>1 DEF CopyVersion, TypeOK
  <2>3. pc' \in [Invocation -> LABELS] /\ HoldsInv'
    BY <1>7, GotoForm DEF CopyVersion, notices
  <2> QED
    BY <1>7, <2>2, <2>3 DEF CopyVersion, TypeOK, RegistryOK, NoticeInv, landing, executions, notices
<1>8. ASSUME NEW w \in Invocation, RegisterRevision(w) PROVE WellFormed'
  <2>1. pc' \in [Invocation -> LABELS] /\ HoldsInv'
    BY <1>8, GotoForm DEF RegisterRevision, notices
  <2>2. RegistryOK'
    BY <1>8, TargetFacts, RegisterFacts DEF RegisterRevision, TypeOK, RegistryOK
  <2> QED
    BY <1>8, <2>1, <2>2 DEF RegisterRevision, TypeOK, NoticeInv, landing, executions, notices
<1>9. ASSUME NEW w \in Invocation, LookUp(w) PROVE WellFormed'
  <2>1. CASE Goto(w, "registered") /\ UNCHANGED <<landing, task, held, version, notices>>
    <3>1. pc' \in [Invocation -> LABELS] /\ HoldsInv'
      BY <1>9, <2>1, GotoForm DEF LookUp, notices
    <3> QED
      BY <1>9, <2>1, <3>1 DEF LookUp, TypeOK, RegistryOK, NoticeInv, landing, executions, notices
  <2>2. CASE Handled(w)
    <3>1. /\ fate' \in [Delivery -> {"unsent", "open", "done", "dead"}] /\ NoticeInv'
          /\ \A x \in Delivery : fate[x] # "unsent" => fate'[x] # "unsent"
      BY <1>9, <2>2, HandledForm DEF LookUp
    <3> QED
      BY <1>9, <2>2, <3>1, LeaveForm
      DEF LookUp, Handled, Leave, TypeOK, RegistryOK, landing, executions
  <2> QED
    BY <1>9, <2>1, <2>2 DEF LookUp
<1>10. ASSUME NEW w \in Invocation, StartExecution(w) PROVE WellFormed'
  <2>1. Target(w) \in Settlement /\ KeyOf(w) \in Key
    BY <1>10, TargetFacts DEF StartExecution
  <2>2. stage' \in [Settlement -> STAGES] /\ source' \in [Settlement -> Key \cup {None}]
    BY <1>10, <2>1 DEF StartExecution, TypeOK, STAGES
  <2>3. /\ fate' \in [Delivery -> {"unsent", "open", "done", "dead"}] /\ NoticeInv'
        /\ \A x \in Delivery : fate[x] # "unsent" => fate'[x] # "unsent"
    BY <1>10, HandledForm DEF StartExecution
  <2> QED
    BY <1>10, <2>2, <2>3, LeaveForm
    DEF StartExecution, Handled, Leave, TypeOK, RegistryOK, landing
<1>11. ASSUME NEW w \in Invocation, Fault(w) PROVE WellFormed'
  BY <1>11, LeaveForm DEF Fault, Leave, TypeOK, RegistryOK, NoticeInv, landing, executions
<1>12. CASE UNCHANGED vars
  BY <1>12 DEF vars, landing, executions, invocations, notices, TypeOK, RegistryOK, NoticeInv, HoldsInv
<1>13. ASSUME NEW s \in Settlement, Validate(s) PROVE WellFormed'
  BY <1>13, RunForm DEF Validate, STAGES, TypeOK, RegistryOK
<1>14. ASSUME NEW s \in Settlement, Process(s) PROVE WellFormed'
  BY <1>14, RunForm DEF Process, STAGES, TypeOK, RegistryOK
<1>15. ASSUME NEW s \in Settlement, WriteEvidence(s) PROVE WellFormed'
  BY <1>15, RunForm DEF WriteEvidence, STAGES, TypeOK, RegistryOK
<1>16. ASSUME NEW s \in Settlement, PublishGate(s) PROVE WellFormed'
  <2>1. RegistryOK'
    BY <1>16, ReconcileFacts DEF PublishGate, TypeOK, RegistryOK
  <2> QED
    BY <1>16, <2>1, RunForm DEF PublishGate, STAGES, TypeOK
<1>17. ASSUME NEW s \in Settlement, FailExecution(s) PROVE WellFormed'
  BY <1>17, RunForm DEF FailExecution, STAGES, TypeOK, RegistryOK
<1> QED
  BY <1>1, <1>2, <1>3, <1>4, <1>5, <1>6, <1>7, <1>8, <1>9, <1>10, <1>11, <1>12,
     <1>13, <1>14, <1>15, <1>16, <1>17 DEF Next, Step, Run

\* The state is always well formed.
LEMMA FormAlways == Spec => []WellFormed
BY FormInit, FormStep, PTL DEF Spec

\* The stores, invocations, notifications and executions of every behaviour are
\* well formed.
THEOREM LoaderTypeCorrect == Spec => []TypeOK
BY FormAlways, PTL DEF WellFormed

-----------------------------------------------------------------------------
(* What a registration commits to                                          *)

Bytes(s) == [settlement |-> s, bytes |-> s.sha]

\* The settlements that run, are active or are about to be started.
Committed(s) ==
  \/ stage[s] # "absent"
  \/ IsActive(s)
  \/ \E w \in Invocation : pc[w] = "registered" /\ Target(w) = s

\* The bucket never holds other bytes than its key says, and an invocation past
\* the copy has made it.
CopiesInv ==
  /\ \A v \in verified : v.bytes = v.settlement.sha
  /\ \A w \in Invocation :
       pc[w] \in {"copied", "refused", "registered"} => Bytes(Target(w)) \in verified

\* What is committed to is verified, is not ahead of the table, and is one
\* settlement for a revision.
CommitInv ==
  /\ \A s \in Settlement : Committed(s) =>
       /\ Bytes(s) \in verified
       /\ registry[s.date] # None /\ registry[s.date].revision >= s.revision
  /\ \A s, t \in Settlement :
       Committed(s) /\ Committed(t) /\ s.date = t.date /\ s.revision = t.revision => s = t

\* Evidence is written before the gate.
EvidenceInv == \A s \in Settlement : stage[s] \in {"gate", "published"} => s \in marker

LoaderInv == CopiesInv /\ CommitInv /\ EvidenceInv

\* A copy writes the bytes of the version that was checked, whatever was landed since.
LEMMA CopiesStep ==
  ASSUME WellFormed, CopiesInv, [Next]_vars
  PROVE  /\ CopiesInv'
         /\ \A s \in Settlement : Bytes(s) \in verified => Bytes(s) \in verified'
<1>1. ASSUME NEW w \in Invocation, CopyVersion(w)
      PROVE  /\ CopiesInv'
             /\ \A s \in Settlement : Bytes(s) \in verified => Bytes(s) \in verified'
  <2>1. /\ Target(w) \in Settlement /\ version[w] = Target(w).sha
        /\ UNCHANGED <<task, held>>
    BY <1>1, TargetFacts DEF CopyVersion, WellFormed, HoldsInv
  <2>2. verified' = {v \in verified : v.settlement # Target(w)} \cup {Bytes(Target(w))}
    BY <1>1, <2>1 DEF CopyVersion, Bytes
  <2>3. \A s \in Settlement : Bytes(s) \in verified => Bytes(s) \in verified'
    BY <2>2 DEF Bytes
  <2>4. \A v \in verified' : v.bytes = v.settlement.sha
    BY <2>2 DEF Bytes, CopiesInv
  <2>5. \A v \in Invocation \ {w} : pc'[v] = pc[v]
    BY <1>1 DEF CopyVersion, Goto, WellFormed, TypeOK
  <2>6. \A v \in Invocation : Target(v)' = Target(v)
    BY <2>1 DEF Target, KeyOf
  <2>7. \A v \in Invocation \ {w} : pc[v] \in {"copied", "refused", "registered"} =>
          Bytes(Target(v)) \in verified /\ Target(v) \in Settlement
    BY TargetFacts DEF CopiesInv
  <2>8. Bytes(Target(w)) \in verified'
    BY <2>2
  <2> QED
    BY <2>3, <2>4, <2>5, <2>6, <2>7, <2>8 DEF CopiesInv
<1>2. ASSUME NEW w \in Invocation, UNCHANGED verified,
             Leave(w) \/ \E label \in {"received", "read", "checked"} :
                           Goto(w, label) /\ \A v \in Invocation \ {w} :
                                               task'[v] = task[v] /\ held'[v] = held[v]
      PROVE  CopiesInv'
  BY <1>2 DEF CopiesInv, WellFormed, TypeOK, Leave, Goto, Target, KeyOf
<1>3. ASSUME NEW w \in Invocation, pc[w] \in {"copied", "refused"},
             UNCHANGED <<verified, task, held>>,
             NEW label \in {"refused", "registered"}, Goto(w, label)
      PROVE  CopiesInv'
  BY <1>3 DEF CopiesInv, WellFormed, TypeOK, Goto, Target, KeyOf
<1>4. ASSUME UNCHANGED <<verified, invocations>> PROVE CopiesInv'
  BY <1>4 DEF CopiesInv, invocations, Target, KeyOf
<1>5. ASSUME NEW x \in Delivery, PutData(x) \/ PutManifest(x) \/ GiveUp(x)
      PROVE  UNCHANGED <<verified, invocations>>
  BY <1>5 DEF PutData, PutManifest, GiveUp
<1>6. ASSUME NEW s \in Settlement, Run(s) PROVE UNCHANGED <<verified, invocations>>
  BY <1>6 DEF Run, Validate, Process, WriteEvidence, PublishGate, FailExecution
<1>7. ASSUME NEW w \in Invocation, NEW x \in Delivery, Deliver(w, x)
      PROVE  CopiesInv' /\ UNCHANGED verified
  BY <1>7 DEF Deliver, CopiesInv, WellFormed, TypeOK, Target, KeyOf
<1>8. ASSUME NEW w \in Invocation, ReadManifest(w) \/ CheckData(w)
      PROVE  CopiesInv' /\ UNCHANGED verified
  BY <1>2, <1>8 DEF ReadManifest, CheckData, WellFormed, TypeOK
<1>9. ASSUME NEW w \in Invocation, RegisterRevision(w)
      PROVE  CopiesInv' /\ UNCHANGED verified
  BY <1>3, <1>9 DEF RegisterRevision
<1>10. ASSUME NEW w \in Invocation, LookUp(w) \/ StartExecution(w) \/ Fault(w)
       PROVE  CopiesInv' /\ UNCHANGED verified
  BY <1>2, <1>3, <1>10 DEF LookUp, StartExecution, Fault, Handled
<1>11. CASE UNCHANGED vars
  BY <1>4, <1>11 DEF vars
<1> QED
  BY <1>1, <1>4, <1>5, <1>6, <1>7, <1>8, <1>9, <1>10, <1>11 DEF Next, Step

\* The table only moves to newer revisions.
LEMMA RegistryGrows ==
  ASSUME WellFormed, [Next]_vars, NEW d \in Date, registry[d] # None
  PROVE  /\ registry'[d] # None
         /\ registry'[d].revision >= registry[d].revision
<1>0. registry[d].revision \in Nat
  BY DEF WellFormed, TypeOK, RegistryOK, Item
<1>1. ASSUME NEW w \in Invocation, RegisterRevision(w), registry' # registry
      PROVE  registry'[d] # None /\ registry'[d].revision >= registry[d].revision
  <2>1. Target(w) \in Settlement /\ Register(Target(w)) /\ Newer(Target(w))
    BY <1>1, TargetFacts DEF RegisterRevision
  <2>2. /\ registry'[Target(w).date] # None
        /\ registry'[Target(w).date].revision = Target(w).revision
        /\ \A e \in Date \ {Target(w).date} : registry'[e] = registry[e]
    BY <2>1, RegisterFacts DEF WellFormed, TypeOK
  <2>3. d = Target(w).date => registry[d].revision < Target(w).revision
    BY <2>1 DEF Newer
  <2>4. Target(w).revision \in Nat
    BY <2>1, PartFacts
  <2> HIDE DEF Target
  <2> QED
    BY <1>0, <2>2, <2>3, <2>4
<1>2. ASSUME NEW s \in Settlement, PublishGate(s), registry' # registry
      PROVE  registry'[d] # None /\ registry'[d].revision >= registry[d].revision
  BY <1>0, <1>2, ReconcileFacts, PartFacts DEF PublishGate, IsActive, WellFormed, TypeOK
<1>3. registry' # registry =>
        \/ \E w \in Invocation : RegisterRevision(w)
        \/ \E s \in Settlement : PublishGate(s)
  BY DEF Next, Step, Run, vars, PutData, PutManifest, GiveUp, Deliver, ReadManifest,
         CheckData, CopyVersion, LookUp, StartExecution, Fault, Validate, Process,
         WriteEvidence, FailExecution
<1> QED
  BY <1>0, <1>1, <1>2, <1>3

\* The only way to become committed to is a registration of a newer revision.
LEMMA CommittedFrom ==
  ASSUME WellFormed, [Next]_vars, NEW s \in Settlement, Committed(s)'
  PROVE  \/ Committed(s)
         \/ /\ Newer(s)
            /\ registry'[s.date].revision = s.revision /\ registry'[s.date].sha = s.sha
            /\ \E w \in Invocation : Target(w) = s /\ pc[w] = "copied" /\ RegisterRevision(w)
<1> DEFINE Goal ==
      \/ Committed(s)
      \/ /\ Newer(s)
         /\ registry'[s.date].revision = s.revision /\ registry'[s.date].sha = s.sha
         /\ \E w \in Invocation : Target(w) = s /\ pc[w] = "copied" /\ RegisterRevision(w)
<1>1. ASSUME NEW w \in Invocation, RegisterRevision(w) PROVE Goal
  <2>1. /\ Target(w) \in Settlement /\ UNCHANGED <<stage, task, held>>
        /\ pc[w] = "copied"
    BY <1>1, TargetFacts DEF RegisterRevision, executions
  <2>2. \A v \in Invocation : Target(v)' = Target(v)
    BY <2>1 DEF Target, KeyOf
  <2>3. CASE ~Newer(Target(w))
    <3>1. UNCHANGED registry /\ \A v \in Invocation : pc'[v] = "registered" => pc[v] = "registered"
      BY <1>1, <2>3 DEF RegisterRevision, Goto, WellFormed, TypeOK
    <3> QED
      BY <2>1, <2>2, <3>1 DEF Committed, IsActive
  <2>4. CASE Newer(Target(w))
    <3>1. Register(Target(w))
          /\ \A v \in Invocation \ {w} : pc'[v] = "registered" => pc[v] = "registered"
      BY <1>1, <2>4 DEF RegisterRevision, Goto, WellFormed, TypeOK
    <3>2. /\ registry'[Target(w).date].revision = Target(w).revision
          /\ registry'[Target(w).date].sha = Target(w).sha
          /\ \A d \in Date \ {Target(w).date} : registry'[d] = registry[d]
      BY <2>1, <3>1, RegisterFacts DEF WellFormed, TypeOK
    <3>3. CASE s = Target(w)
      BY <1>1, <2>1, <2>4, <3>2, <3>3
    <3>4. CASE s # Target(w)
      <4>1. s.date \in Date /\ (IsActive(s)' => IsActive(s))
        BY <2>1, <3>2, <3>4, PartFacts, SamePartsSame DEF IsActive
      <4> QED
        BY <2>1, <2>2, <3>1, <3>4, <4>1 DEF Committed
    <3> QED
      BY <3>3, <3>4
  <2> QED
    BY <2>3, <2>4
<1>2. ASSUME NEW w \in Invocation, LookUp(w) PROVE Goal
  <2>1. CASE Goto(w, "registered") /\ IsActive(Target(w)) /\ UNCHANGED <<task, held>>
    <3>1. \A v \in Invocation : Target(v)' = Target(v)
      BY <2>1 DEF Target, KeyOf
    <3>2. \A v \in Invocation \ {w} : pc'[v] = pc[v]
      BY <2>1 DEF Goto, WellFormed, TypeOK
    <3>3. UNCHANGED <<registry, stage>>
      BY <1>2 DEF LookUp, executions
    <3> QED
      BY <2>1, <3>1, <3>2, <3>3 DEF Committed, IsActive
  <2>2. CASE Handled(w)
    BY <1>2, <2>2 DEF LookUp, Handled, Leave, executions, Committed, IsActive, Target, KeyOf,
                      WellFormed, TypeOK
  <2> QED
    BY <1>2, <2>1, <2>2 DEF LookUp
<1>3. ASSUME NEW w \in Invocation, StartExecution(w) PROVE Goal
  <2>1. \A v \in Invocation : pc'[v] = "registered" => pc[v] = "registered" /\ Target(v)' = Target(v)
    BY <1>3 DEF StartExecution, Handled, Leave, Target, KeyOf, WellFormed, TypeOK
  <2>2. stage'[s] # "absent" => stage[s] # "absent" \/ s = Target(w)
    BY <1>3 DEF StartExecution, WellFormed, TypeOK
  <2>3. UNCHANGED registry /\ pc[w] = "registered"
    BY <1>3 DEF StartExecution
  <2> QED
    BY <2>1, <2>2, <2>3 DEF Committed, IsActive
<1>4. ASSUME NEW w \in Invocation, NEW x \in Delivery, Deliver(w, x) PROVE Goal
  BY <1>4 DEF Deliver, executions, Committed, IsActive, Target, KeyOf, WellFormed, TypeOK
<1>5. ASSUME NEW w \in Invocation, ReadManifest(w) \/ CheckData(w) \/ CopyVersion(w)
      PROVE  Goal
  BY <1>5 DEF ReadManifest, CheckData, CopyVersion, Goto, executions, Committed, IsActive,
              Target, KeyOf, WellFormed, TypeOK
<1>6. ASSUME NEW w \in Invocation, Fault(w) PROVE Goal
  BY <1>6 DEF Fault, Leave, executions, Committed, IsActive, Target, KeyOf, WellFormed, TypeOK
<1>7. ASSUME NEW x \in Delivery, PutData(x) \/ PutManifest(x) \/ GiveUp(x) PROVE Goal
  BY <1>7 DEF PutData, PutManifest, GiveUp, executions, invocations, Committed, IsActive,
              Target, KeyOf
<1>8. ASSUME NEW t \in Settlement, Run(t) PROVE Goal
  <2>1. stage'[s] # "absent" => stage[s] # "absent"
    BY <1>8 DEF Run, Validate, Process, WriteEvidence, PublishGate, FailExecution, Enter,
                WellFormed, TypeOK
  <2>2. UNCHANGED invocations
    BY <1>8 DEF Run, Validate, Process, WriteEvidence, PublishGate, FailExecution
  <2>3. IsActive(s)' => IsActive(s)
    <3>1. CASE UNCHANGED registry
      BY <3>1 DEF IsActive
    <3>2. CASE IsActive(t) /\ MarkReconciled(t.date)
      <4>1. /\ registry[t.date] # None
            /\ registry[t.date].revision = registry'[t.date].revision
            /\ registry[t.date].sha = registry'[t.date].sha
            /\ \A d \in Date \ {t.date} : registry'[d] = registry[d]
        BY <3>2, ReconcileFacts DEF WellFormed, TypeOK, IsActive
      <4> QED
        BY <4>1, PartFacts DEF IsActive
    <3> QED
      BY <1>8, <3>1, <3>2 DEF Run, Validate, Process, WriteEvidence, PublishGate, FailExecution
  <2> QED
    BY <2>1, <2>2, <2>3 DEF Committed, invocations, Target, KeyOf
<1>9. CASE UNCHANGED vars
  BY <1>9 DEF vars, executions, invocations, Committed, IsActive, Target, KeyOf
<1> QED
  BY <1>1, <1>2, <1>3, <1>4, <1>5, <1>6, <1>7, <1>8, <1>9 DEF Next, Step

\* A revision that was won keeps its content.
LEMMA CommitStep ==
  ASSUME WellFormed, CopiesInv, CommitInv, [Next]_vars
  PROVE  CommitInv'
<1> DEFINE New(s) ==
      /\ Newer(s)
      /\ registry'[s.date].revision = s.revision /\ registry'[s.date].sha = s.sha
      /\ \E w \in Invocation : Target(w) = s /\ pc[w] = "copied" /\ RegisterRevision(w)
<1>1. \A s \in Settlement : Committed(s)' => Committed(s) \/ New(s)
  BY CommittedFrom
<1>2. ASSUME NEW s \in Settlement, Committed(s)'
      PROVE  /\ Bytes(s) \in verified'
             /\ registry'[s.date] # None /\ registry'[s.date].revision >= s.revision
  <2>1. s.date \in Date /\ s.revision \in Nat
    BY PartFacts
  <2>2. CASE Committed(s)
    <3>1. /\ Bytes(s) \in verified
          /\ registry[s.date] # None /\ registry[s.date].revision >= s.revision
      BY <2>2 DEF CommitInv
    <3>2. registry'[s.date] # None /\ registry'[s.date].revision >= registry[s.date].revision
      BY <2>1, <3>1, RegistryGrows
    <3>3. registry[s.date].revision \in Nat /\ registry'[s.date].revision \in Nat
      BY <2>1, <3>1, <3>2, FormStep DEF WellFormed, TypeOK, RegistryOK, Item
    <3> QED
      BY <2>1, <3>1, <3>2, <3>3, CopiesStep
  <2>3. CASE New(s)
    <3>1. PICK w \in Invocation : Target(w) = s /\ pc[w] = "copied" /\ RegisterRevision(w)
      BY <2>3
    <3>2. Register(s)
      BY <2>3, <3>1 DEF RegisterRevision
    <3>3. registry'[s.date] # None
      BY <3>2, RegisterFacts DEF WellFormed, TypeOK
    <3>4. Bytes(s) \in verified
      BY <3>1 DEF CopiesInv
    <3> QED
      BY <2>1, <2>3, <3>3, <3>4, CopiesStep
  <2> QED
    BY <1>1, <1>2, <2>2, <2>3
<1>3. ASSUME NEW s \in Settlement, NEW t \in Settlement, Committed(s)', Committed(t)',
             s.date = t.date, s.revision = t.revision
      PROVE  s = t
  <2>1. s.date \in Date /\ s.revision \in Nat
    BY PartFacts
  <2>2. \A r \in Settlement : Committed(r) =>
          /\ registry[r.date] # None /\ registry[r.date].revision >= r.revision
          /\ registry[r.date].revision \in Nat
    BY PartFacts DEF CommitInv, WellFormed, TypeOK, RegistryOK, Item
  <2>3. CASE Committed(s) /\ Committed(t)
    BY <1>3, <2>3 DEF CommitInv
  <2>4. CASE Committed(s) /\ New(t)
    BY <1>3, <2>1, <2>2, <2>4 DEF Newer
  <2>5. CASE New(s) /\ Committed(t)
    BY <1>3, <2>1, <2>2, <2>5 DEF Newer
  <2>6. CASE New(s) /\ New(t)
    BY <1>3, <2>6, SamePartsSame
  <2> QED
    BY <1>1, <1>3, <2>3, <2>4, <2>5, <2>6
<1> HIDE DEF New
<1> QED
  BY <1>2, <1>3 DEF CommitInv

\* An execution at the gate has written its evidence.
LEMMA EvidenceStep ==
  ASSUME WellFormed, EvidenceInv, [Next]_vars
  PROVE  EvidenceInv'
<1>1. ASSUME NEW s \in Settlement, Run(s) PROVE EvidenceInv'
  BY <1>1 DEF Run, Validate, Process, WriteEvidence, PublishGate, FailExecution, Enter,
              EvidenceInv, WellFormed, TypeOK
<1>2. ASSUME NEW w \in Invocation, StartExecution(w) PROVE EvidenceInv'
  BY <1>2 DEF StartExecution, EvidenceInv, WellFormed, TypeOK
<1>3. UNCHANGED <<stage, marker>> => EvidenceInv'
  BY DEF EvidenceInv
<1>4. \/ UNCHANGED <<stage, marker>>
      \/ \E w \in Invocation : StartExecution(w)
      \/ \E s \in Settlement : Run(s)
  BY DEF Next, Step, vars, executions, PutData, PutManifest, GiveUp, Deliver, ReadManifest,
         CheckData, CopyVersion, RegisterRevision, LookUp, Fault
<1> QED
  BY <1>1, <1>2, <1>3, <1>4

\* The inductive invariant of the loader.
LEMMA LoaderAlways == Spec => []LoaderInv
<1>1. Init => LoaderInv
  <2> SUFFICES ASSUME Init PROVE LoaderInv
    OBVIOUS
  <2>1. \A s \in Settlement : ~Committed(s)
    BY PartFacts DEF Init, RegistryInit, Committed, IsActive
  <2> QED
    BY <2>1 DEF Init, LoaderInv, CopiesInv, CommitInv, EvidenceInv
<1>2. WellFormed /\ LoaderInv /\ [Next]_vars => LoaderInv'
  BY CopiesStep, CommitStep, EvidenceStep DEF LoaderInv
<1> QED
  BY <1>1, <1>2, FormAlways, PTL DEF Spec

\* What an execution processes are the bytes of its checksum, although the
\* landing object may be replaced between any two calls of the handler.
THEOREM LoaderProcessesVerifiedBytes == Spec => []ProcessesVerifiedBytes
<1>1. LoaderInv => ProcessesVerifiedBytes
  BY DEF LoaderInv, CommitInv, CopiesInv, Committed, Bytes, ProcessesVerifiedBytes
<1> QED
  BY <1>1, LoaderAlways, PTL

\* However many files claim a revision, at most one of them is ever processed.
THEOREM RevisionHasOneContent == Spec => []OneContentPerRevision
<1>1. LoaderInv => OneContentPerRevision
  BY DEF LoaderInv, CommitInv, Committed, OneContentPerRevision
<1> QED
  BY <1>1, LoaderAlways, PTL

\* The history of a behaviour: the settlements the table has held at some moment.
\* It is written beside the steps and none of them depends on it.
VARIABLE activated

Remember == activated' = activated \cup {s \in Settlement : IsActive(s)'}

HistorySpec ==
  /\ Init /\ activated = {}
  /\ [][Next /\ Remember]_<<vars, activated>>

\* What runs, is active or is about to be started has been active.
RememberedInv == \A s \in Settlement : Committed(s) => s \in activated

\* Nothing runs for a settlement that was never the active one of its date: an
\* execution is the consequence of a registration that was won, of this very
\* content, even when a stale notification, a rival file or a lost answer comes
\* between the two.
StartedWasActive == \A s \in Settlement : stage[s] # "absent" => s \in activated

\* Recording the history restricts nothing.
LEMMA HistoryIsSpec == HistorySpec => Spec
<1>1. [Next /\ Remember]_<<vars, activated>> => [Next]_vars
  OBVIOUS
<1> QED
  BY <1>1, PTL DEF HistorySpec, Spec

\* Only a registration commits to a settlement, and it makes it active.
LEMMA RememberedStep ==
  ASSUME WellFormed, CommitInv, RememberedInv, Next, Remember
  PROVE  RememberedInv'
<1> SUFFICES ASSUME NEW s \in Settlement, Committed(s)'
             PROVE  s \in activated'
  BY DEF RememberedInv
<1>1. CASE Committed(s)
  BY <1>1 DEF RememberedInv, Remember
<1>2. CASE /\ registry'[s.date].revision = s.revision /\ registry'[s.date].sha = s.sha
           /\ \E w \in Invocation : Target(w) = s /\ RegisterRevision(w)
           /\ Newer(s)
  <2>1. Register(s)
    BY <1>2 DEF RegisterRevision
  <2>2. registry'[s.date] # None
    BY <2>1, RegisterFacts DEF WellFormed, TypeOK
  <2>3. IsActive(s)'
    BY <1>2, <2>2 DEF IsActive
  <2> QED
    BY <2>3 DEF Remember
<1> QED
  BY <1>1, <1>2, CommittedFrom

\* Every execution that was started is one of a settlement the table has held.
THEOREM OnlyActivatedSettlementsRun == HistorySpec => []StartedWasActive
<1>1. Init /\ activated = {} => RememberedInv
  <2> SUFFICES ASSUME Init PROVE \A s \in Settlement : ~Committed(s)
    BY DEF RememberedInv
  <2> QED
    BY PartFacts DEF Init, RegistryInit, Committed, IsActive
<1>2. WellFormed /\ LoaderInv /\ RememberedInv /\ [Next /\ Remember]_<<vars, activated>>
      => RememberedInv'
  <2>1. CASE UNCHANGED <<vars, activated>>
    BY <2>1 DEF RememberedInv, Committed, IsActive, Target, KeyOf, vars, executions, invocations
  <2> QED
    BY <2>1, RememberedStep DEF LoaderInv
<1>3. RememberedInv => StartedWasActive
  BY DEF RememberedInv, StartedWasActive, Committed
<1> QED
  BY <1>1, <1>2, <1>3, HistoryIsSpec, FormAlways, LoaderAlways, PTL DEF HistorySpec

\* A redelivered notification never runs an execution again that has ended.
THEOREM ExecutionsDecidedOnce == Spec => DecidedOnce
<1>1. ASSUME WellFormed, [Next]_vars, NEW s \in Settlement, stage[s] \in ENDED
      PROVE  stage'[s] = stage[s]
  <2>1. ASSUME NEW w \in Invocation, StartExecution(w) PROVE stage'[s] = stage[s]
    BY <1>1, <2>1 DEF StartExecution, WellFormed, TypeOK, ENDED
  <2>2. ASSUME NEW t \in Settlement, Run(t) PROVE stage'[s] = stage[s]
    BY <1>1, <2>2 DEF Run, Validate, Process, WriteEvidence, PublishGate, FailExecution, Enter,
                      WellFormed, TypeOK, ENDED
  <2>3. \/ UNCHANGED stage
        \/ \E w \in Invocation : StartExecution(w)
        \/ \E t \in Settlement : Run(t)
    BY <1>1 DEF Next, Step, vars, executions, PutData, PutManifest, GiveUp, Deliver, ReadManifest,
           CheckData, CopyVersion, RegisterRevision, LookUp, Fault
  <2> QED
    BY <2>1, <2>2, <2>3
<1>2. WellFormed /\ [Next]_vars
      => [\A s \in Settlement : stage[s] \in ENDED => stage'[s] = stage[s]]_vars
  BY <1>1
<1> QED
  BY <1>2, FormAlways, PTL DEF Spec, DecidedOnce

-----------------------------------------------------------------------------
(* Implementation of PublicationGate                                       *)

Active == [d \in Date |-> ActiveSettlement(d)]
Done   == {d \in Date : Reconciled(d)}

\* A registration activates the settlement.
LEMMA RefineRegister ==
  ASSUME WellFormed, NEW s \in Settlement, Newer(s), Register(s), UNCHANGED marker
  PROVE  Gate!Activate(s)
<1>1. /\ registry'[s.date] # None /\ s.date \in Date
      /\ registry'[s.date].revision = s.revision /\ registry'[s.date].sha = s.sha
      /\ registry'[s.date].status = "PROCESSING"
      /\ \A d \in Date \ {s.date} : registry'[d] = registry[d]
  BY RegisterFacts, PartFacts DEF WellFormed, TypeOK
<1>2. Active[s.date] = None \/ Active[s.date].revision < s.revision
  BY <1>1 DEF Newer, Active, ActiveSettlement
<1>3. ActiveSettlement(s.date)' = s
  BY <1>1, SettlementAssumption DEF ActiveSettlement
<1>4. Active' = [Active EXCEPT ![s.date] = s]
  BY <1>1, <1>3 DEF Active, ActiveSettlement
<1>5. Done' = Done \ {s.date}
  BY <1>1 DEF Done, Reconciled
<1> QED
  BY <1>2, <1>4, <1>5 DEF Gate!Activate, Active, Done

\* The gate reconciles the date of the active settlement that passed.
LEMMA RefineReconcile ==
  ASSUME WellFormed, NEW s \in Settlement, IsActive(s), MarkReconciled(s.date), s \in marker,
         UNCHANGED marker
  PROVE  Gate!Reconcile(s.date)
<1>1. /\ registry'[s.date] # None /\ s.date \in Date
      /\ registry'[s.date].revision = s.revision /\ registry'[s.date].sha = s.sha
      /\ registry'[s.date].status = "RECONCILED"
      /\ \A d \in Date \ {s.date} : registry'[d] = registry[d]
  BY ReconcileFacts, PartFacts DEF WellFormed, TypeOK
<1>2. Active[s.date] = s
  BY <1>1, ActiveFacts DEF IsActive, Active
<1>3. Active' = Active
  BY <1>1 DEF IsActive, Active, ActiveSettlement
<1>4. Done' = Done \cup {s.date}
  BY <1>1 DEF Done, Reconciled
<1> QED
  BY <1>2, <1>3, <1>4 DEF Gate!Reconcile, Active, Done

\* Writing the evidence is passing.
LEMMA RefineEvidence ==
  ASSUME NEW s \in Settlement, marker' = marker \cup {s}, UNCHANGED registry
  PROVE  Gate!Pass(s)
BY DEF Gate!Pass, ActiveSettlement, Reconciled

\* Seen through the publication table and the evidence objects, loader and
\* executions take the steps of PublicationGate: the revision of a date only
\* grows, and the date is reconciled only for the active revision and on evidence.
THEOREM LoaderImplementsPublicationGate == Spec => ImplementsPublicationGate
<1>1. Init => Gate!Init
  BY DEF Init, RegistryInit, Gate!Init, ActiveSettlement, Reconciled
<1>2. UNCHANGED <<registry, marker>> => UNCHANGED Gate!vars
  BY DEF Gate!vars, ActiveSettlement, Reconciled
<1>3. ASSUME WellFormed, LoaderInv, [Next]_vars
      PROVE  [Gate!Next]_(Gate!vars)
  <2>1. ASSUME NEW w \in Invocation, RegisterRevision(w)
        PROVE  [Gate!Next]_(Gate!vars)
    <3>1. Target(w) \in Settlement /\ UNCHANGED marker
      BY <1>3, <2>1, TargetFacts DEF RegisterRevision, executions
    <3>2. CASE ~Newer(Target(w))
      BY <1>2, <2>1, <3>1, <3>2 DEF RegisterRevision
    <3>3. CASE Newer(Target(w))
      <4>1. Gate!Activate(Target(w))
        BY <1>3, <2>1, <3>1, <3>3, RefineRegister DEF RegisterRevision
      <4> QED
        BY <3>1, <4>1 DEF Gate!Next
    <3> QED
      BY <3>2, <3>3
  <2>2. ASSUME NEW s \in Settlement, PublishGate(s)
        PROVE  [Gate!Next]_(Gate!vars)
    <3>1. s \in marker /\ UNCHANGED marker
      BY <1>3, <2>2 DEF PublishGate, LoaderInv, EvidenceInv
    <3>2. CASE IsActive(s)
      <4>1. Gate!Reconcile(s.date)
        BY <1>3, <2>2, <3>1, <3>2, RefineReconcile DEF PublishGate
      <4> QED
        BY <4>1, PartFacts DEF Gate!Next
    <3>3. CASE ~IsActive(s)
      BY <1>2, <2>2, <3>1, <3>3 DEF PublishGate
    <3> QED
      BY <3>2, <3>3
  <2>3. ASSUME NEW s \in Settlement, WriteEvidence(s)
        PROVE  [Gate!Next]_(Gate!vars)
    BY <2>3, RefineEvidence DEF WriteEvidence, Gate!Next
  <2>4. \/ UNCHANGED <<registry, marker>>
        \/ \E w \in Invocation : RegisterRevision(w)
        \/ \E s \in Settlement : PublishGate(s) \/ WriteEvidence(s)
    BY <1>3 DEF Next, Step, Run, vars, executions, PutData, PutManifest, GiveUp, Deliver,
                ReadManifest, CheckData, CopyVersion, LookUp, StartExecution, Fault, Validate,
                Process, FailExecution
  <2> QED
    BY <1>2, <2>1, <2>2, <2>3, <2>4
<1> QED
  BY <1>1, <1>3, FormAlways, LoaderAlways, PTL DEF Spec, ImplementsPublicationGate, Gate!Spec
=============================================================================
