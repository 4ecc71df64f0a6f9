-------------------------- MODULE SourceMemoryProofs --------------------------
(***************************************************************************)
(* Proofs about SourceMemory for every set of documents, answers, contents *)
(* and processes.                                                          *)
(*                                                                         *)
(* Every command may overlap every other.  What the commands in flight     *)
(* know of the workspace is stated for those that met no other (a prune)   *)
(* or of the documents nobody touched (an ingest).                         *)
(***************************************************************************)
EXTENDS SourceMemory, FiniteSetTheorems, TLAPS

-----------------------------------------------------------------------------
(* The kind of job a step belongs to.                                       *)

(* A process at an ingest step runs an ingest, and so on: the steps of the  *)
(* three commands are disjoint (operations/service.py).                     *)
LEMMA StepKinds ==
  ASSUME TypeOK, NEW p \in Procs
  PROVE  /\ At(p, "bytes") => job[p] \in IngestStep("bytes", {Absent}, {Absent}, {Absent})
         /\ At(p, "text") => job[p] \in IngestStep("text", Documents, Contents, {Absent})
         /\ At(p, "record") => job[p] \in IngestStep("record", Documents, Contents, Contents)
         /\ At(p, "answer") => job[p] \in AnswerJobs
         /\ At(p, "count") \/ At(p, "delete") \/ At(p, "bury") => job[p] \in PruneJobs
<1>1. job[p] \in IngestJobs \cup AnswerJobs \cup PruneJobs \cup {Absent}
  BY DEF TypeOK
<1>2. CASE job[p] = Absent
  BY <1>2 DEF At, Idle
<1>3. CASE job[p] \in IngestJobs
  BY <1>3 DEF At, IngestJobs, IngestStep
<1>4. CASE job[p] \in AnswerJobs
  BY <1>4 DEF At, AnswerJobs, IngestStep
<1>5. CASE job[p] \in PruneJobs
  BY <1>5 DEF At, PruneJobs, IngestStep
<1>6. QED  BY <1>1, <1>2, <1>3, <1>4, <1>5

-----------------------------------------------------------------------------
(* Type correctness.                                                        *)

Kinds == {"ingest", "fileback", "prune"}
Jobs == IngestJobs \cup AnswerJobs \cup PruneJobs \cup {Absent}

HistoryOK ==
  /\ met \in [Procs -> SUBSET Kinds]
  /\ disturbed \in [Procs -> SUBSET Documents]
  /\ torn \subseteq Documents /\ stolen \subseteq Contents /\ buried \subseteq Artifacts

DataOK ==
  /\ source \in [Documents -> Contents \cup {Absent}]
  /\ edits \in 0..MaxEdits
  /\ raw \subseteq Contents
  /\ records \in [Documents -> Stored \cup {Absent}]
  /\ answers \in [Answers -> Contents \cup {Absent}]
  /\ tombstones \subseteq Artifacts
  /\ job \in [Procs -> Jobs]

LEMMA TypeParts == TypeOK <=> DataOK /\ HistoryOK
BY DEF TypeOK, DataOK, HistoryOK, Jobs, Kinds

LEMMA TypeInit == Init => TypeOK
BY SourceAssumption DEF Init, TypeOK

LEMMA DataNext == TypeOK /\ [Next]_vars => DataOK'
<1> SUFFICES ASSUME TypeOK, [Next]_vars  PROVE DataOK'
  OBVIOUS
<1> USE DEF DataOK
<1> job \in [Procs -> Jobs]
  BY DEF TypeOK, Jobs
<1>1. ASSUME NEW d \in Documents, NEW c \in Contents \cup {Absent}, Edit(d, c)
      PROVE  DataOK'
  <2>1. edits' \in 0..MaxEdits
    BY <1>1, SourceAssumption DEF Edit, TypeOK
  <2>2. QED  BY <1>1, <2>1 DEF Edit, TypeOK, memory
<1>2. ASSUME NEW p \in Procs, Start(p)  PROVE DataOK'
  <2>1. ASSUME NEW state \in Jobs, Begin(p, state)
        PROVE  job' \in [Procs -> Jobs]
    BY <2>1 DEF Begin, Idle
  <2>2. CASE BeginIngest(p)
    <3>1. PICK found \in SUBSET {d \in Documents : source[d] # Absent} :
            Begin(p, [kind |-> "ingest", step |-> "bytes",
                      found |-> found, todo |-> found, doc |-> Absent,
                      hash |-> Absent, text |-> Absent])
      BY <2>2 DEF BeginIngest
    <3>2. found \subseteq Documents
      OBVIOUS
    <3>3. job' \in [Procs -> Jobs]
      BY <3>1, <3>2, <2>1 DEF IngestJobs, IngestStep, Jobs
    <3>4. QED  BY <2>2, <3>3 DEF BeginIngest, TypeOK, user, memory
  <2>3. CASE BeginPrune(p)
    <3> DEFINE missing == {d \in Documents : records[d] # Absent /\ source[d] = Absent}
               plan == {[doc |-> d, hash |-> records[d].hash] : d \in missing}
    <3>1. plan \in SUBSET [doc : Documents, hash : Contents]
      BY DEF TypeOK, Stored
    <3> HIDE DEF plan
    <3>2. job' \in [Procs -> Jobs]
      BY <2>3, <3>1, <2>1 DEF BeginPrune, PruneJobs, plan, Jobs
    <3>3. QED  BY <2>3, <3>2 DEF BeginPrune, TypeOK, user, memory
  <2>4. ASSUME NEW a \in Answers, ResolveEvidence(p, a)  PROVE DataOK'
    <3>1. job' \in [Procs -> Jobs]
      BY <2>4, <2>1 DEF ResolveEvidence, AnswerJobs, TypeOK, Stored, Jobs
    <3>2. QED  BY <2>4, <3>1 DEF ResolveEvidence, TypeOK, user, memory
  <2>5. QED  BY <1>2, <2>2, <2>3, <2>4 DEF Start
<1>3. ASSUME NEW p \in Procs, Ingest(p)  PROVE DataOK'
  <2>1. ASSUME NEW d \in Documents, ReadBytes(p, d)  PROVE DataOK'
    <3>1. job[p] \in IngestStep("bytes", {Absent}, {Absent}, {Absent})
      BY <2>1, StepKinds DEF ReadBytes
    <3>2. source[d] \in Contents
      BY <2>1 DEF ReadBytes, TypeOK
    <3>3. job'[p] \in IngestStep("text", Documents, Contents, {Absent})
      BY <2>1, <3>1, <3>2 DEF ReadBytes, IngestStep
    <3>4. job' \in [Procs -> Jobs]
      BY <2>1, <3>3 DEF ReadBytes, IngestJobs, Jobs
    <3>5. QED  BY <2>1, <3>2, <3>4 DEF ReadBytes, TypeOK, user
  <2>2. CASE ReadText(p)
    <3>1. job[p] \in IngestStep("text", Documents, Contents, {Absent})
      BY <2>2, StepKinds DEF ReadText
    <3>2. job'[p] \in IngestStep("record", Documents, Contents, Contents)
      BY <2>2, <3>1 DEF ReadText, IngestStep, TypeOK
    <3>3. job' \in [Procs -> Jobs]
      BY <2>2, <3>2 DEF ReadText, IngestJobs, Jobs
    <3>4. QED  BY <2>2, <3>3 DEF ReadText, TypeOK, user, memory
  <2>3. CASE SourceGone(p)
    <3>1. QED  BY <2>3 DEF SourceGone, End, TypeOK, user, memory, Jobs
  <2>4. CASE StoreDocument(p)
    <3>1. job[p] \in IngestStep("record", Documents, Contents, Contents)
      BY <2>4, StepKinds DEF StoreDocument
    <3>2. job'[p] \in IngestStep("bytes", {Absent}, {Absent}, {Absent})
      BY <2>4, <3>1 DEF StoreDocument, NextDocument, IngestStep
    <3>3. job' \in [Procs -> Jobs]
      BY <2>4, <3>2 DEF StoreDocument, NextDocument, IngestJobs, Jobs
    <3>4. records' \in [Documents -> Stored \cup {Absent}]
      BY <2>4, <3>1 DEF StoreDocument, IngestStep, Stored, TypeOK
    <3>5. QED  BY <2>4, <3>3, <3>4 DEF StoreDocument, TypeOK, user
  <2>5. CASE KeepDocument(p)
    <3>1. job[p] \in IngestStep("record", Documents, Contents, Contents)
      BY <2>5, StepKinds DEF KeepDocument
    <3>2. job'[p] \in IngestStep("bytes", {Absent}, {Absent}, {Absent})
      BY <2>5, <3>1 DEF KeepDocument, NextDocument, IngestStep
    <3>3. job' \in [Procs -> Jobs]
      BY <2>5, <3>2 DEF KeepDocument, NextDocument, IngestJobs, Jobs
    <3>4. QED  BY <2>5, <3>3 DEF KeepDocument, TypeOK, user, memory
  <2>6. CASE EndIngest(p)
    BY <2>6 DEF EndIngest, End, TypeOK, user, memory, Jobs
  <2>7. QED  BY <1>3, <2>1, <2>2, <2>3, <2>4, <2>5, <2>6 DEF Ingest
<1>4. ASSUME NEW p \in Procs, StoreAnswer(p)  PROVE DataOK'
  <2>1. job[p] \in AnswerJobs
    BY <1>4, StepKinds DEF StoreAnswer
  <2>2. QED  BY <1>4, <2>1 DEF StoreAnswer, End, AnswerJobs, TypeOK, user, Jobs
<1>5. ASSUME NEW p \in Procs, Prune(p)  PROVE DataOK'
  <2>1. job[p] \in PruneJobs
    BY <1>5, StepKinds DEF Prune, CountReferences, DeleteRecord, DeleteSnapshot,
                           ReadTombstones, WriteTombstones
  <2>2. ASSUME job'[p] \in PruneJobs, job' = [job EXCEPT ![p] = job'[p]]
        PROVE  job' \in [Procs -> Jobs]
    BY <2>2 DEF Jobs
  <2>3. CASE CountReferences(p)
    <3> DEFINE snapshots == {c \in raw : References(c) = 1 /\ \E m \in job[p].plan : m.hash = c}
               todo == {Record(m.doc) : m \in job[p].plan} \cup {Snapshot(c) : c \in snapshots}
    <3>1. todo \in SUBSET Artifacts
      BY <2>1 DEF TypeOK, PruneJobs, Artifacts, Record, Snapshot
    <3>2. job' = [job EXCEPT ![p].step = "delete", ![p].todo = todo]
      BY <2>3 DEF CountReferences
    <3> HIDE DEF todo
    <3>3. job'[p] \in PruneJobs /\ job' = [job EXCEPT ![p] = job'[p]]
      BY <2>1, <3>1, <3>2 DEF PruneJobs
    <3>4. QED  BY <2>2, <2>3, <3>3 DEF CountReferences, TypeOK, user, memory
  <2>4. ASSUME NEW x \in Artifacts, NEW b, Deleted(p, x, b)  PROVE job' \in [Procs -> Jobs]
    <3>1. job'[p] \in PruneJobs /\ job' = [job EXCEPT ![p] = job'[p]]
      BY <2>1, <2>4 DEF PruneJobs, Deleted
    <3>2. QED  BY <2>2, <3>1
  <2>5. ASSUME NEW d \in Documents, DeleteRecord(p, d)  PROVE DataOK'
    <3>1. Record(d) \in Artifacts
      BY DEF Record, Artifacts
    <3>2. job' \in [Procs -> Jobs]
      BY <2>4, <2>5, <3>1 DEF DeleteRecord
    <3>3. QED  BY <2>5, <3>2 DEF DeleteRecord, TypeOK, user
  <2>6. ASSUME NEW c \in Contents, DeleteSnapshot(p, c)  PROVE DataOK'
    <3>1. Snapshot(c) \in Artifacts
      BY DEF Snapshot, Artifacts
    <3>2. job' \in [Procs -> Jobs]
      BY <2>4, <2>6, <3>1 DEF DeleteSnapshot
    <3>3. QED  BY <2>6, <3>2 DEF DeleteSnapshot, TypeOK, user
  <2>8. CASE ReadTombstones(p)
    <3>1. job'[p] \in PruneJobs /\ job' = [job EXCEPT ![p] = job'[p]]
      BY <2>1, <2>8 DEF PruneJobs, ReadTombstones, TypeOK
    <3>2. QED  BY <2>2, <2>8, <3>1 DEF ReadTombstones, TypeOK, user, memory
  <2>9. CASE WriteTombstones(p)
    BY <2>1, <2>9 DEF WriteTombstones, Bury, End, PruneJobs, TypeOK, user, memory, Jobs
  <2>10. QED  BY <1>5, <2>3, <2>5, <2>6, <2>8, <2>9 DEF Prune
<1>6. ASSUME NEW p \in Procs, Kill(p)  PROVE DataOK'
  BY <1>6 DEF Kill, End, TypeOK, user, memory, Jobs
<1>7. CASE UNCHANGED vars
  BY <1>7 DEF vars, user, memory, TypeOK
<1>8. QED  BY <1>1, <1>2, <1>3, <1>4, <1>5, <1>6, <1>7 DEF Next

(* Histories.  A step begins or ends a command, or disturbs ingests, or     *)
(* leaves met and disturbed alone.                                          *)
LEMMA HistoryNext == TypeOK /\ [Next]_vars => HistoryOK'
<1> SUFFICES ASSUME TypeOK, [Next]_vars  PROVE HistoryOK'
  OBVIOUS
<1> USE DEF HistoryOK
<1> HistoryOK /\ job \in [Procs -> Jobs]
  BY TypeParts DEF DataOK
<1>0. \A q \in Procs : ~Idle(q) => job[q].kind \in Kinds
  BY DEF Idle, Jobs, IngestJobs, IngestStep, AnswerJobs, PruneJobs, Kinds
<1>1. ASSUME NEW procs, NEW documents \in SUBSET Documents, Disturb(procs, documents)
      PROVE  disturbed' \in [Procs -> SUBSET Documents]
  BY <1>1 DEF Disturb
<1>2. ASSUME NEW p \in Procs, End(p)
      PROVE  met' \in [Procs -> SUBSET Kinds] /\ disturbed' \in [Procs -> SUBSET Documents]
  BY <1>2 DEF End
<1>3. ASSUME NEW p \in Procs, NEW state, Begin(p, state), state.kind \in Kinds  PROVE HistoryOK'
  <2>1. \A q \in Procs : met'[q] \subseteq Kinds
    BY <1>0, <1>3 DEF Begin
  <2>2. met' \in [Procs -> SUBSET Kinds]
    BY <1>3, <2>1 DEF Begin
  <2>3. QED  BY <1>3, <2>2 DEF Begin
<1>4. ASSUME NEW d \in Documents, NEW c \in Contents \cup {Absent}, Edit(d, c)
      PROVE  HistoryOK'
  BY <1>1, <1>4 DEF Edit
<1>5. ASSUME NEW p \in Procs, Start(p)  PROVE HistoryOK'
  BY <1>3, <1>5 DEF Start, BeginIngest, BeginPrune, ResolveEvidence, Kinds
<1>6. ASSUME NEW p \in Procs, Ingest(p)  PROVE HistoryOK'
  <2>1. CASE SourceGone(p) \/ EndIngest(p)
    BY <2>1, <1>2 DEF SourceGone, EndIngest
  <2>2. ASSUME NEW d \in Documents, ReadBytes(p, d)  PROVE HistoryOK'
    BY <2>2 DEF ReadBytes
  <2>3. CASE ReadText(p) \/ KeepDocument(p)
    BY <2>3 DEF ReadText, KeepDocument, history
  <2>4. CASE StoreDocument(p)
    <3>1. job[p].doc \in Documents
      BY <2>4, StepKinds DEF StoreDocument, IngestStep
    <3>2. QED  BY <1>1, <2>4, <3>1 DEF StoreDocument
  <2>5. QED  BY <1>6, <2>1, <2>2, <2>3, <2>4 DEF Ingest
<1>7. ASSUME NEW p \in Procs, StoreAnswer(p) \/ Kill(p)  PROVE HistoryOK'
  BY <1>2, <1>7 DEF StoreAnswer, Kill
<1>8. ASSUME NEW p \in Procs, Prune(p)  PROVE HistoryOK'
  <2>1. CASE CountReferences(p) \/ ReadTombstones(p)
    BY <2>1 DEF CountReferences, ReadTombstones, history
  <2>2. ASSUME NEW d \in Documents, DeleteRecord(p, d)  PROVE HistoryOK'
    BY <1>1, <2>2 DEF DeleteRecord
  <2>3. ASSUME NEW c \in Contents, DeleteSnapshot(p, c)  PROVE HistoryOK'
    <3>1. {d \in Documents : source[d] = c} \in SUBSET Documents
      OBVIOUS
    <3>2. QED  BY <1>1, <2>3, <3>1 DEF DeleteSnapshot
  <2>4. CASE WriteTombstones(p)
    <3>1. job[p] \in PruneJobs
      BY <2>4, StepKinds DEF WriteTombstones
    <3>2. QED  BY <1>2, <2>4, <3>1 DEF WriteTombstones, Bury, PruneJobs
  <2>5. QED  BY <1>8, <2>1, <2>2, <2>3, <2>4 DEF Prune
<1>9. CASE UNCHANGED vars
  BY <1>9 DEF vars, history
<1>10. QED  BY <1>4, <1>5, <1>6, <1>7, <1>8, <1>9 DEF Next

LEMMA TypeNext == TypeOK /\ [Next]_vars => TypeOK'
<1>1. TypeOK /\ [Next]_vars => (DataOK /\ HistoryOK)'
  BY DataNext, HistoryNext
<1>2. (DataOK /\ HistoryOK => TypeOK)'
  BY TypeParts, PTL
<1>3. QED  BY <1>1, <1>2

(* The type invariant holds in every reachable state: no command leaves a   *)
(* record, a snapshot or a tombstone list of another shape.                 *)
THEOREM TypeCorrect == Spec => []TypeOK
<1>1. QED  BY TypeInit, TypeNext, PTL DEF Spec

-----------------------------------------------------------------------------
(* Which commands overlap.                                                  *)

\* Every command that runs beside a prune is one it met.
Meets ==
  \A p, q \in Procs : p # q /\ Runs(p, "prune") /\ ~Idle(q) => job[q].kind \in met[p]

Kept(q) == ~Idle(q) /\ job'[q].kind = job[q].kind /\ (Runs(q, "prune") => met[q] \subseteq met'[q])
Begun(q) ==
  /\ Idle(q)
  /\ \A r \in Procs \ {q} :
       /\ job'[r] = job[r]
       /\ job'[q].kind = "prune" /\ ~Idle(r) => job[r].kind \in met'[q]
       /\ Runs(r, "prune") => job'[q].kind \in met'[r]

(* A step ends a process's command, goes on with it, or begins one.         *)
LEMMA JobSteps ==
  ASSUME TypeOK, [Next]_vars, NEW q \in Procs
  PROVE  job'[q] = Absent \/ Kept(q) \/ Begun(q)
<1> job \in [Procs -> Jobs] /\ met \in [Procs -> SUBSET Kinds]
  BY DEF TypeOK, Jobs, Kinds
<1>1. CASE \E d \in Documents, c \in Contents \cup {Absent} : Edit(d, c)
  BY <1>1 DEF Edit, Kept, Idle
<1>2. ASSUME NEW p \in Procs, NEW x, job' = [job EXCEPT ![p] = x],
             x = Absent \/ (~Idle(p) /\ x.kind = job[p].kind),
             met' = met \/ (x = Absent /\ met' = [met EXCEPT ![p] = {}])
      PROVE  job'[q] = Absent \/ Kept(q)
  <2>1. CASE p = q
    BY <1>2, <2>1 DEF Kept
  <2>2. CASE p # q
    BY <1>2, <2>2 DEF Kept, Idle
  <2>3. QED  BY <2>1, <2>2
<1>3. ASSUME NEW p \in Procs, Start(p)  PROVE job'[q] = Absent \/ Kept(q) \/ Begun(q)
  <2>1. ASSUME NEW state, Begin(p, state)
        PROVE  job'[q] = Absent \/ Kept(q) \/ Begun(q)
    <3>1. CASE p = q
      BY <2>1, <3>1 DEF Begin, Begun, Idle, Runs
    <3>2. CASE p # q
      BY <2>1, <3>2 DEF Begin, Kept, Idle, Runs
    <3>3. QED  BY <3>1, <3>2
  <2>2. QED  BY <1>3, <2>1 DEF Start, BeginIngest, BeginPrune, ResolveEvidence
<1>4. ASSUME NEW p \in Procs, End(p)  PROVE job'[q] = Absent \/ Kept(q)
  BY <1>2, <1>4 DEF End
<1>5. ASSUME NEW p \in Procs, Ingest(p)  PROVE job'[q] = Absent \/ Kept(q)
  <2>1. CASE SourceGone(p) \/ EndIngest(p)
    BY <2>1, <1>4 DEF SourceGone, EndIngest
  <2>2. CASE (\E d \in Documents : ReadBytes(p, d)) \/ ReadText(p)
             \/ StoreDocument(p) \/ KeepDocument(p)
    <3>1. job[p] \in IngestJobs /\ ~Idle(p)
      BY <2>2, StepKinds DEF ReadBytes, ReadText, StoreDocument, KeepDocument, At, IngestJobs
    <3>2. job' = [job EXCEPT ![p] = job'[p]] /\ job'[p].kind = job[p].kind
      <4>1. ASSUME NEW d \in Documents, ReadBytes(p, d)
            PROVE  job' = [job EXCEPT ![p] = job'[p]] /\ job'[p].kind = job[p].kind
        BY <3>1, <4>1 DEF ReadBytes, IngestJobs, IngestStep
      <4>2. CASE ReadText(p)
        BY <3>1, <4>2 DEF ReadText, IngestJobs, IngestStep
      <4>3. CASE StoreDocument(p) \/ KeepDocument(p)
        BY <3>1, <4>3 DEF StoreDocument, KeepDocument, NextDocument, IngestJobs, IngestStep
      <4>4. QED  BY <2>2, <4>1, <4>2, <4>3
    <3>3. met' = met
      BY <2>2 DEF ReadBytes, ReadText, StoreDocument, KeepDocument, history
    <3>4. QED  BY <1>2, <3>1, <3>2, <3>3
  <2>3. QED  BY <1>5, <2>1, <2>2 DEF Ingest
<1>6. ASSUME NEW p \in Procs, Prune(p)  PROVE job'[q] = Absent \/ Kept(q)
  <2>1. CASE WriteTombstones(p)
    BY <2>1, <1>4 DEF WriteTombstones, Bury
  <2>2. CASE ~WriteTombstones(p)
    <3>1. job[p] \in PruneJobs /\ ~Idle(p)
      BY <1>6, StepKinds DEF Prune, CountReferences, DeleteRecord, DeleteSnapshot,
                             ReadTombstones, WriteTombstones, At
    <3>2. job' = [job EXCEPT ![p] = job'[p]] /\ job'[p].kind = job[p].kind
      <4>0. ASSUME NEW x, NEW b, Deleted(p, x, b)
            PROVE  job' = [job EXCEPT ![p] = job'[p]] /\ job'[p].kind = job[p].kind
        BY <3>1, <4>0 DEF Deleted, PruneJobs
      <4>1. CASE CountReferences(p)
        BY <3>1, <4>1 DEF CountReferences, PruneJobs
      <4>2. CASE \E d \in Documents : DeleteRecord(p, d)
        BY <4>0, <4>2 DEF DeleteRecord
      <4>3. CASE \E c \in Contents : DeleteSnapshot(p, c)
        BY <4>0, <4>3 DEF DeleteSnapshot
      <4>5. CASE ReadTombstones(p)
        BY <3>1, <4>5 DEF ReadTombstones, PruneJobs
      <4>6. QED  BY <1>6, <2>2, <4>1, <4>2, <4>3, <4>5 DEF Prune
    <3>3. met' = met
      BY <1>6, <2>2 DEF Prune, CountReferences, DeleteRecord, DeleteSnapshot, ReadTombstones, history
    <3>4. QED  BY <1>2, <3>1, <3>2, <3>3
  <2>3. QED  BY <2>1, <2>2
<1>7. CASE \E p \in Procs : StoreAnswer(p) \/ Kill(p)
  BY <1>7, <1>4 DEF StoreAnswer, Kill
<1>8. CASE UNCHANGED vars
  BY <1>8 DEF vars, history, Kept, Idle
<1>9. QED  BY <1>1, <1>3, <1>5, <1>6, <1>7, <1>8 DEF Next

LEMMA MeetsInit == Init => Meets
BY DEF Init, Meets, Runs, Idle

LEMMA MeetsNext == TypeOK /\ Meets /\ [Next]_vars => Meets'
<1> SUFFICES ASSUME TypeOK, Meets, [Next]_vars,
                    NEW p \in Procs, NEW q \in Procs, p # q,
                    job'[p] # Absent, job'[p].kind = "prune", job'[q] # Absent
             PROVE  job'[q].kind \in met'[p]
  BY DEF Meets, Runs, Idle
<1>1. Kept(p) \/ Begun(p)
  BY JobSteps
<1>2. Kept(q) \/ Begun(q)
  BY JobSteps
<1>3. CASE Kept(p) /\ Kept(q)
  BY <1>3 DEF Kept, Meets, Runs
<1>4. CASE Begun(p)
  BY <1>4 DEF Begun, Idle
<1>5. CASE Begun(q)
  BY <1>5 DEF Begun, Idle, Runs
<1>6. QED  BY <1>1, <1>2, <1>3, <1>4, <1>5

Pruning(q) == At(q, "count") \/ At(q, "delete") \/ At(q, "bury")
Ingesting(q) == At(q, "bytes") \/ At(q, "text") \/ At(q, "record")

LEMMA JobKinds ==
  ASSUME TypeOK, NEW q \in Procs
  PROVE  /\ Runs(q, "prune") <=> Pruning(q)
         /\ Runs(q, "ingest") <=> Ingesting(q)
         /\ Pruning(q) => job[q] \in PruneJobs
         /\ Ingesting(q) => job[q] \in IngestJobs
<1> USE DEF Pruning, Ingesting, Runs
<1>1. job[q] \in IngestJobs \cup AnswerJobs \cup PruneJobs \cup {Absent}
  BY DEF TypeOK
<1>3. CASE job[q] \in IngestJobs /\ ~Idle(q)
  BY <1>3 DEF At, IngestJobs, IngestStep
<1>4. CASE job[q] \in AnswerJobs /\ ~Idle(q)
  BY <1>4 DEF At, AnswerJobs
<1>5. CASE job[q] \in PruneJobs /\ ~Idle(q)
  BY <1>5 DEF At, PruneJobs
<1>6. CASE Idle(q)
  BY <1>6 DEF At
<1>7. QED  BY <1>1, <1>3, <1>4, <1>5, <1>6 DEF Idle

JobKindsOf(q) ==
  /\ Runs(q, "prune") <=> Pruning(q)
  /\ Runs(q, "ingest") <=> Ingesting(q)
  /\ Pruning(q) => job[q] \in PruneJobs
  /\ Ingesting(q) => job[q] \in IngestJobs

LEMMA JobKindsHold ==
  ASSUME NEW q \in Procs
  PROVE  TypeOK => JobKindsOf(q)
BY JobKinds DEF JobKindsOf

LEMMA JobKindsNext ==
  ASSUME TypeOK, [Next]_vars, NEW q \in Procs
  PROVE  JobKindsOf(q)'
<1>1. (TypeOK => JobKindsOf(q))'
  BY JobKindsHold, PTL
<1>2. QED  BY <1>1, TypeNext

Acts(p) == Start(p) \/ Ingest(p) \/ StoreAnswer(p) \/ Prune(p) \/ Kill(p)

(* A step of a process leaves the jobs of the others alone.                 *)
LEMMA Actor ==
  ASSUME TypeOK, [Next]_vars
  PROVE  \/ UNCHANGED <<memory, tombstones, job, met, torn, stolen, buried>>
         \/ \E p \in Procs : Acts(p) /\ \A r \in Procs \ {p} : job'[r] = job[r]
<1> job \in [Procs -> Jobs]
  BY DEF TypeOK, Jobs
<1>1. ASSUME NEW p \in Procs, Start(p)  PROVE \A r \in Procs \ {p} : job'[r] = job[r]
  BY <1>1 DEF Start, BeginIngest, BeginPrune, ResolveEvidence, Begin
<1>2. ASSUME NEW p \in Procs, Ingest(p)  PROVE \A r \in Procs \ {p} : job'[r] = job[r]
  BY <1>2 DEF Ingest, ReadBytes, ReadText, SourceGone, StoreDocument, KeepDocument, EndIngest,
              NextDocument, End
<1>3. ASSUME NEW p \in Procs, StoreAnswer(p) \/ Kill(p)
      PROVE  \A r \in Procs \ {p} : job'[r] = job[r]
  BY <1>3 DEF StoreAnswer, Kill, End
<1>4. ASSUME NEW p \in Procs, Prune(p)  PROVE \A r \in Procs \ {p} : job'[r] = job[r]
  BY <1>4 DEF Prune, CountReferences, DeleteRecord, DeleteSnapshot, ReadTombstones,
              WriteTombstones, Bury, Deleted, End
<1>5. ASSUME NEW p \in Procs, Acts(p)  PROVE \A r \in Procs \ {p} : job'[r] = job[r]
  BY <1>1, <1>2, <1>3, <1>4, <1>5 DEF Acts
<1>6. CASE UNCHANGED vars
  BY <1>6 DEF vars, memory, history
<1>7. CASE \E d \in Documents, c \in Contents \cup {Absent} : Edit(d, c)
  BY <1>7 DEF Edit
<1>8. QED  BY <1>5, <1>6, <1>7 DEF Next, Acts

(* A prune that has met no command by the end of a step has just begun, or  *)
(* has made that step itself, or nothing but a source file has changed.     *)
LEMMA UnmetSteps ==
  ASSUME TypeOK, Meets, [Next]_vars, NEW q \in Procs, Pruning(q)', met'[q] = {}
  PROVE  \/ BeginPrune(q)
         \/ /\ Pruning(q) /\ met[q] = {}
            /\ Prune(q) \/ UNCHANGED <<memory, job>>
<1> job \in [Procs -> Jobs] /\ met \in [Procs -> SUBSET Kinds]
  BY DEF TypeOK, Jobs, Kinds
<1>1. job'[q] # Absent /\ job'[q].kind = "prune"
  BY JobKindsNext DEF JobKindsOf, Runs, Idle
<1>2. Kept(q) \/ Begun(q)
  BY <1>1, JobSteps
<1>3. ASSUME NEW p \in Procs, ~Start(p), Acts(p)  PROVE ~Idle(p)
  BY <1>3 DEF Acts, Ingest, ReadBytes, ReadText, SourceGone, StoreDocument, KeepDocument, EndIngest,
              StoreAnswer, Kill, Prune, CountReferences, DeleteRecord, DeleteSnapshot,
              ReadTombstones, WriteTombstones, At
<1>4. CASE Begun(q)
  <2>1. job'[q] # job[q]
    BY <1>1, <1>4 DEF Begun, Idle
  <2>2. Acts(q)
    BY <2>1, Actor
  <2>3. Start(q)
    BY <1>3, <1>4, <2>2 DEF Begun
  <2>4. CASE BeginIngest(q)
    BY <1>1, <2>4 DEF BeginIngest, Begin
  <2>5. ASSUME NEW a \in Answers, ResolveEvidence(q, a)  PROVE FALSE
    BY <1>1, <2>5 DEF ResolveEvidence, Begin
  <2>6. QED  BY <2>3, <2>4, <2>5 DEF Start
<1>5. CASE Kept(q)
  <2>1. Runs(q, "prune") /\ met[q] = {}
    BY <1>1, <1>5 DEF Kept, Runs, Idle
  <2>2. Pruning(q) /\ ~Idle(q)
    BY <2>1, JobKinds DEF Runs
  <2>3. \A p \in Procs \ {q} : Idle(p)
    BY <2>1 DEF Meets
  <2>4. ASSUME NEW p \in Procs, Acts(p)  PROVE Prune(q)
    <3>1. CASE Start(p)
      <4>1. ASSUME NEW state, Begin(p, state)  PROVE FALSE
        <5>1. p # q
          BY <2>2, <4>1 DEF Begin
        <5>2. met'[q] = met[q] \cup {state.kind}
          BY <2>1, <4>1, <5>1 DEF Begin
        <5>3. QED  BY <5>2
      <4>2. QED  BY <3>1, <4>1 DEF Start, BeginIngest, BeginPrune, ResolveEvidence
    <3>2. CASE ~Start(p)
      <4>1. p = q
        BY <1>3, <2>3, <2>4, <3>2
      <4>2. CASE Ingest(q)
        <5>1. Ingesting(q) \/ job'[q] = Absent
          BY <4>2 DEF Ingest, ReadBytes, ReadText, SourceGone, StoreDocument, KeepDocument, EndIngest,
                      End, Ingesting
        <5>2. QED  BY <1>1, <2>1, <5>1, JobKinds DEF Runs
      <4>3. CASE StoreAnswer(q) \/ Kill(q)
        BY <1>1, <4>3 DEF StoreAnswer, Kill, End
      <4>4. QED  BY <2>4, <3>2, <4>1, <4>2, <4>3 DEF Acts
    <3>3. QED  BY <3>1, <3>2
  <2>5. QED  BY <2>1, <2>2, <2>4, Actor
<1>6. QED  BY <1>2, <1>4, <1>5
-----------------------------------------------------------------------------
(* What a prune that met no command knows.                                  *)

\* Something cites the snapshot that the plan does not take away.
CitedBeside(plan, c) ==
  Answering(c) # {} \/ \E d \in Citing(c) : \A m \in plan : m.doc # d

Shared(plan, m) == \E n \in plan : n # m /\ n.hash = m.hash

\* Its plan describes records that are still there; ...
PlanHolds(p) ==
  At(p, "count") => \A m \in job[p].plan : records[m.doc] # Absent /\ records[m.doc].hash = m.hash

\* ... only records that are themselves about to go cite a doomed snapshot; ...
DoomedUncited(p) ==
  At(p, "delete") =>
    \A c \in Contents : Snapshot(c) \in job[p].todo =>
      /\ \A d \in Citing(c) : Record(d) \in job[p].todo
      /\ Answering(c) = {}

\* ... and a planned snapshot still goes, or has a reference that stays, or is shared.
Accounted(p) ==
  At(p, "delete") \/ At(p, "bury") =>
    /\ \A d \in Documents : Record(d) \in job[p].todo => \E m \in job[p].plan : m.doc = d
    /\ At(p, "bury") => job[p].todo = {}
    /\ \A m \in job[p].plan : m.hash \in raw =>
         \/ Snapshot(m.hash) \in job[p].todo
         \/ CitedBeside(job[p].plan, m.hash)
         \/ Shared(job[p].plan, m)

Knows(p) == PlanHolds(p) /\ DoomedUncited(p) /\ Accounted(p)

Plans == \A p \in Procs : Pruning(p) /\ met[p] = {} => Knows(p)

(* raw_reference_counts finds one reference and a planned record is one of  *)
(* those it counts: nothing else cites the snapshot.                        *)
LEMMA OneReference ==
  ASSUME TypeOK, NEW c, References(c) = 1, NEW d \in Citing(c)
  PROVE  Citing(c) = {d} /\ Answering(c) = {}
<1>1. IsFiniteSet(Citing(c)) /\ IsFiniteSet(Answering(c))
  BY SourceAssumption, FS_Subset DEF Citing, Answering
<1>2. Cardinality(Citing(c)) \in Nat /\ Cardinality(Answering(c)) \in Nat
  BY <1>1, FS_CardinalityType
<1>3. Cardinality(Citing(c)) # 0
  BY <1>1, FS_EmptySet
<1>4. Cardinality(Citing(c)) = 1 /\ Cardinality(Answering(c)) = 0
  BY <1>2, <1>3 DEF References
<1>5. Answering(c) = {}
  BY <1>1, <1>4, FS_EmptySet
<1>6. \E x : Citing(c) = {x}
  BY <1>1, <1>4, FS_Singleton
<1>7. QED  BY <1>5, <1>6

(* A planned record whose snapshot is no candidate shares it with a record  *)
(* that is not planned, or with an answer, or with another planned one.     *)
LEMMA NoCandidate ==
  ASSUME TypeOK, NEW plan \in SUBSET [doc : Documents, hash : Contents],
         \A n \in plan : records[n.doc] # Absent /\ records[n.doc].hash = n.hash,
         NEW m \in plan, References(m.hash) # 1
  PROVE  CitedBeside(plan, m.hash) \/ Shared(plan, m)
<1> SUFFICES ASSUME ~CitedBeside(plan, m.hash), ~Shared(plan, m)  PROVE FALSE
  OBVIOUS
<1>1. Answering(m.hash) = {} /\ \A d \in Citing(m.hash) : \E n \in plan : n.doc = d
  BY DEF CitedBeside
<1>2. m.doc \in Citing(m.hash)
  BY DEF Citing
<1>3. ASSUME NEW d \in Citing(m.hash)  PROVE d = m.doc
  <2>1. PICK n \in plan : n.doc = d
    BY <1>1, <1>3
  <2>2. n.hash = m.hash
    BY <1>3, <2>1 DEF Citing
  <2>3. QED  BY <2>1, <2>2 DEF Shared
<1>4. Citing(m.hash) = {m.doc}
  BY <1>2, <1>3
<1>5. Cardinality(Citing(m.hash)) = 1 /\ Cardinality(Answering(m.hash)) = 0
  BY <1>1, <1>4, FS_Singleton, FS_EmptySet
<1>6. QED  BY <1>5 DEF References

(* A snapshot with a citing record or answer has a reference.               *)
LEMMA CitedIsReferenced ==
  ASSUME TypeOK, NEW plan, NEW c, CitedBeside(plan, c)
  PROVE  References(c) > 0
<1>1. IsFiniteSet(Citing(c)) /\ IsFiniteSet(Answering(c))
  BY SourceAssumption, FS_Subset DEF Citing, Answering
<1>2. Cardinality(Citing(c)) \in Nat /\ Cardinality(Answering(c)) \in Nat
  BY <1>1, FS_CardinalityType
<1>3. Cardinality(Citing(c)) # 0 \/ Cardinality(Answering(c)) # 0
  BY <1>1, FS_EmptySet DEF CitedBeside
<1>4. QED  BY <1>2, <1>3 DEF References

LEMMA PlansInit == Init => Plans
BY DEF Init, Plans, Pruning, At, Idle

LEMMA PlansNext ==
  ASSUME TypeOK, Meets, Plans, [Next]_vars
  PROVE  Plans'
<1> SUFFICES ASSUME NEW p \in Procs, Pruning(p)', met'[p] = {}
             PROVE  Knows(p)'
  BY DEF Plans
<1> job \in [Procs -> Jobs]
  BY DEF TypeOK, Jobs
<1>1. job'[p] # Absent
  BY DEF Pruning, At, Idle
<1>2. CASE BeginPrune(p)
  <2>1. /\ job'[p].step = "count" /\ UNCHANGED memory
        /\ \A m \in job'[p].plan : records[m.doc] # Absent /\ records[m.doc].hash = m.hash
    BY <1>2 DEF BeginPrune, Begin
  <2>2. QED  BY <2>1 DEF Knows, PlanHolds, DoomedUncited, Accounted, At, memory
<1>3. CASE Pruning(p) /\ met[p] = {} /\ (Prune(p) \/ UNCHANGED <<memory, job>>)
  <2>1. Knows(p) /\ job[p] \in PruneJobs
    BY <1>3, JobKinds DEF Plans
  <2>2. CASE UNCHANGED <<memory, job>>
    BY <2>1, <2>2 DEF Knows, PlanHolds, DoomedUncited, Accounted, At, Idle, memory, Citing,
                      Answering, CitedBeside, Shared
  <2>3. CASE CountReferences(p)
    <3> DEFINE snapshots == {c \in raw : References(c) = 1 /\ \E m \in job[p].plan : m.hash = c}
               todo == {Record(m.doc) : m \in job[p].plan} \cup {Snapshot(c) : c \in snapshots}
    <3>1. job' = [job EXCEPT ![p].step = "delete", ![p].todo = todo] /\ UNCHANGED memory
      BY <2>3 DEF CountReferences
    <3>2. ASSUME NEW c \in Contents, Snapshot(c) \in todo
          PROVE  (\A d \in Citing(c) : Record(d) \in todo) /\ Answering(c) = {}
      <4>1. c \in snapshots
        BY <3>2 DEF Record, Snapshot
      <4>2. PICK m \in job[p].plan : m.hash = c
        BY <4>1
      <4>3. m.doc \in Citing(c)
        BY <2>1, <2>3, <4>2 DEF CountReferences, Knows, PlanHolds, Citing, PruneJobs
      <4>4. Citing(c) = {m.doc} /\ Answering(c) = {}
        BY <4>1, <4>3, OneReference
      <4>5. QED  BY <4>4
    <3>3. ASSUME NEW m \in job[p].plan, m.hash \in raw
          PROVE  \/ Snapshot(m.hash) \in todo
                 \/ CitedBeside(job[p].plan, m.hash)
                 \/ Shared(job[p].plan, m)
      <4>1. job[p].plan \in SUBSET [doc : Documents, hash : Contents]
        BY <2>1 DEF PruneJobs
      <4>2. \A n \in job[p].plan : records[n.doc] # Absent /\ records[n.doc].hash = n.hash
        BY <2>1, <2>3 DEF CountReferences, Knows, PlanHolds
      <4>3. CASE References(m.hash) = 1
        BY <3>3, <4>3
      <4>4. CASE References(m.hash) # 1
        BY <3>3, <4>1, <4>2, <4>4, NoCandidate
      <4>5. QED  BY <4>3, <4>4
    <3>4. ASSUME NEW d \in Documents, Record(d) \in todo
          PROVE  \E m \in job[p].plan : m.doc = d
      BY <3>4 DEF Record, Snapshot
    <3> HIDE DEF todo
    <3>5. /\ job'[p].step = "delete" /\ job'[p].todo = todo /\ job'[p].plan = job[p].plan
      BY <2>1, <3>1 DEF PruneJobs
    <3>6. UNCHANGED <<raw, records, answers>>
      BY <3>1 DEF memory
    <3>7. DoomedUncited(p)'
      BY <3>2, <3>5, <3>6 DEF DoomedUncited, Citing, Answering
    <3>8. Accounted(p)'
      BY <3>3, <3>4, <3>5, <3>6 DEF Accounted, At, CitedBeside, Shared, Citing, Answering
    <3>9. QED  BY <3>5, <3>7, <3>8 DEF Knows, PlanHolds, At
  <2>4. ASSUME NEW d \in Documents, DeleteRecord(p, d)  PROVE Knows(p)'
    <3>1. /\ job'[p].step = "delete" /\ job'[p].todo = job[p].todo \ {Record(d)}
          /\ job'[p].plan = job[p].plan
      BY <2>1, <2>4 DEF DeleteRecord, Deleted, PruneJobs, At
    <3>2. records' = [records EXCEPT ![d] = Absent] /\ UNCHANGED <<raw, answers>>
      BY <2>4 DEF DeleteRecord
    <3>3. \A c : Citing(c)' = Citing(c) \ {d}
      BY <3>2 DEF Citing, TypeOK
    <3>4. \A c : Answering(c)' = Answering(c)
      BY <3>2 DEF Answering
    <3>5. DoomedUncited(p)'
      BY <2>1, <2>4, <3>1, <3>3, <3>4 DEF Knows, DoomedUncited, DeleteRecord, Record, Snapshot
    <3>6. \E m \in job[p].plan : m.doc = d
      BY <2>1, <2>4 DEF Knows, Accounted, DeleteRecord
    <3>7. ASSUME NEW m \in job[p].plan, CitedBeside(job[p].plan, m.hash)
          PROVE  \/ Answering(m.hash)' # {}
                 \/ \E e \in Citing(m.hash)' : \A n \in job[p].plan : n.doc # e
      BY <3>3, <3>4, <3>6, <3>7 DEF CitedBeside
    <3>8. Accounted(p)'
      <4>1. \A e \in Documents : Record(e) \in job'[p].todo => \E m \in job'[p].plan : m.doc = e
        BY <2>1, <2>4, <3>1 DEF Knows, Accounted, DeleteRecord
      <4>2. ASSUME NEW m \in job[p].plan, m.hash \in raw
            PROVE  \/ Snapshot(m.hash) \in job'[p].todo
                   \/ Answering(m.hash)' # {}
                   \/ \E e \in Citing(m.hash)' : \A n \in job[p].plan : n.doc # e
                   \/ Shared(job[p].plan, m)
        <5>1. \/ Snapshot(m.hash) \in job[p].todo
              \/ CitedBeside(job[p].plan, m.hash)
              \/ Shared(job[p].plan, m)
          BY <2>1, <2>4, <4>2 DEF Knows, Accounted, DeleteRecord
        <5>2. Snapshot(m.hash) # Record(d)
          BY DEF Snapshot, Record
        <5>3. QED  BY <3>1, <3>7, <5>1, <5>2
      <4>3. QED  BY <3>1, <3>2, <4>1, <4>2 DEF Accounted, At, CitedBeside, Shared
    <3>9. QED  BY <3>1, <3>5, <3>8 DEF Knows, PlanHolds, At
  <2>5. ASSUME NEW c \in Contents, DeleteSnapshot(p, c)  PROVE Knows(p)'
    <3>1. /\ job'[p].step = "delete" /\ job'[p].todo = job[p].todo \ {Snapshot(c)}
          /\ job'[p].plan = job[p].plan
      BY <2>1, <2>5 DEF DeleteSnapshot, Deleted, PruneJobs, At
    <3>2. raw' = raw \ {c} /\ UNCHANGED <<records, answers>>
      BY <2>5 DEF DeleteSnapshot
    <3>3. \A e : Citing(e)' = Citing(e) /\ Answering(e)' = Answering(e)
      BY <3>2 DEF Citing, Answering
    <3>4. DoomedUncited(p)'
      BY <2>1, <2>5, <3>1, <3>3 DEF Knows, DoomedUncited, DeleteSnapshot, Record, Snapshot
    <3>5. Accounted(p)'
      <4>1. \A e \in Documents : Record(e) \in job'[p].todo => \E m \in job'[p].plan : m.doc = e
        BY <2>1, <2>5, <3>1 DEF Knows, Accounted, DeleteSnapshot
      <4>2. ASSUME NEW m \in job[p].plan, m.hash \in raw'
            PROVE  \/ Snapshot(m.hash) \in job'[p].todo
                   \/ CitedBeside(job[p].plan, m.hash)
                   \/ Shared(job[p].plan, m)
        <5>1. \/ Snapshot(m.hash) \in job[p].todo
              \/ CitedBeside(job[p].plan, m.hash)
              \/ Shared(job[p].plan, m)
          BY <2>1, <2>5, <3>2, <4>2 DEF Knows, Accounted, DeleteSnapshot
        <5>2. Snapshot(m.hash) # Snapshot(c)
          BY <3>2, <4>2 DEF Snapshot
        <5>3. QED  BY <3>1, <5>1, <5>2
      <4>3. QED  BY <3>1, <3>3, <4>1, <4>2 DEF Accounted, At, CitedBeside, Shared
    <3>6. QED  BY <3>1, <3>4, <3>5 DEF Knows, PlanHolds, At
  <2>6. CASE ReadTombstones(p)
    <3>1. /\ job'[p].step = "bury" /\ job'[p].todo = job[p].todo /\ job[p].todo = {}
          /\ job'[p].plan = job[p].plan /\ UNCHANGED <<raw, records, answers>>
      BY <2>1, <2>6 DEF ReadTombstones, PruneJobs, memory
    <3>2. Accounted(p)'
      BY <2>1, <2>6, <3>1 DEF Knows, Accounted, ReadTombstones, At, Shared, CitedBeside, Citing, Answering
    <3>3. QED  BY <3>1, <3>2 DEF Knows, PlanHolds, DoomedUncited, At
  <2>7. CASE WriteTombstones(p)
    BY <1>1, <2>7 DEF WriteTombstones, Bury, End
  <2>8. QED  BY <1>3, <2>2, <2>3, <2>4, <2>5, <2>6, <2>7 DEF Prune
<1>4. QED  BY <1>2, <1>3, UnmetSteps

(* A prune that met no other command leaves no snapshot of its plan without *)
(* a reference, but for those that two planned records shared.              *)
THEOREM UnsharedRemoved == Spec => []PruneRemovesUnshared
<1> DEFINE Inv == TypeOK /\ Meets /\ Plans
<1>1. Init => Inv
  BY TypeInit, MeetsInit, PlansInit
<1>2. Inv /\ [Next]_vars => Inv'
  BY TypeNext, MeetsNext, PlansNext
<1>3. Inv => PruneRemovesUnshared
  <2> SUFFICES ASSUME Inv, NEW p \in Procs, At(p, "bury"), met[p] = {},
                      NEW m \in job[p].plan, m.hash \in raw,
                      ~\E n \in job[p].plan : n # m /\ n.hash = m.hash
               PROVE  References(m.hash) > 0
    BY DEF PruneRemovesUnshared
  <2>1. CitedBeside(job[p].plan, m.hash)
    BY DEF Plans, Pruning, Knows, Accounted, Shared
  <2>2. QED  BY <2>1, CitedIsReferenced
<1>4. QED  BY <1>1, <1>2, <1>3, PTL DEF Spec
-----------------------------------------------------------------------------
(* Provenance.                                                              *)

\* The snapshot a command is about to cite exists, or was stolen.
HashHeld ==
  \A p \in Procs : At(p, "text") \/ At(p, "record") \/ At(p, "answer") =>
    job[p].hash \in raw \cup stolen

Provenance == TypeOK /\ Meets /\ Plans /\ NoDanglingReference /\ HashHeld

LEMMA ProvenanceInit == Init => Provenance
<1>1. Init => NoDanglingReference /\ HashHeld
  BY DEF Init, NoDanglingReference, HashHeld, At, Idle
<1>2. QED  BY <1>1, TypeInit, MeetsInit, PlansInit DEF Provenance

LEMMA ProvenanceNext == Provenance /\ [Next]_vars => Provenance'
<1> SUFFICES ASSUME Provenance, [Next]_vars  PROVE Provenance'
  OBVIOUS
<1> USE DEF Provenance
<1> job \in [Procs -> Jobs]
  BY DEF TypeOK, Jobs
<1>0. TypeOK' /\ Meets' /\ Plans'
  BY TypeNext, MeetsNext, PlansNext
<1> DEFINE Rest == NoDanglingReference' /\ HashHeld'
\* Nothing is taken away, and a command goes on with the hash it has.
<1>1. ASSUME raw \cup stolen \subseteq raw' \cup stolen', UNCHANGED <<records, answers>>,
             \A q \in Procs : job'[q] # job[q] /\ job'[q] # Absent
                              /\ job'[q].step \in {"text", "record", "answer"}
                                => job'[q].hash \in raw' \cup stolen'
      PROVE  Rest
  <2>1. NoDanglingReference'
    BY <1>1 DEF NoDanglingReference
  <2>2. ASSUME NEW q \in Procs, (At(q, "text") \/ At(q, "record") \/ At(q, "answer"))'
        PROVE  job'[q].hash \in raw' \cup stolen'
    BY <1>1, <2>2 DEF HashHeld, At, Idle
  <2>3. QED  BY <2>1, <2>2 DEF HashHeld
<1>2. ASSUME NEW p \in Procs, NEW x, job' = [job EXCEPT ![p] = x],
             UNCHANGED <<raw, stolen, records, answers>>,
             x # Absent /\ x.step \in {"text", "record", "answer"} => x.hash \in raw \cup stolen
      PROVE  Rest
  BY <1>1, <1>2
<1>3. ASSUME NEW p \in Procs, Start(p)  PROVE Rest
  <2>1. CASE BeginIngest(p) \/ BeginPrune(p)
    BY <1>2, <2>1 DEF BeginIngest, BeginPrune, Begin, memory
  <2>2. ASSUME NEW a \in Answers, ResolveEvidence(p, a)  PROVE Rest
    <3>1. PICK d \in Documents :
            /\ records[d] # Absent
            /\ Begin(p, [kind |-> "fileback", step |-> "answer", answer |-> a, hash |-> records[d].hash])
      BY <2>2 DEF ResolveEvidence
    <3>2. QED  BY <1>2, <2>2, <3>1 DEF ResolveEvidence, NoDanglingReference, Begin, memory
  <2>3. QED  BY <1>3, <2>1, <2>2 DEF Start
<1>4. ASSUME NEW p \in Procs, End(p), UNCHANGED <<raw, stolen, records, answers>>  PROVE Rest
  BY <1>2, <1>4 DEF End
<1>5. ASSUME NEW p \in Procs, Ingest(p)  PROVE Rest
  <2>1. CASE SourceGone(p) \/ EndIngest(p)
    BY <2>1, <1>4 DEF SourceGone, EndIngest, memory
  <2>2. ASSUME NEW d \in Documents, ReadBytes(p, d)  PROVE Rest
    <3>1. job[p] \in IngestStep("bytes", {Absent}, {Absent}, {Absent})
      BY <2>2, StepKinds DEF ReadBytes
    <3>2. /\ job'[p].hash = source[d] /\ source[d] \in raw'
          /\ \A q \in Procs \ {p} : job'[q] = job[q]
      BY <2>2, <3>1 DEF ReadBytes, IngestStep
    <3>3. raw \cup stolen \subseteq raw' \cup stolen' /\ UNCHANGED <<records, answers>>
      BY <2>2 DEF ReadBytes
    <3>4. QED  BY <1>1, <3>2, <3>3
  <2>3. CASE ReadText(p)
    <3>1. job[p] \in IngestStep("text", Documents, Contents, {Absent})
      BY <2>3, StepKinds DEF ReadText
    <3>2. job' = [job EXCEPT ![p] = job'[p]] /\ job'[p].hash = job[p].hash
      BY <2>3, <3>1 DEF ReadText, IngestStep
    <3>3. job[p].hash \in raw \cup stolen
      BY <2>3 DEF ReadText, HashHeld
    <3>4. QED  BY <1>2, <2>3, <3>2, <3>3 DEF ReadText, memory, history
  <2>4. CASE KeepDocument(p)
    <3>1. job[p] \in IngestStep("record", Documents, Contents, Contents)
      BY <2>4, StepKinds DEF KeepDocument
    <3>2. job' = [job EXCEPT ![p] = job'[p]] /\ job'[p].step = "bytes"
      BY <2>4, <3>1 DEF KeepDocument, NextDocument, IngestStep
    <3>3. QED  BY <1>2, <2>4, <3>2 DEF KeepDocument, memory, history
  <2>5. CASE StoreDocument(p)
    <3>1. job[p] \in IngestStep("record", Documents, Contents, Contents)
      BY <2>5, StepKinds DEF StoreDocument
    <3>2. job' = [job EXCEPT ![p] = job'[p]] /\ job'[p].step = "bytes"
      BY <2>5, <3>1 DEF StoreDocument, NextDocument, IngestStep
    <3>3. job[p].hash \in raw \cup stolen /\ UNCHANGED <<raw, stolen, answers>>
      BY <2>5 DEF StoreDocument, HashHeld
    <3>4. HashHeld'
      BY <3>2, <3>3 DEF HashHeld, At, Idle
    <3>5. NoDanglingReference'
      BY <2>5, <3>1, <3>3 DEF StoreDocument, NoDanglingReference, IngestStep, TypeOK
    <3>6. QED  BY <3>4, <3>5
  <2>6. QED  BY <1>5, <2>1, <2>2, <2>3, <2>4, <2>5 DEF Ingest
<1>6. ASSUME NEW p \in Procs, StoreAnswer(p)  PROVE Rest
  <2>1. HashHeld'
    BY <1>6 DEF StoreAnswer, End, HashHeld, At, Idle
  <2>2. NoDanglingReference'
    BY <1>6 DEF StoreAnswer, HashHeld, NoDanglingReference, TypeOK
  <2>3. QED  BY <2>1, <2>2
<1>7. ASSUME NEW p \in Procs, Prune(p)  PROVE Rest
  <2>1. Runs(p, "prune") /\ Pruning(p) /\ job[p] \in PruneJobs
    <3>1. Pruning(p)
      BY <1>7 DEF Prune, CountReferences, DeleteRecord, DeleteSnapshot, ReadTombstones,
                  WriteTombstones, Pruning
    <3>2. QED  BY <3>1, JobKinds
  <2>2. CASE WriteTombstones(p)
    BY <2>2, <1>4 DEF WriteTombstones, Bury, memory
  <2>3. CASE CountReferences(p) \/ ReadTombstones(p)
    <3>1. job' = [job EXCEPT ![p] = job'[p]] /\ job'[p].step \in {"delete", "bury"}
      BY <2>1, <2>3 DEF CountReferences, ReadTombstones, PruneJobs
    <3>2. QED  BY <1>2, <2>3, <3>1 DEF CountReferences, ReadTombstones, memory, history
  <2>4. ASSUME NEW x, NEW b, Deleted(p, x, b), At(p, "delete")
        PROVE  job' = [job EXCEPT ![p] = job'[p]] /\ job'[p].step = "delete"
    BY <2>1, <2>4 DEF Deleted, PruneJobs, At
  <2>5. ASSUME NEW d \in Documents, DeleteRecord(p, d)  PROVE Rest
    <3>1. job' = [job EXCEPT ![p] = job'[p]] /\ job'[p].step = "delete"
      BY <2>4, <2>5 DEF DeleteRecord
    <3>2. HashHeld'
      BY <2>5, <3>1 DEF DeleteRecord, HashHeld, At, Idle
    <3>3. NoDanglingReference'
      BY <2>5 DEF DeleteRecord, NoDanglingReference, TypeOK
    <3>4. QED  BY <3>2, <3>3
  <2>6. ASSUME NEW c \in Contents, DeleteSnapshot(p, c)  PROVE Rest
    <3>1. job' = [job EXCEPT ![p] = job'[p]] /\ job'[p].step = "delete"
      BY <2>4, <2>6 DEF DeleteSnapshot
    <3>2. raw' = raw \ {c} /\ UNCHANGED <<records, answers>>
      BY <2>6 DEF DeleteSnapshot
    <3>3. CASE met[p] # {} \/ c \notin raw
      <4>1. raw \cup stolen \subseteq raw' \cup stolen'
        BY <2>6, <3>2, <3>3 DEF DeleteSnapshot
      <4>2. QED  BY <1>1, <3>1, <3>2, <4>1
    <3>4. CASE met[p] = {} /\ c \in raw
      <4>1. \A q \in Procs \ {p} : job[q] = Absent
        BY <2>1, <3>4 DEF Meets, Idle
      <4>2. HashHeld'
        BY <3>1, <4>1 DEF HashHeld, At, Idle
      <4>3. Citing(c) = {} /\ Answering(c) = {}
        BY <2>1, <2>6, <3>4 DEF Plans, Knows, DoomedUncited, DeleteSnapshot, Citing
      <4>4. stolen' = stolen
        BY <2>6, <3>4 DEF DeleteSnapshot
      <4>5. NoDanglingReference'
        BY <3>2, <4>3, <4>4 DEF NoDanglingReference, Citing, Answering
      <4>6. QED  BY <4>2, <4>5
    <3>5. QED  BY <3>3, <3>4
  <2>7. QED  BY <1>7, <2>2, <2>3, <2>5, <2>6 DEF Prune
<1>8. ASSUME NEW p \in Procs, Kill(p)  PROVE Rest
  BY <1>8, <1>4 DEF Kill, memory
<1>9. ASSUME raw' = raw, stolen' = stolen, records' = records, answers' = answers, job' = job
      PROVE  Rest
  BY <1>9, <1>1
<1>10. ASSUME NEW d \in Documents, NEW c \in Contents \cup {Absent}, Edit(d, c)  PROVE Rest
  <2>1. raw' = raw /\ stolen' = stolen /\ records' = records /\ answers' = answers /\ job' = job
    BY <1>10 DEF Edit, memory
  <2>2. QED  BY <1>9, <2>1
<1>11. ASSUME UNCHANGED vars  PROVE Rest
  <2>1. raw' = raw /\ stolen' = stolen /\ records' = records /\ answers' = answers /\ job' = job
    BY <1>11 DEF vars, memory, history
  <2>2. QED  BY <1>9, <2>1
<1>12. Rest
  BY <1>3, <1>5, <1>6, <1>7, <1>8, <1>10, <1>11 DEF Next
<1>13. QED  BY <1>0, <1>12

(* Whatever is killed and whatever the user edits, no record and no accepted *)
(* answer ever cites a raw snapshot that is gone (lint's error L102), unless *)
(* a prune that met another command deleted it.                             *)
THEOREM ReferencesResolve == Spec => []NoDanglingReference
<1>1. Provenance => NoDanglingReference
  BY DEF Provenance
<1>2. QED  BY <1>1, ProvenanceInit, ProvenanceNext, PTL DEF Spec

-----------------------------------------------------------------------------
(* Tombstones.                                                              *)

\* A prune that is about to write its tombstones has read those of every prune that ended
\* without having met another: none has ended since.
RegistryFresh == \A p \in Procs : At(p, "bury") => buried \subseteq job[p].registry

Graves == TypeOK /\ Meets /\ TombstonesAccumulate /\ RegistryFresh

LEMMA GravesInit == Init => Graves
BY TypeInit, MeetsInit DEF Graves, Init, TombstonesAccumulate, RegistryFresh, At, Idle

LEMMA GravesNext == Graves /\ [Next]_vars => Graves'
<1> SUFFICES ASSUME Graves, [Next]_vars  PROVE Graves'
  OBVIOUS
<1> USE DEF Graves
<1> job \in [Procs -> Jobs]
  BY DEF TypeOK, Jobs
<1>0. TypeOK' /\ Meets'
  BY TypeNext, MeetsNext
<1> DEFINE Rest == TombstonesAccumulate' /\ RegistryFresh'
<1>1. ASSUME UNCHANGED <<tombstones, buried>>,
             \A q \in Procs : job'[q] # job[q] /\ job'[q] # Absent /\ job'[q].step = "bury"
                                => job'[q].registry = tombstones
      PROVE  Rest
  <2>1. ASSUME NEW q \in Procs, At(q, "bury")'  PROVE buried \subseteq job'[q].registry
    BY <1>1, <2>1 DEF RegistryFresh, TombstonesAccumulate, At, Idle
  <2>2. QED  BY <1>1, <2>1 DEF RegistryFresh, TombstonesAccumulate
<1>2. ASSUME NEW p \in Procs, NEW x, job' = [job EXCEPT ![p] = x], UNCHANGED <<tombstones, buried>>,
             x = Absent \/ x.step # "bury" \/ x.registry = tombstones
      PROVE  Rest
  BY <1>1, <1>2
<1>3. ASSUME NEW p \in Procs, Start(p)  PROVE Rest
  BY <1>2, <1>3 DEF Start, BeginIngest, BeginPrune, ResolveEvidence, Begin
<1>4. ASSUME NEW p \in Procs, End(p), UNCHANGED <<tombstones, buried>>  PROVE Rest
  BY <1>2, <1>4 DEF End
<1>5. ASSUME NEW p \in Procs, Ingest(p)  PROVE Rest
  <2>1. CASE SourceGone(p) \/ EndIngest(p)
    BY <2>1, <1>4 DEF SourceGone, EndIngest
  <2>2. CASE (\E d \in Documents : ReadBytes(p, d)) \/ ReadText(p)
             \/ StoreDocument(p) \/ KeepDocument(p)
    <3>1. job[p] \in IngestJobs
      BY <2>2, StepKinds DEF ReadBytes, ReadText, StoreDocument, KeepDocument, IngestJobs
    <3>2. job' = [job EXCEPT ![p] = job'[p]] /\ job'[p].step \in {"bytes", "text", "record"}
      <4>1. ASSUME NEW d \in Documents, ReadBytes(p, d)
            PROVE  job' = [job EXCEPT ![p] = job'[p]] /\ job'[p].step = "text"
        BY <3>1, <4>1 DEF ReadBytes, IngestJobs, IngestStep
      <4>2. CASE ReadText(p)
        BY <3>1, <4>2 DEF ReadText, IngestJobs, IngestStep
      <4>3. CASE StoreDocument(p) \/ KeepDocument(p)
        BY <3>1, <4>3 DEF StoreDocument, KeepDocument, NextDocument, IngestJobs, IngestStep
      <4>4. QED  BY <2>2, <4>1, <4>2, <4>3
    <3>3. UNCHANGED <<tombstones, buried>>
      BY <2>2 DEF ReadBytes, ReadText, StoreDocument, KeepDocument, history
    <3>4. QED  BY <1>2, <3>2, <3>3
  <2>3. QED  BY <1>5, <2>1, <2>2 DEF Ingest
<1>6. ASSUME NEW p \in Procs, StoreAnswer(p) \/ Kill(p)  PROVE Rest
  BY <1>4, <1>6 DEF StoreAnswer, Kill
<1>7. ASSUME NEW p \in Procs, Prune(p)  PROVE Rest
  <2>1. Runs(p, "prune") /\ Pruning(p) /\ job[p] \in PruneJobs
    <3>1. Pruning(p)
      BY <1>7 DEF Prune, CountReferences, DeleteRecord, DeleteSnapshot, ReadTombstones,
                  WriteTombstones, Pruning
    <3>2. QED  BY <3>1, JobKinds
  <2>2. CASE CountReferences(p)
    <3>1. job' = [job EXCEPT ![p] = job'[p]] /\ job'[p].step = "delete"
      BY <2>1, <2>2 DEF CountReferences, PruneJobs
    <3>2. QED  BY <1>2, <2>2, <3>1 DEF CountReferences, history
  <2>3. ASSUME NEW x, NEW b, Deleted(p, x, b), At(p, "delete"), UNCHANGED <<tombstones, buried>>
        PROVE  Rest
    <3>1. job' = [job EXCEPT ![p] = job'[p]] /\ job'[p].step = "delete"
      BY <2>1, <2>3 DEF Deleted, PruneJobs, At
    <3>2. QED  BY <1>2, <2>3, <3>1
  <2>4. CASE (\E d \in Documents : DeleteRecord(p, d)) \/ (\E c \in Contents : DeleteSnapshot(p, c))
    BY <2>3, <2>4 DEF DeleteRecord, DeleteSnapshot
  <2>5. CASE ReadTombstones(p)
    <3>1. job' = [job EXCEPT ![p] = job'[p]] /\ job'[p].registry = tombstones
      BY <2>1, <2>5 DEF ReadTombstones, PruneJobs
    <3>2. QED  BY <1>2, <2>5, <3>1 DEF ReadTombstones, history
  <2>6. CASE WriteTombstones(p)
    <3>1. buried' \subseteq tombstones'
      BY <2>6 DEF WriteTombstones, Bury, RegistryFresh
    <3>2. ASSUME NEW q \in Procs, At(q, "bury")'  PROVE buried' \subseteq job'[q].registry
      <4>1. q # p /\ job'[q] = job[q]
        BY <2>6, <3>2 DEF WriteTombstones, Bury, End, At, Idle
      <4>2. At(q, "bury")
        BY <3>2, <4>1 DEF At, Idle
      <4>3. Runs(q, "prune")
        BY <4>2, JobKinds DEF Pruning
      <4>4. "prune" \in met[p]
        BY <2>1, <4>1, <4>3 DEF Meets, Runs
      <4>5. buried' = buried
        BY <2>6, <4>4 DEF WriteTombstones, Bury
      <4>6. QED  BY <4>1, <4>2, <4>5 DEF RegistryFresh
    <3>3. QED  BY <3>1, <3>2 DEF TombstonesAccumulate, RegistryFresh
  <2>7. QED  BY <1>7, <2>2, <2>4, <2>5, <2>6 DEF Prune
<1>8. ASSUME tombstones' = tombstones, buried' = buried, job' = job  PROVE Rest
  BY <1>1, <1>8
<1>9. ASSUME NEW d \in Documents, NEW c \in Contents \cup {Absent}, Edit(d, c)  PROVE Rest
  <2>1. tombstones' = tombstones /\ buried' = buried /\ job' = job
    BY <1>9 DEF Edit
  <2>2. QED  BY <1>8, <2>1
<1>10. ASSUME UNCHANGED vars  PROVE Rest
  <2>1. tombstones' = tombstones /\ buried' = buried /\ job' = job
    BY <1>10 DEF vars, history
  <2>2. QED  BY <1>8, <2>1
<1>11. Rest
  BY <1>3, <1>5, <1>6, <1>7, <1>9, <1>10 DEF Next
<1>12. QED  BY <1>0, <1>11

(* However prunes overlap, the tombstones of one that met no other prune are *)
(* never lost.                                                              *)
THEOREM TombstonesKept == Spec => []TombstonesAccumulate
<1>1. Graves => TombstonesAccumulate
  BY DEF Graves
<1>2. QED  BY <1>1, GravesInit, GravesNext, PTL DEF Spec
-----------------------------------------------------------------------------
(* What an ingest has recorded.                                             *)

\* A body that is not what its hash says was stored by a disturbed ingest.
Bodies == \A d \in Documents : records[d] # Absent => records[d].body = records[d].hash \/ d \in torn

\* Of documents it is not disturbed in, an ingest has recorded those it is done with as
\* they still are, and holds the hash and the text of the one it works on.
Attentive(p) ==
  /\ \A d \in job[p].found \ job[p].todo : d \notin disturbed[p] =>
       source[d] \in raw /\ records[d] # Absent /\ records[d].hash = source[d]
  /\ ~At(p, "bytes") /\ job[p].doc \notin disturbed[p] =>
       /\ source[job[p].doc] \in raw /\ job[p].hash = source[job[p].doc]
       /\ At(p, "record") => job[p].text = source[job[p].doc]

Attended == TypeOK /\ Bodies /\ \A p \in Procs : Ingesting(p) => Attentive(p)

LEMMA AttendedInit == Init => Attended
BY TypeInit DEF Attended, Bodies, Ingesting, Init, At, Idle

(* What an ingest is not told of by a step of others has not changed.       *)
LEMMA OthersDisturb ==
  ASSUME TypeOK, [Next]_vars, NEW p \in Procs, Ingesting(p), job'[p] = job[p]
  PROVE  /\ disturbed[p] \subseteq disturbed'[p]
         /\ \A d \in Documents : d \notin disturbed'[p] =>
              /\ source'[d] = source[d] /\ records'[d] = records[d]
              /\ source[d] \in raw => source[d] \in raw'
<1> DEFINE Told == /\ disturbed[p] \subseteq disturbed'[p]
                   /\ \A d \in Documents : d \notin disturbed'[p] =>
                        /\ source'[d] = source[d] /\ records'[d] = records[d]
                        /\ source[d] \in raw => source[d] \in raw'
<1> SUFFICES Told
  OBVIOUS
<1>0. /\ Runs(p, "ingest") /\ job[p] # Absent /\ job \in [Procs -> Jobs]
      /\ disturbed \in [Procs -> SUBSET Documents] /\ records \in [Documents -> Stored \cup {Absent}]
  BY JobKinds DEF Runs, Idle, TypeOK, Jobs
<1>1. ASSUME NEW procs, NEW documents, p \in procs, Disturb(procs, documents)
      PROVE  disturbed'[p] = disturbed[p] \cup documents
  BY <1>0, <1>1 DEF Disturb
<1>2. ASSUME NEW e \in Documents, NEW c \in Contents \cup {Absent}, Edit(e, c)  PROVE Told
  <2>1. disturbed'[p] = disturbed[p] \cup {e}
    BY <1>1, <1>2 DEF Edit
  <2>2. QED  BY <1>2, <2>1 DEF Edit, memory, TypeOK
<1>3. ASSUME NEW q \in Procs, End(q), UNCHANGED <<user, raw, records>>  PROVE Told
  <2>1. q # p
    BY <1>0, <1>3 DEF End
  <2>2. QED  BY <1>0, <1>3, <2>1 DEF End, user
<1>4. ASSUME NEW q \in Procs, Start(q)  PROVE Told
  BY <1>4 DEF Start, BeginIngest, BeginPrune, ResolveEvidence, Begin, user, memory
<1>5. ASSUME NEW q \in Procs, Ingest(q)  PROVE Told
  <2>1. CASE SourceGone(q) \/ EndIngest(q)
    BY <2>1, <1>3 DEF SourceGone, EndIngest, memory
  <2>2. CASE (\E d \in Documents : ReadBytes(q, d)) \/ ReadText(q) \/ KeepDocument(q)
    BY <2>2 DEF ReadBytes, ReadText, KeepDocument, user, memory, history
  <2>3. CASE StoreDocument(q)
    <3>1. job[q] \in IngestStep("record", Documents, Contents, Contents)
      BY <2>3, StepKinds DEF StoreDocument
    <3>2. job'[q].step = "bytes" /\ job[q].step = "record"
      BY <1>0, <2>3, <3>1 DEF StoreDocument, NextDocument, IngestStep
    <3>3. q # p
      BY <3>2
    <3>4. disturbed'[p] = disturbed[p] \cup {job[q].doc}
      BY <1>1, <2>3, <3>3 DEF StoreDocument
    <3>5. \A d \in Documents : d # job[q].doc => records'[d] = records[d]
      BY <1>0, <2>3 DEF StoreDocument
    <3>6. QED  BY <2>3, <3>4, <3>5 DEF StoreDocument, user
  <2>4. QED  BY <1>5, <2>1, <2>2, <2>3 DEF Ingest
<1>6. ASSUME NEW q \in Procs, StoreAnswer(q) \/ Kill(q)  PROVE Told
  BY <1>3, <1>6 DEF StoreAnswer, Kill, memory
<1>7. ASSUME NEW q \in Procs, Prune(q)  PROVE Told
  <2>1. CASE CountReferences(q) \/ ReadTombstones(q)
    BY <2>1 DEF CountReferences, ReadTombstones, user, memory, history
  <2>2. ASSUME NEW e \in Documents, DeleteRecord(q, e)  PROVE Told
    <3>1. disturbed'[p] = disturbed[p] \cup {e}
      BY <1>1, <2>2 DEF DeleteRecord
    <3>2. \A d \in Documents : d # e => records'[d] = records[d]
      BY <1>0, <2>2 DEF DeleteRecord
    <3>3. QED  BY <2>2, <3>1, <3>2 DEF DeleteRecord, user
  <2>3. ASSUME NEW c \in Contents, DeleteSnapshot(q, c)  PROVE Told
    <3>1. disturbed'[p] = disturbed[p] \cup {d \in Documents : source[d] = c}
      BY <1>1, <2>3 DEF DeleteSnapshot
    <3>2. QED  BY <2>3, <3>1 DEF DeleteSnapshot, user
  <2>4. CASE WriteTombstones(q)
    BY <2>4, <1>3 DEF WriteTombstones, Bury, memory
  <2>5. QED  BY <1>7, <2>1, <2>2, <2>3, <2>4 DEF Prune
<1>8. CASE UNCHANGED vars
  BY <1>8 DEF vars, user, memory, history
<1>9. QED  BY <1>2, <1>4, <1>5, <1>6, <1>7, <1>8 DEF Next

LEMMA BodiesNext ==
  ASSUME Attended, [Next]_vars
  PROVE  Bodies'
<1> USE DEF Attended
<1> records \in [Documents -> Stored \cup {Absent}]
  BY DEF TypeOK
<1>1. ASSUME records' = records, torn' = torn  PROVE Bodies'
  BY <1>1 DEF Bodies
<1>2. ASSUME NEW p \in Procs, StoreDocument(p)  PROVE Bodies'
  <2>1. job[p] \in IngestStep("record", Documents, Contents, Contents)
    BY <1>2, StepKinds DEF StoreDocument
  <2>2. job[p].doc \in Documents
    BY <2>1 DEF IngestStep
  <2>3. records'[job[p].doc] = [hash |-> job[p].hash, body |-> job[p].text]
    BY <1>2, <2>2 DEF StoreDocument
  <2>4. Attentive(p) /\ At(p, "record")
    BY <1>2 DEF StoreDocument, Ingesting
  <2>5. job[p].doc \notin disturbed[p] => job[p].hash = job[p].text
    BY <2>4 DEF Attentive, At
  <2>6. CASE job[p].doc \in disturbed[p]
    <3>1. torn' = torn \cup {job[p].doc}
      BY <1>2, <2>6 DEF StoreDocument
    <3>2. \A d \in Documents : d # job[p].doc => records'[d] = records[d]
      BY <1>2 DEF StoreDocument
    <3>3. QED  BY <3>1, <3>2 DEF Bodies
  <2>7. CASE job[p].doc \notin disturbed[p]
    <3>1. torn' = torn \ {job[p].doc}
      BY <1>2, <2>7 DEF StoreDocument
    <3>2. \A d \in Documents : d # job[p].doc => records'[d] = records[d]
      BY <1>2 DEF StoreDocument
    <3>3. records'[job[p].doc].body = records'[job[p].doc].hash
      BY <2>3, <2>5, <2>7
    <3>4. QED  BY <3>1, <3>2, <3>3 DEF Bodies
  <2>8. QED  BY <2>6, <2>7
<1>3. ASSUME NEW p \in Procs, NEW d \in Documents, DeleteRecord(p, d)  PROVE Bodies'
  <2>1. \A e \in Documents : e # d => records'[e] = records[e] /\ (e \in torn => e \in torn')
    BY <1>3 DEF DeleteRecord
  <2>2. records'[d] = Absent
    BY <1>3 DEF DeleteRecord
  <2>3. QED  BY <2>1, <2>2 DEF Bodies
<1>4. ASSUME NEW d \in Documents, NEW c \in Contents \cup {Absent}, Edit(d, c)  PROVE Bodies'
  BY <1>1, <1>4 DEF Edit, memory
<1>5. ASSUME NEW p \in Procs, Start(p)  PROVE Bodies'
  BY <1>1, <1>5 DEF Start, BeginIngest, BeginPrune, ResolveEvidence, Begin, memory
<1>6. ASSUME NEW p \in Procs, Ingest(p)  PROVE Bodies'
  BY <1>1, <1>2, <1>6 DEF Ingest, ReadBytes, ReadText, SourceGone, KeepDocument, EndIngest, memory, history
<1>7. ASSUME NEW p \in Procs, StoreAnswer(p) \/ Kill(p)  PROVE Bodies'
  BY <1>1, <1>7 DEF StoreAnswer, Kill, memory
<1>8. ASSUME NEW p \in Procs, Prune(p)  PROVE Bodies'
  BY <1>1, <1>3, <1>8 DEF Prune, CountReferences, DeleteSnapshot, ReadTombstones, WriteTombstones, Bury,
                          memory, history
<1>9. CASE UNCHANGED vars
  BY <1>1, <1>9 DEF vars, memory, history
<1>10. QED  BY <1>4, <1>5, <1>6, <1>7, <1>8, <1>9 DEF Next

LEMMA AttendedNext == Attended /\ [Next]_vars => Attended'
<1> SUFFICES ASSUME Attended, [Next]_vars, NEW p \in Procs, Ingesting(p)'
             PROVE  Attentive(p)'
  BY TypeNext, BodiesNext DEF Attended
<1> USE DEF Attended
<1> /\ job \in [Procs -> Jobs] /\ records \in [Documents -> Stored \cup {Absent}]
    /\ source \in [Documents -> Contents \cup {Absent}]
  BY DEF TypeOK, Jobs
<1>1. /\ job'[p] # Absent /\ job'[p].kind = "ingest"
      /\ job'[p].found \subseteq Documents
      /\ ~At(p, "bytes")' => job'[p].doc \in Documents
  <2>1. Runs(p, "ingest")' /\ job'[p] \in IngestJobs
    BY JobKindsNext DEF JobKindsOf
  <2>2. QED  BY <2>1 DEF IngestJobs, IngestStep, Runs, At, Idle
<1>2. CASE job'[p] = job[p]
  <2>1. Ingesting(p) /\ (At(p, "bytes") <=> At(p, "bytes")') /\ (At(p, "record") <=> At(p, "record")')
    BY <1>2 DEF Ingesting, At, Idle
  <2>2. Attentive(p)
    BY <2>1
  <2>3. /\ disturbed[p] \subseteq disturbed'[p]
        /\ \A d \in Documents : d \notin disturbed'[p] =>
             /\ source'[d] = source[d] /\ records'[d] = records[d]
             /\ source[d] \in raw => source[d] \in raw'
    BY <1>2, <2>1, OthersDisturb
  <2>4. QED  BY <1>1, <1>2, <2>1, <2>2, <2>3 DEF Attentive
<1>3. CASE job'[p] # job[p]
  <2>1. Acts(p)
    BY <1>3, Actor
  <2>2. CASE Start(p)
    <3>1. CASE BeginIngest(p)
      <4>1. PICK found \in SUBSET Documents :
              job'[p] = [kind |-> "ingest", step |-> "bytes", found |-> found, todo |-> found,
                         doc |-> Absent, hash |-> Absent, text |-> Absent]
        BY <3>1 DEF BeginIngest, Begin
      <4>2. job'[p].found \ job'[p].todo = {} /\ job'[p].step = "bytes"
        BY <4>1
      <4>3. QED  BY <1>1, <4>2 DEF Attentive, At, Idle
    <3>2. CASE BeginPrune(p) \/ \E a \in Answers : ResolveEvidence(p, a)
      BY <1>1, <3>2 DEF BeginPrune, ResolveEvidence, Begin
    <3>3. QED  BY <2>2, <3>1, <3>2 DEF Start
  <2>3. CASE Prune(p) \/ StoreAnswer(p) \/ Kill(p)
    <3>1. CASE StoreAnswer(p) \/ Kill(p) \/ WriteTombstones(p)
      BY <1>1, <3>1 DEF StoreAnswer, Kill, WriteTombstones, Bury, End
    <3>2. CASE Prune(p) /\ ~WriteTombstones(p)
      <4>1. Pruning(p)
        BY <3>2 DEF Prune, CountReferences, DeleteRecord, DeleteSnapshot, ReadTombstones, Pruning
      <4>2. job[p] \in PruneJobs
        BY <4>1, JobKinds
      <4>3. job'[p].kind = "prune"
        <5>1. job[p].kind = "prune"
          BY <4>2 DEF PruneJobs
        <5>2. CASE CountReferences(p)
          BY <5>1, <5>2 DEF CountReferences
        <5>3. ASSUME NEW d \in Documents, DeleteRecord(p, d)  PROVE job'[p].kind = "prune"
          BY <4>2, <5>3 DEF DeleteRecord, Deleted, PruneJobs
        <5>4. ASSUME NEW c \in Contents, DeleteSnapshot(p, c)  PROVE job'[p].kind = "prune"
          BY <4>2, <5>4 DEF DeleteSnapshot, Deleted, PruneJobs
        <5>5. CASE ReadTombstones(p)
          BY <4>2, <5>5 DEF ReadTombstones, PruneJobs
        <5>6. QED  BY <3>2, <5>2, <5>3, <5>4, <5>5 DEF Prune
      <4>4. QED  BY <1>1, <4>3
    <3>3. QED  BY <2>3, <3>1, <3>2
  <2>4. CASE Ingest(p)
    <3>1. CASE SourceGone(p) \/ EndIngest(p)
      BY <1>1, <3>1 DEF SourceGone, EndIngest, End
    <3>2. ASSUME NEW d \in Documents, ReadBytes(p, d)  PROVE Attentive(p)'
      <4>1. job[p] \in IngestStep("bytes", {Absent}, {Absent}, {Absent})
        BY <3>2, StepKinds DEF ReadBytes
      <4>2. /\ job'[p].found = job[p].found /\ job'[p].todo = job[p].todo /\ job'[p].step = "text"
            /\ job'[p].hash = source[d] /\ job'[p].doc = d
        BY <3>2, <4>1 DEF ReadBytes, IngestStep
      <4>3. /\ raw' = raw \cup {source[d]} /\ UNCHANGED <<source, records, disturbed>>
        BY <3>2 DEF ReadBytes, user
      <4>4. Attentive(p)
        BY <3>2 DEF Ingesting, ReadBytes
      <4>5. QED  BY <4>2, <4>3, <4>4 DEF Attentive, At
    <3>3. CASE ReadText(p)
      <4>1. job[p] \in IngestStep("text", Documents, Contents, {Absent})
        BY <3>3, StepKinds DEF ReadText
      <4>2. /\ job'[p].found = job[p].found /\ job'[p].todo = job[p].todo /\ job'[p].step = "record"
            /\ job'[p].hash = job[p].hash /\ job'[p].doc = job[p].doc
            /\ job'[p].text = source[job[p].doc]
        BY <3>3, <4>1 DEF ReadText, IngestStep
      <4>3. UNCHANGED <<source, records, raw, disturbed>>
        BY <3>3 DEF ReadText, user, memory, history
      <4>4. Attentive(p) /\ ~At(p, "bytes")
        BY <3>3 DEF Ingesting, ReadText, At
      <4>5. QED  BY <4>2, <4>3, <4>4 DEF Attentive, At
    <3>4. CASE StoreDocument(p) \/ KeepDocument(p)
      <4>1. job[p] \in IngestStep("record", Documents, Contents, Contents)
        BY <3>4, StepKinds DEF StoreDocument, KeepDocument
      <4>2. job[p].doc \in Documents /\ job[p].hash \in Contents /\ job[p].text \in Contents
        BY <4>1 DEF IngestStep
      <4>3. Attentive(p) /\ ~At(p, "bytes")
        BY <3>4 DEF Ingesting, StoreDocument, KeepDocument, At
      <4>4. /\ job'[p].found = job[p].found /\ job'[p].todo = job[p].todo \ {job[p].doc}
            /\ job'[p].step = "bytes"
        BY <3>4, <4>1 DEF StoreDocument, KeepDocument, NextDocument, IngestStep
      <4>5. UNCHANGED <<source, raw>> /\ disturbed'[p] = disturbed[p]
        <5>1. CASE StoreDocument(p)
          BY <5>1 DEF StoreDocument, Disturb, user, TypeOK
        <5>2. CASE KeepDocument(p)
          BY <5>2 DEF KeepDocument, user, memory, history
        <5>3. QED  BY <3>4, <5>1, <5>2
      <4>6. records'[job[p].doc] # Absent /\ records'[job[p].doc].hash = job[p].hash
        <5>1. CASE StoreDocument(p)
          <6>1. records'[job[p].doc] = [hash |-> job[p].hash, body |-> job[p].text]
            BY <4>2, <5>1 DEF StoreDocument
          <6>2. records'[job[p].doc] \in Stored
            BY <4>2, <6>1 DEF Stored
          <6>3. QED  BY <6>1, <6>2, SourceAssumption
        <5>2. CASE KeepDocument(p)
          BY <5>2 DEF KeepDocument, Unchanged, memory
        <5>3. QED  BY <3>4, <5>1, <5>2
      <4>7. \A d \in Documents : d # job[p].doc => records'[d] = records[d]
        BY <3>4 DEF StoreDocument, KeepDocument, memory
      <4>8. ASSUME NEW d \in job'[p].found \ job'[p].todo, d \notin disturbed'[p]
            PROVE  source'[d] \in raw' /\ records'[d] # Absent /\ records'[d].hash = source'[d]
        <5>1. CASE d = job[p].doc
          BY <4>3, <4>5, <4>6, <4>8, <5>1 DEF Attentive
        <5>2. CASE d # job[p].doc
          <6>1. d \in job[p].found \ job[p].todo /\ d \in Documents /\ d \notin disturbed[p]
            BY <1>1, <4>4, <4>5, <4>8, <5>2
          <6>2. QED  BY <4>3, <4>5, <4>7, <5>2, <6>1 DEF Attentive
        <5>3. QED  BY <5>1, <5>2
      <4>9. At(p, "bytes")'
        BY <1>1, <4>4 DEF At, Idle
      <4>10. QED  BY <4>8, <4>9 DEF Attentive
    <3>5. QED  BY <2>4, <3>1, <3>2, <3>3, <3>4 DEF Ingest
  <2>5. QED  BY <2>1, <2>2, <2>3, <2>4 DEF Acts
<1>4. QED  BY <1>2, <1>3

(* However commands overlap and whatever they left behind, an ingest has     *)
(* recorded every file it is done with as it is, unless the file has been   *)
(* edited or another command has touched its record or snapshot meanwhile.  *)
THEOREM FilesRecorded == Spec => []IngestRecordsFiles
<1>1. Attended => IngestRecordsFiles
  <2> SUFFICES ASSUME Attended, NEW p \in Procs, Runs(p, "ingest"),
                      NEW d \in job[p].found \ job[p].todo, d \notin disturbed[p]
               PROVE  /\ source[d] \in raw
                      /\ records[d] # Absent /\ records[d].hash = source[d]
                      /\ records[d].body = source[d] \/ d \in torn
    BY DEF IngestRecordsFiles
  <2>1. Ingesting(p) /\ job[p] \in IngestJobs
    BY JobKinds DEF Attended
  <2>2. d \in Documents
    BY <2>1 DEF IngestJobs, IngestStep
  <2>3. Attentive(p)
    BY <2>1 DEF Attended
  <2>4. QED  BY <2>2, <2>3 DEF Attentive, Attended, Bodies
<1>2. QED  BY <1>1, AttendedInit, AttendedNext, PTL DEF Spec
=============================================================================
