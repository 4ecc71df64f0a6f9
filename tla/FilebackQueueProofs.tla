------------------------- MODULE FilebackQueueProofs -------------------------
(***************************************************************************)
(* Proofs about FilebackQueue for every set of questions, versions of the  *)
(* evidence and processes, every number of days, with or without           *)
(* overlapping commands.                                                   *)
(***************************************************************************)
EXTENDS FilebackQueue, TLAPS

-----------------------------------------------------------------------------
(* Type correctness.                                                        *)

LEMMA TypeInit == Init => TypeOK
BY FilebackAssumption DEF Init, TypeOK, Days, At, Idle

\* What TypeOK says of the job records alone.
JobsTyped == job \in [Procs -> Jobs \cup {Absent}]

\* An apply about to write has resolved its evidence.
Resolved == \A p \in Procs : At(p, "note") \/ At(p, "record") => job[p].resolved # Absent

(* A process at a step runs a job.                                          *)
LEMMA JobType ==
  ASSUME TypeOK, NEW p \in Procs, ~Idle(p)
  PROVE  job[p] \in Jobs /\ job[p].proposal \in Proposals
         /\ Question(p) \in Questions /\ Day(p) \in Days
BY DEF TypeOK, Idle, Jobs, Proposals, Question, Day

MovesTo(p, step) ==
  /\ \A x \in Procs : x # p => job'[x] = job[x]
  /\ job'[p].step = step
  /\ job'[p].command = job[p].command
  /\ job'[p].proposal = job[p].proposal

(* A process that moves on works for the same proposal in the same command. *)
LEMMA Moves ==
  ASSUME TypeOK, NEW p \in Procs, ~Idle(p), NEW step, Goto(p, step)
  PROVE  MovesTo(p, step) /\ job'[p].resolved = job[p].resolved
<1>1. job[p] \in Jobs
  BY JobType
<1>2. /\ \A x \in Procs : x # p => job'[x] = job[x]
      /\ job'[p] = [job[p] EXCEPT !.step = step]
  BY DEF Goto, TypeOK
<1>3. QED  BY <1>1, <1>2 DEF Jobs, MovesTo

(* So does an apply that has resolved its evidence.                         *)
LEMMA Resolves ==
  ASSUME TypeOK, NEW p \in Procs, Resolve(p)
  PROVE  /\ ~Idle(p)
         /\ MovesTo(p, "note")
         /\ job' \in [Procs -> Jobs \cup {Absent}]
         /\ job'[p].resolved = job[p].proposal.evidence
         /\ job'[p].resolved # Absent
<1>1. ~Idle(p)
  BY DEF Resolve, At
<1>2. job[p] \in Jobs /\ job[p].proposal.evidence \in Versions
  BY <1>1, JobType DEF Proposals
<1>3. /\ \A x \in Procs : x # p => job'[x] = job[x]
      /\ job'[p] = [job[p] EXCEPT !.step = "note", !.resolved = evidence]
      /\ evidence = job[p].proposal.evidence
  BY DEF Resolve, UseEvidence, TypeOK
<1>4. job'[p] \in Jobs
  BY <1>2, <1>3 DEF Jobs
<1>5. job' \in [Procs -> Jobs \cup {Absent}]
  BY <1>3, <1>4 DEF Resolve, UseEvidence, TypeOK
<1>6. evidence # Absent
  BY <1>2, <1>3, FilebackAssumption
<1>7. QED  BY <1>1, <1>2, <1>3, <1>5, <1>6 DEF Jobs, MovesTo

LEMMA TypeNext == TypeOK /\ [Next]_vars => TypeOK'
<1> SUFFICES ASSUME TypeOK, [Next]_vars  PROVE TypeOK'
  OBVIOUS
<1> USE DEF world, queue, stored
<1>1. CASE ChangeEvidence
  BY <1>1 DEF ChangeEvidence, TypeOK, At, Idle
<1>2. CASE NextDay
  <2>1. today' \in Days
    BY <1>2, FilebackAssumption DEF NextDay, TypeOK, Days
  <2>2. QED  BY <1>2, <2>1 DEF NextDay, TypeOK, At, Idle
<1>3. ASSUME NEW q \in Questions, evidence # Absent
      PROVE  Proposal(q) \in Proposals
  BY <1>3 DEF Proposal, Proposals, TypeOK
<1>4. ASSUME NEW p \in Procs, NEW command, NEW step, NEW e \in Proposals,
             command \in {"preview", "apply queued", "apply file", "reject"},
             step \in {"check", "resolve", "unlink"}, Begin(p, command, step, e)
      PROVE  (JobsTyped /\ Resolved)'
  <2>1. JobsTyped'
    BY <1>4 DEF Begin, Jobs, TypeOK, JobsTyped
  <2>2. \A x \in Procs : x # p => job'[x] = job[x]
    BY <1>4 DEF Begin, TypeOK
  <2>3. job'[p] = [command |-> command, step |-> step, proposal |-> e, resolved |-> Absent]
    BY <1>4 DEF Begin, TypeOK
  <2>4. ASSUME NEW x \in Procs, At(x, "note")' \/ At(x, "record")'
        PROVE  job'[x].resolved # Absent
    <3>1. CASE x = p
      <4>1. job'[p].step = step
        BY <2>3
      <4>2. job'[p].step = "note" \/ job'[p].step = "record"
        BY <2>4, <3>1 DEF At
      <4>3. QED  BY <1>4, <4>1, <4>2
    <3>2. CASE x # p
      BY <2>2, <2>4, <3>2 DEF At, Idle, TypeOK
    <3>3. QED  BY <3>1, <3>2
  <2>5. QED  BY <2>1, <2>4 DEF Resolved
<1>5. ASSUME NEW p \in Procs, Start(p)  PROVE TypeOK'
  <2>1. ASSUME NEW q \in Questions, Preview(q)  PROVE TypeOK'
    BY <2>1, <1>3 DEF Preview, TypeOK, At, Idle
  <2>2. ASSUME NEW q \in Questions, PreviewAndQueue(p, q)  PROVE TypeOK'
    BY <2>2, <1>3, <1>4 DEF PreviewAndQueue, TypeOK, JobsTyped, Resolved
  <2>3. ASSUME NEW q \in Questions, ApplyQueued(p, q)  PROVE TypeOK'
    <3>1. pending[q] \in Proposals
      BY <2>3 DEF ApplyQueued, TypeOK
    <3>2. QED  BY <2>3, <3>1, <1>4 DEF ApplyQueued, TypeOK, JobsTyped, Resolved
  <2>4. ASSUME NEW q \in Questions, Reject(p, q)  PROVE TypeOK'
    <3>1. pending[q] \in Proposals
      BY <2>4 DEF Reject, TypeOK
    <3>2. QED  BY <2>4, <3>1, <1>4 DEF Reject, TypeOK, JobsTyped, Resolved
  <2>5. ASSUME NEW e \in offered, ApplyFile(p, e)  PROVE TypeOK'
    <3>1. e \in Proposals
      BY DEF TypeOK
    <3>2. QED  BY <2>5, <3>1, <1>4 DEF ApplyFile, TypeOK, JobsTyped, Resolved
  <2>6. QED  BY <1>5, <2>1, <2>2, <2>3, <2>4, <2>5 DEF Start
<1>6. ASSUME NEW p \in Procs, NEW step, Goto(p, step), ~Idle(p),
             step \in {"enqueue", "record", "materialize", "unlink"},
             step = "record" => job[p].resolved # Absent
      PROVE  (JobsTyped /\ Resolved)'
  <2>1. job[p] \in Jobs
    BY <1>6, JobType
  <2>2. [job[p] EXCEPT !.step = step] \in Jobs
    BY <1>6, <2>1 DEF Jobs
  <2>3. JobsTyped'
    BY <1>6, <2>2 DEF Goto, TypeOK, JobsTyped
  <2>4. ASSUME NEW x \in Procs, At(x, "note")' \/ At(x, "record")'
        PROVE  job'[x].resolved # Absent
    <3>1. CASE x = p
      <4>1. job'[p].step = step /\ job'[p].resolved = job[p].resolved
        BY <1>6, Moves DEF MovesTo
      <4>2. QED  BY <1>6, <2>4, <3>1, <4>1 DEF At
    <3>2. CASE x # p
      <4>1. job'[x] = job[x]
        BY <1>6, <3>2, Moves DEF MovesTo
      <4>2. QED  BY <2>4, <3>2, <4>1 DEF At, Idle, TypeOK
    <3>3. QED  BY <3>1, <3>2
  <2>5. QED  BY <2>3, <2>4 DEF Resolved
<1>7. ASSUME NEW p \in Procs, End(p)
      PROVE  (JobsTyped /\ Resolved)'
  BY <1>7 DEF End, TypeOK, JobsTyped, Resolved, At, Idle
<1>8. ASSUME NEW p \in Procs, Step(p)  PROVE TypeOK'
  <2>1. ~Idle(p)
    BY <1>8 DEF Step, At, CheckQueue, AlreadyQueued, Enqueue, Resolve, RefuseEvidence,
                WriteNote, StoreRecord, Materialize, MaterializeFails, Unlink, UnlinkMissing
  <2>2. (JobsTyped /\ Resolved)'
    <3>1. CASE AlreadyQueued(p) \/ Enqueue(p) \/ RefuseEvidence(p) \/ MaterializeFails(p)
               \/ Unlink(p) \/ UnlinkMissing(p)
      BY <3>1, <1>7 DEF AlreadyQueued, Enqueue, RefuseEvidence, MaterializeFails,
                        Unlink, UnlinkMissing
    <3>2. CASE CheckQueue(p) \/ StoreRecord(p)
      BY <3>2, <2>1, <1>6 DEF CheckQueue, StoreRecord
    <3>3. CASE WriteNote(p)
      <4>1. job[p].resolved # Absent
        BY <3>3 DEF WriteNote, TypeOK
      <4>2. QED  BY <3>3, <4>1, <2>1, <1>6 DEF WriteNote
    <3>6. CASE Resolve(p)
      BY <3>6, Resolves DEF JobsTyped, Resolved, At, Idle, TypeOK, MovesTo
    <3>4. CASE Materialize(p)
      <4>1. Goto(p, "unlink") \/ End(p)
        BY <3>4 DEF Materialize
      <4>2. QED  BY <4>1, <2>1, <1>6, <1>7
    <3>5. QED  BY <1>8, <3>1, <3>2, <3>3, <3>4, <3>6 DEF Step
  <2>3. job[p].proposal \in Proposals /\ Question(p) \in Questions /\ Day(p) \in Days
    BY <2>1, JobType
  <2>4. pending' \in [Questions -> Proposals \cup {Absent}]
    BY <1>8, <2>3 DEF Step, CheckQueue, AlreadyQueued, Enqueue, Resolve, UseEvidence,
        RefuseEvidence, WriteNote, StoreRecord, Materialize, MaterializeFails, Unlink, UnlinkMissing, TypeOK
  <2>5. memory' \in [Questions -> [Days -> Versions \cup {Absent}]]
    <3>1. CASE StoreRecord(p)
      <4>1. job[p].resolved \in Versions
        BY <2>1, <3>1, JobType DEF StoreRecord, TypeOK, Jobs
      <4>2. QED  BY <3>1, <2>3, <4>1 DEF StoreRecord, TypeOK
    <3>2. CASE ~StoreRecord(p)
      BY <1>8, <3>2 DEF Step, CheckQueue, AlreadyQueued, Enqueue, Resolve, UseEvidence,
        RefuseEvidence, WriteNote, Materialize, MaterializeFails, Unlink, UnlinkMissing, TypeOK
    <3>3. QED  BY <3>1, <3>2
  <2>6. notes' \subseteq Questions \X Days /\ approved' \subseteq Questions \X Days
    <3>1. <<Question(p), Day(p)>> \in Questions \X Days
      BY <2>3
    <3>2. notes' \in {notes, notes \cup {<<Question(p), Day(p)>>}}
          /\ approved' \in {approved, approved \cup {<<Question(p), Day(p)>>}}
      BY <1>8 DEF Step, CheckQueue, AlreadyQueued, Enqueue, Resolve, UseEvidence,
        RefuseEvidence, WriteNote, StoreRecord, Materialize, MaterializeFails, Unlink, UnlinkMissing
    <3>3. QED  BY <3>1, <3>2 DEF TypeOK
  <2>7. verdict' \in [Questions -> {"none", "applied", "rejected"}]
    BY <1>8, <2>3 DEF Step, CheckQueue, AlreadyQueued, Enqueue, Resolve, UseEvidence,
        RefuseEvidence, WriteNote, StoreRecord, Materialize, MaterializeFails, Unlink,
        UnlinkMissing, TypeOK
  <2>8. UNCHANGED <<evidence, today>> /\ offered' \in {offered, offered \cup {job[p].proposal}}
    BY <1>8 DEF Step, CheckQueue, AlreadyQueued, Enqueue, Resolve, UseEvidence,
        RefuseEvidence, WriteNote, StoreRecord, Materialize, MaterializeFails, Unlink,
        UnlinkMissing
  <2>9. offered' \subseteq Proposals
    BY <2>3, <2>8 DEF TypeOK
  <2>10. QED  BY <2>2, <2>4, <2>5, <2>6, <2>7, <2>8, <2>9 DEF TypeOK, JobsTyped, Resolved
<1>9. ASSUME NEW p \in Procs, Kill(p)  PROVE TypeOK'
  BY <1>7, <1>9 DEF Kill, TypeOK, JobsTyped, Resolved
<1>10. CASE UNCHANGED vars
  BY <1>10 DEF vars, TypeOK, At, Idle
<1>11. QED  BY <1>1, <1>2, <1>5, <1>8, <1>9, <1>10 DEF Next

(* The type invariant holds in every reachable state: whatever overlaps or   *)
(* is killed, the queue and the memory hold well-formed proposals only.     *)
THEOREM TypeCorrect == Spec => []TypeOK
BY TypeInit, TypeNext, PTL DEF Spec

-----------------------------------------------------------------------------
(* What commands in flight know.                                            *)

Storing == {"materialize", "unlink"}

\* Proposals that wait, are applied or rejected were shown to a reviewer.
AllOffered ==
  /\ \A q \in Questions : pending[q] # Absent => pending[q] \in offered
  /\ \A p \in Procs :
       ~Idle(p) /\ job[p].command # "preview" => job[p].proposal \in offered

\* What an apply writes is the evidence its reviewer saw.
AsReviewed ==
  \A p \in Procs :
    At(p, "note") \/ At(p, "record") => job[p].resolved = job[p].proposal.evidence

\* A preview does nothing but enter the queue.
Previewing ==
  \A p \in Procs : ~Idle(p) /\ job[p].command = "preview" =>
                    job[p].step \in {"check", "enqueue"}

\* The note is on disk when the record is about to be written.
NoteFirst == \A p \in Procs : At(p, "record") => <<Question(p), Day(p)>> \in notes

\* Only a rejection removes a pending file without having stored the answer.
StoredFirst ==
  \A p \in Procs :
    At(p, "materialize") \/ (At(p, "unlink") /\ job[p].command # "reject") =>
      memory[Question(p)][Day(p)] # Absent

Held == AllOffered /\ AsReviewed /\ Previewing /\ NoteFirst /\ StoredFirst
Inbox == TypeOK /\ Held /\ RecordHasNote

LEMMA InboxInit == Init => Inbox
<1>1. Init => Held /\ RecordHasNote
  BY DEF Init, Held, AllOffered, AsReviewed, Previewing, NoteFirst, StoredFirst,
         RecordHasNote, At, Idle
<1>2. QED  BY <1>1, TypeInit DEF Inbox

LEMMA InboxNext == Inbox /\ [Next]_vars => Inbox'
<1> SUFFICES ASSUME Inbox, [Next]_vars  PROVE Inbox'
  OBVIOUS
<1> USE DEF Inbox, Held, world, queue, stored
<1>0. TypeOK'
  BY TypeNext
<1> DEFINE Rest == Held' /\ RecordHasNote'
<1>1. ASSUME offered \subseteq offered', UNCHANGED <<pending, notes, memory, job>>
      PROVE  Rest
  BY <1>1 DEF AllOffered, AsReviewed, Previewing, NoteFirst, StoredFirst, RecordHasNote,
              At, Idle, Question, Day
\* A command begins.
<1>2. ASSUME NEW p \in Procs, NEW command, NEW step, NEW e,
             command = "preview" => step = "check",
             command # "preview" => e \in offered,
             UNCHANGED <<offered, pending, notes, memory>>,
             Begin(p, command, step, e),
             step \in {"check", "resolve"} \/ (step = "unlink" /\ command = "reject")
      PROVE  Rest
  <2>1. \A x \in Procs : x # p => job'[x] = job[x]
    BY <1>2 DEF Begin, TypeOK
  <2>2. job'[p] = [command |-> command, step |-> step, proposal |-> e, resolved |-> Absent]
    BY <1>2 DEF Begin, TypeOK
  <2>3. AllOffered' /\ AsReviewed' /\ Previewing'
    <3>1. AllOffered'
      BY <1>2, <2>1, <2>2 DEF AllOffered, Idle
    <3>2. AsReviewed'
      BY <1>2, <2>1, <2>2 DEF AsReviewed, At, Idle
    <3>3. Previewing'
      BY <1>2, <2>1, <2>2 DEF Previewing, Idle
    <3>4. QED  BY <3>1, <3>2, <3>3
  <2>4. NoteFirst'
    BY <1>2, <2>1, <2>2 DEF NoteFirst, At, Idle, Question, Day
  <2>5. StoredFirst'
    BY <1>2, <2>1, <2>2 DEF StoredFirst, At, Idle, Question, Day
  <2>6. QED  BY <1>2, <2>3, <2>4, <2>5 DEF RecordHasNote
\* A command goes on to a later step.
<1>3. ASSUME NEW p \in Procs, NEW step, UNCHANGED queue, ~Idle(p), MovesTo(p, step),
             step \in {"note", "record"} => job'[p].resolved = job[p].proposal.evidence,
             step = "enqueue" \/ job[p].command # "preview",
             notes \subseteq notes', RecordHasNote',
             \A q \in Questions, d \in Days : memory[q][d] # Absent => memory'[q][d] # Absent,
             step = "record" => <<Question(p), Day(p)>> \in notes',
             step \in Storing => memory'[Question(p)][Day(p)] # Absent
      PROVE  Rest
  <2>1. AllOffered'
    BY <1>3 DEF AllOffered, Idle, MovesTo
  <2>2. AsReviewed'
    BY <1>3 DEF AsReviewed, At, Idle, MovesTo
  <2>3. Previewing'
    BY <1>3 DEF Previewing, Idle, MovesTo
  <2>4. NoteFirst'
    BY <1>3 DEF NoteFirst, At, Idle, Question, Day, MovesTo
  <2>5. StoredFirst'
    BY <1>3, JobType DEF StoredFirst, At, Idle, Question, Day, Storing, MovesTo
  <2>6. QED  BY <1>3, <2>1, <2>2, <2>3, <2>4, <2>5
\* A command ends.
<1>4. ASSUME NEW p \in Procs, End(p), UNCHANGED <<notes, memory>>, offered \subseteq offered',
             \A q \in Questions : pending'[q] # Absent => pending'[q] \in offered'
      PROVE  Rest
  <2>1. \A x \in Procs : ~Idle(x)' => ~Idle(x) /\ job'[x] = job[x]
    BY <1>4 DEF End, Idle, TypeOK
  <2>2. AllOffered'
    BY <1>4, <2>1 DEF AllOffered
  <2>3. NoteFirst' /\ StoredFirst' /\ AsReviewed' /\ Previewing'
    BY <1>4, <2>1 DEF NoteFirst, StoredFirst, AsReviewed, Previewing, At, Idle, Question, Day
  <2>4. QED  BY <1>4, <2>2, <2>3 DEF RecordHasNote
<1>5. ASSUME NEW p \in Procs, Start(p)  PROVE Rest
  <2>1. ASSUME NEW q \in Questions, Preview(q)  PROVE Rest
    BY <2>1, <1>1 DEF Preview
  <2>2. ASSUME NEW q \in Questions, PreviewAndQueue(p, q)  PROVE Rest
    BY <2>2, <1>2 DEF PreviewAndQueue
  <2>3. ASSUME NEW q \in Questions, ApplyQueued(p, q)  PROVE Rest
    BY <2>3, <1>2 DEF ApplyQueued, AllOffered
  <2>4. ASSUME NEW q \in Questions, Reject(p, q)  PROVE Rest
    BY <2>4, <1>2 DEF Reject, AllOffered
  <2>5. ASSUME NEW e \in offered, ApplyFile(p, e)  PROVE Rest
    BY <2>5, <1>2 DEF ApplyFile
  <2>6. QED  BY <1>5, <2>1, <2>2, <2>3, <2>4, <2>5 DEF Start
<1>6. ASSUME NEW p \in Procs, Step(p)  PROVE Rest
  <2>1. CASE CheckQueue(p)
    <3>1. ~Idle(p) /\ UNCHANGED <<queue, stored>> /\ Goto(p, "enqueue")
      BY <2>1 DEF CheckQueue, At
    <3>2. MovesTo(p, "enqueue")
      BY <3>1, Moves
    <3>3. QED  BY <1>3, <3>1, <3>2 DEF Storing, RecordHasNote
  <2>9. CASE Resolve(p)
    <3>1. UNCHANGED <<queue, stored>> /\ At(p, "resolve")
      BY <2>9 DEF Resolve, UseEvidence
    <3>2. job[p].command # "preview"
      BY <3>1 DEF Previewing, At
    <3>3. QED  BY <1>3, <2>9, <3>1, <3>2, Resolves DEF Storing, RecordHasNote
  <2>2. CASE AlreadyQueued(p) \/ RefuseEvidence(p) \/ MaterializeFails(p) \/ UnlinkMissing(p)
    BY <2>2, <1>4 DEF AlreadyQueued, RefuseEvidence, MaterializeFails, UnlinkMissing, AllOffered
  <2>3. CASE Enqueue(p)
    <3>1. offered' = offered \cup {job[p].proposal}
      BY <2>3 DEF Enqueue
    <3>2. \A q \in Questions : pending'[q] # Absent => pending'[q] \in offered'
      BY <2>3, <3>1 DEF Enqueue, AllOffered, TypeOK
    <3>3. QED  BY <2>3, <3>2, <1>4 DEF Enqueue
  <2>4. CASE WriteNote(p)
    <3>1. RecordHasNote'
      BY <2>4 DEF WriteNote, RecordHasNote
    <3>2. Goto(p, "record") /\ ~Idle(p) /\ UNCHANGED <<queue, memory>>
          /\ notes \subseteq notes' /\ <<Question(p), Day(p)>> \in notes'
      BY <2>4 DEF WriteNote, At
    <3>3. job[p].resolved = job[p].proposal.evidence /\ job[p].command # "preview"
      BY <2>4 DEF WriteNote, AsReviewed, Previewing, At
    <3>4. MovesTo(p, "record") /\ job'[p].resolved = job[p].resolved
      BY <3>2, Moves
    <3>5. QED  BY <1>3, <3>1, <3>2, <3>3, <3>4 DEF Storing
  <2>5. CASE StoreRecord(p)
    <3>1. ~Idle(p) /\ Goto(p, "materialize") /\ UNCHANGED <<queue, notes>>
      BY <2>5 DEF StoreRecord, At
    <3>2. Question(p) \in Questions /\ Day(p) \in Days
      BY <3>1, JobType
    <3>3. memory' = [memory EXCEPT ![Question(p)][Day(p)] = job[p].resolved]
      BY <2>5 DEF StoreRecord
    <3>4. job[p].resolved # Absent
      BY <2>5 DEF StoreRecord, TypeOK
    <3>9. job[p].command # "preview"
      BY <2>5 DEF StoreRecord, Previewing, At
    <3>5. memory'[Question(p)][Day(p)] # Absent
      BY <3>2, <3>3, <3>4 DEF TypeOK
    <3>6. \A q \in Questions, d \in Days : memory[q][d] # Absent => memory'[q][d] # Absent
      BY <3>2, <3>3, <3>4 DEF TypeOK
    <3>7. RecordHasNote'
      <4>1. <<Question(p), Day(p)>> \in notes
        BY <2>5 DEF StoreRecord, NoteFirst
      <4>2. \A q \in Questions, d \in Days :
              memory'[q][d] # memory[q][d] => q = Question(p) /\ d = Day(p)
        BY <3>2, <3>3 DEF TypeOK
      <4>3. QED  BY <3>1, <4>1, <4>2 DEF RecordHasNote
    <3>8. MovesTo(p, "materialize")
      BY <3>1, Moves
    <3>10. QED  BY <1>3, <3>1, <3>5, <3>6, <3>7, <3>8, <3>9
  <2>6. CASE Materialize(p)
    <3>1. memory[Question(p)][Day(p)] # Absent /\ ~Idle(p) /\ UNCHANGED <<queue, notes, memory>>
      BY <2>6 DEF Materialize, StoredFirst, At
    <3>2. CASE Goto(p, "unlink")
      <4>1. job[p].command # "preview"
        BY <2>6 DEF Materialize, Previewing, At
      <4>2. MovesTo(p, "unlink")
        BY <3>1, <3>2, Moves
      <4>3. QED  BY <1>3, <3>1, <3>2, <4>1, <4>2 DEF RecordHasNote
    <3>3. CASE End(p)
      BY <1>4, <3>1, <3>3 DEF AllOffered
    <3>4. QED  BY <2>6, <3>2, <3>3 DEF Materialize
  <2>7. CASE Unlink(p)
    <3>1. \A q \in Questions : pending'[q] # Absent => pending'[q] \in offered
      BY <2>7 DEF Unlink, AllOffered, TypeOK
    <3>2. QED  BY <2>7, <3>1, <1>4 DEF Unlink
  <2>8. QED  BY <1>6, <2>1, <2>2, <2>3, <2>4, <2>5, <2>6, <2>7, <2>9 DEF Step
<1>7. ASSUME NEW p \in Procs, Kill(p)  PROVE Rest
  BY <1>4, <1>7 DEF Kill, AllOffered
<1>8. Rest
  BY <1>1, <1>5, <1>6, <1>7 DEF Next, ChangeEvidence, NextDay, vars
<1>9. QED  BY <1>0, <1>8

(* No accepted answer is ever without its raw note, whatever overlaps and   *)
(* whatever is killed: raw is written before normalized.                    *)
THEOREM NotePrecedesRecord == Spec => []RecordHasNote
<1>1. Inbox => RecordHasNote
  BY DEF Inbox
<1>2. QED  BY <1>1, InboxInit, InboxNext, PTL DEF Spec

-----------------------------------------------------------------------------
(* Refinement.                                                              *)

LEMMA PromiseInit == Init => Promise!InboxInit
BY DEF Init, Promise!InboxInit

LEMMA PromiseNext ==
  ASSUME Inbox, [Next]_vars
  PROVE  [Promise!InboxNext]_(Promise!inboxVars)
<1> USE DEF Inbox, Held, world, queue, stored
<1>1. ASSUME UNCHANGED <<offered, pending, memory, verdict>>
      PROVE  UNCHANGED Promise!inboxVars
  BY <1>1 DEF Promise!inboxVars
<1>2. ASSUME NEW e \in Proposals, Promise!Offer(e) \/ Promise!Submit(e) \/ Promise!Accept(e)
      PROVE  Promise!InboxNext
  BY <1>2 DEF Promise!InboxNext, Promise!Proposals, Proposals
<1>3. ASSUME NEW q \in Questions, evidence # Absent
      PROVE  Proposal(q) \in Proposals
  BY <1>3 DEF Proposal, Proposals, TypeOK
<1>4. ASSUME NEW p \in Procs, Start(p)
      PROVE  [Promise!InboxNext]_(Promise!inboxVars)
  <2>1. ASSUME NEW q \in Questions, Preview(q)
        PROVE  Promise!InboxNext
    <3>1. Promise!Offer(Proposal(q))
      BY <2>1 DEF Preview, Promise!Offer
    <3>2. Proposal(q) \in Proposals
      BY <2>1, <1>3 DEF Preview
    <3>3. QED  BY <3>1, <3>2, <1>2
  <2>2. ASSUME NEW q \in Questions, PreviewAndQueue(p, q) \/ ApplyQueued(p, q) \/ Reject(p, q)
        PROVE  UNCHANGED Promise!inboxVars
    BY <2>2, <1>1 DEF PreviewAndQueue, ApplyQueued, Reject
  <2>3. ASSUME NEW e \in offered, ApplyFile(p, e)
        PROVE  UNCHANGED Promise!inboxVars
    BY <2>3, <1>1 DEF ApplyFile
  <2>4. QED  BY <1>4, <2>1, <2>2, <2>3 DEF Start
<1>5. ASSUME NEW p \in Procs, Step(p)
      PROVE  [Promise!InboxNext]_(Promise!inboxVars)
  <2>1. ~Idle(p)
    BY <1>5 DEF Step, At, CheckQueue, AlreadyQueued, Enqueue, Resolve, RefuseEvidence,
                WriteNote, StoreRecord, Materialize, MaterializeFails, Unlink, UnlinkMissing
  <2>2. job[p].proposal \in Proposals /\ Question(p) \in Questions /\ Day(p) \in Days
    BY <2>1, JobType
  <2>3. CASE CheckQueue(p) \/ AlreadyQueued(p) \/ Resolve(p) \/ RefuseEvidence(p)
             \/ WriteNote(p) \/ Materialize(p) \/ MaterializeFails(p) \/ UnlinkMissing(p)
    BY <2>3, <1>1 DEF CheckQueue, AlreadyQueued, Resolve, UseEvidence, RefuseEvidence,
                      WriteNote, Materialize, MaterializeFails, UnlinkMissing
  <2>4. CASE Enqueue(p)
    BY <2>2, <2>4, <1>2 DEF Enqueue, Promise!Submit, Question
  <2>5. CASE StoreRecord(p)
    <3>1. job[p].command # "preview"
      BY <2>5 DEF StoreRecord, Previewing, At
    <3>2. job[p].proposal \in offered /\ job[p].resolved = job[p].proposal.evidence
      BY <2>1, <2>5, <3>1 DEF StoreRecord, AllOffered, AsReviewed
    <3>3. Promise!Accept(job[p].proposal)
      BY <2>5, <3>2 DEF StoreRecord, Promise!Accept, Question, Day
    <3>4. QED  BY <2>2, <3>3, <1>2
  <2>6. CASE Unlink(p)
    <3> DEFINE why == IF job[p].command = "reject" THEN "rejected" ELSE "applied"
    <3>1. why = "applied" => Promise!Answered(Question(p))
      BY <2>2, <2>6 DEF Unlink, StoredFirst, Promise!Answered
    <3>2. Promise!Settle(Question(p), why)
      BY <2>6, <3>1 DEF Unlink, Promise!Settle
    <3>3. QED  BY <2>2, <3>2 DEF Promise!InboxNext
  <2>7. QED  BY <1>5, <2>3, <2>4, <2>5, <2>6 DEF Step
<1>6. CASE ChangeEvidence \/ NextDay \/ (\E p \in Procs : Kill(p)) \/ UNCHANGED vars
  BY <1>6, <1>1 DEF ChangeEvidence, NextDay, Kill, vars
<1>7. QED  BY <1>4, <1>5, <1>6 DEF Next

(* The file-based flow implements ReviewedMemory: accepted memory holds only *)
(* what a reviewer was shown, and a pending proposal leaves the inbox only   *)
(* because it was rejected or because its question is answered in memory.    *)
THEOREM FlowKeepsPromise == Spec => PromiseKept
<1>1. QED  BY PromiseInit, PromiseNext, InboxInit, InboxNext, PTL
           DEF Spec, PromiseKept, Promise!InboxSpec
=============================================================================
