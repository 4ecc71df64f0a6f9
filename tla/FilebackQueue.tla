---------------------------- MODULE FilebackQueue ----------------------------
(***************************************************************************)
(* The reviewable fileback flow: preview, queue, apply and reject.         *)
(*                                                                         *)
(* A preview resolves the evidence of a question and builds a proposal; it *)
(* is shown to the reviewer and, with --queue, stored as a pending file    *)
(* named after the proposal id, which does not depend on when it was built.*)
(* Applying a proposal, from the queue or from a saved file, resolves the  *)
(* evidence again, requires the same write set, writes the raw note and    *)
(* the normalized record at paths dated by the proposal, materializes, and *)
(* last removes the pending file.  Every command is a process without      *)
(* locks that may be killed between two steps.                             *)
(*                                                                         *)
(* A question stands for one draft and its requested paths, so for one     *)
(* proposal id; a proposal's creation time is kept to the day, which is    *)
(* what the paths keep.                                                    *)
(***************************************************************************)
EXTENDS Naturals

CONSTANTS
  Questions,  \* drafts, one proposal id each
  MaxDay,     \* bound: the last day of a behaviour
  Versions,   \* what resolving the requested evidence paths may return
  Procs,      \* processes, each running one command after another
  Overlap,    \* may commands run at the same time?
  Absent      \* no such file; evidence that cannot be resolved

Days == 1..MaxDay
Proposals == [question : Questions, day : Days, evidence : Versions]

ASSUME FilebackAssumption ==
  /\ MaxDay \in Nat \ {0}
  /\ Overlap \in BOOLEAN
  /\ Absent \notin Versions
  /\ Absent \notin Proposals

VARIABLES
  evidence, \* what resolve_evidence returns now
  today,
  offered,  \* proposals printed or listed in the queue; any may have been saved
  pending,  \* queue/proposals/pending/: proposal id -> envelope
  notes,    \* raw/manual/questions/: the dated paths that exist
  memory,   \* normalized/manual-question/: question and day -> evidence cited
  verdict,  \* history: why the question's last pending file was removed
  approved, \* history: dated paths an apply has succeeded for
  job       \* the command each process runs, its next step and its proposal

queue == <<offered, pending, verdict>>
stored == <<notes, memory, approved>>
world == <<evidence, today>>
vars == <<world, queue, stored, job>>

Idle(p) == job[p] = Absent
At(p, step) == ~Idle(p) /\ job[p].step = step
Question(p) == job[p].proposal.question
Day(p) == job[p].proposal.day

Begin(p, command, step, e) ==
  /\ Idle(p)
  /\ ~Overlap => \A x \in Procs : Idle(x)
  /\ job' = [job EXCEPT ![p] = [command |-> command, step |-> step, proposal |-> e,
                                resolved |-> Absent]]
Goto(p, step) == job' = [job EXCEPT ![p].step = step]
End(p) == job' = [job EXCEPT ![p] = Absent]

Init ==
  /\ evidence \in Versions
  /\ today = 1
  /\ offered = {}
  /\ pending = [q \in Questions |-> Absent]
  /\ notes = {}
  /\ memory = [q \in Questions |-> [d \in Days |-> Absent]]
  /\ verdict = [q \in Questions |-> "none"]
  /\ approved = {}
  /\ job = [p \in Procs |-> Absent]

-----------------------------------------------------------------------------
(* fileback preview, with or without --queue.                               *)

\* build_fileback_proposal raises, and nothing happens, without evidence.
Proposal(q) == [question |-> q, day |-> today, evidence |-> evidence]

\* Mutant: evidence that cannot be resolved is left out instead of raising.
PreviewUnresolved(q) ==
  /\ offered' = offered \cup {Proposal(q)}
  /\ UNCHANGED <<world, pending, verdict, stored, job>>

Preview(q) ==
  /\ evidence # Absent
  /\ offered' = offered \cup {Proposal(q)}
  /\ UNCHANGED <<world, pending, verdict, stored, job>>

PreviewAndQueue(p, q) ==
  /\ evidence # Absent
  /\ Begin(p, "preview", "check", Proposal(q))
  /\ UNCHANGED <<world, queue, stored>>

\* _ensure_no_existing_state looks at the pending file of the same id.
CheckQueue(p) ==
  /\ At(p, "check")
  /\ pending[Question(p)] = Absent
  /\ Goto(p, "enqueue")
  /\ UNCHANGED <<world, queue, stored>>

AlreadyQueued(p) ==
  /\ At(p, "check")
  /\ pending[Question(p)] # Absent
  /\ End(p)
  /\ UNCHANGED <<world, queue, stored>>

\* atomic_write_json replaces whatever is there by now; from here on the queue
\* lists and shows the proposal, and then the command prints it.
Enqueue(p) ==
  /\ At(p, "enqueue")
  /\ pending' = [pending EXCEPT ![Question(p)] = job[p].proposal]
  /\ offered' = offered \cup {job[p].proposal}
  /\ End(p)
  /\ UNCHANGED <<world, verdict, stored>>

-----------------------------------------------------------------------------
(* fileback apply and fileback queue apply.                                 *)

\* The envelope is loaded and validated; a missing file ends the command.
ApplyQueued(p, q) ==
  /\ pending[q] # Absent
  /\ Begin(p, "apply queued", "resolve", pending[q])
  /\ UNCHANGED <<world, queue, stored>>

ApplyFile(p, e) ==
  /\ e \in offered
  /\ Begin(p, "apply file", "resolve", e)
  /\ UNCHANGED <<world, queue, stored>>

\* The write set is built from what the requested paths resolve to now.
UseEvidence(p) ==
  /\ job' = [job EXCEPT ![p].step = "note", ![p].resolved = evidence]
  /\ UNCHANGED <<world, queue, stored>>

\* Mutant: the write set is not compared with the one that was reviewed.
ResolveUnreviewed(p) ==
  /\ At(p, "resolve")
  /\ evidence # Absent
  /\ UseEvidence(p)

\* resolve_evidence and validate_apply_plan: the write set must be the one
\* that was reviewed.
Resolve(p) ==
  /\ At(p, "resolve")
  /\ evidence = job[p].proposal.evidence
  /\ UseEvidence(p)

RefuseEvidence(p) ==
  /\ At(p, "resolve")
  /\ evidence # job[p].proposal.evidence
  /\ End(p)
  /\ UNCHANGED <<world, queue, stored>>

\* Mutant: the note's path is dated by the apply, not by the proposal.
WriteNoteToday(p) ==
  /\ At(p, "note")
  /\ notes' = notes \cup {<<Question(p), today>>}
  /\ Goto(p, "record")
  /\ UNCHANGED <<world, queue, memory, approved>>

WriteNote(p) ==
  /\ At(p, "note")
  /\ notes' = notes \cup {<<Question(p), Day(p)>>}
  /\ Goto(p, "record")
  /\ UNCHANGED <<world, queue, memory, approved>>

StoreRecord(p) ==
  /\ At(p, "record")
  /\ memory' = [memory EXCEPT ![Question(p)][Day(p)] = job[p].resolved]
  /\ Goto(p, "materialize")
  /\ UNCHANGED <<world, queue, notes, approved>>

\* The apply path has succeeded; a queued proposal is still to be removed.
Materialize(p) ==
  /\ At(p, "materialize")
  /\ approved' = approved \cup {<<Question(p), Day(p)>>}
  /\ IF job[p].command = "apply queued" THEN Goto(p, "unlink") ELSE End(p)
  /\ UNCHANGED <<world, queue, notes, memory>>

\* Stale tokenizer, changed freshness, a compiler error: the record stays.
MaterializeFails(p) ==
  /\ At(p, "materialize")
  /\ End(p)
  /\ UNCHANGED <<world, queue, stored>>

-----------------------------------------------------------------------------
(* fileback queue reject, and the removal it shares with apply.             *)

Reject(p, q) ==
  /\ pending[q] # Absent
  /\ Begin(p, "reject", "unlink", pending[q])
  /\ UNCHANGED <<world, queue, stored>>

\* The file is removed by its name, whatever it holds by now.
Unlink(p) ==
  /\ At(p, "unlink")
  /\ pending[Question(p)] # Absent
  /\ pending' = [pending EXCEPT ![Question(p)] = Absent]
  /\ verdict' = [verdict EXCEPT ![Question(p)] =
                   IF job[p].command = "reject" THEN "rejected" ELSE "applied"]
  /\ End(p)
  /\ UNCHANGED <<world, offered, stored>>

\* Path.unlink raises: another command removed the file first.
UnlinkMissing(p) ==
  /\ At(p, "unlink")
  /\ pending[Question(p)] = Absent
  /\ End(p)
  /\ UNCHANGED <<world, queue, stored>>

-----------------------------------------------------------------------------
\* A process is killed, or a step raises: nothing is rolled back.
Kill(p) ==
  /\ ~Idle(p)
  /\ End(p)
  /\ UNCHANGED <<world, queue, stored>>

\* Ingest, prune and rebuild change what the requested paths resolve to.
ChangeEvidence ==
  /\ evidence' \in (Versions \cup {Absent}) \ {evidence}
  /\ UNCHANGED <<today, queue, stored, job>>

NextDay ==
  /\ today < MaxDay
  /\ today' = today + 1
  /\ UNCHANGED <<evidence, queue, stored, job>>

Start(p) ==
  \/ \E q \in Questions :
       Preview(q) \/ PreviewAndQueue(p, q) \/ ApplyQueued(p, q) \/ Reject(p, q)
  \/ \E e \in offered : ApplyFile(p, e)

Step(p) ==
  \/ CheckQueue(p) \/ AlreadyQueued(p) \/ Enqueue(p)
  \/ Resolve(p) \/ RefuseEvidence(p) \/ WriteNote(p) \/ StoreRecord(p)
  \/ Materialize(p) \/ MaterializeFails(p)
  \/ Unlink(p) \/ UnlinkMissing(p)

Next ==
  \/ ChangeEvidence \/ NextDay
  \/ \E p \in Procs : Start(p) \/ Step(p) \/ Kill(p)

Spec == Init /\ [][Next]_vars

-----------------------------------------------------------------------------
(* Properties.                                                              *)

Jobs == [command : {"preview", "apply queued", "apply file", "reject"},
         step : {"check", "enqueue", "resolve", "note", "record", "materialize", "unlink"},
         proposal : Proposals,
         resolved : Versions \cup {Absent}]

(* Whatever is shown, queued, worked on or stored cites evidence that was   *)
(* found, on a day of the calendar; an apply only writes what it resolved.  *)
TypeOK ==
  /\ evidence \in Versions \cup {Absent}
  /\ today \in Days
  /\ offered \subseteq Proposals
  /\ pending \in [Questions -> Proposals \cup {Absent}]
  /\ notes \subseteq Questions \X Days
  /\ memory \in [Questions -> [Days -> Versions \cup {Absent}]]
  /\ verdict \in [Questions -> {"none", "applied", "rejected"}]
  /\ approved \subseteq Questions \X Days
  /\ job \in [Procs -> Jobs \cup {Absent}]
  /\ \A p \in Procs : At(p, "note") \/ At(p, "record") => job[p].resolved # Absent

(* Every accepted answer has its raw note on disk, at any moment and after  *)
(* any kill or overlap: raw is written before normalized                    *)
(* (apply_reviewed_fileback), so lint never reports it without provenance.  *)
RecordHasNote ==
  \A q \in Questions, d \in Days : memory[q][d] # Absent => <<q, d>> \in notes

(* The flow keeps what it promises its reviewer, whatever overlaps or dies: *)
(* memory only cites the evidence of proposals that were shown, though the  *)
(* apply resolves it again, and no pending proposal disappears unless       *)
(* rejected or answered.                                                    *)
Promise == INSTANCE ReviewedMemory
PromiseKept == Promise!InboxSpec

(* docs/architecture/cli-command-taxonomy.md:91: durable changes enter the  *)
(* wiki only after an apply path succeeds.  When no command runs, every     *)
(* answer in memory comes from an apply that succeeded.                     *)
OnlyApprovedIsDurable ==
  (\A p \in Procs : Idle(p)) =>
    \A q \in Questions, d \in Days :
      memory[q][d] # Absent => <<q, d>> \in approved
=============================================================================
