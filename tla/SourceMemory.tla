---------------------------- MODULE SourceMemory ----------------------------
(***************************************************************************)
(* Accepted memory and its provenance: how ingest, fileback and source     *)
(* prune keep raw/, normalized/ and the prune tombstones together.         *)
(*                                                                         *)
(* Ingest snapshots a source file's bytes into raw/ under their hash, reads *)
(* the file again as text, and stores one latest-only record per document. *)
(* An accepted answer (fileback) cites the raw snapshot behind its         *)
(* evidence.  Prune plans from the records whose source file is missing and *)
(* from a count of raw references, deletes records before snapshots, and   *)
(* adds to a tombstone file that it reads and writes back.                 *)
(*                                                                         *)
(* The user edits source files at any moment, also while a command runs.   *)
(* A command may be killed between two steps.  Commands take no lock: any  *)
(* of them may overlap.  Five history variables remember what overlaps did. *)
(***************************************************************************)
EXTENDS Naturals, FiniteSets

CONSTANTS
  Documents,  \* Markdown source files, one normalized record each
  Answers,    \* accepted fileback answers
  Contents,   \* what a file may hold; a raw snapshot is named by its content
  Procs,      \* processes, each running one command after another
  MaxEdits,   \* bound: edits of source files in a behaviour
  Absent      \* no such file, no such command

Stored == [hash : Contents, body : Contents]

ASSUME SourceAssumption ==
  /\ IsFiniteSet(Documents) /\ IsFiniteSet(Answers)
  /\ MaxEdits \in Nat
  /\ Absent \notin Contents \cup Stored

Artifacts == [zone : {"normalized"}, name : Documents] \cup [zone : {"raw"}, name : Contents]

VARIABLES
  source,     \* the user's files
  edits,      \* edits so far
  raw,        \* raw/markdown/: the snapshots present
  records,    \* normalized/markdown/documents/: hash and body of each record
  answers,    \* normalized/manual-question/: the snapshot each answer cites
  tombstones, \* index/source-prune-tombstones.json: the deletions recorded
  job,        \* the command each process runs: its step and local state
  met,        \* history: the kinds of commands that ran while a prune does
  disturbed,  \* history: documents whose file was edited, or whose record or snapshot
              \* another command changed, while an ingest runs
  torn,       \* history: documents last stored by an ingest they were disturbed in
  stolen,     \* history: snapshots deleted by a prune that met another command
  buried      \* history: deletions recorded by prunes that met no other prune

user == <<source, edits>>
memory == <<raw, records, answers>>
history == <<met, disturbed, torn, stolen, buried>>
vars == <<user, memory, tombstones, job, history>>

Idle(p) == job[p] = Absent
At(p, step) == ~Idle(p) /\ job[p].step = step

Runs(p, kind) == ~Idle(p) /\ job[p].kind = kind

Begin(p, state) ==
  /\ Idle(p)
  /\ job' = [job EXCEPT ![p] = state]
  /\ met' = [q \in Procs |->
       CASE q = p /\ state.kind = "prune" -> {job[x].kind : x \in {x \in Procs : ~Idle(x)}}
         [] q # p /\ Runs(q, "prune") -> met[q] \cup {state.kind}
         [] OTHER -> {}]
  /\ UNCHANGED <<disturbed, torn, stolen, buried>>

End(p) ==
  /\ job' = [job EXCEPT ![p] = Absent]
  /\ met' = [met EXCEPT ![p] = {}]
  /\ disturbed' = [disturbed EXCEPT ![p] = {}]

\* The ingests of these processes are disturbed in these documents.
Disturb(procs, documents) ==
  disturbed' = [q \in Procs |-> IF q \in procs /\ Runs(q, "ingest") THEN disturbed[q] \cup documents
                                ELSE disturbed[q]]

Record(d) == [zone |-> "normalized", name |-> d]
Snapshot(c) == [zone |-> "raw", name |-> c]

\* raw_reference_counts: every normalized record counts, answers included.
Citing(c) == {d \in Documents : records[d] # Absent /\ records[d].hash = c}
Answering(c) == {a \in Answers : answers[a] = c}

\* Mutant: only Markdown documents are counted.
CountMarkdownOnly(c) == Cardinality(Citing(c))

References(c) == Cardinality(Citing(c)) + Cardinality(Answering(c))

Init ==
  /\ source \in [Documents -> Contents \cup {Absent}]
  /\ edits = 0
  /\ raw = {}
  /\ records = [d \in Documents |-> Absent]
  /\ answers = [a \in Answers |-> Absent]
  /\ tombstones = {}
  /\ job = [p \in Procs |-> Absent]
  /\ met = [p \in Procs |-> {}] /\ disturbed = [p \in Procs |-> {}]
  /\ torn = {} /\ stolen = {} /\ buried = {}

-----------------------------------------------------------------------------
(* The user writes, changes and deletes source files.                       *)

Edit(d, c) ==
  /\ edits < MaxEdits
  /\ c # source[d]
  /\ source' = [source EXCEPT ![d] = c]
  /\ edits' = edits + 1
  /\ Disturb(Procs, {d})
  /\ UNCHANGED <<memory, tombstones, job, met, torn, stolen, buried>>

-----------------------------------------------------------------------------
(* apply_ingest: one file or directory, each file found on its own.         *)

BeginIngest(p) ==
  /\ \E found \in SUBSET {d \in Documents : source[d] # Absent} :
       Begin(p, [kind |-> "ingest", step |-> "bytes",
                 found |-> found, todo |-> found, doc |-> Absent, hash |-> Absent, text |-> Absent])
  /\ UNCHANGED <<user, memory, tombstones>>

\* store_file: the bytes are read and, if no such snapshot exists, written.
ReadBytes(p, d) ==
  /\ At(p, "bytes")
  /\ d \in job[p].todo
  /\ source[d] # Absent
  /\ raw' = raw \cup {source[d]}
  /\ job' = [job EXCEPT ![p].step = "text", ![p].doc = d, ![p].hash = source[d]]
  /\ stolen' = stolen \ {source[d]}
  /\ UNCHANGED <<user, records, answers, tombstones, met, disturbed, torn, buried>>

\* Mutant: a file that has vanished has no text.
ReadTextIfAny(p) ==
  /\ At(p, "text")
  /\ job' = [job EXCEPT ![p].step = "record", ![p].text = source[job[p].doc]]
  /\ UNCHANGED <<user, memory, tombstones, history>>

\* read_text: the file is opened a second time.
ReadText(p) ==
  /\ At(p, "text")
  /\ source[job[p].doc] # Absent
  /\ job' = [job EXCEPT ![p].step = "record", ![p].text = source[job[p].doc]]
  /\ UNCHANGED <<user, memory, tombstones, history>>

\* Either read raises when the file is gone; the command ends there.
SourceGone(p) ==
  /\ \/ At(p, "bytes") /\ \E d \in job[p].todo : source[d] = Absent
     \/ At(p, "text") /\ source[job[p].doc] = Absent
  /\ End(p)
  /\ UNCHANGED <<user, memory, tombstones, torn, stolen, buried>>

NextDocument(p) ==
  job' = [job EXCEPT ![p].step = "bytes", ![p].todo = @ \ {job[p].doc},
                     ![p].doc = Absent, ![p].hash = Absent, ![p].text = Absent]

\* Mutant: a record that exists is never written again.
AlreadyStored(p) == records[job[p].doc] # Absent

\* store_markdown_document compares the hash of the bytes.
Unchanged(p) ==
  /\ records[job[p].doc] # Absent
  /\ records[job[p].doc].hash = job[p].hash

StoreDocument(p) ==
  /\ At(p, "record")
  /\ ~Unchanged(p)
  /\ records' = [records EXCEPT ![job[p].doc] = [hash |-> job[p].hash, body |-> job[p].text]]
  /\ torn' = IF job[p].doc \in disturbed[p] THEN torn \cup {job[p].doc} ELSE torn \ {job[p].doc}
  /\ Disturb(Procs \ {p}, {job[p].doc})
  /\ NextDocument(p)
  /\ UNCHANGED <<user, raw, answers, tombstones, met, stolen, buried>>

KeepDocument(p) ==
  /\ At(p, "record")
  /\ Unchanged(p)
  /\ NextDocument(p)
  /\ UNCHANGED <<user, memory, tombstones, history>>

EndIngest(p) ==
  /\ At(p, "bytes")
  /\ job[p].todo = {}
  /\ End(p)
  /\ UNCHANGED <<user, memory, tombstones, torn, stolen, buried>>

-----------------------------------------------------------------------------
(* apply_reviewed_fileback, as far as provenance goes: the evidence is      *)
(* resolved first and the record that cites its snapshot stored later.      *)

ResolveEvidence(p, a) ==
  /\ \E d \in Documents :
       /\ records[d] # Absent
       /\ Begin(p, [kind |-> "fileback", step |-> "answer",
                    answer |-> a, hash |-> records[d].hash])
  /\ UNCHANGED <<user, memory, tombstones>>

StoreAnswer(p) ==
  /\ At(p, "answer")
  /\ answers' = [answers EXCEPT ![job[p].answer] = job[p].hash]
  /\ End(p)
  /\ UNCHANGED <<user, raw, records, tombstones, torn, stolen, buried>>

-----------------------------------------------------------------------------
(* apply_source_prune, confirmed, all candidates.                           *)

\* collect_markdown_source_state: the records whose source file is missing.
BeginPrune(p) ==
  /\ LET missing == {d \in Documents : records[d] # Absent /\ source[d] = Absent}
     IN Begin(p, [kind |-> "prune", step |-> "count",
                  todo |-> {}, deleted |-> {}, registry |-> {},
                  plan |-> {[doc |-> d, hash |-> records[d].hash] : d \in missing}])
  /\ UNCHANGED <<user, memory, tombstones>>

\* Mutant: the planned records are taken to be deleted when snapshots are counted.
CountAfterDeletion(p) ==
  /\ At(p, "count")
  /\ LET snapshots == {c \in raw : References(c) = 0 /\ \E m \in job[p].plan : m.hash = c}
     IN job' = [job EXCEPT
          ![p].step = "delete",
          ![p].todo = {Record(m.doc) : m \in job[p].plan} \cup {Snapshot(c) : c \in snapshots}]
  /\ UNCHANGED <<user, memory, tombstones, history>>

\* A snapshot is a candidate if the missing record holds the only reference.
CountReferences(p) ==
  /\ At(p, "count")
  /\ LET snapshots == {c \in raw : References(c) = 1 /\ \E m \in job[p].plan : m.hash = c}
     IN job' = [job EXCEPT
          ![p].step = "delete",
          ![p].todo = {Record(m.doc) : m \in job[p].plan} \cup {Snapshot(c) : c \in snapshots}]
  /\ UNCHANGED <<user, memory, tombstones, history>>

\* A candidate that another prune has deleted is skipped.
Deleted(p, x, present) ==
  job' = [job EXCEPT ![p].todo = @ \ {x},
                     ![p].deleted = IF present THEN @ \cup {x} ELSE @]

\* Candidates are sorted by kind: records go first, then snapshots.
DeleteRecord(p, d) ==
  /\ At(p, "delete")
  /\ Record(d) \in job[p].todo
  /\ records' = [records EXCEPT ![d] = Absent]
  /\ Deleted(p, Record(d), records[d] # Absent)
  /\ Disturb(Procs, {d})
  /\ torn' = torn \ {d}
  /\ UNCHANGED <<user, raw, answers, tombstones, met, stolen, buried>>

DeleteSnapshot(p, c) ==
  /\ At(p, "delete")
  /\ Snapshot(c) \in job[p].todo
  /\ \A d \in Documents : Record(d) \notin job[p].todo
  /\ raw' = raw \ {c}
  /\ Deleted(p, Snapshot(c), c \in raw)
  /\ Disturb(Procs, {d \in Documents : source[d] = c})
  /\ stolen' = IF c \in raw /\ met[p] # {} THEN stolen \cup {c} ELSE stolen
  /\ UNCHANGED <<user, records, answers, tombstones, met, torn, buried>>

ReadTombstones(p) ==
  /\ At(p, "delete")
  /\ job[p].todo = {}
  /\ job' = [job EXCEPT ![p].step = "bury", ![p].registry = tombstones]
  /\ UNCHANGED <<user, memory, tombstones, history>>

Bury(p) ==
  /\ buried' = IF "prune" \in met[p] THEN buried ELSE buried \cup job[p].deleted
  /\ End(p)
  /\ UNCHANGED <<user, memory, torn, stolen>>

\* Mutant: the entries read are not written back.
WriteOwnTombstones(p) ==
  /\ At(p, "bury")
  /\ tombstones' = job[p].deleted
  /\ Bury(p)

WriteTombstones(p) ==
  /\ At(p, "bury")
  /\ tombstones' = job[p].registry \cup job[p].deleted
  /\ Bury(p)

-----------------------------------------------------------------------------
\* The process is killed, or a step raises: nothing is rolled back.
Kill(p) ==
  /\ ~Idle(p)
  /\ End(p)
  /\ UNCHANGED <<user, memory, tombstones, torn, stolen, buried>>

Start(p) == BeginIngest(p) \/ BeginPrune(p) \/ \E a \in Answers : ResolveEvidence(p, a)

Ingest(p) ==
  \/ \E d \in Documents : ReadBytes(p, d)
  \/ ReadText(p) \/ SourceGone(p)
  \/ StoreDocument(p) \/ KeepDocument(p) \/ EndIngest(p)

Prune(p) ==
  \/ CountReferences(p)
  \/ \E d \in Documents : DeleteRecord(p, d)
  \/ \E c \in Contents : DeleteSnapshot(p, c)
  \/ ReadTombstones(p) \/ WriteTombstones(p)

Next ==
  \/ \E d \in Documents, c \in Contents \cup {Absent} : Edit(d, c)
  \/ \E p \in Procs : Start(p) \/ Ingest(p) \/ StoreAnswer(p) \/ Prune(p) \/ Kill(p)

Spec == Init /\ [][Next]_vars

-----------------------------------------------------------------------------
(* Properties.                                                              *)

IngestStep(step, doc, hash, text) ==
  [kind : {"ingest"}, step : {step}, found : SUBSET Documents,
   todo : SUBSET Documents, doc : doc, hash : hash, text : text]
IngestJobs == IngestStep("bytes", {Absent}, {Absent}, {Absent})
              \cup IngestStep("text", Documents, Contents, {Absent})
              \cup IngestStep("record", Documents, Contents, Contents)
AnswerJobs == [kind : {"fileback"}, step : {"answer"},
               answer : Answers, hash : Contents]
PruneJobs == [kind : {"prune"}, step : {"count", "delete", "bury"},
              plan : SUBSET [doc : Documents, hash : Contents],
              todo : SUBSET Artifacts, deleted : SUBSET Artifacts,
              registry : SUBSET Artifacts]

TypeOK ==
  /\ source \in [Documents -> Contents \cup {Absent}]
  /\ edits \in 0..MaxEdits
  /\ raw \subseteq Contents
  /\ records \in [Documents -> Stored \cup {Absent}]
  /\ answers \in [Answers -> Contents \cup {Absent}]
  /\ tombstones \subseteq Artifacts
  /\ met \in [Procs -> SUBSET {"ingest", "fileback", "prune"}]
  /\ disturbed \in [Procs -> SUBSET Documents]
  /\ torn \subseteq Documents /\ stolen \subseteq Contents /\ buried \subseteq Artifacts
  /\ job \in [Procs -> IngestJobs \cup AnswerJobs \cup PruneJobs \cup {Absent}]

(* Every record and every accepted answer cites a snapshot that exists, but  *)
(* for one that a prune deleted that met another command.  So lint's error   *)
(* L102 has no other cause, whatever was killed half-way.                    *)
NoDanglingReference ==
  /\ \A d \in Documents : records[d] # Absent => records[d].hash \in raw \cup stolen
  /\ \A a \in Answers : answers[a] # Absent => answers[a] \in raw \cup stolen

(* Whatever earlier commands left behind, and whatever becomes of it later,  *)
(* an ingest has recorded every file it is done with at its present content  *)
(* and with the snapshot of it, if the file has not been edited and no other *)
(* command has touched its record or snapshot since the ingest began.  But a *)
(* body that an earlier ingest, disturbed by an edit, stored under the hash  *)
(* of other content stays, because the hash is all that is compared.         *)
IngestRecordsFiles ==
  \A p \in Procs : Runs(p, "ingest") =>
    \A d \in job[p].found \ job[p].todo : d \notin disturbed[p] =>
      /\ source[d] \in raw
      /\ records[d] # Absent /\ records[d].hash = source[d]
      /\ records[d].body = source[d] \/ d \in torn

(* When a prune that met no other command has made its deletions, a snapshot *)
(* that is left of what it planned is cited, or was shared by two of the     *)
(* records it planned: these are counted before any is deleted, so nothing   *)
(* cites the snapshot afterwards and nothing deletes it.                     *)
PruneRemovesUnshared ==
  \A p \in Procs : At(p, "bury") /\ met[p] = {} =>
    \A m \in job[p].plan :
      m.hash \in raw => References(m.hash) > 0 \/ \E n \in job[p].plan : n # m /\ n.hash = m.hash

(* The tombstones of a prune that met no other prune are never lost, though  *)
(* prunes that overlap later lose each other's.                              *)
TombstonesAccumulate == buried \subseteq tombstones

(* docs/architecture/source-vault-compiled-taxonomy.md:20: a raw snapshot   *)
(* is a provenance-preserving copy of accepted source content.              *)
SnapshotIsAcceptedContent ==
  \A d \in Documents : records[d] # Absent => records[d].body = records[d].hash
=============================================================================
