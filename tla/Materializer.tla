---------------------------- MODULE Materializer ----------------------------
(***************************************************************************)
(* Rebuild materialization: how snowiki commands change normalized/ and    *)
(* then regenerate compiled/ and index/manifest.json.                      *)
(*                                                                         *)
(* Every CLI command is an operating-system process of its own that runs   *)
(* once.  The code takes no lock, so the commands interleave file by file, *)
(* and any of them may be killed or end with an exception between two      *)
(* steps.  A command first stores or deletes normalized records, then (for *)
(* most commands) materializes: load the records, empty compiled/, write   *)
(* the pages, take the content identity, build the retrieval snapshot,     *)
(* take the identity again and, if nothing changed, write the manifest.    *)
(*                                                                         *)
(* A layer's identity is (newest mtime, file count, content hash); it is   *)
(* modelled by the number of mutations of the layer and its content.       *)
(***************************************************************************)
EXTENDS Naturals

CONSTANTS
  Documents,    \* ids of normalized Markdown records (ingested, pruned)
  Questions,    \* ids of normalized question records (fileback)
  Contents,     \* what a normalized record may hold
  Procs,        \* the commands that may be started, each once
  Kinds,        \* the kinds of command started in this instance
  MaxTokenizer, \* newest retrieval identity an upgrade may install
  Navigation,   \* the index, log and overview pages, always generated
  Absent,       \* no such record, no such page
  NoManifest    \* index/manifest.json does not exist

Records == Documents \cup Questions

ASSUME ValuesAssumption ==
  /\ Navigation \notin Records
  /\ Absent \notin Contents
  /\ MaxTokenizer \in Nat \ {0}
  /\ Kinds \subseteq {"ingest", "fileback", "prune", "rebuild"}

Pages == Records \cup {Navigation}
RecordMap == [Records -> Contents \cup {Absent}]

\* A page's text depends on every loaded record (backlinks, navigation), so a
\* page is identified with the records it was built from.
ASSUME PagesAssumption == Absent \notin RecordMap
PageMap == [Pages -> RecordMap \cup {Absent}]

NormalizedIds == [mtime : Nat, content : RecordMap]
CompiledIds == [mtime : Nat, content : PageMap]
Identities == [normalized : NormalizedIds, compiled : CompiledIds]
Manifests == [identity : Identities, tokenizer : Nat,
              records : RecordMap, raced : BOOLEAN]

ASSUME ManifestAssumption == NoManifest \notin Manifests

VARIABLES
  normalized,  \* normalized/: record id -> content
  nTick,       \* mutations of normalized/ so far: its newest mtime
  compiled,    \* compiled/: page -> the records the page was built from
  cTick,       \* mutations of compiled/ so far: its newest mtime
  manifest,    \* index/manifest.json
  installed,   \* retrieval identity of the installed program
  pc,          \* next step of each process
  kind,        \* the command a process runs
  materialize, \* its materialize flag
  touched,     \* prune only: it has deleted something
  todo,        \* records still to store or delete; pages to remove or write
  built,       \* records the compiler loaded
  snap,        \* records the retrieval snapshot loaded
  first,       \* snapshot_identity
  second,      \* current_identity
  tok,         \* retrieval identity the process runs with
  raced        \* history: did another process change a layer meanwhile?

layers == <<normalized, nTick, compiled, cTick>>
jobs == <<kind, materialize, tok>>
reads == <<built, snap, first, second>>
vars == <<layers, manifest, installed, pc, jobs, touched, todo, reads, raced>>

Compiling == {"list", "remove", "write", "scanNormalized", "scanCompiled"}
Validating == {"snapshot", "rescanNormalized", "rescanCompiled", "finalize"}
Mutating == {"store", "delete"}
Ended == {"done", "failed", "killed"}
Live(p) == pc[p] \notin {"idle"} \cup Ended

\* The pages CompilerEngine.build_pages derives from a set of records.
PagesOf(recs) ==
  [q \in Pages |-> IF q = Navigation THEN recs
                   ELSE IF recs[q] = Absent THEN Absent ELSE recs]
PresentIn(pages) == {q \in Pages : pages[q] # Absent}

\* Mutant: an identity made of content alone, without the newest mtime.
NormalizedIdWithoutMtime == [mtime |-> 0, content |-> normalized]

NormalizedId == [mtime |-> nTick, content |-> normalized]
CompiledId == [mtime |-> cTick, content |-> compiled]
CurrentIdentity == [normalized |-> NormalizedId, compiled |-> CompiledId]

\* compare_index_identity: the status a reader of the workspace is shown.
Current ==
  /\ manifest # NoManifest
  /\ manifest.identity = CurrentIdentity
  /\ manifest.tokenizer = installed

\* Another process changes a layer while q compiles or validates.
Disturb(p) ==
  raced' = [q \in Procs |->
              IF q = p THEN raced[q]
              ELSE IF pc[q] \in Compiling THEN "compiling"
              ELSE IF pc[q] \in Validating /\ raced[q] = "no" THEN "validating"
              ELSE raced[q]]

Goto(p, step) == pc' = [pc EXCEPT ![p] = step]

-----------------------------------------------------------------------------
(* Initial workspaces: some records were stored by earlier commands, and    *)
(* either nothing was built yet or the last rebuild is still current.       *)

FreshWorkspace ==
  /\ compiled = [q \in Pages |-> Absent]
  /\ manifest = NoManifest

BuiltWorkspace ==
  /\ compiled = PagesOf(normalized)
  /\ manifest = [identity |-> CurrentIdentity, tokenizer |-> installed,
                 records |-> normalized, raced |-> FALSE]

Init ==
  /\ normalized \in RecordMap
  /\ nTick = 0
  /\ cTick = 0
  /\ installed = 1
  /\ FreshWorkspace \/ BuiltWorkspace
  /\ pc = [p \in Procs |-> "idle"]
  /\ kind = [p \in Procs |-> "rebuild"]
  /\ materialize = [p \in Procs |-> FALSE]
  /\ touched = [p \in Procs |-> FALSE]
  /\ todo = [p \in Procs |-> {}]
  /\ built = [p \in Procs |-> normalized]
  /\ snap = [p \in Procs |-> normalized]
  /\ first = [p \in Procs |-> CurrentIdentity]
  /\ second = [p \in Procs |-> CurrentIdentity]
  /\ tok = [p \in Procs |-> 1]
  /\ raced = [p \in Procs |-> "no"]

-----------------------------------------------------------------------------
(* Commands start.                                                          *)

Begin(p, k, flag, work, step) ==
  /\ pc[p] = "idle"
  /\ k \in Kinds
  /\ kind' = [kind EXCEPT ![p] = k]
  /\ materialize' = [materialize EXCEPT ![p] = flag]
  /\ tok' = [tok EXCEPT ![p] = installed]
  /\ todo' = [todo EXCEPT ![p] = work]
  /\ Goto(p, step)
  /\ UNCHANGED <<layers, manifest, installed, touched, reads, raced>>

\* apply_ingest: the discovered Markdown sources, rebuilding on request.
BeginIngest(p) == \E flag \in BOOLEAN, found \in SUBSET Documents :
                    Begin(p, "ingest", flag, found, "store")

\* apply_reviewed_fileback: one accepted question.
BeginFileback(p) == \E flag \in BOOLEAN, r \in Questions :
                      Begin(p, "fileback", flag, {r}, "store")

\* apply_source_prune, confirmed: the selected candidates of its own plan.
BeginPrune(p) ==
  \E flag \in BOOLEAN, chosen \in SUBSET {r \in Documents : normalized[r] # Absent} :
    Begin(p, "prune", flag, chosen, "delete")

\* apply_rebuild: nothing but materialization.
BeginRebuild(p) == Begin(p, "rebuild", TRUE, {}, "load")

-----------------------------------------------------------------------------
(* Mutations of normalized/, one file at a time.                            *)

Finished(p, x) == todo' = [todo EXCEPT ![p] = @ \ {x}]

WriteNormalized(p, r, value) ==
  /\ normalized' = [normalized EXCEPT ![r] = value]
  /\ nTick' = nTick + 1
  /\ Disturb(p)

\* store_markdown_document skips a record whose content hash is unchanged;
\* store_record (fileback) always writes.
StoreRecord(p, r, c) ==
  /\ pc[p] = "store"
  /\ r \in todo[p]
  /\ kind[p] = "ingest" => normalized[r] # c
  /\ WriteNormalized(p, r, c)
  /\ Finished(p, r)
  /\ UNCHANGED <<compiled, cTick, manifest, installed, pc, jobs, touched, reads>>

StoreUnchanged(p, r) ==
  /\ pc[p] = "store"
  /\ kind[p] = "ingest"
  /\ r \in todo[p]
  /\ normalized[r] # Absent
  /\ Finished(p, r)
  /\ UNCHANGED <<layers, manifest, installed, pc, jobs, touched, reads, raced>>

\* _delete_candidates: a file that is already gone is skipped.
DeleteRecord(p, r) ==
  /\ pc[p] = "delete"
  /\ r \in todo[p]
  /\ normalized[r] # Absent
  /\ WriteNormalized(p, r, Absent)
  /\ touched' = [touched EXCEPT ![p] = TRUE]
  /\ Finished(p, r)
  /\ UNCHANGED <<compiled, cTick, manifest, installed, pc, jobs, reads>>

SkipDeleted(p, r) ==
  /\ pc[p] = "delete"
  /\ r \in todo[p]
  /\ normalized[r] = Absent
  /\ Finished(p, r)
  /\ UNCHANGED <<layers, manifest, installed, pc, jobs, touched, reads, raced>>

Resume(p, step) ==
  /\ Goto(p, step)
  /\ UNCHANGED <<layers, manifest, installed, jobs, touched, todo, reads, raced>>

\* Mutant: the first record stored is materialized, and the others follow.
MaterializeEarly(p) ==
  /\ pc[p] \in Mutating
  /\ \/ materialize[p] /\ Resume(p, "load")
     \/ todo[p] = {} /\ (materialize[p] => kind[p] = "prune" /\ ~touched[p]) /\ Resume(p, "done")

\* A prune that deleted nothing never materializes; one that deleted no record may
\* have deleted snapshots, which are not modelled here.
EndMutation(p) ==
  /\ pc[p] \in Mutating
  /\ todo[p] = {}
  /\ \/ materialize[p] /\ Resume(p, "load")
     \/ (materialize[p] => kind[p] = "prune" /\ ~touched[p]) /\ Resume(p, "done")

-----------------------------------------------------------------------------
(* RebuildMaterializer.materialize.                                         *)

LoadRecords(p) ==
  /\ pc[p] = "load"
  /\ built' = [built EXCEPT ![p] = normalized]
  /\ Goto(p, "list")
  /\ UNCHANGED <<layers, manifest, installed, jobs, touched, todo,
                 snap, first, second, raced>>

\* Mutant: only the pages about to be written again are removed.
ListRebuiltPages(p) ==
  /\ pc[p] = "list"
  /\ todo' = [todo EXCEPT ![p] = PresentIn(compiled) \cap PresentIn(PagesOf(built[p]))]
  /\ Goto(p, "remove")
  /\ UNCHANGED <<layers, manifest, installed, jobs, touched, reads, raced>>

\* _reset_compiled_zone lists the children of compiled/ and removes each.
ListCompiled(p) ==
  /\ pc[p] = "list"
  /\ todo' = [todo EXCEPT ![p] = PresentIn(compiled)]
  /\ Goto(p, "remove")
  /\ UNCHANGED <<layers, manifest, installed, jobs, touched, reads, raced>>

WriteCompiled(p, q, page) ==
  /\ compiled' = [compiled EXCEPT ![q] = page]
  /\ cTick' = cTick + 1
  /\ Disturb(p)

\* The directories of compiled/: summaries of documents, questions.
SameDirectory(q, r) == {q, r} \subseteq Documents \/ {q, r} \subseteq Questions

\* rmtree lists a directory when it comes to it: a page another rebuild wrote
\* there since is removed as well.
RemovePage(p, q) ==
  /\ pc[p] = "remove"
  /\ q \in todo[p] \/ \E r \in todo[p] : SameDirectory(q, r)
  /\ compiled[q] # Absent
  /\ WriteCompiled(p, q, Absent)
  /\ Finished(p, q)
  /\ UNCHANGED <<normalized, nTick, manifest, installed, pc, jobs, touched, reads>>

\* Another rebuild was faster: unlink raises FileNotFoundError, and so does rmtree if
\* the directory itself is gone.
RemoveMissing(p, q) ==
  /\ pc[p] = "remove"
  /\ q \in todo[p]
  /\ \A r \in Pages : r = q \/ SameDirectory(q, r) => compiled[r] = Absent
  /\ Resume(p, "failed")

\* Of what is missing within a directory rmtree takes no notice.
SkipMissing(p, q) ==
  /\ pc[p] = "remove"
  /\ q \in todo[p] \ {Navigation}
  /\ compiled[q] = Absent
  /\ Finished(p, q)
  /\ UNCHANGED <<layers, manifest, installed, pc, jobs, touched, reads, raced>>

StartPages(p) ==
  /\ pc[p] = "remove"
  /\ todo[p] = {}
  /\ todo' = [todo EXCEPT ![p] = PresentIn(PagesOf(built[p]))]
  /\ Goto(p, "write")
  /\ UNCHANGED <<layers, manifest, installed, jobs, touched, reads, raced>>

\* build_pages appends the navigation pages last.
WritePage(p, q) ==
  /\ pc[p] = "write"
  /\ q \in todo[p]
  /\ q = Navigation => todo[p] = {Navigation}
  /\ WriteCompiled(p, q, PagesOf(built[p])[q])
  /\ Finished(p, q)
  /\ UNCHANGED <<normalized, nTick, manifest, installed, pc, jobs, touched, reads>>

EndPages(p) ==
  /\ pc[p] = "write"
  /\ todo[p] = {}
  /\ Goto(p, "scanNormalized")
  /\ UNCHANGED <<layers, manifest, installed, jobs, touched, todo, reads, raced>>

\* current_identity before the snapshot: normalized/ first, then compiled/.
ScanNormalized(p) ==
  /\ pc[p] = "scanNormalized"
  /\ first' = [first EXCEPT ![p].normalized = NormalizedId]
  /\ Goto(p, "scanCompiled")
  /\ UNCHANGED <<layers, manifest, installed, jobs, touched, todo,
                 built, snap, second, raced>>

ScanCompiled(p) ==
  /\ pc[p] = "scanCompiled"
  /\ first' = [first EXCEPT ![p].compiled = CompiledId]
  /\ Goto(p, "snapshot")
  /\ UNCHANGED <<layers, manifest, installed, jobs, touched, todo,
                 built, snap, second, raced>>

\* Mutant: the snapshot is saved into the directory the identity covers.
BuildSnapshotInCompiled(p) ==
  /\ pc[p] = "snapshot"
  /\ manifest # NoManifest => manifest.tokenizer = tok[p]
  /\ snap' = [snap EXCEPT ![p] = normalized]
  /\ cTick' = cTick + 1
  /\ Goto(p, "rescanNormalized")
  /\ UNCHANGED <<normalized, nTick, compiled, manifest, installed, jobs, touched,
                 todo, built, first, second, raced>>

\* build_retrieval_snapshot accepts an absent manifest or one written with the
\* same retrieval identity, and loads the records a second time.
BuildSnapshot(p) ==
  /\ pc[p] = "snapshot"
  /\ manifest # NoManifest => manifest.tokenizer = tok[p]
  /\ snap' = [snap EXCEPT ![p] = normalized]
  /\ Goto(p, "rescanNormalized")
  /\ UNCHANGED <<layers, manifest, installed, jobs, touched, todo,
                 built, first, second, raced>>

\* StaleTokenizerArtifactError, whatever the caller is doing.
RejectTokenizer(p) ==
  /\ pc[p] = "snapshot"
  /\ manifest # NoManifest
  /\ manifest.tokenizer # tok[p]
  /\ Goto(p, "failed")
  /\ UNCHANGED <<layers, manifest, installed, jobs, touched, todo, reads, raced>>

RescanNormalized(p) ==
  /\ pc[p] = "rescanNormalized"
  /\ second' = [second EXCEPT ![p].normalized = NormalizedId]
  /\ Goto(p, "rescanCompiled")
  /\ UNCHANGED <<layers, manifest, installed, jobs, touched, todo,
                 built, snap, first, raced>>

RescanCompiled(p) ==
  /\ pc[p] = "rescanCompiled"
  /\ second' = [second EXCEPT ![p].compiled = CompiledId]
  /\ Goto(p, "finalize")
  /\ UNCHANGED <<layers, manifest, installed, jobs, touched, todo,
                 built, snap, first, raced>>

\* Mutant: the identity is taken again when the manifest is written.
WriteManifestRecomputed(p) ==
  /\ pc[p] = "finalize"
  /\ first[p] = second[p]
  /\ manifest' = [identity |-> CurrentIdentity, tokenizer |-> tok[p],
                  records |-> snap[p], raced |-> raced[p] = "compiling"]
  /\ Goto(p, "done")
  /\ UNCHANGED <<layers, installed, jobs, touched, todo, reads, raced>>

\* Mutant: the log page is written once more after the manifest.
WriteManifestThenLog(p) ==
  /\ pc[p] = "finalize"
  /\ first[p] = second[p]
  /\ manifest' = [identity |-> first[p], tokenizer |-> tok[p],
                  records |-> snap[p], raced |-> raced[p] = "compiling"]
  /\ cTick' = cTick + 1
  /\ Goto(p, "done")
  /\ UNCHANGED <<normalized, nTick, compiled, installed, jobs, touched, todo,
                 reads, raced>>

\* write_manifest_last: counts from the snapshot, identity from before it.
WriteManifest(p) ==
  /\ pc[p] = "finalize"
  /\ first[p] = second[p]
  /\ manifest' = [identity |-> first[p], tokenizer |-> tok[p],
                  records |-> snap[p], raced |-> raced[p] = "compiling"]
  /\ Goto(p, "done")
  /\ UNCHANGED <<layers, installed, jobs, touched, todo, reads, raced>>

\* MaterializationFreshnessError: the previous manifest stays.
RefuseManifest(p) ==
  /\ pc[p] = "finalize"
  /\ first[p] # second[p]
  /\ Goto(p, "failed")
  /\ UNCHANGED <<layers, manifest, installed, jobs, touched, todo, reads, raced>>

-----------------------------------------------------------------------------
(* The environment, and the specification.                                  *)

\* The process is killed, or any step raises: nothing is rolled back.
Kill(p) ==
  /\ Live(p)
  /\ Goto(p, "killed")
  /\ UNCHANGED <<layers, manifest, installed, jobs, touched, todo, reads, raced>>

\* A new version with another default tokenizer is installed between commands.
Upgrade ==
  /\ installed < MaxTokenizer
  /\ \A p \in Procs : ~Live(p)
  /\ installed' = installed + 1
  /\ UNCHANGED <<layers, manifest, pc, jobs, touched, todo, reads, raced>>

Start(p) == BeginIngest(p) \/ BeginFileback(p) \/ BeginPrune(p) \/ BeginRebuild(p)

Mutate(p) ==
  \/ \E r \in Records, c \in Contents : StoreRecord(p, r, c)
  \/ \E r \in Records : StoreUnchanged(p, r) \/ DeleteRecord(p, r) \/ SkipDeleted(p, r)
  \/ EndMutation(p)

Compile(p) ==
  \/ LoadRecords(p) \/ ListCompiled(p)
  \/ \E q \in Pages : \/ RemovePage(p, q) \/ RemoveMissing(p, q) \/ SkipMissing(p, q)
                       \/ WritePage(p, q)
  \/ StartPages(p) \/ EndPages(p)

Finalize(p) ==
  \/ ScanNormalized(p) \/ ScanCompiled(p)
  \/ BuildSnapshot(p) \/ RejectTokenizer(p)
  \/ RescanNormalized(p) \/ RescanCompiled(p)
  \/ WriteManifest(p) \/ RefuseManifest(p)

Step(p) == Mutate(p) \/ Compile(p) \/ Finalize(p)

Next == Upgrade \/ \E p \in Procs : Start(p) \/ Step(p) \/ Kill(p)

Spec == Init /\ [][Next]_vars

\* A started command keeps running unless it is killed; nothing makes a user
\* start one, and nothing makes a kill or an upgrade happen.
FairSpec == Spec /\ \A p \in Procs : WF_vars(Step(p))

-----------------------------------------------------------------------------
(* Properties.                                                              *)

(* Whoever loads the records or takes an identity has stored, deleted or    *)
(* written all it had to (service.py:85-95, finalizer.py:57-64).            *)
TypeOK ==
  /\ normalized \in RecordMap
  /\ nTick \in Nat
  /\ compiled \in PageMap
  /\ cTick \in Nat
  /\ manifest \in Manifests \cup {NoManifest}
  /\ installed \in 1..MaxTokenizer
  /\ pc \in [Procs -> {"idle", "load"} \cup Ended \cup Mutating
                        \cup Compiling \cup Validating]
  /\ kind \in [Procs -> {"ingest", "fileback", "prune", "rebuild"}]
  /\ materialize \in [Procs -> BOOLEAN]
  /\ touched \in [Procs -> BOOLEAN]
  /\ todo \in [Procs -> SUBSET Pages]
  /\ \A p \in Procs :
       todo[p] # {} => pc[p] \in Mutating \cup {"remove", "write", "failed", "killed"}
  /\ built \in [Procs -> RecordMap]
  /\ snap \in [Procs -> RecordMap]
  /\ first \in [Procs -> Identities]
  /\ second \in [Procs -> Identities]
  /\ tok \in [Procs -> Nat]
  /\ raced \in [Procs -> {"no", "compiling", "validating"}]

(* Whenever status says "current", the record count the manifest reports is *)
(* that of the records on disk, whatever ran concurrently: the snapshot was *)
(* loaded between two equal identities (finalizer.materialize).             *)
IndexedRecordsAreCurrent ==
  Current => manifest.records = normalized

(* A current manifest stands over exactly the pages of the current records  *)
(* unless a foreign write landed between the run's load and its first scan: *)
(* no kill, failure or overlap elsewhere blesses partial or stale pages.    *)
BlessedPagesAreComplete ==
  Current /\ ~manifest.raced => compiled = PagesOf(normalized)

(* Every mutation of normalized/ or compiled/ is noticed: a workspace that  *)
(* was current is no longer, until a manifest is written again, even when   *)
(* the content returns to what the manifest describes.                      *)
NoSilentMutation ==
  [][<<normalized, compiled>>' # <<normalized, compiled>> => ~Current']_vars

(* An undisturbed materialization that exits successfully leaves the        *)
(* workspace current (the outcome the operation reports to its caller).     *)
SuccessMeansCurrent ==
  [][\A p \in Procs :
       pc[p] = "finalize" /\ pc'[p] = "done" /\ raced[p] = "no" => Current']_vars

(* A rebuild nobody disturbs or kills ends with a current workspace: what   *)
(* the user is told to rely on, "is stale: ...; rebuild required"           *)
(* (tokenizer_compat.py:26), when another tokenizer was installed since.    *)
RebuildRepairs ==
  \A p \in Procs :
    pc[p] = "load" ~> Current \/ raced[p] # "no" \/ pc[p] = "killed"
=============================================================================
