--------------------------- MODULE BenchmarkAssets ---------------------------
(***************************************************************************)
(* Benchmark datasets and what is cached about them: benchmark-fetch       *)
(* materializes a dataset at one level, benchmark cells read it and index  *)
(* it, and the indexes are cached.                                         *)
(*                                                                         *)
(* A dataset manifest pins the upstream revisions, the field mappings and, *)
(* with the level, the sampling.  Fetch compares that with the sidecar of  *)
(* the files it finds, downloads, and replaces corpus, queries, judgments  *)
(* and the sidecar, in this order.  A cell opens the files one after       *)
(* another.  Its cached index is named by a hash of what it has read.      *)
(* Commands are processes without locks and may be killed between steps;   *)
(* the user repins the dataset, also to an earlier pin, and removes files  *)
(* at any moment.                                                          *)
(***************************************************************************)
EXTENDS Naturals

CONSTANTS
  Pins,            \* what a dataset manifest and a level may pin
  Procs,           \* processes, each running one command after another
  MaxActs,         \* bound: what users do in a behaviour
  Absent           \* no such file, no such command

ASSUME BenchmarkAssumption == MaxActs \in Nat /\ Absent \notin Pins

Assets == {"corpus", "queries", "judgments"}

\* What a cell indexes: corpus rows, sampled around the judged documents.
Documents == [corpus : Pins, judged : Pins]

ASSUME DocumentsAssumption == Absent \notin Documents

VARIABLES
  acts,      \* what users have done so far: changes, and commands started
  pin,       \* benchmarks/contracts/datasets/<id>.yaml, as of now
  files,     \* benchmarks/materialized/<id>/<level>/: each asset's pin
  sidecar,   \* materialization.json there
  artifacts, \* index/bench/bm25/<identity>/index.bm25cache
  manifests, \* the identities whose manifest.json exists
  job,       \* the command each process runs
  written,   \* history: the pins that fetches have written files of since a fetch
             \* that met no other last wrote the sidecar
  disturbed  \* history: who interfered with a fetch, the user or another fetch

dataset == <<pin, files, sidecar, written>>
index == <<artifacts, manifests>>
vars == <<acts, dataset, index, job, disturbed>>

Idle(p) == job[p] = Absent
At(p, step) == ~Idle(p) /\ job[p].step = step
Fetching(p) == ~Idle(p) /\ job[p].kind = "fetch"

Goto(p, step) == job' = [job EXCEPT ![p].step = step]
End(p) ==
  /\ job' = [job EXCEPT ![p] = Absent]
  /\ disturbed' = [disturbed EXCEPT ![p] = {}]

\* The user changes something or starts a command.
Act == acts < MaxActs /\ acts' = acts + 1

Init ==
  /\ acts = 0
  /\ pin \in Pins
  /\ files = [a \in Assets |-> Absent]
  /\ sidecar = Absent
  /\ artifacts = [i \in Documents |-> Absent]
  /\ manifests = {}
  /\ job = [p \in Procs |-> Absent]
  /\ written = {}
  /\ disturbed = [p \in Procs |-> {}]

-----------------------------------------------------------------------------
(* The user.                                                                *)

\* Another revision, mapping or cap is checked out, or an earlier one again.
Repin(v) ==
  /\ Act
  /\ v # pin
  /\ pin' = v
  /\ UNCHANGED <<files, sidecar, written, index, job, disturbed>>

RemoveAsset(a) ==
  /\ Act
  /\ files[a] # Absent
  /\ files' = [files EXCEPT ![a] = Absent]
  /\ disturbed' = [p \in Procs |-> IF Fetching(p) THEN disturbed[p] \cup {"user"} ELSE {}]
  /\ UNCHANGED <<pin, sidecar, written, index, job>>

RemoveSidecar ==
  /\ Act
  /\ sidecar # Absent
  /\ sidecar' = Absent
  /\ UNCHANGED <<pin, files, written, index, job, disturbed>>

RemoveArtifact(i) ==
  /\ Act
  /\ artifacts[i] # Absent
  /\ artifacts' = [artifacts EXCEPT ![i] = Absent]
  /\ UNCHANGED <<dataset, manifests, job, disturbed>>

-----------------------------------------------------------------------------
(* benchmark-fetch: materialize_dataset.                                    *)

\* --force materializes without looking at what is there.
BeginFetch(p, force) ==
  /\ Act
  /\ Idle(p)
  /\ job' = [job EXCEPT ![p] = [kind |-> "fetch", pin |-> pin,
                                step |-> IF force THEN "corpus" ELSE "decide"]]
  /\ disturbed' = [q \in Procs |->
       CASE q = p /\ (\E x \in Procs : Fetching(x)) -> {"fetch"}
         [] q # p /\ Fetching(q) -> disturbed[q] \cup {"fetch"}
         [] OTHER -> {}]
  /\ UNCHANGED <<dataset, index>>

\* _determine_action: anything but a matching sidecar over present outputs.
CacheHit(p) ==
  /\ sidecar = job[p].pin
  /\ \A a \in Assets : files[a] # Absent

Materialize(p) ==
  /\ At(p, "decide")
  /\ ~CacheHit(p)
  /\ Goto(p, "corpus")
  /\ UNCHANGED <<acts, dataset, index, disturbed>>

Skip(p) ==
  /\ At(p, "decide")
  /\ CacheHit(p)
  /\ Goto(p, "skipped")
  /\ UNCHANGED <<acts, dataset, index, disturbed>>

\* Downloads of pinned revisions and seeded sampling: what a fetch writes
\* depends on its pin alone.
Write(p, asset, next) ==
  /\ At(p, asset)
  /\ Fetching(p)
  /\ files' = [files EXCEPT ![asset] = job[p].pin]
  /\ Goto(p, next)
  /\ written' = written \cup {job[p].pin}
  /\ UNCHANGED <<acts, pin, sidecar, index, disturbed>>

\* Mutant: the sidecar is written before the judgments.
WriteQueriesAndSidecar(p) ==
  /\ At(p, "queries")
  /\ Fetching(p)
  /\ files' = [files EXCEPT !["queries"] = job[p].pin]
  /\ sidecar' = job[p].pin
  /\ written' = written \cup {job[p].pin}
  /\ Goto(p, "judgments")
  /\ UNCHANGED <<acts, pin, index, disturbed>>

WriteCorpus(p) == Write(p, "corpus", "queries")
WriteQueries(p) == Write(p, "queries", "judgments")
WriteJudgments(p) == Write(p, "judgments", "sidecar")

WriteSidecar(p) ==
  /\ At(p, "sidecar")
  /\ sidecar' = job[p].pin
  /\ written' = IF "fetch" \in disturbed[p] THEN written ELSE {}
  /\ Goto(p, "fetched")
  /\ UNCHANGED <<acts, pin, files, index, disturbed>>

EndFetch(p) ==
  /\ At(p, "skipped") \/ At(p, "fetched")
  /\ End(p)
  /\ UNCHANGED <<acts, dataset, index>>

-----------------------------------------------------------------------------
(* benchmark: one cell.  A missing file ends it as failed (Fail).           *)

\* cached: the BM25 targets; the query runtime target builds its index anew.
BeginCell(p, cached) ==
  /\ Act
  /\ Idle(p)
  /\ job' = [job EXCEPT ![p] = [kind |-> "cell", step |-> "open queries",
                                cached |-> cached, corpus |-> Absent, judged |-> Absent,
                                index |-> Absent]]
  /\ UNCHANGED <<dataset, index, disturbed>>

\* _load_materialized_queries and _load_qrels: what they hold only matters to
\* the scores.
OpenScoring(p, step, asset, next) ==
  /\ At(p, step)
  /\ files[asset] # Absent
  /\ Goto(p, next)
  /\ UNCHANGED <<acts, dataset, index, disturbed>>

OpenQueries(p) == OpenScoring(p, "open queries", "queries", "open judgments")
OpenJudgments(p) == OpenScoring(p, "open judgments", "judgments", "open corpus")

OpenCorpus(p) ==
  /\ At(p, "open corpus")
  /\ files["corpus"] # Absent
  /\ job' = [job EXCEPT ![p].corpus = files["corpus"], ![p].step = "sample"]
  /\ UNCHANGED <<acts, dataset, index, disturbed>>

DocumentsOf(p) == [corpus |-> job[p].corpus, judged |-> job[p].judged]

\* Mutant: a missing file of judgments counts as no judgments.
SampleUnjudged(p) ==
  /\ At(p, "sample")
  /\ job' = [job EXCEPT ![p].judged = files["judgments"],
                        ![p].step = IF job[p].cached THEN "lookup" ELSE "build"]
  /\ UNCHANGED <<acts, dataset, index, disturbed>>

\* Both official levels have a corpus cap: the judgments are read once more.
SampleCorpus(p) ==
  /\ At(p, "sample")
  /\ files["judgments"] # Absent
  /\ job' = [job EXCEPT ![p].judged = files["judgments"],
                        ![p].step = IF job[p].cached THEN "lookup" ELSE "build"]
  /\ UNCHANGED <<acts, dataset, index, disturbed>>

\* Mutant: the identity is that of the dataset manifest, not of what was read.
IdentityFromManifest(p) ==
  [corpus |-> pin, judged |-> pin]

\* build_bm25_cache_identity.  It also hashes the corpus file, read once more;
\* without that the model shares artifacts the code keeps apart.
Identity(p) == DocumentsOf(p)

\* _cache_miss_reason; the artifact is opened in a step of its own.
Hit(p) == Identity(p) \in manifests /\ artifacts[Identity(p)] # Absent

Lookup(p) ==
  /\ At(p, "lookup")
  /\ Goto(p, IF Hit(p) THEN "load" ELSE "build")
  /\ UNCHANGED <<acts, dataset, index, disturbed>>

LoadArtifact(p) ==
  /\ At(p, "load")
  /\ artifacts[Identity(p)] # Absent
  /\ job' = [job EXCEPT ![p].index = artifacts[Identity(p)], ![p].step = "score"]
  /\ UNCHANGED <<acts, dataset, index, disturbed>>

\* corrupt_load: the artifact is gone or cannot be read.
LoadFails(p) ==
  /\ At(p, "load")
  /\ Goto(p, "build")
  /\ UNCHANGED <<acts, dataset, index, disturbed>>

BuildIndex(p) ==
  /\ At(p, "build")
  /\ job' = [job EXCEPT ![p].index = DocumentsOf(p),
                        ![p].step = IF job[p].cached THEN "store" ELSE "score"]
  /\ UNCHANGED <<acts, dataset, index, disturbed>>

WriteArtifact(p) ==
  /\ At(p, "store")
  /\ artifacts' = [artifacts EXCEPT ![Identity(p)] = job[p].index]
  /\ Goto(p, "publish")
  /\ UNCHANGED <<acts, dataset, manifests, disturbed>>

WriteCacheManifest(p) ==
  /\ At(p, "publish")
  /\ manifests' = manifests \cup {Identity(p)}
  /\ Goto(p, "score")
  /\ UNCHANGED <<acts, dataset, artifacts, disturbed>>

\* disabled_or_unwritable: the cell goes on with the index it has built.
WriteFails(p) ==
  /\ At(p, "store") \/ At(p, "publish")
  /\ Goto(p, "score")
  /\ UNCHANGED <<acts, dataset, index, disturbed>>

\* The queries are run, the metrics computed and reported.
Score(p) ==
  /\ At(p, "score")
  /\ End(p)
  /\ UNCHANGED <<acts, dataset, index>>

-----------------------------------------------------------------------------
\* The command is killed, a step raises or a cell fails: nothing is undone.
Fail(p) ==
  /\ ~Idle(p)
  /\ End(p)
  /\ UNCHANGED <<acts, dataset, index>>

User ==
  \/ \E v \in Pins : Repin(v)
  \/ \E a \in Assets : RemoveAsset(a)
  \/ RemoveSidecar
  \/ \E i \in Documents : RemoveArtifact(i)

Fetch(p) ==
  \/ \E force \in BOOLEAN : BeginFetch(p, force)
  \/ Materialize(p) \/ Skip(p)
  \/ WriteCorpus(p) \/ WriteQueries(p) \/ WriteJudgments(p) \/ WriteSidecar(p)
  \/ EndFetch(p)

Cell(p) ==
  \/ \E cached \in BOOLEAN : BeginCell(p, cached)
  \/ OpenQueries(p) \/ OpenJudgments(p) \/ OpenCorpus(p) \/ SampleCorpus(p)
  \/ Lookup(p) \/ LoadArtifact(p) \/ LoadFails(p)
  \/ BuildIndex(p) \/ WriteArtifact(p) \/ WriteCacheManifest(p) \/ WriteFails(p)
  \/ Score(p)

Next == User \/ \E p \in Procs : Fetch(p) \/ Cell(p) \/ Fail(p)

Spec == Init /\ [][Next]_vars

-----------------------------------------------------------------------------
(* Properties.                                                              *)

FetchJobs == [kind : {"fetch"}, pin : Pins,
              step : {"decide", "corpus", "queries", "judgments", "sidecar", "skipped", "fetched"}]
CellStep(steps, corpus, judged, found) ==
  [kind : {"cell"}, cached : BOOLEAN, step : steps,
   corpus : corpus, judged : judged, index : found]
CellJobs == CellStep({"open queries", "open judgments", "open corpus"},
                     {Absent}, {Absent}, {Absent})
            \cup CellStep({"sample"}, Pins, {Absent}, {Absent})
            \cup CellStep({"lookup", "load", "build"}, Pins, Pins, {Absent})
            \cup CellStep({"store", "publish", "score"}, Pins, Pins, Documents)

TypeOK ==
  /\ acts \in 0..MaxActs
  /\ pin \in Pins
  /\ files \in [Assets -> Pins \cup {Absent}]
  /\ sidecar \in Pins \cup {Absent}
  /\ artifacts \in [Documents -> Documents \cup {Absent}]
  /\ manifests \subseteq Documents
  /\ job \in [Procs -> FetchJobs \cup CellJobs \cup {Absent}]
  /\ written \subseteq Pins
  /\ disturbed \in [Procs -> SUBSET {"user", "fetch"}]

(* A cell searches an index of the very documents it has read, whatever     *)
(* fetches, cells and removals overlap and wherever they die: that is what  *)
(* load_or_rebuild_bm25_cache calls a hit.                                  *)
IndexFitsDocuments ==
  \A p \in Procs : At(p, "score") => job[p].index = DocumentsOf(p)

(* However often the dataset is repinned and fetches overlap or die, a fetch *)
(* ends with the files of its pin, as "Fetch and materialize pinned          *)
(* benchmark datasets" promises, but for what the user removed meanwhile and *)
(* for these: a fetch that met another may lose files to it; and one that    *)
(* takes a matching sidecar for the files ("cache_hit") may have files of    *)
(* fetches since that one which died among their writes or met another.  So  *)
(* one fetch that is forced and alone puts everything right.                 *)
FetchYieldsPinned ==
  \A p \in Procs : At(p, "skipped") \/ At(p, "fetched") =>
    \A a \in Assets :
      \/ files[a] = job[p].pin
      \/ files[a] = Absent /\ "user" \in disturbed[p]
      \/ files[a] \in written /\ (At(p, "skipped") \/ "fetch" \in disturbed[p])
=============================================================================
