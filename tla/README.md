# snowiki in TLA+

TLA+ models of snowiki, the TLC runs that check them on small instances, and
TLAPS proofs of what matters most about them. Snowiki is a command-line wiki: it
ingests Markdown sources, accepts reviewed answers, prunes what lost its source,
compiles everything into pages and a search index, and serves them to agents. All
of its state is files below one root, and **no command takes a lock**. Each command
is an operating-system process, so two commands interleave file by file and any of
them can die between two writes. Half of the models are about that; the other half
are about code that computes an answer others rely on: pages and their links, the
verdicts of status, lint and the promotion gate, rankings, replies.

Paths are relative to the repository; `snowiki/` stands for `src/snowiki/`.

- [The system](#the-system): components, their state and what makes them correct
- [The modules](#the-modules): what is modelled, and how it corresponds to the code
- [The runs](#the-runs): what each one shows, with which bounds and fairness
- [Findings](#findings)
- [The proofs](#the-proofs)
- [What is left out](#what-is-left-out)
- [Plan](#plan)

## The system

### Storage zones

| zone | written by | content |
|---|---|---|
| `raw/markdown/` | ingest | source bytes, named by their hash; written once, deleted only by prune |
| `raw/manual/questions/` | fileback apply | one note per accepted answer, dated by its proposal |
| `normalized/markdown/documents/` | ingest, prune | one latest-only record per source file |
| `normalized/manual-question/` | fileback apply | one record per question and day |
| `compiled/` | materialization | pages; emptied and rewritten as a whole |
| `index/manifest.json` | materialization, last | identity of `normalized/` and `compiled/`, retrieval identity, counts |
| `index/source-prune-tombstones.json` | prune | what was deleted, and when |
| `queue/proposals/pending/` | fileback preview, apply, reject | proposals that await review |

A single file is replaced atomically (`mkstemp`, `fsync`, `os.replace` in
`snowiki/storage/zones.py`). Nothing spans two files.

### Components

| component | state | operations | what is hard, and what makes it correct |
|---|---|---|---|
| operation pipeline (`operations/`) | none of its own | ingest, reviewed fileback, source prune, rebuild | several writes, then materialization; every intermediate state is visible and a failure rolls nothing back |
| materialization (`operations/finalizer.py`, `compiler/engine.py`, `search/runtime_retrieval.py`) | `compiled/`, manifest | load, empty, write pages, take identity, build snapshot, take identity, write manifest | concurrent writers and rebuilds; a manifest that looks current must describe what is on disk |
| content identity (`storage/index_manifest.py`) | manifest | identity of a layer, two readers of the manifest, comparison, legacy manifests | a stale layer must never compare equal; the two readers must agree |
| compiler generators (`compiler/`) | none | pages, merging, back-linking | slugs collide, links change while they are followed; no record may get lost |
| fileback (`fileback/`, `cli/commands/fileback.py`) | pending queue, notes, records | preview, queue, apply, reject | evidence that moves between review and apply, kills between note, record and removal; nothing unreviewed becomes memory, nothing pending gets lost |
| raw and normalized storage (`storage/`) | `raw/`, `normalized/` | store file, store record | provenance: every cited snapshot exists |
| source state and prune (`markdown/source_state.py`, `source_prune.py`) | tombstones | classify, plan, count references, delete, record deletions | the plan is stale when it is executed; deletes neither too much nor too little |
| status, lint, gardening (`status/`, `lint/`, `gardening/`) | none, read-only | report, propose | agree with the workspace and with each other, also over damaged and legacy files |
| search snapshot cache (`search/cache.py`) | LRU of eight snapshots per process | get or build, evict | the key is computed before the snapshot it names is built |
| search and recall (`search/`) | none | window, candidates, score, order, blend, route | candidates are cut before boosts; window boundaries; a kind crowded out |
| MCP server (`mcp/`) | facade, frames | initialize, list, call, read over stdio | an exception nobody catches ends the server; names that collide |
| benchmark fetch (`benchmark_fetch.py`) | dataset files, sidecar | decide, download, write | the sidecar written last must describe the files next to it |
| benchmark cells and index cache (`bench/`, `benchmark_targets.py`) | cached indexes | read dataset, look up, load, build, store | a dataset that changes while it is read; a hit must be the index of what was read |
| promotion gate (`benchmark_gates.py`) | none | choose cells, compare, decide | thresholds, missing and repeated measurements; the verdict must be monotone |
| benchmark metrics, legacy registries, session adapters, privacy gate, CLI | see [What is left out](#what-is-left-out) | | |

### How they interact

```
 source files --ingest-->  raw/markdown --+
                           normalized/  --+--materialize--> compiled/ --> manifest
 reviewer --preview/queue--> pending --apply--> raw/manual,    ^             |
                    \--reject-->               normalized/ ----+       status, search,
 missing sources --prune--> deletes records, then snapshots ---+       query, MCP read it
```

`apply_ingest`, `apply_reviewed_fileback` and `apply_source_prune`
(`snowiki/operations/service.py`) change `raw/` and `normalized/` first and then
call `RebuildMaterializer.materialize`; `apply_rebuild` only materializes. The
models follow that seam: `SourceMemory` and `FilebackQueue` have the accepted
memory, `Materializer` has everything derived from it. Benchmarks share only the
root with them: `benchmark-fetch` writes `benchmarks/materialized/`, `benchmark`
reads it and caches its indexes below `index/bench/`; `BenchmarkAssets` has both.

## The modules

| module | role |
|---|---|
| `Materializer` | mutation of `normalized/` and rebuild materialization of concurrent commands |
| `FilebackQueue` | preview, queue, apply, reject of concurrent commands |
| `ReviewedMemory` | abstract specification: what the fileback flow promises a reviewer |
| `SourceMemory` | ingest, answers and prune over `raw/`, `normalized/` and tombstones |
| `BenchmarkAssets` | fetches of a benchmark dataset, cells that read it, the cache of their indexes |
| `PageLinks` | related links of a list of pages, and the loops over them, as operators |
| `SymmetricLinks` | abstract specification: links are replaced by their symmetric closure |
| `CompiledPages` | compiler from records to pages on disk, with lint's graph checks |
| `IndexManifest` | shapes, readers and comparison of the manifest |
| `SourceGardening` | source states and gardening's proposals |
| `WikiHealth` | a workspace with all that can be wrong in it; lint and status over it; uses the two above |
| `PromotionGate` | reports, their cells and the verdict of the analyzer gate |
| `RetrievalCache` | calls through the LRU of snapshots beside other processes' writes |
| `SearchRanking`, `RecallFacade` | search and recall; the read-only facade over pages and sessions |
| `RecallServer` | the MCP server on its stdio; uses the two above |
| `MC...` | small instances: symmetry sets and values of constants |
| `...Proofs` | TLAPS proofs about the module they extend; `BenchmarkProofs` about `BenchmarkAssets` and `PromotionGate` |

In the models of commands each process has a program counter (`pc`) or a job record
whose `step` names the next effect of the command. An action is one effect other
processes can observe, together with all the local computation around it. `Kill(p)`
ends a command between any two effects and stands for SIGKILL as well as for an
exception no action of its own stands for; no code path undoes earlier effects in
either case. Code that only computes is operators of the state.

### Materializer

| TLA+ | code |
|---|---|
| `StoreRecord`, `StoreUnchanged` | `store_markdown_document` (skips an equal hash), `store_record` |
| `DeleteRecord`, `SkipDeleted` | `_delete_candidates` |
| `EndMutation` | the early returns and the `rebuild` flag in `service.py`; a prune that deleted no record may have deleted snapshots, which count too |
| `LoadRecords`, `ListCompiled`, `WritePage` | `CompilerEngine.rebuild` |
| `RemovePage`, `RemoveMissing`, `SkipMissing` | `_reset_compiled_zone`: `unlink` and `rmtree` |
| `ScanNormalized` .. `WriteManifest`, `RefuseManifest` | `RebuildMaterializer.materialize` |
| `RejectTokenizer` | `build_retrieval_snapshot` raising `StaleTokenizerArtifactError` |
| `Current` | `compare_index_identity` reporting `current` |
| `Upgrade` | another version with another default tokenizer is installed |

Abstractions:

- A layer identity (newest mtime, file count, content hash) is the number of
  mutations so far and the content. So mtimes are taken to differ from one
  mutation to the next. Where a clock is too coarse for that, the
  content hash still tells most states apart, but `NoSilentMutation` would fail
  for content that returns to its old value within one tick.
- Loading all records, or scanning one layer, is one step. A scan of both layers
  is two, in the order of the code.
- A page is identified with the record map it was built from, since backlinks and
  navigation make it depend on all of them. The navigation pages are one page.
- `rmtree` removes what it finds when it gets to a directory; hence `RemovePage`
  may also remove a page written after the listing. It takes no notice of a file that
  another rebuild removed first (`SkipMissing`), and fails only where its directory is
  gone (`RemoveMissing`), which the model takes it to be when no page is left there.
- A leftover `.tmp` file of a killed `atomic_write_bytes` only makes a manifest
  stale; it is not modelled.
- A process runs one command in a behaviour. The in-process query cache, which it
  clears, is in `RetrievalCache`. Upgrades happen when no command runs.
- `manifest.raced` and `raced` are history variables: whether a foreign write
  landed while the writing run was compiling, or while it was validating.

### FilebackQueue and ReviewedMemory

| TLA+ | code |
|---|---|
| `Preview`, `PreviewAndQueue` | `build_fileback_proposal`, with or without `--queue` |
| `CheckQueue`, `AlreadyQueued`, `Enqueue` | `_ensure_no_existing_state` and the write after it, from which on the proposal is shown |
| `ApplyQueued`, `ApplyFile` | `fileback queue apply`, `fileback apply` of a saved proposal |
| `Resolve` (`UseEvidence`), `RefuseEvidence` | evidence resolved again, write set built from it and compared (`validate_apply_plan`) |
| `WriteNote`, `StoreRecord`, `Materialize`, `MaterializeFails` | `apply_reviewed_fileback` |
| `Reject`, `Unlink`, `UnlinkMissing` | removal of the pending file, by name |

A question stands for one draft with its requested paths, hence for one proposal
id, which does not contain the creation time. A proposal keeps of its creation
time the day, which is what its paths keep. Evidence is a version of what
`resolve_evidence` returns; ingest, prune and rebuild change it
(`ChangeEvidence`). What an apply writes is what it resolved (`resolved`), not what the
proposal says. Materialization succeeds or fails in one step here; its
insides are in `Materializer`. Schema, root and symlink checks end a command
before it changes anything, like a command never started.

`ReviewedMemory` has no processes, files or failures: proposals are offered,
submitted (and shown by that), accepted and settled, a proposal enters memory only if it was offered,
and leaves the inbox only if rejected or answered. `PromiseKept` says
`FilebackQueue` implements it. The mapping is by name: `offered`, `pending`,
`memory`, `verdict` and `Days` are those of `FilebackQueue`.

### SourceMemory

| TLA+ | code |
|---|---|
| `ReadBytes` | `RawStorage.store_file`: read, hash, write if absent |
| `ReadText` | the second read, as text, in `_store_markdown_source` |
| `StoreDocument`, `KeepDocument` | `store_markdown_document` |
| `ResolveEvidence`, `StoreAnswer` | `apply_reviewed_fileback`, as far as provenance goes |
| `BeginPrune`, `CountReferences` | `collect_markdown_source_state`, `raw_reference_counts`, candidates |
| `DeleteRecord`, `DeleteSnapshot` | `_delete_candidates`, records sorted before snapshots |
| `ReadTombstones`, `WriteTombstones` | `_write_tombstone` |
| `Edit` | the user changes or deletes a source file, at any moment |

A snapshot is named by its content. A fileback answer cites one snapshot; its own
manual note is never a prune candidate and is in `FilebackQueue`. Documents of
one ingest come in any order. The comparison and the write of
`store_markdown_document` are one step, and so are the existence check and the
write of a snapshot. A dry-run prune changes nothing, and the CLI only ever prunes
all candidates. Any command may overlap any other. Overlaps do damage, so the
properties say exactly which one excuses what, with five history variables: `met` (the
kinds of command that ran beside a prune), `disturbed` (the documents whose file,
record or snapshot somebody else touched while an ingest ran), `torn` (documents last
stored by an ingest disturbed in them), `stolen` (snapshots deleted by a prune that
met another command) and `buried` (tombstones of prunes that met no other prune).

### BenchmarkAssets

| TLA+ | code |
|---|---|
| `pin` | the dataset's YAML contract: revisions, files, mappings; with the level's caps |
| `BeginFetch`, `CacheHit`, `Materialize`, `Skip` | `materialize_dataset` up to its early return, `_determine_action` |
| `WriteCorpus`, `WriteQueries`, `WriteJudgments`, `WriteSidecar` | the four writes, in this order, each an atomic replacement |
| `BeginCell`, `OpenQueries`, `OpenJudgments` | `run_cell`, `_load_materialized_queries`, `_load_qrels` |
| `OpenCorpus`, `SampleCorpus` | `_load_materialized_corpus_rows`, which reads the judgments once more |
| `Identity`, `Hit`, `Lookup`, `LoadArtifact`, `LoadFails` | `build_bm25_cache_identity`, `_cache_miss_reason`, `load_or_rebuild_bm25_cache` |
| `BuildIndex`, `WriteArtifact`, `WriteCacheManifest`, `WriteFails` | the rest of `load_or_rebuild_bm25_cache` |
| `Score` | queries run, metrics computed |
| `Fail` | a cell that ends as failed, an exception, a kill |
| `Repin`, `RemoveAsset`, `RemoveSidecar`, `RemoveArtifact` | the user, at any moment |

One dataset at one level and one BM25 target. What a fetch writes is a function of
its pin, since revisions are pinned and the sampling seeded; so a file is
represented by the pin it was made for. A cell's documents are given by the
corpus it opened and the judgments it sampled around. The code's cache identity
also hashes the corpus file, read a third time; the model leaves that out and
shares more artifacts than the code does. Both levels of the official matrix have
a corpus cap; without one (and for the committed JSON dataset, which is never
fetched) the second read of the judgments does not happen. The targets that cache
and the one that does not differ in `cached`. The dry run of a fetch changes
nothing. Temporary files, and the cache the `datasets` library keeps of its own, are
not modelled. Two history variables: `disturbed` (the user or another fetch
interfered with a running fetch) and `written` (the pins of files that fetches wrote
since one that met no other last wrote the sidecar).

### PageLinks, SymmetricLinks, CompiledPages

| TLA+ | code |
|---|---|
| `Owns` | `pages_by_path`, where a later page of the same path hides an earlier one |
| `DropSelf`, `Propagate`; `DropSelfLinks`, `PropagateNext` | the two loops of `apply_backlinks`, one page per step |
| `SummaryPage`, `ItemPage`, `SessionPage`, `LogPage`, `IndexPage`, `OverviewPage` | the generators; `ItemPage` with the merging of `upsert_page` |
| `GeneratedPages`, `BuildPages` | `load_normalized_records`, `build_pages` up to back-linking |
| `WritePages` | `rebuild`: empty `compiled/`, write in list order |
| `BrokenLinks`, `Orphans` | lint's L201 and L301 over the pages on disk |
| `AddRecord`, `RemoveRecord` | ingest, fileback and prune of other processes |

`SymmetricLinks` says in one step what the loops are to achieve; `CompiledPages` has
them over the pages a compiler really makes, where two may share a path, and is
checked and proved to implement it. Slugs are
constant maps from titles, sessions and records: the code's `slugify` keeps ASCII
letters and digits, so all Korean titles become `untitled` and share a page, and an
answer accepted on two days has two records of one id, title and summary path. Texts
keep only their wikilinks, by the text they are in (`Texts`), since pages copy
different texts of a record: its summary goes to its own page, those of its items and
session and the catalog, its answer to questions, projects and decisions. Titles and
descriptions of items are taken to hold no wikilink. An answer may cite any page that
was on disk when it was accepted. Writing is one step here and file by file in
`Materializer`.

### IndexManifest, SourceGardening, WikiHealth

| TLA+ | code |
|---|---|
| `Load`, `LoadNew`, `LoadLegacy`, `LegacyRetrieval` | `load_index_manifest`, strict reader, with three legacy shapes of the tokenizer |
| `GuardIdentity`, `GuardAdmits` | `load_manifest_retrieval_identity`, lax reader, before a search or a rebuild |
| `Reasons`, `Freshness`, `ManifestIssues` | `compare_index_identity`, `explain_index_freshness`, their lint issues |
| `SourceItems` (`State`, `TrustedRoots`, `Untracked`) | `collect_markdown_source_state` |
| `Renames`, `ManualProposals`, `Proposals` | `collect_source_gardening_proposals` |
| `EditSource`, `MoveSource`, `MonthPasses`, `Damage...`, `LoseSnapshot`, `LegacyRebuild`, `Upgrade` | people, disks, time, earlier and later versions |
| `Ingest`, `Rebuild` | the commands, each as one step (their steps are in the modules above) |
| `StructuralIssues` .. `SummaryIssues`, `LintIssues`, `Raises` | the checks of `run_lint` |
| `StatusIssues` | `_status_lint_summary` |

A manifest is a record with any fields; `Junk` is any value of the wrong type. What a
person or an older version may leave in a normalized record is one of nine `Flaws`
(not JSON, not an object, a missing key, no projection, no title, no summary, an
unreadable date, no raw reference, unsound source metadata), one per record. The links
a text holds (`Body`, `Summary`) are copied to the page of its record and those of the
summary to the index (`Quoted`, `Catalogued`), whether the pages they name exist or not. A place is a source root with a path below
it: a root inside another gives one file two places. Ages are two (`today`), since
lint knows one threshold, thirty days.

### PromotionGate

Each `_evaluate_...` function of `benchmark_gates.py` is an operator (`PublicKorean`,
`PublicEnglish`, `Latency`, `RequiredSlices`, `SnowikiKorean`, `SliceRegressions`,
`GoldenQueries`), `Evaluate` is their conjunction for all candidates, `FindCell`,
`SlicePairs` and `MetricValue` choose what they compare. A metric may be absent from
a cell, a slice or a query. The actions produce reports a benchmark may produce: a
cell fails, a candidate's cell gets better, another report is combined. Scores are
whole hundredths, so that thresholds are met exactly; the code has floating-point
numbers, whose rounding at a threshold is not modelled.

### RetrievalCache

| TLA+ | code |
|---|---|
| `Begin` | `validate_runtime_manifest_tokenizer`; a call may begin without a manifest |
| `ListLayer`, `Stat`, `Hash` | `current_layer_identity`: list, then stat and hash file by file; a file that is gone is skipped |
| `SnapshotKey`, `LayerKey` | `snapshot_cache_key` |
| `Hit`, `Miss`, `Finish`, `Kept` | `lru_cache` around `_build_search_snapshot_cached` |
| `List`, `Read`, `Vanished` | `load_normalized_records`: list, then read file by file |
| `ClearCache` | `clear_query_search_index_cache` |
| `Store`, `Prune`, `Rebuild` | other processes, at any moment |

A snapshot is what was read of the records, since pages are compiled from them in
memory. Others write between any two steps of a call: between the stats of two files,
between a stat and its hash, between the scan and the lookup, between two reads. Only
the scan of `compiled/` that follows is one step, with the lookup. `was` is a history
of what the records of the call's workspace have held since it began. The clock of the
file system advances with each write; where it is too coarse, the content hash in the
key still tells the layers apart.

### SearchRanking, RecallFacade, RecallServer

| TLA+ | code |
|---|---|
| `InWindow`, `DateWindow`, `TemporalWindow` | `_eligible_corpus`, `iso_date_window`, `_detect_temporal_window`; both ends of a window belong to it |
| `Candidates` | `BM25SearchIndex.search`: the best by relevance, cut at the policy's limit; bm25s leaves ties at the cut open, so several sets may be the candidates |
| `Accepted`, `Score`, `Precedes` | `RuntimeScoringPolicy`: what is a hit, its score, `sort_key` |
| `Listed`, `Arranged` | a sort: each element of a set at the place that the number of those before it gives |
| `BlendHitsByKind` (`Round`, `TakenBefore`) | `blend_hits_by_kind`: hits in the order of their rounds |
| `Strategy`, `Recall` | `run_authoritative_recall` |
| `PageByPath`, `PageBySlug`, `SessionByKey`, ... | tables of `SnowikiReadOnlyFacade`, where later entries replace earlier ones |
| `SearchTool`, `RecallTool`, `GetPageTool`, `ResolveLinksTool`, `...Resource` | tools and resources, each returning or raising |
| `UriName` | `urlparse` and `unquote` as `read_resource` uses them: the text a URI is read as |
| `Receive`, `Ignore`, `Respond` | `serve_stdio`, `read_message`, `handle_message` |
| `Repeated`, `Encodes` | what of a message its reply repeats, and whether `write_message` can encode it |
| `Send`, `Tick` | client and clock |

`Relevance` (what BM25 computes) is a constant operator; TLC uses one that sums how
rare the shared terms are. Scores are in tenths. A path, a title or an id is a
sequence of segments, because a URI treats a slash apart. How a URI is read is a
constant operator too, and TLC's changes ids with a slash, `#` and `%` and fails for a
bracket. Malformed frames, unknown methods, tools and URIs, write operations, bad and
missing parameters, and strings with a lone surrogate, which JSON may escape and UTF-8
cannot encode, are all sent. An exception that `call_tool` or `read_resource` does not
catch, or one of `write_message`, ends the server, as it does in the code. Texts of a
wiki have no lone surrogate: they were read from files written as UTF-8.

## The runs

Bounds are named constants: `MaxTokenizer` (upgrades), `MaxDay` (days), `MaxEdits`,
`MaxChanges` and `MaxWrites` (edits, changes of a workspace or report, writes of
other processes), `MaxActs` (what users do with a dataset),
`MaxCalls`, `MaxFrames`, `MaxTime`. Deadlock checking is off
wherever the system really stops: each process of `Materializer` runs one command,
users need not start another, a server ends, and bounds on what the environment does
are used up. It is on for `wiki_compile`, where a rebuild is always possible.

| run | bounds | shows |
|---|---|---|
| `materializer_concurrent` | 2 commands of any kind, 1 document, 1 question, 1 upgrade | a current manifest counts the records on disk; stands over complete pages unless its own compilation was disturbed; every change is noticed; success of an undisturbed run means current |
| `materializer_upgrade` (violation) | 2 rebuilds, 1 upgrade | finding 3 |
| `fileback_overlap` | 2 processes, 1 question, 2 days, 2 versions of the evidence | notes precede records; the flow implements `ReviewedMemory` |
| `fileback_approval` (violation) | 1 process | finding 1 |
| `memory_writers` | 2 processes, 2 documents, 1 answer, 2 contents, 2 edits; every command may overlap | references resolve but for what an overlapped prune deleted; a prune that met nobody leaves no unshared orphan; an ingest records each file nobody touches meanwhile; tombstones of prunes that met no other stay |
| `memory_torn_ingest` (violation) | 1 process, 1 edit | finding 2 |
| `bench_overlap` | 2 processes, 2 pins, 7 acts of users (changes, commands) | a cell searches the index of the documents it read; a fetch yields the files of its pin, but for what is named |
| `wiki_compile` | 3 records of which 2 share a summary slug, 2 titles and 2 sessions that share slugs, 4 edits | lint finds no orphan and no broken link but copied ones; related pages are related both ways; every record is on its pages, within their dates, unless another has that very page; the loops implement `SymmetricLinks` |
| `wiki_health` | 2 roots (one nested), 4 files, 2 contents, 9 flaws, 3 legacy shapes, 4 changes | the readers of the manifest agree; status and lint agree; a workspace without an error can be rebuilt; each source is in one proposal; a moved file is offered as a rename; after a rebuild all lint says of pages and index are broken links of the texts, or it shows the manifest the rebuild could not replace |
| `promotion_gate` | 1 candidate, 3 datasets, 2 levels, every report near a threshold, 2 changes | a gate never refuses a candidate for getting better, passes none for failing to be measured, and ignores a candidate's reruns |
| `snapshot_cache` | 2 roots, 2 records, 2 contents, capacity 2, 2 writes, 4 calls | an answer misses nothing that was there when its call began; what it has was on disk while the call ran, unless its fill was disturbed |
| `recall_server` | 4 wikis, 2 frames of some 50 messages, two days of two seconds | every request that no harmful frame precedes is answered once and in its turn; names in replies whose URI is read as written can be read; searches show the best of each kind; relative days are calendar days, and the midnight after |

Why the bounds are enough to be interesting. Two processes are the smallest overlap,
and every race below is between two. One document, one question and the navigation
page give pages in separate directories, so that a removal, a missing page and a
partial rebuild all occur. Initial workspaces of `Materializer` are any record map,
either never built or current, so a rebuild also starts over leftovers. Two days
separate the two paths one question may have. Two edits, over any initial files,
let one be changed, deleted or deleted and restored while commands run; two documents over two
contents let them share a snapshot or not. Two pins and three files let a cell read a
mixture, and a fetch die over one; seven acts are a fetch, a repin, a fetch that dies,
the way back, a fetch that trusts the sidecar, and two more. Four edits of three records let a page be shared,
lose a contributor and be cited after it is gone. Four changes of a workspace are an
ingest, a rebuild, a damage and a second rebuild, or an ingest, a move and an
upgrade. A capacity equal to the number of roots makes a new key of one root evict
the other's; two writes are an add and the prune that takes it back. Two frames are a
reply and a request that uses what it named, or a fault and the request after it. The
theorems remove the bounds for the properties they cover.

Symmetry is used only in runs without liveness, over sets whose members no definition
tells apart (processes, documents, contents, answers, versions, pins, roots,
records).

Fairness. `Materializer!FairSpec` assumes `WF_vars(Step(p))` for each process, no
more than that the operating system runs a started command. Nothing makes a user
start a command, and nothing makes a kill, an upgrade or an edit happen. A run of
materialization has no loop in it, so weak fairness suffices. `RecallServer!Spec`
assumes that the loop of `serve_stdio` goes on: `WF_vars(Receive)`, and weak fairness
of handling what was read. No fairness is assumed of client or clock.

Each property of a passing run has a mutant in `PROJECT.json`: a bug of a plausible
kind (a missing mtime, an identity taken too late, evidence that is not compared with
what was reviewed, a reference count that forgets answers, a key without its root, the later of
two cells, an exception that is not caught, ...) that TLC finds to break that
property. They are kept in the modules, marked `Mutant`, right before the definition
they spoil.

## Findings

The runs named *violation* check what a document of the repository says; TLC shows a
behaviour of the code that does otherwise.

1. **A failed apply is durable** (`OnlyApprovedIsDurable`). The record is stored
   before materialization and not rolled back; the proposal stays pending and may
   then be rejected, with its answer in memory.
   `docs/architecture/cli-command-taxonomy.md:91` says durable changes enter only
   after an apply path succeeds.
2. **An edit during ingest stores a body under another content's hash**
   (`SnapshotIsAcceptedContent`). `service.py:356-357` reads the file twice;
   ingesting the hashed content again reports "unchanged" and keeps the wrong body.
3. **Rebuild cannot repair a stale tokenizer** (`RebuildRepairs`). The manifest of
   another retrieval identity stops every search with "rebuild required"
   (`search/tokenizer_compat.py:26`); `runtime_retrieval.py:27` validates the same
   manifest in the middle of the rebuild that is about to replace it. So the rebuild
   writes the pages and fails with the message that asked for it, until the manifest
   is removed by hand. An invalid manifest does the same (second alternative of
   `RebuildClearsOrStaysRed`). With `MaxTokenizer = 1` the property holds: a rebuild
   that is neither killed nor disturbed repairs everything else.

### Known disagreements without a run

The models show these as well; a constant or an invariant to try is given where one
suffices. They bound what the properties above may claim.

- **A write during compilation is blessed.** `finalizer.py:64` takes the first
  identity after the pages were compiled from records loaded at line 58. What another
  command stores in between is part of both identities and of no page, and status
  says current, though `docs/architecture/operation-materialization-boundary.md:50`
  says writing the manifest last prevents that. (`Materializer`, invariant `Current
  => compiled = PagesOf(normalized)`; hence `~manifest.raced` in
  `BlessedPagesAreComplete`.) Taking the first identity before the load would close
  it for `normalized/`.
- **A rejected answer may be in memory.** Reject removes the pending file while an apply
  of it runs; the apply stores the answer and then fails to remove the file.
  `PromiseKept` says nothing of it: memory may answer a question whatever became of
  its pending file.
- **Prune overlapping another command deletes a cited snapshot.**
  `source_prune.py:98` counts, line 123 deletes later; the result is lint's L102. Two
  prunes lose a tombstone. Hence `stolen` in
  `NoDanglingReference` and `buried` in `TombstonesAccumulate`.
- **A snapshot shared by two missing documents is orphaned.** Its count is two, so it
  is no candidate; both records go, and no later prune can find it. Hence the
  second alternative of `PruneRemovesUnshared`.
- **A cache hit over files of two pins.** `benchmark_fetch.py:146` writes the sidecar
  last, but the old one stays while the outputs are replaced. A fetch of a second pin
  that dies leaves it, and back at the first pin `_determine_action` skips. Two
  fetches of different pins at once mix their files as well. Hence the third
  alternative of `FetchYieldsPinned`.
- **The recall tool ends the server.** A `reference_time` without a zone raises
  `TypeError` in a temporal recall, dates at either end of time `OverflowError`, a
  URI with unpaired brackets an uncaught `ValueError`, and a lone surrogate in an id or
  in a method, tool, URI or query that the reply repeats `UnicodeEncodeError`
  (`mcp/stdio.py:38`). `Harmless` in `RecallServer` names these;
  `EveryRequestIsAnswered` is about requests none of them precedes.
- **Yesterday has today's pages.** Windows include both ends (`search/engine.py:84`),
  yesterday's ends at midnight (`search/temporal.py:22`), and compiled pages are dated at
  midnight (`compiler/taxonomy.py:33`). `RelativeDaysAreDates` says so. After midnight
  "today" remains the day the server was created.
- **Listed sessions that cannot be read.** Any id is put into a URI as it is
  (`mcp/server.py:155`), and reading unquotes it and drops what follows `#` or `?`, so
  such an id is not found or another session is read. Hence `UriName(uri) = uri.text`
  in `NamesCanBeRead`.
- **A pruned record is answered once more.** A cache fill disturbed by an add and a
  prune that takes it back stays under the key of the restored layer; hence
  `NoRecordIsMissed` says nothing of pruned records.
- **One damaged record stops everything.** A record that is not JSON makes lint and
  status raise (so issue L010 never appears in a report that is finished), and one
  without a title or summary or with an unreadable date (`schema/projection.py:90`,
  `compiler/taxonomy.py:33`) stops every rebuild, while lint only says that the index
  is stale and wants a rebuild. Hence the precondition of `StatusAndLintAgree` and
  `CleanReportCanBeRebuilt`, and that the latter names no record. Ingesting an
  unchanged source again keeps its flawed record.
- **A broken link in a text is an error for good.** The compiler copies texts with
  their wikilinks (`markdown/ingest.py:197`), and lint reports as L201 those that name
  no page; only an edit of the source removes them. Hence `CopiedBroken` in
  `RebuildClearsOrStaysRed`.
- **The gate asks little of the baseline.** A baseline cell that failed hides a
  regression of its slice or golden query; of duplicated candidate cells the first
  counts, of duplicated baseline cells every one; the public Korean and English
  checks look at the first level that can be compared.
- **An answer accepted on two days has one summary page.** Its two records have one id
  and title, so `summary_path_for_record` (`compiler/paths.py:13`) gives both one path
  and the later page overwrites the other, with its date. Hence the alternatives of
  `RecordsAreFiled`.
- **A moved file in a root that lost its last tracked file** is no longer trusted and
  no rename is offered; with nested roots one file is a candidate twice. Hence the
  guards of `MoveIsProposed`.
- A second apply of a question on the same day with another body, killed between note
  and record, leaves the new note beside the old record (`service.py:182`). The
  judgments of a dataset are opened for the scores and once more for the sample
  (`bench/runner.py:96`), as `OpenJudgments` and `SampleCorpus` have it.

## The proofs

TLAPS proves these for every value of the constants that satisfies the modules'
assumptions: any finite or infinite set of processes, documents, questions,
workspaces or paths, any number of days, edits, writes and upgrades.

**Materializer** (`MaterializerProofs`): `TypeCorrect`, `IndexIsCurrent`,
`BlessedPages`, `MutationsNoticed`, `SuccessIsCurrent`. None of the invariants is
inductive alone, because `Current` compares the disk with identities some process
took long ago.

- `TickInv`: no identity, in a manifest or in a process, is from the future; one that
  has today's mutation count has today's records, and so has the snapshot loaded
  between two identities of the same count. Gives `IndexIsCurrent` and, because a
  mutation increments the count, `MutationsNoticed`.
- `PageInv`: while a process not disturbed compiles, the records are those it loaded,
  and every page outside its `todo` is already removed or already as built; once it
  has taken an identity, that identity is of complete pages. A manifest inherits this
  from the process that wrote it, unless marked `raced`. Gives `BlessedPages`.
- `FreshInv`: of a process not disturbed at all, the identity taken is still the
  present one and its retrieval identity is the installed one. Gives
  `SuccessIsCurrent`.

**FilebackQueue** (`FilebackQueueProofs`): `TypeCorrect`, `NotePrecedesRecord` and
`FlowKeepsPromise`, the whole refinement of `ReviewedMemory`. The strengthening
`Inbox` says what a job in flight knows: its proposal was offered, unless it is a
preview still to be queued; from the note step on it holds the evidence that was
reviewed (`AsReviewed`); past the note step
its note exists; past the record step its question is answered. The last conjunct is
why removing a pending file by name is harmless: the file may be a newer proposal of
the same question, and that question is answered.

**SourceMemory** (`SourceMemoryProofs`): `TypeCorrect`, `ReferencesResolve`,
`UnsharedRemoved`, `TombstonesKept` and `FilesRecorded`, with every command free to
overlap every other. None of the properties is inductive.

- `Meets`: a prune has met all that run beside it; so one that has met nobody is
  alone, and what it counted is still so.
- `Plans`: such a prune's planned records still have the planned hashes, the snapshots
  it is to delete are cited by none but those, and each planned snapshot still goes,
  is cited beside the plan, or is shared in it. `OneReference` and `NoCandidate` take
  the count to the set: a count of one leaves nobody but the planned record, any other
  count leaves somebody outside the plan or a second planned record.
- `HashHeld`: the snapshot of a hash that an ingest or a fileback holds is there, or
  was stolen; with the above, `Provenance`.
- `RegistryFresh`: the registry a prune has read contains what was buried, since
  whoever writes meanwhile has met this prune.
- `Attentive`: what an ingest is done with is recorded as it is, and what it holds is
  of the file it works on, for every document nobody disturbed; `Bodies`: only torn
  records have another body than their hash says.

**BenchmarkAssets** (`BenchmarkProofs`): `TypeCorrect`, `IndexTheorem` and
`FetchTheorem`. `IndexInv`: an artifact is the index of the documents its identity
names, and so is what a cell has built or loaded; the second keeps the first true when
it is stored. `FetchInv`: next to a sidecar are files of its pin or of `written`
(`SidecarHonest`); what a fetch has written so far is still its own, or a cause of the
difference is known (`Yields`). Nobody forgets a cause too early, because fetches at
the same time have met (`Meets`), and one that met another does not clear `written`.

**CompiledPages** (`CompiledPagesProofs`): `TypeCorrect`, `LinterIsClean`,
`RelatedBothWays`, `RecordsFiled` and `LoopsCloseLinks`, for any records, titles and
slugs, of which it is only assumed (`CompilerAssumption`) that the two orders name
everything once, that a record has finitely many items and that "no session" is no
session. The argument has three parts.

- *The generators.* `GeneratedOnce`: only summaries and pages of sessions can share a
  path, by their slug; every other page answers to its path, whichever titles share a
  slug, because item pages are merged by path. A hidden page must leave no one-sided
  link behind: summaries are visited first, before anything they link to, and for what
  a page of a session links to some page of that path, visited before, already links
  back (`SessionsAreAnswered`).
- *The loops.* They change the links of pages they have passed. `LoopAt` is right
  nevertheless because of two halves of the closure: everything added is justified by
  a link the other page started with (`Justified`), and what the pages passed link to
  already links back (`Returned`), which a link added to a passed page keeps, being
  itself the return of one. At the end of the loops this gives `RelatedBothWays` and,
  where paths are distinct, the refinement of `SymmetricLinks`.
- *The disk.* Pages in memory are those of the generators but for the links added
  (`FromRecords`), and the disk has for each path the page that answers to it
  (`OnDisk`). `LinterIsClean` and `RecordsFiled` follow from what the generators put
  on each page; that a day of a record lies within the days of its page needs least
  and greatest numbers of finite sets (`LeastExists`).

**WikiHealth** (`WikiHealthProofs`): nine theorems, about any files, records, pages
and manifests. `ReadersAgree`, of any manifest at all, and `GuardReadsIndexed`: the
strict reader accepts only shapes in which the lax one reads the same retrieval
identity, legacy shapes included. `ReportsAgree`: the errors of lint are those status
counts and the manifest's being stale (`LintErrors`).
`OneProposalEach`: the pairs offered as renames are disjoint (`RenamesArePaired`), and
what is in none of them is offered by hand. `MovesAreProposed`: after the move the
items are the old ones, but the record is now missing and the file untracked; with no
other of that content both are unique. `RebuildClearsTheReport`: a manifest that was
just written is read back as the identity that was written, and compares as current;
one that could not be replaced is an error still. `CleanRebuilds`: no manifest holds
records that stop a rebuild (`IndexCorrect`), as one is written only where every record
was compiled and damage puts none in; where lint finds no error the records are those of
the manifest. These two and `TypeCorrect` need the shapes of what is written; `WrittenAssumption` says only that the two constants
for a damaged value and for none are no such values.

**PromotionGate** (`BenchmarkProofs`): `BetterStaysPassed`, `LosingStaysRefused`
and `RerunsChangeNothing`, for any contract, cells and reports. `GateAssumption` says
that thresholds are numbers and that a contract requires the cells its public
thresholds compare, as `benchmarks/contracts/analyzer_promotion_gates.yaml` does;
without that a cell which is never required could be lost unnoticed. The verdict shown
is always that on the combined report (`VerdictIsCurrent`). One report *outdoes*
another for a candidate if each cell looked up in it is at least as good and those of
the baseline are the same (`Outdoes`); `OutdoingPasses`, with a lemma for each of the
checks, says that it passes if the other did. The three properties compare the reports
before and after a step in this one relation, in one direction or in both.

**RetrievalCache** (`RetrievalCacheProofs`): `TypeCorrect`, `NothingMissed` and
`AnswersAreOfTheDisk`. A write stamps what it leaves with a time that is newer than any
key. So a record that is no newer than the key of an entry was there, as it is, when
the key was made, and was read by the filling that followed, however late and
disturbed it was (`CacheSound`). A scan that finds the key again has stated every
record that is as it was when the call began (`Scanning`), so the entry has it. What a
scan hashed was on disk at that moment, and an undisturbed entry holds what its key
says; hence the second theorem.

**RecallServer** (`RecallServerProofs`): `TypeCorrect`, `NamesAreReadable`,
`BestIsShown`, `DaysAreDates`, `RepliesInTurn`, `FailuresHaveCauses`,
`RequestsAreAnsweredOnce` and `AnswersStay`, for any wikis, messages and number of
frames. The argument goes from a sort to the stream.

- *Sorting.* `Listed` puts each element of a finite set at the place that the number
  of those before it gives. In a linear order these numbers differ, so they take every
  place (`ListedOrders`), and no induction over hits is needed. The order of
  `sort_key` on the places of a corpus is linear (`PrecedesIsLinear`), and so is the
  order in which blending takes hits (`BlendIsLinear`).
- *Searching.* There always are candidates than which no other document is more
  relevant (`CandidatesAreBest`: of finitely many numbers there are n greatest).
  Blended, they give `SearchesShowTheBest`; cut by a window of time,
  `RecallsShowDays`.
- *Replies.* A reply is a function of facade and message. Each tool returns something
  of a known shape or raises (`ToolReturns`, `MessagesReturn`), and raises nothing that
  ends the server for a harmless message (`NothingEscapes`). What a name is looked up
  in has an entry for it (`PageIsFound`, `PageOfSlug`, `SessionIsFound`), and that
  entry answers to the name (`NamesAreServed`).
- *The stream.* `ServerInv`: frames are read one by one (`StreamInv`), what is being
  handled is the last frame read (`PendingInv`), each reply is the one of a request
  read before or of a notification (`RepliesInv`), in turn, and each request that is
  done and was preceded only by harmless frames has one (`AnswersInv`); a failure has
  a harmful frame (`FailureHasCause`). TLC checked it before it was proved.

What is assumed of constants (`ServerAssumption`, `CorpusAssumption`): messages have
the shapes that JSON and the tools' argument readers let through; missing and
unreadable values are not values; a server starts at a time that has a week before it
and a moment after it; texts are totally ordered; relevance is a natural number,
positive for a document that shares a term with the query, as BM25's `idf` is (the
code's scores are floating-point numbers, whose rounding is not modelled).

The proofs showed two properties to say something else than was meant. Whether a
limit leaves room for a whole day was asked of the set of its documents, which is too
small when two places of a corpus hold equal ones (`RelativeDaysAreDates` counts
places); and only replies to `resources/read` have read a URI, while any message may
carry one (`NamesCanBeRead`).

Only model-checked: the liveness property `EveryRequestIsAnswered`, since liveness
under fairness is beyond the prover, and `RebuildRepairs`, which is false. The
safety half of the first (in turn, exactly once when handled, for good, and no
failure without a cause) is proved; that a frame which was sent is handled is left to
TLC.

## What is left out

`PROJECT.json` lists every component with its status.

Not modelled:

- conversion of text (Markdown parsing, session adapters, tokenization, rendering):
  pure functions of strings with little control; what they yield is a content, a
  title, a set of links or terms here;
- benchmark metrics and reports: arithmetic and layout;
- the privacy gate, which refuses before any state changes (its exclusions never
  match a Markdown suffix), and output formatting of the CLI;
- the legacy registries (`storage/dedupe.py`, `storage/quarantine.py`):
  read-modify-write of JSON files that no command of this version reaches.

Partly modelled: evidence resolution (a version or a snapshot, not the walk from a
compiled page to its records); BM25 (relevance is a constant operator); tokenizers
(only compatibility of the stored identity); status (issues and freshness, not its
counts); benchmark cells and fetch (one dataset, one target); the CLI.

## Plan

Evidence resolution from compiled pages, composed with `CompiledPages`: what an
answer cites when the page it was drawn from is rebuilt.
