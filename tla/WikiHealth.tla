----------------------------- MODULE WikiHealth -----------------------------
(***************************************************************************)
(* A workspace and what status and lint say of it.                         *)
(*                                                                         *)
(* Source files come, change and move; a root is ingested; a rebuild        *)
(* compiles the records and writes the manifest; older versions and people  *)
(* left records, pages, snapshots and a manifest that are not as they       *)
(* should be.  Both reports only read, and are operators of the state.      *)
(* Materializer and SourceMemory have the same commands step by step.       *)
(***************************************************************************)
EXTENDS IndexManifest, SourceGardening

CONSTANTS
  Contents,    \* what a source file may hold; also its hash and its snapshot
  Flaws,       \* what may be wrong with a normalized record, see FlawNames
  Disks,       \* source files at the start
  Tokenizers,  \* tokenizers of the installed versions: names in LegacySpecs
  Styles,      \* shapes of manifest older versions wrote
  Overview,    \* the index, log and overview pages, taken together
  Nowhere,     \* a page that is never compiled
  Body,        \* content -> the pages its text links
  Summary,     \* content -> the pages its summary links
  MaxChanges   \* bound: changes of the workspace in a behaviour

FlawNames ==
  {"notJson", "notObject", "keyless", "unprojected", "untitled", "unsummarized", "undated",
   "unsourced", "misplaced"}

PageNames == Places \cup {Overview}
Targets == PageNames \cup {Nowhere}

ASSUME HealthAssumption ==
  /\ Flaws \subseteq FlawNames
  /\ Disks \subseteq [Files -> Contents \cup {NoFile, Irregular}]
  /\ Contents \cap {NoFile, Irregular} = {} /\ NoFile # Irregular
  /\ IsFiniteSet(Places)
  /\ Body \in [Contents -> SUBSET Targets] /\ Summary \in [Contents -> SUBSET Targets]
  /\ LegacyDefault \in Tokenizers /\ Tokenizers \subseteq DOMAIN LegacySpecs
  /\ Styles \subseteq {"object", "name", "flags"}
  /\ MaxChanges \in Nat

RecordShape == [flaw : Flaws \cup {"none"}, hash : Contents, day : 0..1]

PageShape == [whole : BOOLEAN, links : SUBSET Targets, updated : 0..1]

\* What is written to the manifest of records at places S and of pages P.
Layers(contents) == [latest_mtime_ns : Nat, file_count : Nat, content_hash : contents]

Identities(S, P) ==
  [normalized : Layers([S -> RecordShape]), compiled : Layers([P -> PageShape]),
   retrieval : {Tokenizer(name) : name \in Tokenizers},
   search_document_format : {"1"}, lexical_index_format : {"1"}]

Manifests(S, P) == [counts : {Indexed}, compiled_paths : {Indexed}, identity : Identities(S, P)]

\* Nothing of it is of a wrong type or absent.
ASSUME WrittenAssumption ==
  \A S \in SUBSET Places, P \in SUBSET PageNames, v \in {Junk, None} :
    /\ v \notin Nat /\ v \notin STRING /\ v \notin {Indexed, "1"}
    /\ v \notin [S -> RecordShape] /\ v \notin [P -> PageShape]
    /\ v \notin Layers([S -> RecordShape]) /\ v \notin Layers([P -> PageShape])
    /\ v \notin {Tokenizer(name) : name \in Tokenizers}
    /\ v \notin Identities(S, P) /\ v \notin Manifests(S, P)

VARIABLES
  disk,      \* the user's Markdown files
  records,   \* normalized/: place -> its record
  raw,       \* raw/: the snapshots present
  pages,     \* compiled/: page -> frontmatter, links, day of its last update
  manifest,  \* index/manifest.json, parsed, or None
  installed, \* tokenizer of the installed version
  today,     \* 0, and 1 once more than the 30 days of lint have passed
  changes,   \* changes so far
  changed    \* layer -> the change that last touched it: its newest mtime

vars == <<disk, records, raw, pages, manifest, installed, today, changes, changed>>

Change == changes < MaxChanges /\ changes' = changes + 1


Layer(name, content) ==
  [latest_mtime_ns |-> changed[name], file_count |-> Cardinality(DOMAIN content),
   content_hash |-> content]

CurrentIdentity ==
  Identity(Layer("normalized", records), Layer("compiled", pages), Tokenizer(installed), "1", "1")

-----------------------------------------------------------------------------
(* The source files and the commands.                                      *)

EditSource(f, d) ==
  /\ Change
  /\ disk[f] # d
  /\ disk' = [disk EXCEPT ![f] = d]
  /\ UNCHANGED <<records, raw, pages, manifest, installed, today, changed>>

MoveSource(f, g) ==
  /\ Change
  /\ disk[f] \in Contents /\ disk[g] = NoFile
  /\ disk' = [disk EXCEPT ![g] = disk[f], ![f] = NoFile]
  /\ UNCHANGED <<records, raw, pages, manifest, installed, today, changed>>

\* Mutant: whatever bears the name of a source is read.
FoundByName(root) == {p \in Places : RootOf[p] = root /\ disk[FileOf[p]] # NoFile}

Found(root) == {p \in Places : RootOf[p] = root /\ disk[FileOf[p]] \in Contents}

\* store_markdown_document: unchanged sources keep their records, flaws included.
Stored(p, day) ==
  IF p \in DOMAIN records /\ records[p].hash = disk[FileOf[p]] THEN records[p]
  ELSE [flaw |-> "none", hash |-> disk[FileOf[p]], day |-> day]

Unreadable == {p \in DOMAIN records : records[p].flaw \in {"notJson", "notObject"}}

\* A record that cannot be read ends the command after its snapshot was stored.
Reached(root) ==
  IF Found(root) \cap Unreadable = {} THEN {Found(root)}
  ELSE {S \in SUBSET Found(root) : Cardinality(S \cap Unreadable) = 1}

\* A record is dated by its file, which may be as old as any.
Ingest(root) ==
  /\ Change
  /\ \E S \in Reached(root), day \in 0..today :
       /\ raw' = raw \cup {disk[FileOf[p]] : p \in S}
       /\ records' = [p \in DOMAIN records \cup (S \ Unreadable) |->
                        IF p \in S \ Unreadable THEN Stored(p, day) ELSE records[p]]
  /\ <<records, raw>>' # <<records, raw>>
  /\ changed' = IF records' = records THEN changed ELSE [changed EXCEPT !["normalized"] = changes']
  /\ UNCHANGED <<disk, pages, manifest, installed, today>>

\* load_normalized_records parses every file; the pages want a projection with a title
\* and a summary, and a day.
Blocking == {"notJson", "notObject", "unprojected", "untitled", "unsummarized", "undated"}
RebuildRaises == \E p \in DOMAIN records : records[p].flaw \in Blocking

Days == {records[p].day : p \in DOMAIN records}

\* Wikilinks are copied with the text they stand in: to the page of a record, and
\* with its summary to the index too.
Quoted(p) == Body[records[p].hash] \cup Summary[records[p].hash]
Catalogued == UNION {Summary[records[p].hash] : p \in DOMAIN records}

\* The overview stands for the navigation pages: it links every summary, and they it.
CompiledPages ==
  [q \in DOMAIN records \cup {Overview} |->
     IF q = Overview
     THEN [whole |-> TRUE, links |-> DOMAIN records \cup Catalogued,
           updated |-> IF 1 \in Days THEN 1 ELSE 0]
     ELSE [whole |-> TRUE, links |-> {Overview} \cup Quoted(q), updated |-> records[q].day]]

\* Mutant: the identity is taken before the pages are written.
RebuildIdentityFirst ==
  /\ Change
  /\ ~RebuildRaises
  /\ pages' = CompiledPages
  /\ changed' = [changed EXCEPT !["compiled"] = changes']
  /\ manifest' = IF GuardAdmits(manifest, Tokenizer(installed))
                 THEN NewPayload(CurrentIdentity) ELSE manifest
  /\ UNCHANGED <<disk, records, raw, installed, today>>

\* The pages are written before the guard reads the old manifest; if it objects,
\* the rebuild ends there.
Rebuild ==
  /\ Change
  /\ ~RebuildRaises
  /\ pages' = CompiledPages
  /\ changed' = [changed EXCEPT !["compiled"] = changes']
  /\ UNCHANGED <<disk, records, raw, installed, today>>
  /\ manifest' = IF GuardAdmits(manifest, Tokenizer(installed))
                 THEN NewPayload(CurrentIdentity') ELSE manifest

-----------------------------------------------------------------------------
(* What older versions, upgrades, people and time do.                      *)

LegacyRebuild ==
  /\ Change
  /\ ~RebuildRaises
  /\ pages' = CompiledPages
  /\ changed' = [changed EXCEPT !["compiled"] = changes']
  /\ UNCHANGED <<disk, records, raw, installed, today>>
  /\ \E style \in Styles : manifest' = LegacyPayload(CurrentIdentity', style)

Upgrade ==
  /\ Change
  /\ installed' \in Tokenizers \ {installed}
  /\ UNCHANGED <<disk, records, raw, pages, manifest, today, changed>>

DamageManifest ==
  /\ Change
  /\ Typed(manifest) /\ manifest' \in Damaged(manifest)
  /\ UNCHANGED <<disk, records, raw, pages, installed, today, changed>>

DamageRecord(p, flaw) ==
  /\ Change
  /\ p \in DOMAIN records /\ records[p].flaw = "none"
  /\ records' = [records EXCEPT ![p].flaw = flaw]
  /\ changed' = [changed EXCEPT !["normalized"] = changes']
  /\ UNCHANGED <<disk, raw, pages, manifest, installed, today>>

LoseSnapshot(d) ==
  /\ Change
  /\ d \in raw /\ raw' = raw \ {d}
  /\ UNCHANGED <<disk, records, pages, manifest, installed, today, changed>>

DamagePage(q) ==
  /\ Change
  /\ q \in DOMAIN pages
  /\ \/ pages[q].whole /\ pages' = [pages EXCEPT ![q].whole = FALSE]
     \/ pages' = [r \in DOMAIN pages \ {q} |-> pages[r]]
  /\ changed' = [changed EXCEPT !["compiled"] = changes']
  /\ UNCHANGED <<disk, records, raw, manifest, installed, today>>

MonthPasses ==
  /\ Change
  /\ today = 0 /\ today' = 1
  /\ UNCHANGED <<disk, records, raw, pages, manifest, installed, changed>>

Init ==
  /\ disk \in Disks
  /\ records = <<>> /\ raw = {} /\ pages = <<>> /\ manifest = None
  /\ installed = LegacyDefault
  /\ today = 0 /\ changes = 0
  /\ changed = [layer \in {"normalized", "compiled"} |-> 0]

Next ==
  \/ \E f \in Files, d \in Contents \cup {NoFile, Irregular} : EditSource(f, d)
  \/ \E f, g \in Files : MoveSource(f, g)
  \/ \E p \in Places : Ingest(RootOf[p])
  \/ Rebuild \/ LegacyRebuild \/ Upgrade \/ DamageManifest \/ MonthPasses
  \/ \E p \in Places, flaw \in Flaws : DamageRecord(p, flaw)
  \/ \E d \in Contents : LoseSnapshot(d)
  \/ \E q \in PageNames : DamagePage(q)

Spec == Init /\ [][Next]_vars

-----------------------------------------------------------------------------
(* What lint collects.                                                     *)

WithFlaw(flaw) == {p \in DOMAIN records : records[p].flaw = flaw}

StructuralIssues ==
  {Issue("L010", "error", p) : p \in WithFlaw("notJson")}
    \cup {Issue("L011", "error", p) : p \in WithFlaw("notObject")}
    \cup {Issue("L001", "error", p) : p \in WithFlaw("keyless")}
    \cup {Issue("L003", "error", p) : p \in WithFlaw("unprojected")}
    \cup {Issue("L002", "error", q) : q \in {q \in DOMAIN pages : ~pages[q].whole}}

\* check_layer_integrity parses every record without a net: with one that is not
\* JSON, run_lint and run_status raise.
Raises == WithFlaw("notJson") # {}

Unsourced == WithFlaw("notObject") \cup WithFlaw("unsourced")

ProvenanceIssues ==
  {Issue("L101", "error", p) : p \in Unsourced}
    \cup {Issue("L102", "error", p) : p \in {p \in DOMAIN records \ Unsourced : records[p].hash \notin raw}}

GraphIssues ==
  (UNION {{Issue("L201", "error", <<q, t>>) : t \in pages[q].links \ DOMAIN pages} : q \in DOMAIN pages})
    \cup {Issue("L301", "warning", q) :
            q \in {q \in DOMAIN pages \ {Overview} : \A r \in DOMAIN pages \ {q} : q \notin pages[r].links}}

IntegrityIssues ==
  ProvenanceIssues \cup GraphIssues
    \cup (IF DOMAIN records # {} /\ DOMAIN pages = {} THEN {Issue("L103", "error", Overview)} ELSE {})
    \cup (IF DOMAIN pages # {}
          THEN {i \in ManifestIssues(Freshness(manifest, CurrentIdentity)) : i.status # "stale"}
          ELSE {})

\* A page without frontmatter has no age.
FreshnessIssues ==
  {i \in ManifestIssues(Freshness(manifest, CurrentIdentity)) : i.status = "stale"}
    \cup {Issue("L401", "info", q) : q \in {q \in DOMAIN pages : pages[q].whole /\ pages[q].updated < today}}

\* Only a record with all its fields and a title has a summary path.
SummaryIssues ==
  {Issue("L402", "info", p) :
     p \in {p \in DOMAIN records :
              records[p].flaw \notin {"notJson", "notObject", "keyless", "unprojected", "untitled"}}
          \ DOMAIN pages}

\* _load_markdown_records skips what it cannot recognize.
Tracked ==
  [p \in {p \in DOMAIN records : records[p].flaw \notin {"notJson", "notObject", "keyless"}} |->
     [hash |-> records[p].hash, sound |-> records[p].flaw # "misplaced"]]

Items == SourceItems(disk, Tracked)

LintIssues ==
  StructuralIssues \cup IntegrityIssues \cup FreshnessIssues
    \cup SourceIssues(Items) \cup RenameIssues(Items) \cup SummaryIssues

\* Mutant: the summary of status leaves out the integrity checks.
StatusStructureOnly == StructuralIssues

\* _status_lint_summary.
StatusIssues == StructuralIssues \cup IntegrityIssues

Errors(issues) == {i \in issues : i.severity = "error"}

-----------------------------------------------------------------------------
TypeOK ==
  /\ disk \in [Files -> Contents \cup {NoFile, Irregular}]
  /\ DOMAIN records \subseteq Places /\ records \in [DOMAIN records -> RecordShape]
  /\ raw \subseteq Contents
  /\ DOMAIN pages \subseteq PageNames /\ pages \in [DOMAIN pages -> PageShape]
  /\ installed \in Tokenizers
  /\ today \in 0..1 /\ changes \in 0..MaxChanges
  /\ changed \in [{"normalized", "compiled"} -> 0..MaxChanges]

\* The guard before a search and the freshness check parse the manifest apart: they
\* never disagree on the tokenizer of a manifest the freshness check accepts.
GuardReadsTheIndexedIdentity ==
  Load(manifest) # None => GuardIdentity(manifest) = Load(manifest).retrieval

\* status counts only some of lint's checks: a workspace it shows current and free
\* of errors has no error for lint either, and one without errors for lint is
\* shown free of errors, and current if it has pages.
StatusAndLintAgree ==
  ~Raises =>
    LET current == Freshness(manifest, CurrentIdentity).status = "current"
    IN  /\ current /\ Errors(StatusIssues) = {} => Errors(LintIssues) = {}
        /\ Errors(LintIssues) = {} =>
             Errors(StatusIssues) = {} /\ (current \/ DOMAIN pages = {})

\* A workspace in which lint finds no error can be rebuilt.  No check looks for a missing
\* title or summary or an unreadable date, which stop a rebuild (projection.py:78-104,
\* taxonomy.py:33): what speaks of such a record is the index, which was written when
\* every record could be compiled and is not current once one of them changed.
CleanReportCanBeRebuilt ==
  ~Raises /\ Errors(LintIssues) = {} => ~RebuildRaises

CompiledCodes == {"L002", "L103", "L104", "L201", "L301", "L402"}

\* A link that was broken in the text of a record and is copied with it.
CopiedBroken ==
  {Issue("L201", "error", <<q, t>>) :
     q \in DOMAIN pages, t \in (UNION {Quoted(p) : p \in DOMAIN records}) \ DOMAIN pages}

\* After a rebuild lint has nothing left to say of the compiled layer and the index but
\* for the broken links of the texts, which no rebuild mends, or the manifest it refused
\* to replace is still an error.
RebuildClearsOrStaysRed ==
  [][Rebuild => \/ \A i \in LintIssues' : i.code \in CompiledCodes => i \in CopiedBroken'
                \/ /\ manifest' = manifest
                   /\ \E i \in Errors(LintIssues)' : i.code = "L104"]_vars

\* Whatever is not current is evidence of exactly one proposal: a source is never
\* offered as the new name of two records, or for a rename and for a review.
EverySourceHasOneProposal ==
  \A i \in Items : Cardinality({e \in Proposals(Items) : i \in e}) = IF i.state = "current" THEN 0 ELSE 1

\* A current source that moves within a root that keeps another live record is
\* offered as a rename, if its content is no other missing or new file's.
MoveIsProposed ==
  [][\A p, q \in Places :
       (/\ MoveSource(FileOf[p], FileOf[q])
        /\ Item("current", p, disk[FileOf[p]]) \in Items
        /\ RootOf[q] = RootOf[p] /\ q \notin DOMAIN Tracked
        /\ \E i \in Items : /\ i.place # p /\ RootOf[i.place] = RootOf[p]
                             /\ i.state \in {"current", "modified"}
        /\ \A r \in Places : FileOf[r] \in {FileOf[p], FileOf[q]} /\ RootOf[r] = RootOf[p] => r \in {p, q}
        /\ \A i \in Items : i.state \in {"missing", "untracked"} => i.hash # disk[FileOf[p]])
       => \E pair \in Renames(Items)' : pair[1].place = p /\ pair[2].place = q]_vars
=============================================================================
