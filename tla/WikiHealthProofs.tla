-------------------------- MODULE WikiHealthProofs --------------------------
(***************************************************************************)
(* What a user is told of a workspace, whatever happened to it: the two     *)
(* readers of index/manifest.json agree on every manifest there could be;   *)
(* status and lint agree; gardening has one proposal for each source that   *)
(* is not current; a rebuild leaves nothing to report of compiled/ and the  *)
(* index but the broken links of the texts; and a workspace in which lint   *)
(* finds no error can be rebuilt.                                           *)
(***************************************************************************)
EXTENDS WikiHealth, FiniteSetTheorems, TLAPS

\* What load_index_manifest accepts has its retrieval identity from one of two places.
LEMMA LoadedRetrieval ==
  ASSUME NEW payload, Load(payload) # None
  PROVE  /\ Typed(payload)
         /\ IF "identity" \in DOMAIN payload
            THEN /\ Typed(payload["identity"])
                 /\ LoadRetrieval(Get(payload["identity"], "retrieval")) # None
                 /\ Load(payload).retrieval = LoadRetrieval(Get(payload["identity"], "retrieval"))
            ELSE Load(payload).retrieval = LegacyRetrieval(payload)
  <1>1. Typed(payload)
    BY DEF Load
  <1>2. CASE "identity" \in DOMAIN payload
    <2>1. Load(payload) = LoadIdentity(payload["identity"])
      BY <1>1, <1>2 DEF Load, LoadNew, Get
    <2>2. Typed(payload["identity"])
      BY <2>1 DEF LoadIdentity
    <2>. QED
      BY <1>1, <1>2, <2>1, <2>2 DEF LoadIdentity, Identity
  <1>3. CASE "identity" \notin DOMAIN payload
    <2>1. Load(payload) = LoadLegacy(payload)
      BY <1>1, <1>3 DEF Load
    <2>. QED
      BY <1>1, <1>3, <2>1 DEF LoadLegacy, Identity
  <1>. QED
    BY <1>2, <1>3

\* The guard of a search (validate_manifest_retrieval_identity) and the freshness check
\* of status and lint parse the file apart, and never disagree on the tokenizer.
THEOREM ReadersAgree ==
  ASSUME NEW payload, Load(payload) # None
  PROVE  GuardIdentity(payload) = Load(payload).retrieval
  <1>1. CASE "identity" \in DOMAIN payload
    <2> DEFINE identity == payload["identity"]
    <2>1. /\ Typed(payload) /\ Typed(identity)
          /\ LoadRetrieval(Get(identity, "retrieval")) # None
          /\ Load(payload).retrieval = LoadRetrieval(Get(identity, "retrieval"))
      BY <1>1, LoadedRetrieval
    <2>2. Get(identity, "retrieval") # None
      BY <2>1 DEF LoadRetrieval, Restricted, Requires, Typed
    <2>3. Get(identity, "retrieval") = identity["retrieval"]
      BY <2>2 DEF Get
    <2>. QED
      BY <1>1, <2>1, <2>2, <2>3 DEF GuardIdentity, Get
  <1>2. CASE "identity" \notin DOMAIN payload
    <2>1. Typed(payload) /\ Load(payload).retrieval = LegacyRetrieval(payload)
      BY <1>2, LoadedRetrieval
    <2>2. ~Typed(Get(payload, "identity"))
      BY <1>2 DEF Get, Typed
    <2>. QED
      BY <2>1, <2>2 DEF GuardIdentity
  <1>. QED
    BY <1>1, <1>2

\* In no state of a workspace do they disagree: no typing of the manifest is needed.
THEOREM GuardReadsIndexed == Spec => []GuardReadsTheIndexedIdentity
  <1>1. GuardReadsTheIndexedIdentity
    BY ReadersAgree DEF GuardReadsTheIndexedIdentity
  <1>. QED
    BY <1>1, PTL
-----------------------------------------------------------------------------
(* What status and lint say of a workspace, whatever its state.            *)

\* The items of the comparison have one of five states.
LEMMA ItemStates ==
  \A i \in Items : i.state \in {"current", "modified", "missing", "untracked", "invalid"}
  BY DEF Items, SourceItems, Item, State

\* Errors of lint are those of status and a stale manifest: the other checks only warn.
LEMMA LintErrors ==
  Errors(LintIssues) =
    Errors(StatusIssues)
      \cup {i \in ManifestIssues(Freshness(manifest, CurrentIdentity)) : i.status = "stale"}
  <1>1. Errors(SourceIssues(Items)) = {}
    BY ItemStates DEF Errors, SourceIssues, Issue, SourceSeverity
  <1>2. Errors(RenameIssues(Items)) = {}
    BY DEF Errors, RenameIssues, Issue
  <1>3. Errors(SummaryIssues) = {}
    BY DEF Errors, SummaryIssues, Issue
  <1>4. Errors(FreshnessIssues) =
          {i \in ManifestIssues(Freshness(manifest, CurrentIdentity)) : i.status = "stale"}
    BY DEF Errors, FreshnessIssues, ManifestIssues, Issue
  <1>. QED
    BY <1>1, <1>2, <1>3, <1>4 DEF LintIssues, StatusIssues, Errors

\* At most one issue speaks of the manifest, and none when it is current.
LEMMA OneManifestIssue ==
  ASSUME NEW freshness
  PROVE  IF freshness.status = "current" THEN ManifestIssues(freshness) = {}
         ELSE \E i \in ManifestIssues(freshness) :
                i.status = freshness.status /\ i.severity = "error" /\ i.code = "L104"
  BY DEF ManifestIssues

\* status and lint run different checks, and agree on which workspaces are in order.
THEOREM ReportsAgree == Spec => []StatusAndLintAgree
  <1> DEFINE freshness == Freshness(manifest, CurrentIdentity)
             stale == {i \in ManifestIssues(freshness) : i.status = "stale"}
  <1>1. Errors(LintIssues) = Errors(StatusIssues) \cup stale
    BY LintErrors
  <1>2. freshness.status = "current" => stale = {}
    BY OneManifestIssue
  <1>3. ASSUME Errors(LintIssues) = {}, freshness.status # "current"
        PROVE  DOMAIN pages = {}
    <2>1. PICK i \in ManifestIssues(freshness) : i.status = freshness.status /\ i.severity = "error"
      BY <1>3, OneManifestIssue
    <2>2. i.status # "stale"
      BY <1>1, <1>3, <2>1
    <2>3. DOMAIN pages # {} => i \in IntegrityIssues
      BY <2>1, <2>2 DEF IntegrityIssues
    <2>. QED
      BY <1>1, <1>3, <2>1, <2>3 DEF Errors, StatusIssues
  <1>4. StatusAndLintAgree
    BY <1>1, <1>2, <1>3 DEF StatusAndLintAgree
  <1>. QED
    BY <1>4, PTL

-----------------------------------------------------------------------------
(* The proposals of gardening.                                             *)

\* A missing item is one of a rename at most, and so is a new one.
LEMMA RenamesArePaired ==
  ASSUME NEW items, NEW s \in Renames(items), NEW t \in Renames(items), NEW i,
         i \in {s[1], s[2]}, i \in {t[1], t[2]}
  PROVE  {s[1], s[2]} = {t[1], t[2]}
  <1>1. /\ s[1].state = "missing" /\ s[2].state = "untracked"
        /\ t[1].state = "missing" /\ t[2].state = "untracked"
    BY DEF Renames, InState
  <1>2. /\ {v \in InState(items, "untracked") : SameSource(s[1], v)} = {s[2]}
        /\ {n \in InState(items, "missing") : SameSource(n, s[2])} = {s[1]}
        /\ {v \in InState(items, "untracked") : SameSource(t[1], v)} = {t[2]}
        /\ {n \in InState(items, "missing") : SameSource(n, t[2])} = {t[1]}
    BY DEF Renames
  <1>. QED
    BY <1>1, <1>2

\* Each item that is not current is part of one proposal, and no current item of any.
THEOREM OneProposalEach == Spec => []EverySourceHasOneProposal
  <1> DEFINE With(i) == {e \in Proposals(Items) : i \in e}
             Renaming == {{pair[1], pair[2]} : pair \in Renames(Items)}
  <1>1. Proposals(Items) = Renaming \cup ManualProposals(Items)
    BY DEF Proposals
  <1>2. Renamed(Items) = UNION Renaming
    BY DEF Renamed
  <1>3. \A i \in Items : i.state = "current" => With(i) = {}
    BY <1>1 DEF Renames, InState, ManualProposals
  <1>4. \A i \in Items : i.state # "current" /\ i \notin Renamed(Items) => With(i) = {{i}}
    BY <1>1, <1>2 DEF ManualProposals
  <1>5. ASSUME NEW i \in Items, i \in Renamed(Items)
        PROVE  \E e : With(i) = {e}
    <2>1. PICK s \in Renames(Items) : i \in {s[1], s[2]}
      BY <1>2, <1>5
    <2>2. \A t \in Renames(Items) : i \in {t[1], t[2]} => {t[1], t[2]} = {s[1], s[2]}
      BY <2>1, RenamesArePaired
    <2>3. \A e \in ManualProposals(Items) : i \notin e
      BY <1>5 DEF ManualProposals
    <2>4. {s[1], s[2]} \in With(i)
      BY <1>1, <2>1
    <2>5. ASSUME NEW e \in With(i)
          PROVE  e = {s[1], s[2]}
      <3>1. e \in Renaming /\ i \in e
        BY <1>1, <2>3, <2>5
      <3>2. PICK t \in Renames(Items) : e = {t[1], t[2]}
        BY <3>1
      <3>3. i \in {t[1], t[2]}
        BY <3>1, <3>2
      <3>. QED
        BY <2>2, <3>2, <3>3
    <2>. HIDE DEF With
    <2>6. With(i) = {{s[1], s[2]}}
      BY <2>4, <2>5
    <2>. QED
      BY <2>6
  <1>6. \A i \in Items : i.state = "current" => Cardinality(With(i)) = 0
    BY <1>3, FS_EmptySet
  <1>7. \A i \in Items : i.state # "current" => Cardinality(With(i)) = 1
    <2>1. \A i \in Items : i.state # "current" => \E e : With(i) = {e}
      BY <1>4, <1>5
    <2>. HIDE DEF With
    <2>. QED
      BY <2>1, FS_Singleton
  <1>8. EverySourceHasOneProposal
    BY <1>6, <1>7 DEF EverySourceHasOneProposal
  <1>. QED
    BY <1>8, PTL
-----------------------------------------------------------------------------
(* The type invariant.                                                     *)

\* A change counts itself, and leaves the counter within its bound.
LEMMA ChangeCounted ==
  ASSUME TypeOK, Change
  PROVE  /\ changes' \in 0..MaxChanges
         /\ changed \in [{"normalized", "compiled"} -> 0..MaxChanges]
         /\ \A layer : [changed EXCEPT ![layer] = changes']
                         \in [{"normalized", "compiled"} -> 0..MaxChanges]
  <1>1. changes' \in 0..MaxChanges
    BY HealthAssumption DEF TypeOK, Change
  <1>. QED
    BY <1>1 DEF TypeOK

\* What the compiler makes of sound records has the shape of pages.
LEMMA PagesTyped ==
  ASSUME TypeOK
  PROVE  /\ DOMAIN CompiledPages = DOMAIN records \cup {Overview}
         /\ DOMAIN CompiledPages \subseteq PageNames
         /\ CompiledPages \in [DOMAIN CompiledPages -> PageShape]
  <1>1. DOMAIN CompiledPages = DOMAIN records \cup {Overview}
    BY DEF CompiledPages
  <1>2. ASSUME NEW q \in DOMAIN records \cup {Overview}
        PROVE  CompiledPages[q] \in PageShape
    <2>1. DOMAIN records \subseteq Targets /\ Overview \in Targets
      BY DEF TypeOK, Targets, PageNames
    <2>2. \A p \in DOMAIN records : records[p].hash \in Contents /\ records[p].day \in 0..1
      BY DEF TypeOK, RecordShape
    <2>3. \A p \in DOMAIN records : Quoted(p) \subseteq Targets
      BY <2>2, HealthAssumption DEF Quoted
    <2>4. Catalogued \subseteq Targets
      BY <2>2, HealthAssumption DEF Catalogued
    <2>5. CASE q = Overview
      BY <1>2, <2>1, <2>4, <2>5 DEF CompiledPages, PageShape
    <2>6. CASE q # Overview
      BY <1>2, <2>1, <2>2, <2>3, <2>6 DEF CompiledPages, PageShape
    <2>. QED
      BY <2>5, <2>6
  <1>. QED
    BY <1>1, <1>2 DEF CompiledPages, TypeOK, PageNames

LEMMA RebuildTyped ==
  ASSUME TypeOK, Rebuild \/ LegacyRebuild
  PROVE  TypeOK'
  <1>1. Change /\ pages' = CompiledPages
    BY DEF Rebuild, LegacyRebuild
  <1>2. changed' = [changed EXCEPT !["compiled"] = changes']
    BY DEF Rebuild, LegacyRebuild
  <1>3. UNCHANGED <<disk, records, raw, installed, today>>
    BY DEF Rebuild, LegacyRebuild
  <1>. QED
    BY <1>1, <1>2, <1>3, ChangeCounted, PagesTyped DEF TypeOK

\* Records that are stored hold what a file held; those that stay are as they were.
LEMMA IngestTyped ==
  ASSUME TypeOK, NEW root, Ingest(root)
  PROVE  TypeOK'
  <1>1. PICK S \in Reached(root), day \in 0..today :
          /\ raw' = raw \cup {disk[FileOf[p]] : p \in S}
          /\ records' = [p \in DOMAIN records \cup (S \ Unreadable) |->
                           IF p \in S \ Unreadable THEN Stored(p, day) ELSE records[p]]
    BY DEF Ingest
  <1>2. S \subseteq Found(root)
    BY DEF Reached
  <1>3. \A p \in S : p \in Places /\ disk[FileOf[p]] \in Contents
    BY <1>2 DEF Found
  <1>4. day \in 0..1
    BY DEF TypeOK
  <1>5. \A p \in S : Stored(p, day) \in RecordShape
    BY <1>3, <1>4 DEF Stored, TypeOK, RecordShape
  <1>6. DOMAIN records' \subseteq Places /\ records' \in [DOMAIN records' -> RecordShape]
    BY <1>1, <1>3, <1>5 DEF TypeOK
  <1>7. raw' \subseteq Contents
    BY <1>1, <1>3 DEF TypeOK
  <1>8. /\ Change
        /\ changed' \in {changed, [changed EXCEPT !["normalized"] = changes']}
        /\ UNCHANGED <<disk, pages, manifest, installed, today>>
    BY DEF Ingest
  <1>. QED
    BY <1>6, <1>7, <1>8, ChangeCounted DEF TypeOK

LEMMA SourcesTyped ==
  ASSUME TypeOK, NEW f \in Files,
         \/ \E d \in Contents \cup {NoFile, Irregular} : EditSource(f, d)
         \/ \E g \in Files : MoveSource(f, g)
  PROVE  TypeOK'
  <1>1. disk' \in [Files -> Contents \cup {NoFile, Irregular}]
    BY DEF EditSource, MoveSource, TypeOK
  <1>2. Change /\ UNCHANGED <<records, raw, pages, manifest, installed, today, changed>>
    BY DEF EditSource, MoveSource
  <1>. QED
    BY <1>1, <1>2, ChangeCounted DEF TypeOK

LEMMA DamageTyped ==
  ASSUME TypeOK,
         \/ \E p \in Places, flaw \in Flaws : DamageRecord(p, flaw)
         \/ \E d \in Contents : LoseSnapshot(d)
         \/ \E q \in PageNames : DamagePage(q)
  PROVE  TypeOK'
  <1>1. ASSUME NEW p \in Places, NEW flaw \in Flaws, DamageRecord(p, flaw)
        PROVE  TypeOK'
    <2>1. DOMAIN records' = DOMAIN records /\ records' \in [DOMAIN records -> RecordShape]
      BY <1>1 DEF DamageRecord, TypeOK, RecordShape
    <2>. QED
      BY <1>1, <2>1, ChangeCounted DEF DamageRecord, TypeOK
  <1>2. ASSUME NEW d \in Contents, LoseSnapshot(d)
        PROVE  TypeOK'
    BY <1>2, ChangeCounted DEF LoseSnapshot, TypeOK
  <1>3. ASSUME NEW q \in PageNames, DamagePage(q)
        PROVE  TypeOK'
    <2>1. CASE pages' = [pages EXCEPT ![q].whole = FALSE]
      <3>1. DOMAIN pages' = DOMAIN pages /\ pages' \in [DOMAIN pages -> PageShape]
        BY <2>1 DEF TypeOK, PageShape
      <3>. QED
        BY <1>3, <3>1, ChangeCounted DEF DamagePage, TypeOK
    <2>2. CASE pages' = [r \in DOMAIN pages \ {q} |-> pages[r]]
      <3>1. DOMAIN pages' \subseteq DOMAIN pages /\ pages' \in [DOMAIN pages' -> PageShape]
        BY <2>2 DEF TypeOK
      <3>. QED
        BY <1>3, <3>1, ChangeCounted DEF DamagePage, TypeOK
    <2>. QED
      BY <1>3, <2>1, <2>2 DEF DamagePage
  <1>. QED
    BY <1>1, <1>2, <1>3

\* The parts of a workspace keep their shapes, but for a manifest that was damaged.
THEOREM TypeCorrect == Spec => []TypeOK
  <1>1. Init => TypeOK
    <2> SUFFICES ASSUME Init PROVE TypeOK
      OBVIOUS
    <2>1. /\ disk \in [Files -> Contents \cup {NoFile, Irregular}]
          /\ installed \in Tokenizers /\ changes \in 0..MaxChanges
          /\ changed \in [{"normalized", "compiled"} -> 0..MaxChanges]
      BY HealthAssumption DEF Init
    <2>2. /\ DOMAIN records = {} /\ records \in [{} -> RecordShape]
          /\ DOMAIN pages = {} /\ pages \in [{} -> PageShape]
      BY DEF Init
    <2>. QED
      BY <2>1, <2>2 DEF Init, TypeOK
  <1>2. TypeOK /\ [Next]_vars => TypeOK'
    <2> SUFFICES ASSUME TypeOK, [Next]_vars PROVE TypeOK'
      OBVIOUS
    <2>1. CASE \E f \in Files :
                 \/ \E d \in Contents \cup {NoFile, Irregular} : EditSource(f, d)
                 \/ \E g \in Files : MoveSource(f, g)
      BY <2>1, SourcesTyped
    <2>2. CASE \E p \in Places : Ingest(RootOf[p])
      BY <2>2, IngestTyped
    <2>3. CASE Rebuild \/ LegacyRebuild
      BY <2>3, RebuildTyped
    <2>4. CASE Upgrade \/ DamageManifest \/ MonthPasses
      <3>1. Change /\ UNCHANGED <<disk, records, raw, pages, changed>>
        BY <2>4 DEF Upgrade, DamageManifest, MonthPasses
      <3>2. installed' \in Tokenizers /\ today' \in 0..1
        BY <2>4 DEF Upgrade, DamageManifest, MonthPasses, TypeOK
      <3>. QED
        BY <3>1, <3>2, ChangeCounted DEF TypeOK
    <2>5. CASE \/ \E p \in Places, flaw \in Flaws : DamageRecord(p, flaw)
               \/ \E d \in Contents : LoseSnapshot(d)
               \/ \E q \in PageNames : DamagePage(q)
      BY <2>5, DamageTyped
    <2>6. CASE UNCHANGED vars
      BY <2>6 DEF vars, TypeOK
    <2>. QED
      BY <2>1, <2>2, <2>3, <2>4, <2>5, <2>6 DEF Next
  <1>. QED
    BY <1>1, <1>2, PTL DEF Spec
-----------------------------------------------------------------------------
(* A source that moves.                                                    *)

\* Files d and e before and after the move of the file at p to q, whose records are tracked.
Moved(d, e, tracked, p, q) ==
  /\ p \in DOMAIN tracked /\ q \in Places \ DOMAIN tracked
  /\ DOMAIN tracked \subseteq Places
  /\ State(d, tracked, p) = "current"
  /\ d[FileOf[p]] \in Contents /\ d[FileOf[q]] = NoFile
  /\ e[FileOf[p]] = NoFile /\ e[FileOf[q]] = d[FileOf[p]]
  /\ \A f \in Files \ {FileOf[p], FileOf[q]} : e[f] = d[f]

\* Beyond p and q, the places under one root are in the state they were in.
LEMMA MoveKeepsOthers ==
  ASSUME NEW d, NEW e, NEW tracked, NEW p, NEW q, Moved(d, e, tracked, p, q),
         \A r \in Places : FileOf[r] \in {FileOf[p], FileOf[q]} /\ RootOf[r] = RootOf[p] => r \in {p, q},
         NEW r \in Places, RootOf[r] = RootOf[p], r \notin {p, q}
  PROVE  e[FileOf[r]] = d[FileOf[r]] /\ State(e, tracked, r) = State(d, tracked, r)
  BY DEF Moved, Files, State

\* The new place of the file is found if another record of its root has its file.
LEMMA MoveIsSeen ==
  ASSUME NEW d, NEW e, NEW tracked, NEW p, NEW q, Moved(d, e, tracked, p, q),
         RootOf[q] = RootOf[p],
         \A r \in Places : FileOf[r] \in {FileOf[p], FileOf[q]} /\ RootOf[r] = RootOf[p] => r \in {p, q},
         NEW i \in SourceItems(d, tracked), i.place # p, RootOf[i.place] = RootOf[p],
         i.state \in {"current", "modified"}
  PROVE  /\ State(e, tracked, p) = "missing"
         /\ q \in Untracked(e, tracked)
  <1>1. State(e, tracked, p) = "missing"
    BY HealthAssumption DEF Moved, State
  <1>2. i.place \in DOMAIN tracked /\ State(d, tracked, i.place) = i.state
    BY DEF SourceItems, Item
  <1>3. i.place \in Places /\ i.place \notin {p, q}
    BY <1>2 DEF Moved
  <1>4. State(e, tracked, i.place) \in {"current", "modified"}
    BY <1>2, <1>3, MoveKeepsOthers
  <1>5. RootOf[q] \in TrustedRoots(e, tracked)
    BY <1>2, <1>4 DEF TrustedRoots
  <1>. QED
    BY <1>1, <1>5, HealthAssumption DEF Moved, Untracked

\* Nothing else under that root with the content of the file is new or missing.
LEMMA MoveIsUnambiguous ==
  ASSUME NEW d, NEW e, NEW tracked, NEW p, NEW q, Moved(d, e, tracked, p, q),
         \A r \in Places : FileOf[r] \in {FileOf[p], FileOf[q]} /\ RootOf[r] = RootOf[p] => r \in {p, q},
         \A i \in SourceItems(d, tracked) : i.state \in {"missing", "untracked"} => i.hash # d[FileOf[p]],
         NEW i \in SourceItems(e, tracked), RootOf[i.place] = RootOf[p], i.hash = d[FileOf[p]]
  PROVE  /\ i.state = "missing" => i.place = p
         /\ i.state = "untracked" => i.place = q
  <1>1. RootOf[p] \in TrustedRoots(d, tracked)
    BY DEF Moved, TrustedRoots
  <1>2. ASSUME i.state = "missing", i.place # p
        PROVE  FALSE
    <2>1. /\ i.place \in DOMAIN tracked /\ State(e, tracked, i.place) = "missing"
          /\ i = Item("missing", i.place, tracked[i.place].hash)
      BY <1>2 DEF SourceItems, Item, Untracked
    <2>2. State(d, tracked, i.place) = "missing"
      BY <1>2, <2>1, MoveKeepsOthers DEF Moved
    <2>3. i \in SourceItems(d, tracked)
      BY <2>1, <2>2 DEF SourceItems
    <2>. QED
      BY <1>2, <2>3
  <1>3. ASSUME i.state = "untracked", i.place # q
        PROVE  FALSE
    <2>1. i.place \in Untracked(e, tracked) /\ i = Item("untracked", i.place, e[FileOf[i.place]])
      BY <1>3 DEF SourceItems, Item, State
    <2>2. i.place \in Places \ DOMAIN tracked /\ i.place \notin {p, q}
      BY <1>3, <2>1 DEF Untracked, Moved
    <2>3. e[FileOf[i.place]] = d[FileOf[i.place]]
      BY <2>2, MoveKeepsOthers
    <2>4. i.place \in Untracked(d, tracked)
      BY <1>1, <2>1, <2>2, <2>3 DEF Untracked
    <2>5. i \in SourceItems(d, tracked)
      BY <2>1, <2>3, <2>4 DEF SourceItems
    <2>. QED
      BY <1>3, <2>5
  <1>. QED
    BY <1>2, <1>3

LEMMA MoveIsRename ==
  ASSUME NEW d, NEW e, NEW tracked, NEW p, NEW q, Moved(d, e, tracked, p, q),
         RootOf[q] = RootOf[p],
         \A r \in Places : FileOf[r] \in {FileOf[p], FileOf[q]} /\ RootOf[r] = RootOf[p] => r \in {p, q},
         \E i \in SourceItems(d, tracked) :
            i.place # p /\ RootOf[i.place] = RootOf[p] /\ i.state \in {"current", "modified"},
         \A i \in SourceItems(d, tracked) : i.state \in {"missing", "untracked"} => i.hash # d[FileOf[p]]
  PROVE  \E pair \in Renames(SourceItems(e, tracked)) : pair[1].place = p /\ pair[2].place = q
  <1> DEFINE items == SourceItems(e, tracked)
             hash == d[FileOf[p]]
             old == Item("missing", p, hash)
             new == Item("untracked", q, hash)
  <1>1. State(e, tracked, p) = "missing" /\ q \in Untracked(e, tracked)
    BY MoveIsSeen
  <1>2. tracked[p].hash = hash
    BY DEF Moved, State
  <1>3. old \in InState(items, "missing")
    BY <1>1, <1>2 DEF Moved, SourceItems, InState, Item
  <1>4. new \in InState(items, "untracked")
    BY <1>1 DEF Moved, SourceItems, InState, Item
  <1>5. ASSUME NEW i \in items, i.hash = hash, RootOf[i.place] = RootOf[p]
        PROVE  (i.state = "missing" => i = old) /\ (i.state = "untracked" => i = new)
    <2>1. (i.state = "missing" => i.place = p) /\ (i.state = "untracked" => i.place = q)
      BY <1>5, MoveIsUnambiguous
    <2>2. i = Item(i.state, i.place, i.hash)
      BY <1>5 DEF SourceItems, Item
    <2>. QED
      BY <1>5, <2>1, <2>2
  <1>6. {v \in InState(items, "untracked") : SameSource(old, v)} = {new}
    BY <1>4, <1>5 DEF InState, SameSource, Item
  <1>7. {n \in InState(items, "missing") : SameSource(n, new)} = {old}
    BY <1>3, <1>5 DEF InState, SameSource, Item
  <1>8. <<old, new>> \in Renames(items)
    BY <1>3, <1>4, <1>6, <1>7 DEF Renames
  <1>. QED
    BY <1>8 DEF Item

\* What a move does to the disk, in terms of Moved.
LEMMA MoveMoves ==
  ASSUME TypeOK, NEW p \in Places, NEW q \in Places, MoveSource(FileOf[p], FileOf[q]),
         Item("current", p, disk[FileOf[p]]) \in Items, q \notin DOMAIN Tracked
  PROVE  Moved(disk, disk', Tracked, p, q) /\ Tracked' = Tracked
  <1>1. /\ disk[FileOf[p]] \in Contents /\ disk[FileOf[q]] = NoFile
        /\ disk' = [disk EXCEPT ![FileOf[q]] = disk[FileOf[p]], ![FileOf[p]] = NoFile]
        /\ FileOf[p] \in Files /\ FileOf[q] \in Files /\ FileOf[p] # FileOf[q]
    BY HealthAssumption DEF MoveSource, Files
  <1>2. p \in DOMAIN Tracked /\ State(disk, Tracked, p) = "current"
    BY DEF Items, SourceItems, Item
  <1>3. DOMAIN Tracked \subseteq Places
    BY DEF Tracked, TypeOK
  <1>4. Tracked' = Tracked
    BY DEF MoveSource, Tracked
  <1>. QED
    BY <1>1, <1>2, <1>3, <1>4 DEF Moved, TypeOK

\* A source that moves is recognized, under the conditions of MoveIsProposed and no other.
THEOREM MovesAreProposed == Spec => MoveIsProposed
  <1> DEFINE Conditions(p, q) ==
               /\ MoveSource(FileOf[p], FileOf[q])
               /\ Item("current", p, disk[FileOf[p]]) \in Items
               /\ RootOf[q] = RootOf[p] /\ q \notin DOMAIN Tracked
               /\ \E i \in Items : /\ i.place # p /\ RootOf[i.place] = RootOf[p]
                                    /\ i.state \in {"current", "modified"}
               /\ \A r \in Places : FileOf[r] \in {FileOf[p], FileOf[q]} /\ RootOf[r] = RootOf[p] => r \in {p, q}
               /\ \A i \in Items : i.state \in {"missing", "untracked"} => i.hash # disk[FileOf[p]]
  <1>1. ASSUME TypeOK, NEW p \in Places, NEW q \in Places, Conditions(p, q)
        PROVE  \E pair \in Renames(Items)' : pair[1].place = p /\ pair[2].place = q
    <2>1. Moved(disk, disk', Tracked, p, q) /\ Items' = SourceItems(disk', Tracked)
      BY <1>1, MoveMoves DEF Items
    <2>2. \E pair \in Renames(SourceItems(disk', Tracked)) : pair[1].place = p /\ pair[2].place = q
      BY <1>1, <2>1, MoveIsRename DEF Items
    <2>3. Renames(Items)' = Renames(Items')
      BY DEF Renames, InState, SameSource
    <2>. QED
      BY <2>1, <2>2, <2>3
  <1>2. TypeOK => [\A p, q \in Places :
                     Conditions(p, q) => \E pair \in Renames(Items)' : pair[1].place = p /\ pair[2].place = q]_vars
    BY <1>1
  <1>. QED
    BY <1>2, TypeCorrect, PTL DEF MoveIsProposed
-----------------------------------------------------------------------------
(* What a rebuild leaves.                                                  *)

LEMMA IdentityWritten ==
  ASSUME TypeOK
  PROVE  /\ Layer("normalized", records) \in Layers([DOMAIN records -> RecordShape])
         /\ Layer("compiled", pages) \in Layers([DOMAIN pages -> PageShape])
         /\ CurrentIdentity =
              [normalized |-> Layer("normalized", records), compiled |-> Layer("compiled", pages),
               retrieval |-> Tokenizer(installed),
               search_document_format |-> "1", lexical_index_format |-> "1"]
         /\ CurrentIdentity \in Identities(DOMAIN records, DOMAIN pages)
  <1> DEFINE normalized == Layer("normalized", records)
             compiled == Layer("compiled", pages)
  <1>1. IsFiniteSet(DOMAIN records) /\ IsFiniteSet(DOMAIN pages)
    <2>1. IsFiniteSet(Places) /\ IsFiniteSet(PageNames)
      BY HealthAssumption, FS_AddElement DEF PageNames
    <2>. QED
      BY <2>1, FS_Subset DEF TypeOK
  <1>2. Cardinality(DOMAIN records) \in Nat /\ Cardinality(DOMAIN pages) \in Nat
    BY <1>1, FS_CardinalityType
  <1>3. changed["normalized"] \in Nat /\ changed["compiled"] \in Nat
    BY DEF TypeOK
  <1>4. /\ normalized \in Layers([DOMAIN records -> RecordShape])
        /\ compiled \in Layers([DOMAIN pages -> PageShape])
    BY <1>2, <1>3 DEF Layer, Layers, TypeOK
  <1>5. Tokenizer(installed) \in {Tokenizer(name) : name \in Tokenizers}
    BY DEF TypeOK
  <1>6. normalized # None /\ compiled # None /\ Tokenizer(installed) # None /\ Typed("1")
    <2>1. DOMAIN records \in SUBSET Places /\ DOMAIN pages \in SUBSET PageNames
      BY DEF TypeOK
    <2>2. /\ None \notin Layers([DOMAIN records -> RecordShape])
          /\ None \notin Layers([DOMAIN pages -> PageShape])
          /\ None \notin {Tokenizer(name) : name \in Tokenizers}
      BY <2>1, WrittenAssumption
    <2>3. Typed("1")
      BY WrittenAssumption DEF Typed
    <2>. HIDE DEF normalized, compiled
    <2>. QED
      BY <1>4, <1>5, <2>2, <2>3
  <1>7. CurrentIdentity =
          [normalized |-> normalized, compiled |-> compiled, retrieval |-> Tokenizer(installed),
           search_document_format |-> "1", lexical_index_format |-> "1"]
    BY <1>6 DEF CurrentIdentity, Identity
  <1>. QED
    BY <1>4, <1>5, <1>7 DEF Identities

\* A layer and a tokenizer that were written are read back as they were.
LEMMA LayerReadBack ==
  ASSUME NEW S \in SUBSET Places, NEW P \in SUBSET PageNames, NEW v,
         \/ v \in Layers([S -> RecordShape])
         \/ v \in Layers([P -> PageShape])
  PROVE  LoadLayer(v) = v
  <1>1. Typed(v) /\ DOMAIN v = LayerKeys
    BY WrittenAssumption DEF Typed, Layers, LayerKeys
  <1>2. \A key \in LayerKeys : Typed(v[key])
    BY WrittenAssumption DEF Typed, Layers, LayerKeys
  <1>3. LoadLayer(v) = [key \in LayerKeys |-> v[key]]
    BY <1>1, <1>2 DEF LoadLayer, Restricted, Requires
  <1>4. v = [key \in DOMAIN v |-> v[key]]
    BY DEF Layers
  <1>. QED
    BY <1>1, <1>3, <1>4

LEMMA TokenizerReadBack ==
  ASSUME NEW name \in Tokenizers
  PROVE  LoadRetrieval(Tokenizer(name)) = Tokenizer(name)
  <1> DEFINE v == Tokenizer(name)
  <1>1. v.name \in STRING /\ v.family \in STRING /\ v.version \in STRING
    BY ManifestAssumption, HealthAssumption DEF Tokenizer
  <1>2. DOMAIN v = RetrievalKeys
    BY DEF Tokenizer, RetrievalKeys
  <1>3. Typed(v)
    BY WrittenAssumption DEF Typed
  <1>4. \A key \in RetrievalKeys : Typed(v[key])
    BY <1>1, WrittenAssumption DEF Typed, RetrievalKeys
  <1>5. LoadRetrieval(v) = [key \in RetrievalKeys |-> v[key]]
    BY <1>2, <1>3, <1>4 DEF LoadRetrieval, Restricted, Requires
  <1>6. v = [key \in DOMAIN v |-> v[key]]
    BY DEF Tokenizer
  <1>. QED
    BY <1>2, <1>5, <1>6

\* load_index_manifest reads from a manifest that was just written what was written.
LEMMA IdentityReadBack ==
  ASSUME TypeOK
  PROVE  /\ NewPayload(CurrentIdentity) # None
         /\ Load(NewPayload(CurrentIdentity)) = CurrentIdentity
         /\ CurrentIdentity # None
  <1> DEFINE identity == CurrentIdentity
             payload == NewPayload(identity)
  <1>1. DOMAIN records \in SUBSET Places /\ DOMAIN pages \in SUBSET PageNames /\ installed \in Tokenizers
    BY DEF TypeOK
  <1>2. identity \in Identities(DOMAIN records, DOMAIN pages)
    BY IdentityWritten
  <1>3. payload \in Manifests(DOMAIN records, DOMAIN pages)
    BY <1>2 DEF NewPayload, Manifests
  <1>4. Typed(identity) /\ Typed(payload) /\ Typed(Indexed) /\ Typed("1")
    <2>1. \A v \in {Junk, None} :
            /\ v \notin Identities(DOMAIN records, DOMAIN pages)
            /\ v \notin Manifests(DOMAIN records, DOMAIN pages)
            /\ v \notin {Indexed, "1"}
      BY <1>1, WrittenAssumption
    <2>. HIDE DEF identity, payload
    <2>. QED
      BY <1>2, <1>3, <2>1 DEF Typed
  <1>5. Requires(payload, {"compiled_paths", "counts"})
    BY <1>4 DEF Requires, NewPayload
  <1>6. Load(payload) = LoadIdentity(identity)
    BY <1>4, <1>5 DEF Load, LoadNew, Get, NewPayload
  <1>7. /\ LoadLayer(identity.normalized) = identity.normalized
        /\ LoadLayer(identity.compiled) = identity.compiled
        /\ LoadRetrieval(identity.retrieval) = identity.retrieval
    <2>1. /\ identity.normalized \in Layers([DOMAIN records -> RecordShape])
          /\ identity.compiled \in Layers([DOMAIN pages -> PageShape])
          /\ identity.retrieval = Tokenizer(installed)
      BY IdentityWritten
    <2>. HIDE DEF identity
    <2>. QED
      BY <1>1, <2>1, LayerReadBack, TokenizerReadBack
  <1>8. LoadIdentity(identity) =
          Identity(identity.normalized, identity.compiled, identity.retrieval, "1", "1")
    BY <1>4, <1>7, IdentityWritten DEF LoadIdentity, Get, Format
  <1>9. LoadIdentity(identity) = identity
    BY <1>8, IdentityWritten DEF CurrentIdentity
  <1>. QED
    BY <1>4, <1>6, <1>9 DEF Typed

\* Right after a rebuild that wrote the manifest nothing is wrong with it or the pages.
LEMMA RebuildClears ==
  TypeOK /\ pages = CompiledPages /\ manifest = NewPayload(CurrentIdentity)
    => \A i \in LintIssues : i.code \in CompiledCodes => i \in CopiedBroken
  <1> SUFFICES ASSUME TypeOK, pages = CompiledPages, manifest = NewPayload(CurrentIdentity),
                      NEW i \in LintIssues, i.code \in CompiledCodes
               PROVE  i \in CopiedBroken
    OBVIOUS
  <1>1. ManifestIssues(Freshness(manifest, CurrentIdentity)) = {}
    <2>1. Reasons(CurrentIdentity, CurrentIdentity) = {}
      BY DEF Reasons, LayerReasons, RetrievalReasons
    <2>2. Freshness(manifest, CurrentIdentity).status = "current"
      BY <2>1, IdentityReadBack DEF Freshness
    <2>. QED
      BY <2>2 DEF ManifestIssues
  <1>2. DOMAIN pages = DOMAIN records \cup {Overview} /\ \A q \in DOMAIN pages : pages[q].whole
    BY DEF CompiledPages
  <1>3. /\ pages[Overview].links = DOMAIN records \cup Catalogued
        /\ \A q \in DOMAIN pages \ {Overview} : pages[q].links = {Overview} \cup Quoted(q)
    BY DEF CompiledPages
  <1>4. GraphIssues \subseteq CopiedBroken
    <2> DEFINE copied == UNION {Quoted(p) : p \in DOMAIN records}
    <2>0. Catalogued \subseteq copied /\ \A q \in DOMAIN records : Quoted(q) \subseteq copied
      BY DEF Catalogued, Quoted
    <2>01. ASSUME NEW q \in DOMAIN pages, NEW t \in copied \ DOMAIN pages
           PROVE  Issue("L201", "error", <<q, t>>) \in CopiedBroken
      BY DEF CopiedBroken
    <2>. HIDE DEF copied
    <2>1. \A q \in DOMAIN pages : pages[q].links \ DOMAIN pages \subseteq copied \ DOMAIN pages
      BY <1>2, <1>3, <2>0
    <2>2. \A q \in DOMAIN pages \ {Overview} : q \in pages[Overview].links
      BY <1>2, <1>3
    <2>3. UNION {{Issue("L201", "error", <<q, t>>) : t \in pages[q].links \ DOMAIN pages} : q \in DOMAIN pages}
            \subseteq CopiedBroken
      <3>1. ASSUME NEW q \in DOMAIN pages, NEW t \in pages[q].links \ DOMAIN pages
            PROVE  Issue("L201", "error", <<q, t>>) \in CopiedBroken
        <4>1. t \in copied \ DOMAIN pages
          BY <2>1
        <4>. QED
          BY <2>01, <4>1
      <3>2. ASSUME NEW q \in DOMAIN pages
            PROVE  {Issue("L201", "error", <<q, t>>) : t \in pages[q].links \ DOMAIN pages} \subseteq CopiedBroken
        BY <3>1, Zenon
      <3>. QED
        BY <3>2, Zenon
    <2>4. {q \in DOMAIN pages \ {Overview} : \A r \in DOMAIN pages \ {q} : q \notin pages[r].links} = {}
      BY <1>2, <2>2
    <2>5. {Issue("L301", "warning", q) :
             q \in {q \in DOMAIN pages \ {Overview} : \A r \in DOMAIN pages \ {q} : q \notin pages[r].links}} = {}
      BY <2>4
    <2>. QED
      BY <2>3, <2>5 DEF GraphIssues
  <1>5. i \notin StructuralIssues
    BY <1>2 DEF StructuralIssues, Issue, CompiledCodes
  <1>6. i \in IntegrityIssues => i \in CopiedBroken
    BY <1>1, <1>2, <1>4 DEF IntegrityIssues, ProvenanceIssues, Issue, CompiledCodes
  <1>7. i \notin FreshnessIssues
    BY <1>1 DEF FreshnessIssues, Issue, CompiledCodes
  <1>8. i \notin SourceIssues(Items) /\ i \notin RenameIssues(Items)
    BY ItemStates DEF SourceIssues, RenameIssues, SourceCode, Issue, CompiledCodes
  <1>9. i \notin SummaryIssues
    BY <1>2 DEF SummaryIssues
  <1>. QED
    BY <1>5, <1>6, <1>7, <1>8, <1>9 DEF LintIssues

\* The retrieval identity of a manifest has no fields but the three that are compared.
LEMMA RetrievalFields ==
  ASSUME NEW payload, Load(payload) # None
  PROVE  Load(payload).retrieval = [key \in RetrievalKeys |-> Load(payload).retrieval[key]]
  <1> DEFINE Proper(v) == v = None \/ v = [key \in RetrievalKeys |-> v[key]]
  <1>1. \A v : Proper(LoadRetrieval(v))
    BY DEF LoadRetrieval, Restricted
  <1>2. \A name : Proper(Tokenizer(name))
    BY DEF Tokenizer, RetrievalKeys
  <1>3. Proper(LegacyRetrieval(payload))
    BY <1>1, <1>2 DEF LegacyRetrieval, LegacyTokenizer, LegacyFlags
  <1>4. Load(payload).retrieval # None
    BY DEF Load, LoadNew, LoadLegacy, LoadIdentity, Identity
  <1>. QED
    BY <1>1, <1>3, <1>4, LoadedRetrieval

\* A rebuild whose guard objected leaves a manifest that lint still complains of.
LEMMA RefusalStaysRed ==
  TypeOK /\ DOMAIN pages # {} /\ ~GuardAdmits(manifest, Tokenizer(installed))
    => \E i \in Errors(LintIssues) : i.code = "L104"
  <1> SUFFICES ASSUME TypeOK, DOMAIN pages # {}, ~GuardAdmits(manifest, Tokenizer(installed))
               PROVE  \E i \in Errors(LintIssues) : i.code = "L104"
    OBVIOUS
  <1> DEFINE freshness == Freshness(manifest, CurrentIdentity)
  <1>1. manifest # None /\ GuardIdentity(manifest) # Tokenizer(installed)
    BY DEF GuardAdmits
  <1>2. freshness.status # "current"
    <2>1. CASE Load(manifest) = None
      BY <1>1, <2>1 DEF Freshness
    <2>2. CASE Load(manifest) # None
      <3>1. Load(manifest).retrieval # CurrentIdentity.retrieval
        BY <1>1, <2>2, ReadersAgree, IdentityWritten
      <3>2. PICK key \in RetrievalKeys : Load(manifest).retrieval[key] # CurrentIdentity.retrieval[key]
        <4>1. CurrentIdentity.retrieval = [key \in RetrievalKeys |-> CurrentIdentity.retrieval[key]]
          BY IdentityWritten DEF Tokenizer, RetrievalKeys
        <4>. QED
          BY <2>2, <3>1, <4>1, RetrievalFields
      <3>3. Reasons(Load(manifest), CurrentIdentity) # {}
        BY <3>2 DEF Reasons, RetrievalReasons
      <3>. QED
        BY <1>1, <2>2, <3>3 DEF Freshness
    <2>. QED
      BY <2>1, <2>2
  <1>3. PICK i \in ManifestIssues(freshness) :
          i.status = freshness.status /\ i.severity = "error" /\ i.code = "L104"
    BY <1>2, OneManifestIssue
  <1>4. i \in IntegrityIssues \/ i \in FreshnessIssues
    BY <1>3 DEF IntegrityIssues, FreshnessIssues
  <1>. QED
    BY <1>3, <1>4 DEF LintIssues, Errors

\* A rebuild ends with compiled pages and an index in which lint has nothing against
\* but the broken links of the texts, or with the refused manifest reported as an error.
THEOREM RebuildClearsTheReport == Spec => RebuildClearsOrStaysRed
  <1>1. TypeOK /\ pages = CompiledPages /\ manifest = NewPayload(CurrentIdentity)
          => \A i \in LintIssues : i.code \in CompiledCodes => i \in CopiedBroken
    BY RebuildClears
  <1>2. (TypeOK /\ pages = CompiledPages /\ manifest = NewPayload(CurrentIdentity)
           => \A i \in LintIssues : i.code \in CompiledCodes => i \in CopiedBroken)'
    BY <1>1, PTL
  <1>3. TypeOK /\ DOMAIN pages # {} /\ ~GuardAdmits(manifest, Tokenizer(installed))
          => \E i \in Errors(LintIssues) : i.code = "L104"
    BY RefusalStaysRed
  <1>4. (TypeOK /\ DOMAIN pages # {} /\ ~GuardAdmits(manifest, Tokenizer(installed))
           => \E i \in Errors(LintIssues) : i.code = "L104")'
    BY <1>3, PTL
  <1>5. ASSUME TypeOK, TypeOK', Rebuild
        PROVE  \/ \A i \in LintIssues' : i.code \in CompiledCodes => i \in CopiedBroken'
               \/ /\ manifest' = manifest
                  /\ \E i \in Errors(LintIssues)' : i.code = "L104"
    <2>1. pages' = CompiledPages' /\ DOMAIN pages' # {} /\ installed' = installed
      BY <1>5 DEF Rebuild, CompiledPages, Catalogued, Quoted, Days
    <2>2. CASE GuardAdmits(manifest, Tokenizer(installed))
      <3>1. manifest' = NewPayload(CurrentIdentity)'
        BY <1>5, <2>2 DEF Rebuild, NewPayload
      <3>. QED
        BY <1>2, <1>5, <2>1, <3>1
    <2>3. CASE ~GuardAdmits(manifest, Tokenizer(installed))
      <3>1. manifest' = manifest
        BY <1>5, <2>3 DEF Rebuild
      <3>2. ~GuardAdmits(manifest, Tokenizer(installed))'
        BY <2>1, <2>3, <3>1 DEF GuardAdmits
      <3>. QED
        BY <1>4, <1>5, <2>1, <3>1, <3>2
    <2>. QED
      BY <2>2, <2>3
  <1>6. TypeOK /\ TypeOK' =>
          [Rebuild => \/ \A i \in LintIssues' : i.code \in CompiledCodes => i \in CopiedBroken'
                      \/ /\ manifest' = manifest
                         /\ \E i \in Errors(LintIssues)' : i.code = "L104"]_vars
    BY <1>5
  <1>. QED
    BY <1>6, TypeCorrect, PTL DEF RebuildClearsOrStaysRed
-----------------------------------------------------------------------------
(* A clean report.                                                         *)

\* None of the records stops a rebuild.
Compilable(recs) == \A p \in DOMAIN recs : recs[p].flaw \notin Blocking

\* The records of which a manifest of either shape holds the layer.
HasLayer(payload, top) ==
  /\ Typed(payload) /\ top \in DOMAIN payload /\ Typed(payload[top])
  /\ "normalized" \in DOMAIN payload[top] /\ Typed(payload[top]["normalized"])

IndexedCompilable(payload) ==
  \A top \in {"identity", "content_identity"} :
    HasLayer(payload, top) => Compilable(payload[top]["normalized"].content_hash)

\* Where the records were indexed, they could be compiled: no record that stops a rebuild
\* is part of an index.
IndexInv == IndexedCompilable(manifest)

\* Nobody's damage puts records into a manifest.
LEMMA DamageIndexesNothing ==
  ASSUME NEW payload, Typed(payload), IndexedCompilable(payload), NEW damaged \in Damaged(payload)
  PROVE  IndexedCompilable(damaged)
  <1> SUFFICES ASSUME NEW top \in {"identity", "content_identity"}, HasLayer(damaged, top)
               PROVE  /\ HasLayer(payload, top)
                      /\ damaged[top]["normalized"] = payload[top]["normalized"]
    BY DEF IndexedCompilable
  <1>1. CASE damaged = Junk
    BY <1>1 DEF HasLayer, Typed
  <1>2. CASE \E key \in DOMAIN payload, v \in {Junk, None} : damaged = WithField(payload, key, v)
    <2>1. PICK key \in DOMAIN payload, v \in {Junk, None} : damaged = WithField(payload, key, v)
      BY <1>2
    <2>2. top \in DOMAIN payload /\ damaged[top] \in {payload[top], Junk}
      BY <2>1, ManifestAssumption DEF HasLayer, WithField
    <2>3. damaged[top] = payload[top]
      BY <2>2 DEF HasLayer, Typed
    <2>. QED
      BY <2>2, <2>3 DEF HasLayer
  <1>3. CASE \E at \in {"identity", "content_identity"} \cap DOMAIN payload :
               /\ Typed(payload[at])
               /\ \E key \in DOMAIN payload[at], v \in {Junk, None} :
                    damaged = [payload EXCEPT ![at] = WithField(payload[at], key, v)]
    <2>1. PICK at \in {"identity", "content_identity"} \cap DOMAIN payload :
                 /\ Typed(payload[at])
                 /\ \E key \in DOMAIN payload[at], v \in {Junk, None} :
                      damaged = [payload EXCEPT ![at] = WithField(payload[at], key, v)]
      BY <1>3
    <2>2. PICK key \in DOMAIN payload[at], v \in {Junk, None} :
                 damaged = [payload EXCEPT ![at] = WithField(payload[at], key, v)]
      BY <2>1
    <2>3. CASE at = top
      <3>1. damaged[top] = WithField(payload[top], key, v)
        BY <2>1, <2>2, <2>3
      <3>2. "normalized" \in DOMAIN payload[top]
        BY <2>2, <2>3, <3>1, ManifestAssumption DEF HasLayer, WithField
      <3>3. damaged[top]["normalized"] \in {payload[top]["normalized"], Junk}
        BY <2>2, <2>3, <3>1, <3>2, ManifestAssumption DEF HasLayer, WithField
      <3>4. damaged[top]["normalized"] = payload[top]["normalized"]
        BY <3>3 DEF HasLayer, Typed
      <3>. QED
        BY <2>1, <2>3, <3>2, <3>4 DEF HasLayer
    <2>4. CASE at # top
      <3>1. top \in DOMAIN payload /\ damaged[top] = payload[top]
        BY <2>2, <2>4 DEF HasLayer
      <3>. QED
        BY <3>1 DEF HasLayer
    <2>. QED
      BY <2>3, <2>4
  <1>. QED
    BY <1>1, <1>2, <1>3 DEF Damaged

\* What a rebuild indexes are the records it compiled.
WrittenCompilable ==
  /\ IndexedCompilable(NewPayload(CurrentIdentity))
  /\ \A style \in Styles : IndexedCompilable(LegacyPayload(CurrentIdentity, style))

LEMMA WrittenIndex == TypeOK /\ Compilable(records) => WrittenCompilable
  <1> SUFFICES ASSUME TypeOK, Compilable(records)
               PROVE  WrittenCompilable
    OBVIOUS
  <1> DEFINE identity == CurrentIdentity
  <1>1. identity.normalized.content_hash = records
    BY IdentityWritten DEF Layer
  <1>2. IndexedCompilable(NewPayload(identity))
    <2>. HIDE DEF identity
    <2>. QED
      BY <1>1 DEF IndexedCompilable, HasLayer, NewPayload
  <1>3. ASSUME NEW style \in Styles
        PROVE  IndexedCompilable(LegacyPayload(identity, style))
    <2>. HIDE DEF identity
    <2>1. CASE style = "object"
      BY <1>1, <2>1 DEF IndexedCompilable, HasLayer, LegacyPayload, StatusIdentity
    <2>2. CASE style = "name"
      BY <1>1, <2>2 DEF IndexedCompilable, HasLayer, LegacyPayload, StatusIdentity
    <2>3. CASE style = "flags"
      BY <1>1, <2>3 DEF IndexedCompilable, HasLayer, LegacyPayload, StatusIdentity
    <2>. QED
      BY <2>1, <2>2, <2>3, HealthAssumption
  <1>. QED
    BY <1>2, <1>3 DEF WrittenCompilable

LEMMA WrittenIndexNext == (TypeOK /\ Compilable(records) => WrittenCompilable)'
  BY WrittenIndex, PTL

\* Records get worse after they were indexed, and the index does not follow.
LEMMA IndexStaysCompilable ==
  ASSUME TypeOK, TypeOK', IndexInv, [Next]_vars
  PROVE  IndexInv'
  <1>1. CASE UNCHANGED manifest
    BY <1>1 DEF IndexInv, IndexedCompilable, HasLayer
  <1>2. CASE DamageManifest
    BY <1>2, DamageIndexesNothing DEF DamageManifest, IndexInv
  <1>3. CASE Rebuild
    <2>1. Compilable(records)' /\ UNCHANGED records
      BY <1>3 DEF Rebuild, RebuildRaises, Compilable
    <2>2. manifest' = manifest \/ manifest' = NewPayload(CurrentIdentity')
      BY <1>3 DEF Rebuild
    <2>. QED
      BY <1>1, <2>1, <2>2, WrittenIndexNext DEF IndexInv, WrittenCompilable, NewPayload
  <1>4. CASE LegacyRebuild
    <2>1. Compilable(records)' /\ UNCHANGED records
      BY <1>4 DEF LegacyRebuild, RebuildRaises, Compilable
    <2>2. PICK style \in Styles : manifest' = LegacyPayload(CurrentIdentity', style)
      BY <1>4 DEF LegacyRebuild
    <2>. QED
      BY <2>1, <2>2, WrittenIndexNext DEF IndexInv, WrittenCompilable
  <1>. QED
    BY <1>1, <1>2, <1>3, <1>4 DEF Next, EditSource, MoveSource, Ingest, Upgrade, MonthPasses,
       DamageRecord, LoseSnapshot, DamagePage, vars

\* Every behaviour of a workspace keeps what stops a rebuild out of its index.
THEOREM IndexCorrect == Spec => []IndexInv
  <1>1. Init => IndexInv
    BY DEF Init, IndexInv, IndexedCompilable, HasLayer, Typed
  <1>2. TypeOK /\ TypeOK' /\ IndexInv /\ [Next]_vars => IndexInv'
    BY IndexStaysCompilable
  <1>. QED
    BY <1>1, <1>2, TypeCorrect, PTL DEF Spec

\* The normalized layer of a manifest that is accepted is the one its shape holds.
LEMMA LoadedLayer ==
  ASSUME NEW payload, Load(payload) # None
  PROVE  \E top \in {"identity", "content_identity"} :
           /\ HasLayer(payload, top)
           /\ Load(payload).normalized.content_hash = payload[top]["normalized"].content_hash
  <1> DEFINE layer(object) == LoadLayer(Get(object, "normalized"))
  <1>1. Typed(payload)
    BY DEF Load
  <1>2. \A object : layer(object) # None =>
          /\ "normalized" \in DOMAIN object /\ Typed(object["normalized"])
          /\ layer(object).content_hash = object["normalized"].content_hash
    BY DEF LoadLayer, Restricted, Requires, LayerKeys, Get, Typed
  <1>3. CASE "identity" \in DOMAIN payload
    <2>1. Load(payload) = LoadIdentity(payload["identity"])
      BY <1>1, <1>3 DEF Load, LoadNew, Get
    <2>2. Typed(payload["identity"])
      BY <2>1 DEF LoadIdentity
    <2>3. layer(payload["identity"]) # None /\ Load(payload).normalized = layer(payload["identity"])
      BY <2>1, <2>2 DEF LoadIdentity, Identity
    <2>. QED
      BY <1>1, <1>2, <1>3, <2>2, <2>3 DEF HasLayer
  <1>4. CASE "identity" \notin DOMAIN payload
    <2>1. Load(payload) = LoadLegacy(payload)
      BY <1>1, <1>4 DEF Load
    <2>2. Typed(Get(payload, "content_identity"))
      BY <2>1 DEF LoadLegacy
    <2>3. "content_identity" \in DOMAIN payload /\ Typed(payload["content_identity"])
      BY <2>2 DEF Get, Typed
    <2>4. /\ layer(payload["content_identity"]) # None
          /\ Load(payload).normalized = layer(payload["content_identity"])
      BY <2>1, <2>3 DEF LoadLegacy, Identity, Get
    <2>. QED
      BY <1>1, <1>2, <2>3, <2>4 DEF HasLayer
  <1>. QED
    BY <1>3, <1>4

\* Where lint finds no error, the records are those of the last index, all of which
\* could be compiled: a rebuild raises at none of them.
THEOREM CleanRebuilds == Spec => []CleanReportCanBeRebuilt
  <1>1. ASSUME TypeOK, IndexInv, Errors(LintIssues) = {}
        PROVE  ~RebuildRaises
    <2> DEFINE freshness == Freshness(manifest, CurrentIdentity)
    <2>1. CASE DOMAIN records = {}
      BY <2>1 DEF RebuildRaises
    <2>2. CASE DOMAIN records # {}
      <3>1. DOMAIN pages # {}
        <4>1. DOMAIN pages = {} => Issue("L103", "error", Overview) \in LintIssues
          BY <2>2 DEF LintIssues, IntegrityIssues
        <4>2. Issue("L103", "error", Overview).severity = "error"
          BY DEF Issue
        <4>3. \A i \in LintIssues : i.severity # "error"
          BY <1>1 DEF Errors
        <4>. QED
          BY <4>1, <4>2, <4>3
      <3>2. freshness.status = "current"
        <4>1. freshness.status # "current" =>
                \E i \in ManifestIssues(freshness) : i.status = freshness.status /\ i.severity = "error"
          BY OneManifestIssue
        <4>2. ManifestIssues(freshness) \subseteq LintIssues
          BY <3>1 DEF LintIssues, IntegrityIssues, FreshnessIssues
        <4>. QED
          BY <1>1, <4>1, <4>2 DEF Errors
      <3>3. Load(manifest) # None /\ Reasons(Load(manifest), CurrentIdentity) = {}
        BY <3>2 DEF Freshness
      <3>4. Load(manifest).normalized.content_hash = records
        <4>1. LayerReasons("normalized", Load(manifest).normalized, CurrentIdentity.normalized) = {}
          BY <3>3 DEF Reasons
        <4>2. Load(manifest).normalized["content_hash"] = CurrentIdentity.normalized["content_hash"]
          BY <4>1 DEF LayerReasons, LayerKeys
        <4>3. CurrentIdentity.normalized.content_hash = records
          BY <1>1, IdentityWritten DEF Layer
        <4>. QED
          BY <4>2, <4>3
      <3>5. Compilable(records)
        BY <1>1, <3>3, <3>4, LoadedLayer DEF IndexInv, IndexedCompilable
      <3>. QED
        BY <3>5 DEF Compilable, RebuildRaises
    <2>. QED
      BY <2>1, <2>2
  <1>2. TypeOK /\ IndexInv => CleanReportCanBeRebuilt
    BY <1>1 DEF CleanReportCanBeRebuilt
  <1>. QED
    BY <1>2, TypeCorrect, IndexCorrect, PTL
=============================================================================
