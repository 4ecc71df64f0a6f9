------------------------- MODULE MaterializerProofs -------------------------
(***************************************************************************)
(* Proofs about Materializer, for any records, contents, set of commands   *)
(* and number of upgrades.                                                 *)
(***************************************************************************)
EXTENDS Materializer, TLAPS

(* The pages derived from a record map are a page map.                      *)
LEMMA PagesOfType ==
  ASSUME NEW recs \in RecordMap
  PROVE  PagesOf(recs) \in PageMap
BY DEF PagesOf, PageMap

(* The identity of the workspace is well typed.                             *)
LEMMA IdentityType ==
  ASSUME TypeOK
  PROVE  /\ NormalizedId \in NormalizedIds
         /\ CompiledId \in CompiledIds
         /\ CurrentIdentity \in Identities
BY DEF TypeOK, NormalizedId, CompiledId, CurrentIdentity, NormalizedIds,
       CompiledIds, Identities

LEMMA InitTypeOK == Init => TypeOK
<1> SUFFICES ASSUME Init PROVE TypeOK
  OBVIOUS
<1>1. normalized \in RecordMap /\ nTick \in Nat /\ cTick \in Nat
  BY DEF Init
<1>2. compiled \in PageMap
  BY <1>1, PagesOfType DEF Init, FreshWorkspace, BuiltWorkspace, PageMap
<1>3. CurrentIdentity \in Identities
  BY <1>1, <1>2 DEF NormalizedId, CompiledId, CurrentIdentity, NormalizedIds,
                    CompiledIds, Identities
<1>4. installed \in 1..MaxTokenizer /\ installed \in Nat
  BY ValuesAssumption DEF Init
<1>5. manifest \in Manifests \cup {NoManifest}
  <2>1. CASE FreshWorkspace
    BY <2>1 DEF FreshWorkspace
  <2>2. CASE BuiltWorkspace
    BY <2>2, <1>1, <1>3, <1>4 DEF BuiltWorkspace, Manifests
  <2>3. QED
    BY <2>1, <2>2 DEF Init
<1>6. QED
  BY <1>1, <1>2, <1>3, <1>4, <1>5 DEF Init, TypeOK, Ended, Mutating, Compiling, Validating

LEMMA StartTypeOK ==
  ASSUME TypeOK, NEW p \in Procs, Start(p)
  PROVE  TypeOK'
<1>1. PICK k \in {"ingest", "fileback", "prune", "rebuild"}, flag \in BOOLEAN,
           work \in SUBSET Pages, step \in {"store", "delete", "load"} :
        Begin(p, k, flag, work, step) /\ (work # {} => step \in Mutating)
  BY DEF Start, BeginIngest, BeginFileback, BeginPrune, BeginRebuild, Pages, Records, Mutating
<1>2. installed \in Nat
  BY ValuesAssumption DEF TypeOK
<1>3. QED
  BY <1>1, <1>2 DEF TypeOK, Begin, Goto, layers, reads, Mutating

LEMMA MutateTypeOK ==
  ASSUME TypeOK, NEW p \in Procs, Mutate(p)
  PROVE  TypeOK'
<1> USE DEF TypeOK, Goto, Resume, Finished, layers, jobs, reads, Mutating
<1>1. ASSUME NEW r \in Records, NEW c \in Contents, StoreRecord(p, r, c)
      PROVE  TypeOK'
  BY <1>1 DEF StoreRecord, WriteNormalized, Disturb, RecordMap
<1>2. ASSUME NEW r \in Records, StoreUnchanged(p, r)
      PROVE  TypeOK'
  BY <1>2 DEF StoreUnchanged
<1>3. ASSUME NEW r \in Records, DeleteRecord(p, r)
      PROVE  TypeOK'
  BY <1>3 DEF DeleteRecord, WriteNormalized, Disturb, RecordMap
<1>4. ASSUME NEW r \in Records, SkipDeleted(p, r)
      PROVE  TypeOK'
  BY <1>4 DEF SkipDeleted
<1>5. ASSUME EndMutation(p)
      PROVE  TypeOK'
  <2>1. pc'[p] \in {"load", "done"} /\ todo[p] = {}
    BY <1>5 DEF EndMutation
  <2>2. QED
    BY <1>5, <2>1 DEF EndMutation, Ended
<1>6. QED
  BY <1>1, <1>2, <1>3, <1>4, <1>5 DEF Mutate

LEMMA CompileTypeOK ==
  ASSUME TypeOK, NEW p \in Procs, Compile(p)
  PROVE  TypeOK'
<1> USE DEF TypeOK, Goto, Resume, Finished, layers, jobs, reads, Mutating
<1>1. ASSUME LoadRecords(p)
      PROVE  TypeOK'
  BY <1>1 DEF LoadRecords, Compiling
<1>2. ASSUME ListCompiled(p)
      PROVE  TypeOK'
  BY <1>2 DEF ListCompiled, PresentIn, Compiling
<1>3. ASSUME NEW q \in Pages, RemovePage(p, q)
      PROVE  TypeOK'
  BY <1>3 DEF RemovePage, WriteCompiled, Disturb, PageMap
<1>4. ASSUME NEW q \in Pages, RemoveMissing(p, q)
      PROVE  TypeOK'
  BY <1>4 DEF RemoveMissing, Ended
<1>9. ASSUME NEW q \in Pages, SkipMissing(p, q)
      PROVE  TypeOK'
  BY <1>9 DEF SkipMissing
<1>5. ASSUME NEW q \in Pages, WritePage(p, q)
      PROVE  TypeOK'
  <2>1. PagesOf(built[p])[q] \in RecordMap \cup {Absent}
    BY PagesOfType DEF PageMap
  <2>2. QED
    BY <1>5, <2>1 DEF WritePage, WriteCompiled, Disturb, PageMap
<1>6. ASSUME StartPages(p)
      PROVE  TypeOK'
  BY <1>6 DEF StartPages, PresentIn, Compiling
<1>7. ASSUME EndPages(p)
      PROVE  TypeOK'
  BY <1>7 DEF EndPages, Compiling
<1>8. QED
  BY <1>1, <1>2, <1>3, <1>4, <1>5, <1>6, <1>7, <1>9 DEF Compile

LEMMA FinalizeTypeOK ==
  ASSUME TypeOK, NEW p \in Procs, Finalize(p)
  PROVE  TypeOK'
<1> USE IdentityType DEF TypeOK, Goto, layers, jobs, reads, Mutating
<1>1. ASSUME ScanNormalized(p)
      PROVE  TypeOK'
  BY <1>1 DEF ScanNormalized, Compiling, Identities
<1>2. ASSUME ScanCompiled(p)
      PROVE  TypeOK'
  BY <1>2 DEF ScanCompiled, Validating, Identities
<1>3. ASSUME BuildSnapshot(p)
      PROVE  TypeOK'
  BY <1>3 DEF BuildSnapshot, Validating
<1>4. ASSUME RejectTokenizer(p)
      PROVE  TypeOK'
  BY <1>4 DEF RejectTokenizer, Ended
<1>5. ASSUME RescanNormalized(p)
      PROVE  TypeOK'
  BY <1>5 DEF RescanNormalized, Validating, Identities
<1>6. ASSUME RescanCompiled(p)
      PROVE  TypeOK'
  BY <1>6 DEF RescanCompiled, Validating, Identities
<1>7. ASSUME WriteManifest(p)
      PROVE  TypeOK'
  BY <1>7 DEF WriteManifest, Ended, Manifests
<1>8. ASSUME RefuseManifest(p)
      PROVE  TypeOK'
  BY <1>8 DEF RefuseManifest, Ended
<1>9. QED
  BY <1>1, <1>2, <1>3, <1>4, <1>5, <1>6, <1>7, <1>8 DEF Finalize

(* Every variable keeps its type in every reachable state.                  *)
THEOREM TypeCorrect == Spec => []TypeOK
<1>1. TypeOK /\ [Next]_vars => TypeOK'
  <2> SUFFICES ASSUME TypeOK, [Next]_vars PROVE TypeOK'
    OBVIOUS
  <2>1. CASE Upgrade
    BY <2>1, ValuesAssumption DEF Upgrade, TypeOK, layers, jobs, reads
  <2>2. ASSUME NEW p \in Procs, Start(p)
        PROVE  TypeOK'
    BY <2>2, StartTypeOK
  <2>3. ASSUME NEW p \in Procs, Step(p)
        PROVE  TypeOK'
    BY <2>3, MutateTypeOK, CompileTypeOK, FinalizeTypeOK DEF Step
  <2>4. ASSUME NEW p \in Procs, Kill(p)
        PROVE  TypeOK'
    BY <2>4 DEF Kill, Goto, TypeOK, layers, jobs, reads, Live, Mutating, Ended
  <2>5. CASE UNCHANGED vars
    BY <2>5 DEF TypeOK, vars, layers, jobs, reads
  <2>6. QED
    BY <2>1, <2>2, <2>3, <2>4, <2>5 DEF Next
<1>2. QED
  BY InitTypeOK, <1>1, PTL DEF Spec

-----------------------------------------------------------------------------
(***************************************************************************)
(* Every identity a process or the manifest holds was taken at an mtime    *)
(* the layer has reached, and a snapshot whose identity still has the      *)
(* layer's mtime holds the layer's records.  This is what the property     *)
(* IndexedRecordsAreCurrent rests on; it is inductive together with        *)
(* TypeOK.                                                                 *)
(***************************************************************************)
Snapped == {"rescanNormalized", "rescanCompiled", "finalize"}

ProcessTicks(p) ==
  /\ pc[p] \in {"scanCompiled"} \cup Validating => first[p].normalized.mtime <= nTick
  /\ pc[p] \in Validating => first[p].compiled.mtime <= cTick
  /\ pc[p] \in Snapped /\ first[p].normalized.mtime = nTick => snap[p] = normalized

ManifestTicks ==
  manifest # NoManifest =>
    /\ manifest.identity.normalized.mtime <= nTick
    /\ manifest.identity.compiled.mtime <= cTick
    /\ manifest.identity.normalized.mtime = nTick => manifest.records = normalized

TickInv == ManifestTicks /\ \A p \in Procs : ProcessTicks(p)

(***************************************************************************)
(* What an undisturbed compilation has done so far, and what the           *)
(* identities it took say: the pages are those of the records it loaded.   *)
(* BlessedPagesAreComplete rests on it.                                    *)
(***************************************************************************)
ProcessPages(p) ==
  /\ pc[p] \in Compiling => built[p] = normalized
  /\ pc[p] = "remove" => \A q \in Pages \ todo[p] : compiled[q] = Absent
  /\ pc[p] = "write" => \A q \in Pages \ todo[p] : compiled[q] = PagesOf(built[p])[q]
  /\ pc[p] \in {"scanNormalized", "scanCompiled"} => compiled = PagesOf(built[p])
  /\ pc[p] = "scanCompiled" => first[p].normalized.content = built[p]
  /\ pc[p] \in Validating =>
       first[p].compiled.content = PagesOf(first[p].normalized.content)

ManifestPages ==
  manifest # NoManifest /\ ~manifest.raced =>
    manifest.identity.compiled.content = PagesOf(manifest.identity.normalized.content)

PageInv ==
  /\ ManifestPages
  /\ \A p \in Procs : raced[p] # "compiling" => ProcessPages(p)

(***************************************************************************)
(* A process nobody disturbed holds the identity the workspace still has.  *)
(***************************************************************************)
FreshInv ==
  \A p \in Procs :
    /\ Live(p) => tok[p] = installed
    /\ raced[p] = "no" /\ pc[p] = "scanCompiled" => first[p].normalized = NormalizedId
    /\ raced[p] = "no" /\ pc[p] \in Validating => first[p] = CurrentIdentity

-----------------------------------------------------------------------------
LEMMA InitTickInv == Init => TickInv
BY DEF Init, TickInv, ManifestTicks, ProcessTicks, FreshWorkspace, BuiltWorkspace,
       CurrentIdentity, NormalizedId, CompiledId, Validating, Snapped

(* Steps that leave both layers, the identities, the snapshots and the     *)
(* manifest alone, and move at most one process to a step TickInv does not *)
(* speak of.                                                               *)
LEMMA QuietTickInv ==
  ASSUME TypeOK, TickInv,
         UNCHANGED <<nTick, cTick, normalized, manifest, first, snap>>,
         \A p \in Procs : pc'[p] = pc[p]
                          \/ pc'[p] \notin {"scanCompiled"} \cup Validating
  PROVE  TickInv'
BY DEF TypeOK, TickInv, ManifestTicks, ProcessTicks, Validating, Snapped

(* A mutation of normalized/ moves its mtime past every identity taken.    *)
LEMMA NormalizedTickInv ==
  ASSUME TypeOK, TickInv, NEW p \in Procs, NEW r \in Records, NEW value,
         WriteNormalized(p, r, value), UNCHANGED <<cTick, manifest, first, snap, pc>>
  PROVE  TickInv'
<1>1. nTick \in Nat /\ nTick' = nTick + 1
  BY DEF WriteNormalized, TypeOK
<1>2. ManifestTicks'
  <2>1. manifest # NoManifest => manifest.identity.normalized.mtime \in Nat
    BY DEF TypeOK, Manifests, Identities, NormalizedIds
  <2>2. QED
    BY <1>1, <2>1 DEF TickInv, ManifestTicks
<1>3. ASSUME NEW q \in Procs PROVE ProcessTicks(q)'
  <2>1. first[q].normalized.mtime \in Nat
    BY DEF TypeOK, Identities, NormalizedIds
  <2>2. pc[q] \in Snapped => pc[q] \in Validating
    BY DEF Snapped, Validating
  <2>3. QED
    BY <1>1, <2>1, <2>2 DEF TickInv, ProcessTicks
<1>4. QED
  BY <1>2, <1>3 DEF TickInv

(* A mutation of compiled/ moves its mtime past every identity taken.      *)
LEMMA CompiledTickInv ==
  ASSUME TypeOK, TickInv, NEW p \in Procs, NEW q \in Pages, NEW page,
         WriteCompiled(p, q, page),
         UNCHANGED <<normalized, nTick, manifest, first, snap, pc>>
  PROVE  TickInv'
<1>1. cTick \in Nat /\ cTick' = cTick + 1
  BY DEF WriteCompiled, TypeOK
<1>2. ManifestTicks'
  <2>1. manifest # NoManifest => manifest.identity.compiled.mtime \in Nat
    BY DEF TypeOK, Manifests, Identities, CompiledIds
  <2>2. QED
    BY <1>1, <2>1 DEF TickInv, ManifestTicks
<1>3. ASSUME NEW x \in Procs PROVE ProcessTicks(x)'
  <2>1. first[x].compiled.mtime \in Nat
    BY DEF TypeOK, Identities, CompiledIds
  <2>2. QED
    BY <1>1, <2>1 DEF TickInv, ProcessTicks
<1>4. QED
  BY <1>2, <1>3 DEF TickInv

LEMMA FinalizeTickInv ==
  ASSUME TypeOK, TickInv, NEW p \in Procs, Finalize(p)
  PROVE  TickInv'
<1> USE DEF Goto, layers, jobs, reads
<1>1. ASSUME ScanNormalized(p) PROVE TickInv'
  BY <1>1 DEF ScanNormalized, TypeOK, TickInv, ManifestTicks, ProcessTicks,
              Identities, NormalizedId, Validating, Snapped
<1>2. ASSUME ScanCompiled(p) PROVE TickInv'
  BY <1>2 DEF ScanCompiled, TypeOK, TickInv, ManifestTicks, ProcessTicks,
              Identities, CompiledId, Validating, Snapped
<1>3. ASSUME BuildSnapshot(p) PROVE TickInv'
  BY <1>3 DEF BuildSnapshot, TypeOK, TickInv, ManifestTicks, ProcessTicks,
              Validating, Snapped
<1>4. ASSUME RejectTokenizer(p) \/ RefuseManifest(p) PROVE TickInv'
  BY <1>4, QuietTickInv DEF RejectTokenizer, RefuseManifest, TypeOK, Validating
<1>5. ASSUME RescanNormalized(p) \/ RescanCompiled(p) PROVE TickInv'
  BY <1>5 DEF RescanNormalized, RescanCompiled, TypeOK, TickInv, ManifestTicks,
              ProcessTicks, Validating, Snapped
<1>6. ASSUME WriteManifest(p) PROVE TickInv'
  BY <1>6 DEF WriteManifest, TypeOK, TickInv, ManifestTicks, ProcessTicks,
              Validating, Snapped
<1>7. QED
  BY <1>1, <1>2, <1>3, <1>4, <1>5, <1>6 DEF Finalize

LEMMA NextTickInv ==
  ASSUME TypeOK, TickInv, [Next]_vars
  PROVE  TickInv'
<1> USE DEF Goto, Resume, layers, jobs, reads
<1>1. CASE Upgrade
  BY <1>1, QuietTickInv DEF Upgrade
<1>2. ASSUME NEW p \in Procs, Start(p) PROVE TickInv'
  BY <1>2, QuietTickInv DEF Start, BeginIngest, BeginFileback, BeginPrune,
                            BeginRebuild, Begin, TypeOK, Validating
<1>3. ASSUME NEW p \in Procs, Kill(p) PROVE TickInv'
  BY <1>3, QuietTickInv DEF Kill, TypeOK, Validating
<1>4. ASSUME NEW p \in Procs, Mutate(p) PROVE TickInv'
  <2>1. ASSUME NEW r \in Records, NEW c \in Contents, StoreRecord(p, r, c)
        PROVE  TickInv'
    BY <2>1, NormalizedTickInv DEF StoreRecord
  <2>2. ASSUME NEW r \in Records, DeleteRecord(p, r)
        PROVE  TickInv'
    BY <2>2, NormalizedTickInv DEF DeleteRecord
  <2>3. ASSUME NEW r \in Records, StoreUnchanged(p, r) \/ SkipDeleted(p, r)
        PROVE  TickInv'
    BY <2>3, QuietTickInv DEF StoreUnchanged, SkipDeleted
  <2>4. ASSUME EndMutation(p) PROVE TickInv'
    BY <2>4, QuietTickInv DEF EndMutation, TypeOK, Validating
  <2>5. QED
    BY <1>4, <2>1, <2>2, <2>3, <2>4 DEF Mutate
<1>5. ASSUME NEW p \in Procs, Compile(p) PROVE TickInv'
  <2>1. ASSUME NEW q \in Pages, RemovePage(p, q) \/ WritePage(p, q)
        PROVE  TickInv'
    BY <2>1, CompiledTickInv DEF RemovePage, WritePage
  <2>2. ASSUME LoadRecords(p) \/ ListCompiled(p) \/ StartPages(p) \/ EndPages(p)
        PROVE  TickInv'
    BY <2>2, QuietTickInv DEF LoadRecords, ListCompiled, StartPages, EndPages,
                              TypeOK, Validating
  <2>3. ASSUME NEW q \in Pages, RemoveMissing(p, q) \/ SkipMissing(p, q) PROVE TickInv'
    BY <2>3, QuietTickInv DEF RemoveMissing, SkipMissing, TypeOK, Validating
  <2>4. QED
    BY <1>5, <2>1, <2>2, <2>3 DEF Compile
<1>6. CASE UNCHANGED vars
  BY <1>6, QuietTickInv DEF vars
<1>7. QED
  BY <1>1, <1>2, <1>3, <1>4, <1>5, <1>6, FinalizeTickInv DEF Next, Step

LEMMA TicksCorrect == Spec => []TickInv
BY InitTickInv, NextTickInv, TypeCorrect, PTL DEF Spec

(* The records a current manifest counts are those on disk.                 *)
THEOREM IndexIsCurrent == Spec => []IndexedRecordsAreCurrent
<1>1. TickInv => IndexedRecordsAreCurrent
  BY DEF TickInv, ManifestTicks, IndexedRecordsAreCurrent, Current, CurrentIdentity,
         NormalizedId
<1>2. QED
  BY TicksCorrect, <1>1, PTL

-----------------------------------------------------------------------------
LEMMA InitPageInv == Init => PageInv
<1> SUFFICES ASSUME Init PROVE PageInv
  OBVIOUS
<1>1. ManifestPages
  <2>1. CASE FreshWorkspace
    BY <2>1 DEF FreshWorkspace, ManifestPages
  <2>2. CASE BuiltWorkspace
    BY <2>2 DEF BuiltWorkspace, ManifestPages, CurrentIdentity, NormalizedId, CompiledId
  <2>3. QED
    BY <2>1, <2>2 DEF Init
<1>2. ASSUME NEW p \in Procs PROVE ProcessPages(p)
  BY DEF Init, ProcessPages, Compiling, Validating
<1>3. QED
  BY <1>1, <1>2 DEF PageInv

(* Steps outside compilation: at most one process moves, to a step PageInv *)
(* says nothing of.                                                        *)
LEMMA QuietPageInv ==
  ASSUME TypeOK, PageInv,
         UNCHANGED <<normalized, compiled, manifest, built, first, raced>>,
         \A p \in Procs :
           \/ pc'[p] = pc[p] /\ todo'[p] = todo[p]
           \/ pc'[p] \notin Compiling \cup Validating
  PROVE  PageInv'
<1>1. ManifestPages'
  BY DEF PageInv, ManifestPages
<1>2. ASSUME NEW p \in Procs, raced[p] # "compiling" PROVE ProcessPages(p)'
  BY <1>2 DEF PageInv, ProcessPages, Compiling, Validating
<1>3. QED
  BY <1>1, <1>2 DEF PageInv

(* What a mutation by p does to another process: one that was compiling is *)
(* marked, so the invariant no longer speaks of it.                        *)
LEMMA DisturbedPages ==
  ASSUME TypeOK, PageInv, NEW p \in Procs, Disturb(p), NEW x \in Procs, x # p,
         raced'[x] # "compiling", UNCHANGED <<pc, built, first>>
  PROVE  ProcessPages(x)'
<1>1. pc[x] \notin Compiling
  BY DEF Disturb
<1>2. raced[x] # "compiling"
  BY DEF Disturb, TypeOK
<1>3. ProcessPages(x)
  BY <1>2 DEF PageInv
<1>4. QED
  BY <1>1, <1>3 DEF ProcessPages, Compiling

LEMMA MutatePageInv ==
  ASSUME TypeOK, PageInv, NEW p \in Procs, Mutate(p)
  PROVE  PageInv'
<1> USE DEF layers, jobs, reads
<1>1. ASSUME NEW r \in Records, NEW value, pc[p] \in Mutating, WriteNormalized(p, r, value),
             UNCHANGED <<compiled, manifest, pc, built, first>>
      PROVE  PageInv'
  <2>1. ManifestPages'
    BY <1>1 DEF PageInv, ManifestPages
  <2>2. ASSUME NEW x \in Procs, raced'[x] # "compiling" PROVE ProcessPages(x)'
    <3>1. CASE x = p
      BY <1>1, <3>1 DEF ProcessPages, Mutating, Compiling, Validating
    <3>2. CASE x # p
      BY <1>1, <2>2, <3>2, DisturbedPages DEF WriteNormalized
    <3>3. QED
      BY <3>1, <3>2
  <2>3. QED
    BY <2>1, <2>2 DEF PageInv
<1>2. ASSUME NEW r \in Records, NEW c \in Contents, StoreRecord(p, r, c)
      PROVE  PageInv'
  BY <1>1, <1>2 DEF StoreRecord, Mutating
<1>3. ASSUME NEW r \in Records, DeleteRecord(p, r)
      PROVE  PageInv'
  BY <1>1, <1>3 DEF DeleteRecord, Mutating
<1>4. ASSUME NEW r \in Records, StoreUnchanged(p, r) \/ SkipDeleted(p, r)
      PROVE  PageInv'
  BY <1>4, QuietPageInv DEF StoreUnchanged, SkipDeleted, Finished, TypeOK,
                            Compiling, Validating
<1>5. ASSUME EndMutation(p) PROVE PageInv'
  BY <1>5, QuietPageInv DEF EndMutation, Resume, Goto, TypeOK, Compiling, Validating
<1>6. QED
  BY <1>2, <1>3, <1>4, <1>5 DEF Mutate

(* The compile loop: empty the zone, then write every page once.           *)
LEMMA CompilePageInv ==
  ASSUME TypeOK, PageInv, NEW p \in Procs, Compile(p)
  PROVE  PageInv'
<1> USE DEF Goto, layers, jobs, reads
<1>0. ASSUME UNCHANGED <<normalized, compiled, manifest, first, raced>>,
             \A x \in Procs \ {p} : /\ pc'[x] = pc[x]
                                    /\ todo'[x] = todo[x]
                                    /\ built'[x] = built[x],
             raced[p] # "compiling" => ProcessPages(p)'
      PROVE  PageInv'
  <2>1. ManifestPages'
    BY <1>0 DEF PageInv, ManifestPages
  <2>2. ASSUME NEW x \in Procs \ {p}, raced[x] # "compiling" PROVE ProcessPages(x)'
    BY <1>0, <2>2 DEF PageInv, ProcessPages
  <2>3. QED
    BY <1>0, <2>1, <2>2 DEF PageInv
<1>1. ASSUME NEW q \in Pages, NEW page, WriteCompiled(p, q, page), Finished(p, q),
             UNCHANGED <<normalized, manifest, pc, built, first>>,
             raced[p] # "compiling" => ProcessPages(p)'
      PROVE  PageInv'
  <2>1. ManifestPages'
    BY <1>1 DEF PageInv, ManifestPages
  <2>2. raced'[p] = raced[p]
    BY <1>1 DEF WriteCompiled, Disturb, TypeOK
  <2>3. ASSUME NEW x \in Procs \ {p}, raced'[x] # "compiling" PROVE ProcessPages(x)'
    BY <1>1, <2>3, DisturbedPages DEF WriteCompiled
  <2>4. QED
    BY <1>1, <2>1, <2>2, <2>3 DEF PageInv
<1>2. ASSUME LoadRecords(p) PROVE PageInv'
  <2>1. ProcessPages(p)'
    BY <1>2 DEF LoadRecords, TypeOK, ProcessPages, Compiling, Validating
  <2>2. QED
    BY <1>0, <1>2, <2>1 DEF LoadRecords, TypeOK
<1>3. ASSUME ListCompiled(p) PROVE PageInv'
  <2>1. raced[p] # "compiling" => ProcessPages(p)'
    BY <1>3 DEF ListCompiled, TypeOK, PageInv, ProcessPages, PresentIn, Compiling, Validating
  <2>2. QED
    BY <1>0, <1>3, <2>1 DEF ListCompiled, TypeOK
<1>4. ASSUME NEW q \in Pages, RemovePage(p, q) PROVE PageInv'
  <2>1. raced[p] # "compiling" => ProcessPages(p)'
    BY <1>4 DEF RemovePage, WriteCompiled, Finished, TypeOK, PageMap, PageInv,
                ProcessPages, Compiling, Validating
  <2>2. QED
    BY <1>1, <1>4, <2>1 DEF RemovePage
<1>5. ASSUME NEW q \in Pages, RemoveMissing(p, q) PROVE PageInv'
  BY <1>5, QuietPageInv DEF RemoveMissing, Resume, TypeOK, Compiling, Validating
<1>10. ASSUME NEW q \in Pages, SkipMissing(p, q) PROVE PageInv'
  <2>1. raced[p] # "compiling" => ProcessPages(p)'
    BY <1>10 DEF SkipMissing, Finished, TypeOK, PageInv, ProcessPages, Compiling, Validating
  <2>2. QED
    BY <1>0, <1>10, <2>1 DEF SkipMissing, Finished, TypeOK
<1>6. ASSUME StartPages(p) PROVE PageInv'
  <2>1. raced[p] # "compiling" => ProcessPages(p)'
    BY <1>6 DEF StartPages, TypeOK, PageInv, ProcessPages, PresentIn, Compiling, Validating
  <2>2. QED
    BY <1>0, <1>6, <2>1 DEF StartPages, TypeOK
<1>7. ASSUME NEW q \in Pages, WritePage(p, q) PROVE PageInv'
  <2>1. raced[p] # "compiling" => ProcessPages(p)'
    BY <1>7 DEF WritePage, WriteCompiled, Finished, TypeOK, PageMap, PageInv,
                ProcessPages, Compiling, Validating
  <2>2. QED
    BY <1>1, <1>7, <2>1 DEF WritePage
<1>8. ASSUME EndPages(p) PROVE PageInv'
  <2>1. raced[p] # "compiling" => ProcessPages(p)'
    <3> SUFFICES ASSUME raced[p] # "compiling" PROVE ProcessPages(p)'
      OBVIOUS
    <3>1. pc[p] = "write" /\ todo[p] = {} /\ pc'[p] = "scanNormalized"
      BY <1>8 DEF EndPages, TypeOK
    <3>2. ProcessPages(p)
      BY DEF PageInv
    <3>3. \A q \in Pages : compiled[q] = PagesOf(built[p])[q]
      BY <3>1, <3>2 DEF ProcessPages
    <3>4. compiled = PagesOf(built[p])
      BY <3>3 DEF TypeOK, PageMap, PagesOf
    <3>5. QED
      BY <1>8, <3>1, <3>2, <3>4 DEF EndPages, ProcessPages, Compiling, Validating
  <2>2. QED
    BY <1>0, <1>8, <2>1 DEF EndPages, TypeOK
<1>9. QED
  BY <1>2, <1>3, <1>4, <1>5, <1>6, <1>7, <1>8, <1>10 DEF Compile

LEMMA FinalizePageInv ==
  ASSUME TypeOK, PageInv, NEW p \in Procs, Finalize(p)
  PROVE  PageInv'
<1> USE DEF Goto, layers, jobs, reads
<1>0. ASSUME UNCHANGED <<normalized, compiled, manifest, built, todo, raced>>,
             \A x \in Procs \ {p} : pc'[x] = pc[x] /\ first'[x] = first[x],
             raced[p] # "compiling" => ProcessPages(p)'
      PROVE  PageInv'
  <2>1. ManifestPages'
    BY <1>0 DEF PageInv, ManifestPages
  <2>2. ASSUME NEW x \in Procs \ {p}, raced[x] # "compiling" PROVE ProcessPages(x)'
    BY <1>0, <2>2 DEF PageInv, ProcessPages
  <2>3. QED
    BY <1>0, <2>1, <2>2 DEF PageInv
<1>1. ASSUME ScanNormalized(p) PROVE PageInv'
  <2>1. raced[p] # "compiling" => ProcessPages(p)'
    BY <1>1 DEF ScanNormalized, TypeOK, Identities, NormalizedId, PageInv, ProcessPages,
                Compiling, Validating
  <2>2. QED
    BY <1>0, <1>1, <2>1 DEF ScanNormalized, TypeOK
<1>2. ASSUME ScanCompiled(p) PROVE PageInv'
  <2>1. raced[p] # "compiling" => ProcessPages(p)'
    BY <1>2 DEF ScanCompiled, TypeOK, Identities, CompiledId, PageInv, ProcessPages,
                Compiling, Validating
  <2>2. QED
    BY <1>0, <1>2, <2>1 DEF ScanCompiled, TypeOK
<1>3. ASSUME BuildSnapshot(p) \/ RescanNormalized(p) \/ RescanCompiled(p) PROVE PageInv'
  <2>1. raced[p] # "compiling" => ProcessPages(p)'
    BY <1>3 DEF BuildSnapshot, RescanNormalized, RescanCompiled, TypeOK, PageInv,
                ProcessPages, Compiling, Validating
  <2>2. QED
    BY <1>0, <1>3, <2>1 DEF BuildSnapshot, RescanNormalized, RescanCompiled, TypeOK
<1>4. ASSUME RejectTokenizer(p) \/ RefuseManifest(p) PROVE PageInv'
  BY <1>4, QuietPageInv DEF RejectTokenizer, RefuseManifest, TypeOK, Compiling, Validating
<1>5. ASSUME WriteManifest(p) PROVE PageInv'
  <2>1. ManifestPages'
    BY <1>5 DEF WriteManifest, PageInv, ProcessPages, ManifestPages, Validating
  <2>2. ASSUME NEW x \in Procs, raced[x] # "compiling" PROVE ProcessPages(x)'
    BY <1>5, <2>2 DEF WriteManifest, TypeOK, PageInv, ProcessPages, Compiling, Validating
  <2>3. QED
    BY <1>5, <2>1, <2>2 DEF WriteManifest, PageInv
<1>6. QED
  BY <1>1, <1>2, <1>3, <1>4, <1>5 DEF Finalize

LEMMA NextPageInv ==
  ASSUME TypeOK, PageInv, [Next]_vars
  PROVE  PageInv'
<1> USE DEF layers, jobs, reads
<1>1. CASE Upgrade
  BY <1>1, QuietPageInv DEF Upgrade
<1>2. ASSUME NEW p \in Procs, Start(p) PROVE PageInv'
  BY <1>2, QuietPageInv DEF Start, BeginIngest, BeginFileback, BeginPrune,
                            BeginRebuild, Begin, Goto, TypeOK, Compiling, Validating
<1>3. ASSUME NEW p \in Procs, Kill(p) PROVE PageInv'
  BY <1>3, QuietPageInv DEF Kill, Goto, TypeOK, Compiling, Validating
<1>4. CASE UNCHANGED vars
  BY <1>4, QuietPageInv DEF vars
<1>5. QED
  BY <1>1, <1>2, <1>3, <1>4, MutatePageInv, CompilePageInv, FinalizePageInv DEF Next, Step

LEMMA PagesCorrect == Spec => []PageInv
BY InitPageInv, NextPageInv, TypeCorrect, PTL DEF Spec

(* A current manifest of a run whose compilation no other process disturbed *)
(* stands over exactly the pages of the records on disk.                    *)
THEOREM BlessedPages == Spec => []BlessedPagesAreComplete
<1>1. PageInv => BlessedPagesAreComplete
  BY DEF PageInv, ManifestPages, BlessedPagesAreComplete, Current, CurrentIdentity,
         NormalizedId, CompiledId
<1>2. QED
  BY PagesCorrect, <1>1, PTL

-----------------------------------------------------------------------------
(* No write to a layer leaves a workspace current: the manifest holds an    *)
(* identity taken earlier, and the mtime has moved on.                      *)
THEOREM MutationsNoticed == Spec => NoSilentMutation
<1>1. ASSUME TypeOK, TickInv, [Next]_vars,
             <<normalized, compiled>>' # <<normalized, compiled>>
      PROVE  ~Current'
  <2>1. ASSUME NEW p \in Procs, NEW r \in Records, NEW value, WriteNormalized(p, r, value),
               UNCHANGED manifest
        PROVE  ~Current'
    <3>1. nTick' > nTick /\ nTick \in Nat
      BY <1>1, <2>1 DEF WriteNormalized, TypeOK
    <3>2. manifest # NoManifest => manifest.identity.normalized.mtime \in Nat
      BY <1>1 DEF TypeOK, Manifests, Identities, NormalizedIds
    <3>3. manifest # NoManifest => manifest.identity.normalized.mtime # nTick'
      BY <1>1, <3>1, <3>2 DEF TickInv, ManifestTicks
    <3>4. QED
      BY <2>1, <3>3 DEF Current, CurrentIdentity, NormalizedId
  <2>2. ASSUME NEW p \in Procs, NEW q \in Pages, NEW page, WriteCompiled(p, q, page),
               UNCHANGED manifest
        PROVE  ~Current'
    <3>1. cTick' > cTick /\ cTick \in Nat
      BY <1>1, <2>2 DEF WriteCompiled, TypeOK
    <3>2. manifest # NoManifest => manifest.identity.compiled.mtime \in Nat
      BY <1>1 DEF TypeOK, Manifests, Identities, CompiledIds
    <3>3. manifest # NoManifest => manifest.identity.compiled.mtime # cTick'
      BY <1>1, <3>1, <3>2 DEF TickInv, ManifestTicks
    <3>4. QED
      BY <2>2, <3>3 DEF Current, CurrentIdentity, CompiledId
  <2>3. ASSUME NEW p \in Procs, Mutate(p) PROVE ~Current'
    BY <1>1, <2>1, <2>3 DEF Mutate, StoreRecord, StoreUnchanged, DeleteRecord,
                            SkipDeleted, EndMutation, Resume, layers
  <2>4. ASSUME NEW p \in Procs, Compile(p) PROVE ~Current'
    BY <1>1, <2>2, <2>4 DEF Compile, LoadRecords, ListCompiled, RemovePage,
                            RemoveMissing, SkipMissing, Resume, Finished, WritePage,
                            StartPages, EndPages, layers
  <2>5. ASSUME NEW p \in Procs PROVE ~Finalize(p) /\ ~Start(p) /\ ~Kill(p)
    BY <1>1 DEF Finalize, ScanNormalized, ScanCompiled, BuildSnapshot, RejectTokenizer,
                RescanNormalized, RescanCompiled, WriteManifest, RefuseManifest, Start,
                BeginIngest, BeginFileback, BeginPrune, BeginRebuild, Begin, Kill, layers
  <2>6. ~Upgrade /\ ~UNCHANGED vars
    BY <1>1 DEF Upgrade, vars, layers
  <2>7. QED
    BY <1>1, <2>3, <2>4, <2>5, <2>6 DEF Next, Step
<1>2. QED
  BY <1>1, TypeCorrect, TicksCorrect, PTL DEF Spec, NoSilentMutation

-----------------------------------------------------------------------------
LEMMA InitFreshInv == Init => FreshInv
BY DEF Init, FreshInv, Live, Validating

(* Steps that leave the layers and identities alone, and move a process     *)
(* only to a step FreshInv says nothing of beyond its retrieval identity.   *)
LEMMA QuietFreshInv ==
  ASSUME TypeOK, FreshInv, UNCHANGED <<layers, installed, first, raced>>,
         \A p \in Procs :
           \/ pc'[p] = pc[p] /\ tok'[p] = tok[p]
           \/ /\ pc'[p] \notin {"scanCompiled"} \cup Validating
              /\ Live(p)' => tok'[p] = installed
  PROVE  FreshInv'
BY DEF FreshInv, Live, layers, NormalizedId, CompiledId, CurrentIdentity

(* A mutation marks every other process that holds an identity.             *)
LEMMA DisturbedFreshInv ==
  ASSUME TypeOK, FreshInv, NEW p \in Procs, Disturb(p),
         pc[p] \notin {"scanCompiled"} \cup Validating,
         UNCHANGED <<installed, pc, tok, first>>
  PROVE  FreshInv'
<1> SUFFICES ASSUME NEW x \in Procs
             PROVE  /\ Live(x)' => tok'[x] = installed'
                    /\ raced'[x] = "no" => pc'[x] \notin {"scanCompiled"} \cup Validating
  BY DEF FreshInv
<1>1. Live(x)' => tok'[x] = installed'
  BY DEF FreshInv, Live
<1>2. raced'[x] = "no" => pc'[x] \notin {"scanCompiled"} \cup Validating
  BY DEF Disturb, TypeOK, Compiling
<1>3. QED
  BY <1>1, <1>2

LEMMA FinalizeFreshInv ==
  ASSUME TypeOK, FreshInv, NEW p \in Procs, Finalize(p)
  PROVE  FreshInv'
<1> USE DEF Goto, layers, jobs, reads
<1>1. ASSUME ScanNormalized(p) PROVE FreshInv'
  BY <1>1 DEF ScanNormalized, TypeOK, Identities, FreshInv, Live, Ended, NormalizedId,
              CompiledId, CurrentIdentity, Validating
<1>2. ASSUME ScanCompiled(p) PROVE FreshInv'
  BY <1>2 DEF ScanCompiled, TypeOK, Identities, FreshInv, Live, Ended, NormalizedId,
              CompiledId, CurrentIdentity, Validating
<1>3. ASSUME BuildSnapshot(p) \/ RescanNormalized(p) \/ RescanCompiled(p) PROVE FreshInv'
  BY <1>3 DEF BuildSnapshot, RescanNormalized, RescanCompiled, TypeOK, FreshInv, Live,
              Ended, NormalizedId, CompiledId, CurrentIdentity, Validating
<1>4. ASSUME RejectTokenizer(p) \/ WriteManifest(p) \/ RefuseManifest(p) PROVE FreshInv'
  BY <1>4, QuietFreshInv DEF RejectTokenizer, WriteManifest, RefuseManifest, TypeOK,
                             Live, Ended, Validating
<1>5. QED
  BY <1>1, <1>2, <1>3, <1>4 DEF Finalize

LEMMA NextFreshInv ==
  ASSUME TypeOK, FreshInv, [Next]_vars
  PROVE  FreshInv'
<1> USE DEF Goto, Resume, layers, jobs, reads
<1>1. CASE Upgrade
  BY <1>1 DEF Upgrade, FreshInv, Live, Ended, TypeOK, Validating
<1>2. ASSUME NEW p \in Procs, Start(p) PROVE FreshInv'
  BY <1>2, QuietFreshInv DEF Start, BeginIngest, BeginFileback, BeginPrune, BeginRebuild,
                             Begin, TypeOK, Validating
<1>3. ASSUME NEW p \in Procs, Kill(p) PROVE FreshInv'
  BY <1>3, QuietFreshInv DEF Kill, TypeOK, Live, Ended, Validating
<1>4. ASSUME NEW p \in Procs, Mutate(p) PROVE FreshInv'
  <2>1. ASSUME NEW r \in Records, NEW c \in Contents, StoreRecord(p, r, c)
        PROVE  FreshInv'
    BY <2>1, DisturbedFreshInv DEF StoreRecord, WriteNormalized, Validating
  <2>2. ASSUME NEW r \in Records, DeleteRecord(p, r) PROVE FreshInv'
    BY <2>2, DisturbedFreshInv DEF DeleteRecord, WriteNormalized, Validating
  <2>3. ASSUME NEW r \in Records, StoreUnchanged(p, r) \/ SkipDeleted(p, r)
        PROVE  FreshInv'
    BY <2>3, QuietFreshInv DEF StoreUnchanged, SkipDeleted
  <2>4. ASSUME EndMutation(p) PROVE FreshInv'
    <3>1. Live(p)
      BY <2>4 DEF EndMutation, Mutating, Live, Ended
    <3>2. tok[p] = installed
      BY <3>1 DEF FreshInv
    <3>3. QED
      BY <2>4, <3>2, QuietFreshInv DEF EndMutation, TypeOK, Validating
  <2>5. QED
    BY <1>4, <2>1, <2>2, <2>3, <2>4 DEF Mutate
<1>5. ASSUME NEW p \in Procs, Compile(p) PROVE FreshInv'
  <2>1. ASSUME NEW q \in Pages, RemovePage(p, q) \/ WritePage(p, q) PROVE FreshInv'
    BY <2>1, DisturbedFreshInv DEF RemovePage, WritePage, WriteCompiled, Validating
  <2>2. ASSUME LoadRecords(p) \/ ListCompiled(p) \/ StartPages(p) \/ EndPages(p)
        PROVE  FreshInv'
    <3>1. Live(p)
      BY <2>2 DEF LoadRecords, ListCompiled, StartPages, EndPages, Live, Ended
    <3>2. tok[p] = installed
      BY <3>1 DEF FreshInv
    <3>3. QED
      BY <2>2, <3>2, QuietFreshInv DEF LoadRecords, ListCompiled, StartPages, EndPages,
                                       TypeOK, Validating
  <2>3. ASSUME NEW q \in Pages, RemoveMissing(p, q) \/ SkipMissing(p, q) PROVE FreshInv'
    BY <2>3, QuietFreshInv DEF RemoveMissing, SkipMissing, TypeOK, Live, Ended, Validating
  <2>4. QED
    BY <1>5, <2>1, <2>2, <2>3 DEF Compile
<1>6. CASE UNCHANGED vars
  BY <1>6, QuietFreshInv DEF vars
<1>7. QED
  BY <1>1, <1>2, <1>3, <1>4, <1>5, <1>6, FinalizeFreshInv DEF Next, Step

LEMMA FreshCorrect == Spec => []FreshInv
BY InitFreshInv, NextFreshInv, TypeCorrect, PTL DEF Spec

(* A materialization no other process disturbed, when it reports success,   *)
(* has just made the workspace current.                                     *)
THEOREM SuccessIsCurrent == Spec => SuccessMeansCurrent
<1>1. ASSUME TypeOK, FreshInv, [Next]_vars, NEW p \in Procs,
             pc[p] = "finalize", pc'[p] = "done", raced[p] = "no"
      PROVE  Current'
  <2>1. first[p] = CurrentIdentity /\ tok[p] = installed
    BY <1>1 DEF FreshInv, Live, Ended, Validating
  <2>2. WriteManifest(p)
    <3>1. ASSUME NEW x \in Procs, x # p, Start(x) \/ Step(x) \/ Kill(x) PROVE FALSE
      BY <1>1, <3>1 DEF TypeOK, Start, BeginIngest, BeginFileback, BeginPrune,
         BeginRebuild, Begin, Step, Mutate, StoreRecord, StoreUnchanged, DeleteRecord,
         SkipDeleted, EndMutation, Compile, LoadRecords, ListCompiled, RemovePage,
         RemoveMissing, SkipMissing, Resume, StartPages, WritePage, EndPages, Finalize,
         ScanNormalized,
         ScanCompiled, BuildSnapshot, RejectTokenizer, RescanNormalized, RescanCompiled,
         WriteManifest, RefuseManifest, Kill, Goto
    <3>2. ~Upgrade /\ ~UNCHANGED vars
      BY <1>1 DEF Upgrade, vars
    <3>3. ~Start(p) /\ ~Mutate(p) /\ ~Compile(p) /\ ~Kill(p)
      BY <1>1 DEF TypeOK, Start, BeginIngest, BeginFileback, BeginPrune, BeginRebuild,
         Begin, Mutate, StoreRecord, StoreUnchanged, DeleteRecord, SkipDeleted,
         EndMutation, Mutating, Compile, LoadRecords, ListCompiled, RemovePage,
         RemoveMissing, SkipMissing, Resume, StartPages, WritePage, EndPages, Kill, Goto
    <3>4. Finalize(p)
      BY <1>1, <3>1, <3>2, <3>3 DEF Next, Step
    <3>5. QED
      BY <1>1, <3>4 DEF TypeOK, Finalize, ScanNormalized, ScanCompiled, BuildSnapshot,
         RejectTokenizer, RescanNormalized, RescanCompiled, RefuseManifest, Goto
  <2>3. manifest' # NoManifest
    <3>1. /\ first[p] \in Identities
          /\ tok[p] \in Nat
          /\ snap[p] \in RecordMap
          /\ (raced[p] = "compiling") \in BOOLEAN
      BY <1>1 DEF TypeOK
    <3>2. manifest' \in Manifests
      BY <2>2, <3>1 DEF WriteManifest, Manifests
    <3>3. QED
      BY <3>2, ManifestAssumption
  <2>4. QED
    BY <2>1, <2>2, <2>3 DEF WriteManifest, Current, CurrentIdentity, NormalizedId,
                            CompiledId, layers
<1>2. ASSUME TypeOK, FreshInv, [Next]_vars
      PROVE  [\A p \in Procs : pc[p] = "finalize" /\ pc'[p] = "done" /\ raced[p] = "no"
                => Current']_vars
  BY <1>1, <1>2
<1>3. QED
  BY <1>2, TypeCorrect, FreshCorrect, PTL DEF Spec, SuccessMeansCurrent

=============================================================================
