--------------------------- MODULE BenchmarkProofs ---------------------------
(***************************************************************************)
(* What makes benchmarks evidence.                                         *)
(*                                                                         *)
(* BenchmarkAssets: type correctness; a cell's index is always that of the *)
(* documents it read; and a fetch yields the files of its pin, but for     *)
(* those of fetches that died or met another.                              *)
(*                                                                         *)
(* PromotionGate is fair to its candidates, whatever its contract and      *)
(* however many reports and cells there are: improving never fails, not    *)
(* being measured never helps, and measuring again changes nothing.  The   *)
(* verdict is a function of the evidence, so that each property comes down *)
(* to what two reports make of a lookup of a cell (FindCell) and of the    *)
(* cells of the baseline.                                                  *)
(***************************************************************************)
EXTENDS BenchmarkAssets, PromotionGate, FiniteSetTheorems, SequenceTheorems, WellFoundedInduction, TLAPS

-----------------------------------------------------------------------------
(* Benchmark assets.                                                       *)

LEMMA TypeInit == Init => TypeOK
BY BenchmarkAssumption DEF Init, TypeOK, Documents

(* What the step a process is at says about its job.                       *)
LEMMA StepJobs ==
  ASSUME TypeOK, NEW p \in Procs, ~Idle(p)
  PROVE  /\ Fetching(p) => job[p] \in FetchJobs
         /\ ~Fetching(p) => job[p] \in CellJobs
         /\ job[p].step \in {"decide", "sidecar", "skipped", "fetched"} => Fetching(p)
         /\ job[p].step \in {"open queries", "open judgments", "open corpus"} =>
              job[p] \in CellStep({"open queries", "open judgments", "open corpus"},
                                  {Absent}, {Absent}, {Absent})
         /\ job[p].step = "sample" => job[p] \in CellStep({"sample"}, Pins, {Absent}, {Absent})
         /\ job[p].step \in {"lookup", "load", "build"} =>
              job[p] \in CellStep({"lookup", "load", "build"}, Pins, Pins, {Absent})
         /\ job[p].step \in {"store", "publish", "score"} =>
              job[p] \in CellStep({"store", "publish", "score"}, Pins, Pins, Documents)
<1>1. job[p] \in FetchJobs \cup CellJobs
  BY DEF TypeOK, Idle
<1>2. job[p] \in FetchJobs => job[p].kind = "fetch"
  BY DEF FetchJobs
<1>3. job[p] \in CellJobs => job[p].kind = "cell"
  BY DEF CellJobs, CellStep
<1>4. CASE job[p] \in FetchJobs
  BY <1>2, <1>4 DEF FetchJobs, Fetching
<1>5. CASE job[p] \in CellJobs
  BY <1>3, <1>5 DEF CellJobs, CellStep, Fetching
<1>6. QED  BY <1>1, <1>4, <1>5

LEMMA TypeNext == TypeOK /\ [Next]_vars => TypeOK'
<1> SUFFICES ASSUME TypeOK, [Next]_vars  PROVE TypeOK'
  OBVIOUS
<1> USE DEF dataset, index
<1> DEFINE Jobs == FetchJobs \cup CellJobs \cup {Absent}
<1> DEFINE Who == SUBSET {"user", "fetch"}
<1>0. job \in [Procs -> Jobs] /\ disturbed \in [Procs -> Who]
  BY DEF TypeOK
<1>9. acts' \in 0..MaxActs
  <2>1. CASE Act
    BY <2>1, BenchmarkAssumption DEF Act, TypeOK
  <2>2. CASE acts' = acts
    BY <2>2 DEF TypeOK
  <2>3. QED
    BY <2>1, <2>2 DEF Next, vars, User, Repin, RemoveAsset, RemoveSidecar, RemoveArtifact, Fetch, Cell, Fail,
       BeginFetch, Materialize, Skip, WriteCorpus, WriteQueries, WriteJudgments, Write, WriteSidecar, EndFetch,
       BeginCell, OpenQueries, OpenJudgments, OpenScoring, OpenCorpus, SampleCorpus, Lookup, LoadArtifact,
       LoadFails, BuildIndex, WriteArtifact, WriteCacheManifest, WriteFails, Score
<1>1. CASE User
  <2>1. disturbed' \in [Procs -> Who] /\ job' = job
    BY <1>0, <1>1 DEF User, Repin, RemoveAsset, RemoveSidecar, RemoveArtifact
  <2>2. QED
    BY <1>1, <1>9, <2>1 DEF User, Repin, RemoveAsset, RemoveSidecar, RemoveArtifact, TypeOK
<1>2. ASSUME NEW p \in Procs, NEW j \in Jobs, job' = [job EXCEPT ![p] = j]
      PROVE  job' \in [Procs -> Jobs]
  BY <1>0, <1>2
<1>3. ASSUME NEW p \in Procs, End(p), UNCHANGED <<dataset, index>>
      PROVE  TypeOK'
  BY <1>0, <1>2, <1>3, <1>9 DEF End, TypeOK
<1>4. ASSUME NEW p \in Procs, Fetch(p)
      PROVE  TypeOK'
  <2>1. ASSUME NEW force \in BOOLEAN, BeginFetch(p, force)  PROVE TypeOK'
    <3>1. job' \in [Procs -> Jobs]
      BY <1>2, <2>1 DEF BeginFetch, FetchJobs, TypeOK
    <3>2. disturbed' \in [Procs -> Who]
      BY <1>0, <2>1 DEF BeginFetch
    <3>3. QED  BY <1>9, <2>1, <3>1, <3>2 DEF BeginFetch, TypeOK
  <2>2. ASSUME Fetching(p), NEW step \in {"decide", "corpus", "queries", "judgments", "sidecar", "skipped", "fetched"},
               Goto(p, step)
        PROVE  job' \in [Procs -> Jobs]
    <3>1. job[p] \in FetchJobs /\ [job[p] EXCEPT !.step = step] \in FetchJobs
      BY <2>2, StepJobs DEF Fetching, FetchJobs
    <3>2. QED  BY <1>2, <2>2, <3>1 DEF Goto
  <2>3. CASE Materialize(p) \/ Skip(p)
    BY <1>9, <2>2, <2>3, StepJobs DEF Materialize, Skip, At, TypeOK
  <2>4. CASE WriteCorpus(p) \/ WriteQueries(p) \/ WriteJudgments(p)
    <3>1. job[p].pin \in Pins
      BY <2>4, StepJobs DEF WriteCorpus, WriteQueries, WriteJudgments, Write, Fetching, FetchJobs
    <3>2. QED
      BY <1>9, <2>2, <2>4, <3>1 DEF WriteCorpus, WriteQueries, WriteJudgments, Write, Assets, TypeOK
  <2>5. CASE WriteSidecar(p)
    <3>1. Fetching(p) /\ job[p].pin \in Pins
      BY <2>5, StepJobs DEF WriteSidecar, At, FetchJobs
    <3>2. QED  BY <1>9, <2>2, <2>5, <3>1 DEF WriteSidecar, TypeOK
  <2>6. CASE EndFetch(p)
    BY <1>3, <2>6 DEF EndFetch
  <2>7. QED  BY <1>4, <2>1, <2>3, <2>4, <2>5, <2>6 DEF Fetch
<1>5. ASSUME NEW p \in Procs, Cell(p)
      PROVE  TypeOK'
  <2>1. ASSUME NEW cached \in BOOLEAN, BeginCell(p, cached)  PROVE TypeOK'
    <3>1. job' \in [Procs -> Jobs]
      BY <1>2, <2>1 DEF BeginCell, CellJobs, CellStep
    <3>2. QED  BY <1>9, <2>1, <3>1 DEF BeginCell, TypeOK
  <2>2. ASSUME NEW j \in CellJobs, job' = [job EXCEPT ![p] = j], UNCHANGED <<dataset, index, disturbed>>
        PROVE  TypeOK'
    BY <1>2, <1>9, <2>2 DEF TypeOK
  <2>3. CASE OpenQueries(p) \/ OpenJudgments(p)
    BY <2>2, <2>3, StepJobs DEF OpenQueries, OpenJudgments, OpenScoring, Goto, At, CellJobs, CellStep
  <2>4. CASE OpenCorpus(p)
    <3>1. files["corpus"] \in Pins
      BY <2>4 DEF OpenCorpus, TypeOK, Assets
    <3>2. [job[p] EXCEPT !.corpus = files["corpus"], !.step = "sample"] \in CellJobs
      BY <2>4, <3>1, StepJobs DEF OpenCorpus, At, CellJobs, CellStep
    <3>3. QED  BY <2>2, <2>4, <3>2 DEF OpenCorpus
  <2>5. CASE SampleCorpus(p)
    <3>1. files["judgments"] \in Pins
      BY <2>5 DEF SampleCorpus, TypeOK, Assets
    <3>2. ASSUME NEW step \in {"lookup", "build"}
          PROVE  [job[p] EXCEPT !.judged = files["judgments"], !.step = step] \in CellJobs
      BY <2>5, <3>1, StepJobs DEF SampleCorpus, At, CellJobs, CellStep
    <3>3. QED  BY <2>2, <2>5, <3>2 DEF SampleCorpus
  <2>6. CASE Lookup(p) \/ LoadFails(p)
    <3>1. ASSUME NEW step \in {"load", "build"}
          PROVE  [job[p] EXCEPT !.step = step] \in CellJobs
      BY <2>6, StepJobs DEF Lookup, LoadFails, At, CellJobs, CellStep
    <3>2. QED  BY <2>2, <2>6, <3>1 DEF Lookup, LoadFails, Goto
  <2>7. CASE LoadArtifact(p)
    <3>1. Identity(p) \in Documents
      BY <2>7, StepJobs DEF LoadArtifact, At, Identity, DocumentsOf, CellStep, Documents
    <3>2. artifacts[Identity(p)] \in Documents
      BY <2>7, <3>1 DEF LoadArtifact, TypeOK
    <3>3. [job[p] EXCEPT !.index = artifacts[Identity(p)], !.step = "score"] \in CellJobs
      BY <2>7, <3>2, StepJobs DEF LoadArtifact, At, CellJobs, CellStep
    <3>4. QED  BY <2>2, <2>7, <3>3 DEF LoadArtifact
  <2>8. CASE BuildIndex(p)
    <3>1. DocumentsOf(p) \in Documents
      BY <2>8, StepJobs DEF BuildIndex, At, DocumentsOf, CellStep, Documents
    <3>2. ASSUME NEW step \in {"store", "score"}
          PROVE  [job[p] EXCEPT !.index = DocumentsOf(p), !.step = step] \in CellJobs
      BY <2>8, <3>1, StepJobs DEF BuildIndex, At, CellJobs, CellStep
    <3>3. QED  BY <2>2, <2>8, <3>2 DEF BuildIndex
  <2>9. CASE WriteArtifact(p) \/ WriteCacheManifest(p) \/ WriteFails(p)
    <3>1. /\ job[p] \in CellStep({"store", "publish", "score"}, Pins, Pins, Documents)
          /\ job[p].index \in Documents /\ Identity(p) \in Documents
      BY <2>9, StepJobs DEF WriteArtifact, WriteCacheManifest, WriteFails, At, CellStep,
                            Identity, DocumentsOf, Documents
    <3>2. ASSUME NEW step \in {"publish", "score"}
          PROVE  [job[p] EXCEPT !.step = step] \in Jobs
      BY <3>1 DEF CellJobs, CellStep
    <3>3. job' \in [Procs -> Jobs]
      BY <1>2, <2>9, <3>2 DEF WriteArtifact, WriteCacheManifest, WriteFails, Goto
    <3>4. QED
      BY <1>9, <2>9, <3>1, <3>3 DEF WriteArtifact, WriteCacheManifest, WriteFails, TypeOK
  <2>10. CASE Score(p)
    BY <1>3, <2>10 DEF Score
  <2>11. QED
    BY <1>5, <2>1, <2>3, <2>4, <2>5, <2>6, <2>7, <2>8, <2>9, <2>10 DEF Cell
<1>6. ASSUME NEW p \in Procs, Fail(p)
      PROVE  TypeOK'
  BY <1>3, <1>6 DEF Fail
<1>7. CASE UNCHANGED vars
  BY <1>7 DEF vars, TypeOK
<1>8. QED  BY <1>1, <1>4, <1>5, <1>6, <1>7 DEF Next

(* Every variable keeps its type, for any pins and any processes.          *)
THEOREM TypeCorrect == Spec => []TypeOK
BY TypeInit, TypeNext, PTL DEF Spec

-----------------------------------------------------------------------------
(* The index a cell searches.                                               *)

Built == {"store", "publish", "score"}

\* An artifact is the index of the documents that name it; so is what a cell
\* has built or loaded.
ArtifactsFit == \A i \in Documents : artifacts[i] \in {Absent, i}
BuiltFits == \A p \in Procs :
  ~Idle(p) /\ job[p].step \in Built => job[p].index = DocumentsOf(p)

IndexInv == TypeOK /\ ArtifactsFit /\ BuiltFits

LEMMA BuiltStep ==
  ASSUME IndexInv, NEW p \in Procs, NEW j, job' = [job EXCEPT ![p] = j],
         \/ j = Absent
         \/ j.step \notin Built
         \/ j.index = [corpus |-> j.corpus, judged |-> j.judged]
  PROVE  BuiltFits'
<1> SUFFICES ASSUME NEW q \in Procs, (~Idle(q) /\ job[q].step \in Built)'
             PROVE  (job[q].index = DocumentsOf(q))'
  BY DEF BuiltFits
<1>0. job'[p] = j /\ (q # p => job'[q] = job[q])
  BY DEF IndexInv, TypeOK
<1>1. CASE q = p
  BY <1>0, <1>1 DEF Idle, DocumentsOf
<1>2. CASE q # p
  BY <1>0, <1>2 DEF Idle, DocumentsOf, IndexInv, BuiltFits
<1>3. QED  BY <1>1, <1>2

LEMMA IndexNext == IndexInv /\ [Next]_vars => IndexInv'
<1> SUFFICES ASSUME IndexInv, [Next]_vars  PROVE ArtifactsFit' /\ BuiltFits'
  BY TypeNext DEF IndexInv
<1> USE DEF dataset, index
<1>0. TypeOK /\ ArtifactsFit /\ BuiltFits
  BY DEF IndexInv
<1>1. CASE User
  <2>1. job' = job
    BY <1>1 DEF User, Repin, RemoveAsset, RemoveSidecar, RemoveArtifact
  <2>2. ArtifactsFit'
    BY <1>0, <1>1 DEF User, Repin, RemoveAsset, RemoveSidecar, RemoveArtifact, ArtifactsFit, TypeOK
  <2>3. QED  BY <1>0, <2>1, <2>2 DEF BuiltFits, Idle, DocumentsOf
<1>2. ASSUME NEW p \in Procs, End(p)  PROVE BuiltFits'
  BY <1>2, BuiltStep DEF End
<1>3. ASSUME NEW p \in Procs, NEW step, step \notin Built, ~Idle(p), Goto(p, step)
      PROVE  BuiltFits'
  <2>1. job[p] \in FetchJobs \cup CellJobs
    BY <1>0, <1>3 DEF Idle, TypeOK
  <2>2. [job[p] EXCEPT !.step = step].step = step
    BY <2>1 DEF FetchJobs, CellJobs, CellStep
  <2> DEFINE j == [job[p] EXCEPT !.step = step]
  <2>3. job' = [job EXCEPT ![p] = j]
    BY <1>3 DEF Goto
  <2> HIDE DEF j
  <2>4. j.step \notin Built
    BY <1>3, <2>2 DEF j
  <2>5. QED  BY <2>3, <2>4, BuiltStep
<1>4. ASSUME NEW p \in Procs, Fetch(p)  PROVE ArtifactsFit' /\ BuiltFits'
  <2>1. artifacts' = artifacts
    BY <1>4 DEF Fetch, BeginFetch, Materialize, Skip, WriteCorpus, WriteQueries, WriteJudgments,
                Write, WriteSidecar, EndFetch
  <2>2. ArtifactsFit'
    BY <1>0, <2>1 DEF ArtifactsFit
  <2>3. ASSUME NEW force \in BOOLEAN, BeginFetch(p, force)  PROVE BuiltFits'
    BY <2>3, BuiltStep DEF BeginFetch, Built
  <2>4. CASE Materialize(p) \/ Skip(p) \/ WriteSidecar(p)
    BY <2>2, <2>4, <1>3 DEF Materialize, Skip, WriteSidecar, At, Built
  <2>5. CASE WriteCorpus(p) \/ WriteQueries(p) \/ WriteJudgments(p)
    BY <2>2, <2>5, <1>3 DEF WriteCorpus, WriteQueries, WriteJudgments, Write, At, Built
  <2>6. CASE EndFetch(p)
    BY <2>2, <2>6, <1>2 DEF EndFetch
  <2>7. QED  BY <1>4, <2>2, <2>3, <2>4, <2>5, <2>6 DEF Fetch
<1>5. ASSUME NEW p \in Procs, Cell(p)  PROVE ArtifactsFit' /\ BuiltFits'
  <2>0. ArtifactsFit' \/ WriteArtifact(p)
    BY <1>0, <1>5 DEF Cell, BeginCell, OpenQueries, OpenJudgments, OpenScoring, OpenCorpus,
         SampleCorpus, Lookup, LoadArtifact, LoadFails, BuildIndex, WriteCacheManifest,
         WriteFails, Score, ArtifactsFit
  <2>1. ASSUME NEW cached \in BOOLEAN, BeginCell(p, cached)  PROVE BuiltFits'
    BY <2>1, BuiltStep DEF BeginCell, Built
  <2>2. CASE OpenQueries(p) \/ OpenJudgments(p) \/ Lookup(p) \/ LoadFails(p)
    BY <2>2, <2>0, <1>3 DEF OpenQueries, OpenJudgments, OpenScoring, Lookup, LoadFails, WriteArtifact, At, Built
  <2>3. CASE OpenCorpus(p)
    <3>1. job[p] \in CellJobs
      BY <1>0, <2>3, StepJobs DEF OpenCorpus, At, CellJobs
    <3> DEFINE j == [job[p] EXCEPT !.corpus = files["corpus"], !.step = "sample"]
    <3>2. j.step = "sample" /\ job' = [job EXCEPT ![p] = j]
      BY <2>3, <3>1 DEF OpenCorpus, CellJobs, CellStep
    <3> HIDE DEF j
    <3>3. QED  BY <3>2, BuiltStep, <2>0, <2>3 DEF Built, OpenCorpus, ArtifactsFit, WriteArtifact, At
  <2>4. CASE SampleCorpus(p)
    <3>1. job[p] \in CellJobs
      BY <1>0, <2>4, StepJobs DEF SampleCorpus, At, CellJobs
    <3> DEFINE j == [job[p] EXCEPT !.judged = files["judgments"],
                                   !.step = IF job[p].cached THEN "lookup" ELSE "build"]
    <3>2. j.step \in {"lookup", "build"} /\ job' = [job EXCEPT ![p] = j]
      BY <2>4, <3>1 DEF SampleCorpus, CellJobs, CellStep
    <3> HIDE DEF j
    <3>3. QED  BY <3>2, BuiltStep, <2>0, <2>4 DEF Built, SampleCorpus, WriteArtifact, At
  <2>5. CASE LoadArtifact(p)
    <3>1. job[p] \in CellStep({"lookup", "load", "build"}, Pins, Pins, {Absent})
      BY <1>0, <2>5, StepJobs DEF LoadArtifact, At
    <3>2. artifacts[DocumentsOf(p)] = DocumentsOf(p)
      BY <1>0, <2>5, <3>1 DEF LoadArtifact, Identity, DocumentsOf, Documents, CellStep, ArtifactsFit
    <3> DEFINE j == [job[p] EXCEPT !.index = artifacts[Identity(p)], !.step = "score"]
    <3>3. /\ job' = [job EXCEPT ![p] = j]
          /\ j.index = [corpus |-> j.corpus, judged |-> j.judged]
      BY <2>5, <3>1, <3>2 DEF LoadArtifact, Identity, DocumentsOf, CellStep
    <3> HIDE DEF j
    <3>4. QED  BY <3>3, BuiltStep, <2>0, <2>5 DEF LoadArtifact, WriteArtifact, At
  <2>6. CASE BuildIndex(p)
    <3>1. job[p] \in CellStep({"lookup", "load", "build"}, Pins, Pins, {Absent})
      BY <1>0, <2>6, StepJobs DEF BuildIndex, At
    <3> DEFINE j == [job[p] EXCEPT !.index = DocumentsOf(p),
                                   !.step = IF job[p].cached THEN "store" ELSE "score"]
    <3>2. /\ job' = [job EXCEPT ![p] = j]
          /\ j.index = [corpus |-> j.corpus, judged |-> j.judged]
      BY <2>6, <3>1 DEF BuildIndex, DocumentsOf, CellStep
    <3> HIDE DEF j
    <3>3. QED  BY <3>2, BuiltStep, <2>0, <2>6 DEF BuildIndex, WriteArtifact, At
  <2>7. CASE WriteArtifact(p) \/ WriteCacheManifest(p) \/ WriteFails(p)
    <3>1. /\ job[p] \in CellStep(Built, Pins, Pins, Documents)
          /\ job[p].index = DocumentsOf(p)
      BY <1>0, <2>7, StepJobs DEF WriteArtifact, WriteCacheManifest, WriteFails, At, Built, BuiltFits
    <3>2. ASSUME NEW step \in Built, Goto(p, step)  PROVE BuiltFits'
      <4> DEFINE j == [job[p] EXCEPT !.step = step]
      <4>1. /\ job' = [job EXCEPT ![p] = j]
            /\ j.index = [corpus |-> j.corpus, judged |-> j.judged]
        BY <3>1, <3>2 DEF Goto, CellStep, DocumentsOf
      <4> HIDE DEF j
      <4>2. QED  BY <4>1, BuiltStep
    <3>3. BuiltFits'
      BY <2>7, <3>2 DEF WriteArtifact, WriteCacheManifest, WriteFails, Built
    <3>4. CASE WriteArtifact(p)
      BY <1>0, <3>1, <3>3, <3>4 DEF WriteArtifact, Identity, ArtifactsFit, TypeOK
    <3>5. QED  BY <2>0, <3>3, <3>4
  <2>8. CASE Score(p)
    BY <1>2, <2>0, <2>8 DEF Score, WriteArtifact, At
  <2>9. QED
    <3>1. CASE ~WriteArtifact(p)
      BY <3>1, <1>5, <2>0, <2>1, <2>2, <2>3, <2>4, <2>5, <2>6, <2>7, <2>8 DEF Cell
    <3>2. QED  BY <3>1, <2>7
<1>6. ASSUME NEW p \in Procs, Fail(p)  PROVE ArtifactsFit' /\ BuiltFits'
  BY <1>0, <1>2, <1>6 DEF Fail, ArtifactsFit
<1>7. CASE UNCHANGED vars
  BY <1>0, <1>7 DEF vars, ArtifactsFit, BuiltFits, Idle, DocumentsOf
<1>8. QED  BY <1>1, <1>4, <1>5, <1>6, <1>7 DEF Next

(* A cell searches an index of the documents it has read, whatever fetches, *)
(* cells, removals and kills overlap with it.                               *)
THEOREM IndexTheorem == Spec => []IndexFitsDocuments
<1>1. Init => IndexInv
  BY TypeInit DEF Init, IndexInv, ArtifactsFit, BuiltFits, Idle
<1>2. IndexInv => IndexFitsDocuments
  BY DEF IndexInv, BuiltFits, IndexFitsDocuments, At, Built
<1>3. QED  BY <1>1, <1>2, IndexNext, PTL DEF Spec

-----------------------------------------------------------------------------
(* What a fetch yields.                                                     *)

\* The assets a fetch has written when it is at a step.
Written(step) == CASE step = "queries" -> {"corpus"}
                   [] step = "judgments" -> {"corpus", "queries"}
                   [] step \in {"sidecar", "fetched"} -> Assets
                   [] OTHER -> {}

\* Fetches at the same time have met, and both know.
Meets == \A p, q \in Procs :
  Fetching(p) /\ Fetching(q) /\ p # q => "fetch" \in disturbed[p] /\ "fetch" \in disturbed[q]

\* Next to a sidecar are files of its pin, and those it has not accounted for.
SidecarHonest == sidecar # Absent => \A a \in Assets : files[a] \in {Absent, sidecar} \cup written

\* What is wrong with a file of a fetch, and who may be the cause of it.
Excused(p, a, foreign) ==
  \/ files[a] = job[p].pin
  \/ files[a] = Absent /\ "user" \in disturbed[p]
  \/ files[a] \in written /\ (foreign \/ "fetch" \in disturbed[p])

Yields(p) ==
  /\ \A a \in Written(job[p].step) : Excused(p, a, FALSE)
  /\ job[p].step = "skipped" => \A a \in Assets : Excused(p, a, TRUE)

FetchInv == TypeOK /\ Meets /\ SidecarHonest /\ \A p \in Procs : Fetching(p) => Yields(p)

LEMMA WrittenAssets == \A step : Written(step) \subseteq Assets
BY DEF Written, Assets

\* Ends, cells, other pins and the removal of artifacts or the sidecar.
LEMMA FetchesKept ==
  ASSUME FetchInv, TypeOK', files' = files, written' = written, sidecar' \in {sidecar, Absent},
         \A q \in Procs : Fetching(q)' =>
           Fetching(q) /\ job'[q] = job[q] /\ disturbed'[q] = disturbed[q]
  PROVE  FetchInv'
<1> USE DEF FetchInv
<1>1. Meets'
  BY DEF Meets
<1>2. SidecarHonest'
  BY DEF SidecarHonest
<1>3. ASSUME NEW p \in Procs, Fetching(p)'  PROVE Yields(p)'
  BY <1>3 DEF Yields, Excused
<1>4. QED  BY <1>1, <1>2, <1>3

\* A step of a fetch.
LEMMA FetchGoes ==
  ASSUME FetchInv, NEW p \in Procs, Fetching(p), NEW step, Goto(p, step), disturbed' = disturbed
  PROVE  /\ job'[p].pin = job[p].pin /\ job'[p].step = step /\ job[p].pin \in Pins
         /\ \A q \in Procs : q # p => job'[q] = job[q]
         /\ \A q \in Procs : Fetching(q)' => Fetching(q)
         /\ Meets'
<1>1. job[p] \in FetchJobs
  BY StepJobs DEF FetchInv, Fetching
<1>2. job \in [Procs -> FetchJobs \cup CellJobs \cup {Absent}]
  BY DEF FetchInv, TypeOK
<1>3. /\ job'[p] = [job[p] EXCEPT !.step = step]
      /\ \A q \in Procs : q # p => job'[q] = job[q]
  BY <1>2 DEF Goto
<1>4. job'[p].pin = job[p].pin /\ job'[p].step = step /\ job[p].pin \in Pins
  BY <1>1, <1>3 DEF FetchJobs
<1>5. \A q \in Procs : Fetching(q)' => Fetching(q)
  BY <1>3 DEF Fetching, Idle
<1>6. Meets'
  BY <1>5 DEF Meets, FetchInv
<1>7. QED  BY <1>3, <1>4, <1>5, <1>6

LEMMA FetchNext == FetchInv /\ [Next]_vars => FetchInv'
<1> SUFFICES ASSUME FetchInv, [Next]_vars  PROVE FetchInv'
  OBVIOUS
<1> USE DEF dataset, index
<1>0. /\ TypeOK /\ Meets /\ SidecarHonest /\ \A p \in Procs : Fetching(p) => Yields(p)
      /\ TypeOK'
  BY TypeNext DEF FetchInv
<1>1. CASE User
  <2>1. CASE ~\E a \in Assets : RemoveAsset(a)
    <3>1. /\ job' = job /\ disturbed' = disturbed /\ files' = files /\ written' = written
          /\ sidecar' \in {sidecar, Absent}
      BY <1>1, <2>1 DEF User, Repin, RemoveSidecar, RemoveArtifact
    <3>2. \A q \in Procs : Fetching(q)' => Fetching(q)
      BY <3>1 DEF Fetching, Idle
    <3>3. QED  BY <1>0, <3>1, <3>2, FetchesKept
  <2>2. ASSUME NEW b \in Assets, RemoveAsset(b)  PROVE FetchInv'
    <3>1. /\ job' = job /\ sidecar' = sidecar /\ written' = written
          /\ \A a \in Assets : files'[a] = files[a] \/ files'[a] = Absent
          /\ \A q \in Procs : Fetching(q)' =>
               Fetching(q) /\ disturbed'[q] = disturbed[q] \cup {"user"}
      BY <1>0, <2>2 DEF RemoveAsset, Fetching, Idle, TypeOK
    <3>2. Meets'
      BY <1>0, <3>1 DEF Meets
    <3>3. SidecarHonest'
      BY <1>0, <3>1 DEF SidecarHonest
    <3>4. ASSUME NEW p \in Procs, Fetching(p)'  PROVE Yields(p)'
      BY <1>0, <3>1, <3>4, WrittenAssets DEF Yields, Excused
    <3>5. QED  BY <1>0, <3>2, <3>3, <3>4 DEF FetchInv
  <2>3. QED  BY <2>1, <2>2
<1>2. ASSUME NEW p \in Procs, End(p), UNCHANGED dataset  PROVE FetchInv'
  <2>1. ASSUME NEW q \in Procs, Fetching(q)'
        PROVE  Fetching(q) /\ job'[q] = job[q] /\ disturbed'[q] = disturbed[q]
    BY <1>0, <1>2, <2>1 DEF End, Fetching, Idle, TypeOK
  <2>2. QED  BY <1>0, <1>2, <2>1, FetchesKept
<1>3. ASSUME NEW p \in Procs, Fetch(p)  PROVE FetchInv'
  <2>1. ASSUME NEW force \in BOOLEAN, BeginFetch(p, force)  PROVE FetchInv'
    <3>1. /\ ~Fetching(p) /\ job'[p].step \in {"decide", "corpus"}
          /\ \A q \in Procs : q # p => job'[q] = job[q]
      BY <1>0, <2>1 DEF BeginFetch, Fetching, TypeOK
    <3>2. \A q \in Procs : q # p /\ Fetching(q)' => Fetching(q)
      BY <3>1 DEF Fetching, Idle
    <3>3. /\ (\E q \in Procs : Fetching(q)) => "fetch" \in disturbed'[p]
          /\ \A q \in Procs : q # p /\ Fetching(q) => disturbed'[q] = disturbed[q] \cup {"fetch"}
      BY <2>1 DEF BeginFetch
    <3>4. Written(job'[p].step) = {}
      BY <3>1 DEF Written
    <3>5. UNCHANGED dataset
      BY <2>1 DEF BeginFetch
    <3>6. Meets'
      BY <1>0, <3>2, <3>3 DEF Meets
    <3>7. SidecarHonest'
      BY <1>0, <3>5 DEF SidecarHonest
    <3>8. ASSUME NEW q \in Procs, Fetching(q)'  PROVE Yields(q)'
      <4>1. CASE q = p
        BY <3>1, <3>4, <4>1 DEF Yields
      <4>2. CASE q # p
        BY <1>0, <3>1, <3>2, <3>3, <3>5, <3>8, <4>2 DEF Yields, Excused
      <4>3. QED  BY <4>1, <4>2
    <3>9. QED  BY <1>0, <3>6, <3>7, <3>8 DEF FetchInv
  <2>2. CASE EndFetch(p)
    BY <1>2, <2>2 DEF EndFetch
  <2>3. CASE ~EndFetch(p) /\ ~\E force \in BOOLEAN : BeginFetch(p, force)
    <3>1. /\ Fetching(p) /\ disturbed' = disturbed
          /\ \E step : Goto(p, step)
      BY <1>0, <1>3, <2>3, StepJobs DEF Fetch, Materialize, Skip, WriteCorpus, WriteQueries,
           WriteJudgments, Write, WriteSidecar, At
    <3>2. /\ job'[p].pin = job[p].pin /\ job[p].pin \in Pins
          /\ \A q \in Procs : q # p => job'[q] = job[q]
          /\ \A q \in Procs : Fetching(q)' => Fetching(q)
          /\ Meets'
      BY <1>0, <3>1, FetchGoes DEF FetchInv
    <3>3. Yields(p)
      BY <1>0, <3>1
    <3>4. CASE Materialize(p)
      <4>1. UNCHANGED dataset /\ job'[p].step = "corpus"
        BY <1>0, <3>1, <3>4, FetchGoes DEF Materialize, FetchInv
      <4>2. Written("corpus") = {}
        BY DEF Written
      <4>3. SidecarHonest'
        BY <1>0, <4>1 DEF SidecarHonest
      <4>4. ASSUME NEW q \in Procs, Fetching(q)'  PROVE Yields(q)'
        <5>1. CASE q = p
          BY <4>1, <4>2, <5>1 DEF Yields
        <5>2. CASE q # p
          BY <1>0, <3>1, <3>2, <4>1, <4>4, <5>2 DEF Yields, Excused
        <5>3. QED  BY <5>1, <5>2
      <4>5. QED  BY <1>0, <3>2, <4>3, <4>4 DEF FetchInv
    <3>5. CASE Skip(p)
      <4>1. UNCHANGED dataset /\ job'[p].step = "skipped" /\ CacheHit(p)
        BY <1>0, <3>1, <3>5, FetchGoes DEF Skip, FetchInv
      <4>2. Written("skipped") = {}
        BY DEF Written
      <4>3. SidecarHonest'
        BY <1>0, <4>1 DEF SidecarHonest
      <4>4. ASSUME NEW q \in Procs, Fetching(q)'  PROVE Yields(q)'
        <5>1. CASE q = p
          <6>1. \A a \in Assets : files[a] = job[p].pin \/ files[a] \in written
            BY <1>0, <3>2, <4>1, BenchmarkAssumption DEF CacheHit, SidecarHonest
          <6>2. QED  BY <3>2, <4>1, <4>2, <5>1, <6>1 DEF Yields, Excused
        <5>2. CASE q # p
          BY <1>0, <3>1, <3>2, <4>1, <4>4, <5>2 DEF Yields, Excused
        <5>3. QED  BY <5>1, <5>2
      <4>5. QED  BY <1>0, <3>2, <4>3, <4>4 DEF FetchInv
    <3>6. ASSUME NEW a \in Assets, NEW next, Write(p, a, next), At(p, a),
                 next # "skipped", Written(next) = Written(a) \cup {a}
          PROVE  FetchInv'
      <4>1. /\ job'[p].step = next /\ job[p].step = a
            /\ sidecar' = sidecar /\ files' = [files EXCEPT ![a] = job[p].pin]
            /\ written' = written \cup {job[p].pin}
        BY <1>0, <3>1, <3>6, FetchGoes DEF Write, At, FetchInv
      <4>2. files'[a] = job[p].pin /\ \A b \in Assets \ {a} : files'[b] = files[b]
        BY <1>0, <4>1 DEF TypeOK
      <4>3. SidecarHonest'
        BY <1>0, <4>1, <4>2 DEF SidecarHonest
      <4>4. ASSUME NEW q \in Procs, Fetching(q)'  PROVE Yields(q)'
        <5>1. CASE q = p
          BY <3>1, <3>2, <3>3, <3>6, <4>1, <4>2, <5>1, WrittenAssets DEF Yields, Excused
        <5>2. CASE q # p
          <6>1. "fetch" \in disturbed[q] /\ Yields(q)
            BY <1>0, <3>1, <3>2, <4>4, <5>2 DEF Meets
          <6>2. ASSUME NEW b \in Assets, NEW foreign \in BOOLEAN, Excused(q, b, foreign)
                PROVE  Excused(q, b, foreign)'
            BY <3>1, <3>2, <4>1, <4>2, <5>2, <6>1, <6>2 DEF Excused
          <6>3. job'[q] = job[q]
            BY <3>2, <5>2
          <6>4. QED  BY <6>1, <6>2, <6>3, WrittenAssets DEF Yields
        <5>3. QED  BY <5>1, <5>2
      <4>5. QED  BY <1>0, <3>2, <4>3, <4>4 DEF FetchInv
    <3>7. CASE WriteCorpus(p)
      BY <3>6, <3>7 DEF WriteCorpus, Write, Written, Assets
    <3>8. CASE WriteQueries(p)
      BY <3>6, <3>8 DEF WriteQueries, Write, Written, Assets
    <3>9. CASE WriteJudgments(p)
      BY <3>6, <3>9 DEF WriteJudgments, Write, Written, Assets
    <3>10. CASE WriteSidecar(p)
      <4>1. /\ job'[p].step = "fetched" /\ job[p].step = "sidecar"
            /\ sidecar' = job[p].pin /\ files' = files
            /\ "fetch" \in disturbed[p] => written' = written
        BY <1>0, <3>1, <3>10, FetchGoes DEF WriteSidecar, At, FetchInv
      <4>2. Written("sidecar") = Assets /\ Written("fetched") = Assets
        BY DEF Written
      <4>3. SidecarHonest'
        BY <3>3, <4>1, <4>2 DEF SidecarHonest, Yields, Excused
      <4>4. Yields(p)'
        BY <3>1, <3>2, <3>3, <4>1, <4>2 DEF Yields, Excused
      <4>5. ASSUME NEW q \in Procs, Fetching(q)', q # p  PROVE Yields(q)'
        <5>1. written' = written
          BY <1>0, <3>1, <3>2, <4>1, <4>5 DEF Meets
        <5>2. QED  BY <1>0, <3>1, <3>2, <4>1, <4>5, <5>1 DEF Yields, Excused
      <4>6. QED  BY <1>0, <3>2, <4>3, <4>4, <4>5 DEF FetchInv
    <3>11. QED
      BY <1>3, <2>3, <3>4, <3>5, <3>7, <3>8, <3>9, <3>10 DEF Fetch
  <2>4. QED  BY <2>1, <2>2, <2>3
<1>4. ASSUME NEW p \in Procs, Cell(p)  PROVE FetchInv'
  <2>1. CASE Score(p)
    BY <1>2, <2>1 DEF Score
  <2>2. CASE ~Score(p)
    <3>1. UNCHANGED dataset /\ disturbed' = disturbed
      BY <1>4, <2>2 DEF Cell, BeginCell, OpenQueries, OpenJudgments, OpenScoring, OpenCorpus,
           SampleCorpus, Lookup, LoadArtifact, LoadFails, BuildIndex, WriteArtifact,
           WriteCacheManifest, WriteFails
    <3> DEFINE Jobs == FetchJobs \cup CellJobs \cup {Absent}
    <3>2. \A q \in Procs : q # p => job'[q] = job[q]
      BY <1>0, <1>4, <2>2 DEF Cell, BeginCell, OpenQueries, OpenJudgments, OpenScoring,
           OpenCorpus, SampleCorpus, Lookup, LoadArtifact, LoadFails, BuildIndex,
           WriteArtifact, WriteCacheManifest, WriteFails, Goto, TypeOK
    <3>3. ~Fetching(p)'
      <4>0. job \in [Procs -> Jobs]
        BY <1>0 DEF TypeOK
      <4> HIDE DEF Jobs
      <4>1. ASSUME NEW cached \in BOOLEAN, BeginCell(p, cached)  PROVE ~Fetching(p)'
        BY <4>0, <4>1 DEF BeginCell, Fetching
      <4>2. CASE ~\E cached \in BOOLEAN : BeginCell(p, cached)
        <5>1. job[p] \in CellJobs
          BY <1>0, <1>4, <2>2, <4>2, StepJobs DEF Cell, OpenQueries, OpenJudgments, OpenScoring,
               OpenCorpus, SampleCorpus, Lookup, LoadArtifact, LoadFails, BuildIndex,
               WriteArtifact, WriteCacheManifest, WriteFails, At, CellJobs
        <5>2. job[p].kind = "cell"
          BY <5>1 DEF CellJobs, CellStep
        <5>3. job'[p].kind = job[p].kind
          <6>1. ASSUME NEW step, Goto(p, step)  PROVE job'[p].kind = job[p].kind
            BY <4>0, <5>1, <6>1 DEF Goto, CellJobs, CellStep
          <6>2. CASE OpenCorpus(p)
            BY <4>0, <5>1, <6>2 DEF OpenCorpus, CellJobs, CellStep
          <6>3. CASE SampleCorpus(p)
            BY <4>0, <5>1, <6>3 DEF SampleCorpus, CellJobs, CellStep
          <6>4. CASE LoadArtifact(p)
            BY <4>0, <5>1, <6>4 DEF LoadArtifact, CellJobs, CellStep
          <6>5. CASE BuildIndex(p)
            BY <4>0, <5>1, <6>5 DEF BuildIndex, CellJobs, CellStep
          <6>6. QED
            BY <1>4, <2>2, <4>2, <6>1, <6>2, <6>3, <6>4, <6>5 DEF Cell, OpenQueries,
               OpenJudgments, OpenScoring, Lookup, LoadFails, WriteArtifact,
               WriteCacheManifest, WriteFails
        <5>4. QED  BY <5>2, <5>3 DEF Fetching
      <4>3. QED  BY <4>1, <4>2
    <3>4. ASSUME NEW q \in Procs, Fetching(q)'
          PROVE  Fetching(q) /\ job'[q] = job[q] /\ disturbed'[q] = disturbed[q]
      BY <3>1, <3>2, <3>3, <3>4 DEF Fetching, Idle
    <3>5. QED  BY <1>0, <3>1, <3>4, FetchesKept
  <2>3. QED  BY <2>1, <2>2
<1>5. ASSUME NEW p \in Procs, Fail(p)  PROVE FetchInv'
  BY <1>2, <1>5 DEF Fail
<1>6. CASE UNCHANGED vars
  BY <1>0, <1>6, FetchesKept DEF vars, Fetching, Idle
<1>7. QED  BY <1>1, <1>3, <1>4, <1>5, <1>6 DEF Next

(* However often a dataset is repinned and fetches of it overlap and die, a *)
(* fetch yields the files of its pin, but for what the user removed, what   *)
(* another fetch replaced meanwhile, and, behind a matching sidecar, what   *)
(* fetches left that died or met another.                                   *)
THEOREM FetchTheorem == Spec => []FetchYieldsPinned
<1>1. Init => FetchInv
  BY TypeInit DEF Init, FetchInv, Meets, SidecarHonest, Fetching, Idle
<1>2. FetchInv => FetchYieldsPinned
  <2>1. Written("fetched") = Assets
    BY DEF Written
  <2>2. SUFFICES ASSUME FetchInv, NEW p \in Procs, At(p, "skipped") \/ At(p, "fetched"),
                        NEW a \in Assets
                 PROVE  Excused(p, a, At(p, "skipped"))
    BY DEF FetchYieldsPinned, Excused
  <2>3. Fetching(p) /\ job[p].step \in {"skipped", "fetched"}
    BY <2>2, StepJobs DEF At, FetchInv
  <2>4. Yields(p)
    BY <2>2, <2>3 DEF FetchInv
  <2>5. QED  BY <2>1, <2>2, <2>3, <2>4 DEF At, Yields, Excused
<1>3. QED  BY <1>1, <1>2, FetchNext, PTL DEF Spec

-----------------------------------------------------------------------------
(* The promotion gate.                                                     *)

-----------------------------------------------------------------------------
(* Least and greatest numbers.                                             *)

\* The least of some numbers is one of them: the first place, the first level.
LEMMA LeastExists ==
  ASSUME NEW S \in SUBSET Nat, S # {}
  PROVE  Min(S) \in S /\ \A x \in S : Min(S) <= x
  <1> DEFINE Below == {0..n : n \in S}
  <1>1. ASSUME NEW n \in S
        PROVE  0..n \in FiniteSubsetsOf(Nat)
    <2>1. IsFiniteSet(0..n) /\ 0..n \subseteq Nat
      BY FS_Interval
    <2>. QED
      BY <2>1 DEF FiniteSubsetsOf
  <1>2. PICK B \in Below : \A C \in Below : ~(<<C, B>> \in StrictSubsetOrdering(Nat))
    <2>1. Below \subseteq FiniteSubsetsOf(Nat) /\ Below # {}
      BY <1>1
    <2>. HIDE DEF Below
    <2>. QED
      BY <2>1, FS_StrictSubsetOrderingWellFounded, WFMin
  <1>3. PICK m \in S : B = 0..m
    BY <1>2
  <1>4. ASSUME NEW y \in S, y < m
        PROVE  FALSE
    <2>1. 0..y \subseteq 0..m /\ m \in 0..m /\ m \notin 0..y
      BY <1>4
    <2>2. 0..y # 0..m /\ 0..y \in SUBSET Nat /\ 0..m \in SUBSET Nat
      BY <2>1
    <2>3. <<0..y, 0..m>> \in StrictSubsetOrdering(Nat)
      BY <2>1, <2>2 DEF StrictSubsetOrdering
    <2>. QED
      BY <1>2, <1>3, <2>3
  <1>5. \A y \in S : m <= y
    BY <1>4
  <1>. QED
    BY <1>5 DEF Min

LEMMA GreaterOfZero ==
  ASSUME NEW x \in Int
  PROVE  Max({0, x}) = IF x > 0 THEN x ELSE 0
  <1>1. \E y \in {0, x} : \A z \in {0, x} : y >= z
    OBVIOUS
  <1>2. Max({0, x}) \in {0, x} /\ \A z \in {0, x} : Max({0, x}) >= z
    BY <1>1 DEF Max
  <1>. QED
    BY <1>2

-----------------------------------------------------------------------------
(* The state.                                                              *)

AllCells == Cells \cup {FailedCell(cell) : cell \in Cells}

VerdictInv ==
  /\ cells \in Seq(AllCells)
  /\ passes = Evaluate(cells)

\* A cell that fails keeps the shape of a cell.
LEMMA CellsWellFormed ==
  ASSUME NEW cell \in AllCells
  PROVE  WellFormed(cell) /\ cell # None /\ FailedCell(cell) \in AllCells
  <1>1. ASSUME NEW c \in Cells
        PROVE  /\ WellFormed(FailedCell(c)) /\ FailedCell(c) # None
               /\ FailedCell(FailedCell(c)) = FailedCell(c)
    BY GateAssumption DEF WellFormed, FailedCell, CellKeys
  <1>2. CASE cell \in Cells
    BY <1>2, GateAssumption DEF AllCells
  <1>3. CASE cell \in {FailedCell(c) : c \in Cells}
    BY <1>1, <1>3 DEF AllCells
  <1>. QED
    BY <1>2, <1>3 DEF AllCells

\* The verdict shown is always that on the cells of the combined report.
LEMMA VerdictIsCurrent == GateSpec => []VerdictInv
  <1>1. GateInit => VerdictInv
    <2> SUFFICES ASSUME GateInit PROVE VerdictInv
      OBVIOUS
    <2>1. cells \in Seq(Cells)
      BY GateAssumption DEF GateInit
    <2>2. cells \in Seq(AllCells)
      BY <2>1, SeqMonotonic DEF AllCells
    <2>. QED
      BY <2>2 DEF GateInit, VerdictInv
  <1>2. VerdictInv /\ [GateNext]_gateVars => VerdictInv'
    <2> SUFFICES ASSUME VerdictInv, [GateNext]_gateVars PROVE VerdictInv'
      OBVIOUS
    <2>1. ASSUME NEW report \in Reruns, AddReport(report)
          PROVE  VerdictInv'
      <3>1. report \in Seq(Cells)
        BY GateAssumption
      <3>2. report \in Seq(AllCells)
        BY <3>1, SeqMonotonic DEF AllCells
      <3>3. cells' \in Seq(AllCells)
        BY <2>1, <3>2, ConcatProperties DEF AddReport, Report, VerdictInv
      <3>. QED
        BY <2>1, <3>3 DEF AddReport, Report, VerdictInv, Evaluate
    <2>2. ASSUME NEW i \in DOMAIN cells, CellFails(i)
          PROVE  VerdictInv'
      <3>1. cells' = [cells EXCEPT ![i] = FailedCell(cells[i])]
        BY <2>2 DEF CellFails, Report
      <3>2. i \in 1..Len(cells) /\ FailedCell(cells[i]) \in AllCells
        BY <2>2, CellsWellFormed, LenProperties, ElementOfSeq DEF VerdictInv
      <3>3. cells' \in Seq(AllCells)
        BY <3>1, <3>2, ExceptSeq DEF VerdictInv
      <3>. QED
        BY <2>2, <3>3 DEF CellFails, Report, VerdictInv, Evaluate
    <2>3. ASSUME NEW i \in DOMAIN cells, NEW cell \in Cells, Improve(i, cell)
          PROVE  VerdictInv'
      <3>1. cells' = [cells EXCEPT ![i] = cell] /\ cell \in AllCells
        BY <2>3 DEF Improve, Report, AllCells
      <3>2. cells' \in Seq(AllCells)
        BY <2>3, <3>1, ExceptSeq, LenProperties DEF VerdictInv
      <3>. QED
        BY <2>3, <3>2 DEF Improve, Report, VerdictInv, Evaluate
    <2>4. CASE UNCHANGED gateVars
      BY <2>4 DEF gateVars, VerdictInv, Evaluate
    <2>. QED
      BY <2>1, <2>2, <2>3, <2>4 DEF GateNext
  <1>. QED
    BY <1>1, <1>2, PTL DEF GateSpec

-----------------------------------------------------------------------------
(* Looking up a cell.                                                      *)

\* What is found is the first successful cell at the place, if there is one.
LEMMA FirstPlace ==
  ASSUME NEW s \in Seq(AllCells), NEW d, NEW l, NEW t
  PROVE  /\ Places(s, d, l, t) = {} => FindCell(s, d, l, t) = None
         /\ Places(s, d, l, t) # {} =>
              \E i \in Places(s, d, l, t) :
                /\ FindCell(s, d, l, t) = s[i]
                /\ \A j \in Places(s, d, l, t) : i <= j
  <1> DEFINE P == Places(s, d, l, t)
  <1>1. P \in SUBSET Nat
    BY LenProperties DEF Places, Evidence
  <1>2. CASE P = {}
    BY <1>2 DEF FindCell
  <1>3. CASE P # {}
    <2>1. Min(P) \in P /\ \A j \in P : Min(P) <= j
      <3>. HIDE DEF P
      <3>. QED
        BY <1>1, <1>3, LeastExists
    <2>. QED
      BY <1>3, <2>1 DEF FindCell
  <1>. QED
    BY <1>2, <1>3

LEMMA FoundCell ==
  ASSUME NEW s \in Seq(AllCells), NEW d, NEW l, NEW t
  PROVE  /\ FindCell(s, d, l, t) # None <=> Places(s, d, l, t) # {}
         /\ FindCell(s, d, l, t) # None => FindCell(s, d, l, t) \in AllCells
  <1>1. \A i \in Places(s, d, l, t) : s[i] \in AllCells /\ s[i] # None
    BY LenProperties, ElementOfSeq, CellsWellFormed DEF Places, Evidence
  <1>. QED
    BY <1>1, FirstPlace

\* Two reports find the same cell where the same cells compete.
LEMMA SameFound ==
  ASSUME NEW r \in Seq(AllCells), NEW s \in Seq(AllCells), NEW d, NEW l, NEW t,
         Places(s, d, l, t) = Places(r, d, l, t),
         \A i \in Places(r, d, l, t) : s[i] = r[i]
  PROVE  FindCell(s, d, l, t) = FindCell(r, d, l, t)
  <1>1. Places(r, d, l, t) \in SUBSET Nat
    BY LenProperties DEF Places, Evidence
  <1>2. Places(r, d, l, t) # {} => Min(Places(r, d, l, t)) \in Places(r, d, l, t)
    BY <1>1, LeastExists
  <1>. QED
    BY <1>2 DEF FindCell

-----------------------------------------------------------------------------
(* Values that are no worse.                                               *)

NoWorse(d, c) == d \in AllCells /\ c \in AllCells /\ (d = c \/ Better(d, c))

AtLeast(v, w) ==
  /\ {v, w} \subseteq Nat \cup {None}
  /\ v = None <=> w = None
  /\ w # None => v >= w

LEMMA LookupNoWorse ==
  ASSUME NEW f, NEW g, NEW key, Numbers(f), Numbers(g), f = g \/ Above(f, g)
  PROVE  AtLeast(ValueOf(f, key), ValueOf(g, key))
  BY GateAssumption DEF Numbers, Above, AtLeast, ValueOf

LEMMA MetricNoWorse ==
  ASSUME NEW d, NEW c, NoWorse(d, c), NEW metric, NEW slice
  PROVE  AtLeast(MetricValue(d, metric, slice), MetricValue(c, metric, slice))
  <1>1. WellFormed(d) /\ WellFormed(c)
    BY CellsWellFormed DEF NoWorse
  <1>2. AtLeast(ValueOf(d.metrics, metric), ValueOf(c.metrics, metric))
    BY <1>1, LookupNoWorse DEF NoWorse, Better, WellFormed
  <1>3. DOMAIN d.slices = DOMAIN c.slices
    BY DEF NoWorse, Better
  <1>4. slice \in DOMAIN c.slices =>
          AtLeast(ValueOf(d.slices[slice], metric), ValueOf(c.slices[slice], metric))
    BY <1>1, <1>3, LookupNoWorse DEF NoWorse, Better, WellFormed
  <1>5. CASE slice \in DOMAIN c.slices
    BY <1>2, <1>3, <1>4, <1>5 DEF MetricValue, AtLeast
  <1>6. CASE slice \notin DOMAIN c.slices
    BY <1>2, <1>3, <1>6 DEF MetricValue, AtLeast
  <1>. QED
    BY <1>5, <1>6

\* The thresholds only become easier to meet.
LEMMA MeetsThresholds ==
  ASSUME NEW b \in Nat, NEW c \in Nat, NEW d \in Nat, d >= c
  PROVE  /\ \A least \in Int : Improves(b, c, least) => Improves(b, d, least)
         /\ \A limit : /\ {limit.absolute, limit.relative} \subseteq Int
                       /\ Holds(b, c, limit)
                       => Holds(b, d, limit)
  <1>1. ASSUME NEW least \in Int, Improves(b, c, least)
        PROVE  Improves(b, d, least)
    <2>1. CASE b = 0
      BY <1>1, <2>1 DEF Improves
    <2>2. CASE b # 0
      <3>1. 100 * (c - b) >= least * b /\ least * b \in Int
        BY <1>1, <2>2 DEF Improves
      <3>2. 100 * (d - b) >= 100 * (c - b)
        OBVIOUS
      <3>3. 100 * (d - b) >= least * b
        BY <3>1, <3>2
      <3>. QED
        BY <2>2, <3>3 DEF Improves
    <2>. QED
      BY <2>1, <2>2
  <1>2. ASSUME NEW limit, {limit.absolute, limit.relative} \subseteq Int, Holds(b, c, limit)
        PROVE  Holds(b, d, limit)
    <2> DEFINE lost(e) == IF b - e > 0 THEN b - e ELSE 0
    <2>1. Max({0, b - c}) = lost(c) /\ Max({0, b - d}) = lost(d)
      BY GreaterOfZero
    <2>2. lost(d) <= lost(c) /\ lost(c) \in Int /\ lost(d) \in Int
      OBVIOUS
    <2>3. lost(c) <= limit.absolute /\ (b > 0 => 100 * lost(c) <= limit.relative * b)
      BY <1>2, <2>1 DEF Holds
    <2> HIDE DEF lost
    <2>4. limit.relative * b \in Int
      BY <1>2
    <2>5. lost(d) <= limit.absolute /\ (b > 0 => 100 * lost(d) <= limit.relative * b)
      BY <1>2, <2>2, <2>3, <2>4
    <2>. QED
      BY <2>1, <2>5 DEF Holds
  <1>. QED
    BY <1>1, <1>2

-----------------------------------------------------------------------------
(* One report outdoes another for a candidate: the baseline scored the     *)
(* same, and what the candidate was measured for it is measured for again, *)
(* no worse.  Each check that the one passes, the other passes.            *)

SameBaseline(s, r) ==
  /\ BaselineCells(s) = BaselineCells(r)
  /\ \A i \in BaselineCells(r) : s[i] = r[i]
  /\ \A d, l : FindCell(s, d, l, Gate.baseline) = FindCell(r, d, l, Gate.baseline)

Outdoes(s, r, candidate) ==
  /\ s \in Seq(AllCells) /\ r \in Seq(AllCells)
  /\ SameBaseline(s, r)
  /\ \A d, l : FindCell(r, d, l, candidate) # None
                 => NoWorse(FindCell(s, d, l, candidate), FindCell(r, d, l, candidate))

LEMMA BaselineIsCells ==
  ASSUME NEW r \in Seq(AllCells)
  PROVE  /\ BaselineCells(r) \subseteq 1..Len(r)
         /\ \A i \in BaselineCells(r) : r[i] \in AllCells
  BY LenProperties, ElementOfSeq DEF BaselineCells, Evidence

LEMMA FoundAgain ==
  ASSUME NEW s, NEW r, NEW candidate, Outdoes(s, r, candidate), NEW d, NEW l
  PROVE  /\ FindCell(r, d, l, candidate) # None => FindCell(s, d, l, candidate) # None
         /\ Both(r, d, l, candidate) => Both(s, d, l, candidate)
         /\ FindCell(s, d, l, Gate.baseline) = FindCell(r, d, l, Gate.baseline)
         /\ FindCell(r, d, l, candidate) # None =>
              NoWorse(FindCell(s, d, l, candidate), FindCell(r, d, l, candidate))
  <1>1. FindCell(r, d, l, candidate) # None => FindCell(s, d, l, candidate) # None
    BY CellsWellFormed DEF Outdoes, NoWorse
  <1>2. FindCell(s, d, l, Gate.baseline) = FindCell(r, d, l, Gate.baseline)
    BY DEF Outdoes, SameBaseline
  <1>. QED
    BY <1>1, <1>2 DEF Both, Outdoes

LEMMA PublicCellsStay ==
  ASSUME NEW s, NEW r, NEW candidate, Outdoes(s, r, candidate),
         RequiredPublicCells(r, candidate)
  PROVE  RequiredPublicCells(s, candidate)
  BY FoundAgain DEF RequiredPublicCells

\* Values at a level at which the contract requires both cells.
LEMMA ValuesAtLevel ==
  ASSUME NEW s, NEW r, NEW candidate, Outdoes(s, r, candidate),
         NEW k \in DOMAIN Gate.levels, NEW data,
         Both(r, data, Gate.levels[k], candidate), NEW metric, NEW slice
  PROVE  /\ ValueAt(s, k, data, Gate.baseline, metric, slice)
              = ValueAt(r, k, data, Gate.baseline, metric, slice)
         /\ ValueAt(r, k, data, Gate.baseline, metric, slice) \in Nat \cup {None}
         /\ AtLeast(ValueAt(s, k, data, candidate, metric, slice),
                    ValueAt(r, k, data, candidate, metric, slice))
  <1> DEFINE l == Gate.levels[k]
  <1>1. FindCell(s, data, l, Gate.baseline) = FindCell(r, data, l, Gate.baseline)
    BY FoundAgain
  <1>2. FindCell(r, data, l, Gate.baseline) # None /\ FindCell(r, data, l, candidate) # None
    BY DEF Both
  <1>3. NoWorse(FindCell(r, data, l, Gate.baseline), FindCell(r, data, l, Gate.baseline))
    BY <1>2, FoundCell DEF NoWorse, Outdoes
  <1>4. NoWorse(FindCell(s, data, l, candidate), FindCell(r, data, l, candidate))
    BY <1>2, FoundAgain
  <1> HIDE DEF l
  <1>5. MetricValue(FindCell(r, data, l, Gate.baseline), metric, slice) \in Nat \cup {None}
    BY <1>3, MetricNoWorse DEF AtLeast
  <1>6. AtLeast(MetricValue(FindCell(s, data, l, candidate), metric, slice),
                MetricValue(FindCell(r, data, l, candidate), metric, slice))
    BY <1>4, MetricNoWorse
  <1>. QED
    BY <1>1, <1>5, <1>6 DEF ValueAt, l

LEMMA LevelsAreNumbered == DOMAIN Gate.levels \in SUBSET Nat
  BY LenProperties, GateAssumption

LEMMA KoreanStays ==
  ASSUME NEW s, NEW r, NEW candidate, Outdoes(s, r, candidate),
         RequiredPublicCells(r, candidate), PublicKorean(r, candidate)
  PROVE  PublicKorean(s, candidate)
  <1> DEFINE rule == Gate.public_korean
             Value(q, k, target, metric) == ValueAt(q, k, rule.dataset, target, metric, rule.slice)
             Comparable(q, metric) ==
               {k \in DOMAIN Gate.levels :
                  /\ Both(q, rule.dataset, Gate.levels[k], candidate)
                  /\ Known(Value(q, k, Gate.baseline, metric), Value(q, k, candidate, metric))}
             Enough(q, metric) ==
               /\ Comparable(q, metric) # {}
               /\ Improves(Value(q, Min(Comparable(q, metric)), Gate.baseline, metric),
                           Value(q, Min(Comparable(q, metric)), candidate, metric),
                           rule.least[metric])
  <1>1. \A k \in DOMAIN Gate.levels :
          /\ Both(r, rule.dataset, Gate.levels[k], candidate)
          /\ Both(s, rule.dataset, Gate.levels[k], candidate)
    <2>1. rule.dataset \in Gate.datasets
      BY GateAssumption
    <2>. QED
      BY <2>1, PublicCellsStay DEF RequiredPublicCells, LevelSet
  <1>2. ASSUME NEW metric \in DOMAIN rule.least
        PROVE  Enough(s, metric)
    <2>1. Enough(r, metric)
      BY DEF PublicKorean
    <2>2. \A k \in DOMAIN Gate.levels :
            /\ Value(s, k, Gate.baseline, metric) = Value(r, k, Gate.baseline, metric)
            /\ Value(r, k, Gate.baseline, metric) \in Nat \cup {None}
            /\ AtLeast(Value(s, k, candidate, metric), Value(r, k, candidate, metric))
      BY <1>1, ValuesAtLevel
    <2>3. Comparable(s, metric) = Comparable(r, metric)
      <3> HIDE DEF Value, rule
      <3>. QED
        BY <1>1, <2>2 DEF Known, AtLeast
    <2>4. Comparable(r, metric) \in SUBSET DOMAIN Gate.levels
      OBVIOUS
    <2> DEFINE k == Min(Comparable(r, metric))
    <2>5. k \in Comparable(r, metric)
      <3>1. Comparable(r, metric) \in SUBSET Nat /\ Comparable(r, metric) # {}
        BY <2>1, <2>4, LevelsAreNumbered
      <3> HIDE DEF Comparable
      <3>. QED
        BY <3>1, LeastExists
    <2>6. rule.least[metric] \in Int
      BY GateAssumption
    <2> HIDE DEF k
    <2>7. /\ Value(r, k, Gate.baseline, metric) \in Nat
          /\ Value(r, k, candidate, metric) \in Nat
          /\ Value(s, k, candidate, metric) \in Nat
          /\ Value(s, k, candidate, metric) >= Value(r, k, candidate, metric)
      <3> HIDE DEF Value, rule
      <3>. QED
        BY <2>2, <2>5 DEF Known, AtLeast
    <2>8. Improves(Value(s, k, Gate.baseline, metric), Value(s, k, candidate, metric), rule.least[metric])
      <3>1. Improves(Value(r, k, Gate.baseline, metric), Value(r, k, candidate, metric), rule.least[metric])
        BY <2>1 DEF k
      <3>2. Value(s, k, Gate.baseline, metric) = Value(r, k, Gate.baseline, metric)
        BY <2>2, <2>5
      <3> HIDE DEF Value, rule
      <3>. QED
        BY <2>6, <2>7, <3>1, <3>2, MeetsThresholds
    <2>. QED
      BY <2>1, <2>3, <2>8 DEF k
  <1>. QED
    BY <1>2 DEF PublicKorean

LEMMA EnglishStays ==
  ASSUME NEW s, NEW r, NEW candidate, Outdoes(s, r, candidate),
         RequiredPublicCells(r, candidate), PublicEnglish(r, candidate)
  PROVE  PublicEnglish(s, candidate)
  <1> DEFINE rule == Gate.public_english
             Comparable(q, data) ==
               {k \in DOMAIN Gate.levels : Both(q, data, Gate.levels[k], candidate)}
             Value(q, k, data, target, metric) == ValueAt(q, k, data, target, metric, "all")
             Enough(q, data, metric) ==
               LET k == Min(Comparable(q, data))
                   b == Value(q, k, data, Gate.baseline, metric)
                   c == Value(q, k, data, candidate, metric)
               IN  Comparable(q, data) # {} /\ Known(b, c) /\ Holds(b, c, rule)
  <1>1. ASSUME NEW data \in rule.datasets, NEW metric \in rule.metrics
        PROVE  Enough(s, data, metric)
    <2>1. Enough(r, data, metric)
      BY DEF PublicEnglish
    <2>2. \A k \in DOMAIN Gate.levels :
            /\ Both(r, data, Gate.levels[k], candidate)
            /\ Both(s, data, Gate.levels[k], candidate)
      <3>1. data \in Gate.datasets
        BY GateAssumption
      <3>. QED
        BY <3>1, PublicCellsStay DEF RequiredPublicCells, LevelSet
    <2>3. Comparable(s, data) = DOMAIN Gate.levels /\ Comparable(r, data) = DOMAIN Gate.levels
      BY <2>2
    <2> DEFINE k == Min(DOMAIN Gate.levels)
    <2>4. k \in DOMAIN Gate.levels
      BY <2>1, <2>3, LevelsAreNumbered, LeastExists
    <2> HIDE DEF k
    <2> DEFINE b == Value(r, k, data, Gate.baseline, metric)
               c == Value(r, k, data, candidate, metric)
               d == Value(s, k, data, candidate, metric)
    <2>5. Known(b, c) /\ Holds(b, c, rule)
      BY <2>1, <2>3 DEF k
    <2>6. /\ Value(s, k, data, Gate.baseline, metric) = b
          /\ b \in Nat \cup {None} /\ AtLeast(d, c)
      BY <2>2, <2>4, ValuesAtLevel
    <2>7. {rule.absolute, rule.relative} \subseteq Int
      BY GateAssumption
    <2>8. Known(b, d) /\ Holds(b, d, rule)
      <3> HIDE DEF b, c, d, rule
      <3>. QED
        BY <2>5, <2>6, <2>7, MeetsThresholds DEF Known, AtLeast
    <2>. QED
      BY <2>3, <2>4, <2>6, <2>8 DEF k
  <1>. QED
    BY <1>1 DEF PublicEnglish

LEMMA LatencyStays ==
  ASSUME NEW s, NEW r, NEW candidate, Outdoes(s, r, candidate), Latency(r, candidate)
  PROVE  Latency(s, candidate)
  <1> SUFFICES ASSUME NEW data \in Gate.datasets, NEW level \in LevelSet
               PROVE  /\ Both(s, data, level, candidate)
                      /\ LET b == FindCell(s, data, level, Gate.baseline).latency
                             c == FindCell(s, data, level, candidate).latency
                         IN  Known(b, c) /\ b > 0 /\ 100 * c <= Gate.latency * b
    BY DEF Latency
  <1> DEFINE b == FindCell(r, data, level, Gate.baseline).latency
             c == FindCell(r, data, level, candidate).latency
             d == FindCell(s, data, level, candidate).latency
  <1>1. Both(r, data, level, candidate) /\ Known(b, c) /\ b > 0 /\ 100 * c <= Gate.latency * b
    BY DEF Latency
  <1>2. /\ FindCell(r, data, level, candidate) # None
        /\ FindCell(r, data, level, Gate.baseline) \in AllCells
    BY <1>1, FoundCell DEF Both, Outdoes
  <1>3. NoWorse(FindCell(s, data, level, candidate), FindCell(r, data, level, candidate))
    BY <1>2, FoundAgain
  <1>4. {b, c, d} \subseteq Nat \cup {None}
    BY <1>2, <1>3, CellsWellFormed DEF NoWorse, WellFormed
  <1>5. d = c \/ (Known(d, c) /\ d < c)
    BY <1>3 DEF NoWorse, Better
  <1>6. /\ Both(s, data, level, candidate)
        /\ FindCell(s, data, level, Gate.baseline).latency = b
    BY <1>1, FoundAgain
  <1>7. Known(b, d) /\ 100 * d <= Gate.latency * b
    <2>1. Known(b, c) /\ 100 * c <= Gate.latency * b /\ Gate.latency \in Int
      BY <1>1, GateAssumption
    <2> HIDE DEF b, c, d
    <2>2. b \in Nat /\ c \in Nat /\ d \in Nat /\ d <= c
      BY <1>4, <1>5, <2>1 DEF Known
    <2>3. Gate.latency * b \in Int
      BY <2>1, <2>2
    <2>. QED
      BY <1>5, <2>1, <2>2, <2>3, GateAssumption DEF Known
  <1>. QED
    BY <1>1, <1>6, <1>7

-----------------------------------------------------------------------------
(* Slices: the cells of the baseline that have one, and their counterparts. *)

Paired(r, candidate, slice) ==
  {i \in BaselineCells(r) :
     /\ slice \in DOMAIN r[i].slices
     /\ Counterpart(r, i, candidate) # None
     /\ slice \in DOMAIN Counterpart(r, i, candidate).slices}

LEMMA PairsAreIndexed ==
  ASSUME NEW r, NEW candidate, NEW slice
  PROVE  SlicePairs(r, candidate, slice)
           = {<<r[i], Counterpart(r, i, candidate)>> : i \in Paired(r, candidate, slice)}
  BY DEF SlicePairs, Paired

LEMMA ValuesAreIndexed ==
  ASSUME NEW r, NEW candidate, NEW slice, NEW metric
  PROVE  SliceValues(r, candidate, slice, metric)
           = {<<MetricValue(r[i], metric, slice),
                MetricValue(Counterpart(r, i, candidate), metric, slice)>> :
                i \in Paired(r, candidate, slice)}
  <1> DEFINE Values(pair) == <<MetricValue(pair[1], metric, slice), MetricValue(pair[2], metric, slice)>>
             Pair(i) == <<r[i], Counterpart(r, i, candidate)>>
             P == Paired(r, candidate, slice)
  <1>1. SliceValues(r, candidate, slice, metric) = {Values(pair) : pair \in {Pair(i) : i \in P}}
    BY PairsAreIndexed DEF SliceValues
  <1>2. \A i : Values(Pair(i)) = <<MetricValue(r[i], metric, slice),
                                   MetricValue(Counterpart(r, i, candidate), metric, slice)>>
    OBVIOUS
  <1>3. {Values(pair) : pair \in {Pair(i) : i \in P}} = {Values(Pair(i)) : i \in P}
    <2> HIDE DEF Values, Pair, P
    <2>. QED
      OBVIOUS
  <1> HIDE DEF P
  <1>4. {Values(Pair(i)) : i \in P}
          = {<<MetricValue(r[i], metric, slice),
               MetricValue(Counterpart(r, i, candidate), metric, slice)>> : i \in P}
    BY <1>2
  <1>. QED
    BY <1>1, <1>3, <1>4 DEF P

LEMMA CounterpartNoWorse ==
  ASSUME NEW s, NEW r, NEW candidate, Outdoes(s, r, candidate),
         NEW i \in BaselineCells(r), Counterpart(r, i, candidate) # None
  PROVE  /\ Counterpart(s, i, candidate) # None
         /\ NoWorse(Counterpart(s, i, candidate), Counterpart(r, i, candidate))
  <1>1. s[i] = r[i]
    BY DEF Outdoes, SameBaseline
  <1>. QED
    BY <1>1, FoundAgain DEF Counterpart

LEMMA PairsStay ==
  ASSUME NEW s, NEW r, NEW candidate, Outdoes(s, r, candidate), NEW slice,
         MissingPairs(r, candidate, slice) = {}
  PROVE  /\ MissingPairs(s, candidate, slice) = {}
         /\ Paired(s, candidate, slice) = Paired(r, candidate, slice)
         /\ \A i \in Paired(r, candidate, slice) :
              /\ s[i] = r[i] /\ NoWorse(r[i], r[i])
              /\ NoWorse(Counterpart(s, i, candidate), Counterpart(r, i, candidate))
  <1>1. BaselineCells(s) = BaselineCells(r) /\ \A i \in BaselineCells(r) : s[i] = r[i]
    BY DEF Outdoes, SameBaseline
  <1>2. ASSUME NEW i \in BaselineCells(r), slice \in DOMAIN r[i].slices
        PROVE  /\ i \in Paired(r, candidate, slice)
               /\ i \in Paired(s, candidate, slice)
               /\ NoWorse(Counterpart(s, i, candidate), Counterpart(r, i, candidate))
    <2>1. /\ Counterpart(r, i, candidate) # None
          /\ slice \in DOMAIN Counterpart(r, i, candidate).slices
      BY <1>2 DEF MissingPairs
    <2>2. /\ Counterpart(s, i, candidate) # None
          /\ NoWorse(Counterpart(s, i, candidate), Counterpart(r, i, candidate))
      BY <2>1, CounterpartNoWorse
    <2>3. slice \in DOMAIN Counterpart(s, i, candidate).slices
      BY <2>1, <2>2 DEF NoWorse, Better
    <2>. QED
      BY <1>1, <1>2, <2>1, <2>2, <2>3 DEF Paired
  <1>3. MissingPairs(s, candidate, slice) = {}
    BY <1>1, <1>2 DEF MissingPairs, Paired
  <1>4. /\ \A i \in Paired(r, candidate, slice) : i \in BaselineCells(r) /\ slice \in DOMAIN r[i].slices
        /\ \A i \in Paired(s, candidate, slice) : i \in BaselineCells(r) /\ slice \in DOMAIN r[i].slices
    BY <1>1 DEF Paired
  <1>5. \A i \in BaselineCells(r) : NoWorse(r[i], r[i])
    BY BaselineIsCells DEF NoWorse, Outdoes
  <1>6. Paired(s, candidate, slice) = Paired(r, candidate, slice)
    BY <1>2, <1>4
  <1>. QED
    BY <1>1, <1>2, <1>3, <1>4, <1>5, <1>6

\* Each pair of values compared for the one was compared for the other, no worse.
LEMMA ValuesStay ==
  ASSUME NEW s, NEW r, NEW candidate, Outdoes(s, r, candidate), NEW slice, NEW metric,
         Compared(r, candidate, slice, metric)
  PROVE  /\ Compared(s, candidate, slice, metric)
         /\ \A v \in SliceValues(s, candidate, slice, metric) :
              \E w \in SliceValues(r, candidate, slice, metric) :
                /\ v[1] = w[1] /\ {w[1], w[2], v[2]} \subseteq Nat
                /\ v[2] >= w[2]
  <1> DEFINE B(q, i) == MetricValue(q[i], metric, slice)
             C(q, i) == MetricValue(Counterpart(q, i, candidate), metric, slice)
             P == Paired(r, candidate, slice)
  <1>1. MissingPairs(r, candidate, slice) = {}
    BY DEF Compared
  <1>2. /\ MissingPairs(s, candidate, slice) = {}
        /\ Paired(s, candidate, slice) = P
        /\ \A i \in P :
             /\ s[i] = r[i] /\ NoWorse(r[i], r[i])
             /\ NoWorse(Counterpart(s, i, candidate), Counterpart(r, i, candidate))
    BY <1>1, PairsStay
  <1>3. /\ SliceValues(r, candidate, slice, metric) = {<<B(r, i), C(r, i)>> : i \in P}
        /\ SliceValues(s, candidate, slice, metric) = {<<B(s, i), C(s, i)>> : i \in P}
    BY <1>2, ValuesAreIndexed
  <1>4. ASSUME NEW i \in P
        PROVE  /\ B(s, i) = B(r, i) /\ AtLeast(C(s, i), C(r, i)) /\ AtLeast(B(r, i), B(r, i))
               /\ Known(B(r, i), C(r, i))
    <2>1. AtLeast(C(s, i), C(r, i)) /\ AtLeast(B(r, i), B(r, i))
      BY <1>2, <1>4, MetricNoWorse
    <2>2. Known(B(r, i), C(r, i))
      <3>1. <<B(r, i), C(r, i)>> \in SliceValues(r, candidate, slice, metric)
        BY <1>3
      <3>. QED
        BY <3>1 DEF Compared
    <2>. QED
      BY <1>2, <2>1, <2>2
  <1>5. P # {}
    BY <1>3 DEF Compared
  <1> HIDE DEF B, C, P
  <1>6. \A i \in P :
          /\ B(s, i) = B(r, i) /\ {B(r, i), C(r, i), C(s, i)} \subseteq Nat
          /\ C(s, i) >= C(r, i)
    BY <1>4 DEF AtLeast, Known
  <1>7. \A v \in SliceValues(s, candidate, slice, metric) : Known(v[1], v[2])
    BY <1>3, <1>6, GateAssumption DEF Known
  <1>8. Compared(s, candidate, slice, metric)
    <2>1. PICK i \in P : TRUE
      BY <1>5
    <2>2. <<B(s, i), C(s, i)>> \in SliceValues(s, candidate, slice, metric)
      BY <1>3
    <2>. QED
      BY <1>2, <1>7, <2>2 DEF Compared
  <1>9. ASSUME NEW v \in SliceValues(s, candidate, slice, metric)
        PROVE  \E w \in SliceValues(r, candidate, slice, metric) :
                 /\ v[1] = w[1] /\ {w[1], w[2], v[2]} \subseteq Nat
                 /\ v[2] >= w[2]
    <2>1. PICK i \in P : v = <<B(s, i), C(s, i)>>
      BY <1>3
    <2>2. <<B(r, i), C(r, i)>> \in SliceValues(r, candidate, slice, metric)
      BY <1>3
    <2>. QED
      BY <1>6, <2>1, <2>2
  <1>. QED
    BY <1>8, <1>9

LEMMA RequiredSlicesStay ==
  ASSUME NEW s, NEW r, NEW candidate, Outdoes(s, r, candidate), RequiredSlices(r, candidate)
  PROVE  RequiredSlices(s, candidate)
  <1> SUFFICES ASSUME NEW slice \in Gate.slices
               PROVE  /\ SlicePairs(s, candidate, slice) # {}
                      /\ MissingPairs(s, candidate, slice) = {}
    BY DEF RequiredSlices
  <1>1. SlicePairs(r, candidate, slice) # {} /\ MissingPairs(r, candidate, slice) = {}
    BY DEF RequiredSlices
  <1>2. Paired(r, candidate, slice) # {}
    BY <1>1, PairsAreIndexed
  <1>3. Paired(s, candidate, slice) # {} /\ MissingPairs(s, candidate, slice) = {}
    BY <1>1, <1>2, PairsStay
  <1>4. \E i \in Paired(s, candidate, slice) :
          <<s[i], Counterpart(s, i, candidate)>> \in SlicePairs(s, candidate, slice)
    BY <1>3, PairsAreIndexed
  <1>. QED
    BY <1>3, <1>4

LEMMA SnowikiStays ==
  ASSUME NEW s, NEW r, NEW candidate, Outdoes(s, r, candidate), SnowikiKorean(r, candidate)
  PROVE  SnowikiKorean(s, candidate)
  <1> DEFINE rule == Gate.snowiki_korean
  <1> SUFFICES ASSUME NEW metric \in DOMAIN rule.least
               PROVE  /\ Compared(s, candidate, rule.slice, metric)
                      /\ \A v \in SliceValues(s, candidate, rule.slice, metric) :
                           Improves(v[1], v[2], rule.least[metric])
    BY DEF SnowikiKorean
  <1>1. /\ Compared(r, candidate, rule.slice, metric)
        /\ \A w \in SliceValues(r, candidate, rule.slice, metric) :
             Improves(w[1], w[2], rule.least[metric])
    BY DEF SnowikiKorean
  <1>2. rule.least[metric] \in Int
    BY GateAssumption
  <1> HIDE DEF rule
  <1>3. ASSUME NEW v \in SliceValues(s, candidate, rule.slice, metric)
        PROVE  Improves(v[1], v[2], rule.least[metric])
    <2>1. PICK w \in SliceValues(r, candidate, rule.slice, metric) :
            v[1] = w[1] /\ {w[1], w[2], v[2]} \subseteq Nat /\ v[2] >= w[2]
      BY <1>1, ValuesStay
    <2>. QED
      BY <1>1, <1>2, <2>1, MeetsThresholds
  <1>. QED
    BY <1>1, <1>3, ValuesStay

LEMMA RegressionsStay ==
  ASSUME NEW s, NEW r, NEW candidate, Outdoes(s, r, candidate), SliceRegressions(r, candidate)
  PROVE  SliceRegressions(s, candidate)
  <1> SUFFICES ASSUME NEW rule \in Gate.regressions, NEW slice \in rule.slices,
                      NEW metric \in rule.metrics
               PROVE  /\ Compared(s, candidate, slice, metric)
                      /\ \A v \in SliceValues(s, candidate, slice, metric) : Holds(v[1], v[2], rule)
    BY DEF SliceRegressions
  <1>1. /\ Compared(r, candidate, slice, metric)
        /\ \A w \in SliceValues(r, candidate, slice, metric) : Holds(w[1], w[2], rule)
    BY DEF SliceRegressions
  <1>2. {rule.absolute, rule.relative} \subseteq Int
    BY GateAssumption
  <1>3. ASSUME NEW v \in SliceValues(s, candidate, slice, metric)
        PROVE  Holds(v[1], v[2], rule)
    <2>1. PICK w \in SliceValues(r, candidate, slice, metric) :
            v[1] = w[1] /\ {w[1], w[2], v[2]} \subseteq Nat /\ v[2] >= w[2]
      BY <1>1, ValuesStay
    <2>. QED
      BY <1>1, <1>2, <2>1, MeetsThresholds
  <1>. QED
    BY <1>1, <1>3, ValuesStay

LEMMA GoldenStays ==
  ASSUME NEW s, NEW r, NEW candidate, Outdoes(s, r, candidate), GoldenQueries(r, candidate)
  PROVE  GoldenQueries(s, candidate)
  <1>1. BaselineCells(s) = BaselineCells(r) /\ \A i \in BaselineCells(r) : s[i] = r[i]
    BY DEF Outdoes, SameBaseline
  <1>2. \A query : Asked(s, query) = Asked(r, query)
    BY <1>1 DEF Asked
  <1>3. ASSUME NEW query \in Gate.golden, NEW i \in Asked(r, query)
        PROVE  /\ GoldenHit(s[i], query) = GoldenHit(r[i], query)
               /\ GoldenHit(r[i], query) \in Nat
               /\ GoldenHit(Counterpart(r, i, candidate), query) \in Nat
               /\ GoldenHit(Counterpart(s, i, candidate), query) \in Nat
               /\ GoldenHit(Counterpart(s, i, candidate), query)
                    >= GoldenHit(Counterpart(r, i, candidate), query)
    <2>1. i \in BaselineCells(r) /\ GoldenHit(r[i], query) # None
      BY DEF Asked
    <2>2. GoldenHit(Counterpart(r, i, candidate), query) # None
      BY DEF GoldenQueries
    <2>3. Counterpart(r, i, candidate) # None
      BY <2>2 DEF GoldenHit
    <2> DEFINE c == Counterpart(r, i, candidate)
               d == Counterpart(s, i, candidate)
    <2>4. d # None /\ NoWorse(d, c)
      BY <2>1, <2>3, CounterpartNoWorse
    <2>5. r[i] \in AllCells /\ WellFormed(r[i])
      BY <2>1, BaselineIsCells, CellsWellFormed DEF Outdoes
    <2> HIDE DEF c, d
    <2>6. WellFormed(d) /\ WellFormed(c) /\ c # None
      BY <2>4, CellsWellFormed DEF NoWorse
    <2>7. AtLeast(ValueOf(d.per_query, query), ValueOf(c.per_query, query))
      BY <2>4, <2>6, LookupNoWorse DEF NoWorse, Better, WellFormed
    <2>8. AtLeast(ValueOf(r[i].per_query, query), ValueOf(r[i].per_query, query))
      BY <2>5, LookupNoWorse DEF WellFormed
    <2>9. GoldenHit(r[i], query) \in Nat
      BY <2>1, <2>8 DEF AtLeast, GoldenHit
    <2>10. GoldenHit(c, query) \in Nat /\ GoldenHit(d, query) \in Nat
           /\ GoldenHit(d, query) >= GoldenHit(c, query)
      BY <2>2, <2>4, <2>6, <2>7 DEF AtLeast, GoldenHit, c
    <2>. QED
      BY <1>1, <2>1, <2>9, <2>10 DEF c, d
  <1>4. GoldenRegressions(s, candidate) \subseteq GoldenRegressions(r, candidate)
    <2> SUFFICES ASSUME NEW pair \in GoldenRegressions(s, candidate)
                 PROVE  pair \in GoldenRegressions(r, candidate)
      OBVIOUS
    <2> DEFINE query == pair[1]
               i == pair[2]
    <2>1. /\ pair \in Gate.golden \X BaselineCells(r) /\ query \in Gate.golden
          /\ i \in Asked(r, query)
          /\ GoldenHit(Counterpart(s, i, candidate), query) < GoldenHit(s[i], query)
      BY <1>1, <1>2 DEF GoldenRegressions
    <2>2. GoldenHit(Counterpart(r, i, candidate), query) < GoldenHit(r[i], query)
      <3> HIDE DEF query, i
      <3>. QED
        BY <1>3, <2>1
    <2>. QED
      BY <2>1, <2>2 DEF GoldenRegressions
  <1>5. IsFiniteSet(GoldenRegressions(r, candidate))
    <2>1. Len(r) \in Nat
      BY LenProperties DEF Outdoes
    <2>2. IsFiniteSet(BaselineCells(r))
      <3>1. IsFiniteSet(1..Len(r))
        BY <2>1, FS_Interval
      <3>2. BaselineCells(r) \in SUBSET (1..Len(r))
        BY BaselineIsCells DEF Outdoes
      <3>. QED
        BY <3>1, <3>2, FS_Subset
    <2>3. IsFiniteSet(Gate.golden \X BaselineCells(r))
      BY <2>2, FS_Product, GateAssumption
    <2>4. GoldenRegressions(r, candidate) \in SUBSET (Gate.golden \X BaselineCells(r))
      BY DEF GoldenRegressions
    <2>. QED
      BY <2>3, <2>4, FS_Subset
  <1>6. /\ Cardinality(GoldenRegressions(s, candidate)) <= Cardinality(GoldenRegressions(r, candidate))
        /\ Cardinality(GoldenRegressions(s, candidate)) \in Nat
        /\ Cardinality(GoldenRegressions(r, candidate)) \in Nat
    <2>1. GoldenRegressions(s, candidate) \in SUBSET GoldenRegressions(r, candidate)
      BY <1>4
    <2>. QED
      BY <1>5, <2>1, FS_Subset, FS_CardinalityType
  <1>7. Cardinality(GoldenRegressions(s, candidate)) <= Gate.max_golden
    <2>1. Cardinality(GoldenRegressions(r, candidate)) <= Gate.max_golden /\ Gate.max_golden \in Int
      BY GateAssumption DEF GoldenQueries
    <2>. QED
      BY <1>6, <2>1
  <1>8. ASSUME NEW query \in Gate.golden
        PROVE  /\ Asked(s, query) # {}
               /\ \A i \in Asked(s, query) : GoldenHit(Counterpart(s, i, candidate), query) # None
    <2>1. Asked(s, query) = Asked(r, query) /\ Asked(r, query) # {}
      BY <1>2 DEF GoldenQueries
    <2>. QED
      BY <1>3, <2>1, GateAssumption
  <1>. QED
    BY <1>7, <1>8 DEF GoldenQueries

\* A report that outdoes one that passes for every candidate passes too.
LEMMA OutdoingPasses ==
  ASSUME NEW s, NEW r, \A candidate \in Gate.candidates : Outdoes(s, r, candidate), Evaluate(r)
  PROVE  Evaluate(s)
  <1> SUFFICES ASSUME NEW candidate \in Gate.candidates
               PROVE  /\ RequiredPublicCells(s, candidate)
                      /\ PublicKorean(s, candidate)
                      /\ PublicEnglish(s, candidate)
                      /\ Latency(s, candidate)
                      /\ RequiredSlices(s, candidate)
                      /\ SnowikiKorean(s, candidate)
                      /\ SliceRegressions(s, candidate)
                      /\ GoldenQueries(s, candidate)
    BY DEF Evaluate
  <1>1. Outdoes(s, r, candidate)
    OBVIOUS
  <1>2. RequiredPublicCells(s, candidate)
    BY <1>1, PublicCellsStay DEF Evaluate
  <1>3. PublicKorean(s, candidate)
    BY <1>1, KoreanStays DEF Evaluate
  <1>4. PublicEnglish(s, candidate)
    BY <1>1, EnglishStays DEF Evaluate
  <1>5. Latency(s, candidate)
    BY <1>1, LatencyStays DEF Evaluate
  <1>6. RequiredSlices(s, candidate)
    BY <1>1, RequiredSlicesStay DEF Evaluate
  <1>7. SnowikiKorean(s, candidate)
    BY <1>1, SnowikiStays DEF Evaluate
  <1>8. SliceRegressions(s, candidate)
    BY <1>1, RegressionsStay DEF Evaluate
  <1>9. GoldenQueries(s, candidate)
    BY <1>1, GoldenStays DEF Evaluate
  <1>. QED
    BY <1>2, <1>3, <1>4, <1>5, <1>6, <1>7, <1>8, <1>9

-----------------------------------------------------------------------------
(* The three properties.                                                   *)

LEMMA BaselineFound ==
  ASSUME NEW r \in Seq(AllCells), NEW s \in Seq(AllCells),
         BaselineCells(s) = BaselineCells(r), \A i \in BaselineCells(r) : s[i] = r[i]
  PROVE  SameBaseline(s, r)
  <1>1. ASSUME NEW d, NEW l
        PROVE  FindCell(s, d, l, Gate.baseline) = FindCell(r, d, l, Gate.baseline)
    <2>1. \A q : Places(q, d, l, Gate.baseline)
                   = {i \in BaselineCells(q) : q[i].dataset = d /\ q[i].level = l}
      BY DEF Places, BaselineCells, AtPlace
    <2>2. /\ Places(s, d, l, Gate.baseline) = Places(r, d, l, Gate.baseline)
          /\ \A i \in Places(r, d, l, Gate.baseline) : s[i] = r[i]
      BY <2>1
    <2>. QED
      BY <2>2, SameFound
  <1>. QED
    BY <1>1 DEF SameBaseline

LEMMA ImprovedOutdoes ==
  ASSUME NEW r \in Seq(AllCells), NEW s \in Seq(AllCells), DOMAIN s = DOMAIN r,
         \A i \in DOMAIN r : s[i] = r[i] \/ (Candidate(r[i]) /\ Better(s[i], r[i])),
         NEW candidate \in Gate.candidates
  PROVE  Outdoes(s, r, candidate)
  <1>1. Evidence(s) = Evidence(r)
    BY DEF Evidence, Better
  <1>2. /\ \A i \in Evidence(r) : s[i].target = r[i].target
        /\ \A i \in Evidence(r) : r[i].target = Gate.baseline => s[i] = r[i]
    BY GateAssumption DEF Evidence, Better, SamePlace, AtPlace, Candidate
  <1>3. BaselineCells(s) = BaselineCells(r) /\ \A i \in BaselineCells(r) : s[i] = r[i]
    BY <1>1, <1>2 DEF BaselineCells
  <1>4. ASSUME NEW d, NEW l, FindCell(r, d, l, candidate) # None
        PROVE  NoWorse(FindCell(s, d, l, candidate), FindCell(r, d, l, candidate))
    <2> DEFINE P == Places(r, d, l, candidate)
    <2>1. Places(s, d, l, candidate) = P
      BY <1>1 DEF Places, Evidence, Better, SamePlace, AtPlace
    <2>2. P # {} /\ P \subseteq DOMAIN r
      BY <1>4, FoundCell DEF Places, Evidence
    <2> HIDE DEF P
    <2>3. PICK i \in P : FindCell(r, d, l, candidate) = r[i] /\ \A j \in P : i <= j
      BY <2>2, FirstPlace DEF P
    <2>4. PICK k \in P : FindCell(s, d, l, candidate) = s[k] /\ \A j \in P : k <= j
      BY <2>1, <2>2, FirstPlace
    <2>5. DOMAIN r = 1..Len(r) /\ DOMAIN s = 1..Len(s) /\ Len(r) \in Nat
      BY LenProperties
    <2>6. i = k
      BY <2>2, <2>3, <2>4, <2>5
    <2>7. s[i] \in AllCells /\ r[i] \in AllCells
      BY <2>2, <2>5, ElementOfSeq
    <2>. QED
      BY <2>2, <2>3, <2>4, <2>6, <2>7 DEF NoWorse
  <1>. QED
    BY <1>3, <1>4, BaselineFound DEF Outdoes

\* ImprovingNeverFails, for every contract and every set of cells.
THEOREM BetterStaysPassed == GateSpec => ImprovingNeverFails
  <1>1. VerdictInv /\ VerdictInv' =>
          ((/\ DOMAIN cells' = DOMAIN cells
            /\ \A i \in DOMAIN cells :
                 cells'[i] = cells[i] \/ (Candidate(cells[i]) /\ Better(cells'[i], cells[i])))
           => (passes => passes'))
    <2> SUFFICES ASSUME VerdictInv, VerdictInv', DOMAIN cells' = DOMAIN cells,
                        \A i \in DOMAIN cells :
                          cells'[i] = cells[i] \/ (Candidate(cells[i]) /\ Better(cells'[i], cells[i])),
                        passes
                 PROVE  passes'
      OBVIOUS
    <2>1. /\ cells \in Seq(AllCells) /\ cells' \in Seq(AllCells)
          /\ Evaluate(cells) /\ passes' = Evaluate(cells')
      BY DEF VerdictInv, Evaluate
    <2>2. \A candidate \in Gate.candidates : Outdoes(cells', cells, candidate)
      BY <2>1, ImprovedOutdoes
    <2>. QED
      BY <2>1, <2>2, OutdoingPasses
  <1>. QED
    BY <1>1, VerdictIsCurrent, PTL DEF ImprovingNeverFails

LEMMA LostIsOutdone ==
  ASSUME NEW r \in Seq(AllCells), NEW s \in Seq(AllCells), DOMAIN s = DOMAIN r,
         \A i \in DOMAIN r :
           \/ s[i] = r[i]
           \/ /\ Candidate(r[i]) /\ s[i].status = "failed"
              /\ ~Measured(s, r[i]),
         NEW candidate \in Gate.candidates
  PROVE  Outdoes(r, s, candidate)
  <1>1. \A i \in Evidence(s) : i \in Evidence(r) /\ s[i] = r[i]
    BY DEF Evidence
  <1>2. BaselineCells(r) = BaselineCells(s) /\ \A i \in BaselineCells(s) : r[i] = s[i]
    BY <1>1, GateAssumption DEF BaselineCells, Evidence, Candidate
  <1>3. ASSUME NEW d, NEW l, FindCell(s, d, l, candidate) # None
        PROVE  NoWorse(FindCell(r, d, l, candidate), FindCell(s, d, l, candidate))
    <2> DEFINE P == Places(s, d, l, candidate)
               Q == Places(r, d, l, candidate)
    <2>1. P # {} /\ P \subseteq Q /\ \A i \in P : s[i] = r[i]
      BY <1>1, <1>3, FoundCell DEF Places
    \* What was lost has no other cell in its place.
    <2>2. Q \subseteq P
      <3> SUFFICES ASSUME NEW j \in Q, j \notin P
                   PROVE  FALSE
        OBVIOUS
      <3>1. PICK i \in P : TRUE
        BY <2>1
      <3>2. /\ i \in DOMAIN s /\ s[i].status = "success" /\ AtPlace(s[i], d, l, candidate)
            /\ j \in DOMAIN r /\ AtPlace(r[j], d, l, candidate)
        BY <3>1 DEF Places, Evidence
      <3>3. ~Measured(s, r[j])
        BY <3>2 DEF Places, Evidence
      <3>. QED
        BY <3>2, <3>3 DEF Measured, SamePlace, AtPlace
    <2>3. FindCell(r, d, l, candidate) = FindCell(s, d, l, candidate)
      <3>1. /\ Places(r, d, l, candidate) = Places(s, d, l, candidate)
            /\ \A i \in Places(s, d, l, candidate) : r[i] = s[i]
        BY <2>1, <2>2
      <3>. QED
        BY <3>1, SameFound
    <2>. QED
      BY <1>3, <2>3, FoundCell DEF NoWorse
  <1>. QED
    BY <1>2, <1>3, BaselineFound DEF Outdoes

\* FailingNeverPasses, for every contract and every set of cells.
THEOREM LosingStaysRefused == GateSpec => FailingNeverPasses
  <1>1. VerdictInv /\ VerdictInv' =>
          ((/\ DOMAIN cells' = DOMAIN cells
            /\ \A i \in DOMAIN cells :
                 \/ cells'[i] = cells[i]
                 \/ /\ Candidate(cells[i]) /\ cells'[i].status = "failed"
                    /\ ~Measured(cells', cells[i]))
           => (passes' => passes))
    <2> SUFFICES ASSUME VerdictInv, VerdictInv', DOMAIN cells' = DOMAIN cells,
                        \A i \in DOMAIN cells :
                          \/ cells'[i] = cells[i]
                          \/ /\ Candidate(cells[i]) /\ cells'[i].status = "failed"
                             /\ ~Measured(cells', cells[i]),
                        passes'
                 PROVE  passes
      OBVIOUS
    <2>1. /\ cells \in Seq(AllCells) /\ cells' \in Seq(AllCells)
          /\ passes = Evaluate(cells) /\ Evaluate(cells')
      BY DEF VerdictInv, Evaluate
    <2>2. \A candidate \in Gate.candidates : Outdoes(cells, cells', candidate)
      BY <2>1, LostIsOutdone
    <2>. QED
      BY <2>1, <2>2, OutdoingPasses
  <1>. QED
    BY <1>1, VerdictIsCurrent, PTL DEF FailingNeverPasses

LEMMA RerunOutdoesNothing ==
  ASSUME NEW r \in Seq(AllCells), NEW report \in Seq(AllCells),
         \A k \in DOMAIN report : Candidate(report[k]) /\ Measured(r, report[k]),
         NEW candidate \in Gate.candidates
  PROVE  Outdoes(r \o report, r, candidate) /\ Outdoes(r, r \o report, candidate)
  <1> DEFINE s == r \o report
  <1>1. /\ Len(r) \in Nat /\ Len(report) \in Nat
        /\ s \in Seq(AllCells) /\ Len(s) = Len(r) + Len(report)
        /\ DOMAIN r = 1..Len(r) /\ DOMAIN report = 1..Len(report) /\ DOMAIN s = 1..Len(s)
    BY ConcatProperties, LenProperties
  <1>2. \A i \in DOMAIN s :
          \/ i \in DOMAIN r /\ s[i] = r[i]
          \/ /\ i \notin DOMAIN r /\ i - Len(r) \in DOMAIN report
             /\ s[i] = report[i - Len(r)]
    BY <1>1, ConcatProperties
  <1>3. \A i \in DOMAIN r : i \in DOMAIN s /\ s[i] = r[i]
    BY <1>1, ConcatProperties
  <1> HIDE DEF s
  <1>4. BaselineCells(s) = BaselineCells(r) /\ \A i \in BaselineCells(r) : s[i] = r[i]
    BY <1>2, <1>3, GateAssumption DEF BaselineCells, Evidence, Candidate
  <1>5. ASSUME NEW d, NEW l
        PROVE  FindCell(s, d, l, candidate) = FindCell(r, d, l, candidate)
    <2> DEFINE P == Places(r, d, l, candidate)
               Q == Places(s, d, l, candidate)
    <2>1. P = Q \cap DOMAIN r
      BY <1>3 DEF Places, Evidence
    <2>2. ASSUME NEW j \in Q, j \notin DOMAIN r
          PROVE  P # {}
      <3>1. /\ j - Len(r) \in DOMAIN report /\ s[j] = report[j - Len(r)]
            /\ AtPlace(s[j], d, l, candidate)
        BY <1>2, <2>2 DEF Places, Evidence
      <3>2. PICK i \in DOMAIN r : r[i].status = "success" /\ SamePlace(r[i], s[j])
        BY <3>1 DEF Measured
      <3>3. i \in P
        BY <3>1, <3>2 DEF Places, Evidence, SamePlace, AtPlace
      <3>. QED
        BY <3>3
    <2>3. Q \subseteq DOMAIN s
      BY DEF Places, Evidence
    <2>4. CASE P = {}
      <3>1. Q = {}
        BY <2>1, <2>2, <2>4
      <3>. QED
        BY <2>4, <3>1 DEF FindCell
    <2>5. CASE P # {}
      <3>1. PICK i \in P : FindCell(r, d, l, candidate) = r[i] /\ \A j \in P : i <= j
        BY <2>5, FirstPlace
      <3>2. PICK k \in Q : FindCell(s, d, l, candidate) = s[k] /\ \A j \in Q : k <= j
        BY <1>1, <2>1, <2>5, FirstPlace
      <3> HIDE DEF P, Q
      <3>3. i \in Q /\ i \in 1..Len(r) /\ k <= i /\ k \in 1..Len(s)
        BY <1>1, <2>1, <2>3, <3>1, <3>2
      <3>4. k \in 1..Len(r)
        BY <1>1, <3>3
      <3>5. k \in P /\ i <= k
        BY <1>1, <2>1, <3>1, <3>4
      <3>6. i = k
        BY <1>1, <3>3, <3>5
      <3>. QED
        BY <1>1, <1>3, <3>1, <3>2, <3>4, <3>6
    <2>. QED
      BY <2>4, <2>5
  <1>6. \A d, l : FindCell(r, d, l, candidate) # None =>
          NoWorse(FindCell(r, d, l, candidate), FindCell(r, d, l, candidate))
    BY FoundCell DEF NoWorse
  <1>7. SameBaseline(s, r) /\ SameBaseline(r, s)
    BY <1>1, <1>4, BaselineFound
  <1>8. Outdoes(s, r, candidate) /\ Outdoes(r, s, candidate)
    BY <1>1, <1>5, <1>6, <1>7 DEF Outdoes
  <1>. QED
    BY <1>8 DEF s

\* RerunsOfCandidatesAreIgnored, for every contract and every set of reports.
THEOREM RerunsChangeNothing == GateSpec => RerunsOfCandidatesAreIgnored
  <1>1. VerdictInv /\ VerdictInv' =>
          \A report \in Reruns :
            (/\ cells' = cells \o report
             /\ \A k \in DOMAIN report : Candidate(report[k]) /\ Measured(cells, report[k]))
            => passes' = passes
    <2> SUFFICES ASSUME VerdictInv, VerdictInv', NEW report \in Reruns,
                        cells' = cells \o report,
                        \A k \in DOMAIN report : Candidate(report[k]) /\ Measured(cells, report[k])
                 PROVE  passes' = passes
      OBVIOUS
    <2>1. cells \in Seq(AllCells) /\ passes = Evaluate(cells) /\ passes' = Evaluate(cells')
      BY DEF VerdictInv, Evaluate
    <2>2. report \in Seq(AllCells)
      <3>1. report \in Seq(Cells)
        BY GateAssumption
      <3>. QED
        BY <3>1, SeqMonotonic DEF AllCells
    <2>3. \A candidate \in Gate.candidates :
            Outdoes(cells', cells, candidate) /\ Outdoes(cells, cells', candidate)
      BY <2>1, <2>2, RerunOutdoesNothing
    <2>4. Evaluate(cells) => Evaluate(cells')
      BY <2>3, OutdoingPasses
    <2>5. Evaluate(cells') => Evaluate(cells)
      BY <2>3, OutdoingPasses
    <2>6. Evaluate(cells) \in BOOLEAN /\ Evaluate(cells') \in BOOLEAN
      BY DEF Evaluate
    <2>. QED
      BY <2>1, <2>4, <2>5, <2>6
  <1>. QED
    BY <1>1, VerdictIsCurrent, PTL DEF RerunsOfCandidatesAreIgnored
=============================================================================
