---------------------------- MODULE PromotionGate ----------------------------
(***************************************************************************)
(* The analyzer promotion gate (benchmark_gates): from the cells of one or *)
(* more benchmark reports it decides whether every candidate tokenizer may *)
(* replace the baseline.                                                   *)
(*                                                                         *)
(* A cell holds what one target scored on a dataset at a level: metrics of *)
(* the whole cell, metrics per slice, top-5 hits per query and a latency,  *)
(* each a partial function, as any of them may be absent.  Scores and      *)
(* shares are whole numbers of hundredths.                                 *)
(***************************************************************************)
EXTENDS Integers, Sequences, FiniteSetsExt

CONSTANTS
  Gate,     \* the contract, see GateAssumption
  None,     \* no such cell, no such value
  Cells,    \* cells a benchmark run can report
  Reports,  \* reports given first: sequences of cells
  Reruns,   \* reports that may be given after them
  MaxChanges \* bound: reports added and cells measured anew

\* What is reported of a cell: any of its values may be absent, the others are numbers.
Numbers(f) == f \in [DOMAIN f -> Nat]

CellKeys == {"target", "dataset", "level", "status", "latency", "metrics", "slices", "per_query"}

WellFormed(cell) ==
  /\ cell = [key \in CellKeys |-> cell[key]]
  /\ Numbers(cell.metrics) /\ Numbers(cell.per_query)
  /\ \A slice \in DOMAIN cell.slices : Numbers(cell.slices[slice])
  /\ cell.latency \in Nat \cup {None}

FailedCell(cell) == [cell EXCEPT !.status = "failed"]

ASSUME GateAssumption ==
  /\ Gate.candidates # {} /\ Gate.baseline \notin Gate.candidates
  \* The contract requires the cells its public thresholds compare.
  /\ {Gate.public_korean.dataset} \cup Gate.public_english.datasets \subseteq Gate.datasets
  /\ Gate.levels \in Seq({Gate.levels[k] : k \in DOMAIN Gate.levels}) /\ Gate.levels # <<>>
  /\ IsFiniteSet(Gate.golden)
  \* Thresholds are numbers.
  /\ \A rule \in {Gate.public_korean, Gate.snowiki_korean} :
       \A metric \in DOMAIN rule.least : rule.least[metric] \in Int
  /\ \A rule \in {Gate.public_english} \cup Gate.regressions : {rule.absolute, rule.relative} \subseteq Int
  /\ {Gate.latency, Gate.max_golden} \subseteq Int
  /\ Reports \cup Reruns \subseteq Seq(Cells)
  /\ \A cell \in Cells : WellFormed(cell) /\ None \notin {cell, FailedCell(cell)}
  /\ None \notin Nat
  /\ MaxChanges \in Nat

VARIABLES
  cells,   \* cells of the combined report
  passes,  \* the verdict on it
  changes  \* changes so far

gateVars == <<cells, passes, changes>>

-----------------------------------------------------------------------------
(* Looking up evidence.                                                    *)

AtPlace(cell, dataset, level, target) ==
  cell.dataset = dataset /\ cell.level = level /\ cell.target = target

\* _successful_cells: only these are evidence, in the order of the reports.
Evidence(reported) == {i \in DOMAIN reported : reported[i].status = "success"}

Places(reported, dataset, level, target) ==
  {i \in Evidence(reported) : AtPlace(reported[i], dataset, level, target)}

\* Mutant: the last report wins.
FindLastCell(reported, dataset, level, target) ==
  LET places == Places(reported, dataset, level, target)
  IN  IF places = {} THEN None ELSE reported[Max(places)]

\* _find_cell: of several cells at one place the first counts.
FindCell(reported, dataset, level, target) ==
  LET places == Places(reported, dataset, level, target)
  IN  IF places = {} THEN None ELSE reported[Min(places)]

ValueOf(map, key) == IF key \in DOMAIN map THEN map[key] ELSE None

\* A metric of a slice; that of the whole cell is looked for in the cell as well.
MetricValue(cell, metric, slice) ==
  LET inSlice == IF slice \in DOMAIN cell.slices THEN ValueOf(cell.slices[slice], metric) ELSE None
  IN  IF inSlice = None /\ slice = "all" THEN ValueOf(cell.metrics, metric) ELSE inSlice

BaselineCells(reported) == {i \in Evidence(reported) : reported[i].target = Gate.baseline}

Counterpart(reported, i, candidate) == FindCell(reported, reported[i].dataset, reported[i].level, candidate)

\* _slice_pairs goes through the baseline's cells, repeated ones included: those the
\* candidate has a slice for, and those it has none for.
SlicePairs(reported, candidate, slice) ==
  {<<reported[i], Counterpart(reported, i, candidate)>> :
     i \in {i \in BaselineCells(reported) :
              /\ slice \in DOMAIN reported[i].slices
              /\ Counterpart(reported, i, candidate) # None
              /\ slice \in DOMAIN Counterpart(reported, i, candidate).slices}}

\* Mutant: what the candidate has no slice for is not compared.
NothingMissing(reported, candidate, slice) == {}

MissingPairs(reported, candidate, slice) ==
  {i \in BaselineCells(reported) :
     /\ slice \in DOMAIN reported[i].slices
     /\ \/ Counterpart(reported, i, candidate) = None
        \/ slice \notin DOMAIN Counterpart(reported, i, candidate).slices}

-----------------------------------------------------------------------------
(* Comparing values.                                                       *)

Known(b, c) == b # None /\ c # None

\* _relative_delta: from nothing to anything is 100.
Improves(b, c, least) ==
  IF b = 0 THEN (IF c = 0 THEN 0 ELSE 100) >= least ELSE 100 * (c - b) >= least * b

\* Mutant: any difference is a regression.
AnyDifference(b, c, limit) ==
  LET lost == IF b > c THEN b - c ELSE c - b
  IN  lost <= limit.absolute /\ (b > 0 => 100 * lost <= limit.relative * b)

Holds(b, c, limit) ==
  LET lost == Max({0, b - c})
  IN  lost <= limit.absolute /\ (b > 0 => 100 * lost <= limit.relative * b)

\* _evaluate_slice_relative_improvement and _evaluate_slice_regression: every pair
\* of cells must have both values, and there must be one.
SliceValues(reported, candidate, slice, metric) ==
  {<<MetricValue(pair[1], metric, slice), MetricValue(pair[2], metric, slice)>> :
     pair \in SlicePairs(reported, candidate, slice)}

Compared(reported, candidate, slice, metric) ==
  /\ SliceValues(reported, candidate, slice, metric) # {}
  /\ MissingPairs(reported, candidate, slice) = {}
  /\ \A values \in SliceValues(reported, candidate, slice, metric) : Known(values[1], values[2])

-----------------------------------------------------------------------------
(* The checks, in the order of the code.                                   *)

Both(reported, dataset, level, candidate) ==
  \A target \in {Gate.baseline, candidate} : FindCell(reported, dataset, level, target) # None

LevelSet == {Gate.levels[k] : k \in DOMAIN Gate.levels}

RequiredPublicCells(reported, candidate) ==
  \A dataset \in Gate.datasets, level \in LevelSet : Both(reported, dataset, level, candidate)

ValueAt(reported, k, dataset, target, metric, slice) ==
  MetricValue(FindCell(reported, dataset, Gate.levels[k], target), metric, slice)

\* Only the first level at which both have the value is compared.
PublicKorean(reported, candidate) ==
  LET rule == Gate.public_korean
      Value(k, target, metric) == ValueAt(reported, k, rule.dataset, target, metric, rule.slice)
  IN  \A metric \in DOMAIN rule.least :
        LET comparable == {k \in DOMAIN Gate.levels :
                             /\ Both(reported, rule.dataset, Gate.levels[k], candidate)
                             /\ Known(Value(k, Gate.baseline, metric), Value(k, candidate, metric))}
            k == Min(comparable)
        IN  /\ comparable # {}
            /\ Improves(Value(k, Gate.baseline, metric), Value(k, candidate, metric), rule.least[metric])

\* Only the first level at which both have a cell is compared, with its values or not.
PublicEnglish(reported, candidate) ==
  LET rule == Gate.public_english
  IN  \A dataset \in rule.datasets, metric \in rule.metrics :
        LET comparable == {k \in DOMAIN Gate.levels : Both(reported, dataset, Gate.levels[k], candidate)}
            k == Min(comparable)
            b == ValueAt(reported, k, dataset, Gate.baseline, metric, "all")
            c == ValueAt(reported, k, dataset, candidate, metric, "all")
        IN  comparable # {} /\ Known(b, c) /\ Holds(b, c, rule)

Latency(reported, candidate) ==
  \A dataset \in Gate.datasets, level \in LevelSet :
    /\ Both(reported, dataset, level, candidate)
    /\ LET b == FindCell(reported, dataset, level, Gate.baseline).latency
           c == FindCell(reported, dataset, level, candidate).latency
       IN  Known(b, c) /\ b > 0 /\ 100 * c <= Gate.latency * b

RequiredSlices(reported, candidate) ==
  \A slice \in Gate.slices :
    /\ SlicePairs(reported, candidate, slice) # {}
    /\ MissingPairs(reported, candidate, slice) = {}

SnowikiKorean(reported, candidate) ==
  LET rule == Gate.snowiki_korean
  IN  \A metric \in DOMAIN rule.least :
        /\ Compared(reported, candidate, rule.slice, metric)
        /\ \A values \in SliceValues(reported, candidate, rule.slice, metric) :
             Improves(values[1], values[2], rule.least[metric])

SliceRegressions(reported, candidate) ==
  \A rule \in Gate.regressions : \A slice \in rule.slices, metric \in rule.metrics :
    /\ Compared(reported, candidate, slice, metric)
    /\ \A values \in SliceValues(reported, candidate, slice, metric) :
         Holds(values[1], values[2], rule)

GoldenHit(cell, query) == IF cell = None THEN None ELSE ValueOf(cell.per_query, query)

Asked(reported, query) == {i \in BaselineCells(reported) : GoldenHit(reported[i], query) # None}

GoldenRegressions(reported, candidate) ==
  {pair \in Gate.golden \X BaselineCells(reported) :
     /\ pair[2] \in Asked(reported, pair[1])
     /\ GoldenHit(Counterpart(reported, pair[2], candidate), pair[1])
          < GoldenHit(reported[pair[2]], pair[1])}

\* One cell without a required query is missing evidence, and counts before any loss.
GoldenQueries(reported, candidate) ==
  /\ \A query \in Gate.golden :
       /\ Asked(reported, query) # {}
       /\ \A i \in Asked(reported, query) : GoldenHit(Counterpart(reported, i, candidate), query) # None
  /\ Cardinality(GoldenRegressions(reported, candidate)) <= Gate.max_golden

\* evaluate_analyzer_promotion_gate: one failure of one candidate fails the gate.
Evaluate(reported) ==
  \A candidate \in Gate.candidates :
    /\ RequiredPublicCells(reported, candidate)
    /\ PublicKorean(reported, candidate)
    /\ PublicEnglish(reported, candidate)
    /\ Latency(reported, candidate)
    /\ RequiredSlices(reported, candidate)
    /\ SnowikiKorean(reported, candidate)
    /\ SliceRegressions(reported, candidate)
    /\ GoldenQueries(reported, candidate)

-----------------------------------------------------------------------------
(* The reports.                                                            *)

Report(reported) ==
  /\ changes < MaxChanges /\ changes' = changes + 1
  /\ cells' = reported
  /\ passes' = Evaluate(reported)

\* load_combined_benchmark_report: one report after the other.
AddReport(report) == Report(cells \o report)

\* The same cells measured otherwise: a candidate's cell improves, or any fails.
SamePlace(c, d) == AtPlace(c, d.dataset, d.level, d.target)

Above(f, g) == DOMAIN f = DOMAIN g /\ \A key \in DOMAIN g : f[key] >= g[key]

Better(d, c) ==
  /\ SamePlace(c, d) /\ c.status = "success" /\ d.status = "success"
  /\ Above(d.metrics, c.metrics) /\ Above(d.per_query, c.per_query)
  /\ DOMAIN d.slices = DOMAIN c.slices
  /\ \A slice \in DOMAIN c.slices : Above(d.slices[slice], c.slices[slice])
  /\ d.latency = c.latency \/ (Known(d.latency, c.latency) /\ d.latency < c.latency)

Candidate(cell) == cell.target \in Gate.candidates

Improve(i, cell) ==
  /\ Candidate(cell) /\ cell # cells[i] /\ Better(cell, cells[i])
  /\ Report([cells EXCEPT ![i] = cell])

CellFails(i) ==
  /\ cells[i].status = "success"
  /\ Report([cells EXCEPT ![i] = FailedCell(@)])

GateInit == cells \in Reports /\ passes = Evaluate(cells) /\ changes = 0

GateNext ==
  \/ \E report \in Reruns : AddReport(report)
  \/ \E i \in DOMAIN cells : CellFails(i) \/ \E cell \in Cells : Improve(i, cell)

GateSpec == GateInit /\ [][GateNext]_gateVars

-----------------------------------------------------------------------------
Measured(reported, cell) ==
  \E i \in DOMAIN reported : reported[i].status = "success" /\ SamePlace(reported[i], cell)

\* A candidate is never refused for getting better: higher scores, more hits or a
\* shorter latency leave a passed gate passed, across all of its thresholds.
ImprovingNeverFails ==
  [][(/\ DOMAIN cells' = DOMAIN cells
      /\ \A i \in DOMAIN cells :
           cells'[i] = cells[i] \/ (Candidate(cells[i]) /\ Better(cells'[i], cells[i])))
     => (passes => passes')]_gateVars

\* A candidate never passes by failing to be measured: losing a cell that no other
\* cell stands in for leaves a refused gate refused.  (The same is not true of the
\* baseline's cells, nor of a single metric of the Korean check.)
FailingNeverPasses ==
  [][(/\ DOMAIN cells' = DOMAIN cells
      /\ \A i \in DOMAIN cells :
           \/ cells'[i] = cells[i]
           \/ /\ Candidate(cells[i]) /\ cells'[i].status = "failed"
              /\ ~Measured(cells', cells[i]))
     => (passes' => passes)]_gateVars

\* A report given after others cannot talk a refused candidate through with cells
\* measured again: the verdict is that on the first measurement of each cell.
RerunsOfCandidatesAreIgnored ==
  [][\A report \in Reruns :
       (/\ cells' = cells \o report
        /\ \A k \in DOMAIN report : Candidate(report[k]) /\ Measured(cells, report[k]))
       => passes' = passes]_gateVars
=============================================================================
