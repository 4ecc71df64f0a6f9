--------------------------- MODULE MCPromotionGate ---------------------------
(* One candidate, a Korean, an English and the project's own dataset.       *)
EXTENDS PromotionGate, TLC

MCGate ==
  [baseline |-> "regex", candidates |-> {"kiwi"},
   datasets |-> {"ko", "en"}, levels |-> <<"quick", "standard">>,
   slices |-> {"group:ko", "kind:temporal"}, golden |-> {"q"}, max_golden |-> 0,
   public_korean |-> [dataset |-> "ko", slice |-> "all", least |-> "ndcg" :> 3],
   public_english |-> [datasets |-> {"en"}, metrics |-> {"ndcg"}, absolute |-> 2, relative |-> 10],
   snowiki_korean |-> [slice |-> "group:ko", least |-> "mrr" :> 3],
   regressions |-> {[slices |-> {"kind:temporal"}, metrics |-> {"mrr"}, absolute |-> 0, relative |-> 100]},
   latency |-> 150]

Cell(dataset, level, target, latency, metrics, slices, queries) ==
  [target |-> target, dataset |-> dataset, level |-> level, status |-> "success",
   latency |-> latency, metrics |-> metrics, slices |-> slices, per_query |-> queries]

Public(dataset, level, target, latency, ndcg) ==
  Cell(dataset, level, target, latency, IF ndcg = None THEN <<>> ELSE "ndcg" :> ndcg, <<>>, <<>>)

Sliced(level, target, slices, queries) ==
  Cell("snowiki", level, target, 10, <<>>, slices, queries)

Ko(mrr) == "group:ko" :> ("mrr" :> mrr)
Temporal(mrr) == "kind:temporal" :> ("mrr" :> mrr)

BaselinePublic(ndcg) ==
  <<Public("ko", "quick", "regex", 10, ndcg), Public("ko", "standard", "regex", 10, 50),
    Public("en", "quick", "regex", 10, 60), Public("en", "standard", "regex", 10, 60)>>

BaselineSliced == {Sliced("regression", "regex", Ko(50) @@ Temporal(40), "q" :> 100),
                   Sliced("regression", "regex", Ko(0) @@ Temporal(40), "q" :> 0)}

BaselineFull == Sliced("full", "regex", Ko(50) @@ Temporal(40), <<>>)

Baselines ==
  {BaselinePublic(50) \o <<Sliced("regression", "regex", Ko(50) @@ Temporal(40), "q" :> 100), BaselineFull>>,
   BaselinePublic(0) \o <<Sliced("regression", "regex", Ko(0) @@ Temporal(40), "q" :> 0), BaselineFull>>}

KoQuick == {Public("ko", "quick", "kiwi", 10, n) : n \in {None, 50, 60}}
KoStandard == {Public("ko", "standard", "kiwi", 10, n) : n \in {51, 52}}
EnQuick == {Public("en", "quick", "kiwi", 15, 58), Public("en", "quick", "kiwi", 16, 57)}
EnStandard == {Public("en", "standard", "kiwi", 10, 57)}
KiwiFull == {Sliced("full", "kiwi", Ko(60) @@ Temporal(n), <<>>) : n \in {39, 40}}
KiwiSliced == {Sliced("regression", "kiwi", Ko(50) @@ Temporal(39), "q" :> 100),
               Sliced("regression", "kiwi", Ko(60) @@ Temporal(40), "q" :> 100),
               Sliced("regression", "kiwi", Ko(60) @@ Temporal(41), "q" :> 100),
               Sliced("regression", "kiwi", Ko(60) @@ Temporal(41), "q" :> 0),
               Sliced("regression", "kiwi", Ko(60), "q" :> 100),
               Sliced("regression", "kiwi", Ko(60) @@ Temporal(40), <<>>)}

MCReports ==
  {baseline \o <<k1, k2, e1, e2, t, u>> :
     baseline \in Baselines, k1 \in KoQuick, k2 \in KoStandard, e1 \in EnQuick,
     e2 \in EnStandard, t \in KiwiSliced,
     u \in KiwiFull}

MCReruns == {<<c>> : c \in BaselineSliced \cup KiwiSliced}

MCCells ==
  UNION {{BaselinePublic(b)[k] : k \in 1..4} : b \in {0, 50}} \cup BaselineSliced \cup KoQuick
    \cup KoStandard \cup EnQuick \cup EnStandard \cup KiwiSliced \cup KiwiFull
    \cup {BaselineFull}
=============================================================================
