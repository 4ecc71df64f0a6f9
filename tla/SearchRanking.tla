---------------------------- MODULE SearchRanking ----------------------------
(***************************************************************************)
(* From a query to hits: candidates of the BM25 index, scoring, blending,  *)
(* and the routing of recall (search.engine, scoring, rerank, contract and *)
(* queries).                                                               *)
(*                                                                         *)
(* A document is [id, path, kind, terms, recorded_at] with its searched    *)
(* terms.  A query is [text, terms, when, date]: its terms, the phrases    *)
(* for days and weeks in it and the date it is.  Scores are in tenths, weights in      *)
(* hundredths, times in seconds since the first that can be represented.   *)
(***************************************************************************)
EXTENDS Integers, Sequences, FiniteSetsExt

CONSTANTS
  Relevance(_, _, _), \* what bm25s scores: query, indexed documents, document
  PathHas(_, _),      \* a path contains a term or the text of a query
  PathBefore(_, _),   \* order of paths and of ids
  Day,                \* length of a day, in seconds
  Monday,             \* weekday of day 0, counted from Monday
  Recency,            \* a score's tenth and hundredth outweigh any age
  None                \* no time, no limit

ASSUME RankingAssumption == Day \in Nat \ {0} /\ Monday \in 0..6 /\ Recency \in Nat

Policies ==
  [known_item |-> [multiplier |-> 3, path_bias |-> TRUE, weight |-> [session |-> 115, page |-> 85]],
   topic |-> [multiplier |-> 4, path_bias |-> FALSE, weight |-> [session |-> 100, page |-> 100]],
   temporal |-> [multiplier |-> 3, path_bias |-> FALSE, weight |-> [session |-> 100, page |-> 100]],
   date |-> [multiplier |-> 3, path_bias |-> FALSE, weight |-> [session |-> 100, page |-> 100]]]

CandidateLimit(policy, limit) ==
  IF limit <= 0 THEN 0 ELSE Max({limit, limit * Policies[policy].multiplier})

-----------------------------------------------------------------------------
(* Orders.                                                                 *)

\* The elements of a set, as the pairs of before order them.
Listed(S, before) ==
  [k \in 1..Cardinality(S) |->
     CHOOSE i \in S : Cardinality({j \in S : <<j, i>> \in before}) = k - 1]

\* The values of a function, as the pairs of before order its domain.
Arranged(f, before) ==
  LET places == Listed(DOMAIN f, before)
  IN  [k \in DOMAIN places |-> f[places[k]]]

FirstOf(hits, limit) == SubSeq(hits, 1, Min({limit, Len(hits)}))

-----------------------------------------------------------------------------
(* Windows of time.  Both ends belong to a window.                         *)

Always == [after |-> None, before |-> None]

InWindow(document, window) ==
  /\ window.after # None => document.recorded_at # None /\ document.recorded_at >= window.after
  /\ window.before # None => document.recorded_at # None /\ document.recorded_at <= window.before

DayStart(time) == time - (time % Day)

\* iso_date_window.
DateWindow(start) == [after |-> start, before |-> start + Day]

WeekStart(time) == DayStart(time) - Day * (((time \div Day) + Monday) % 7)

\* Mutant: yesterday ends now.
UntilNow(when, now) ==
  IF "yesterday" \in when THEN [after |-> DayStart(now) - Day, before |-> now]
  ELSE IF when \cap {"today", "recent"} # {} THEN [after |-> DayStart(now), before |-> now + 1]
  ELSE Always

\* _detect_temporal_window: of several phrases the first in this order counts.
TemporalWindow(when, now) ==
  IF "yesterday" \in when THEN [after |-> DayStart(now) - Day, before |-> DayStart(now)]
  ELSE IF when \cap {"today", "recent"} # {} THEN [after |-> DayStart(now), before |-> now + 1]
  ELSE IF "last week" \in when THEN [after |-> DayStart(now) - 7 * Day, before |-> now + 1]
  ELSE IF "this week" \in when THEN [after |-> WeekStart(now), before |-> now + 1]
  ELSE Always

\* "recent" has a window, but does not make a query temporal.
IsTemporal(query) == query.when \cap {"yesterday", "today", "last week", "this week"} # {}

-----------------------------------------------------------------------------
(* BM25RuntimeIndex.search.                                                *)

\* Documents outside the window are left out of the index itself; the others keep their
\* places.
Eligible(corpus, window) ==
  LET places == {i \in DOMAIN corpus : InWindow(corpus[i], window)}
  IN  [i \in places |-> corpus[i]]

\* The index gives the places of as many documents as asked for, the most relevant ones,
\* those without a common term too; which of equals it leaves out is open.
Candidates(query, indexed, limit) ==
  IF query.terms = {} THEN {}
  ELSE CHOOSE found \in SUBSET DOMAIN indexed :
         /\ Cardinality(found) = Min({limit, Cardinality(DOMAIN indexed)})
         /\ \A i \in found, j \in DOMAIN indexed \ found :
              Relevance(query, indexed, indexed[i]) >= Relevance(query, indexed, indexed[j])

\* tokens_for_document: of documents that share an id the first is looked up.
TermsOf(indexed, id) == indexed[Min({i \in DOMAIN indexed : indexed[i].id = id})].terms

\* score_candidate: no hit without a score, a term or the query in its path.
Accepted(query, indexed, document) ==
  \/ Relevance(query, indexed, document) > 0
  \/ query.terms \cap TermsOf(indexed, document.id) # {}
  \/ PathHas(document.path, query.text)

Score(query, indexed, policy, document) ==
  LET bias == IF Policies[policy].path_bias 
                 /\ \E term \in query.terms : PathHas(document.path, term) THEN 20 ELSE 0
      phrase == IF PathHas(document.path, query.text) THEN 25 ELSE 0
      age == IF document.recorded_at = None THEN 0 ELSE document.recorded_at
  IN  Recency * Policies[policy].weight[document.kind]
        * (Relevance(query, indexed, document) + bias + phrase) + age

Newer(a, b) == a # None /\ (b = None \/ a > b)

\* sort_key: by score, the newest first, those without a time last, then by path,
\* then by id.  Of equals the one given first comes first.
Precedes(query, indexed, policy, i, j) ==
  LET d == indexed[i]
      e == indexed[j]
      s == Score(query, indexed, policy, d)
      t == Score(query, indexed, policy, e)
  IN  \/ s > t
      \/ s = t /\ Newer(d.recorded_at, e.recorded_at)
      \/ s = t /\ d.recorded_at = e.recorded_at /\ PathBefore(d.path, e.path)
      \/ s = t /\ d.recorded_at = e.recorded_at /\ d.path = e.path /\ PathBefore(d.id, e.id)
      \/ s = t /\ d.recorded_at = e.recorded_at /\ d.path = e.path /\ d.id = e.id /\ i < j

Hits(corpus, query, policy, limit, window) ==
  LET indexed == Eligible(corpus, window)
  IN  {i \in Candidates(query, indexed, CandidateLimit(policy, limit)) : Accepted(query, indexed, indexed[i])}

Search(corpus, query, policy, limit, window) ==
  LET indexed == Eligible(corpus, window)
      hits == Hits(corpus, query, policy, limit, window)
  IN  Arranged([i \in hits |-> corpus[i]],
               {pair \in hits \X hits : Precedes(query, indexed, policy, pair[1], pair[2])})

-----------------------------------------------------------------------------
(* The kinds of search.                                                    *)

\* Mutant: one kind after the other.
KindByKind(hits, limit) ==
  LET Earlier(j, k) == IF hits[j].kind = hits[k].kind THEN j < k ELSE hits[j].kind = "page"
  IN  FirstOf(Arranged(hits, {pair \in (DOMAIN hits) \X (DOMAIN hits) : Earlier(pair[1], pair[2])}), limit)

\* A hit's round: how many of its kind there are, up to it.
Round(hits, k) == Cardinality({j \in 1..k : hits[j].kind = hits[k].kind})

TakenBefore(hits, j, k) ==
  \/ Round(hits, j) < Round(hits, k)
  \/ Round(hits, j) = Round(hits, k) /\ hits[j].kind = "page" /\ hits[k].kind = "session"

\* blend_hits_by_kind: the best of each kind, then the second of each, and so on.
BlendHitsByKind(hits, limit) ==
  FirstOf(Arranged(hits, {pair \in (DOMAIN hits) \X (DOMAIN hits) : TakenBefore(hits, pair[1], pair[2])}), limit)

TopicalSearch(corpus, query, limit) ==
  BlendHitsByKind(Search(corpus, query, "topic", limit, Always), limit)

KnownItemLookup(corpus, query, limit) ==
  FirstOf(Search(corpus, query, "known_item", limit, Always), limit)

TemporalRecall(corpus, query, limit, now) ==
  FirstOf(Search(corpus, query, "temporal", limit, TemporalWindow(query.when, now)), limit)

DateRecall(corpus, query, limit) ==
  FirstOf(Search(corpus, query, "date", limit, DateWindow(query.date)), limit)

\* run_authoritative_recall, for a date mode only with a date.
Strategy(corpus, query, limit, mode) ==
  CASE mode # "auto" -> mode
    [] mode = "auto" /\ query.date # None -> "date"
    [] mode = "auto" /\ query.date = None /\ IsTemporal(query) -> "temporal"
    [] mode = "auto" /\ query.date = None /\ ~IsTemporal(query) ->
         IF KnownItemLookup(corpus, query, limit) # <<>> THEN "known_item" ELSE "topic"

Recall(corpus, query, limit, strategy, now) ==
  CASE strategy = "date" -> DateRecall(corpus, query, limit)
    [] strategy = "temporal" -> TemporalRecall(corpus, query, limit, now)
    [] strategy = "known_item" -> KnownItemLookup(corpus, query, limit)
    [] strategy = "topic" -> TopicalSearch(corpus, query, limit)
=============================================================================
