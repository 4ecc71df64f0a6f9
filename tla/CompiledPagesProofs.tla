------------------------ MODULE CompiledPagesProofs ------------------------
(***************************************************************************)
(* What a rebuild leaves in compiled/, whatever the records, their titles  *)
(* and sessions: no orphan, no broken link the compiler made up, pages     *)
(* related both ways, and every record on all of its pages.                *)
(*                                                                         *)
(* The argument has three parts: which pages the generators make and that  *)
(* only summaries and pages of sessions share a path (GeneratedOnce); what *)
(* the loops of apply_backlinks have done when they stand at a page        *)
(* (LoopAt); and that the disk holds what they left (FromRecords).         *)
(***************************************************************************)
EXTENDS CompiledPages, FiniteSetTheorems, FunctionTheorems, SequenceTheorems,
        WellFoundedInduction, TLAPS

-----------------------------------------------------------------------------
(* Least and greatest numbers: the dates of a page.                        *)

LEMMA LeastExists ==
  ASSUME NEW S \in SUBSET Nat, S # {}
  PROVE  Min(S) \in S /\ \A x \in S : Min(S) <= x
  <1> DEFINE Below == {0..n : n \in S}
  <1>1. ASSUME NEW n \in S
        PROVE  0..n \in FiniteSubsetsOf(Nat)
    <2>1. IsFiniteSet(0..n) /\ 0..n \subseteq Nat
      BY FS_Interval
    <2>. QED
      BY <2>1 DEF FiniteSubsetsOf
  <1>2. PICK B \in Below : \A C \in Below : ~(<<C, B>> \in StrictSubsetOrdering(Nat))
    <2>1. Below \subseteq FiniteSubsetsOf(Nat) /\ Below # {}
      BY <1>1
    <2>. HIDE DEF Below
    <2>. QED
      BY <2>1, FS_StrictSubsetOrderingWellFounded, WFMin
  <1>3. PICK m \in S : B = 0..m
    BY <1>2
  <1>4. ASSUME NEW y \in S, y < m
        PROVE  FALSE
    <2>1. 0..y \subseteq 0..m /\ m \in 0..m /\ m \notin 0..y
      BY <1>4
    <2>2. 0..y # 0..m /\ 0..y \in SUBSET Nat /\ 0..m \in SUBSET Nat
      BY <2>1
    <2>3. <<0..y, 0..m>> \in StrictSubsetOrdering(Nat)
      BY <2>1, <2>2 DEF StrictSubsetOrdering
    <2>. QED
      BY <1>2, <1>3, <2>3
  <1>5. \A y \in S : m <= y
    BY <1>4
  <1>. QED
    BY <1>5 DEF Min

LEMMA GreatestExists ==
  ASSUME NEW S \in SUBSET Nat, S # {}, IsFiniteSet(S)
  PROVE  Max(S) \in S /\ \A x \in S : Max(S) >= x
  <1> DEFINE From(n) == {x \in S : x >= n}
             Above == {From(n) : n \in S}
  <1>1. ASSUME NEW n \in S
        PROVE  From(n) \in FiniteSubsetsOf(S)
    <2>1. From(n) \in SUBSET S
      OBVIOUS
    <2> HIDE DEF From
    <2>2. IsFiniteSet(From(n))
      BY <2>1, FS_Subset
    <2>. QED
      BY <2>1, <2>2 DEF FiniteSubsetsOf
  <1>2. PICK B \in Above : \A C \in Above : ~(<<C, B>> \in StrictSubsetOrdering(S))
    <2>1. Above \subseteq FiniteSubsetsOf(S) /\ Above # {}
      BY <1>1
    <2>. HIDE DEF Above
    <2>. QED
      BY <2>1, FS_StrictSubsetOrderingWellFounded, WFMin
  <1>3. PICK m \in S : B = From(m)
    BY <1>2
  <1>4. ASSUME NEW y \in S, y > m
        PROVE  FALSE
    <2>1. From(y) \subseteq From(m) /\ m \in From(m) /\ m \notin From(y)
      <3>1. y \in Nat /\ m \in Nat /\ \A x \in S : x \in Nat /\ (x >= y => x >= m)
        BY <1>4
      <3>2. m >= m /\ ~(m >= y)
        BY <1>4, <3>1
      <3>. QED
        BY <3>1, <3>2
    <2>2. From(y) # From(m) /\ From(y) \in SUBSET S /\ From(m) \in SUBSET S
      BY <2>1
    <2>3. <<From(y), From(m)>> \in StrictSubsetOrdering(S)
      BY <2>1, <2>2 DEF StrictSubsetOrdering
    <2>. QED
      BY <1>2, <1>3, <2>3
  <1>5. \A y \in S : y <= m
    BY <1>4
  <1>. QED
    BY <1>5 DEF Max

-----------------------------------------------------------------------------
(* Lists that name each member of a set once.                              *)

Listing(list, S) == list \in Seq(S) /\ ToSet(list) = S /\ IsInjective(list)

\* A function from 1..n is a sequence.
LEMMA SequenceOf ==
  ASSUME NEW n \in Nat, NEW S, NEW f \in [1..n -> S]
  PROVE  f \in Seq(S) /\ Len(f) = n /\ DOMAIN f = 1..n
  OBVIOUS

LEMMA SetToSeqLists ==
  ASSUME NEW S, IsFiniteSet(S)
  PROVE  Listing(SetToSeq(S), S)
  <1>1. Cardinality(S) \in Nat /\ ExistsBijection(1..Cardinality(S), S)
    BY FS_CardinalityType
  <1>2. PICK f : f \in Bijection(1..Cardinality(S), S)
    BY <1>1 DEF ExistsBijection
  <1>3. f \in [1..Cardinality(S) -> S] /\ IsInjective(f)
    <2>1. /\ f \in [1..Cardinality(S) -> S]
          /\ \A a, b \in 1..Cardinality(S) : f[a] = f[b] => a = b
      BY <1>2, Fun_BijectionProperties
    <2>. QED
      BY <2>1 DEF IsInjective
  <1> DEFINE g == SetToSeq(S)
  <1>4. g \in [1..Cardinality(S) -> S] /\ IsInjective(g)
    BY <1>3 DEF SetToSeq
  <1> HIDE DEF g
  <1>5. g \in Seq(S) /\ DOMAIN g = 1..Cardinality(S)
    BY <1>1, <1>4, SequenceOf
  <1>6. g \in Injection(1..Cardinality(S), S)
    BY <1>4, <1>5, Fun_IsInj DEF IsInjective
  <1>7. IsFiniteSet(1..Cardinality(S)) /\ Cardinality(1..Cardinality(S)) = Cardinality(S)
    BY <1>1, FS_Interval
  <1>8. g \in Surjection(1..Cardinality(S), S)
    BY <1>6, <1>7, FS_Injection
  <1>9. ToSet(g) = S
    <2>1. \A t \in S : \E i \in 1..Cardinality(S) : g[i] = t
      BY <1>8 DEF Surjection
    <2>. QED
      BY <1>4, <1>5, <2>1 DEF ToSet
  <1>. QED
    BY <1>4, <1>5, <1>9 DEF Listing, g

\* The members of a set a list names are finitely many.
LEMMA ListedIsFinite ==
  ASSUME NEW S, NEW list \in Seq(S)
  PROVE  IsFiniteSet(ToSet(list)) /\ IsFiniteSet(DOMAIN list)
  <1>1. /\ Len(list) \in Nat /\ DOMAIN list = 1..Len(list)
        /\ list \in [1..Len(list) -> ToSet(list)]
    BY LenProperties DEF ToSet
  <1>2. list \in Surjection(1..Len(list), ToSet(list))
    BY <1>1, Fun_IsSurj DEF ToSet
  <1>. QED
    BY <1>1, <1>2, FS_Interval, FS_Surjection

LEMMA InOrderLists ==
  ASSUME NEW T, NEW order \in Seq(T), IsInjective(order), NEW S,
         S \subseteq ToSet(order)
  PROVE  Listing(InOrder(order, S), S)
  <1> DEFINE places == {i \in DOMAIN order : order[i] \in S}
             n == Cardinality(places)
             Before(i) == {j \in places : j < i}
             UpTo(i) == {j \in places : j <= i}
  <1>1. Len(order) \in Nat /\ DOMAIN order = 1..Len(order) /\ places \in SUBSET Nat
    BY LenProperties
  <1>2. IsFiniteSet(places)
    <2>1. IsFiniteSet(DOMAIN order) /\ places \in SUBSET DOMAIN order
      BY ListedIsFinite
    <2> HIDE DEF places
    <2>. QED
      BY <2>1, FS_Subset
  <1> HIDE DEF places
  <1>3. n \in Nat
    BY <1>2, FS_CardinalityType
  <1>4. ASSUME NEW i \in places
        PROVE  /\ IsFiniteSet(Before(i)) /\ Cardinality(Before(i)) \in 0..n-1
               /\ IsFiniteSet(UpTo(i)) /\ Cardinality(UpTo(i)) = Cardinality(Before(i)) + 1
    <2>1. Before(i) \in SUBSET places /\ UpTo(i) = Before(i) \cup {i} /\ i \notin Before(i)
      <3>1. ~(i < i) /\ \A j \in places : j <= i <=> (j < i \/ j = i)
        BY <1>1
      <3>2. i \notin Before(i)
        BY <3>1
      <3>3. UpTo(i) = Before(i) \cup {i}
        BY <3>1
      <3>. QED
        BY <3>2, <3>3
    <2>2. UpTo(i) \in SUBSET places
      BY <2>1
    <2> HIDE DEF Before, UpTo
    <2>3. IsFiniteSet(Before(i)) /\ IsFiniteSet(UpTo(i))
      BY <1>2, <2>1, <2>2, FS_Subset
    <2>4. Cardinality(UpTo(i)) = Cardinality(Before(i)) + 1
      BY <2>1, <2>3, FS_AddElement
    <2>5. Cardinality(UpTo(i)) <= n /\ Cardinality(Before(i)) \in Nat
      BY <1>2, <2>2, <2>3, FS_Subset, FS_CardinalityType
    <2>. QED
      BY <1>3, <2>3, <2>4, <2>5
  \* The number of members before a place tells the places apart.
  <1>5. ASSUME NEW i \in places, NEW j \in places, j < i
        PROVE  Cardinality(Before(j)) < Cardinality(Before(i))
    <2>1. UpTo(j) \in SUBSET Before(i)
      <3>1. \A k \in places : k <= j => k < i
        BY <1>1, <1>5
      <3>. QED
        BY <3>1
    <2> HIDE DEF Before, UpTo
    <2>2. Cardinality(UpTo(j)) <= Cardinality(Before(i))
      BY <1>4, <2>1, FS_Subset
    <2>. QED
      BY <1>4, <2>2
  <1> HIDE DEF Before, UpTo
  <1> DEFINE rank == [i \in places |-> Cardinality(Before(i)) + 1]
  <1>6. rank \in [places -> 1..n] /\ \A i, j \in places : rank[i] = rank[j] => i = j
    <2>1. \A i \in places : Cardinality(Before(i)) + 1 \in 1..n
      BY <1>3, <1>4
    <2>2. \A i, j \in places : i < j \/ j < i \/ i = j
      BY <1>1
    <2>. QED
      BY <1>4, <1>5, <2>1, <2>2
  <1> HIDE DEF rank
  <1>7. rank \in Surjection(places, 1..n)
    <2>1. rank \in Injection(places, 1..n)
      BY <1>6, Fun_IsInj
    <2>2. IsFiniteSet(1..n) /\ Cardinality(1..n) = n
      BY <1>3, FS_Interval
    <2>. QED
      BY <2>1, <2>2, FS_Injection
  <1>15. \A k \in 1..n : \E i \in places : rank[i] = k
    BY <1>7, Fun_SurjectionProperties
  <1> DEFINE At(k) == CHOOSE i \in places : Cardinality(Before(i)) = k - 1
  <1>8. ASSUME NEW k \in 1..n
        PROVE  At(k) \in places /\ rank[At(k)] = k
    <2>1. \E i \in places : rank[i] = k
      BY <1>15
    <2>2. \E i \in places : Cardinality(Before(i)) = k - 1
      BY <1>3, <1>4, <2>1 DEF rank
    <2>3. At(k) \in places /\ Cardinality(Before(At(k))) = k - 1
      BY <2>2
    <2> HIDE DEF At
    <2>. QED
      BY <1>3, <2>3 DEF rank
  <1> HIDE DEF At
  <1>9. \A i \in places : rank[i] \in 1..n /\ At(rank[i]) = i
    BY <1>6, <1>8
  <1> DEFINE list == [k \in 1..n |-> order[At(k)]]
  <1>10. InOrder(order, S) = list
    BY DEF InOrder, At, Before, places
  <1>11. list \in [1..n -> S]
    BY <1>8 DEF places
  <1>12. IsInjective(list)
    BY <1>8 DEF IsInjective, places
  <1>13. ToSet(list) = S
    <2>1. ASSUME NEW x \in S
          PROVE  \E k \in 1..n : list[k] = x
      <3>1. PICK i \in places : order[i] = x
        BY DEF ToSet, places
      <3>. QED
        BY <1>9, <3>1
    <2>. QED
      BY <1>11, <2>1 DEF ToSet
  <1> HIDE DEF list
  <1>14. list \in Seq(S)
    BY <1>3, <1>11, SequenceOf
  <1>. QED
    BY <1>10, <1>12, <1>13, <1>14 DEF Listing

\* What a list does not name is not looked for in it.
LEMMA InOrderOfListed ==
  ASSUME NEW order, NEW S
  PROVE  InOrder(order, S) = InOrder(order, S \cap ToSet(order))
  <1>1. {i \in DOMAIN order : order[i] \in S}
          = {i \in DOMAIN order : order[i] \in S \cap ToSet(order)}
    BY DEF ToSet
  <1> DEFINE At(P) == [k \in 1..Cardinality(P) |->
                         order[CHOOSE i \in P : Cardinality({j \in P : j < i}) = k - 1]]
             Places(T) == {i \in DOMAIN order : order[i] \in T}
  <1>2. \A T : InOrder(order, T) = At(Places(T))
    BY DEF InOrder
  <1>3. Places(S) = Places(S \cap ToSet(order))
    BY <1>1
  <1> HIDE DEF At, Places
  <1>. QED
    BY <1>2, <1>3

-----------------------------------------------------------------------------
(* The pages of a set of records.                                          *)

Corpus(records) == DOMAIN records \subseteq Ids /\ records \in [DOMAIN records -> Shapes]

AllItems(records) == UNION {ItemPaths(records, r) : r \in DOMAIN records}
Items(records, types) == {p \in AllItems(records) : p[1] \in types}
Open(records) == {records[r].session : r \in DOMAIN records} \cap Sessions

LEMMA RecordTyped ==
  ASSUME NEW records, Corpus(records), NEW r \in DOMAIN records
  PROVE  /\ r \in Ids /\ SummaryPath(r) \in Paths
         /\ records[r].session \in Sessions \cup {NoSession} /\ records[r].day \in Nat
         /\ records[r].supporting \subseteq Paths
         /\ \A text \in Texts : records[r].quotes[text] \subseteq Paths
         /\ IsFiniteSet(records[r].items)
         /\ ItemPaths(records, r) \subseteq Paths
         /\ \A p \in ItemPaths(records, r) : p[1] \in ItemTypes
         /\ SessionPaths(records, r) \subseteq Paths
  <1>1. records[r] \in RecordShape /\ r \in Ids /\ IsFiniteSet(records[r].items)
    BY CompilerAssumption DEF Corpus
  <1>2. \A item \in ItemTypes \X Titles : ItemPath(item) \in ItemTypes \X {Slug[t] : t \in Titles}
    BY DEF ItemPath
  <1>3. records[r].items \subseteq ItemTypes \X Titles
    BY <1>1 DEF RecordShape
  <1>4. ItemPaths(records, r) \subseteq ItemTypes \X {Slug[t] : t \in Titles}
    <2> HIDE DEF ItemPath
    <2>. QED
      BY <1>2, <1>3 DEF ItemPaths
  <1>5. SummaryPath(r) \in Paths
    BY <1>1, CompilerAssumption DEF Paths, SummaryPath
  <1>6. /\ records[r].session \in Sessions \cup {NoSession} /\ records[r].day \in Nat
        /\ records[r].supporting \subseteq Paths
        /\ \A text \in Texts : records[r].quotes[text] \subseteq Paths
    BY <1>1 DEF RecordShape
  <1>7. SessionPaths(records, r) \subseteq Paths
    BY <1>6 DEF SessionPaths, Paths
  <1>8. ItemPaths(records, r) \subseteq Paths
    BY <1>4 DEF Paths
  <1>9. \A p \in ItemPaths(records, r) : p[1] \in ItemTypes
    BY <1>4
  <1>. QED
    BY <1>1, <1>5, <1>6, <1>7, <1>8, <1>9

\* What pages copy of records are paths, each from a text of one of them.
LEMMA QuotesTyped ==
  ASSUME NEW records, Corpus(records), NEW rs \in SUBSET DOMAIN records,
         NEW texts \in SUBSET Texts
  PROVE  /\ Quotes(records, rs, texts) \in SUBSET Paths
         /\ \A t \in Quotes(records, rs, texts) :
              \E r \in DOMAIN records : t \in Quotes(records, {r}, Texts)
  <1>1. ASSUME NEW t \in Quotes(records, rs, texts)
        PROVE  \E r \in rs, text \in texts : t \in records[r].quotes[text]
    BY DEF Quotes
  <1>2. \A r \in rs, text \in texts : records[r].quotes[text] \subseteq Paths
    BY RecordTyped
  <1>3. ASSUME NEW r \in rs, NEW text \in texts, NEW t \in records[r].quotes[text]
        PROVE  t \in Quotes(records, {r}, Texts)
    BY DEF Quotes
  <1>. QED
    BY <1>1, <1>2, <1>3

LEMMA RecordsAreFinite ==
  ASSUME NEW records, Corpus(records)
  PROVE  /\ IsFiniteSet(DOMAIN records)
         /\ \A types : IsFiniteSet(Items(records, types))
  <1>1. IsFiniteSet(Ids)
    BY ListedIsFinite, CompilerAssumption DEF Ids
  <1>2. IsFiniteSet(DOMAIN records)
    BY <1>1, FS_Subset DEF Corpus
  <1>3. ASSUME NEW r \in DOMAIN records
        PROVE  IsFiniteSet(ItemPaths(records, r))
    <2> DEFINE f == [i \in records[r].items |-> ItemPath(i)]
    <2>1. f \in Surjection(records[r].items, ItemPaths(records, r))
      BY DEF Surjection, ItemPaths
    <2>2. IsFiniteSet(records[r].items)
      BY RecordTyped
    <2>. QED
      BY <2>1, <2>2, FS_Surjection
  <1> DEFINE g == [r \in DOMAIN records |-> ItemPaths(records, r)]
             all == {ItemPaths(records, r) : r \in DOMAIN records}
  <1>4. g \in Surjection(DOMAIN records, all)
    BY DEF Surjection
  <1>5. IsFiniteSet(all) /\ \A S \in all : IsFiniteSet(S)
    <2>1. \A S \in all : IsFiniteSet(S)
      BY <1>3
    <2>2. IsFiniteSet(all)
      <3> HIDE DEF g, all
      <3>. QED
        BY <1>2, <1>4, FS_Surjection
    <2>. QED
      BY <2>1, <2>2
  <1>6. IsFiniteSet(AllItems(records))
    <2> HIDE DEF all
    <2>1. IsFiniteSet(UNION all)
      BY <1>5, FS_UNION
    <2>. QED
      BY <2>1 DEF AllItems, all
  <1>7. ASSUME NEW types
        PROVE  IsFiniteSet(Items(records, types))
    <2>1. Items(records, types) \in SUBSET AllItems(records)
      BY DEF Items
    <2>. QED
      BY <1>6, <2>1, FS_Subset
  <1>. QED
    BY <1>2, <1>7

\* A page spans the days of the records it is made from.
LEMMA PageTyped ==
  ASSUME NEW records, Corpus(records), NEW path \in Paths, NEW rs \in SUBSET DOMAIN records,
         NEW related \in SUBSET Paths, NEW links \in SUBSET Paths
  PROVE  /\ Page(records, path, rs, related, links) \in PageShape
         /\ \A r \in rs : records[r].day \in Page(records, path, rs, related, links).created
                                              ..Page(records, path, rs, related, links).updated
  <1> DEFINE days == Days(records, rs)
             page == Page(records, path, rs, related, links)
  <1>1. \A r \in DOMAIN records : records[r].day \in Nat
    BY RecordTyped
  <1>2. days \in SUBSET Nat
    BY <1>1 DEF Days
  <1>3. IsFiniteSet(days)
    <2> DEFINE f == [r \in rs |-> records[r].day]
    <2>1. f \in Surjection(rs, days)
      BY DEF Surjection, Days
    <2>2. IsFiniteSet(rs)
      BY RecordsAreFinite, FS_Subset
    <2> HIDE DEF f, days
    <2>. QED
      BY <2>1, <2>2, FS_Surjection
  <1>4. rs # {} => days # {}
    BY DEF Days
  <1>5. \A r \in rs : records[r].day \in days
    BY DEF Days
  <1> HIDE DEF days
  <1>6. rs # {} => /\ Min(days) \in Nat /\ Max(days) \in Nat
                   /\ \A x \in days : Min(days) <= x /\ x <= Max(days)
    BY <1>2, <1>3, <1>4, LeastExists, GreatestExists
  <1>7. rs \in SUBSET Ids
    BY DEF Corpus
  <1>8. CASE rs = {}
    <2>1. page.created = 0 /\ page.updated = 0
      BY <1>8 DEF Page
    <2>. QED
      BY <1>7, <1>8 DEF Page, PageShape
  <1>9. CASE rs # {}
    <2>1. page.created = Min(days) /\ page.updated = Max(days)
      BY <1>9 DEF Page, days
    <2>2. \A r \in rs : records[r].day \in Min(days)..Max(days)
      BY <1>1, <1>5, <1>6, <1>9
    <2>3. page = [path |-> path, related |-> related, links |-> links, ids |-> rs,
                  created |-> Min(days), updated |-> Max(days)]
      BY <1>9 DEF Page, days
    <2>4. page \in PageShape
      BY <1>6, <1>7, <1>9, <2>3 DEF PageShape
    <2>. QED
      BY <2>1, <2>2, <2>4
  <1>. QED
    BY <1>8, <1>9

SessionIds(records, s) == {r \in DOMAIN records : records[r].session = s}

\* What the generators give a page; the loops only add related paths.
LEMMA SummaryMade ==
  ASSUME NEW records, Corpus(records), NEW r \in DOMAIN records
  PROVE  LET page == SummaryPage(records, r)
         IN  /\ page \in PageShape /\ page.path = SummaryPath(r) /\ page.ids = {r}
             /\ page.links = Quotes(records, {r}, {"summary", "sections"})
             /\ page.related = {Overview} \cup SessionPaths(records, r) \cup ItemPaths(records, r)
             /\ records[r].day \in page.created..page.updated
  <1> DEFINE related == {Overview} \cup SessionPaths(records, r) \cup ItemPaths(records, r)
  <1> DEFINE links == Quotes(records, {r}, {"summary", "sections"})
  <1>1. SummaryPage(records, r) = Page(records, SummaryPath(r), {r}, related, links)
    BY DEF SummaryPage
  <1>2. /\ SummaryPath(r) \in Paths /\ related \in SUBSET Paths /\ {r} \in SUBSET DOMAIN records
    BY RecordTyped DEF Paths
  <1>4. links \in SUBSET Paths
    BY <1>2, QuotesTyped DEF Texts
  <1> HIDE DEF related, links
  <1>3. /\ SummaryPage(records, r) \in PageShape
        /\ records[r].day \in SummaryPage(records, r).created..SummaryPage(records, r).updated
    BY <1>1, <1>2, <1>4, PageTyped
  <1>. QED
    BY <1>1, <1>3 DEF Page, related, links

LEMMA ItemMade ==
  ASSUME NEW records, Corpus(records), NEW path \in AllItems(records)
  PROVE  LET page == ItemPage(records, path)
             rs == Contributors(records, path)
         IN  /\ page \in PageShape /\ page.path = path /\ page.ids = rs
             /\ rs \subseteq DOMAIN records
             /\ page.links = {SummaryPath(r) : r \in rs} \cup Quotes(records, rs, ItemTexts(path))
             /\ page.related = {Overview} \cup (UNION {{SummaryPath(r)} \cup ItemPaths(records, r)
                                                         \cup SessionPaths(records, r) : r \in rs})
                                 \cup (IF path[1] \in QuestionTypes
                                       THEN UNION {records[r].supporting : r \in rs} ELSE {})
             /\ \A r \in rs : records[r].day \in page.created..page.updated
  <1> DEFINE rs == Contributors(records, path)
             close == UNION {{SummaryPath(r)} \cup ItemPaths(records, r)
                                  \cup SessionPaths(records, r) : r \in rs}
             supporting == IF path[1] \in QuestionTypes
                           THEN UNION {records[r].supporting : r \in rs} ELSE {}
             related == {Overview} \cup close \cup supporting
             quoted == Quotes(records, rs, ItemTexts(path))
             links == {SummaryPath(r) : r \in rs} \cup quoted
  <1>1. ItemPage(records, path) = Page(records, path, rs, related, links)
    BY DEF ItemPage
  <1>2. rs \in SUBSET DOMAIN records
    BY DEF Contributors
  <1>3. path \in Paths
    BY RecordTyped DEF AllItems
  <1>8. quoted \in SUBSET Paths
    <2>1. ItemTexts(path) \in SUBSET Texts
      BY DEF ItemTexts, Texts
    <2> HIDE DEF rs
    <2>. QED
      BY <1>2, <2>1, QuotesTyped
  <1> HIDE DEF rs, quoted
  <1>4. links \in SUBSET Paths /\ close \in SUBSET Paths /\ supporting \in SUBSET Paths
    <2>1. \A r \in rs : /\ SummaryPath(r) \in Paths /\ ItemPaths(records, r) \subseteq Paths
                        /\ SessionPaths(records, r) \subseteq Paths
                        /\ records[r].supporting \subseteq Paths
      BY <1>2, RecordTyped
    <2>. QED
      BY <1>8, <2>1
  <1>5. related \in SUBSET Paths
    BY <1>4 DEF Paths
  <1> HIDE DEF close, supporting, links
  <1> HIDE DEF related
  <1>6. /\ ItemPage(records, path) \in PageShape
        /\ \A r \in rs : records[r].day \in ItemPage(records, path).created..ItemPage(records, path).updated
    BY <1>1, <1>2, <1>3, <1>4, <1>5, PageTyped
  <1>7. /\ ItemPage(records, path).path = path /\ ItemPage(records, path).ids = rs
        /\ ItemPage(records, path).links = links /\ ItemPage(records, path).related = related
    BY <1>1 DEF Page
  <1>. QED
    BY <1>2, <1>6, <1>7 DEF rs, related, close, supporting, links, quoted

LEMMA SessionMade ==
  ASSUME NEW records, Corpus(records), NEW s \in Open(records)
  PROVE  LET page == SessionPage(records, s)
             rs == SessionIds(records, s)
         IN  /\ page \in PageShape /\ page.path = SessionPath(s) /\ page.ids = rs
             /\ page.links = Quotes(records, rs, {"summary"})
             /\ page.related = {Overview} \cup UNION {{SummaryPath(r)} \cup ItemPaths(records, r) : r \in rs}
             /\ \A r \in rs : records[r].day \in page.created..page.updated
  <1> DEFINE rs == SessionIds(records, s)
             close == UNION {{SummaryPath(r)} \cup ItemPaths(records, r) : r \in rs}
             related == {Overview} \cup close
             links == Quotes(records, rs, {"summary"})
  <1>1. SessionPage(records, s) = Page(records, SessionPath(s), rs, related, links)
    BY DEF SessionPage, SessionIds
  <1>2. rs \in SUBSET DOMAIN records /\ SessionPath(s) \in Paths
    BY DEF SessionIds, Open, Paths
  <1> HIDE DEF rs
  <1>7. links \in SUBSET Paths
    BY <1>2, QuotesTyped DEF Texts
  <1>3. close \in SUBSET Paths
    <2>1. \A r \in rs : SummaryPath(r) \in Paths /\ ItemPaths(records, r) \subseteq Paths
      BY <1>2, RecordTyped
    <2>. QED
      BY <2>1
  <1>4. related \in SUBSET Paths
    BY <1>3 DEF Paths
  <1> HIDE DEF close, related, links
  <1>5. /\ SessionPage(records, s) \in PageShape
        /\ \A r \in rs : records[r].day \in SessionPage(records, s).created..SessionPage(records, s).updated
    BY <1>1, <1>2, <1>4, <1>7, PageTyped
  <1>6. /\ SessionPage(records, s).path = SessionPath(s) /\ SessionPage(records, s).ids = rs
        /\ SessionPage(records, s).links = links /\ SessionPage(records, s).related = related
    BY <1>1 DEF Page
  <1>. QED
    BY <1>5, <1>6 DEF rs, related, close, links

LEMMA NavigationMade ==
  ASSUME NEW records, Corpus(records), NEW ps, PagePaths(ps) \subseteq Paths
  PROVE  /\ LogPage(records) \in PageShape /\ LogPage(records).path = Log
         /\ LogPage(records).related = {} /\ LogPage(records).links = {}
         /\ LogPage(records).ids = DOMAIN records
         /\ IndexPage(records, ps) \in PageShape /\ IndexPage(records, ps).path = Index
         /\ IndexPage(records, ps).related = PagePaths(ps)
         /\ IndexPage(records, ps).links
              = PagePaths(ps) \cup {Overview, Log} \cup Quotes(records, DOMAIN records, {"summary"})
         /\ IndexPage(records, ps).ids = DOMAIN records
         /\ OverviewPage(records, ps) \in PageShape /\ OverviewPage(records, ps).path = Overview
         /\ OverviewPage(records, ps).related = PagePaths(ps)
         /\ OverviewPage(records, ps).links = {Index, Log}
         /\ OverviewPage(records, ps).ids = DOMAIN records
  <1>1. {Overview, Log, Index} \subseteq Paths
    BY DEF Paths
  <1>2. LogPage(records) \in PageShape
    BY <1>1, PageTyped DEF LogPage
  <1>3. IndexPage(records, ps) \in PageShape
    <2>1. /\ PagePaths(ps) \cup {Overview, Log} \cup Quotes(records, DOMAIN records, {"summary"})
               \in SUBSET Paths
          /\ PagePaths(ps) \in SUBSET Paths
      BY <1>1, QuotesTyped DEF Texts
    <2>. QED
      BY <1>1, <2>1, PageTyped DEF IndexPage
  <1>4. OverviewPage(records, ps) \in PageShape
    <2>1. {Index, Log} \in SUBSET Paths /\ PagePaths(ps) \in SUBSET Paths
      BY <1>1
    <2>. QED
      BY <1>1, <2>1, PageTyped DEF OverviewPage
  <1>. QED
    BY <1>2, <1>3, <1>4 DEF LogPage, IndexPage, OverviewPage, Page

-----------------------------------------------------------------------------
(* The list of pages: one page per path, but for summaries and sessions;   *)
(* summaries first.                                                        *)

Once(ps) ==
  \A i, k \in DOMAIN ps :
    ps[i].path = ps[k].path /\ ps[i].path[1] \notin {"summary", "session"} => i = k

SummariesFirst(ps) ==
  \A i, k \in DOMAIN ps : k < i /\ ps[i].path[1] = "summary" => ps[k].path[1] = "summary"

PageList(ps) == ps \in Seq(PageShape) /\ Once(ps)

\* A generator makes a page of each member of a list, different paths for different
\* members unless they are of records or sessions.
LEMMA GeneratorOnce ==
  ASSUME NEW S, NEW list, Listing(list, S), NEW f \in [S -> PageShape],
         \A x, y \in S : f[x].path = f[y].path => x = y \/ f[x].path[1] \in {"summary", "session"}
  PROVE  LET ps == [i \in DOMAIN list |-> f[list[i]]]
         IN  PageList(ps) /\ ToSet(ps) = {f[x] : x \in S}
  <1> DEFINE ps == [i \in DOMAIN list |-> f[list[i]]]
  <1>1. /\ Len(list) \in Nat /\ DOMAIN list = 1..Len(list)
        /\ \A i \in DOMAIN list : list[i] \in S
    BY LenProperties, ElementOfSeq DEF Listing
  <1>2. \A x \in S : \E i \in DOMAIN list : list[i] = x
    BY DEF Listing, ToSet
  <1>3. ps \in [1..Len(list) -> PageShape]
    BY <1>1
  <1>4. ps \in Seq(PageShape)
    BY <1>1, <1>3, SequenceOf
  <1>5. Once(ps)
    BY <1>1 DEF Once, Listing, IsInjective
  <1>6. ToSet(ps) = {f[x] : x \in S}
    BY <1>1, <1>2 DEF ToSet
  <1>. QED
    BY <1>4, <1>5, <1>6 DEF PageList

LEMMA ConcatOnce ==
  ASSUME NEW f, NEW g, PageList(f), PageList(g),
         \A p \in PagePaths(f), q \in PagePaths(g) : p # q
  PROVE  /\ PageList(f \o g) /\ ToSet(f \o g) = ToSet(f) \cup ToSet(g)
         /\ PagePaths(f \o g) = PagePaths(f) \cup PagePaths(g)
         /\ SummariesFirst(f) /\ (\A q \in PagePaths(g) : q[1] # "summary") => SummariesFirst(f \o g)
  <1>1. /\ Len(f) \in Nat /\ DOMAIN f = 1..Len(f) /\ Len(g) \in Nat /\ DOMAIN g = 1..Len(g)
        /\ f \o g \in Seq(PageShape) /\ DOMAIN (f \o g) = 1..(Len(f) + Len(g))
    BY LenProperties, ConcatProperties DEF PageList
  <1> DEFINE h == f \o g
  <1>2. /\ \A i \in DOMAIN f : i \in DOMAIN h /\ h[i] = f[i]
        /\ \A k \in DOMAIN g : k + Len(f) \in DOMAIN h /\ h[k + Len(f)] = g[k]
        /\ \A i \in DOMAIN h :
             \/ i \in DOMAIN f /\ h[i] = f[i]
             \/ i > Len(f) /\ i - Len(f) \in DOMAIN g /\ h[i] = g[i - Len(f)]
    <2>1. \A i \in 1..(Len(f) + Len(g)) : h[i] = IF i <= Len(f) THEN f[i] ELSE g[i - Len(f)]
      BY ConcatProperties DEF PageList
    <2> HIDE DEF h
    <2>2. DOMAIN h = 1..(Len(f) + Len(g))
      BY <1>1 DEF h
    <2>3. \A k \in DOMAIN g : k + Len(f) \in DOMAIN h /\ h[k + Len(f)] = g[k]
      BY <1>1, <2>1, <2>2
    <2>. QED
      BY <1>1, <2>1, <2>2, <2>3
  <1>3. /\ \A i \in DOMAIN f : f[i].path \in PagePaths(f)
        /\ \A k \in DOMAIN g : g[k].path \in PagePaths(g)
    BY DEF PagePaths
  <1> HIDE DEF h
  <1>4. Once(h)
    <2> SUFFICES ASSUME NEW i \in DOMAIN h, NEW k \in DOMAIN h,
                        h[i].path = h[k].path, h[i].path[1] \notin {"summary", "session"}
                 PROVE  i = k
      BY DEF Once
    <2>1. CASE i \in DOMAIN f /\ h[i] = f[i] /\ k \in DOMAIN f /\ h[k] = f[k]
      BY <2>1 DEF PageList, Once
    <2>2. CASE /\ i > Len(f) /\ i - Len(f) \in DOMAIN g /\ h[i] = g[i - Len(f)]
               /\ k > Len(f) /\ k - Len(f) \in DOMAIN g /\ h[k] = g[k - Len(f)]
      <3>1. i - Len(f) = k - Len(f)
        BY <2>2 DEF PageList, Once
      <3>2. i \in Int /\ k \in Int
        BY <1>1 DEF h
      <3>. QED
        BY <1>1, <3>1, <3>2
    <2>. QED
      BY <1>2, <1>3, <2>1, <2>2
  <1>5. ToSet(h) = ToSet(f) \cup ToSet(g)
    BY <1>2 DEF ToSet
  <1>6. PagePaths(h) = PagePaths(f) \cup PagePaths(g)
    BY <1>2 DEF PagePaths
  <1>7. ASSUME SummariesFirst(f), \A q \in PagePaths(g) : q[1] # "summary"
        PROVE  SummariesFirst(h)
    <2> SUFFICES ASSUME NEW i \in DOMAIN h, NEW k \in DOMAIN h, k < i, h[i].path[1] = "summary"
                 PROVE  h[k].path[1] = "summary"
      BY DEF SummariesFirst
    <2>1. i \in DOMAIN f /\ h[i] = f[i]
      BY <1>2, <1>3, <1>7
    <2>2. i \in Int /\ k \in Int /\ i <= Len(f)
      BY <1>1, <2>1 DEF h
    <2>3. k \in DOMAIN f /\ h[k] = f[k]
      BY <1>1, <1>2, <2>2
    <2>. QED
      BY <1>7, <2>1, <2>3 DEF SummariesFirst
  <1>. QED
    BY <1>1, <1>4, <1>5, <1>6, <1>7 DEF PageList, h

LEMMA OnePage ==
  ASSUME NEW page \in PageShape
  PROVE  /\ PageList(<<page>>) /\ ToSet(<<page>>) = {page}
         /\ PagePaths(<<page>>) = {page.path}
  BY DEF PageList, Once, ToSet, PagePaths

LEMMA PathsOfPages ==
  ASSUME NEW ps
  PROVE  PagePaths(ps) = {page.path : page \in ToSet(ps)}
  BY DEF PagePaths, ToSet

LEMMA SummariesMade ==
  ASSUME NEW records, Corpus(records)
  PROVE  /\ PageList(GeneratedSummaries(records))
         /\ ToSet(GeneratedSummaries(records)) = {SummaryPage(records, r) : r \in DOMAIN records}
  <1> DEFINE order == InOrder(RecordOrder, DOMAIN records)
             f == [r \in DOMAIN records |-> SummaryPage(records, r)]
  <1>1. Listing(order, DOMAIN records)
    <2>1. DOMAIN records \subseteq ToSet(RecordOrder)
      BY DEF Corpus, Ids
    <2>. QED
      BY <2>1, InOrderLists, CompilerAssumption
  <1>2. f \in [DOMAIN records -> PageShape]
    BY SummaryMade
  <1>3. \A x \in DOMAIN records : f[x].path[1] = "summary"
    <2>1. \A x \in DOMAIN records : SummaryPath(x)[1] = "summary"
      BY DEF SummaryPath
    <2>2. \A x \in DOMAIN records : f[x].path = SummaryPath(x)
      BY SummaryMade
    <2>. QED
      BY <2>1, <2>2
  <1> HIDE DEF order
  <1>4. \A i \in DOMAIN order : order[i] \in DOMAIN records
    BY <1>1, LenProperties, ElementOfSeq DEF Listing
  <1>5. GeneratedSummaries(records) = [i \in DOMAIN order |-> f[order[i]]]
    BY <1>4 DEF GeneratedSummaries, order
  <1>6. {f[r] : r \in DOMAIN records} = {SummaryPage(records, r) : r \in DOMAIN records}
    OBVIOUS
  <1> HIDE DEF f
  <1>7. PageList([i \in DOMAIN order |-> f[order[i]]])
        /\ ToSet([i \in DOMAIN order |-> f[order[i]]]) = {f[r] : r \in DOMAIN records}
    BY <1>1, <1>2, <1>3, GeneratorOnce
  <1>. QED
    BY <1>5, <1>6, <1>7

LEMMA ItemsMade ==
  ASSUME NEW records, Corpus(records), NEW types
  PROVE  /\ PageList(GeneratedItems(records, types))
         /\ ToSet(GeneratedItems(records, types))
              = {ItemPage(records, path) : path \in Items(records, types)}
  <1> DEFINE S == Items(records, types)
             list == SetToSeq(S)
             f == [path \in S |-> ItemPage(records, path)]
  <1>1. Listing(list, S)
    BY RecordsAreFinite, SetToSeqLists
  <1>2. \A path \in S : path \in AllItems(records)
    BY DEF Items
  <1>3. /\ f \in [S -> PageShape]
        /\ \A x, y \in S : f[x].path = f[y].path => x = y
    BY <1>2, ItemMade
  <1>4. GeneratedItems(records, types) = [i \in DOMAIN list |-> ItemPage(records, list[i])]
    BY DEF GeneratedItems, Items, AllItems
  <1>5. \A i \in DOMAIN list : list[i] \in S
    <2> HIDE DEF list, S
    <2>. QED
      BY <1>1, LenProperties, ElementOfSeq DEF Listing
  <1> HIDE DEF list
  <1>6. GeneratedItems(records, types) = [i \in DOMAIN list |-> f[list[i]]]
    BY <1>4, <1>5
  <1>7. {f[path] : path \in S} = {ItemPage(records, path) : path \in S}
    OBVIOUS
  <1> HIDE DEF S, f
  <1>8. PageList([i \in DOMAIN list |-> f[list[i]]])
        /\ ToSet([i \in DOMAIN list |-> f[list[i]]]) = {f[path] : path \in S}
    BY <1>1, <1>3, GeneratorOnce
  <1>. QED
    BY <1>6, <1>7, <1>8 DEF S

LEMMA SessionsMade ==
  ASSUME NEW records, Corpus(records)
  PROVE  /\ PageList(GeneratedSessions(records))
         /\ ToSet(GeneratedSessions(records)) = {SessionPage(records, s) : s \in Open(records)}
  <1> DEFINE all == {records[r].session : r \in DOMAIN records}
             S == Open(records)
             order == InOrder(SessionOrder, all)
             f == [s \in S |-> SessionPage(records, s)]
  <1>1. Listing(order, S)
    <2>1. S = all \cap ToSet(SessionOrder)
      BY DEF Open, Sessions
    <2>2. order = InOrder(SessionOrder, S)
      BY <2>1, InOrderOfListed
    <2>. QED
      BY <2>1, <2>2, InOrderLists, CompilerAssumption
  <1>2. /\ f \in [S -> PageShape]
        /\ \A x \in S : f[x].path = SessionPath(x)
    BY SessionMade
  <1>3. \A x \in S : f[x].path[1] = "session"
    BY <1>2 DEF SessionPath
  <1>4. GeneratedSessions(records) = [i \in DOMAIN order |-> SessionPage(records, order[i])]
    BY DEF GeneratedSessions
  <1>5. \A i \in DOMAIN order : order[i] \in S
    <2> HIDE DEF order, S
    <2>. QED
      BY <1>1, LenProperties, ElementOfSeq DEF Listing
  <1> HIDE DEF order
  <1>6. GeneratedSessions(records) = [i \in DOMAIN order |-> f[order[i]]]
    BY <1>4, <1>5
  <1>7. {f[s] : s \in S} = {SessionPage(records, s) : s \in S}
    OBVIOUS
  <1> HIDE DEF S, f
  <1>8. PageList([i \in DOMAIN order |-> f[order[i]]])
        /\ ToSet([i \in DOMAIN order |-> f[order[i]]]) = {f[s] : s \in S}
    BY <1>1, <1>2, <1>3, GeneratorOnce
  <1>. QED
    BY <1>6, <1>7, <1>8 DEF S

ContentMade(records) ==
  {SummaryPage(records, r) : r \in DOMAIN records}
    \cup {ItemPage(records, path) : path \in AllItems(records)}
    \cup {SessionPage(records, s) : s \in Open(records)} \cup {LogPage(records)}

LEMMA ContentOnce ==
  ASSUME NEW records, Corpus(records)
  PROVE  /\ PageList(ContentPages(records)) /\ ToSet(ContentPages(records)) = ContentMade(records)
         /\ PagePaths(ContentPages(records)) \subseteq Paths
         /\ \A p \in PagePaths(ContentPages(records)) : p[1] \notin {"index", "overview"}
         /\ SummariesFirst(ContentPages(records))
  <1> DEFINE summaries == GeneratedSummaries(records)
             concepts == GeneratedItems(records, ConceptTypes)
             questions == GeneratedItems(records, QuestionTypes)
             sessions == GeneratedSessions(records)
             log == <<LogPage(records)>>
             In(ps, dirs) == \A p \in PagePaths(ps) : p[1] \in dirs
  <1>1. /\ PageList(summaries) /\ In(summaries, {"summary"})
        /\ ToSet(summaries) = {SummaryPage(records, r) : r \in DOMAIN records}
        /\ SummariesFirst(summaries)
    <2>1. /\ PageList(summaries)
          /\ ToSet(summaries) = {SummaryPage(records, r) : r \in DOMAIN records}
      BY SummariesMade
    <2>2. \A p \in PagePaths(summaries) : \E r \in DOMAIN records : p = SummaryPath(r)
      <3>1. \A r \in DOMAIN records : SummaryPage(records, r).path = SummaryPath(r)
        BY SummaryMade
      <3> HIDE DEF summaries
      <3>. QED
        BY <2>1, <3>1, PathsOfPages
    <2>3. \A p \in PagePaths(summaries) : p[1] = "summary"
      <3>1. \A r \in DOMAIN records : SummaryPath(r)[1] = "summary"
        BY DEF SummaryPath
      <3> HIDE DEF summaries
      <3>. QED
        BY <2>2, <3>1
    <2>4. SummariesFirst(summaries)
      BY <2>3 DEF SummariesFirst, PagePaths
    <2>. QED
      BY <2>1, <2>3, <2>4
  <1>2. ASSUME NEW types
        PROVE  /\ PageList(GeneratedItems(records, types)) /\ In(GeneratedItems(records, types), types)
               /\ ToSet(GeneratedItems(records, types))
                    = {ItemPage(records, path) : path \in Items(records, types)}
    <2>1. /\ PageList(GeneratedItems(records, types))
          /\ ToSet(GeneratedItems(records, types))
               = {ItemPage(records, path) : path \in Items(records, types)}
      BY ItemsMade
    <2>2. \A path \in Items(records, types) :
            path[1] \in types /\ ItemPage(records, path).path = path
      BY ItemMade DEF Items
    <2>3. \A p \in PagePaths(GeneratedItems(records, types)) : p[1] \in types
      BY <2>1, <2>2, PathsOfPages
    <2>. QED
      BY <2>1, <2>3
  <1>3. /\ PageList(sessions) /\ In(sessions, {"session"})
        /\ ToSet(sessions) = {SessionPage(records, s) : s \in Open(records)}
    <2>1. /\ PageList(sessions)
          /\ ToSet(sessions) = {SessionPage(records, s) : s \in Open(records)}
      BY SessionsMade
    <2>2. \A p \in PagePaths(sessions) : \E s \in Open(records) : p = SessionPath(s)
      <3> HIDE DEF sessions
      <3>. QED
        BY <2>1, SessionMade, PathsOfPages
    <2>. QED
      BY <2>1, <2>2 DEF SessionPath
  <1>4. PageList(log) /\ ToSet(log) = {LogPage(records)} /\ In(log, {"log"})
    <2>1. LogPage(records) \in PageShape /\ LogPage(records).path = Log
      <3>1. PagePaths(<<>>) \subseteq Paths
        BY DEF PagePaths
      <3>. QED
        BY <3>1, NavigationMade
    <2>. QED
      BY <2>1, OnePage DEF Log
  <1>5. PageList(concepts) /\ In(concepts, ConceptTypes) /\ PageList(questions) /\ In(questions, QuestionTypes)
    BY <1>2
  <1>6. ToSet(concepts) \cup ToSet(questions) = {ItemPage(records, path) : path \in AllItems(records)}
    <2>1. Items(records, ConceptTypes) \cup Items(records, QuestionTypes) = AllItems(records)
      <3>1. \A p \in AllItems(records) : p[1] \in ItemTypes
        BY RecordTyped DEF AllItems
      <3>2. ItemTypes = ConceptTypes \cup QuestionTypes
        BY DEF ItemTypes, ConceptTypes, QuestionTypes
      <3>. QED
        BY <3>1, <3>2 DEF Items
    <2>2. ToSet(concepts) = {ItemPage(records, path) : path \in Items(records, ConceptTypes)}
      BY <1>2
    <2>3. ToSet(questions) = {ItemPage(records, path) : path \in Items(records, QuestionTypes)}
      BY <1>2
    <2>. QED
      BY <2>1, <2>2, <2>3
  <1>7. /\ "summary" \notin ItemTypes /\ "session" \notin ItemTypes /\ "log" \notin ItemTypes
        /\ "index" \notin ItemTypes /\ "overview" \notin ItemTypes
        /\ ConceptTypes \subseteq ItemTypes /\ QuestionTypes \subseteq ItemTypes
        /\ ConceptTypes \cap QuestionTypes = {}
    BY DEF ItemTypes, ConceptTypes, QuestionTypes
  <1>8. ContentPages(records) = (((summaries \o concepts) \o questions) \o sessions) \o log
    BY DEF ContentPages
  <1> HIDE DEF summaries, concepts, questions, sessions, log
  <1> DEFINE two == summaries \o concepts
             three == two \o questions
             four == three \o sessions
             all == four \o log
  <1>9. /\ PageList(two) /\ In(two, {"summary"} \cup ConceptTypes)
        /\ ToSet(two) = ToSet(summaries) \cup ToSet(concepts) /\ SummariesFirst(two)
    <2>1. /\ \A p \in PagePaths(summaries), q \in PagePaths(concepts) : p # q
          /\ \A q \in PagePaths(concepts) : q[1] # "summary"
      BY <1>1, <1>5, <1>7
    <2>2. /\ PageList(two) /\ ToSet(two) = ToSet(summaries) \cup ToSet(concepts)
          /\ PagePaths(two) = PagePaths(summaries) \cup PagePaths(concepts) /\ SummariesFirst(two)
      BY <1>1, <1>5, <2>1, ConcatOnce
    <2>. QED
      BY <1>1, <1>5, <2>2
  <1> HIDE DEF two
  <1>10. /\ PageList(three) /\ In(three, {"summary"} \cup ItemTypes)
         /\ ToSet(three) = ToSet(two) \cup ToSet(questions) /\ SummariesFirst(three)
    <2>1. /\ \A p \in PagePaths(two), q \in PagePaths(questions) : p # q
          /\ \A q \in PagePaths(questions) : q[1] # "summary"
      BY <1>5, <1>7, <1>9
    <2>2. /\ PageList(three) /\ ToSet(three) = ToSet(two) \cup ToSet(questions)
          /\ PagePaths(three) = PagePaths(two) \cup PagePaths(questions) /\ SummariesFirst(three)
      BY <1>5, <1>9, <2>1, ConcatOnce
    <2>. QED
      BY <1>5, <1>7, <1>9, <2>2
  <1> HIDE DEF three
  <1>11. /\ PageList(four) /\ In(four, {"summary", "session"} \cup ItemTypes)
         /\ ToSet(four) = ToSet(three) \cup ToSet(sessions) /\ SummariesFirst(four)
    <2>1. /\ \A p \in PagePaths(three), q \in PagePaths(sessions) : p # q
          /\ \A q \in PagePaths(sessions) : q[1] # "summary"
      BY <1>3, <1>7, <1>10
    <2>2. /\ PageList(four) /\ ToSet(four) = ToSet(three) \cup ToSet(sessions)
          /\ PagePaths(four) = PagePaths(three) \cup PagePaths(sessions) /\ SummariesFirst(four)
      BY <1>3, <1>10, <2>1, ConcatOnce
    <2>. QED
      BY <1>3, <1>10, <2>2
  <1> HIDE DEF four
  <1>12. /\ PageList(all) /\ In(all, {"summary", "session", "log"} \cup ItemTypes)
         /\ ToSet(all) = ToSet(four) \cup ToSet(log) /\ SummariesFirst(all)
    <2>1. /\ \A p \in PagePaths(four), q \in PagePaths(log) : p # q
          /\ \A q \in PagePaths(log) : q[1] # "summary"
      BY <1>4, <1>7, <1>11
    <2>2. /\ PageList(all) /\ ToSet(all) = ToSet(four) \cup ToSet(log)
          /\ PagePaths(all) = PagePaths(four) \cup PagePaths(log) /\ SummariesFirst(all)
      BY <1>4, <1>11, <2>1, ConcatOnce
    <2>. QED
      BY <1>4, <1>11, <2>2
  <1>13. ContentPages(records) = all
    BY <1>8 DEF two, three, four
  <1> HIDE DEF all
  <1>14. ToSet(all) = ContentMade(records)
    BY <1>1, <1>3, <1>4, <1>6, <1>9, <1>10, <1>11, <1>12 DEF ContentMade
  <1>15. PagePaths(all) \subseteq Paths
    <2>1. \A i \in DOMAIN all : all[i] \in PageShape
      BY <1>12, LenProperties, ElementOfSeq DEF PageList
    <2>2. \A i \in DOMAIN all : all[i].path \in Paths
      BY <2>1 DEF PageShape
    <2>. QED
      BY <2>2 DEF PagePaths
  <1>. QED
    BY <1>7, <1>12, <1>13, <1>14, <1>15

\* All the pages of a rebuild, and the catalog and the overview made from those before.
LEMMA GeneratedOnce ==
  ASSUME NEW records, Corpus(records)
  PROVE  LET index == IndexPage(records, ContentPages(records))
             overview == OverviewPage(records, IndexedPages(records))
         IN  /\ PageList(GeneratedPages(records)) /\ SummariesFirst(GeneratedPages(records))
             /\ ToSet(GeneratedPages(records)) = ContentMade(records) \cup {index, overview}
             /\ index.path = Index /\ index.related = PagePaths(ContentPages(records))
             /\ index.links = PagePaths(ContentPages(records)) \cup {Overview, Log}
                                \cup Quotes(records, DOMAIN records, {"summary"})
             /\ overview.path = Overview /\ overview.related = PagePaths(IndexedPages(records))
             /\ overview.links = {Index, Log}
             /\ PagePaths(IndexedPages(records)) = PagePaths(ContentPages(records)) \cup {Index}
             /\ PagePaths(GeneratedPages(records)) = PagePaths(IndexedPages(records)) \cup {Overview}
  <1> DEFINE content == ContentPages(records)
             index == IndexPage(records, content)
             indexed == IndexedPages(records)
             overview == OverviewPage(records, indexed)
  <1>1. /\ PageList(content) /\ ToSet(content) = ContentMade(records)
        /\ PagePaths(content) \subseteq Paths
        /\ \A p \in PagePaths(content) : p[1] \notin {"index", "overview"}
        /\ SummariesFirst(content)
    BY ContentOnce
  <1>2. indexed = content \o <<index>> /\ GeneratedPages(records) = indexed \o <<overview>>
    BY DEF IndexedPages, GeneratedPages
  <1> HIDE DEF content, indexed
  <1>3. /\ index \in PageShape /\ index.path = Index /\ index.related = PagePaths(content)
        /\ index.links = PagePaths(content) \cup {Overview, Log}
                           \cup Quotes(records, DOMAIN records, {"summary"})
    BY <1>1, NavigationMade
  <1> HIDE DEF index
  <1>4. /\ PageList(indexed) /\ ToSet(indexed) = ContentMade(records) \cup {index}
        /\ PagePaths(indexed) = PagePaths(content) \cup {Index} /\ SummariesFirst(indexed)
    <2>1. PageList(<<index>>) /\ ToSet(<<index>>) = {index} /\ PagePaths(<<index>>) = {Index}
      BY <1>3, OnePage
    <2>2. /\ \A p \in PagePaths(content), q \in PagePaths(<<index>>) : p # q
          /\ \A q \in PagePaths(<<index>>) : q[1] # "summary"
      BY <1>1, <2>1 DEF Index
    <2>. QED
      BY <1>1, <1>2, <2>1, <2>2, ConcatOnce
  <1>5. PagePaths(indexed) \subseteq Paths /\ Overview \notin PagePaths(indexed)
    <2>1. Index \in Paths /\ Overview # Index /\ Overview[1] = "overview"
      BY DEF Paths, Index, Overview
    <2>. QED
      BY <1>1, <1>4, <2>1
  <1>6. /\ overview \in PageShape /\ overview.path = Overview
        /\ overview.related = PagePaths(indexed) /\ overview.links = {Index, Log}
    BY <1>5, NavigationMade
  <1> HIDE DEF overview
  <1>7. /\ PageList(indexed \o <<overview>>)
        /\ ToSet(indexed \o <<overview>>) = ToSet(indexed) \cup {overview}
        /\ PagePaths(indexed \o <<overview>>) = PagePaths(indexed) \cup {Overview}
        /\ SummariesFirst(indexed \o <<overview>>)
    <2>1. /\ PageList(<<overview>>) /\ ToSet(<<overview>>) = {overview}
          /\ PagePaths(<<overview>>) = {Overview}
      BY <1>6, OnePage
    <2>2. /\ \A p \in PagePaths(indexed), q \in PagePaths(<<overview>>) : p # q
          /\ \A q \in PagePaths(<<overview>>) : q[1] # "summary"
      BY <1>5, <2>1 DEF Overview
    <2>3. /\ PageList(indexed \o <<overview>>)
          /\ ToSet(indexed \o <<overview>>) = ToSet(indexed) \cup ToSet(<<overview>>)
          /\ PagePaths(indexed \o <<overview>>) = PagePaths(indexed) \cup PagePaths(<<overview>>)
          /\ SummariesFirst(indexed \o <<overview>>)
      BY <1>4, <2>1, <2>2, ConcatOnce
    <2>. QED
      BY <2>1, <2>3
  <1>8. ToSet(GeneratedPages(records)) = ContentMade(records) \cup {index, overview}
    BY <1>2, <1>4, <1>7
  <1>. QED
    BY <1>2, <1>3, <1>4, <1>6, <1>7, <1>8 DEF content, indexed, index, overview

-----------------------------------------------------------------------------
(* What is on the pages, and what they are related to.                     *)

\* Every page of a rebuild is made by one of the generators.
LEMMA MadeBy ==
  ASSUME NEW records, Corpus(records), NEW page \in ToSet(GeneratedPages(records))
  PROVE  \/ \E r \in DOMAIN records : page = SummaryPage(records, r) /\ page.path = SummaryPath(r)
         \/ \E path \in AllItems(records) : /\ page = ItemPage(records, path) /\ page.path = path
                                            /\ path[1] \in ItemTypes
         \/ \E s \in Open(records) : page = SessionPage(records, s) /\ page.path = SessionPath(s)
         \/ page = LogPage(records) /\ page.path = Log
         \/ page = IndexPage(records, ContentPages(records)) /\ page.path = Index
         \/ page = OverviewPage(records, IndexedPages(records)) /\ page.path = Overview
  <1>1. \/ page \in ContentMade(records)
        \/ page = IndexPage(records, ContentPages(records)) /\ page.path = Index
        \/ page = OverviewPage(records, IndexedPages(records)) /\ page.path = Overview
    BY GeneratedOnce
  <1>2. \A r \in DOMAIN records : SummaryPage(records, r).path = SummaryPath(r)
    BY SummaryMade
  <1>3. \A path \in AllItems(records) : ItemPage(records, path).path = path /\ path[1] \in ItemTypes
    <2>1. \A path \in AllItems(records) : path[1] \in ItemTypes
      BY RecordTyped DEF AllItems
    <2>. QED
      BY <2>1, ItemMade
  <1>4. \A s \in Open(records) : SessionPage(records, s).path = SessionPath(s)
    BY SessionMade
  <1>5. LogPage(records).path = Log
    BY DEF LogPage, Page
  <1>. QED
    BY <1>1, <1>2, <1>3, <1>4, <1>5 DEF ContentMade

\* The pages a rebuild makes.
LEMMA PathsMade ==
  ASSUME NEW records, Corpus(records)
  PROVE  LET paths == PagePaths(GeneratedPages(records))
         IN  /\ {Log, Index, Overview} \subseteq paths
             /\ \A r \in DOMAIN records :
                  /\ SummaryPath(r) \in paths /\ ItemPaths(records, r) \subseteq paths
                  /\ SessionPaths(records, r) \subseteq paths
             /\ PagePaths(ContentPages(records)) \subseteq paths
             /\ paths = PagePaths(IndexedPages(records)) \cup {Overview}
  <1> DEFINE paths == PagePaths(GeneratedPages(records))
             content == PagePaths(ContentPages(records))
  <1>1. /\ paths = PagePaths(IndexedPages(records)) \cup {Overview}
        /\ PagePaths(IndexedPages(records)) = content \cup {Index}
    BY GeneratedOnce
  <1>2. content = {page.path : page \in ContentMade(records)}
    BY PathsOfPages, ContentOnce
  <1>3. Log \in content
    <2>1. LogPage(records) \in ContentMade(records) /\ LogPage(records).path = Log
      BY DEF ContentMade, LogPage, Page
    <2>. QED
      BY <1>2, <2>1
  <1>4. ASSUME NEW r \in DOMAIN records
        PROVE  /\ SummaryPath(r) \in content /\ ItemPaths(records, r) \subseteq content
               /\ SessionPaths(records, r) \subseteq content
    <2>1. SummaryPage(records, r) \in ContentMade(records) /\ SummaryPage(records, r).path = SummaryPath(r)
      BY SummaryMade DEF ContentMade
    <2>2. \A path \in ItemPaths(records, r) :
            ItemPage(records, path) \in ContentMade(records) /\ ItemPage(records, path).path = path
      BY ItemMade DEF ContentMade, AllItems
    <2>3. \A path \in SessionPaths(records, r) : \E page \in ContentMade(records) : page.path = path
      <3>1. CASE records[r].session = NoSession
        BY <3>1 DEF SessionPaths
      <3>2. CASE records[r].session # NoSession
        <4>1. records[r].session \in Open(records)
          BY <3>2, RecordTyped DEF Open
        <4>2. SessionPage(records, records[r].session) \in ContentMade(records)
              /\ SessionPage(records, records[r].session).path = SessionPath(records[r].session)
          BY <4>1, SessionMade DEF ContentMade
        <4>. QED
          BY <3>2, <4>2 DEF SessionPaths
      <3>. QED
        BY <3>1, <3>2
    <2>. QED
      BY <1>2, <2>1, <2>2, <2>3
  <1> HIDE DEF paths, content
  <1>5. \A r \in DOMAIN records :
          /\ SummaryPath(r) \in paths /\ ItemPaths(records, r) \subseteq paths
          /\ SessionPaths(records, r) \subseteq paths
    BY <1>1, <1>4
  <1>. QED
    BY <1>1, <1>3, <1>5 DEF paths, content

Copied(records, t) ==
  \E r \in DOMAIN records : t \in Quotes(records, {r}, Texts) \cup records[r].supporting

\* The generators link to pages they make, or copy a link from a record.
LEMMA LinksMadeOrCopied ==
  ASSUME NEW records, Corpus(records), NEW page \in ToSet(GeneratedPages(records)),
         NEW t \in page.links \cup page.related
  PROVE  t \in PagePaths(GeneratedPages(records)) \/ Copied(records, t)
  <1> DEFINE paths == PagePaths(GeneratedPages(records))
  <1>1. /\ {Log, Index, Overview} \subseteq paths
        /\ \A r \in DOMAIN records :
             /\ SummaryPath(r) \in paths /\ ItemPaths(records, r) \subseteq paths
             /\ SessionPaths(records, r) \subseteq paths
        /\ PagePaths(ContentPages(records)) \subseteq paths
        /\ PagePaths(IndexedPages(records)) \subseteq paths
    BY PathsMade
  <1> HIDE DEF paths
  <1>8. \A rs \in SUBSET DOMAIN records : \A texts \in SUBSET Texts :
          \A u \in Quotes(records, rs, texts) : Copied(records, u)
    BY QuotesTyped DEF Copied
  <1>2. ASSUME NEW r \in DOMAIN records, page = SummaryPage(records, r)
        PROVE  t \in paths \/ Copied(records, t)
    <2>1. /\ page.links = Quotes(records, {r}, {"summary", "sections"})
          /\ page.related = {Overview} \cup SessionPaths(records, r) \cup ItemPaths(records, r)
      BY <1>2, SummaryMade
    <2>2. {r} \in SUBSET DOMAIN records /\ {"summary", "sections"} \in SUBSET Texts
      BY DEF Texts
    <2>. QED
      BY <1>1, <1>8, <2>1, <2>2
  <1>3. ASSUME NEW path \in AllItems(records), page = ItemPage(records, path)
        PROVE  t \in paths \/ Copied(records, t)
    <2> DEFINE rs == Contributors(records, path)
               close == UNION {{SummaryPath(r)} \cup ItemPaths(records, r)
                                    \cup SessionPaths(records, r) : r \in rs}
               supporting == IF path[1] \in QuestionTypes
                             THEN UNION {records[r].supporting : r \in rs} ELSE {}
    <2>1. /\ rs \subseteq DOMAIN records
          /\ page.links = {SummaryPath(r) : r \in rs} \cup Quotes(records, rs, ItemTexts(path))
          /\ page.related = {Overview} \cup close \cup supporting
      BY <1>3, ItemMade
    <2>5. ItemTexts(path) \in SUBSET Texts
      BY DEF ItemTexts, Texts
    <2> HIDE DEF rs
    <2>2. \A u \in close : u \in paths
      BY <1>1, <2>1
    <2>3. \A u \in supporting : Copied(records, u)
      BY <2>1 DEF Copied
    <2>4. \A u \in page.links : u \in paths \/ Copied(records, u)
      BY <1>1, <1>8, <2>1, <2>5
    <2> HIDE DEF close, supporting
    <2>. QED
      BY <1>1, <2>1, <2>2, <2>3, <2>4
  <1>4. ASSUME NEW s \in Open(records), page = SessionPage(records, s)
        PROVE  t \in paths \/ Copied(records, t)
    <2>1. /\ page.links = Quotes(records, SessionIds(records, s), {"summary"})
          /\ page.related = {Overview} \cup UNION {{SummaryPath(r)} \cup ItemPaths(records, r) :
                                                      r \in SessionIds(records, s)}
      BY <1>4, SessionMade
    <2>2. SessionIds(records, s) \in SUBSET DOMAIN records /\ {"summary"} \in SUBSET Texts
      BY DEF SessionIds, Texts
    <2>3. \A r \in SessionIds(records, s) : r \in DOMAIN records
      BY <2>2
    <2> HIDE DEF SessionIds
    <2>. QED
      BY <1>1, <1>8, <2>1, <2>2, <2>3
  <1>5. CASE page = LogPage(records)
    BY <1>5 DEF LogPage, Page
  <1>6. CASE page = IndexPage(records, ContentPages(records))
    <2>1. page.related = PagePaths(ContentPages(records))
      BY <1>6, GeneratedOnce
    <2>2. page.links = PagePaths(ContentPages(records)) \cup {Overview, Log}
                         \cup Quotes(records, DOMAIN records, {"summary"})
      BY <1>6, GeneratedOnce
    <2>3. {"summary"} \in SUBSET Texts
      BY DEF Texts
    <2>. QED
      BY <1>1, <1>8, <2>1, <2>2, <2>3 DEF paths
  <1>7. CASE page = OverviewPage(records, IndexedPages(records))
    <2>1. page.related = PagePaths(IndexedPages(records))
      BY <1>7, GeneratedOnce
    <2>2. page.links = {Index, Log}
      BY <1>7, GeneratedOnce
    <2>. QED
      BY <1>1, <2>1, <2>2 DEF paths
  <1>. QED
    BY <1>2, <1>3, <1>4, <1>5, <1>6, <1>7, MadeBy DEF paths

\* What the page of a session is related to is related to its path, by some page that
\* carries the path of the link and is made no later: the page that loses its path to
\* another session's leaves no one-sided link behind.
LEMMA SessionsAreAnswered ==
  ASSUME NEW records, Corpus(records),
         NEW page \in ToSet(GeneratedPages(records)), page.path[1] = "session",
         NEW q \in ToSet(GeneratedPages(records)), q.path \in page.related
  PROVE  \E u \in ToSet(GeneratedPages(records)) :
           /\ u.path = q.path /\ page.path \in u.related
           /\ u = q \/ u.path[1] = "summary"
  <1> DEFINE made == ToSet(GeneratedPages(records))
  <1>1. PICK s \in Open(records) : page = SessionPage(records, s) /\ page.path = SessionPath(s)
    BY MadeBy DEF SummaryPath, ItemTypes, Log, Index, Overview
  <1>2. page.related = {Overview} \cup UNION {{SummaryPath(r)} \cup ItemPaths(records, r) :
                                                 r \in SessionIds(records, s)}
    BY <1>1, SessionMade
  <1>3. s # NoSession
    BY CompilerAssumption DEF Open
  <1>4. \A r \in SessionIds(records, s) :
          r \in DOMAIN records /\ SessionPaths(records, r) = {page.path}
    BY <1>1, <1>3 DEF SessionIds, SessionPaths
  <1>5. ASSUME q.path = Overview
        PROVE  page.path \in q.related
    <2>1. q = OverviewPage(records, IndexedPages(records))
      BY <1>5, MadeBy DEF SummaryPath, ItemTypes, SessionPath, Log, Index, Overview
    <2>2. q.related = PagePaths(IndexedPages(records))
      BY <2>1, GeneratedOnce
    <2>3. page.path \in PagePaths(GeneratedPages(records)) /\ page.path # Overview
      BY PathsOfPages DEF Overview
    <2>. QED
      BY <2>2, <2>3, PathsMade
  <1>6. ASSUME NEW r \in SessionIds(records, s), q.path = SummaryPath(r)
        PROVE  \E u \in made : u.path = q.path /\ page.path \in u.related /\ u.path[1] = "summary"
    <2> DEFINE u == SummaryPage(records, r)
    <2>1. u \in made
      BY <1>4, GeneratedOnce DEF ContentMade
    <2>2. u.path = SummaryPath(r) /\ page.path \in u.related
      <3>1. r \in DOMAIN records /\ page.path \in SessionPaths(records, r)
        BY <1>4
      <3>2. /\ u.path = SummaryPath(r)
            /\ u.related = {Overview} \cup SessionPaths(records, r) \cup ItemPaths(records, r)
        BY <3>1, SummaryMade
      <3>. QED
        BY <3>1, <3>2
    <2>3. SummaryPath(r)[1] = "summary"
      BY DEF SummaryPath
    <2> HIDE DEF u, made
    <2>. QED
      BY <1>6, <2>1, <2>2, <2>3
  <1>7. ASSUME NEW r \in SessionIds(records, s), q.path \in ItemPaths(records, r)
        PROVE  page.path \in q.related
    <2>1. r \in DOMAIN records /\ q.path[1] \in ItemTypes
      BY <1>4, <1>7, RecordTyped
    <2>2. q.path \in AllItems(records) /\ q = ItemPage(records, q.path)
      BY <2>1, MadeBy DEF SummaryPath, ItemTypes, SessionPath, Log, Index, Overview
    <2>3. r \in Contributors(records, q.path)
      BY <1>7, <2>1 DEF Contributors, ItemPaths
    <2> DEFINE rs == Contributors(records, q.path)
               close == UNION {{SummaryPath(u)} \cup ItemPaths(records, u)
                                    \cup SessionPaths(records, u) : u \in rs}
    <2>4. close \subseteq q.related
      BY <2>2, ItemMade
    <2>5. SessionPaths(records, r) \subseteq close
      <3> HIDE DEF rs
      <3>1. r \in rs
        BY <2>3 DEF rs
      <3>. QED
        BY <3>1
    <2>. QED
      BY <1>4, <2>4, <2>5
  <1> HIDE DEF made
  <1>8. \/ q.path = Overview
        \/ \E r \in SessionIds(records, s) : q.path = SummaryPath(r) \/ q.path \in ItemPaths(records, r)
    BY <1>2
  <1> DEFINE Summary(u) == u.path = q.path /\ page.path \in u.related /\ u.path[1] = "summary"
  <1>9. page.path \in q.related \/ \E u \in made : Summary(u)
    <2>1. ASSUME NEW r \in SessionIds(records, s), q.path = SummaryPath(r)
          PROVE  \E u \in made : Summary(u)
      BY <1>6, <2>1
    <2> HIDE DEF Summary
    <2>. QED
      BY <1>5, <1>7, <1>8, <2>1
  <1>. QED
    BY <1>9 DEF made

\* No summary is related to a summary.
LEMMA SummariesAreApart ==
  ASSUME NEW records, Corpus(records),
         NEW page \in ToSet(GeneratedPages(records)), page.path[1] = "summary",
         NEW q \in page.related
  PROVE  q[1] # "summary"
  <1>1. PICK r \in DOMAIN records : page = SummaryPage(records, r)
    BY MadeBy DEF SessionPath, ItemTypes, Log, Index, Overview
  <1>2. page.related = {Overview} \cup SessionPaths(records, r) \cup ItemPaths(records, r)
    BY <1>1, SummaryMade
  <1>3. \A p \in SessionPaths(records, r) : p[1] # "summary"
    BY DEF SessionPaths, SessionPath
  <1>4. \A p \in ItemPaths(records, r) : p[1] # "summary"
    BY RecordTyped DEF ItemTypes
  <1>. QED
    BY <1>2, <1>3, <1>4 DEF Overview

-----------------------------------------------------------------------------
(* apply_backlinks.  The second loop changes the links of pages it has     *)
(* passed and of pages it has yet to visit while it runs.  Pages are       *)
(* positions 1..n of a list, path[i] may be the path of several of them,   *)
(* and from gives the links the generators left.                           *)

\* A path that a page without a path of its own links to links back already, if the
\* loop comes to it first: from some page that the loop comes to first as well.
Answered(path, from) ==
  \A i, k \in DOMAIN path :
    ~Owns(path, i) /\ k < i /\ path[k] \in from[i]
      => \E m \in DOMAIN path : m < i /\ path[m] = path[k] /\ path[i] \in from[m]

\* Links to others stay.
Kept(path, from, links) == \A i \in DOMAIN path : from[i] \ {path[i]} \subseteq links[i]

\* The generators linked a page of path p to path q, or one of path q to path p.
Linking(path, from, p, q) ==
  \E j, k \in DOMAIN path : path[j] = p /\ path[k] = q /\ (q \in from[j] \/ p \in from[k])

\* No link to oneself, and none but those of the generators and their answers.
Justified(path, from, links) ==
  \A i \in DOMAIN path : \A p \in links[i] :
    p # path[i] /\ (p \in from[i] \/ (Owns(path, i) /\ Linking(path, from, path[i], p)))

\* The pages before c are linked from the pages they link to, the links that the
\* loop added to them included.
Returned(path, links, c) ==
  \A i, j \in DOMAIN path :
    i < c /\ Owns(path, j) /\ path[j] \in links[i] => path[i] \in links[j]

LoopAt(path, from, links, c) ==
  Kept(path, from, links) /\ Justified(path, from, links) /\ Returned(path, links, c)

LEMMA FirstLoop ==
  ASSUME NEW n \in Nat, NEW path, DOMAIN path = 1..n, NEW from \in [1..n -> SUBSET Paths]
  PROVE  /\ DropSelf(path, from) \in [1..n -> SUBSET Paths]
         /\ LoopAt(path, from, DropSelf(path, from), 1)
  <1>1. DropSelf(path, from) = [i \in 1..n |-> from[i] \ {path[i]}]
    BY DEF DropSelf
  <1>2. Kept(path, from, DropSelf(path, from)) /\ Justified(path, from, DropSelf(path, from))
    BY <1>1 DEF Kept, Justified
  <1>3. Returned(path, DropSelf(path, from), 1)
    BY <1>1 DEF Returned
  <1>. QED
    BY <1>1, <1>2, <1>3 DEF LoopAt

\* A round of the second loop: what page c links to now links back.
LEMMA Round ==
  ASSUME NEW n \in Nat, NEW path \in [1..n -> Paths], NEW from \in [1..n -> SUBSET Paths],
         NEW links \in [1..n -> SUBSET Paths], NEW c \in 1..n,
         Answered(path, from), LoopAt(path, from, links, c)
  PROVE  /\ Propagate(path, links, c) \in [1..n -> SUBSET Paths]
         /\ LoopAt(path, from, Propagate(path, links, c), c + 1)
  <1> DEFINE after == Propagate(path, links, c)
             Gains(j) == path[j] \in links[c] /\ path[j] # path[c] /\ Owns(path, j)
  <1>1. /\ after \in [1..n -> SUBSET Paths]
        /\ \A j \in 1..n : after[j] = IF Gains(j) THEN links[j] \cup {path[c]} ELSE links[j]
    BY DEF Propagate
  <1> HIDE DEF after
  <1>2. Kept(path, from, links) /\ Justified(path, from, links) /\ Returned(path, links, c)
    BY DEF LoopAt
  <1>3. \A j \in 1..n : links[j] \subseteq after[j]
    BY <1>1
  <1>4. \A i, j \in 1..n : Owns(path, i) /\ Owns(path, j) /\ path[i] = path[j] => i = j
    BY DEF Owns
  <1>5. Kept(path, from, after)
    BY <1>2, <1>3 DEF Kept
  <1>6. Justified(path, from, after)
    <2> SUFFICES ASSUME NEW i \in 1..n, NEW p \in after[i]
                 PROVE  /\ p # path[i]
                        /\ p \in from[i] \/ (Owns(path, i) /\ Linking(path, from, path[i], p))
      BY DEF Justified
    <2>1. CASE p \in links[i]
      BY <1>2, <2>1 DEF Justified
    <2>2. CASE p \notin links[i]
      <3>1. p = path[c] /\ Gains(i)
        BY <1>1, <2>2
      <3>2. path[i] \in from[c] \/ Linking(path, from, path[c], path[i])
        BY <1>2, <3>1 DEF Justified
      <3>3. Linking(path, from, path[i], path[c])
        BY <3>2 DEF Linking
      <3>. QED
        BY <3>1, <3>3
    <2>. QED
      BY <2>1, <2>2
  <1>7. Returned(path, after, c + 1)
    <2> SUFFICES ASSUME NEW i \in 1..n, NEW j \in 1..n, i < c + 1, Owns(path, j),
                        path[j] \in after[i]
                 PROVE  path[i] \in after[j]
      BY DEF Returned
    <2>1. CASE i = c
      <3>1. path[j] \in links[c] /\ path[j] # path[c]
        BY <1>1, <1>2, <2>1 DEF Justified
      <3>. QED
        BY <1>1, <2>1, <3>1
    <2>2. CASE i # c /\ path[j] \in links[i]
      <3>1. i < c
        BY <2>2
      <3>. QED
        BY <1>2, <1>3, <2>2, <3>1 DEF Returned
    <2>3. CASE i # c /\ path[j] \notin links[i]
      <3>1. path[j] = path[c] /\ Gains(i)
        BY <1>1, <2>3
      <3>2. CASE j = c
        BY <1>3, <3>1, <3>2
      <3>3. CASE j # c
        <4>1. ~Owns(path, c)
          BY <1>4, <3>1, <3>3
        <4>2. path[i] \in from[c]
          BY <1>2, <3>1, <4>1 DEF Justified
        <4>3. PICK m \in 1..n : m < c /\ path[m] = path[i] /\ path[c] \in from[m]
          <5>1. i < c
            BY <2>3
          <5>. QED
            BY <4>1, <4>2, <5>1 DEF Answered
        <4>4. path[c] \in links[m]
          BY <1>2, <3>1, <4>3 DEF Kept
        <4>5. path[m] \in links[j]
          BY <1>2, <3>1, <4>3, <4>4 DEF Returned
        <4>. QED
          BY <1>3, <4>3, <4>5
      <3>. QED
        BY <3>2, <3>3
    <2>. QED
      BY <2>1, <2>2, <2>3
  <1>. QED
    BY <1>1, <1>5, <1>6, <1>7 DEF LoopAt, after

\* With distinct paths, what the last round leaves is the closure of what there was.
LEMMA LastRound ==
  ASSUME NEW n \in Nat, NEW path \in [1..n -> Paths], NEW from \in [1..n -> SUBSET Paths],
         NEW links \in [1..n -> SUBSET Paths], LoopAt(path, from, links, n + 1), Distinct(path)
  PROVE  links = Closure(path, from)
  <1>1. Kept(path, from, links) /\ Justified(path, from, links) /\ Returned(path, links, n + 1)
    BY DEF LoopAt
  <1> DEFINE Back(i) == {path[j] : j \in {j \in 1..n : path[i] \in from[j]}}
             Closed(i) == (from[i] \cup Back(i)) \ {path[i]}
  <1>2. ASSUME NEW i \in 1..n PROVE links[i] = Closed(i)
    <2>1. ASSUME NEW p \in links[i] PROVE p \in Closed(i)
      <3>1. p # path[i] /\ (p \in from[i] \/ Linking(path, from, path[i], p))
        BY <1>1, <2>1 DEF Justified
      <3>2. CASE p \in from[i]
        BY <3>1, <3>2
      <3>3. CASE Linking(path, from, path[i], p)
        <4>1. PICK j, k \in 1..n : path[j] = path[i] /\ path[k] = p /\ (p \in from[j] \/ path[i] \in from[k])
          BY <3>3 DEF Linking
        <4>2. j = i
          BY <4>1 DEF Distinct
        <4>. QED
          BY <3>1, <4>1, <4>2
      <3>. QED
        BY <3>1, <3>2, <3>3
    <2>2. ASSUME NEW p \in Closed(i) PROVE p \in links[i]
      <3>1. CASE p \in from[i]
        BY <1>1, <2>2, <3>1 DEF Kept
      <3>2. CASE p \in Back(i)
        <4>1. PICK j \in 1..n : p = path[j] /\ path[i] \in from[j]
          BY <3>2
        <4>2. path[i] \in links[j] /\ j < n + 1
          BY <1>1, <2>2, <4>1 DEF Kept
        <4>3. Owns(path, i)
          BY DEF Distinct, Owns
        <4>. QED
          BY <1>1, <4>1, <4>2, <4>3 DEF Returned
      <3>. QED
        BY <2>2, <3>1, <3>2
    <2>. QED
      BY <2>1, <2>2
  <1>3. Closure(path, from) = [i \in 1..n |-> Closed(i)]
    BY DEF Closure
  <1> HIDE DEF Closed
  <1>. QED
    BY <1>2, <1>3

-----------------------------------------------------------------------------
(* Pages in memory and on disk.                                            *)

LEMMA RelatedReplaced ==
  ASSUME NEW ps \in Seq(PageShape), NEW links \in [DOMAIN ps -> SUBSET Paths]
  PROVE  LET qs == WithRelated(ps, links)
         IN  /\ qs \in Seq(PageShape) /\ DOMAIN qs = DOMAIN ps /\ Len(qs) = Len(ps)
             /\ PathOf(qs) = PathOf(ps) /\ Related(qs) = links
             /\ \A i \in DOMAIN ps : /\ qs[i].path = ps[i].path /\ qs[i].links = ps[i].links
                                     /\ qs[i].ids = ps[i].ids /\ qs[i].created = ps[i].created
                                     /\ qs[i].updated = ps[i].updated
  <1> DEFINE qs == WithRelated(ps, links)
  <1>1. Len(ps) \in Nat /\ DOMAIN ps = 1..Len(ps) /\ \A i \in DOMAIN ps : ps[i] \in PageShape
    BY LenProperties, ElementOfSeq
  <1>2. \A i \in DOMAIN ps :
          LET q == [ps[i] EXCEPT !.related = links[i]]
          IN  /\ q \in PageShape /\ q.related = links[i] /\ q.path = ps[i].path
              /\ q.links = ps[i].links /\ q.ids = ps[i].ids /\ q.created = ps[i].created
              /\ q.updated = ps[i].updated
    BY <1>1 DEF PageShape
  <1>3. DOMAIN qs = DOMAIN ps /\ \A i \in DOMAIN ps : qs[i] = [ps[i] EXCEPT !.related = links[i]]
    BY DEF WithRelated
  <1>4. qs \in [1..Len(ps) -> PageShape]
    BY <1>1, <1>2 DEF WithRelated
  <1> HIDE DEF qs
  <1>5. qs \in Seq(PageShape) /\ Len(qs) = Len(ps)
    BY <1>1, <1>4, SequenceOf
  <1>6. PathOf(qs) = PathOf(ps) /\ Related(qs) = links
    BY <1>2, <1>3 DEF PathOf, Related
  <1>. QED
    BY <1>2, <1>3, <1>5, <1>6 DEF qs

LEMMA PagesTyped ==
  ASSUME NEW ps \in Seq(PageShape)
  PROVE  /\ Len(ps) \in Nat /\ DOMAIN ps = 1..Len(ps)
         /\ PathOf(ps) \in [1..Len(ps) -> Paths]
         /\ Related(ps) \in [1..Len(ps) -> SUBSET Paths]
         /\ \A i \in DOMAIN ps : PathOf(ps)[i] = ps[i].path /\ Related(ps)[i] = ps[i].related
         /\ PagePaths(ps) \subseteq Paths
  <1>1. Len(ps) \in Nat /\ DOMAIN ps = 1..Len(ps) /\ \A i \in DOMAIN ps : ps[i] \in PageShape
    BY LenProperties, ElementOfSeq
  <1>2. \A i \in DOMAIN ps : ps[i].path \in Paths /\ ps[i].related \in SUBSET Paths
    BY <1>1 DEF PageShape
  <1>. QED
    BY <1>1, <1>2 DEF PathOf, Related, PagePaths

\* Every path has a page that answers to it: the last of those that carry it.
LEMMA OwnerExists ==
  ASSUME NEW n \in Nat, NEW path, DOMAIN path = 1..n, NEW k \in 1..n
  PROVE  \E i \in 1..n : path[i] = path[k] /\ Owns(path, i)
  <1> DEFINE S == {i \in 1..n : path[i] = path[k]}
  <1>1. S \in SUBSET Nat /\ S # {} /\ S \in SUBSET (1..n)
    OBVIOUS
  <1>2. IsFiniteSet(S)
    <2>1. IsFiniteSet(1..n)
      BY FS_Interval
    <2> HIDE DEF S
    <2>. QED
      BY <1>1, <2>1, FS_Subset
  <1>3. Max(S) \in S /\ \A x \in S : Max(S) >= x
    <2> HIDE DEF S
    <2>. QED
      BY <1>1, <1>2, GreatestExists
  <1>. QED
    BY <1>3 DEF Owns

\* The pages in memory are those of the generators, but for the links added to them.
FromRecords(ps, from, records) ==
  /\ DOMAIN ps = DOMAIN GeneratedPages(records)
  /\ \A i \in DOMAIN ps :
       LET made == GeneratedPages(records)[i]
       IN  /\ ps[i].path = made.path /\ ps[i].links = made.links /\ ps[i].ids = made.ids
           /\ ps[i].created = made.created /\ ps[i].updated = made.updated
           /\ from[i] = made.related

LEMMA PagesAnswered ==
  ASSUME NEW records, Corpus(records), NEW ps \in Seq(PageShape), NEW from,
         FromRecords(ps, from, records)
  PROVE  /\ Answered(PathOf(ps), from)
         /\ PagePaths(ps) = PagePaths(GeneratedPages(records))
  <1> DEFINE made == GeneratedPages(records)
  <1>1. DOMAIN made = DOMAIN ps /\ \A i \in DOMAIN ps : ps[i].path = made[i].path /\ from[i] = made[i].related
    BY DEF FromRecords
  <1>2. PageList(made) /\ SummariesFirst(made)
    BY GeneratedOnce
  <1> HIDE DEF made
  <1>3. PagePaths(ps) = PagePaths(made)
    BY <1>1 DEF PagePaths
  <1>4. Answered(PathOf(ps), from)
    <2>1. DOMAIN PathOf(ps) = DOMAIN ps /\ \A i \in DOMAIN ps : PathOf(ps)[i] = ps[i].path
      BY DEF PathOf
    <2> SUFFICES ASSUME NEW i \in DOMAIN ps, NEW k \in DOMAIN ps, ~Owns(PathOf(ps), i), k < i,
                        ps[k].path \in from[i]
                 PROVE  \E m \in DOMAIN ps :
                          m < i /\ ps[m].path = ps[k].path /\ ps[i].path \in from[m]
      BY <2>1 DEF Answered
    <2>2. PICK j \in DOMAIN ps : ps[j].path = ps[i].path /\ ~(j <= i)
      BY <2>1 DEF Owns
    <2>3. j # i
      <3>1. i \in Nat
        BY LenProperties
      <3>. QED
        BY <2>2, <3>1
    <2>4. made[i].path[1] \in {"summary", "session"}
      BY <1>1, <1>2, <2>2, <2>3 DEF PageList, Once
    <2>5. made[i] \in ToSet(made) /\ made[k] \in ToSet(made)
      BY <1>1 DEF ToSet
    <2>6. made[k].path \in made[i].related
      BY <1>1
    <2>7. made[i].path[1] # "summary"
      <3>1. made[i].path[1] = "summary" => made[k].path[1] = "summary"
        BY <1>1, <1>2 DEF SummariesFirst
      <3>. QED
        BY <2>5, <2>6, <3>1, SummariesAreApart DEF made
    <2>8. PICK u \in ToSet(made) : /\ u.path = made[k].path /\ made[i].path \in u.related
                                   /\ u = made[k] \/ u.path[1] = "summary"
      BY <2>4, <2>5, <2>6, <2>7, SessionsAreAnswered DEF made
    <2>9. CASE u = made[k]
      BY <1>1, <2>8, <2>9
    <2>10. CASE u.path[1] = "summary"
      <3>1. PICK m \in DOMAIN ps : made[m] = u
        BY <1>1 DEF ToSet
      <3>2. ~(i < m) /\ m # i
        BY <1>1, <1>2, <2>7, <2>10, <3>1 DEF SummariesFirst
      <3>3. m < i
        <4>1. m \in Nat /\ i \in Nat
          BY LenProperties
        <4>. QED
          BY <3>2, <4>1
      <3>. QED
        BY <1>1, <2>8, <3>1, <3>3
    <2>. QED
      BY <2>8, <2>9, <2>10
  <1>. QED
    BY <1>3, <1>4 DEF made

\* The disk holds, for each path, the page that answers to it.
OnDisk(ps, d) ==
  /\ DOMAIN d = PagePaths(ps)
  /\ \A p \in DOMAIN d : \E i \in DOMAIN ps :
       Owns(PathOf(ps), i) /\ ps[i].path = p /\ d[p] = ps[i]

\* Before the first rebuild there is nothing.
Fresh == pages = <<>> /\ built = <<>> /\ cursor = 1

Loops ==
  IF cursor = 0 THEN Related(pages) = start
                ELSE LoopAt(PathOf(pages), start, Related(pages), cursor)

\* TypeOK without the links to oneself, of which Loops speaks.
Typed ==
  /\ DOMAIN corpus \subseteq Ids /\ corpus \in [DOMAIN corpus -> Shapes]
  /\ edits \in 0..MaxEdits
  /\ DOMAIN built \subseteq Ids /\ built \in [DOMAIN built -> Shapes]
  /\ pages \in Seq(PageShape) /\ \A i \in DOMAIN pages : pages[i].ids \subseteq DOMAIN built
  /\ start \in [DOMAIN pages -> SUBSET Paths]
  /\ cursor \in 0..Len(pages) + 1
  /\ written \in BOOLEAN
  /\ DOMAIN disk \subseteq Paths /\ disk \in [DOMAIN disk -> PageShape]

Inv ==
  /\ Typed
  /\ Fresh \/ FromRecords(pages, start, built)
  /\ Loops
  /\ written => Linked /\ OnDisk(pages, disk)

LEMMA InitInv == Init => Inv
  <1> SUFFICES ASSUME Init PROVE Inv
    OBVIOUS
  <1>1. DOMAIN <<>> = {} /\ Len(<<>>) = 0 /\ <<>> \in Seq(PageShape)
    OBVIOUS
  <1>2. /\ corpus = <<>> /\ edits = 0 /\ built = <<>> /\ pages = <<>> /\ start = <<>>
        /\ cursor = 1 /\ written = TRUE /\ disk = <<>>
    BY DEF Init
  <1>3. Typed
    <2>1. /\ corpus \in [DOMAIN corpus -> Shapes] /\ built \in [DOMAIN built -> Shapes]
          /\ start \in [DOMAIN pages -> SUBSET Paths] /\ disk \in [DOMAIN disk -> PageShape]
      BY <1>1, <1>2
    <2>2. edits \in 0..MaxEdits /\ cursor \in 0..Len(pages) + 1
      BY <1>1, <1>2, CompilerAssumption
    <2>. QED
      BY <1>1, <1>2, <2>1, <2>2 DEF Typed
  <1>4. LoopAt(PathOf(pages), start, Related(pages), cursor)
    BY <1>1, <1>2 DEF LoopAt, Kept, Justified, Returned, PathOf
  <1>5. Linked /\ OnDisk(pages, disk)
    BY <1>1, <1>2 DEF Linked, OnDisk, PagePaths
  <1>. QED
    BY <1>2, <1>3, <1>4, <1>5 DEF Inv, Fresh, Loops

\* A page is made from records that were read.
LEMMA MadeFromRecords ==
  ASSUME NEW records, Corpus(records), NEW page \in ToSet(GeneratedPages(records))
  PROVE  page.ids \subseteq DOMAIN records
  <1>1. \A r \in DOMAIN records : SummaryPage(records, r).ids = {r}
    BY SummaryMade
  <1>2. \A path \in AllItems(records) : ItemPage(records, path).ids \subseteq DOMAIN records
    BY ItemMade
  <1>3. \A s \in Open(records) : SessionPage(records, s).ids \subseteq DOMAIN records
    <2>1. \A s \in Open(records) : SessionPage(records, s).ids = SessionIds(records, s)
      BY SessionMade
    <2>. QED
      BY <2>1 DEF SessionIds
  <1>4. /\ LogPage(records).ids = DOMAIN records
        /\ \A ps : /\ IndexPage(records, ps).ids = DOMAIN records
                   /\ OverviewPage(records, ps).ids = DOMAIN records
    BY DEF LogPage, IndexPage, OverviewPage, Page
  <1>. QED
    BY <1>1, <1>2, <1>3, <1>4, MadeBy

LEMMA BuildInv == Inv /\ BuildPages => Inv'
  <1> SUFFICES ASSUME Inv, BuildPages PROVE Inv'
    OBVIOUS
  <1>1. /\ built' = corpus /\ pages' = GeneratedPages(corpus) /\ start' = Related(pages')
        /\ cursor' = 0 /\ written' = FALSE /\ corpus' = corpus /\ edits' = edits /\ disk' = disk
    BY DEF BuildPages
  <1>2. Corpus(corpus)
    BY DEF Inv, Typed, Corpus
  <1>3. pages' \in Seq(PageShape)
    BY <1>1, <1>2, GeneratedOnce DEF PageList
  <1>4. /\ Len(pages') \in Nat /\ DOMAIN pages' = 1..Len(pages')
        /\ start' \in [DOMAIN pages' -> SUBSET Paths]
        /\ \A i \in DOMAIN pages' : start'[i] = pages'[i].related
    BY <1>1, <1>3, PagesTyped
  <1>5. \A i \in DOMAIN pages' : pages'[i].ids \subseteq DOMAIN built'
    <2>1. \A i \in DOMAIN pages' : pages'[i] \in ToSet(GeneratedPages(corpus))
      BY <1>1 DEF ToSet
    <2>. QED
      BY <1>1, <1>2, <2>1, MadeFromRecords
  <1>6. Typed'
    <2>1. /\ DOMAIN corpus' \subseteq Ids /\ corpus' \in [DOMAIN corpus' -> Shapes]
          /\ DOMAIN built' \subseteq Ids /\ built' \in [DOMAIN built' -> Shapes]
          /\ edits' \in 0..MaxEdits
          /\ DOMAIN disk' \subseteq Paths /\ disk' \in [DOMAIN disk' -> PageShape]
      BY <1>1 DEF Inv, Typed
    <2>2. cursor' \in 0..Len(pages') + 1 /\ written' \in BOOLEAN
      <3>1. \A m \in Nat : 0 \in 0..m + 1
        OBVIOUS
      <3>2. Len(pages') \in Nat /\ cursor' = 0 /\ written' = FALSE
        BY <1>1, <1>4
      <3>. QED
        BY <3>1, <3>2
    <2>. QED
      BY <1>3, <1>4, <1>5, <2>1, <2>2 DEF Typed
  <1>7. FromRecords(pages, start, built)'
    BY <1>1, <1>4 DEF FromRecords
  <1>8. Loops'
    BY <1>1 DEF Loops
  <1>. QED
    BY <1>1, <1>6, <1>7, <1>8 DEF Inv

\* Replacing the links in memory keeps the rest of the pages.
LEMMA LinksReplaced ==
  ASSUME Inv, NEW links \in [DOMAIN pages -> SUBSET Paths], pages' = WithRelated(pages, links),
         cursor' \in 1..Len(pages) + 1, UNCHANGED <<corpus, edits, built, start, written, disk>>,
         ~written, LoopAt(PathOf(pages), start, links, cursor'), ~Fresh
  PROVE  Inv'
  <1>1. pages \in Seq(PageShape) /\ Len(pages) \in Nat
    BY PagesTyped DEF Inv, Typed
  <1>2. /\ pages' \in Seq(PageShape) /\ DOMAIN pages' = DOMAIN pages /\ Len(pages') = Len(pages)
        /\ PathOf(pages') = PathOf(pages) /\ Related(pages') = links
        /\ \A i \in DOMAIN pages :
             /\ pages'[i].path = pages[i].path /\ pages'[i].links = pages[i].links
             /\ pages'[i].ids = pages[i].ids /\ pages'[i].created = pages[i].created
             /\ pages'[i].updated = pages[i].updated
    BY <1>1, RelatedReplaced
  <1>3. Typed'
    BY <1>1, <1>2 DEF Inv, Typed
  <1>4. FromRecords(pages, start, built)'
    <2>1. FromRecords(pages, start, built)
      BY DEF Inv
    <2>. QED
      BY <1>2, <2>1 DEF FromRecords
  <1>5. Loops'
    BY <1>1, <1>2 DEF Loops
  <1>. QED
    BY <1>3, <1>4, <1>5 DEF Inv

LEMMA DropSelfInv == Inv /\ DropSelfLinks => Inv'
  <1> SUFFICES ASSUME Inv, DropSelfLinks PROVE Inv'
    OBVIOUS
  <1> DEFINE n == Len(pages)
             path == PathOf(pages)
             links == DropSelf(path, Related(pages))
  <1>1. /\ n \in Nat /\ DOMAIN pages = 1..n /\ path \in [1..n -> Paths]
        /\ Related(pages) \in [1..n -> SUBSET Paths]
    BY PagesTyped DEF Inv, Typed
  <1>2. Related(pages) = start /\ cursor = 0 /\ ~Fresh /\ ~written
    BY <1>1 DEF Inv, Loops, DropSelfLinks, Fresh, Linked
  <1>3. DOMAIN path = 1..n
    BY <1>1
  <1> HIDE DEF n, path
  <1>4. links \in [1..n -> SUBSET Paths] /\ LoopAt(path, start, links, 1)
    BY <1>1, <1>2, <1>3, FirstLoop
  <1> HIDE DEF links
  <1>5. /\ pages' = WithRelated(pages, links) /\ cursor' = 1
        /\ UNCHANGED <<corpus, edits, built, start, written, disk>>
    BY DEF DropSelfLinks, links, path
  <1>6. cursor' \in 1..Len(pages) + 1
    BY <1>1, <1>5 DEF n
  <1>7. LoopAt(PathOf(pages), start, links, cursor')
    BY <1>4, <1>5 DEF path
  <1>. QED
    BY <1>1, <1>2, <1>4, <1>5, <1>6, <1>7, LinksReplaced

LEMMA PropagateInv == Inv /\ PropagateNext => Inv'
  <1> SUFFICES ASSUME Inv, PropagateNext PROVE Inv'
    OBVIOUS
  <1> DEFINE n == Len(pages)
             path == PathOf(pages)
             links == Propagate(path, Related(pages), cursor)
  <1>1. /\ n \in Nat /\ DOMAIN pages = 1..n /\ path \in [1..n -> Paths]
        /\ Related(pages) \in [1..n -> SUBSET Paths] /\ start \in [1..n -> SUBSET Paths]
        /\ pages \in Seq(PageShape)
    BY PagesTyped DEF Inv, Typed
  <1>2. cursor \in 1..n /\ ~Fresh /\ ~written
    <2>1. cursor \in DOMAIN pages
      BY DEF PropagateNext
    <2>2. ~Linked
      BY <1>1, <2>1 DEF Linked
    <2>3. ~Fresh
      BY <1>1, <2>1 DEF Fresh
    <2>. QED
      BY <1>1, <2>1, <2>2, <2>3 DEF Inv
  <1>3. LoopAt(path, start, Related(pages), cursor)
    BY <1>1, <1>2 DEF Inv, Loops
  <1>4. Answered(path, start)
    <2>1. Corpus(built) /\ FromRecords(pages, start, built)
      BY <1>2 DEF Inv, Typed, Corpus
    <2>. QED
      BY <1>1, <2>1, PagesAnswered
  <1> HIDE DEF n, path
  <1>5. links \in [1..n -> SUBSET Paths] /\ LoopAt(path, start, links, cursor + 1)
    BY <1>1, <1>2, <1>3, <1>4, Round
  <1> HIDE DEF links
  <1>6. /\ pages' = WithRelated(pages, links) /\ cursor' = cursor + 1
        /\ UNCHANGED <<corpus, edits, built, start, written, disk>>
    BY DEF PropagateNext, links, path
  <1>7. cursor' \in 1..Len(pages) + 1
    BY <1>1, <1>2, <1>6 DEF n
  <1>8. LoopAt(PathOf(pages), start, links, cursor')
    BY <1>5, <1>6 DEF path
  <1>. QED
    BY <1>1, <1>2, <1>5, <1>6, <1>7, <1>8, LinksReplaced

LEMMA WriteInv == Inv /\ WritePages => Inv'
  <1> SUFFICES ASSUME Inv, WritePages PROVE Inv'
    OBVIOUS
  <1> DEFINE Owner(p) == CHOOSE i \in DOMAIN pages : pages[i].path = p /\ Owns(PathOf(pages), i)
  <1>1. /\ Linked /\ written' = TRUE /\ disk' = [p \in PagePaths(pages) |-> pages[Owner(p)]]
        /\ UNCHANGED <<corpus, edits, built, pages, start, cursor>>
    BY DEF WritePages
  <1>2. /\ Len(pages) \in Nat /\ DOMAIN pages = 1..Len(pages)
        /\ \A i \in DOMAIN pages : PathOf(pages)[i] = pages[i].path /\ pages[i] \in PageShape
        /\ PagePaths(pages) \subseteq Paths /\ DOMAIN PathOf(pages) = 1..Len(pages)
    BY PagesTyped, ElementOfSeq DEF Inv, Typed, PathOf
  <1>3. ASSUME NEW p \in PagePaths(pages)
        PROVE  /\ Owner(p) \in DOMAIN pages
               /\ pages[Owner(p)].path = p /\ Owns(PathOf(pages), Owner(p))
    <2>1. PICK k \in DOMAIN pages : pages[k].path = p
      BY DEF PagePaths
    <2>2. \E i \in DOMAIN pages : PathOf(pages)[i] = PathOf(pages)[k] /\ Owns(PathOf(pages), i)
      BY <1>2, OwnerExists
    <2>3. \E i \in DOMAIN pages : pages[i].path = p /\ Owns(PathOf(pages), i)
      BY <1>2, <2>1, <2>2
    <2>. QED
      BY <2>3
  <1> HIDE DEF Owner
  <1>4. DOMAIN disk' = PagePaths(pages) /\ \A p \in DOMAIN disk' : disk'[p] = pages[Owner(p)]
    BY <1>1
  <1>5. DOMAIN disk' \subseteq Paths /\ disk' \in [DOMAIN disk' -> PageShape]
    BY <1>1, <1>2, <1>3
  <1>6. OnDisk(pages, disk)'
    BY <1>1, <1>3, <1>4 DEF OnDisk
  <1>7. Typed'
    BY <1>1, <1>5 DEF Inv, Typed
  <1>. QED
    BY <1>1, <1>6, <1>7 DEF Inv, Fresh, Loops, Linked

\* Records come and go without touching the rebuild.
LEMMA EditInv ==
  ASSUME Inv, UNCHANGED rebuildVars, edits < MaxEdits, edits' = edits + 1,
         DOMAIN corpus' \subseteq Ids, corpus' \in [DOMAIN corpus' -> Shapes]
  PROVE  Inv'
  <1>1. edits' \in 0..MaxEdits
    BY CompilerAssumption DEF Inv, Typed
  <1>2. /\ built' = built /\ pages' = pages /\ start' = start /\ cursor' = cursor
        /\ written' = written /\ disk' = disk
    BY DEF rebuildVars
  <1>3. Typed'
    BY <1>1, <1>2 DEF Inv, Typed
  <1>. QED
    BY <1>2, <1>3 DEF Inv, Fresh, Loops, Linked

LEMMA AddInv == Inv /\ AddRecord => Inv'
  <1> SUFFICES ASSUME Inv, AddRecord PROVE Inv'
    OBVIOUS
  <1>1. PICK r \in Ids, s \in Shapes :
          corpus' = [q \in DOMAIN corpus \cup {r} |-> IF q = r THEN s ELSE corpus[q]]
    BY DEF AddRecord
  <1>2. DOMAIN corpus \subseteq Ids /\ corpus \in [DOMAIN corpus -> Shapes]
    BY DEF Inv, Typed
  <1>3. DOMAIN corpus' \subseteq Ids /\ corpus' \in [DOMAIN corpus' -> Shapes]
    BY <1>1, <1>2
  <1>. QED
    BY <1>3, EditInv DEF AddRecord

LEMMA RemoveInv == Inv /\ RemoveRecord => Inv'
  <1> SUFFICES ASSUME Inv, RemoveRecord PROVE Inv'
    OBVIOUS
  <1>1. PICK r \in DOMAIN corpus : corpus' = [q \in DOMAIN corpus \ {r} |-> corpus[q]]
    BY DEF RemoveRecord
  <1>2. DOMAIN corpus \subseteq Ids /\ corpus \in [DOMAIN corpus -> Shapes]
    BY DEF Inv, Typed
  <1>3. DOMAIN corpus' \subseteq Ids /\ corpus' \in [DOMAIN corpus' -> Shapes]
    BY <1>1, <1>2
  <1>. QED
    BY <1>3, EditInv DEF RemoveRecord

LEMMA NextInv == Inv /\ [Next]_vars => Inv'
  <1> SUFFICES ASSUME Inv, [Next]_vars PROVE Inv'
    OBVIOUS
  <1>1. CASE UNCHANGED vars
    BY <1>1 DEF vars, Inv, Typed, Fresh, Loops, Linked
  <1>. QED
    BY <1>1, BuildInv, DropSelfInv, PropagateInv, WriteInv, AddInv, RemoveInv DEF Next, Rebuild

LEMMA Invariant == Spec => []Inv
  BY InitInv, NextInv, PTL DEF Spec

-----------------------------------------------------------------------------
(* What the runs check of a rebuild, for any records.                      *)

\* The variables keep their types: compiled/ holds pages, each made from records the
\* rebuild read, and none in memory is related to itself after the first loop.
THEOREM TypeCorrect == Spec => []TypeOK
  <1>1. ASSUME Inv, cursor # 0, NEW i \in DOMAIN pages
        PROVE  pages[i].path \notin pages[i].related
    <2>1. pages \in Seq(PageShape) /\ Justified(PathOf(pages), start, Related(pages))
      BY <1>1 DEF Inv, Typed, Loops, LoopAt
    <2>2. /\ i \in DOMAIN PathOf(pages)
          /\ PathOf(pages)[i] = pages[i].path /\ Related(pages)[i] = pages[i].related
      BY <2>1, PagesTyped
    <2>. QED
      BY <2>1, <2>2 DEF Justified
  <1>2. Inv => TypeOK
    BY <1>1 DEF Inv, Typed, TypeOK
  <1>. QED
    BY <1>2, Invariant, PTL

\* A page on disk, and the page of the generators it comes from.
LEMMA PageOnDisk ==
  ASSUME Inv, Idle, NEW p \in DOMAIN disk
  PROVE  /\ Corpus(built) /\ FromRecords(pages, start, built)
         /\ DOMAIN disk = PagePaths(GeneratedPages(built))
         /\ \E i \in DOMAIN pages, page \in ToSet(GeneratedPages(built)) :
              /\ Owns(PathOf(pages), i) /\ disk[p] = pages[i]
              /\ PathOf(pages)[i] = p /\ page.path = p
              /\ disk[p].links = page.links /\ disk[p].ids = page.ids
              /\ disk[p].created = page.created /\ disk[p].updated = page.updated
              /\ disk[p].related = Related(pages)[i] /\ start[i] = page.related
  <1>1. OnDisk(pages, disk) /\ Linked /\ pages \in Seq(PageShape) /\ Corpus(built)
    BY DEF Idle, Inv, Typed, Corpus
  <1>2. PICK i \in DOMAIN pages : Owns(PathOf(pages), i) /\ pages[i].path = p /\ disk[p] = pages[i]
    BY <1>1 DEF OnDisk
  <1>3. FromRecords(pages, start, built)
    <2>1. ~Fresh
      BY <1>2 DEF Fresh
    <2>. QED
      BY <2>1 DEF Inv
  <1>4. DOMAIN disk = PagePaths(GeneratedPages(built))
    BY <1>1, <1>3, PagesAnswered DEF OnDisk
  <1>5. PathOf(pages)[i] = p /\ Related(pages)[i] = pages[i].related
    BY <1>1, <1>2, PagesTyped
  <1> DEFINE made == GeneratedPages(built)
  <1>6. /\ i \in DOMAIN made
        /\ pages[i].path = made[i].path /\ pages[i].links = made[i].links
        /\ pages[i].ids = made[i].ids /\ pages[i].created = made[i].created
        /\ pages[i].updated = made[i].updated /\ start[i] = made[i].related
    BY <1>3 DEF FromRecords
  <1>7. made[i] \in ToSet(made)
    BY <1>6 DEF ToSet
  <1>. QED
    BY <1>1, <1>2, <1>3, <1>4, <1>5, <1>6, <1>7

\* The loops have passed every page.
LEMMA LoopsDone ==
  ASSUME Inv, Linked
  PROVE  /\ LoopAt(PathOf(pages), start, Related(pages), Len(pages) + 1)
         /\ Len(pages) \in Nat /\ DOMAIN pages = 1..Len(pages) /\ DOMAIN PathOf(pages) = DOMAIN pages
  <1>1. Len(pages) \in Nat /\ DOMAIN pages = 1..Len(pages) /\ DOMAIN PathOf(pages) = DOMAIN pages
    BY LenProperties DEF Inv, Typed, PathOf
  <1>2. cursor = Len(pages) + 1
    BY <1>1 DEF Inv, Typed, Linked
  <1>. QED
    BY <1>1, <1>2 DEF Inv, Loops

\* After a rebuild the linter finds no orphan, and no broken link but those copied from
\* a record: the overview links to every page, the loops add only paths of pages.
THEOREM LinterIsClean == Spec => []LinterFindsOnlyCopiedLinks
  <1>1. ASSUME Inv, Idle
        PROVE  Orphans = {}
    <2> SUFFICES ASSUME NEW p \in DOMAIN disk, p # Overview
                 PROVE  \E q \in DOMAIN disk \ {p} : p \in Wikilinks(q)
      BY DEF Orphans
    <2>1. Corpus(built) /\ DOMAIN disk = PagePaths(GeneratedPages(built))
      BY <1>1, PageOnDisk
    <2>2. Overview \in DOMAIN disk /\ p \in PagePaths(IndexedPages(built))
      BY <2>1, PathsMade
    <2>3. PICK i \in DOMAIN pages, page \in ToSet(GeneratedPages(built)) :
            /\ PathOf(pages)[i] = Overview /\ page.path = Overview
            /\ disk[Overview].related = Related(pages)[i] /\ start[i] = page.related
      BY <1>1, <2>2, PageOnDisk
    <2>4. page = OverviewPage(built, IndexedPages(built))
      BY <2>1, <2>3, MadeBy DEF SummaryPath, ItemTypes, SessionPath, Log, Index, Overview
    <2>5. p \in start[i]
      BY <2>1, <2>2, <2>3, <2>4, GeneratedOnce
    <2>6. p \in Related(pages)[i]
      BY <1>1, <2>3, <2>5, LoopsDone DEF Idle, LoopAt, Kept
    <2>. QED
      BY <2>2, <2>3, <2>6 DEF Wikilinks
  <1>2. ASSUME Inv, Idle, NEW p \in DOMAIN disk, NEW t \in Wikilinks(p), t \notin DOMAIN disk
        PROVE  Copied(built, t)
    <2>1. PICK i \in DOMAIN pages, page \in ToSet(GeneratedPages(built)) :
            /\ PathOf(pages)[i] = p /\ disk[p].links = page.links
            /\ disk[p].related = Related(pages)[i] /\ start[i] = page.related
      BY <1>2, PageOnDisk
    <2>2. Corpus(built) /\ DOMAIN disk = PagePaths(GeneratedPages(built)) /\ DOMAIN disk = PagePaths(pages)
      BY <1>2, PageOnDisk DEF Inv, Idle, OnDisk
    <2>3. t \in page.links \cup page.related
      <3>1. CASE t \in disk[p].links
        BY <2>1, <3>1
      <3>2. CASE t \in disk[p].related
        <4>1. t \in start[i] \/ \E j \in DOMAIN pages : t = PathOf(pages)[j]
          BY <1>2, <2>1, <3>2, LoopsDone DEF Idle, LoopAt, Justified, Linking
        <4>2. \A j \in DOMAIN pages : PathOf(pages)[j] \in DOMAIN disk
          BY <2>2 DEF PathOf, PagePaths
        <4>. QED
          BY <1>2, <2>1, <4>1, <4>2
      <3>. QED
        BY <1>2, <3>1, <3>2 DEF Wikilinks
    <2>. QED
      BY <1>2, <2>2, <2>3, LinksMadeOrCopied
  <1>3. Inv => LinterFindsOnlyCopiedLinks
    <2> SUFFICES ASSUME Inv, Idle, NEW link \in BrokenLinks
                 PROVE  Copied(built, link[2])
      BY <1>1 DEF LinterFindsOnlyCopiedLinks, Copied
    <2>1. PICK p \in DOMAIN disk : link \in {<<p, t>> : t \in Wikilinks(p) \ DOMAIN disk}
      BY DEF BrokenLinks
    <2>2. PICK t \in Wikilinks(p) \ DOMAIN disk : link = <<p, t>>
      BY <2>1
    <2>. QED
      BY <1>2, <2>2
  <1>. QED
    BY <1>3, Invariant, PTL

\* Pages on disk are related both ways, also when several carried one path.
THEOREM RelatedBothWays == Spec => []RelatedIsMutual
  <1>1. ASSUME Inv, Idle, NEW p \in DOMAIN disk, NEW q \in DOMAIN disk, q \in disk[p].related
        PROVE  p \in disk[q].related
    <2>1. PICK i \in DOMAIN pages : PathOf(pages)[i] = p /\ disk[p].related = Related(pages)[i]
      BY <1>1, PageOnDisk
    <2>2. PICK j \in DOMAIN pages : /\ Owns(PathOf(pages), j) /\ PathOf(pages)[j] = q
                                    /\ disk[q].related = Related(pages)[j]
      BY <1>1, PageOnDisk
    <2>3. Returned(PathOf(pages), Related(pages), Len(pages) + 1) /\ i < Len(pages) + 1
      BY <1>1, LoopsDone DEF Idle, LoopAt
    <2>. QED
      BY <1>1, <2>1, <2>2, <2>3, LoopsDone DEF Idle, Returned
  <1>2. Inv => RelatedIsMutual
    BY <1>1 DEF RelatedIsMutual
  <1>. QED
    BY <1>2, Invariant, PTL

\* Every record a rebuild read is on all of its item pages, within the days they span;
\* its summary and its session's page it may lose only to a record or session with the
\* very same path, which then has the page.
THEOREM RecordsFiled == Spec => []RecordsAreFiled
  <1>1. ASSUME Inv, Idle, NEW r \in DOMAIN built
        PROVE  /\ Corpus(built) /\ DOMAIN disk = PagePaths(GeneratedPages(built))
               /\ SummaryPath(r) \in DOMAIN disk /\ ItemPaths(built, r) \subseteq DOMAIN disk
               /\ SessionPaths(built, r) \subseteq DOMAIN disk
    <2>1. ~Fresh
      BY <1>1 DEF Fresh
    <2>2. Corpus(built) /\ FromRecords(pages, start, built) /\ pages \in Seq(PageShape)
      BY <1>1, <2>1 DEF Inv, Typed, Corpus
    <2>3. DOMAIN disk = PagePaths(GeneratedPages(built))
      BY <1>1, <2>2, PagesAnswered DEF Inv, Idle, OnDisk
    <2>. QED
      BY <2>2, <2>3, PathsMade
  <1>2. ASSUME Inv, Idle, NEW r \in DOMAIN built
        PROVE  \E q \in DOMAIN built : SummaryPath(q) = SummaryPath(r) /\ FiledAt(q, SummaryPath(r))
    <2> DEFINE p == SummaryPath(r)
    <2>1. PICK page \in ToSet(GeneratedPages(built)) :
            /\ page.path = p /\ disk[p].ids = page.ids
            /\ disk[p].created = page.created /\ disk[p].updated = page.updated
      BY <1>1, <1>2, PageOnDisk
    <2>2. PICK q \in DOMAIN built : page = SummaryPage(built, q) /\ page.path = SummaryPath(q)
      BY <1>1, <1>2, <2>1, MadeBy DEF SummaryPath, ItemTypes, SessionPath, Log, Index, Overview
    <2>3. q \in page.ids /\ built[q].day \in page.created..page.updated
      <3>1. Corpus(built)
        BY <1>1, <1>2
      <3>2. /\ SummaryPage(built, q).ids = {q}
            /\ built[q].day \in SummaryPage(built, q).created..SummaryPage(built, q).updated
        BY <3>1, SummaryMade
      <3>. QED
        BY <2>2, <3>2
    <2>4. p \in DOMAIN disk
      BY <1>1, <1>2
    <2> HIDE DEF p
    <2>5. FiledAt(q, p)
      BY <2>1, <2>3, <2>4 DEF FiledAt
    <2>. QED
      BY <2>1, <2>2, <2>5 DEF p
  <1>3. ASSUME Inv, Idle, NEW r \in DOMAIN built, NEW p \in ItemPaths(built, r)
        PROVE  FiledAt(r, p)
    <2>1. PICK page \in ToSet(GeneratedPages(built)) :
            /\ page.path = p /\ disk[p].ids = page.ids
            /\ disk[p].created = page.created /\ disk[p].updated = page.updated
      BY <1>1, <1>3, PageOnDisk
    <2>2. Corpus(built) /\ p[1] \in ItemTypes
      BY <1>1, <1>3, RecordTyped
    <2>3. p \in AllItems(built) /\ page = ItemPage(built, p)
      BY <2>1, <2>2, MadeBy DEF SummaryPath, ItemTypes, SessionPath, Log, Index, Overview
    <2>4. r \in Contributors(built, p)
      BY <1>3 DEF Contributors, ItemPaths
    <2>. QED
      BY <1>1, <1>3, <2>1, <2>2, <2>3, <2>4, ItemMade DEF FiledAt
  <1>4. ASSUME Inv, Idle, NEW r \in DOMAIN built
        PROVE  \/ \A p \in SessionPaths(built, r) : FiledAt(r, p)
               \/ \E q \in DOMAIN built :
                    /\ built[q].session # built[r].session
                    /\ SessionPaths(built, q) = SessionPaths(built, r)
                    /\ \A p \in SessionPaths(built, r) : FiledAt(q, p)
    <2>1. CASE built[r].session = NoSession
      BY <2>1 DEF SessionPaths
    <2>2. CASE built[r].session # NoSession
      <3> DEFINE p == SessionPath(built[r].session)
      <3>1. SessionPaths(built, r) = {p} /\ p \in DOMAIN disk
        BY <1>1, <1>4, <2>2 DEF SessionPaths
      <3>2. PICK page \in ToSet(GeneratedPages(built)) :
              /\ page.path = p /\ disk[p].ids = page.ids
              /\ disk[p].created = page.created /\ disk[p].updated = page.updated
        BY <1>1, <1>4, <3>1, PageOnDisk
      <3>3. PICK s \in Open(built) : page = SessionPage(built, s) /\ page.path = SessionPath(s)
        <4>1. page.path[1] = "session"
          BY <3>2 DEF SessionPath
        <4> HIDE DEF p
        <4>2. Corpus(built)
          BY <1>1, <1>4
        <4>. QED
          BY <4>1, <4>2, MadeBy DEF SummaryPath, ItemTypes, Log, Index, Overview
      <3> HIDE DEF p
      <3>4. ASSUME NEW q \in DOMAIN built, built[q].session = s PROVE FiledAt(q, p)
        <4>1. q \in SessionIds(built, s) /\ Corpus(built)
          BY <1>1, <1>4, <3>4 DEF SessionIds
        <4>2. q \in page.ids /\ built[q].day \in page.created..page.updated
          BY <3>3, <4>1, SessionMade
        <4>. QED
          BY <3>1, <3>2, <4>2 DEF FiledAt
      <3>5. CASE s = built[r].session
        BY <3>1, <3>4, <3>5
      <3>6. CASE s # built[r].session
        <4>1. PICK q \in DOMAIN built : built[q].session = s
          BY <3>3 DEF Open
        <4>2. s # NoSession
          BY CompilerAssumption DEF Open
        <4>3. SessionPaths(built, q) = {p}
          BY <3>2, <3>3, <4>1, <4>2 DEF SessionPaths
        <4>. QED
          BY <3>1, <3>4, <3>6, <4>1, <4>3
      <3>. QED
        BY <3>5, <3>6
    <2>. QED
      BY <2>1, <2>2
  <1>5. ASSUME Inv, Idle, NEW r \in DOMAIN built
        PROVE  \/ FiledAt(r, SummaryPath(r))
               \/ \E q \in DOMAIN built \ {r} :
                    SummaryPath(q) = SummaryPath(r) /\ FiledAt(q, SummaryPath(r))
    BY <1>2, <1>5
  <1>6. Inv => RecordsAreFiled
    BY <1>3, <1>4, <1>5 DEF RecordsAreFiled
  <1>. QED
    BY <1>6, Invariant, PTL

\* The loops, a page a round, close the links at once as SymmetricLinks promises, when
\* every page has a path of its own; the rest of the wiki never disturbs them.
THEOREM LoopsCloseLinks == Spec => LinksAreClosed
  <1> DEFINE seen == IF Linked THEN Related(pages) ELSE start
  <1>1. Init => Links!Init
    <2>1. Init => Linked = TRUE
      BY DEF Init, Linked
    <2>. QED
      BY <2>1 DEF Links!Init
  <1>2. ASSUME Inv, Inv', [Next]_vars
        PROVE  [Links!Next]_<<PathOf(pages), seen, Linked>>
    <2>1. /\ Len(pages) \in Nat /\ Len(pages') \in Nat /\ cursor \in Nat /\ cursor' \in Nat
          /\ pages \in Seq(PageShape)
      BY <1>2, LenProperties DEF Inv, Typed
    <2>2. CASE BuildPages
      <3>1. Linked' = FALSE
        BY <2>1, <2>2 DEF BuildPages, Linked
      <3>. QED
        BY <3>1 DEF Links!Next, Links!Load
    <2>3. ASSUME ~Linked, start' = start, PathOf(pages') = PathOf(pages), Len(pages') = Len(pages)
          PROVE  [Links!Next]_<<PathOf(pages), seen, Linked>>
      <3>1. seen = start
        BY <2>3
      <3>2. CASE Linked'
        <4>1. seen' = Related(pages') /\ Linked' = TRUE
          BY <3>2 DEF Linked
        <4>2. /\ LoopAt(PathOf(pages'), start', Related(pages'), Len(pages') + 1)
              /\ Len(pages') \in Nat
          <5>1. (Inv /\ Linked)' => /\ LoopAt(PathOf(pages), start, Related(pages), Len(pages) + 1)'
                                    /\ (Len(pages) \in Nat)'
            BY LoopsDone, PTL
          <5>. QED
            BY <1>2, <3>2, <5>1
        <4>3. /\ PathOf(pages') \in [1..Len(pages') -> Paths]
              /\ Related(pages') \in [1..Len(pages') -> SUBSET Paths]
              /\ start' \in [1..Len(pages') -> SUBSET Paths]
          <5>1. pages' \in Seq(PageShape) /\ start' \in [DOMAIN pages' -> SUBSET Paths]
            BY <1>2 DEF Inv, Typed
          <5>. QED
            BY <5>1, PagesTyped
        <4>4. Distinct(PathOf(pages)) => Related(pages') = Closure(PathOf(pages), start)
          BY <2>3, <4>2, <4>3, LastRound
        <4>5. Links!Distinct(PathOf(pages)) => Distinct(PathOf(pages))
          BY DEF Links!Distinct, Distinct
        <4>6. Links!Closure(PathOf(pages), start) = Closure(PathOf(pages), start)
          BY DEF Links!Closure, Closure
        <4>7. Links!Close
          BY <2>3, <3>1, <4>1, <4>4, <4>5, <4>6 DEF Links!Close
        <4>. QED
          BY <4>7 DEF Links!Next
      <3>3. CASE ~Linked'
        <4>1. seen' = start' /\ Linked' = Linked
          BY <2>1, <2>3, <3>3 DEF Linked
        <4>. QED
          BY <2>3, <3>1, <4>1
      <3>. QED
        BY <3>2, <3>3
    <2>4. CASE DropSelfLinks
      <3>1. ~Linked
        BY <2>1, <2>4 DEF DropSelfLinks, Linked
      <3>2. DropSelf(PathOf(pages), Related(pages)) \in [DOMAIN pages -> SUBSET Paths]
        <4>1. Related(pages) \in [DOMAIN pages -> SUBSET Paths]
          BY <2>1, PagesTyped
        <4>. QED
          BY <4>1 DEF DropSelf
      <3>3. PathOf(pages') = PathOf(pages) /\ Len(pages') = Len(pages) /\ start' = start
        BY <2>1, <2>4, <3>2, RelatedReplaced DEF DropSelfLinks
      <3>. QED
        BY <2>3, <3>1, <3>3
    <2>5. CASE PropagateNext
      <3> cursor \in DOMAIN pages
        BY <2>5 DEF PropagateNext
      <3>0. /\ DOMAIN pages = 1..Len(pages) /\ PathOf(pages) \in [1..Len(pages) -> Paths]
            /\ Related(pages) \in [1..Len(pages) -> SUBSET Paths]
        BY <2>1, PagesTyped
      <3>1. /\ ~Linked /\ PathOf(pages)[cursor] \in Paths
            /\ Related(pages) \in [DOMAIN pages -> SUBSET Paths]
        BY <2>1, <3>0 DEF Linked
      <3>2. Propagate(PathOf(pages), Related(pages), cursor) \in [DOMAIN pages -> SUBSET Paths]
        BY <3>1 DEF Propagate
      <3>3. PathOf(pages') = PathOf(pages) /\ Len(pages') = Len(pages) /\ start' = start
        BY <2>1, <2>5, <3>2, RelatedReplaced DEF PropagateNext
      <3>. QED
        BY <2>3, <3>1, <3>3
    <2>6. CASE UNCHANGED <<pages, start, cursor>>
      BY <2>6 DEF Linked
    <2>7. CASE WritePages
      BY <2>6, <2>7 DEF WritePages
    <2>8. CASE AddRecord \/ RemoveRecord \/ UNCHANGED vars
      BY <2>6, <2>8 DEF AddRecord, RemoveRecord, rebuildVars, vars
    <2>. QED
      BY <1>2, <2>2, <2>4, <2>5, <2>7, <2>8 DEF Next, Rebuild
  <1>. QED
    BY <1>1, <1>2, Invariant, PTL DEF Spec, LinksAreClosed, Links!Spec
=============================================================================
