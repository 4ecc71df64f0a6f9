-------------------------- MODULE RecallServerProofs --------------------------
(***************************************************************************)
(* Proofs about the recall server, for every wiki, every message and every *)
(* scoring of documents: what its replies contain, that the names they     *)
(* give can be read, that the best is shown and relative days are days,    *)
(* and that every harmless request it has read is answered, in turn.       *)
(*                                                                         *)
(* A reply is a function of the facade and of its message, so that most    *)
(* comes down to what a search returns: a list of places in the corpus.    *)
(***************************************************************************)
EXTENDS RecallServer, FiniteSetTheorems, FunctionTheorems, SequenceTheorems, WellFoundedInduction, TLAPS

-----------------------------------------------------------------------------
(* Orders and lists.                                                       *)

LinearOn(S, before) ==
  \A i, j, k \in S :
    /\ <<i, i>> \notin before
    /\ i = j \/ <<i, j>> \in before \/ <<j, i>> \in before
    /\ <<i, j>> \in before /\ <<j, k>> \in before => <<i, k>> \in before

\* A function from 1..n is a sequence.
LEMMA SequenceOf ==
  ASSUME NEW n \in Nat, NEW S, NEW f \in [1..n -> S]
  PROVE  f \in Seq(S) /\ Len(f) = n /\ DOMAIN f = 1..n
  OBVIOUS

\* Listed names each member of a finite set once, in the order of before.
LEMMA ListedOrders ==
  ASSUME NEW S, IsFiniteSet(S), NEW before, LinearOn(S, before)
  PROVE  /\ Cardinality(S) \in Nat
         /\ Listed(S, before) \in [1..Cardinality(S) -> S]
         /\ \A i \in S : \E k \in 1..Cardinality(S) : Listed(S, before)[k] = i
         /\ \A k, m \in 1..Cardinality(S) :
              k < m <=> <<Listed(S, before)[k], Listed(S, before)[m]>> \in before
  <1> DEFINE n == Cardinality(S)
             Earlier(i) == {j \in S : <<j, i>> \in before}
  <1>1. n \in Nat
    BY FS_CardinalityType
  <1>2. ASSUME NEW i \in S
        PROVE  IsFiniteSet(Earlier(i)) /\ Cardinality(Earlier(i)) \in 0..n-1
    <2>1. Earlier(i) \in SUBSET S /\ i \notin Earlier(i)
      BY DEF LinearOn
    <2> HIDE DEF Earlier
    <2>2. /\ IsFiniteSet(Earlier(i)) /\ Cardinality(Earlier(i)) <= n
          /\ Cardinality(Earlier(i)) # n
      BY <2>1, FS_Subset
    <2>3. Cardinality(Earlier(i)) \in Nat
      BY <2>2, FS_CardinalityType
    <2>. QED
      BY <1>1, <2>2, <2>3
  \* The number of members before a member tells the members apart.
  <1>3. ASSUME NEW i \in S, NEW j \in S, <<j, i>> \in before
        PROVE  Cardinality(Earlier(j)) < Cardinality(Earlier(i))
    <2>1. Earlier(j) \cup {j} \in SUBSET Earlier(i) /\ j \notin Earlier(j)
      BY <1>3 DEF LinearOn
    <2> HIDE DEF Earlier
    <2>2. Cardinality(Earlier(j) \cup {j}) = Cardinality(Earlier(j)) + 1
      BY <1>2, <2>1, FS_AddElement
    <2>3. Cardinality(Earlier(j) \cup {j}) <= Cardinality(Earlier(i))
      BY <1>2, <2>1, FS_Subset
    <2>. QED
      BY <1>1, <1>2, <2>2, <2>3
  <1> HIDE DEF Earlier
  <1> DEFINE rank == [i \in S |-> Cardinality(Earlier(i)) + 1]
  <1>4. rank \in [S -> 1..n] /\ \A i, j \in S : rank[i] = rank[j] => i = j
    <2>1. \A i \in S : Cardinality(Earlier(i)) + 1 \in 1..n
      BY <1>1, <1>2
    <2>2. \A i, j \in S : i = j \/ <<i, j>> \in before \/ <<j, i>> \in before
      BY DEF LinearOn
    <2>3. rank \in [S -> 1..n]
      BY <2>1
    <2>4. ASSUME NEW i \in S, NEW j \in S, rank[i] = rank[j]
          PROVE  i = j
      <3>1. Cardinality(Earlier(i)) \in Int /\ Cardinality(Earlier(j)) \in Int
        BY <1>1, <1>2
      <3>2. rank[i] = Cardinality(Earlier(i)) + 1 /\ rank[j] = Cardinality(Earlier(j)) + 1
        OBVIOUS
      <3>3. Cardinality(Earlier(i)) = Cardinality(Earlier(j))
        BY <2>4, <3>1, <3>2
      <3>4. <<i, j>> \notin before /\ <<j, i>> \notin before
        BY <1>3, <3>1, <3>3
      <3>. QED
        BY <2>2, <3>4
    <2>. QED
      BY <2>3, <2>4
  <1> HIDE DEF rank
  <1>5. \A k \in 1..n : \E i \in S : rank[i] = k
    <2>1. rank \in Injection(S, 1..n)
      BY <1>4, Fun_IsInj
    <2>2. IsFiniteSet(1..n) /\ Cardinality(1..n) = n
      BY <1>1, FS_Interval
    <2>3. rank \in Surjection(S, 1..n)
      BY <2>1, <2>2, FS_Injection
    <2>. QED
      BY <2>3, Fun_SurjectionProperties
  <1> DEFINE At(k) == CHOOSE i \in S : Cardinality(Earlier(i)) = k - 1
  <1>6. ASSUME NEW k \in 1..n
        PROVE  At(k) \in S /\ Cardinality(Earlier(At(k))) = k - 1
    <2>1. \E i \in S : Cardinality(Earlier(i)) = k - 1
      BY <1>1, <1>2, <1>5 DEF rank
    <2>. QED
      BY <2>1
  <1>7. ASSUME NEW i \in S
        PROVE  \E k \in 1..n : At(k) = i
    <2>1. rank[i] \in 1..n /\ Cardinality(Earlier(i)) = rank[i] - 1
      BY <1>2, <1>4 DEF rank
    <2>2. At(rank[i]) \in S /\ Cardinality(Earlier(At(rank[i]))) = rank[i] - 1
      BY <1>6, <2>1
    <2> HIDE DEF At
    <2>3. rank[At(rank[i])] = rank[i]
      BY <1>2, <2>1, <2>2 DEF rank
    <2>. QED
      BY <1>4, <2>1, <2>2, <2>3
  <1> HIDE DEF At
  <1>8. ASSUME NEW k \in 1..n, NEW m \in 1..n
        PROVE  k < m <=> <<At(k), At(m)>> \in before
    <2>1. At(k) \in S /\ At(m) \in S
      BY <1>6
    <2>2. \/ At(k) = At(m) /\ <<At(k), At(m)>> \notin before
          \/ <<At(k), At(m)>> \in before
          \/ <<At(m), At(k)>> \in before /\ <<At(k), At(m)>> \notin before
      BY <2>1 DEF LinearOn
    <2>. QED
      BY <1>1, <1>3, <1>6, <2>1, <2>2
  <1>9. Listed(S, before) = [k \in 1..n |-> At(k)]
    BY DEF Listed, At, Earlier
  <1>. QED
    BY <1>1, <1>6, <1>7, <1>8, <1>9

\* The least of some numbers is one of them.
LEMMA LeastExists ==
  ASSUME NEW S \in SUBSET Nat, S # {}
  PROVE  Min(S) \in S /\ \A x \in S : Min(S) <= x
  <1> DEFINE Below == {0..n : n \in S}
  <1>1. ASSUME NEW n \in S
        PROVE  0..n \in FiniteSubsetsOf(Nat)
    <2>1. IsFiniteSet(0..n) /\ 0..n \subseteq Nat
      BY FS_Interval
    <2>. QED
      BY <2>1 DEF FiniteSubsetsOf
  <1>2. PICK B \in Below : \A C \in Below : ~(<<C, B>> \in StrictSubsetOrdering(Nat))
    <2>1. Below \subseteq FiniteSubsetsOf(Nat) /\ Below # {}
      BY <1>1
    <2>. HIDE DEF Below
    <2>. QED
      BY <2>1, FS_StrictSubsetOrderingWellFounded, WFMin
  <1>3. PICK m \in S : B = 0..m
    BY <1>2
  <1>4. ASSUME NEW y \in S, y < m
        PROVE  FALSE
    <2>1. 0..y \subseteq 0..m /\ m \in 0..m /\ m \notin 0..y
      BY <1>4
    <2>2. 0..y # 0..m /\ 0..y \in SUBSET Nat /\ 0..m \in SUBSET Nat
      BY <2>1
    <2>3. <<0..y, 0..m>> \in StrictSubsetOrdering(Nat)
      BY <2>1, <2>2 DEF StrictSubsetOrdering
    <2>. QED
      BY <1>2, <1>3, <2>3
  <1>5. \A y \in S : m <= y
    BY <1>4
  <1>. QED
    BY <1>5 DEF Min

\* The greatest of finitely many numbers is one of them.
LEMMA GreatestExists ==
  ASSUME NEW S \in SUBSET Nat, S # {}, IsFiniteSet(S)
  PROVE  Max(S) \in S /\ \A x \in S : Max(S) >= x
  <1> DEFINE From(n) == {x \in S : x >= n}
             Above == {From(n) : n \in S}
  <1>1. ASSUME NEW n \in S
        PROVE  From(n) \in FiniteSubsetsOf(S)
    <2>1. From(n) \in SUBSET S
      OBVIOUS
    <2> HIDE DEF From
    <2>2. IsFiniteSet(From(n))
      BY <2>1, FS_Subset
    <2>. QED
      BY <2>1, <2>2 DEF FiniteSubsetsOf
  <1>2. PICK B \in Above : \A C \in Above : ~(<<C, B>> \in StrictSubsetOrdering(S))
    <2>1. Above \subseteq FiniteSubsetsOf(S) /\ Above # {}
      BY <1>1
    <2>. HIDE DEF Above
    <2>. QED
      BY <2>1, FS_StrictSubsetOrderingWellFounded, WFMin
  <1>3. PICK m \in S : B = From(m)
    BY <1>2
  <1>4. ASSUME NEW y \in S, y > m
        PROVE  FALSE
    <2>1. From(y) \subseteq From(m) /\ m \in From(m) /\ m \notin From(y)
      <3>1. y \in Nat /\ m \in Nat /\ \A x \in S : x \in Nat /\ (x >= y => x >= m)
        BY <1>4
      <3>2. m >= m /\ ~(m >= y)
        BY <1>4, <3>1
      <3>. QED
        BY <3>1, <3>2
    <2>2. From(y) # From(m) /\ From(y) \in SUBSET S /\ From(m) \in SUBSET S
      BY <2>1
    <2>3. <<From(y), From(m)>> \in StrictSubsetOrdering(S)
      BY <2>1, <2>2 DEF StrictSubsetOrdering
    <2>. QED
      BY <1>2, <1>3, <2>3
  <1>5. \A y \in S : y <= m
    BY <1>4
  <1>. QED
    BY <1>5 DEF Max

LEMMA LeastOfTwo ==
  ASSUME NEW a \in Int, NEW b \in Int
  PROVE  Min({a, b}) = IF a <= b THEN a ELSE b
  <1>1. \E x \in {a, b} : \A y \in {a, b} : x <= y
    OBVIOUS
  <1>2. Min({a, b}) \in {a, b} /\ \A y \in {a, b} : Min({a, b}) <= y
    BY <1>1 DEF Min
  <1>. QED
    BY <1>2

LEMMA GreatestOfTwo ==
  ASSUME NEW a \in Int, NEW b \in Int
  PROVE  Max({a, b}) = IF a >= b THEN a ELSE b
  <1>1. \E x \in {a, b} : \A y \in {a, b} : x >= y
    OBVIOUS
  <1>2. Max({a, b}) \in {a, b} /\ \A y \in {a, b} : Max({a, b}) >= y
    BY <1>1 DEF Max
  <1>. QED
    BY <1>2

LEMMA FirstOfList ==
  ASSUME NEW S, NEW s \in Seq(S), NEW limit \in Nat
  PROVE  LET n == IF limit <= Len(s) THEN limit ELSE Len(s)
         IN  /\ n \in Nat
             /\ FirstOf(s, limit) \in Seq(S)
             /\ Len(FirstOf(s, limit)) = n /\ DOMAIN FirstOf(s, limit) = 1..n
             /\ \A k \in 1..n : FirstOf(s, limit)[k] = s[k]
  <1> DEFINE n == IF limit <= Len(s) THEN limit ELSE Len(s)
  <1>1. n \in 0..Len(s) /\ Len(s) \in Nat
    BY LenProperties
  <1>2. FirstOf(s, limit) = SubSeq(s, 1, n)
    BY <1>1, LeastOfTwo DEF FirstOf
  <1> HIDE DEF n
  <1>3. /\ SubSeq(s, 1, n) \in Seq(S) /\ Len(SubSeq(s, 1, n)) = n
        /\ \A k \in 1..n : SubSeq(s, 1, n)[k] = s[k]
    BY <1>1, SubSeqProperties
  <1>. QED
    BY <1>1, <1>2, <1>3, LenProperties DEF n

\* A finite number of places of a list.
LEMMA PlacesAreFinite ==
  ASSUME NEW S, NEW s \in Seq(S), NEW places \in SUBSET DOMAIN s
  PROVE  IsFiniteSet(places) /\ Cardinality(places) \in Nat /\ places \in SUBSET Nat
  <1>1. Len(s) \in Nat /\ DOMAIN s = 1..Len(s)
    BY LenProperties
  <1>2. IsFiniteSet(DOMAIN s)
    BY <1>1, FS_Interval
  <1>. QED
    BY <1>1, <1>2, FS_Subset, FS_CardinalityType

\* The values of a finite function, arranged: a list of them all.
LEMMA ArrangedLists ==
  ASSUME NEW S, IsFiniteSet(S), NEW V, NEW f \in [S -> V], NEW before, LinearOn(S, before)
  PROVE  LET L == Listed(S, before)
             n == Cardinality(S)
         IN  /\ Arranged(f, before) = [k \in 1..n |-> f[L[k]]]
             /\ Arranged(f, before) \in Seq(V) /\ Len(Arranged(f, before)) = n
             /\ ToSet(Arranged(f, before)) = {f[i] : i \in S}
  <1> DEFINE L == Listed(S, before)
             n == Cardinality(S)
  <1>1. n \in Nat /\ L \in [1..n -> S] /\ \A i \in S : \E k \in 1..n : L[k] = i
    BY ListedOrders
  <1>2. Arranged(f, before) = [k \in DOMAIN L |-> f[L[k]]]
    BY DEF Arranged
  <1> HIDE DEF L, n
  <1> DEFINE g == [k \in 1..n |-> f[L[k]]]
  <1>3. Arranged(f, before) = g /\ g \in [1..n -> V]
    BY <1>1, <1>2
  <1>4. g \in Seq(V) /\ Len(g) = n /\ DOMAIN g = 1..n
    BY <1>1, <1>3, SequenceOf
  <1>5. ToSet(g) = {f[i] : i \in S}
    BY <1>1, <1>4 DEF ToSet
  <1>. QED
    BY <1>3, <1>4, <1>5 DEF L, n

-----------------------------------------------------------------------------
(* What a search returns.                                                  *)

DocumentShape ==
  [id : Text, path : Text, kind : {"session", "page"}, terms : SUBSET STRING, recorded_at : Times]

\* A corpus, and a query that is scored on any part of it (CorpusAssumption).
Scored(corpus, query) ==
  /\ corpus \in Seq(DocumentShape)
  /\ query \in QueryShape
  /\ LET texts == {corpus[i].path : i \in DOMAIN corpus} \cup {corpus[i].id : i \in DOMAIN corpus}
     IN  \A p, q, r \in texts :
           /\ ~PathBefore(p, p)
           /\ p = q \/ PathBefore(p, q) \/ PathBefore(q, p)
           /\ PathBefore(p, q) /\ PathBefore(q, r) => PathBefore(p, r)
  /\ \A places \in SUBSET DOMAIN corpus : \A i \in places :
       LET relevance == Relevance(query, [j \in places |-> corpus[j]], corpus[i])
       IN  /\ relevance \in Nat
           /\ query.terms \cap corpus[i].terms # {} => relevance > 0

LEMMA NoneIsNoNumber == None \notin Int /\ Unreadable \notin Int
  BY ServerAssumption

LEMMA ScoreIsNumber ==
  ASSUME NEW query, NEW indexed, NEW policy \in DOMAIN Policies, NEW document \in DocumentShape,
         Relevance(query, indexed, document) \in Nat
  PROVE  Score(query, indexed, policy, document) \in Int
  <1> DEFINE weight == Policies[policy].weight[document.kind]
             bias == IF Policies[policy].path_bias 
                        /\ \E term \in query.terms : PathHas(document.path, term) THEN 20 ELSE 0
             phrase == IF PathHas(document.path, query.text) THEN 25 ELSE 0
             age == IF document.recorded_at = None THEN 0 ELSE document.recorded_at
  <1>1. weight \in Int
    BY DEF Policies, DocumentShape
  <1>2. bias \in Int /\ phrase \in Int
    OBVIOUS
  <1>3. age \in Int
    BY DEF DocumentShape, Times
  <1> HIDE DEF weight, bias, phrase, age
  <1>4. Recency * weight \in Int
    BY <1>1, RankingAssumption
  <1>5. Relevance(query, indexed, document) + bias + phrase \in Int
    BY <1>2
  <1>6. Recency * weight * (Relevance(query, indexed, document) + bias + phrase) \in Int
    BY <1>4, <1>5
  <1>7. Recency * weight * (Relevance(query, indexed, document) + bias + phrase) + age \in Int
    BY <1>3, <1>6
  <1>. QED
    BY <1>7 DEF Score, weight, bias, phrase, age

LEMMA EligiblePlaces ==
  ASSUME NEW corpus, NEW query, Scored(corpus, query), NEW window
  PROVE  LET indexed == Eligible(corpus, window)
         IN  /\ DOMAIN indexed = {i \in DOMAIN corpus : InWindow(corpus[i], window)}
             /\ IsFiniteSet(DOMAIN indexed) /\ Cardinality(DOMAIN indexed) \in Nat
             /\ DOMAIN indexed \in SUBSET Nat
             /\ \A i \in DOMAIN indexed :
                  /\ i \in DOMAIN corpus /\ indexed[i] = corpus[i] /\ corpus[i] \in DocumentShape
                  /\ Relevance(query, indexed, corpus[i]) \in Nat
                  /\ query.terms \cap corpus[i].terms # {} => Relevance(query, indexed, corpus[i]) > 0
  <1> DEFINE places == {i \in DOMAIN corpus : InWindow(corpus[i], window)}
             indexed == Eligible(corpus, window)
  <1>1. indexed = [i \in places |-> corpus[i]] /\ places \in SUBSET DOMAIN corpus
    BY DEF Eligible
  <1>2. /\ corpus \in Seq(DocumentShape)
        /\ \A i \in places :
             LET relevance == Relevance(query, [j \in places |-> corpus[j]], corpus[i])
             IN  /\ relevance \in Nat
                 /\ query.terms \cap corpus[i].terms # {} => relevance > 0
    BY <1>1 DEF Scored
  <1>3. IsFiniteSet(places) /\ Cardinality(places) \in Nat /\ places \in SUBSET Nat
    BY <1>1, <1>2, PlacesAreFinite
  <1>4. \A i \in DOMAIN corpus : corpus[i] \in DocumentShape
    BY <1>2, LenProperties, ElementOfSeq
  <1> HIDE DEF places
  <1>. QED
    BY <1>1, <1>2, <1>3, <1>4 DEF places

LEMMA PrecedesIsLinear ==
  ASSUME NEW corpus, NEW query, Scored(corpus, query), NEW window, NEW policy \in DOMAIN Policies,
         NEW H \in SUBSET DOMAIN Eligible(corpus, window)
  PROVE  LinearOn(H, {pair \in H \X H :
                        Precedes(query, Eligible(corpus, window), policy, pair[1], pair[2])})
  <1> DEFINE indexed == Eligible(corpus, window)
             P(i, j) == Precedes(query, indexed, policy, i, j)
             s(i) == Score(query, indexed, policy, indexed[i])
             t(i) == indexed[i].recorded_at
             p(i) == indexed[i].path
             q(i) == indexed[i].id
             texts == {corpus[i].path : i \in DOMAIN corpus} \cup {corpus[i].id : i \in DOMAIN corpus}
  <1>1. ASSUME NEW i \in H
        PROVE  i \in Nat /\ i \in DOMAIN corpus /\ indexed[i] = corpus[i] /\ s(i) \in Int /\ t(i) \in Times
    <2>1. /\ i \in Nat /\ i \in DOMAIN corpus /\ indexed[i] = corpus[i] /\ corpus[i] \in DocumentShape
          /\ Relevance(query, indexed, corpus[i]) \in Nat
      BY EligiblePlaces
    <2> HIDE DEF indexed
    <2>2. s(i) \in Int
      BY <2>1, ScoreIsNumber
    <2>. QED
      BY <2>1, <2>2 DEF DocumentShape
  <1> HIDE DEF indexed
  <1>2. /\ \A i \in H : p(i) \in texts /\ q(i) \in texts
        /\ \A a, b, c \in texts :
             /\ ~PathBefore(a, a)
             /\ a = b \/ PathBefore(a, b) \/ PathBefore(b, a)
             /\ PathBefore(a, b) /\ PathBefore(b, c) => PathBefore(a, c)
    <2>1. \A i \in H : p(i) = corpus[i].path /\ q(i) = corpus[i].id /\ i \in DOMAIN corpus
      BY <1>1
    <2>2. \A i \in H : p(i) \in texts /\ q(i) \in texts
      BY <2>1
    <2>. QED
      BY <2>2 DEF Scored
  <1> HIDE DEF texts
  <1>3. \A a, b, c \in Times :
          /\ ~Newer(a, a)
          /\ a = b \/ Newer(a, b) \/ Newer(b, a)
          /\ Newer(a, b) /\ Newer(b, c) => Newer(a, c)
    BY NoneIsNoNumber DEF Newer, Times
  <1>4. \A i, j \in H : P(i, j) <=>
          \/ s(i) > s(j)
          \/ s(i) = s(j) /\ Newer(t(i), t(j))
          \/ s(i) = s(j) /\ t(i) = t(j) /\ PathBefore(p(i), p(j))
          \/ s(i) = s(j) /\ t(i) = t(j) /\ p(i) = p(j) /\ PathBefore(q(i), q(j))
          \/ s(i) = s(j) /\ t(i) = t(j) /\ p(i) = p(j) /\ q(i) = q(j) /\ i < j
    BY DEF Precedes
  <1> HIDE DEF P, s, t, p, q
  <1>5. ASSUME NEW i \in H, NEW j \in H, NEW k \in H
        PROVE  ~P(i, i) /\ (i = j \/ P(i, j) \/ P(j, i)) /\ (P(i, j) /\ P(j, k) => P(i, k))
    <2>1. /\ i \in Nat /\ j \in Nat /\ k \in Nat /\ s(i) \in Int /\ s(j) \in Int /\ s(k) \in Int
          /\ t(i) \in Times /\ t(j) \in Times /\ t(k) \in Times
          /\ p(i) \in texts /\ p(j) \in texts /\ p(k) \in texts
          /\ q(i) \in texts /\ q(j) \in texts /\ q(k) \in texts
      BY <1>1, <1>2
    <2>2. ~P(i, i)
      BY <1>2, <1>3, <1>4, <2>1
    <2>3. i = j \/ P(i, j) \/ P(j, i)
      <3>1. s(i) > s(j) \/ s(j) > s(i) \/ s(i) = s(j)
        BY <2>1
      <3>2. t(i) = t(j) \/ Newer(t(i), t(j)) \/ Newer(t(j), t(i))
        BY <1>3, <2>1
      <3>3. i < j \/ j < i \/ i = j
        BY <2>1
      <3>4. /\ p(i) = p(j) \/ PathBefore(p(i), p(j)) \/ PathBefore(p(j), p(i))
            /\ q(i) = q(j) \/ PathBefore(q(i), q(j)) \/ PathBefore(q(j), q(i))
        BY <1>2, <2>1
      <3>. QED
        BY <1>4, <3>1, <3>2, <3>3, <3>4
    <2>4. ASSUME P(i, j), P(j, k)
          PROVE  P(i, k)
      <3>1. Newer(t(i), t(j)) /\ Newer(t(j), t(k)) => Newer(t(i), t(k))
        BY <1>3, <2>1
      <3>2. /\ PathBefore(p(i), p(j)) /\ PathBefore(p(j), p(k)) => PathBefore(p(i), p(k))
            /\ PathBefore(q(i), q(j)) /\ PathBefore(q(j), q(k)) => PathBefore(q(i), q(k))
        BY <1>2, <2>1
      <3>. QED
        BY <1>4, <2>1, <2>4, <3>1, <3>2
    <2>. QED
      BY <2>2, <2>3, <2>4
  <1>6. LinearOn(H, {pair \in H \X H : P(pair[1], pair[2])})
    BY <1>5 DEF LinearOn
  <1>. QED
    BY <1>6 DEF P, indexed

\* As many places as asked for, the most relevant ones: there are always such.
LEMMA CandidatesAreBest ==
  ASSUME NEW corpus, NEW query, Scored(corpus, query), NEW window, NEW limit \in Nat
  PROVE  LET indexed == Eligible(corpus, window)
             found == Candidates(query, indexed, limit)
         IN  /\ found \subseteq DOMAIN indexed
             /\ query.terms # {} => 
                  /\ Cardinality(found) = Min({limit, Cardinality(DOMAIN indexed)})
                  /\ \A i \in found, j \in DOMAIN indexed \ found :
                       Relevance(query, indexed, indexed[i]) >= Relevance(query, indexed, indexed[j])
  <1> DEFINE indexed == Eligible(corpus, window)
             D == DOMAIN indexed
             n == Cardinality(D)
             m == Min({limit, n})
             r(i) == Relevance(query, indexed, indexed[i])
             Best(found) ==
               /\ Cardinality(found) = m
               /\ \A i \in found, j \in D \ found : r(i) >= r(j)
             before == {pair \in D \X D :
                          r(pair[1]) > r(pair[2]) \/ (r(pair[1]) = r(pair[2]) /\ pair[1] < pair[2])}
             L == Listed(D, before)
             top == {L[k] : k \in 1..m}
  <1>1. IsFiniteSet(D) /\ n \in Nat /\ D \in SUBSET Nat /\ \A i \in D : r(i) \in Nat
    <2>1. /\ IsFiniteSet(D) /\ n \in Nat /\ D \in SUBSET Nat
          /\ \A i \in D : indexed[i] = corpus[i] /\ Relevance(query, indexed, corpus[i]) \in Nat
      BY EligiblePlaces
    <2> HIDE DEF indexed
    <2>. QED
      BY <2>1
  <1>2. m \in 0..n
    BY <1>1, LeastOfTwo
  <1> HIDE DEF indexed, m, r
  <1>3. LinearOn(D, before)
    BY <1>1 DEF LinearOn
  <1>4. \A i, j \in D : <<i, j>> \in before => r(i) >= r(j)
    BY <1>1
  <1> HIDE DEF before
  <1>5. /\ L \in [1..n -> D]
        /\ \A i \in D : \E k \in 1..n : L[k] = i
        /\ \A k, l \in 1..n : k < l <=> <<L[k], L[l]>> \in before
    BY <1>1, <1>3, ListedOrders
  <1> HIDE DEF L
  <1>6. \A k \in 1..m : k \in 1..n
    BY <1>1, <1>2
  <1>7. top \in SUBSET D
    BY <1>5, <1>6
  <1>8. Cardinality(top) = m
    <2> DEFINE f == [k \in 1..m |-> L[k]]
    <2>1. f \in [1..m -> top] /\ \A t \in top : \E k \in 1..m : f[k] = t
      OBVIOUS
    <2>2. \A k, l \in 1..m : f[k] = f[l] => k = l
      <3> SUFFICES ASSUME NEW k \in 1..m, NEW l \in 1..m, L[k] = L[l]
                   PROVE  k = l
        OBVIOUS
      <3>1. k \in 1..n /\ l \in 1..n /\ L[k] \in D /\ <<L[k], L[k]>> \notin before
        BY <1>3, <1>5, <1>6 DEF LinearOn
      <3>. QED
        BY <1>1, <1>5, <3>1
    <2> HIDE DEF f, top
    <2>3. f \in Surjection(1..m, top) /\ f \in Injection(1..m, top)
      BY <2>1, <2>2, Fun_IsSurj, Fun_IsInj
    <2>4. IsFiniteSet(1..m) /\ Cardinality(1..m) = m
      BY <1>1, <1>2, FS_Interval
    <2>. QED
      BY <2>3, <2>4, FS_Surjection
  <1>9. ASSUME NEW i \in top, NEW j \in D \ top
        PROVE  r(i) >= r(j)
    <2>1. PICK k \in 1..m : i = L[k]
      OBVIOUS
    <2>2. PICK l \in 1..n : j = L[l]
      BY <1>5
    <2>3. l \notin 1..m
      BY <1>9, <2>2
    <2>4. k \in 1..n /\ k < l
      BY <1>1, <1>2, <2>1, <2>2, <2>3
    <2>. QED
      BY <1>4, <1>5, <1>7, <2>1, <2>2, <2>4
  <1>10. Best(top)
    BY <1>8, <1>9
  <1> DEFINE found == CHOOSE found \in SUBSET D : Best(found)
  <1> HIDE DEF top, D, Best
  <1>11. found \in SUBSET D /\ Best(found)
    BY <1>7, <1>10
  <1>12. Candidates(query, indexed, limit) = IF query.terms = {} THEN {} ELSE found
    BY DEF Candidates, Best, D, m, n, r
  <1> HIDE DEF found
  <1>. QED
    BY <1>11, <1>12 DEF Best, indexed, D, m, n, r

LEMMA CandidateLimitIsNumber ==
  ASSUME NEW policy \in DOMAIN Policies, NEW limit \in Nat
  PROVE  CandidateLimit(policy, limit) \in Nat /\ CandidateLimit(policy, limit) >= limit
  <1>1. limit * Policies[policy].multiplier \in Nat
    BY DEF Policies
  <1>. QED
    BY <1>1, GreatestOfTwo DEF CandidateLimit

\* A search lists its hits in the order of sort_key.
LEMMA SearchLists ==
  ASSUME NEW corpus, NEW query, Scored(corpus, query), NEW window, NEW policy \in DOMAIN Policies,
         NEW limit \in Nat
  PROVE  LET indexed == Eligible(corpus, window)
             H == Hits(corpus, query, policy, limit, window)
             n == Cardinality(H)
             found == Search(corpus, query, policy, limit, window)
         IN  /\ H \subseteq DOMAIN indexed /\ IsFiniteSet(H) /\ n \in Nat
             /\ found \in Seq(DocumentShape) /\ Len(found) = n
             /\ \E L \in [1..n -> H] :
                  /\ found = [k \in 1..n |-> corpus[L[k]]]
                  /\ \A i \in H : \E k \in 1..n : L[k] = i
                  /\ \A k, l \in 1..n : k < l <=> Precedes(query, indexed, policy, L[k], L[l])
  <1> DEFINE indexed == Eligible(corpus, window)
             H == Hits(corpus, query, policy, limit, window)
             n == Cardinality(H)
             found == Search(corpus, query, policy, limit, window)
             before == {pair \in H \X H : Precedes(query, indexed, policy, pair[1], pair[2])}
             f == [i \in H |-> corpus[i]]
             L == Listed(H, before)
  <1>1. H \in SUBSET DOMAIN indexed
    BY CandidatesAreBest, CandidateLimitIsNumber DEF Hits
  <1>2. /\ IsFiniteSet(DOMAIN indexed)
        /\ \A i \in DOMAIN indexed : corpus[i] \in DocumentShape
    BY EligiblePlaces
  <1>3. LinearOn(H, before)
    BY <1>1, PrecedesIsLinear
  <1>4. found = Arranged(f, before)
    BY DEF Search
  <1>5. \A i, j \in H : <<i, j>> \in before <=> Precedes(query, indexed, policy, i, j)
    OBVIOUS
  <1> HIDE DEF indexed, H, before
  <1>6. IsFiniteSet(H) /\ n \in Nat
    BY <1>1, <1>2, FS_Subset, FS_CardinalityType
  <1>7. /\ L \in [1..n -> H]
        /\ \A i \in H : \E k \in 1..n : L[k] = i
        /\ \A k, l \in 1..n : k < l <=> <<L[k], L[l]>> \in before
    BY <1>3, <1>6, ListedOrders
  <1>8. f \in [H -> DocumentShape]
    BY <1>1, <1>2
  <1>9. /\ found = [k \in 1..n |-> f[L[k]]]
        /\ found \in Seq(DocumentShape) /\ Len(found) = n
    <2> HIDE DEF f, found
    <2>. QED
      BY <1>3, <1>4, <1>6, <1>8, ArrangedLists
  <1>10. found = [k \in 1..n |-> corpus[L[k]]]
    BY <1>7, <1>9
  <1> HIDE DEF L, found
  <1>11. \E M \in [1..n -> H] :
           /\ found = [k \in 1..n |-> corpus[M[k]]]
           /\ \A i \in H : \E k \in 1..n : M[k] = i
           /\ \A k, l \in 1..n : k < l <=> Precedes(query, indexed, policy, M[k], M[l])
    <2>1. \A k, l \in 1..n : k < l <=> Precedes(query, indexed, policy, L[k], L[l])
      BY <1>5, <1>7
    <2>. QED
      BY <1>7, <1>10, <2>1
  <1>. QED
    BY <1>1, <1>6, <1>9, <1>11 DEF indexed, H, found

-----------------------------------------------------------------------------
(* Blending two kinds.                                                     *)

LEMMA RoundsCount ==
  ASSUME NEW hits \in Seq(DocumentShape)
  PROVE  \A j, k \in DOMAIN hits :
           /\ Round(hits, k) \in Nat /\ Round(hits, k) >= 1
           /\ j < k /\ hits[j].kind = hits[k].kind => Round(hits, j) < Round(hits, k)
  <1> DEFINE Up(k) == {j \in 1..k : hits[j].kind = hits[k].kind}
  <1>1. DOMAIN hits \in SUBSET Nat /\ \A k \in DOMAIN hits : k >= 1
    BY LenProperties
  <1>2. ASSUME NEW k \in DOMAIN hits
        PROVE  /\ IsFiniteSet(Up(k)) /\ Round(hits, k) = Cardinality(Up(k))
               /\ Round(hits, k) \in Nat /\ Round(hits, k) >= 1
    <2>1. Up(k) \in SUBSET (1..k) /\ k \in Up(k) /\ k \in Nat
      BY <1>1
    <2>2. Round(hits, k) = Cardinality(Up(k))
      BY DEF Round
    <2> HIDE DEF Up
    <2>3. IsFiniteSet(Up(k))
      <3>1. IsFiniteSet(1..k)
        BY <2>1, FS_Interval
      <3>. QED
        BY <2>1, <3>1, FS_Subset
    <2>4. Cardinality(Up(k)) \in Nat /\ Cardinality(Up(k)) # 0
      BY <2>1, <2>3, FS_CardinalityType, FS_EmptySet
    <2>. QED
      BY <2>2, <2>3, <2>4
  <1>3. ASSUME NEW j \in DOMAIN hits, NEW k \in DOMAIN hits, j < k, hits[j].kind = hits[k].kind
        PROVE  Round(hits, j) < Round(hits, k)
    <2>1. j \in Nat /\ k \in Nat /\ k >= 1
      BY <1>1
    <2>2. Up(j) \cup {k} \in SUBSET Up(k) /\ k \notin Up(j)
      BY <1>3, <2>1
    <2> HIDE DEF Up
    <2>3. Cardinality(Up(j) \cup {k}) = Cardinality(Up(j)) + 1
      BY <1>2, <2>2, FS_AddElement
    <2>4. Cardinality(Up(j) \cup {k}) <= Cardinality(Up(k))
      BY <1>2, <2>2, FS_Subset
    <2>. QED
      BY <1>2, <2>3, <2>4
  <1>. QED
    BY <1>2, <1>3

LEMMA BlendIsLinear ==
  ASSUME NEW hits \in Seq(DocumentShape)
  PROVE  LinearOn(DOMAIN hits, {pair \in (DOMAIN hits) \X (DOMAIN hits) :
                                  TakenBefore(hits, pair[1], pair[2])})
  <1>1. \A i \in DOMAIN hits : i \in Nat /\ hits[i].kind \in {"session", "page"}
    <2>1. Len(hits) \in Nat /\ DOMAIN hits = 1..Len(hits) /\ \A i \in DOMAIN hits : hits[i] \in DocumentShape
      BY LenProperties, ElementOfSeq
    <2>. QED
      BY <2>1 DEF DocumentShape
  <1>2. ASSUME NEW i \in DOMAIN hits, NEW j \in DOMAIN hits, i # j,
               Round(hits, i) = Round(hits, j)
        PROVE  hits[i].kind # hits[j].kind
    <2>1. i < j \/ j < i
      BY <1>1, <1>2
    <2>. QED
      BY <1>2, <2>1, RoundsCount
  <1>3. ASSUME NEW i \in DOMAIN hits, NEW j \in DOMAIN hits, NEW k \in DOMAIN hits
        PROVE  /\ ~TakenBefore(hits, i, i)
               /\ i = j \/ TakenBefore(hits, i, j) \/ TakenBefore(hits, j, i)
               /\ TakenBefore(hits, i, j) /\ TakenBefore(hits, j, k) => TakenBefore(hits, i, k)
    <2>1. Round(hits, i) \in Nat /\ Round(hits, j) \in Nat /\ Round(hits, k) \in Nat
      BY RoundsCount
    <2>. QED
      BY <1>1, <1>2, <2>1 DEF TakenBefore
  <1> DEFINE before == {pair \in (DOMAIN hits) \X (DOMAIN hits) : TakenBefore(hits, pair[1], pair[2])}
  <1>4. \A i, j \in DOMAIN hits : <<i, j>> \in before <=> TakenBefore(hits, i, j)
    OBVIOUS
  <1> HIDE DEF before
  <1>5. LinearOn(DOMAIN hits, before)
    BY <1>3, <1>4 DEF LinearOn
  <1>. QED
    BY <1>5 DEF before

\* What is shown is closed upwards for each kind, and of both kinds given room for two.
LEMMA BlendShows ==
  ASSUME NEW hits \in Seq(DocumentShape), NEW limit \in Nat
  PROVE  LET blended == BlendHitsByKind(hits, limit)
         IN  /\ blended \in Seq(DocumentShape) /\ Len(blended) <= limit
             /\ \E shown \in SUBSET DOMAIN hits :
                  /\ ToSet(blended) = {hits[i] : i \in shown}
                  /\ \A j \in shown, i \in DOMAIN hits :
                       i < j /\ hits[i].kind = hits[j].kind => i \in shown
                  /\ limit > 1 => \A i \in DOMAIN hits : \E j \in shown : hits[j].kind = hits[i].kind
  <1> DEFINE D == DOMAIN hits
             n == Cardinality(D)
             m == IF limit <= n THEN limit ELSE n
             before == {pair \in (DOMAIN hits) \X (DOMAIN hits) : TakenBefore(hits, pair[1], pair[2])}
             M == Listed(D, before)
             all == Arranged(hits, before)
             blended == BlendHitsByKind(hits, limit)
             shown == {M[k] : k \in 1..m}
  <1>1. /\ IsFiniteSet(D) /\ n \in Nat /\ D \in SUBSET Nat
        /\ hits \in [D -> DocumentShape] /\ \A i \in D : hits[i].kind \in {"session", "page"}
    <2>1. IsFiniteSet(D) /\ n \in Nat /\ D \in SUBSET Nat
      BY PlacesAreFinite
    <2>2. hits \in [D -> DocumentShape]
      BY LenProperties
    <2>. QED
      BY <2>1, <2>2 DEF DocumentShape
  <1>2. LinearOn(D, before) /\ \A i, j \in D : <<i, j>> \in before <=> TakenBefore(hits, i, j)
    BY BlendIsLinear
  <1>3. blended = FirstOf(all, limit)
    BY DEF BlendHitsByKind
  <1> HIDE DEF D, before, blended
  <1>4. /\ M \in [1..n -> D]
        /\ \A i \in D : \E k \in 1..n : M[k] = i
        /\ \A k, l \in 1..n : k < l <=> TakenBefore(hits, M[k], M[l])
    <2>1. /\ M \in [1..n -> D]
          /\ \A i \in D : \E k \in 1..n : M[k] = i
          /\ \A k, l \in 1..n : k < l <=> <<M[k], M[l]>> \in before
      BY <1>1, <1>2, ListedOrders
    <2> HIDE DEF M
    <2>. QED
      BY <1>2, <2>1
  <1>5. /\ all = [k \in 1..n |-> hits[M[k]]] /\ all \in Seq(DocumentShape) /\ Len(all) = n
    BY <1>1, <1>2, ArrangedLists DEF D
  <1>6. m \in Nat /\ m <= limit /\ \A k \in 1..m : k \in 1..n
    BY <1>1
  <1> HIDE DEF M, all
  <1>7. /\ blended \in Seq(DocumentShape) /\ Len(blended) = m /\ DOMAIN blended = 1..m
        /\ \A k \in 1..m : blended[k] = hits[M[k]]
    <2>1. m = IF limit <= Len(all) THEN limit ELSE Len(all)
      BY <1>5
    <2> HIDE DEF m
    <2>2. /\ FirstOf(all, limit) \in Seq(DocumentShape) /\ Len(FirstOf(all, limit)) = m
          /\ DOMAIN FirstOf(all, limit) = 1..m
          /\ \A k \in 1..m : FirstOf(all, limit)[k] = all[k]
      <3> DEFINE c == IF limit <= Len(all) THEN limit ELSE Len(all)
      <3>1. /\ FirstOf(all, limit) \in Seq(DocumentShape) /\ Len(FirstOf(all, limit)) = c
            /\ DOMAIN FirstOf(all, limit) = 1..c
            /\ \A k \in 1..c : FirstOf(all, limit)[k] = all[k]
        BY <1>5, FirstOfList
      <3>2. c = m
        BY <2>1
      <3> HIDE DEF c
      <3>. QED
        BY <3>1, <3>2
    <2>. QED
      BY <1>3, <1>5, <1>6, <2>2
  <1>8. ToSet(blended) = {hits[i] : i \in shown} /\ shown \in SUBSET D
    BY <1>4, <1>6, <1>7 DEF ToSet
  <1> HIDE DEF m
  <1>9. ASSUME NEW j \in shown, NEW i \in D, i < j, hits[i].kind = hits[j].kind
        PROVE  i \in shown
    <2>1. PICK k \in 1..m : j = M[k]
      OBVIOUS
    <2>2. PICK l \in 1..n : i = M[l]
      BY <1>4
    <2>3. TakenBefore(hits, i, j)
      BY <1>8, <1>9, RoundsCount DEF TakenBefore, D
    <2>4. l < k
      BY <1>4, <1>6, <2>1, <2>2, <2>3
    <2>5. l \in 1..m
      BY <1>1, <1>6, <2>4
    <2>. QED
      BY <2>2, <2>5
  <1>10. ASSUME NEW i \in D, limit > 1
         PROVE  \E j \in shown : hits[j].kind = hits[i].kind
    <2> DEFINE K == {j \in D : hits[j].kind = hits[i].kind}
               first == Min(K)
    <2>1. first \in K /\ \A j \in K : first <= j
      <3>1. K \in SUBSET Nat /\ K # {}
        BY <1>1
      <3> HIDE DEF K
      <3>. QED
        BY <3>1, LeastExists
    <2> HIDE DEF first
    <2>2. first \in D /\ first \in Nat /\ hits[first].kind = hits[i].kind
      BY <1>1, <2>1
    <2>3. PICK k \in 1..n : M[k] = first
      BY <1>4, <2>2
    \* The first of a kind is of the first round.
    <2>4. Round(hits, first) = 1
      <3>1. {j \in 1..first : hits[j].kind = hits[first].kind} = {first}
        <4>1. \A j \in 1..first : j \in D
          BY <2>2, LenProperties DEF D
        <4>2. \A j \in 1..first : hits[j].kind = hits[first].kind => j = first
          BY <2>1, <2>2, <4>1
        <4>3. first \in 1..first
          BY <2>2, LenProperties DEF D
        <4>. QED
          BY <4>2, <4>3
      <3>. QED
        BY <3>1, FS_Singleton DEF Round
    <2>5. ASSUME k > 2
          PROVE  FALSE
      <3>1. 1 \in 1..n /\ 2 \in 1..n /\ 1 < k /\ 2 < k /\ 1 < 2
        BY <1>1, <2>5
      <3>2. /\ TakenBefore(hits, M[1], first) /\ TakenBefore(hits, M[2], first)
            /\ TakenBefore(hits, M[1], M[2]) /\ M[1] \in D /\ M[2] \in D
        BY <1>4, <2>3, <3>1
      <3>3. \A j \in D : Round(hits, j) \in Nat /\ Round(hits, j) >= 1
        BY RoundsCount DEF D
      <3>4. /\ Round(hits, M[1]) = 1 /\ hits[M[1]].kind = "page"
            /\ Round(hits, M[2]) = 1 /\ hits[M[2]].kind = "page"
        BY <2>4, <3>2, <3>3 DEF TakenBefore
      <3>. QED
        BY <3>2, <3>4 DEF TakenBefore
    <2>6. k \in 1..m
      BY <1>1, <1>10, <2>5 DEF m
    <2>. QED
      BY <2>2, <2>3, <2>6
  <1> HIDE DEF shown
  <1>11. Len(blended) <= limit
    BY <1>6, <1>7
  <1>. QED
    BY <1>7, <1>8, <1>9, <1>10, <1>11 DEF D, blended

-----------------------------------------------------------------------------
(* What each strategy shows.                                               *)

LEMMA SearchIsOfCorpus ==
  ASSUME NEW corpus, NEW query, Scored(corpus, query), NEW window, NEW policy \in DOMAIN Policies,
         NEW limit \in Nat
  PROVE  LET found == Search(corpus, query, policy, limit, window)
         IN  /\ found \in Seq(DocumentShape)
             /\ \A d \in ToSet(found) : \E i \in DOMAIN corpus :
                  d = corpus[i] /\ InWindow(corpus[i], window)
  <1> DEFINE indexed == Eligible(corpus, window)
             H == Hits(corpus, query, policy, limit, window)
             n == Cardinality(H)
             found == Search(corpus, query, policy, limit, window)
  <1>1. /\ H \subseteq DOMAIN indexed /\ n \in Nat /\ found \in Seq(DocumentShape)
        /\ \E L \in [1..n -> H] : found = [k \in 1..n |-> corpus[L[k]]]
    <2>1. /\ H \subseteq DOMAIN indexed /\ n \in Nat /\ found \in Seq(DocumentShape)
          /\ \E L \in [1..n -> H] :
               /\ found = [k \in 1..n |-> corpus[L[k]]]
               /\ \A i \in H : \E k \in 1..n : L[k] = i
               /\ \A k, l \in 1..n : k < l <=> Precedes(query, indexed, policy, L[k], L[l])
      BY SearchLists
    <2> HIDE DEF indexed, H, found, n
    <2>. QED
      BY <2>1
  <1>2. DOMAIN indexed = {i \in DOMAIN corpus : InWindow(corpus[i], window)}
    BY EligiblePlaces
  <1> HIDE DEF indexed, H, found, n
  <1>3. PICK L \in [1..n -> H] : found = [k \in 1..n |-> corpus[L[k]]]
    BY <1>1
  <1>4. \A d \in ToSet(found) : \E i \in DOMAIN corpus : d = corpus[i] /\ InWindow(corpus[i], window)
    BY <1>1, <1>2, <1>3 DEF ToSet
  <1>. QED
    BY <1>1, <1>4 DEF found

LEMMA FirstOfShows ==
  ASSUME NEW s \in Seq(DocumentShape), NEW limit \in Nat
  PROVE  /\ FirstOf(s, limit) \in Seq(DocumentShape) /\ Len(FirstOf(s, limit)) <= limit
         /\ ToSet(FirstOf(s, limit)) \subseteq ToSet(s)
         /\ Len(s) <= limit => ToSet(s) \subseteq ToSet(FirstOf(s, limit))
  <1> DEFINE n == IF limit <= Len(s) THEN limit ELSE Len(s)
             t == FirstOf(s, limit)
  <1>1. /\ n \in Nat /\ t \in Seq(DocumentShape) /\ Len(t) = n /\ DOMAIN t = 1..n
        /\ \A k \in 1..n : t[k] = s[k]
    BY FirstOfList
  <1>2. Len(s) \in Nat /\ DOMAIN s = 1..Len(s)
    BY LenProperties
  <1> HIDE DEF t
  <1>3. n <= limit /\ \A k \in 1..n : k \in 1..Len(s)
    BY <1>2
  <1>4. Len(s) <= limit => n = Len(s)
    <2>1. \A a, b \in Nat : a <= b /\ b <= a => a = b
      OBVIOUS
    <2>2. Len(s) <= limit /\ limit <= Len(s) => limit = Len(s)
      BY <1>2, <2>1
    <2>. QED
      BY <2>2
  <1> HIDE DEF n
  <1>5. ToSet(t) \subseteq ToSet(s) /\ (n = Len(s) => ToSet(s) \subseteq ToSet(t))
    BY <1>1, <1>2, <1>3 DEF ToSet
  <1>. QED
    BY <1>1, <1>3, <1>4, <1>5 DEF t

\* Whatever the strategy, no more is shown than was asked for, and only of the corpus.
LEMMA RecallIsOfCorpus ==
  ASSUME NEW corpus, NEW query, Scored(corpus, query), NEW strategy \in DOMAIN Policies,
         NEW limit \in Nat, NEW time
  PROVE  LET found == Recall(corpus, query, limit, strategy, time)
         IN  /\ found \in Seq(DocumentShape) /\ Len(found) <= limit
             /\ ToSet(found) \subseteq ToSet(corpus)
  <1> DEFINE found == Recall(corpus, query, limit, strategy, time)
  <1>1. strategy \in {"date", "temporal", "known_item", "topic"}
    BY DEF Policies
  <1>2. ASSUME NEW policy \in DOMAIN Policies, NEW window
        PROVE  LET hits == Search(corpus, query, policy, limit, window)
               IN  hits \in Seq(DocumentShape) /\ ToSet(hits) \subseteq ToSet(corpus)
    <2> DEFINE hits == Search(corpus, query, policy, limit, window)
    <2>1. hits \in Seq(DocumentShape) /\ \A d \in ToSet(hits) : \E i \in DOMAIN corpus : d = corpus[i]
      BY SearchIsOfCorpus
    <2> HIDE DEF hits
    <2>2. ToSet(hits) \subseteq ToSet(corpus)
      BY <2>1 DEF ToSet
    <2>. QED
      BY <2>1, <2>2 DEF hits
  <1>3. ASSUME NEW policy \in DOMAIN Policies, NEW window,
               found = FirstOf(Search(corpus, query, policy, limit, window), limit)
        PROVE  found \in Seq(DocumentShape) /\ Len(found) <= limit /\ ToSet(found) \subseteq ToSet(corpus)
    <2> HIDE DEF found
    <2>. QED
      BY <1>2, <1>3, FirstOfShows
  <1>4. CASE strategy = "date"
    BY <1>3, <1>4 DEF Recall, DateRecall, Policies
  <1>5. CASE strategy = "temporal"
    BY <1>3, <1>5 DEF Recall, TemporalRecall, Policies
  <1>6. CASE strategy = "known_item"
    BY <1>3, <1>6 DEF Recall, KnownItemLookup, Policies
  <1>7. CASE strategy = "topic"
    <2> DEFINE hits == Search(corpus, query, "topic", limit, Always)
    <2>1. found = BlendHitsByKind(hits, limit)
      BY <1>7 DEF Recall, TopicalSearch
    <2>2. hits \in Seq(DocumentShape) /\ ToSet(hits) \subseteq ToSet(corpus)
      BY <1>2 DEF Policies
    <2> HIDE DEF found, hits
    <2>3. /\ found \in Seq(DocumentShape) /\ Len(found) <= limit
          /\ \E shown \in SUBSET DOMAIN hits : ToSet(found) = {hits[i] : i \in shown}
      BY <2>1, <2>2, BlendShows
    <2>4. ToSet(found) \subseteq ToSet(hits)
      BY <2>3 DEF ToSet
    <2>. QED
      BY <2>2, <2>3, <2>4 DEF found
  <1>. QED
    BY <1>1, <1>4, <1>5, <1>6, <1>7

LEMMA AlwaysEligible ==
  ASSUME NEW corpus, NEW query, Scored(corpus, query)
  PROVE  Eligible(corpus, Always) = corpus
  <1>1. \A i \in DOMAIN corpus : InWindow(corpus[i], Always)
    BY DEF InWindow, Always
  <1>2. corpus = [i \in DOMAIN corpus |-> corpus[i]]
    BY DEF Scored
  <1>3. {i \in DOMAIN corpus : InWindow(corpus[i], Always)} = DOMAIN corpus
    BY <1>1
  <1>. QED
    BY <1>2, <1>3 DEF Eligible

\* What SearchShowsTheBest says of one search.
LEMMA TopicalShowsTheBest ==
  ASSUME NEW corpus, NEW query, Scored(corpus, query), NEW limit \in Nat,
         NEW shown \in ToSet(TopicalSearch(corpus, query, limit)), NEW d \in ToSet(corpus),
         Relevance(query, corpus, d) > Relevance(query, corpus, shown)
  PROVE  /\ /\ d.kind = shown.kind
            /\ Score(query, corpus, "topic", d) > Score(query, corpus, "topic", shown)
            => d \in ToSet(TopicalSearch(corpus, query, limit))
         /\ limit > 1 => \E e \in ToSet(TopicalSearch(corpus, query, limit)) : e.kind = d.kind
  <1> DEFINE H == Hits(corpus, query, "topic", limit, Always)
             n == Cardinality(H)
             hits == Search(corpus, query, "topic", limit, Always)
             blended == TopicalSearch(corpus, query, limit)
             C == Candidates(query, corpus, CandidateLimit("topic", limit))
  <1>1. "topic" \in DOMAIN Policies
    BY DEF Policies
  <1>2. Eligible(corpus, Always) = corpus
    BY AlwaysEligible
  <1>3. /\ H \subseteq DOMAIN corpus /\ n \in Nat /\ hits \in Seq(DocumentShape)
        /\ \E L \in [1..n -> H] :
             /\ hits = [k \in 1..n |-> corpus[L[k]]]
             /\ \A i \in H : \E k \in 1..n : L[k] = i
             /\ \A k, l \in 1..n : k < l <=> Precedes(query, corpus, "topic", L[k], L[l])
    <2>1. /\ H \subseteq DOMAIN Eligible(corpus, Always) /\ n \in Nat /\ hits \in Seq(DocumentShape)
          /\ \E L \in [1..n -> H] :
               /\ hits = [k \in 1..n |-> corpus[L[k]]]
               /\ \A i \in H : \E k \in 1..n : L[k] = i
               /\ \A k, l \in 1..n : k < l <=> Precedes(query, Eligible(corpus, Always), "topic", L[k], L[l])
      BY <1>1, SearchLists
    <2> HIDE DEF H, hits
    <2>. QED
      BY <1>2, <2>1
  <1>4. H = {i \in C : Accepted(query, corpus, corpus[i])}
    BY <1>2 DEF Hits
  <1>5. /\ C \subseteq DOMAIN corpus
        /\ query.terms # {} => \A i \in C, j \in (DOMAIN corpus) \ C :
             Relevance(query, corpus, corpus[i]) >= Relevance(query, corpus, corpus[j])
    <2>1. CandidateLimit("topic", limit) \in Nat
      BY <1>1, CandidateLimitIsNumber
    <2>2. LET indexed == Eligible(corpus, Always)
              found == Candidates(query, indexed, CandidateLimit("topic", limit))
          IN  /\ found \subseteq DOMAIN indexed
              /\ query.terms # {} => \A i \in found, j \in DOMAIN indexed \ found :
                   Relevance(query, indexed, indexed[i]) >= Relevance(query, indexed, indexed[j])
      BY <2>1, CandidatesAreBest
    <2>. QED
      BY <1>2, <2>2
  <1>6. query.terms = {} => C = {}
    BY DEF Candidates
  <1>7. \A i \in DOMAIN corpus : Relevance(query, corpus, corpus[i]) \in Nat
    BY <1>2, EligiblePlaces
  <1>8. /\ blended \in Seq(DocumentShape) 
        /\ \E S \in SUBSET DOMAIN hits :
             /\ ToSet(blended) = {hits[i] : i \in S}
             /\ \A j \in S, i \in DOMAIN hits : i < j /\ hits[i].kind = hits[j].kind => i \in S
             /\ limit > 1 => \A i \in DOMAIN hits : \E j \in S : hits[j].kind = hits[i].kind
    <2>1. blended = BlendHitsByKind(hits, limit)
      BY DEF TopicalSearch
    <2>2. hits \in Seq(DocumentShape)
      BY <1>3
    <2> HIDE DEF hits
    <2>3. LET b == BlendHitsByKind(hits, limit)
          IN  /\ b \in Seq(DocumentShape) 
              /\ \E S \in SUBSET DOMAIN hits :
                   /\ ToSet(b) = {hits[i] : i \in S}
                   /\ \A j \in S, i \in DOMAIN hits : i < j /\ hits[i].kind = hits[j].kind => i \in S
                   /\ limit > 1 => \A i \in DOMAIN hits : \E j \in S : hits[j].kind = hits[i].kind
      BY <2>2, BlendShows
    <2> HIDE DEF blended
    <2>. QED
      BY <2>1, <2>3
  <1> HIDE DEF H, n, hits, blended, C
  <1>9. PICK L \in [1..n -> H] :
          /\ hits = [k \in 1..n |-> corpus[L[k]]]
          /\ \A i \in H : \E k \in 1..n : L[k] = i
          /\ \A k, l \in 1..n : k < l <=> Precedes(query, corpus, "topic", L[k], L[l])
    BY <1>3
  <1>10. PICK S \in SUBSET DOMAIN hits :
           /\ ToSet(blended) = {hits[i] : i \in S}
           /\ \A j \in S, i \in DOMAIN hits : i < j /\ hits[i].kind = hits[j].kind => i \in S
           /\ limit > 1 => \A i \in DOMAIN hits : \E j \in S : hits[j].kind = hits[i].kind
    BY <1>8
  <1>11. shown \in ToSet(blended)
    BY DEF blended
  <1>12. PICK a \in S : shown = hits[a]
    BY <1>10, <1>11
  <1>13. a \in 1..n /\ L[a] \in H /\ shown = corpus[L[a]] /\ DOMAIN hits = 1..n
    BY <1>9, <1>12
  <1>14. PICK j \in DOMAIN corpus : d = corpus[j]
    BY DEF ToSet
  \* The better one is a hit too.
  <1>15. j \in H
    <2>1. L[a] \in C /\ query.terms # {}
      BY <1>4, <1>6, <1>13
    <2>2. j \in C
      BY <1>5, <1>7, <1>13, <1>14, <2>1
    <2>3. Relevance(query, corpus, corpus[j]) > 0
      BY <1>3, <1>7, <1>13, <1>14
    <2>. QED
      BY <1>4, <2>2, <2>3 DEF Accepted
  <1>16. PICK b \in 1..n : L[b] = j
    BY <1>9, <1>15
  <1>17. hits[b] = d
    BY <1>9, <1>14, <1>16
  <1>18. ASSUME d.kind = shown.kind,
                Score(query, corpus, "topic", d) > Score(query, corpus, "topic", shown)
         PROVE  d \in ToSet(blended)
    <2>1. Precedes(query, corpus, "topic", L[b], L[a])
      BY <1>13, <1>14, <1>16, <1>18 DEF Precedes
    <2>2. b < a
      BY <1>9, <1>13, <2>1
    <2>3. b \in S
      BY <1>10, <1>12, <1>13, <1>17, <1>18, <2>2
    <2>. QED
      BY <1>10, <1>17, <2>3
  <1>19. ASSUME limit > 1
         PROVE  \E e \in ToSet(blended) : e.kind = d.kind
    <2>1. PICK c \in S : hits[c].kind = hits[b].kind
      BY <1>10, <1>13, <1>19
    <2>. QED
      BY <1>10, <1>17, <2>1
  <1>. QED
    BY <1>18, <1>19 DEF blended

-----------------------------------------------------------------------------
(* Days.                                                                   *)

LEMMA Division ==
  ASSUME NEW a \in Int, NEW b \in Int, b > 0
  PROVE  a = b * (a \div b) + (a % b)
  OBVIOUS

LEMMA DayStartBounds ==
  ASSUME NEW time \in Nat
  PROVE  /\ DayStart(time) \in Nat /\ DayStart(time) <= time /\ time < DayStart(time) + Day
         /\ time >= 7 * Day => DayStart(time) >= 7 * Day
  <1>1. Day \in Nat /\ Day > 0
    BY RankingAssumption
  <1>2. time % Day \in 0..Day - 1 /\ time \div Day \in Nat
    BY <1>1
  <1>3. time = Day * (time \div Day) + (time % Day)
    BY <1>1, Division
  <1>4. Day * (time \div Day) \in Nat
    BY <1>1, <1>2
  <1> DEFINE q == time \div Day
             r == time % Day
  <1>5. DayStart(time) = Day * q
    BY <1>1, <1>2, <1>3, <1>4 DEF DayStart
  <1> HIDE DEF q, r
  <1>6. ASSUME time >= 7 * Day
        PROVE  DayStart(time) >= 7 * Day
    <2>1. q >= 7
      <3> SUFFICES ASSUME q < 7
                   PROVE  FALSE
        BY <1>2 DEF q
      <3>1. q \in 0..6
        BY <1>2 DEF q
      <3>2. Day * q <= Day * 6
        BY <1>1, <3>1
      <3>. QED
        BY <1>1, <1>2, <1>3, <1>4, <1>6, <3>2 DEF q
    <2>2. PICK e \in Nat : q = 7 + e
      <3>1. q - 7 \in Nat /\ q = 7 + (q - 7)
        BY <1>2, <2>1 DEF q
      <3>. QED
        BY <3>1
    <2>3. Day * (7 + e) = 7 * Day + Day * e /\ Day * e \in Nat
      BY <1>1
    <2>. QED
      BY <1>1, <1>5, <2>2, <2>3
  <1>. QED
    BY <1>1, <1>2, <1>3, <1>4, <1>5, <1>6 DEF q

\* After the first week, and but for the last second, a relative day is a window of time.
LEMMA RelativeDaysAreRepresentable ==
  ASSUME NEW when, NEW time \in 7 * Day..EndOfTime - 1
  PROVE  Representable(TemporalWindow(when, time))
  <1>1. Day \in Nat /\ Day > 0 /\ EndOfTime \in Nat /\ Monday \in 0..6 /\ 7 * Day \in Nat
    BY RankingAssumption, ServerAssumption
  <1>2. time \in Nat /\ time >= 7 * Day /\ time + 1 \in 0..EndOfTime
    BY <1>1
  <1>3. /\ DayStart(time) \in Nat /\ DayStart(time) <= time /\ DayStart(time) >= 7 * Day
    BY <1>2, DayStartBounds
  <1> DEFINE weekday == ((time \div Day) + Monday) % 7
  <1>4. weekday \in 0..6
    BY <1>1, <1>2
  <1> HIDE DEF weekday
  <1>5. Day * weekday \in Nat /\ Day * weekday <= 6 * Day
    BY <1>1, <1>4
  <1>6. WeekStart(time) \in 0..EndOfTime
    BY <1>1, <1>2, <1>3, <1>5 DEF WeekStart, weekday
  <1>7. /\ DayStart(time) - Day \in 0..EndOfTime
        /\ DayStart(time) - 7 * Day \in 0..EndOfTime
        /\ DayStart(time) \in 0..EndOfTime
    BY <1>1, <1>2, <1>3
  <1>8. Representable(Always)
    BY DEF Representable, Always
  <1>. QED
    BY <1>2, <1>6, <1>7, <1>8 DEF Representable, TemporalWindow

\* A time is of the day of another one, or of the day before it.
LEMMA DaysOfTimes ==
  ASSUME NEW time \in Nat, NEW other \in Nat
  PROVE  /\ DayStart(other) = DayStart(time) <=> DayStart(time) <= other /\ other < DayStart(time) + Day
         /\ DayStart(other) = DayStart(time) - Day <=> DayStart(time) - Day <= other /\ other < DayStart(time)
  <1> DEFINE q == time \div Day
             r == other \div Day
  <1>1. Day \in Nat /\ Day > 0
    BY RankingAssumption
  <1>2. /\ time % Day \in 0..Day - 1 /\ q \in Nat
        /\ other % Day \in 0..Day - 1 /\ r \in Nat
    BY <1>1
  <1>3. time = Day * q + (time % Day) /\ other = Day * r + (other % Day)
    BY <1>1, Division
  <1> HIDE DEF q, r
  <1>4. Day * q \in Nat /\ Day * r \in Nat
    BY <1>1, <1>2
  <1>5. DayStart(time) = Day * q /\ DayStart(other) = Day * r
    BY <1>1, <1>2, <1>3, <1>4 DEF DayStart
  <1>6. Day * r <= other /\ other < Day * r + Day
    BY <1>1, <1>2, <1>3, <1>4
  <1>7. \A a, b \in Nat : a < b => Day * a + Day <= Day * b
    <2>1. SUFFICES ASSUME NEW a \in Nat, NEW b \in Nat, a < b
                   PROVE  Day * a + Day <= Day * b
      OBVIOUS
    <2>2. PICK e \in Nat : b = a + 1 + e
      <3>1. b - (a + 1) \in Nat /\ b = a + 1 + (b - (a + 1))
        BY <2>1
      <3>. QED
        BY <3>1
    <2>3. Day * (a + 1 + e) = Day * a + Day + Day * e /\ Day * e \in Nat /\ Day * a \in Nat
      BY <1>1
    <2>. QED
      BY <1>1, <2>2, <2>3
  <1>8. Day * (r + 1) = Day * r + Day /\ r + 1 \in Nat
    BY <1>1, <1>2
  <1>9. r < q => Day * r + Day <= Day * q
    BY <1>2, <1>7
  <1>10. q < r => Day * q + Day <= Day * r
    BY <1>2, <1>7
  <1>11. r + 1 < q => Day * r + Day + Day <= Day * q
    BY <1>2, <1>7, <1>8
  <1>12. r = q \/ r < q \/ q < r
    BY <1>2
  <1>13. r = q \/ r + 1 = q \/ r + 1 < q \/ q < r
    BY <1>2
  <1>14. DayStart(other) = DayStart(time) <=> DayStart(time) <= other /\ other < DayStart(time) + Day
    BY <1>1, <1>4, <1>5, <1>6, <1>9, <1>10, <1>12
  <1>15. r + 1 = q => Day * r + Day = Day * q
    BY <1>8
  <1>16. DayStart(other) = DayStart(time) - Day <=> DayStart(time) - Day <= other /\ other < DayStart(time)
    BY <1>1, <1>4, <1>5, <1>6, <1>10, <1>11, <1>13, <1>15
  <1>. QED
    BY <1>14, <1>16

\* What RelativeDaysAreDates says of one recall.
LEMMA DaysAreShown ==
  ASSUME NEW corpus, NEW query, Scored(corpus, query), NEW limit \in Nat, NEW time \in Nat,
         query.when \cap {"today", "yesterday"} # {}
  PROVE  LET yesterday == "yesterday" \in query.when
             day == IF yesterday THEN DayStart(time) - Day ELSE DayStart(time)
             ofDay == {i \in DOMAIN corpus : OfDay(corpus[i], day)}
             atEnd == {i \in DOMAIN corpus : corpus[i].recorded_at = day + Day}
             found == TemporalRecall(corpus, query, limit, time)
         IN  /\ ToSet(found) \subseteq
                  {corpus[i] : i \in ofDay \cup (IF yesterday \/ time + 1 = day + Day THEN atEnd ELSE {})}
             /\ Cardinality(ofDay \cup atEnd) <= limit =>
                  \A i \in ofDay : corpus[i].recorded_at <= time /\ corpus[i].terms \cap query.terms # {}
                                 => corpus[i] \in ToSet(found)
  <1> DEFINE yesterday == "yesterday" \in query.when
             day == IF yesterday THEN DayStart(time) - Day ELSE DayStart(time)
             ofDay == {i \in DOMAIN corpus : OfDay(corpus[i], day)}
             atEnd == {i \in DOMAIN corpus : corpus[i].recorded_at = day + Day}
             allowed == ofDay \cup (IF yesterday \/ time + 1 = day + Day THEN atEnd ELSE {})
             all == ofDay \cup atEnd
             found == TemporalRecall(corpus, query, limit, time)
             window == TemporalWindow(query.when, time)
             indexed == Eligible(corpus, window)
             D == DOMAIN indexed
             H == Hits(corpus, query, "temporal", limit, window)
             hits == Search(corpus, query, "temporal", limit, window)
  <1>1. /\ Day \in Nat /\ Day > 0 /\ DayStart(time) \in Nat /\ DayStart(time) <= time
        /\ time < DayStart(time) + Day
    BY RankingAssumption, DayStartBounds
  <1>2. \A i \in DOMAIN corpus : corpus[i].recorded_at \in Times
    <2>1. \A i \in DOMAIN corpus : corpus[i] \in DocumentShape
      BY LenProperties, ElementOfSeq DEF Scored
    <2>. QED
      BY <2>1 DEF DocumentShape
  <1>3. \A i \in DOMAIN corpus : OfDay(corpus[i], day) <=>
          corpus[i].recorded_at # None /\ corpus[i].recorded_at >= day /\ corpus[i].recorded_at < day + Day
    <2>1. SUFFICES ASSUME NEW i \in DOMAIN corpus, corpus[i].recorded_at # None
                   PROVE  DayStart(corpus[i].recorded_at) = day <=>
                            corpus[i].recorded_at >= day /\ corpus[i].recorded_at < day + Day
      BY DEF OfDay
    <2>2. corpus[i].recorded_at \in Nat
      BY <1>2, <2>1 DEF Times
    <2>. QED
      BY <1>1, <2>2, DaysOfTimes
  <1>4. \A i \in DOMAIN corpus : InWindow(corpus[i], window) <=>
          /\ corpus[i].recorded_at # None
          /\ corpus[i].recorded_at >= day
          /\ corpus[i].recorded_at <= IF yesterday THEN day + Day ELSE time + 1
    <2>1. CASE ~yesterday
      <3>1. window = [after |-> DayStart(time), before |-> time + 1] /\ day = DayStart(time)
        <4>1. query.when \cap {"today", "recent"} # {}
          BY <2>1
        <4>. QED
          BY <2>1, <4>1 DEF TemporalWindow
      <3>. QED
        BY <1>1, <1>2, <2>1, <3>1, NoneIsNoNumber DEF InWindow
    <2>2. CASE yesterday
      <3>1. window = [after |-> day, before |-> day + Day]
        BY <1>1, <2>2 DEF TemporalWindow
      <3>2. day \in Int
        BY <1>1
      <3> HIDE DEF day, window
      <3>. QED
        BY <1>1, <1>2, <2>2, <3>1, <3>2, NoneIsNoNumber DEF InWindow
    <2>. QED
      BY <2>1, <2>2
  <1>5. /\ \A i \in DOMAIN corpus : InWindow(corpus[i], window) => i \in allowed
        /\ \A i \in ofDay : corpus[i].recorded_at <= time => InWindow(corpus[i], window)
    <2>1. \A i \in DOMAIN corpus : corpus[i].recorded_at = None \/ corpus[i].recorded_at \in Nat
      BY <1>2 DEF Times
    <2>2. day \in Int /\ (~yesterday => time + 1 <= day + Day)
      BY <1>1
    <2> HIDE DEF day, window, yesterday
    <2>3. ASSUME NEW i \in DOMAIN corpus, InWindow(corpus[i], window)
          PROVE  i \in allowed
      <3>1. /\ corpus[i].recorded_at \in Nat /\ corpus[i].recorded_at >= day
            /\ yesterday => corpus[i].recorded_at <= day + Day
            /\ ~yesterday => corpus[i].recorded_at <= time + 1
        BY <1>4, <2>1, <2>3
      <3>2. CASE corpus[i].recorded_at < day + Day
        BY <1>3, <1>4, <2>3, <3>1, <3>2
      <3>3. CASE ~(corpus[i].recorded_at < day + Day)
        <4>1. corpus[i].recorded_at = day + Day /\ (yesterday \/ time + 1 = day + Day)
          BY <1>1, <2>2, <3>1, <3>3
        <4>. QED
          BY <4>1
      <3>. QED
        BY <3>2, <3>3
    <2>4. ASSUME NEW i \in ofDay, corpus[i].recorded_at <= time
          PROVE  InWindow(corpus[i], window)
      BY <1>1, <1>3, <1>4, <2>1, <2>2, <2>4
    <2>. QED
      BY <2>3, <2>4
  <1>6. "temporal" \in DOMAIN Policies
    BY DEF Policies
  <1>7. found = FirstOf(hits, limit)
    BY DEF TemporalRecall
  <1>8. /\ D = {i \in DOMAIN corpus : InWindow(corpus[i], window)}
        /\ IsFiniteSet(D) /\ Cardinality(D) \in Nat
        /\ \A i \in D : /\ indexed[i] = corpus[i]
                        /\ query.terms \cap corpus[i].terms # {} => Relevance(query, indexed, corpus[i]) > 0
    BY EligiblePlaces
  <1>13. allowed \subseteq all /\ all \subseteq DOMAIN corpus
    OBVIOUS
  <1>14. \A i \in ofDay : i \in DOMAIN corpus
    OBVIOUS
  <1> HIDE DEF day, ofDay, atEnd, allowed, all, yesterday, window, found
  <1>9. D \subseteq all
    BY <1>5, <1>8, <1>13
  <1>10. /\ hits \in Seq(DocumentShape)
         /\ \A d \in ToSet(hits) : \E i \in DOMAIN corpus : d = corpus[i] /\ InWindow(corpus[i], window)
    <2>1. ASSUME NEW policy \in DOMAIN Policies, NEW w
          PROVE  Search(corpus, query, policy, limit, w) \in Seq(DocumentShape)
      BY SearchIsOfCorpus
    <2>2. ASSUME NEW policy \in DOMAIN Policies, NEW w
          PROVE  \A d \in ToSet(Search(corpus, query, policy, limit, w)) :
                   \E i \in DOMAIN corpus : d = corpus[i] /\ InWindow(corpus[i], w)
      BY SearchIsOfCorpus
    <2>. QED
      BY <1>6, <2>1, <2>2
  <1>11. ToSet(found) \subseteq {corpus[i] : i \in allowed}
    <2>1. ToSet(found) \subseteq ToSet(hits)
      BY <1>7, <1>10, FirstOfShows
    <2> HIDE DEF hits
    <2>. QED
      BY <1>5, <1>10, <2>1
  <1>12. ASSUME Cardinality(all) <= limit, NEW i \in ofDay, corpus[i].recorded_at <= time,
                corpus[i].terms \cap query.terms # {}
         PROVE  corpus[i] \in ToSet(found)
    <2> DEFINE C == Candidates(query, indexed, CandidateLimit("temporal", limit))
    <2>1. i \in D /\ query.terms # {}
      BY <1>5, <1>8, <1>12, <1>14
    \* There is room for all that is indexed.
    <2>2. Cardinality(D) <= limit
      <3>1. corpus \in Seq(DocumentShape) /\ all \in SUBSET DOMAIN corpus
        BY <1>13 DEF Scored
      <3>2. IsFiniteSet(all) /\ Cardinality(all) \in Nat
        BY <3>1, PlacesAreFinite
      <3>3. Cardinality(D) <= Cardinality(all)
        BY <1>9, <3>2, FS_Subset
      <3>. QED
        BY <1>8, <1>12, <3>2, <3>3
    <2>3. C = D
      <3>1. CandidateLimit("temporal", limit) \in Nat /\ CandidateLimit("temporal", limit) >= limit
        BY <1>6, CandidateLimitIsNumber
      <3>2. C \subseteq D /\ Cardinality(C) = Min({CandidateLimit("temporal", limit), Cardinality(D)})
        BY <2>1, <3>1, CandidatesAreBest
      <3>3. Min({CandidateLimit("temporal", limit), Cardinality(D)}) = Cardinality(D)
        BY <1>8, <2>2, <3>1, LeastOfTwo
      <3> HIDE DEF C, D
      <3>. QED
        BY <1>8, <3>2, <3>3, FS_Subset
    <2>4. i \in H
      <3>1. Relevance(query, indexed, indexed[i]) > 0
        BY <1>8, <1>12, <2>1
      <3>2. Accepted(query, indexed, indexed[i])
        BY <3>1 DEF Accepted
      <3>. QED
        BY <2>1, <2>3, <3>2 DEF Hits
    <2>5. /\ H \subseteq D /\ Cardinality(H) \in Nat /\ Len(hits) = Cardinality(H)
          /\ \E L \in [1..Cardinality(H) -> H] :
               /\ hits = [k \in 1..Cardinality(H) |-> corpus[L[k]]]
               /\ \A j \in H : \E k \in 1..Cardinality(H) : L[k] = j
      <3> DEFINE n == Cardinality(H)
      <3>1. /\ H \subseteq D /\ n \in Nat /\ Len(hits) = n
            /\ \E L \in [1..n -> H] :
                 /\ hits = [k \in 1..n |-> corpus[L[k]]]
                 /\ \A j \in H : \E k \in 1..n : L[k] = j
                 /\ \A k, l \in 1..n : k < l <=> Precedes(query, indexed, "temporal", L[k], L[l])
        BY <1>6, SearchLists
      <3> HIDE DEF H, D, hits, indexed
      <3>. QED
        BY <3>1
    <2> HIDE DEF H, D, hits
    <2>6. Len(hits) <= limit
      <3>1. Cardinality(H) <= Cardinality(D)
        BY <1>8, <2>5, FS_Subset
      <3>. QED
        BY <1>8, <2>2, <2>5, <3>1
    <2>7. corpus[i] \in ToSet(hits)
      <3>1. PICK L \in [1..Cardinality(H) -> H] :
              /\ hits = [k \in 1..Cardinality(H) |-> corpus[L[k]]]
              /\ \A j \in H : \E k \in 1..Cardinality(H) : L[k] = j
        BY <2>5
      <3>2. PICK k \in 1..Cardinality(H) : L[k] = i
        BY <2>4, <3>1
      <3>. QED
        BY <3>1, <3>2 DEF ToSet
    <2>. QED
      BY <1>7, <1>10, <2>6, <2>7, FirstOfShows DEF hits
  <1>. QED
    BY <1>11, <1>12 DEF day, ofDay, atEnd, allowed, all, yesterday, found

-----------------------------------------------------------------------------
(* The facade's tables.                                                    *)

LEMMA TripleIsSequence ==
  ASSUME NEW S, NEW a \in S, NEW b \in S, NEW c \in S
  PROVE  <<a, b, c>> \in Seq(S) /\ <<a, b, c>> # <<>>
  <1>1. <<a>> \in Seq(S) /\ <<a, b>> = Append(<<a>>, b) /\ <<a, b, c>> = Append(<<a, b>>, c)
    OBVIOUS
  <1>2. <<a, b>> \in Seq(S) /\ <<a, b, c>> \in Seq(S)
    BY <1>1, AppendProperties
  <1>3. Len(<<a, b, c>>) = 3 /\ Len(<<>>) = 0
    OBVIOUS
  <1>. QED
    BY <1>2, <1>3

Facades == {Facade(wiki) : wiki \in Wikis}

LEMMA FacadeTables ==
  ASSUME NEW f \in Facades
  PROVE  /\ f.sessions \in Seq(SessionShape) /\ f.pages \in Seq(PageShape)
         /\ \A i \in DOMAIN f.sessions : f.sessions[i] \in SessionShape /\ f.sessions[i] # None
         /\ \A i \in DOMAIN f.pages :
              /\ f.pages[i] \in PageShape /\ f.pages[i] # None /\ f.pages[i].path # <<>>
              /\ PageSlug(f.pages[i]) \in STRING
  <1>1. PICK wiki \in Wikis : f = Facade(wiki)
    BY DEF Facades
  <1>2. /\ wiki \in WikiShape
        /\ \A i \in DOMAIN wiki.pages :
             /\ wiki.pages[i].typed => wiki.pages[i].path # <<>>
             /\ {PageSlug(wiki.pages[i]), PageSlug(CompiledPage(wiki.pages[i]))} \subseteq STRING
    BY ServerAssumption
  <1>3. wiki.sessions \in Seq(SessionShape) /\ wiki.pages \in Seq(PageShape)
    BY <1>2 DEF WikiShape
  <1> DEFINE pages == [i \in DOMAIN wiki.pages |-> CompiledPage(wiki.pages[i])]
  <1>4. f.sessions = wiki.sessions /\ f.pages = pages
    BY <1>1, <1>2 DEF Facade, WikiShape
  <1>5. /\ Len(wiki.pages) \in Nat /\ DOMAIN wiki.pages = 1..Len(wiki.pages)
        /\ \A i \in DOMAIN wiki.pages : wiki.pages[i] \in PageShape
    BY <1>3, LenProperties, ElementOfSeq
  <1>6. ASSUME NEW i \in DOMAIN wiki.pages
        PROVE  pages[i] \in PageShape /\ pages[i].path # <<>> /\ PageSlug(pages[i]) \in STRING
    <2> DEFINE given == wiki.pages[i]
    <2>1. /\ given \in PageShape /\ (given.typed => given.path # <<>>)
          /\ PageSlug(given) \in STRING /\ PageSlug(CompiledPage(given)) \in STRING
      BY <1>2, <1>5
    <2>2. pages[i] = CompiledPage(given)
      OBVIOUS
    <2> HIDE DEF given, pages
    <2>3. CASE given.typed
      BY <2>1, <2>2, <2>3 DEF CompiledPage
    <2>4. CASE ~given.typed
      <3> DEFINE path == <<"compiled", "topics", PageSlug(given)>>
      <3>1. path \in Text /\ path # <<>>
        <4>1. "compiled" \in STRING /\ "topics" \in STRING /\ PageSlug(given) \in STRING
          BY <2>1, ServerAssumption
        <4>2. \A a, b, c \in STRING : <<a, b, c>> \in Seq(STRING) /\ <<a, b, c>> # <<>>
          BY TripleIsSequence
        <4>. QED
          BY <4>1, <4>2 DEF Text
      <3> HIDE DEF path
      <3>2. CompiledPage(given) = [given EXCEPT !.path = path]
        BY <2>4 DEF CompiledPage, path
      <3>. QED
        BY <2>1, <2>2, <3>1, <3>2 DEF PageShape
    <2>. QED
      BY <2>3, <2>4
  <1>7. pages \in [1..Len(wiki.pages) -> PageShape]
    BY <1>5, <1>6
  <1>8. pages \in Seq(PageShape) /\ DOMAIN pages = DOMAIN wiki.pages
    BY <1>5, <1>7, SequenceOf
  <1> HIDE DEF pages
  <1>9. \A i \in DOMAIN wiki.sessions : wiki.sessions[i] \in SessionShape
    BY <1>3, ElementOfSeq
  <1>10. None \notin SessionShape /\ None \notin PageShape
    BY ServerAssumption
  <1>. QED
    BY <1>3, <1>4, <1>6, <1>8, <1>9, <1>10

LEMMA CorpusOfFacade ==
  ASSUME NEW f \in Facades
  PROVE  /\ Corpus(f) \in Seq(DocumentShape)
         /\ \A d \in ToSet(Corpus(f)) :
              /\ d.kind = "session" => \E i \in DOMAIN f.sessions : d.id = f.sessions[i].id
              /\ d.kind = "page" => \E i \in DOMAIN f.pages : d.path = f.pages[i].path
  <1> DEFINE session(i) ==
               [id |-> f.sessions[i].id, path |-> f.sessions[i].path, kind |-> "session",
                terms |-> f.sessions[i].terms, recorded_at |-> f.sessions[i].recorded_at]
             page(i) ==
               [id |-> f.pages[i].path, path |-> f.pages[i].path, kind |-> "page",
                terms |-> f.pages[i].terms, recorded_at |-> f.pages[i].recorded_at]
             s == [i \in DOMAIN f.sessions |-> session(i)]
             p == [i \in DOMAIN f.pages |-> page(i)]
  <1>1. /\ f.sessions \in Seq(SessionShape) /\ f.pages \in Seq(PageShape)
        /\ \A i \in DOMAIN f.sessions : f.sessions[i] \in SessionShape
        /\ \A i \in DOMAIN f.pages : f.pages[i] \in PageShape
    BY FacadeTables
  <1>2. /\ Len(f.sessions) \in Nat /\ DOMAIN f.sessions = 1..Len(f.sessions)
        /\ Len(f.pages) \in Nat /\ DOMAIN f.pages = 1..Len(f.pages)
    BY <1>1, LenProperties
  <1>3. \A i \in DOMAIN f.sessions : session(i) \in DocumentShape
    BY <1>1 DEF SessionShape, DocumentShape
  <1>4. \A i \in DOMAIN f.pages : page(i) \in DocumentShape
    BY <1>1 DEF PageShape, DocumentShape
  <1>5. \A i \in DOMAIN f.sessions : session(i).kind = "session" /\ session(i).id = f.sessions[i].id
    OBVIOUS
  <1>6. \A i \in DOMAIN f.pages : page(i).kind = "page" /\ page(i).path = f.pages[i].path
    OBVIOUS
  <1>7. Corpus(f) = s \o p
    BY DEF Corpus
  <1> HIDE DEF session, page
  <1>8. s \in Seq(DocumentShape) /\ Len(s) = Len(f.sessions)
    BY <1>2, <1>3, SequenceOf
  <1>9. p \in Seq(DocumentShape) /\ Len(p) = Len(f.pages)
    BY <1>2, <1>4, SequenceOf
  <1>10. /\ \A i \in 1..Len(s) : s[i] = session(i) /\ i \in DOMAIN f.sessions
         /\ \A i \in 1..Len(p) : p[i] = page(i) /\ i \in DOMAIN f.pages
    BY <1>2, <1>8, <1>9
  <1> HIDE DEF s, p
  <1>11. /\ s \o p \in Seq(DocumentShape) /\ Len(s \o p) = Len(s) + Len(p)
         /\ DOMAIN (s \o p) = 1..Len(s) + Len(p)
         /\ \A i \in 1..Len(s) + Len(p) :
              (s \o p)[i] = IF i <= Len(s) THEN s[i] ELSE p[i - Len(s)]
    <2>1. /\ s \o p \in Seq(DocumentShape) /\ Len(s \o p) = Len(s) + Len(p)
          /\ \A i \in 1..Len(s) + Len(p) :
               (s \o p)[i] = IF i <= Len(s) THEN s[i] ELSE p[i - Len(s)]
      BY <1>8, <1>9, ConcatProperties
    <2>2. DOMAIN (s \o p) = 1..Len(s \o p)
      BY <2>1, LenProperties
    <2>. QED
      BY <2>1, <2>2
  <1>12. ASSUME NEW i \in DOMAIN (s \o p)
         PROVE  \/ \E j \in DOMAIN f.sessions : (s \o p)[i] = session(j)
                \/ \E j \in DOMAIN f.pages : (s \o p)[i] = page(j)
    <2>1. Len(s) \in Nat /\ Len(p) \in Nat /\ i \in 1..Len(s) + Len(p)
      BY <1>2, <1>8, <1>9, <1>11
    <2>2. CASE i <= Len(s)
      <3>1. i \in 1..Len(s) /\ (s \o p)[i] = s[i]
        BY <1>11, <2>1, <2>2
      <3>. QED
        BY <1>10, <3>1
    <2>3. CASE ~(i <= Len(s))
      <3>1. i - Len(s) \in 1..Len(p) /\ (s \o p)[i] = p[i - Len(s)]
        BY <1>11, <2>1, <2>3
      <3>. QED
        BY <1>10, <3>1
    <2>. QED
      BY <2>2, <2>3
  <1>13. \A d \in ToSet(s \o p) :
           \/ \E j \in DOMAIN f.sessions : d = session(j)
           \/ \E j \in DOMAIN f.pages : d = page(j)
    BY <1>12 DEF ToSet
  <1>. QED
    BY <1>5, <1>6, <1>7, <1>11, <1>13

LEMMA QueriesAreScored ==
  ASSUME NEW f \in Facades, NEW query \in Queries(f)
  PROVE  Scored(Corpus(f), query)
  <1> SUFFICES ASSUME NEW wiki \in Wikis, NEW q \in Queries(Facade(wiki)), f = Facade(wiki), q = query
               PROVE  Scored(Corpus(Facade(wiki)), q)
    BY DEF Facades
  <1> DEFINE corpus == Corpus(Facade(wiki))
             texts == {corpus[i].path : i \in DOMAIN corpus} \cup {corpus[i].id : i \in DOMAIN corpus}
  <1>1. \A message \in Messages(Facade(wiki)) : WellFormed(message)
    BY CorpusAssumption
  <1>2. \A p \in texts, s \in texts, r \in texts :
          /\ ~PathBefore(p, p)
          /\ p = s \/ PathBefore(p, s) \/ PathBefore(s, p)
          /\ PathBefore(p, s) /\ PathBefore(s, r) => PathBefore(p, r)
    BY CorpusAssumption
  <1>6. \A places \in SUBSET DOMAIN corpus : \A i \in places :
          LET relevance == Relevance(q, [j \in places |-> corpus[j]], corpus[i])
          IN  /\ relevance \in Nat
              /\ q.terms \cap corpus[i].terms # {} => relevance > 0
    BY CorpusAssumption
  <1>3. corpus \in Seq(DocumentShape)
    BY CorpusOfFacade DEF Facades
  <1> HIDE DEF corpus
  <1>4. q \in QueryShape
    <2>1. PICK message \in Messages(Facade(wiki)) :
            message.arguments # None /\ q = message.arguments.query
      BY DEF Queries
    <2>2. message \in MessageShape /\ q # None
      BY <1>1 DEF WellFormed, Queries
    <2>3. message.arguments \in ArgumentShape
      BY <2>1, <2>2 DEF MessageShape
    <2>. QED
      BY <2>1, <2>2, <2>3 DEF ArgumentShape
  <1> HIDE DEF texts
  <1>5. \A p, s, r \in texts :
          /\ ~PathBefore(p, p)
          /\ p = s \/ PathBefore(p, s) \/ PathBefore(s, p)
          /\ PathBefore(p, s) /\ PathBefore(s, r) => PathBefore(p, r)
    BY <1>2
  <1>. QED
    BY <1>3, <1>4, <1>5, <1>6 DEF Scored, corpus, texts

LEMMA MessagesAreWellFormed ==
  ASSUME NEW f \in Facades, NEW message \in Messages(f)
  PROVE  /\ WellFormed(message)
         /\ message.arguments # None => message.arguments \in ArgumentShape
         /\ None \notin [id : Nat \cup {None, Unreadable}, message : Messages(f), time : Nat]
  <1>1. PICK wiki \in Wikis : f = Facade(wiki)
    BY DEF Facades
  <1>2. WellFormed(message) /\ None \notin [id : Nat \cup {None, Unreadable}, message : Messages(f), time : Nat]
    BY <1>1, CorpusAssumption
  <1>. QED
    BY <1>2 DEF WellFormed, MessageShape

LEMMA LastOfEntries ==
  ASSUME NEW V, NEW entries \in Seq(V), NEW meant \in SUBSET DOMAIN entries
  PROVE  /\ meant = {} => LastOf(entries, meant) = None
         /\ meant # {} => \E m \in meant : LastOf(entries, meant) = entries[m]
  <1>1. IsFiniteSet(meant) /\ meant \in SUBSET Nat
    BY PlacesAreFinite
  <1>2. meant # {} => Max(meant) \in meant
    BY <1>1, GreatestExists
  <1>. QED
    BY <1>2 DEF LastOf

\* Distinct lists what a sequence contains.
LEMMA DistinctLists ==
  ASSUME NEW V, NEW s \in Seq(V)
  PROVE  Distinct(s) \in Seq(V) /\ ToSet(Distinct(s)) = ToSet(s)
  <1> DEFINE first == {i \in DOMAIN s : \A j \in 1..i - 1 : s[j] # s[i]}
             before == {pair \in first \X first : pair[1] < pair[2]}
             f == [i \in first |-> s[i]]
  <1>1. /\ Len(s) \in Nat /\ DOMAIN s = 1..Len(s)
        /\ \A i \in DOMAIN s : s[i] \in V
    BY LenProperties, ElementOfSeq
  <1>2. first \in SUBSET DOMAIN s /\ first \in SUBSET Nat
    BY <1>1
  <1>3. LinearOn(first, before)
    <2> HIDE DEF first
    <2>. QED
      BY <1>2 DEF LinearOn
  <1>4. f \in [first -> V]
    BY <1>1, <1>2
  <1>5. Distinct(s) = Arranged(f, before)
    BY DEF Distinct
  <1>6. ASSUME NEW i \in DOMAIN s
        PROVE  \E j \in first : s[j] = s[i]
    <2> DEFINE same == {j \in DOMAIN s : s[j] = s[i]}
               j == Min(same)
    <2>1. same \in SUBSET Nat /\ same # {}
      BY <1>1
    <2>2. j \in same /\ \A k \in same : j <= k
      <3> HIDE DEF same
      <3>. QED
        BY <2>1, LeastExists
    <2> HIDE DEF j
    <2>3. j \in DOMAIN s /\ s[j] = s[i] /\ j \in 1..Len(s)
      BY <1>1, <2>2
    <2>4. \A k \in 1..j - 1 : k \in DOMAIN s /\ ~(j <= k)
      BY <1>1, <2>3
    <2>5. \A k \in 1..j - 1 : s[k] # s[j]
      BY <2>2, <2>3, <2>4
    <2>. QED
      BY <2>3, <2>5
  <1>7. IsFiniteSet(first)
    <2> HIDE DEF first
    <2>. QED
      BY <1>2, PlacesAreFinite
  <1>8. {f[i] : i \in first} = ToSet(s)
    <2>1. \A i \in first : f[i] = s[i]
      OBVIOUS
    <2> HIDE DEF first, f
    <2>. QED
      BY <1>2, <1>6, <2>1 DEF ToSet
  <1> HIDE DEF first, before, f
  <1>9. Arranged(f, before) \in Seq(V) /\ ToSet(Arranged(f, before)) = {f[i] : i \in first}
    BY <1>3, <1>4, <1>7, ArrangedLists
  <1>. QED
    BY <1>5, <1>8, <1>9

LEMMA PageIsFound ==
  ASSUME NEW f \in Facades, NEW path
  PROVE  /\ (\A i \in DOMAIN f.pages : f.pages[i].path # path) => PageByPath(f, path) = None
         /\ (\E i \in DOMAIN f.pages : f.pages[i].path = path) =>
              /\ PageByPath(f, path) # None /\ PageByPath(f, path).path = path
              /\ \E i \in DOMAIN f.pages : PageByPath(f, path) = f.pages[i]
  <1> DEFINE meant == {i \in DOMAIN f.pages : f.pages[i].path = path}
  <1>1. /\ f.pages \in Seq(PageShape) /\ meant \in SUBSET DOMAIN f.pages
        /\ \A i \in DOMAIN f.pages : f.pages[i] # None
    BY FacadeTables
  <1>2. PageByPath(f, path) = LastOf(f.pages, meant)
    BY DEF PageByPath
  <1>3. /\ meant = {} => LastOf(f.pages, meant) = None
        /\ meant # {} => \E m \in meant : LastOf(f.pages, meant) = f.pages[m]
    <2> HIDE DEF meant
    <2>. QED
      BY <1>1, LastOfEntries
  <1>. QED
    BY <1>1, <1>2, <1>3

LEMMA PagesAreListed ==
  ASSUME NEW f \in Facades
  PROVE  /\ PagesByPath(f) \in Seq(PageShape)
         /\ \A k \in DOMAIN PagesByPath(f) : \E i \in DOMAIN f.pages :
              PagesByPath(f)[k] = f.pages[i]
         /\ \A i \in DOMAIN f.pages : \E k \in DOMAIN PagesByPath(f) :
              PagesByPath(f)[k].path = f.pages[i].path
  <1> DEFINE s == [i \in DOMAIN f.pages |-> f.pages[i].path]
             paths == Distinct(s)
  <1>1. f.pages \in Seq(PageShape) /\ \A i \in DOMAIN f.pages : f.pages[i] \in PageShape
    BY FacadeTables
  <1>2. Len(f.pages) \in Nat /\ DOMAIN f.pages = 1..Len(f.pages)
    BY <1>1, LenProperties
  <1>3. s \in Seq(Text) /\ DOMAIN s = DOMAIN f.pages /\ \A i \in DOMAIN s : s[i] = f.pages[i].path
    <2>1. s \in [1..Len(f.pages) -> Text]
      BY <1>1, <1>2 DEF PageShape
    <2>. QED
      BY <1>2, <2>1, SequenceOf
  <1> HIDE DEF s
  <1>4. paths \in Seq(Text) /\ ToSet(paths) = ToSet(s)
    BY <1>3, DistinctLists
  <1>5. PagesByPath(f) = [k \in DOMAIN paths |-> PageByPath(f, paths[k])]
    BY DEF PagesByPath, s
  <1> HIDE DEF paths
  <1>6. ASSUME NEW k \in DOMAIN paths
        PROVE  \E i \in DOMAIN f.pages : paths[k] = f.pages[i].path
    <2>1. paths[k] \in ToSet(s)
      BY <1>4 DEF ToSet
    <2>2. PICK i \in DOMAIN s : s[i] = paths[k]
      BY <2>1 DEF ToSet
    <2>. QED
      BY <1>3, <2>2
  <1>7. \A i \in DOMAIN f.pages : \E k \in DOMAIN paths : paths[k] = f.pages[i].path
    BY <1>3, <1>4 DEF ToSet
  <1>8. \A k \in DOMAIN paths :
          /\ PageByPath(f, paths[k]).path = paths[k]
          /\ \E i \in DOMAIN f.pages : PageByPath(f, paths[k]) = f.pages[i]
    BY <1>6, PageIsFound
  <1>9. PagesByPath(f) \in Seq(PageShape)
    <2>1. Len(paths) \in Nat /\ DOMAIN paths = 1..Len(paths)
      BY <1>4, LenProperties
    <2>2. PagesByPath(f) \in [1..Len(paths) -> PageShape]
      BY <1>1, <1>5, <1>8, <2>1
    <2>. QED
      BY <2>1, <2>2, SequenceOf
  <1>10. \A k \in DOMAIN PagesByPath(f) : \E i \in DOMAIN f.pages :
           PagesByPath(f)[k] = f.pages[i]
    BY <1>5, <1>8
  <1>11. ASSUME NEW i \in DOMAIN f.pages
         PROVE  \E k \in DOMAIN PagesByPath(f) : PagesByPath(f)[k].path = f.pages[i].path
    <2>1. PICK k \in DOMAIN paths : paths[k] = f.pages[i].path
      BY <1>7
    <2>. QED
      BY <1>5, <1>8, <2>1
  <1>. QED
    BY <1>9, <1>10, <1>11

LEMMA PageOfSlug ==
  ASSUME NEW f \in Facades, NEW slug
  PROVE  /\ PageBySlug(f, slug) # None =>
              /\ PageSlug(PageBySlug(f, slug)) = slug
              /\ \E i \in DOMAIN f.pages : PageBySlug(f, slug) = f.pages[i]
         /\ (\E i \in DOMAIN f.pages : PageSlug(f.pages[i]) = slug) => PageBySlug(f, slug) # None
  <1> DEFINE pages == PagesByPath(f)
             meant == {k \in DOMAIN pages : PageSlug(pages[k]) = slug}
  <1>1. /\ pages \in Seq(PageShape)
        /\ \A k \in DOMAIN pages : \E i \in DOMAIN f.pages : pages[k] = f.pages[i]
        /\ \A i \in DOMAIN f.pages : \E k \in DOMAIN pages : pages[k].path = f.pages[i].path
    BY PagesAreListed
  <1>2. PageBySlug(f, slug) = LastOf(pages, meant)
    BY DEF PageBySlug
  <1> HIDE DEF pages
  <1>3. /\ meant = {} => LastOf(pages, meant) = None
        /\ meant # {} => \E m \in meant : LastOf(pages, meant) = pages[m]
    <2>1. meant \in SUBSET DOMAIN pages
      OBVIOUS
    <2> HIDE DEF meant
    <2>. QED
      BY <1>1, <2>1, LastOfEntries
  <1>4. \A i \in DOMAIN f.pages : f.pages[i] # None /\ f.pages[i].path # <<>>
    BY FacadeTables
  <1>5. ASSUME NEW i \in DOMAIN f.pages, PageSlug(f.pages[i]) = slug
        PROVE  PageBySlug(f, slug) # None
    <2>1. PICK k \in DOMAIN pages : pages[k].path = f.pages[i].path
      BY <1>1
    <2>2. PageSlug(pages[k]) = slug
      BY <1>4, <1>5, <2>1 DEF PageSlug
    <2>3. meant # {}
      BY <2>2
    <2>4. PICK m \in meant : LastOf(pages, meant) = pages[m]
      BY <1>3, <2>3
    <2>. QED
      BY <1>1, <1>2, <1>4, <2>4
  <1>6. ASSUME PageBySlug(f, slug) # None
        PROVE  /\ PageSlug(PageBySlug(f, slug)) = slug
               /\ \E i \in DOMAIN f.pages : PageBySlug(f, slug) = f.pages[i]
    <2>1. meant # {}
      BY <1>2, <1>3, <1>6
    <2>2. PICK m \in meant : LastOf(pages, meant) = pages[m]
      BY <1>3, <2>1
    <2>. QED
      BY <1>1, <1>2, <2>2
  <1>. QED
    BY <1>5, <1>6

LEMMA PageOfTitle ==
  ASSUME NEW f \in Facades, NEW text, PageByTitle(f, text) # None
  PROVE  \E i \in DOMAIN f.pages : PageByTitle(f, text) = f.pages[i]
  <1> DEFINE pages == PagesByPath(f)
             meant == {k \in DOMAIN pages : Fold(pages[k].title) = Fold(text)}
  <1>1. /\ pages \in Seq(PageShape)
        /\ \A k \in DOMAIN pages : \E i \in DOMAIN f.pages : pages[k] = f.pages[i]
    BY PagesAreListed
  <1>2. PageByTitle(f, text) = LastOf(pages, meant)
    BY DEF PageByTitle
  <1> HIDE DEF pages
  <1>3. /\ meant = {} => LastOf(pages, meant) = None
        /\ meant # {} => \E m \in meant : LastOf(pages, meant) = pages[m]
    <2>1. meant \in SUBSET DOMAIN pages
      OBVIOUS
    <2> HIDE DEF meant
    <2>. QED
      BY <1>1, <2>1, LastOfEntries
  <1>. QED
    BY <1>1, <1>2, <1>3

\* A link resolves to a page's path, or to nothing.
LEMMA LinksResolve ==
  ASSUME NEW f \in Facades, NEW target, ResolvedLink(f, target).resolved # None
  PROVE  \E i \in DOMAIN f.pages : ResolvedLink(f, target).resolved = f.pages[i].path
  <1>1. PageByPath(f, target) # None => \E i \in DOMAIN f.pages : PageByPath(f, target) = f.pages[i]
    BY PageIsFound
  <1>2. PageBySlug(f, Slug(target)) # None =>
          \E i \in DOMAIN f.pages : PageBySlug(f, Slug(target)) = f.pages[i]
    BY PageOfSlug
  <1>3. PageByTitle(f, target) # None => \E i \in DOMAIN f.pages : PageByTitle(f, target) = f.pages[i]
    BY PageOfTitle
  <1>. QED
    BY <1>1, <1>2, <1>3 DEF ResolvedLink

LEMMA SessionIsFound ==
  ASSUME NEW f \in Facades, NEW key, \E i \in DOMAIN f.sessions : f.sessions[i].id = key
  PROVE  SessionByKey(f, key) # None /\ SessionByKey(f, key).id = key
  <1> DEFINE meant == {i \in DOMAIN f.sessions : f.sessions[i].id = key}
  <1>1. /\ f.sessions \in Seq(SessionShape) /\ meant \in SUBSET DOMAIN f.sessions /\ meant # {}
        /\ \A i \in DOMAIN f.sessions : f.sessions[i] # None
    BY FacadeTables
  <1>2. \E m \in meant : LastOf(f.sessions, meant) = f.sessions[m]
    <2> HIDE DEF meant
    <2>. QED
      BY <1>1, LastOfEntries
  <1>. QED
    BY <1>1, <1>2 DEF SessionByKey

-----------------------------------------------------------------------------
(* Tools.                                                                  *)

LEMMA LimitsAreCoerced ==
  ASSUME NEW limit \in Int \cup {None, Unreadable}
  PROVE  \/ CoerceLimit(limit) = Raised("ValueError")
         \/ \E n \in 1..50 : CoerceLimit(limit) = Returned(n)
  <1>1. None # Unreadable /\ None \notin Int /\ Unreadable \notin Int
    BY ServerAssumption
  <1>2. CASE limit = None
    <2>1. CoerceLimit(limit) = Returned(5)
      BY <1>1, <1>2 DEF CoerceLimit
    <2>. QED
      BY <2>1
  <1>3. CASE limit = Unreadable
    BY <1>1, <1>3 DEF CoerceLimit
  <1>4. CASE limit \in Int
    <2> DEFINE atLeast == Max({limit, 1})
               n == Min({atLeast, 50})
    <2>1. CoerceLimit(limit) = Returned(n)
      BY <1>1, <1>4 DEF CoerceLimit
    <2>2. atLeast = IF limit >= 1 THEN limit ELSE 1
      BY <1>4, GreatestOfTwo
    <2>3. atLeast \in Int /\ atLeast >= 1
      BY <1>4, <2>2
    <2> HIDE DEF atLeast
    <2>4. n = IF atLeast <= 50 THEN atLeast ELSE 50
      BY <2>3, LeastOfTwo
    <2>5. n \in 1..50
      BY <2>3, <2>4
    <2>. QED
      BY <2>1, <2>5
  <1>. QED
    BY <1>2, <1>3, <1>4

\* The arguments of a message: their shape, and a query that is scored.
Given(f, arguments) ==
  arguments \in ArgumentShape /\ (arguments.query # None => arguments.query \in Queries(f))

LEMMA ArgumentsAreGiven ==
  ASSUME NEW f \in Facades, NEW message \in Messages(f), message.arguments # None
  PROVE  Given(f, message.arguments)
  <1>1. message.arguments \in ArgumentShape
    BY MessagesAreWellFormed
  <1>. QED
    BY <1>1 DEF Given, Queries

\* What a search or a recall returns: at most limit hits, found by strategy.
Found(f, query, time, limit, strategy) ==
  Returned([hits |-> Recall(Corpus(f), query, limit, strategy, time), limit |-> limit, strategy |-> strategy])

LEMMA SearchReturns ==
  ASSUME NEW f \in Facades, NEW arguments, Given(f, arguments), NEW time
  PROVE  \/ SearchTool(f, arguments) = Raised("ValueError")
         \/ /\ arguments.query \in Queries(f)
            /\ \E n \in 1..50 : SearchTool(f, arguments) = Found(f, arguments.query, time, n, "topic")
  <1> DEFINE limit == CoerceLimit(arguments.limit)
  <1>1. arguments.limit \in Int \cup {None, Unreadable}
    BY DEF Given, ArgumentShape
  <1>2. limit = Raised("ValueError") \/ \E n \in 1..50 : limit = Returned(n)
    BY <1>1, LimitsAreCoerced
  <1>3. SearchTool(f, arguments) =
          IF arguments.query = None THEN Raised("ValueError")
          ELSE IF ~limit.ok THEN limit
          ELSE Returned([hits |-> TopicalSearch(Corpus(f), arguments.query, limit.value),
                         limit |-> limit.value, strategy |-> "topic"])
    BY DEF SearchTool
  <1> HIDE DEF limit
  <1>4. CASE arguments.query = None
    BY <1>3, <1>4
  <1>5. CASE arguments.query # None /\ limit = Raised("ValueError")
    <2>1. ~limit.ok
      BY <1>5 DEF Raised
    <2>. QED
      BY <1>3, <1>5, <2>1
  <1>6. ASSUME arguments.query # None, NEW n \in 1..50, limit = Returned(n)
        PROVE  /\ arguments.query \in Queries(f)
               /\ SearchTool(f, arguments) = Found(f, arguments.query, time, n, "topic")
    <2>1. limit.ok /\ limit.value = n
      BY <1>6 DEF Returned
    <2>2. Recall(Corpus(f), arguments.query, n, "topic", time) = TopicalSearch(Corpus(f), arguments.query, n)
      BY DEF Recall
    <2>3. SearchTool(f, arguments) =
            Returned([hits |-> TopicalSearch(Corpus(f), arguments.query, n), limit |-> n, strategy |-> "topic"])
      BY <1>3, <1>6, <2>1
    <2>. QED
      BY <1>6, <2>2, <2>3 DEF Found, Given
  <1>. QED
    BY <1>2, <1>4, <1>5, <1>6

\* The time that relative days refer to: that of the arguments, or the server's.
Reference(time, arguments) ==
  IF arguments.reference = None THEN [at |-> time, aware |-> TRUE] ELSE arguments.reference

\* What a recall with arguments raises other than bad values.
Escapes(f, time, arguments, strategy) == RecallError(f, arguments.query, strategy, Reference(time, arguments))

LEMMA StrategyIsPolicy ==
  ASSUME NEW corpus, NEW query, NEW limit, NEW mode \in Modes
  PROVE  /\ Strategy(corpus, query, limit, mode) \in DOMAIN Policies
         /\ Strategy(corpus, query, limit, mode) = "date" => mode = "date" \/ query.date # None
  <1>1. DOMAIN Policies = {"known_item", "topic", "temporal", "date"}
    BY DEF Policies
  <1>2. CASE mode # "auto"
    BY <1>1, <1>2 DEF Modes, Strategy
  <1>3. CASE mode = "auto" /\ query.date # None
    BY <1>1, <1>3 DEF Strategy
  <1>4. CASE mode = "auto" /\ query.date = None /\ IsTemporal(query)
    BY <1>1, <1>4 DEF Strategy
  <1>5. CASE mode = "auto" /\ query.date = None /\ ~IsTemporal(query)
    <2>1. Strategy(corpus, query, limit, mode) =
            IF KnownItemLookup(corpus, query, limit) # <<>> THEN "known_item" ELSE "topic"
      BY <1>5 DEF Strategy
    <2>. QED
      BY <1>1, <2>1
  <1>. QED
    BY <1>2, <1>3, <1>4, <1>5

LEMMA RecallReturns ==
  ASSUME NEW f \in Facades, NEW arguments, Given(f, arguments), NEW time
  PROVE  \/ RecallTool(f, time, arguments) = Raised("ValueError")
         \/ /\ arguments.query \in Queries(f) /\ arguments.reference # Unreadable
            /\ \E n \in 1..50, strategy \in DOMAIN Policies :
                 /\ strategy = "date" => arguments.query.date # None
                 /\ IF Escapes(f, time, arguments, strategy) # None
                    THEN RecallTool(f, time, arguments) = Raised(Escapes(f, time, arguments, strategy))
                    ELSE RecallTool(f, time, arguments) =
                           Found(f, arguments.query, Reference(time, arguments).at, n, strategy)
  <1> DEFINE limit == CoerceLimit(arguments.limit)
             mode == NormalMode(arguments.mode)
             query == arguments.query
             reference == Reference(time, arguments)
             strategy == Strategy(Corpus(f), query, limit.value, mode)
             error == RecallError(f, query, strategy, reference)
             bad == \/ arguments.reference = Unreadable \/ query = None \/ ~limit.ok \/ mode \notin Modes
                    \/ mode = "date" /\ query.date = None
  <1>1. arguments.limit \in Int \cup {None, Unreadable}
    BY DEF Given, ArgumentShape
  <1>2. limit = Raised("ValueError") \/ \E n \in 1..50 : limit = Returned(n)
    BY <1>1, LimitsAreCoerced
  <1>3. RecallTool(f, time, arguments) =
          IF bad THEN Raised("ValueError")
          ELSE IF error # None THEN Raised(error)
          ELSE Returned([hits |-> Recall(Corpus(f), query, limit.value, strategy, reference.at),
                         limit |-> limit.value, strategy |-> strategy])
    BY DEF RecallTool, Reference
  <1>4. CASE bad
    BY <1>3, <1>4
  <1>5. CASE ~bad
    <2>1. limit.ok /\ arguments.reference # Unreadable /\ query # None /\ mode \in Modes
      BY <1>5
    <2>2. PICK n \in 1..50 : limit = Returned(n)
      BY <1>2, <2>1 DEF Raised
    <2>3. limit.value = n
      BY <2>2 DEF Returned
    <2>4. /\ strategy \in DOMAIN Policies
          /\ strategy = "date" => query.date # None
      BY <1>5, <2>1, StrategyIsPolicy
    <2>5. query \in Queries(f)
      BY <2>1 DEF Given
    <2>6. error = Escapes(f, time, arguments, strategy)
      BY DEF Escapes
    <2>7. RecallTool(f, time, arguments) = IF error # None THEN Raised(error)
                                           ELSE Found(f, query, reference.at, n, strategy)
      BY <1>3, <1>5, <2>3 DEF Found
    <2> HIDE DEF limit, mode, strategy, error, bad, reference
    <2>8. reference = Reference(time, arguments)
      BY DEF reference
    <2>. QED
      BY <2>1, <2>4, <2>5, <2>6, <2>7, <2>8
  <1>. QED
    BY <1>4, <1>5

\* Arguments from which no error of a recall escapes.
HarmlessArguments(arguments) ==
  /\ arguments.reference \notin {None, Unreadable} =>
       /\ arguments.reference.aware
       /\ arguments.reference.at \in 7 * Day..EndOfTime - 1
  /\ arguments.query # None => arguments.query.date \in {None} \cup 0..EndOfTime - Day

LEMMA NothingEscapes ==
  ASSUME NEW f \in Facades, NEW arguments, Given(f, arguments), HarmlessArguments(arguments),
         arguments.query # None, arguments.reference # Unreadable,
         NEW time \in 7 * Day..EndOfTime - 1, NEW strategy \in DOMAIN Policies,
         strategy = "date" => arguments.query.date # None
  PROVE  Escapes(f, time, arguments, strategy) = None
  <1> DEFINE reference == Reference(time, arguments)
             query == arguments.query
             window == CASE strategy = "date" -> DateWindow(query.date)
                         [] strategy = "temporal" -> TemporalWindow(query.when, reference.at)
                         [] OTHER -> Always
  <1>1. reference.aware /\ reference.at \in 7 * Day..EndOfTime - 1
    BY DEF Reference, HarmlessArguments
  <1>2. Escapes(f, time, arguments, strategy) =
          CASE ~Representable(window) -> "OverflowError"
            [] /\ Representable(window) /\ strategy = "temporal" /\ window # Always
               /\ ~reference.aware /\ \E i \in DOMAIN Corpus(f) : Corpus(f)[i].recorded_at # None
                 -> "TypeError"
            [] OTHER -> None
    BY DEF Escapes, RecallError
  <1> HIDE DEF reference
  <1>3. Representable(window)
    <2>1. CASE strategy = "date"
      <3>1. window = DateWindow(query.date)
        BY <2>1
      <3>2. query.date \in 0..EndOfTime - Day
        BY <2>1 DEF HarmlessArguments
      <3>3. Day \in Nat /\ EndOfTime \in Nat
        BY RankingAssumption, ServerAssumption
      <3>4. query.date \in 0..EndOfTime /\ query.date + Day \in 0..EndOfTime
        BY <3>2, <3>3
      <3>. QED
        BY <3>1, <3>4 DEF DateWindow, Representable
    <2>2. CASE strategy = "temporal"
      <3>1. window = TemporalWindow(query.when, reference.at)
        BY <2>2
      <3>. QED
        BY <1>1, <3>1, RelativeDaysAreRepresentable
    <2>3. CASE strategy # "date" /\ strategy # "temporal"
      <3>1. window = Always
        BY <2>3
      <3>. QED
        BY <3>1 DEF Always, Representable
    <2>. QED
      BY <2>1, <2>2, <2>3
  <1> HIDE DEF window
  <1>. QED
    BY <1>1, <1>2, <1>3

LEMMA PageReturns ==
  ASSUME NEW f \in Facades, NEW arguments, Given(f, arguments)
  PROVE  /\ \/ GetPageTool(f, arguments) = Raised("ValueError")
            \/ GetPageTool(f, arguments) = Raised("KeyError")
            \/ \E i \in DOMAIN f.pages :
                 f.pages[i].path = arguments.path /\ GetPageTool(f, arguments) = Returned(f.pages[i])
         /\ (\E i \in DOMAIN f.pages : f.pages[i].path = arguments.path) =>
              \E i \in DOMAIN f.pages :
                f.pages[i].path = arguments.path /\ GetPageTool(f, arguments) = Returned(f.pages[i])
  <1> DEFINE page == PageByPath(f, arguments.path)
  <1>1. GetPageTool(f, arguments) =
          CASE arguments.path = None -> Raised("ValueError")
            [] arguments.path # None /\ page = None -> Raised("KeyError")
            [] OTHER -> Returned(page)
    BY DEF GetPageTool
  <1>2. CASE \E i \in DOMAIN f.pages : f.pages[i].path = arguments.path
    <2>1. page # None /\ page.path = arguments.path /\ \E i \in DOMAIN f.pages : page = f.pages[i]
      BY <1>2, PageIsFound
    <2>2. PICK i \in DOMAIN f.pages : page = f.pages[i]
      BY <2>1
    <2>3. f.pages[i] \in PageShape
      BY FacadeTables
    <2>4. arguments.path \in Text
      BY <2>1, <2>2, <2>3 DEF PageShape
    <2>5. arguments.path # None
      BY <2>4, ServerAssumption
    <2> HIDE DEF page
    <2>6. GetPageTool(f, arguments) = Returned(page)
      BY <1>1, <2>1, <2>5
    <2>. QED
      BY <2>1, <2>2, <2>6
  <1>3. CASE ~\E i \in DOMAIN f.pages : f.pages[i].path = arguments.path
    <2>1. page = None
      BY <1>3, PageIsFound
    <2> HIDE DEF page
    <2>2. GetPageTool(f, arguments) \in {Raised("ValueError"), Raised("KeyError")}
      BY <1>1, <2>1
    <2>. QED
      BY <1>3, <2>2
  <1>. QED
    BY <1>2, <1>3

\* Links as a reply gives them: those that resolve name pages.
LinksOf(f, path, result) ==
  \E links : /\ result = [path |-> path, links |-> links]
             /\ \A link \in ToSet(links) : link.resolved # None =>
                  \E i \in DOMAIN f.pages : link.resolved = f.pages[i].path

LEMMA LinksReturn ==
  ASSUME NEW f \in Facades, NEW arguments, Given(f, arguments)
  PROVE  /\ \/ ResolveLinksTool(f, arguments) = Raised("ValueError")
            \/ ResolveLinksTool(f, arguments) = Raised("KeyError")
            \/ \E result : LinksOf(f, arguments.path, result) /\ ResolveLinksTool(f, arguments) = Returned(result)
         /\ (\E i \in DOMAIN f.pages : f.pages[i].path = arguments.path) =>
              \E result : LinksOf(f, arguments.path, result) /\ ResolveLinksTool(f, arguments) = Returned(result)
  <1> DEFINE page == GetPageTool(f, arguments)
             targets == Distinct(page.value.related \o page.value.wikilinks)
             links == [i \in DOMAIN targets |-> ResolvedLink(f, targets[i])]
             result == [path |-> arguments.path, links |-> links]
  <1>1. ResolveLinksTool(f, arguments) = IF ~page.ok THEN page ELSE Returned(result)
    BY DEF ResolveLinksTool
  <1>2. ASSUME NEW link \in ToSet(links), link.resolved # None
        PROVE  \E i \in DOMAIN f.pages : link.resolved = f.pages[i].path
    <2> HIDE DEF targets
    <2>1. PICK i \in DOMAIN targets : link = ResolvedLink(f, targets[i])
      BY <1>2 DEF ToSet
    <2>. QED
      BY <1>2, <2>1, LinksResolve
  <1> HIDE DEF links
  <1>3. LinksOf(f, arguments.path, result)
    BY <1>2 DEF LinksOf
  <1>4. \/ page = Raised("ValueError") \/ page = Raised("KeyError")
        \/ \E i \in DOMAIN f.pages : f.pages[i].path = arguments.path /\ page = Returned(f.pages[i])
    BY PageReturns
  <1>5. (\E i \in DOMAIN f.pages : f.pages[i].path = arguments.path) =>
          \E i \in DOMAIN f.pages : f.pages[i].path = arguments.path /\ page = Returned(f.pages[i])
    BY PageReturns
  <1> HIDE DEF page, result
  <1>6. \A e : page = Raised(e) => ResolveLinksTool(f, arguments) = Raised(e)
    BY <1>1 DEF Raised
  <1>7. \A v : page = Returned(v) => ResolveLinksTool(f, arguments) = Returned(result)
    BY <1>1 DEF Returned
  <1>. QED
    BY <1>3, <1>4, <1>5, <1>6, <1>7

\* What reading a resource returns: a slug it gives is of a page, a page it names too.
ResourceOf(f, result) ==
  /\ "isError" \notin DOMAIN result
  /\ "slug" \in DOMAIN result => \E i \in DOMAIN f.pages : result.path = f.pages[i].path

LEMMA ResourceReturns ==
  ASSUME NEW f \in Facades, NEW uri
  PROVE  \/ UriName(uri) = Unreadable /\ ReadResource(f, uri) = Raised("ValueError")
         \/ UriName(uri) # Unreadable /\ ReadResource(f, uri) = Raised("KeyError")
         \/ \E result : ResourceOf(f, result) /\ ReadResource(f, uri) = Returned(result)
  <1> DEFINE key == UriName(uri)
  <1>1. ReadResource(f, uri) =
          CASE key = Unreadable -> Raised("ValueError")
            [] key # Unreadable /\ uri.scheme = "graph" -> Returned(GraphResource(f))
            [] key # Unreadable /\ uri.scheme = "topic" -> TopicResource(f, key)
            [] key # Unreadable /\ uri.scheme = "session" -> SessionResource(f, key)
            [] OTHER -> Raised("KeyError")
    BY DEF ReadResource
  <1> SUFFICES \/ key = Unreadable /\ ReadResource(f, uri) = Raised("ValueError")
               \/ key # Unreadable /\ ReadResource(f, uri) = Raised("KeyError")
               \/ \E result : ResourceOf(f, result) /\ ReadResource(f, uri) = Returned(result)
    OBVIOUS
  <1> HIDE DEF key
  <1>2. CASE key = Unreadable
    <2>1. ReadResource(f, uri) = Raised("ValueError")
      BY <1>1, <1>2
    <2>. QED
      BY <1>2, <2>1
  <1>3. CASE key # Unreadable /\ uri.scheme = "graph"
    <2>1. ResourceOf(f, GraphResource(f))
      BY DEF ResourceOf, GraphResource
    <2>. QED
      BY <1>1, <1>3, <2>1
  <1>4. CASE key # Unreadable /\ uri.scheme = "topic"
    <2> DEFINE page == PageBySlug(f, key[1])
               result == [slug |-> key[1], path |-> page.path, title |-> page.title]
    <2>1. ReadResource(f, uri) = TopicResource(f, key)
      BY <1>1, <1>4
    <2>2. TopicResource(f, key) = IF Len(key) # 1 \/ page = None THEN Raised("KeyError") ELSE Returned(result)
      BY DEF TopicResource
    <2>3. page # None => \E i \in DOMAIN f.pages : page = f.pages[i]
      BY PageOfSlug
    <2>4. page # None => ResourceOf(f, result)
      BY <2>3 DEF ResourceOf
    <2>. QED
      BY <1>4, <2>1, <2>2, <2>4
  <1>5. CASE key # Unreadable /\ uri.scheme = "session"
    <2> DEFINE session == SessionByKey(f, key)
               result == [id |-> session.id, path |-> session.path, title |-> session.title]
    <2>1. ReadResource(f, uri) = SessionResource(f, key)
      BY <1>1, <1>5
    <2>2. SessionResource(f, key) = IF session = None THEN Raised("KeyError") ELSE Returned(result)
      BY DEF SessionResource
    <2>3. ResourceOf(f, result)
      BY DEF ResourceOf
    <2>. QED
      BY <1>5, <2>1, <2>2, <2>3
  <1>6. CASE key # Unreadable /\ uri.scheme \notin {"graph", "topic", "session"}
    BY <1>1, <1>6
  <1>. QED
    BY <1>2, <1>3, <1>4, <1>5, <1>6

\* URIs of documents, and those that are listed.
Named(f, uri) ==
  \/ uri = [scheme |-> "graph", host |-> TRUE, text |-> <<"current">>]
  \/ \E i \in DOMAIN f.pages : uri = [scheme |-> "topic", host |-> TRUE, text |-> <<PageSlug(f.pages[i])>>]
  \/ \E i \in DOMAIN f.sessions : uri = [scheme |-> "session", host |-> TRUE, text |-> f.sessions[i].id]

LEMMA NamedAreUris ==
  ASSUME NEW f \in Facades, NEW uri, Named(f, uri)
  PROVE  uri \in UriShape /\ uri # None /\ uri # Unreadable
  <1>1. \A a \in STRING : <<a>> \in Text
    <2>1. \A S : \A a \in S : <<a>> \in Seq(S)
      OBVIOUS
    <2>. QED
      BY <2>1 DEF Text
  <1>2. {"current", "graph", "topic", "session"} \subseteq STRING
    BY ServerAssumption
  <1>3. \A i \in DOMAIN f.pages : PageSlug(f.pages[i]) \in STRING
    BY FacadeTables
  <1>4. \A i \in DOMAIN f.sessions : f.sessions[i].id \in Text
    <2>1. \A i \in DOMAIN f.sessions : f.sessions[i] \in SessionShape
      BY FacadeTables
    <2>. QED
      BY <2>1 DEF SessionShape
  <1>5. \A scheme \in STRING, text \in Text : [scheme |-> scheme, host |-> TRUE, text |-> text] \in UriShape
    BY DEF UriShape
  <1>6. uri \in UriShape
    BY <1>1, <1>2, <1>3, <1>4, <1>5 DEF Named
  <1>. QED
    BY <1>6, ServerAssumption

LEMMA NamedAreRead ==
  ASSUME NEW f \in Facades, NEW uri, Named(f, uri), UriName(uri) = uri.text
  PROVE  \E result :
           /\ ReadResource(f, uri) = Returned(result) /\ "isError" \notin DOMAIN result
           /\ uri.scheme = "topic" => <<result.slug>> = uri.text
           /\ uri.scheme = "session" => result.id = uri.text
  <1>1. UriName(uri) # Unreadable
    <2>1. uri.text \in Text
      BY NamedAreUris DEF UriShape
    <2>. QED
      BY <2>1, ServerAssumption
  <1>2. CASE uri = [scheme |-> "graph", host |-> TRUE, text |-> <<"current">>]
    <2>1. uri.scheme = "graph"
      BY <1>2
    <2>2. ReadResource(f, uri) = Returned(GraphResource(f))
      BY <1>1, <2>1 DEF ReadResource
    <2>3. "isError" \notin DOMAIN GraphResource(f)
      BY DEF GraphResource
    <2>. QED
      BY <2>1, <2>2, <2>3
  <1>3. ASSUME NEW i \in DOMAIN f.pages,
               uri = [scheme |-> "topic", host |-> TRUE, text |-> <<PageSlug(f.pages[i])>>]
        PROVE  \E result :
                 /\ ReadResource(f, uri) = Returned(result) /\ "isError" \notin DOMAIN result
                 /\ uri.scheme = "topic" => <<result.slug>> = uri.text
                 /\ uri.scheme = "session" => result.id = uri.text
    <2> DEFINE slug == PageSlug(f.pages[i])
               key == <<slug>>
               page == PageBySlug(f, slug)
               result == [slug |-> slug, path |-> page.path, title |-> page.title]
    <2>1. uri.scheme = "topic" /\ uri.host /\ uri.text = <<slug>>
      BY <1>3
    <2>2. UriName(uri) = key
      BY <2>1
    <2>3. ReadResource(f, uri) = TopicResource(f, key)
      BY <1>1, <2>1, <2>2 DEF ReadResource
    <2>4. page # None
      BY PageOfSlug
    <2>5. Len(key) = 1 /\ key[1] = slug
      OBVIOUS
    <2> HIDE DEF key, slug
    <2>6. TopicResource(f, key) = Returned(result)
      BY <2>4, <2>5 DEF TopicResource
    <2>. QED
      BY <2>1, <2>3, <2>6
  <1>4. ASSUME NEW i \in DOMAIN f.sessions,
               uri = [scheme |-> "session", host |-> TRUE, text |-> f.sessions[i].id]
        PROVE  \E result :
                 /\ ReadResource(f, uri) = Returned(result) /\ "isError" \notin DOMAIN result
                 /\ uri.scheme = "topic" => <<result.slug>> = uri.text
                 /\ uri.scheme = "session" => result.id = uri.text
    <2> DEFINE id == f.sessions[i].id
               session == SessionByKey(f, id)
               result == [id |-> session.id, path |-> session.path, title |-> session.title]
    <2>1. uri.scheme = "session" /\ uri.host /\ uri.text = id
      BY <1>4
    <2>2. UriName(uri) = id
      BY <2>1
    <2>5. ReadResource(f, uri) = SessionResource(f, id)
      BY <1>1, <2>1, <2>2 DEF ReadResource
    <2>6. session # None /\ session.id = id
      BY SessionIsFound
    <2> HIDE DEF id
    <2>7. SessionResource(f, id) = Returned(result)
      BY <2>6 DEF SessionResource
    <2>. QED
      BY <2>1, <2>5, <2>6, <2>7
  <1>. QED
    BY <1>2, <1>3, <1>4 DEF Named

-----------------------------------------------------------------------------
(* Messages.                                                               *)

LEMMA LiteralsAreSome ==
  /\ None \notin Tools
  /\ None \notin {"initialize", "tools/list", "tools/call", "resources/list", "resources/read"}
  /\ None \notin {"graph", "topic", "session"}
  BY ServerAssumption

\* What the tool of a name answers, and what else it may raise.
LEMMA ToolReturns ==
  ASSUME facade \in Facades, NEW name \in Tools, NEW arguments, Given(facade, arguments)
  PROVE  \/ \E value : Handle(name, arguments) = Returned(value)
         \/ Handle(name, arguments) = Raised("ValueError")
         \/ Handle(name, arguments) = Raised("KeyError")
         \/ /\ name = "recall" /\ arguments.query # None /\ arguments.reference # Unreadable
            /\ \E strategy \in DOMAIN Policies :
                 /\ strategy = "date" => arguments.query.date # None
                 /\ Escapes(facade, started, arguments, strategy) # None
                 /\ Handle(name, arguments) = Raised(Escapes(facade, started, arguments, strategy))
  <1>1. CASE name = "search"
    <2>1. Handle(name, arguments) = SearchTool(facade, arguments)
      BY <1>1 DEF Handle
    <2>. QED
      BY <2>1, SearchReturns DEF Found
  <1>2. CASE name = "recall"
    <2>1. Handle(name, arguments) = RecallTool(facade, started, arguments)
      BY <1>2 DEF Handle
    <2>2. None \notin Queries(facade)
      BY DEF Queries
    <2>. QED
      BY <1>2, <2>1, <2>2, RecallReturns DEF Found
  <1>3. CASE name = "get_page"
    <2>1. Handle(name, arguments) = GetPageTool(facade, arguments)
      BY <1>3 DEF Handle
    <2>. QED
      BY <2>1, PageReturns
  <1>4. CASE name = "resolve_links"
    <2>1. Handle(name, arguments) = ResolveLinksTool(facade, arguments)
      BY <1>4 DEF Handle
    <2>. QED
      BY <2>1, LinksReturn
  <1>. QED
    BY <1>1, <1>2, <1>3, <1>4 DEF Tools

LEMMA SuccessReturns ==
  /\ \A value : Success(Returned(value)) = Returned([code |-> 0, result |-> value])
  /\ \A error : Success(Raised(error)) = Raised(error)
  BY DEF Success, Returned, Raised

LEMMA CallReturns ==
  /\ \A name, arguments : name \notin Tools => CallTool(name, arguments) = Returned([isError |-> name])
  /\ \A name \in Tools : \A arguments, value :
       Handle(name, arguments) = Returned(value) => CallTool(name, arguments) = Returned(value)
  /\ \A name \in Tools : \A arguments, error : Handle(name, arguments) = Raised(error) =>
       CallTool(name, arguments) =
         IF error \in {"KeyError", "ValueError"} THEN Returned([isError |-> error]) ELSE Raised(error)
  <1>1. ASSUME NEW name, name \notin Tools, NEW arguments
        PROVE  CallTool(name, arguments) = Returned([isError |-> name])
    BY <1>1 DEF CallTool
  <1>2. ASSUME NEW name \in Tools, NEW arguments, NEW value, Handle(name, arguments) = Returned(value)
        PROVE  CallTool(name, arguments) = Returned(value)
    BY <1>2 DEF CallTool, Caught, Returned
  <1>3. ASSUME NEW name \in Tools, NEW arguments, NEW error, Handle(name, arguments) = Raised(error)
        PROVE  CallTool(name, arguments) =
                 IF error \in {"KeyError", "ValueError"} THEN Returned([isError |-> error]) ELSE Raised(error)
    <2>1. ~Handle(name, arguments).ok /\ Handle(name, arguments).value = error
      BY <1>3 DEF Raised
    <2> QED
      BY <1>3, <2>1 DEF CallTool, Caught
  <1>. QED
    BY <1>1, <1>2, <1>3

Codes == {0, -32600, -32601, -32602}

Answers(outcome) ==
  \E code \in Codes : \E result : outcome = Returned([code |-> code, result |-> result])

LEMMA AnswersReturn ==
  /\ \A value : Answers(Success(Returned(value)))
  /\ Answers(Error(-32600)) /\ Answers(Error(-32601)) /\ Answers(Error(-32602))
  <1>1. 0 \in Codes
    BY DEF Codes
  <1>2. ASSUME NEW value
        PROVE  Answers(Success(Returned(value)))
    <2>1. Success(Returned(value)) = Returned([code |-> 0, result |-> value])
      BY SuccessReturns
    <2>. QED
      BY <1>1, <2>1 DEF Answers
  <1>3. ASSUME NEW code \in Codes
        PROVE  Answers(Error(code))
    BY DEF Answers, Error
  <1>4. -32600 \in Codes /\ -32601 \in Codes /\ -32602 \in Codes
    BY DEF Codes
  <1>. QED
    BY <1>2, <1>3, <1>4

\* The messages that may end the server.
ReadsUnreadable(message) ==
  message.method = "resources/read" /\ message.uri # None /\ UriName(message.uri) = Unreadable

RecallEscapes(message) ==
  /\ message.method = "tools/call" /\ message.name = "recall" /\ message.arguments # None
  /\ message.arguments.query # None /\ message.arguments.reference # Unreadable
  /\ \E strategy \in DOMAIN Policies :
       /\ strategy = "date" => message.arguments.query.date # None
       /\ Escapes(facade, started, message.arguments, strategy) # None

\* Every message is answered, or raises what nothing catches.
LEMMA MessagesReturn ==
  ASSUME facade \in Facades, NEW message \in Messages(facade)
  PROVE  \/ Answers(HandleMessage(message))
         \/ ~HandleMessage(message).ok /\ (ReadsUnreadable(message) \/ RecallEscapes(message))
  <1>1. WellFormed(message)
    BY MessagesAreWellFormed
  <1>2. CASE message.method = None
    <2>1. HandleMessage(message) = Error(-32600)
      BY <1>2, LiteralsAreSome DEF HandleMessage
    <2>. QED
      BY <2>1, AnswersReturn
  <1>3. CASE message.method = "tools/call" /\ message.name = None
    <2>1. HandleMessage(message) = Error(-32602)
      BY <1>3, LiteralsAreSome DEF HandleMessage
    <2>. QED
      BY <2>1, AnswersReturn
  <1>4. CASE message.method = "tools/call" /\ message.name # None
    <2> DEFINE name == message.name
               arguments == message.arguments
    <2>1. HandleMessage(message) = Success(CallTool(name, arguments))
      BY <1>4, LiteralsAreSome DEF HandleMessage
    <2>2. ASSUME NEW value, CallTool(name, arguments) = Returned(value)
          PROVE  Answers(HandleMessage(message))
      BY <2>1, <2>2, AnswersReturn
    <2>3. CASE name \notin Tools
      <3>1. CallTool(name, arguments) = Returned([isError |-> name])
        BY <2>3, CallReturns
      <3>. QED
        BY <2>2, <3>1
    <2>4. CASE name \in Tools
      <3>1. arguments # None /\ Given(facade, arguments)
        BY <1>1, <1>4, <2>4, ArgumentsAreGiven DEF WellFormed
      <3>2. CASE \E value : Handle(name, arguments) = Returned(value)
        BY <2>2, <2>4, <3>2, CallReturns
      <3>3. CASE Handle(name, arguments) = Raised("ValueError") \/ Handle(name, arguments) = Raised("KeyError")
        BY <2>2, <2>4, <3>3, CallReturns
      <3>4. ASSUME name = "recall", arguments.query # None, arguments.reference # Unreadable,
                   NEW strategy \in DOMAIN Policies, strategy = "date" => arguments.query.date # None,
                   Escapes(facade, started, arguments, strategy) # None,
                   Handle(name, arguments) = Raised(Escapes(facade, started, arguments, strategy))
            PROVE  Answers(HandleMessage(message)) \/ ~HandleMessage(message).ok
        <4> DEFINE error == Escapes(facade, started, arguments, strategy)
        <4>1. CallTool(name, arguments) =
                IF error \in {"KeyError", "ValueError"} THEN Returned([isError |-> error]) ELSE Raised(error)
          BY <2>4, <3>4, CallReturns
        <4>2. CASE error \in {"KeyError", "ValueError"}
          BY <2>2, <4>1, <4>2
        <4>3. CASE error \notin {"KeyError", "ValueError"}
          <5>1. HandleMessage(message) = Raised(error)
            BY <2>1, <4>1, <4>3, SuccessReturns
          <5>. QED
            BY <5>1 DEF Raised
        <4>. QED
          BY <4>2, <4>3
      <3>. QED
        BY <1>4, <2>4, <3>1, <3>2, <3>3, <3>4, ToolReturns DEF RecallEscapes
    <2>. QED
      BY <2>3, <2>4
  <1>5. CASE message.method = "resources/read" /\ message.uri = None
    <2>1. HandleMessage(message) = Error(-32602)
      BY <1>5, LiteralsAreSome DEF HandleMessage
    <2>. QED
      BY <2>1, AnswersReturn
  <1>6. CASE message.method = "resources/read" /\ message.uri # None
    <2> DEFINE outcome == ReadResource(facade, message.uri)
    <2>1. HandleMessage(message) = Success(ReadResourceTool(message.uri))
      BY <1>6, LiteralsAreSome DEF HandleMessage
    <2>2. ReadResourceTool(message.uri) =
            IF ~outcome.ok /\ outcome.value = "KeyError" THEN Returned([isError |-> outcome.value]) ELSE outcome
      BY DEF ReadResourceTool, Caught
    <2>3. \/ UriName(message.uri) = Unreadable /\ outcome = Raised("ValueError")
          \/ outcome = Raised("KeyError")
          \/ \E result : outcome = Returned(result)
      BY ResourceReturns
    <2> HIDE DEF outcome
    <2>4. CASE UriName(message.uri) = Unreadable /\ outcome = Raised("ValueError")
      <3>1. ReadResourceTool(message.uri) = Raised("ValueError")
        BY <2>2, <2>4 DEF Raised
      <3>2. HandleMessage(message) = Raised("ValueError")
        BY <2>1, <3>1, SuccessReturns
      <3>. QED
        BY <1>6, <2>4, <3>2 DEF Raised, ReadsUnreadable
    <2>5. CASE outcome = Raised("KeyError")
      <3>1. ReadResourceTool(message.uri) = Returned([isError |-> "KeyError"])
        BY <2>2, <2>5 DEF Raised
      <3>. QED
        BY <2>1, <3>1, AnswersReturn
    <2>6. CASE \E result : outcome = Returned(result)
      <3>1. ReadResourceTool(message.uri) = outcome
        BY <2>2, <2>6 DEF Returned
      <3>. QED
        BY <2>1, <2>6, <3>1, AnswersReturn
    <2>. QED
      BY <2>3, <2>4, <2>5, <2>6
  <1>7. CASE message.method = "resources/list"
    <2>1. HandleMessage(message) = Success(Returned([resources |-> ListResources(facade)]))
      BY <1>7, LiteralsAreSome DEF HandleMessage
    <2>. QED
      BY <2>1, AnswersReturn
  <1>8. CASE message.method \in {"initialize", "tools/list"}
    <2>1. HandleMessage(message) = Success(Returned([lists |-> message.method]))
      BY <1>8, LiteralsAreSome DEF HandleMessage
    <2>. QED
      BY <2>1, AnswersReturn
  <1>9. CASE message.method \notin {None, "initialize", "tools/list", "tools/call", "resources/list", "resources/read"}
    <2>1. HandleMessage(message) = Error(-32601)
      BY <1>9, LiteralsAreSome DEF HandleMessage
    <2>. QED
      BY <2>1, AnswersReturn
  <1>. QED
    BY <1>2, <1>3, <1>4, <1>5, <1>6, <1>7, <1>8, <1>9

-----------------------------------------------------------------------------
(* Replies.                                                                *)

\* A reply is what its message is answered.
Replied(reply) ==
  /\ reply.message \in Messages(facade)
  /\ HandleMessage(reply.message) = Returned([code |-> reply.code, result |-> reply.result])

LEMMA ReturnedValues ==
  /\ \A v, w : Returned(v) = Returned(w) => v = w
  /\ \A v, e : Returned(v) # Raised(e)
  /\ \A v : Returned(v).ok
  BY DEF Returned, Raised

LEMMA SucceededValues ==
  ASSUME NEW reply, NEW value, Success(Returned(value)) = Returned([code |-> reply.code, result |-> reply.result])
  PROVE  reply.code = 0 /\ reply.result = value
  <1>1. [code |-> 0, result |-> value] = [code |-> reply.code, result |-> reply.result]
    BY SuccessReturns, ReturnedValues
  <1>. QED
    BY <1>1

LEMMA ReplyCodes ==
  ASSUME facade \in Facades, NEW reply, Replied(reply)
  PROVE  reply.code \in Codes
  <1> DEFINE given == [code |-> reply.code, result |-> reply.result]
  <1>1. HandleMessage(reply.message) = Returned(given) /\ HandleMessage(reply.message).ok
    BY ReturnedValues DEF Replied
  <1>2. Answers(HandleMessage(reply.message))
    BY <1>1, MessagesReturn DEF Replied
  <1>3. PICK code \in Codes : \E result : HandleMessage(reply.message) = Returned([code |-> code, result |-> result])
    BY <1>2 DEF Answers
  <1>4. PICK result : HandleMessage(reply.message) = Returned([code |-> code, result |-> result])
    BY <1>3
  <1>5. given = [code |-> code, result |-> result]
    BY <1>1, <1>4, ReturnedValues
  <1>. QED
    BY <1>5

\* A call that succeeds is what its tool returned.
LEMMA CallsSucceed ==
  ASSUME facade \in Facades, NEW reply, Replied(reply), NEW name \in Tools, Asks(reply, name)
  PROVE  /\ reply.message.arguments # None /\ Given(facade, reply.message.arguments)
         /\ Succeeds(reply) => Handle(name, reply.message.arguments) = Returned(reply.result)
         /\ \A value :
              Handle(name, reply.message.arguments) = Returned(value) => reply.code = 0 /\ reply.result = value
  <1> DEFINE arguments == reply.message.arguments
             given == [code |-> reply.code, result |-> reply.result]
  <1>1. /\ reply.message \in Messages(facade)
        /\ reply.message.method = "tools/call" /\ reply.message.name = name
        /\ HandleMessage(reply.message) = Returned(given)
    BY DEF Replied, Asks
  <1>2. WellFormed(reply.message)
    BY <1>1, MessagesAreWellFormed
  <1>3. arguments # None /\ Given(facade, arguments)
    BY <1>1, <1>2, ArgumentsAreGiven DEF WellFormed
  <1>4. HandleMessage(reply.message) = Success(CallTool(name, arguments))
    BY <1>1, LiteralsAreSome DEF HandleMessage
  <1>5. ASSUME NEW value, CallTool(name, arguments) = Returned(value)
        PROVE  reply.code = 0 /\ reply.result = value
    BY <1>1, <1>4, <1>5, SucceededValues
  <1>6. ASSUME NEW value, Handle(name, arguments) = Returned(value)
        PROVE  reply.code = 0 /\ reply.result = value
    BY <1>5, <1>6, CallReturns
  <1>7. ASSUME NEW error, Handle(name, arguments) = Raised(error)
        PROVE  ~Succeeds(reply)
    <2>1. CallTool(name, arguments) =
            IF error \in {"KeyError", "ValueError"} THEN Returned([isError |-> error]) ELSE Raised(error)
      BY <1>7, CallReturns
    <2>2. CASE error \in {"KeyError", "ValueError"}
      <3>1. reply.result = [isError |-> error]
        BY <1>5, <2>1, <2>2
      <3>. QED
        BY <3>1 DEF Succeeds
    <2>3. CASE error \notin {"KeyError", "ValueError"}
      <3>1. HandleMessage(reply.message) = Raised(error)
        BY <1>4, <2>1, <2>3, SuccessReturns
      <3>. QED
        BY <1>1, <3>1, ReturnedValues
    <2>. QED
      BY <2>2, <2>3
  <1>8. \/ \E value : Handle(name, arguments) = Returned(value)
        \/ \E error : Handle(name, arguments) = Raised(error)
    BY <1>3, ToolReturns
  <1>9. ASSUME Succeeds(reply)
        PROVE  Handle(name, arguments) = Returned(reply.result)
    <2>1. PICK value : Handle(name, arguments) = Returned(value)
      BY <1>7, <1>8, <1>9
    <2>. QED
      BY <1>6, <2>1
  <1>. QED
    BY <1>3, <1>6, <1>9

LEMMA ReadsSucceed ==
  ASSUME facade \in Facades, NEW reply, Replied(reply), reply.message.method = "resources/read",
         reply.message.uri # None
  PROVE  /\ Succeeds(reply) => ReadResource(facade, reply.message.uri) = Returned(reply.result)
         /\ \A value :
              ReadResource(facade, reply.message.uri) = Returned(value) => reply.code = 0 /\ reply.result = value
  <1> DEFINE given == [code |-> reply.code, result |-> reply.result]
             outcome == ReadResource(facade, reply.message.uri)
             caught == ReadResourceTool(reply.message.uri)
  <1>1. HandleMessage(reply.message) = Returned(given)
    BY DEF Replied
  <1>2. HandleMessage(reply.message) = Success(caught)
    BY LiteralsAreSome DEF HandleMessage
  <1>3. caught = IF ~outcome.ok /\ outcome.value = "KeyError" THEN Returned([isError |-> outcome.value]) ELSE outcome
    BY DEF ReadResourceTool, Caught
  <1>4. outcome = Raised("ValueError") \/ outcome = Raised("KeyError") \/ \E value : outcome = Returned(value)
    BY ResourceReturns
  <1> HIDE DEF outcome, caught
  <1>5. ASSUME NEW value, outcome = Returned(value)
        PROVE  reply.code = 0 /\ reply.result = value
    <2>1. caught = Returned(value)
      BY <1>3, <1>5 DEF Returned
    <2>. QED
      BY <1>1, <1>2, <2>1, SucceededValues
  <1>6. outcome # Raised("ValueError")
    <2>1. SUFFICES ASSUME outcome = Raised("ValueError") PROVE FALSE
      OBVIOUS
    <2>2. caught = Raised("ValueError")
      BY <1>3, <2>1 DEF Raised
    <2>3. HandleMessage(reply.message) = Raised("ValueError")
      BY <1>2, <2>2, SuccessReturns
    <2>. QED
      BY <1>1, <2>3, ReturnedValues
  <1>7. ASSUME outcome = Raised("KeyError")
        PROVE  ~Succeeds(reply)
    <2>1. caught = Returned([isError |-> "KeyError"])
      BY <1>3, <1>7 DEF Raised
    <2>2. reply.result = [isError |-> "KeyError"]
      BY <1>1, <1>2, <2>1, SucceededValues
    <2>. QED
      BY <2>2 DEF Succeeds
  <1>. QED
    BY <1>4, <1>5, <1>6, <1>7 DEF outcome

LEMMA ListsSucceed ==
  ASSUME NEW reply, Replied(reply), reply.message.method = "resources/list"
  PROVE  reply.result = [resources |-> ListResources(facade)]
  <1>1. HandleMessage(reply.message) = Success(Returned([resources |-> ListResources(facade)]))
    BY LiteralsAreSome DEF HandleMessage
  <1>. QED
    BY <1>1, SucceededValues DEF Replied

\* The hits of a search or a recall, and how they were found.
LEMMA ShownIsFound ==
  ASSUME facade \in Facades, NEW reply, Replied(reply), Shows(reply)
  PROVE  /\ reply.message.arguments # None /\ reply.message.arguments.query \in Queries(facade)
         /\ \E limit \in 1..50, strategy \in DOMAIN Policies :
              /\ Asks(reply, "search") => strategy = "topic"
              /\ reply.result =
                   [hits |-> Recall(Corpus(facade), reply.message.arguments.query, limit, strategy,
                                    Reference(started, reply.message.arguments).at),
                    limit |-> limit, strategy |-> strategy]
  <1> DEFINE arguments == reply.message.arguments
             time == Reference(started, arguments).at
             Result(limit, strategy) ==
               [hits |-> Recall(Corpus(facade), arguments.query, limit, strategy, time),
                limit |-> limit, strategy |-> strategy]
  <1>1. Succeeds(reply) /\ (Asks(reply, "search") \/ Asks(reply, "recall"))
    BY DEF Shows
  <1>2. {"search", "recall"} \subseteq Tools
    BY DEF Tools
  <1>3. \A limit, strategy : Found(facade, arguments.query, time, limit, strategy) = Returned(Result(limit, strategy))
    BY DEF Found
  <1> HIDE DEF Result, time
  <1>4. CASE Asks(reply, "search")
    <2>1. arguments # None /\ Given(facade, arguments) /\ Handle("search", arguments) = Returned(reply.result)
      BY <1>1, <1>2, <1>4, CallsSucceed
    <2>2. Handle("search", arguments) = SearchTool(facade, arguments)
      BY DEF Handle
    <2>3. SearchTool(facade, arguments) # Raised("ValueError")
      BY <2>1, <2>2, ReturnedValues
    <2>4. /\ arguments.query \in Queries(facade)
          /\ \E n \in 1..50 : SearchTool(facade, arguments) = Found(facade, arguments.query, time, n, "topic")
      BY <2>1, <2>3, SearchReturns
    <2>5. PICK n \in 1..50 : SearchTool(facade, arguments) = Found(facade, arguments.query, time, n, "topic")
      BY <2>4
    <2>6. reply.result = Result(n, "topic")
      BY <1>3, <2>1, <2>2, <2>5, ReturnedValues
    <2>7. "topic" \in DOMAIN Policies
      BY DEF Policies
    <2>. QED
      BY <2>1, <2>4, <2>6, <2>7 DEF Result, time
  <1>5. CASE Asks(reply, "recall") /\ ~Asks(reply, "search")
    <2>1. arguments # None /\ Given(facade, arguments) /\ Handle("recall", arguments) = Returned(reply.result)
      BY <1>1, <1>2, <1>5, CallsSucceed
    <2>2. Handle("recall", arguments) = RecallTool(facade, started, arguments)
      BY DEF Handle
    <2>3. \A error : RecallTool(facade, started, arguments) # Raised(error)
      BY <2>1, <2>2, ReturnedValues
    <2>4. /\ arguments.query \in Queries(facade)
          /\ \E n \in 1..50, strategy \in DOMAIN Policies :
               RecallTool(facade, started, arguments) = Found(facade, arguments.query, time, n, strategy)
      BY <2>1, <2>3, RecallReturns DEF time
    <2>5. PICK n \in 1..50, strategy \in DOMAIN Policies :
            RecallTool(facade, started, arguments) = Found(facade, arguments.query, time, n, strategy)
      BY <2>4
    <2>6. reply.result = Result(n, strategy)
      BY <1>3, <2>1, <2>2, <2>5, ReturnedValues
    <2>. QED
      BY <1>5, <2>1, <2>4, <2>6 DEF Result, time
  <1>. QED
    BY <1>1, <1>4, <1>5

\* Hits are of the corpus, and no more than asked for.
LEMMA ShowsWithinLimit ==
  ASSUME facade \in Facades, NEW reply, Replied(reply), Shows(reply)
  PROVE  /\ reply.result.limit \in 1..50
         /\ Len(reply.result.hits) <= reply.result.limit
         /\ Shown(reply) \subseteq ToSet(Corpus(facade))
  <1> DEFINE query == reply.message.arguments.query
             time == Reference(started, reply.message.arguments).at
  <1>1. PICK limit \in 1..50, strategy \in DOMAIN Policies :
          reply.result = [hits |-> Recall(Corpus(facade), query, limit, strategy, time),
                          limit |-> limit, strategy |-> strategy]
    BY ShownIsFound
  <1>2. Scored(Corpus(facade), query)
    BY ShownIsFound, QueriesAreScored
  <1> DEFINE hits == Recall(Corpus(facade), query, limit, strategy, time)
  <1>3. limit \in Nat
    OBVIOUS
  <1> HIDE DEF query, time
  <1>4. Len(hits) <= limit /\ ToSet(hits) \subseteq ToSet(Corpus(facade))
    BY <1>2, <1>3, RecallIsOfCorpus
  <1> HIDE DEF hits
  <1>5. reply.result.hits = hits /\ reply.result.limit = limit
    BY <1>1 DEF hits
  <1>. QED
    BY <1>4, <1>5 DEF Shown

LEMMA SearchesShowTheBest ==
  ASSUME facade \in Facades, NEW reply, Replied(reply), Shows(reply), Asks(reply, "search"),
         NEW shown \in Shown(reply), NEW d \in ToSet(Corpus(facade)),
         Relevance(reply.message.arguments.query, Corpus(facade), d)
           > Relevance(reply.message.arguments.query, Corpus(facade), shown)
  PROVE  IF d.kind = shown.kind
         THEN Score(reply.message.arguments.query, Corpus(facade), "topic", d)
                > Score(reply.message.arguments.query, Corpus(facade), "topic", shown)
              => d \in Shown(reply)
         ELSE reply.result.limit > 1 => \E e \in Shown(reply) : e.kind = d.kind
  <1> DEFINE query == reply.message.arguments.query
             time == Reference(started, reply.message.arguments).at
  <1>1. PICK limit \in 1..50 :
          reply.result = [hits |-> Recall(Corpus(facade), query, limit, "topic", time),
                          limit |-> limit, strategy |-> "topic"]
    BY ShownIsFound
  <1>2. Scored(Corpus(facade), query)
    BY ShownIsFound, QueriesAreScored
  <1> DEFINE hits == TopicalSearch(Corpus(facade), query, limit)
  <1>3. Recall(Corpus(facade), query, limit, "topic", time) = hits
    BY DEF Recall
  <1>4. limit \in Nat
    OBVIOUS
  <1>5. Relevance(query, Corpus(facade), d) > Relevance(query, Corpus(facade), shown)
    OBVIOUS
  <1> HIDE DEF query, time
  <1>6. reply.result.hits = hits /\ reply.result.limit = limit
    BY <1>1, <1>3
  <1>7. Shown(reply) = ToSet(hits)
    BY <1>6 DEF Shown
  <1>8. shown \in ToSet(hits)
    BY <1>7
  <1>9. /\ /\ d.kind = shown.kind
           /\ Score(query, Corpus(facade), "topic", d) > Score(query, Corpus(facade), "topic", shown)
           => d \in ToSet(hits)
        /\ limit > 1 => \E e \in ToSet(hits) : e.kind = d.kind
    BY <1>2, <1>4, <1>5, <1>8, TopicalShowsTheBest
  <1> HIDE DEF hits
  <1>. QED
    BY <1>6, <1>7, <1>9 DEF query

\* A recall that succeeds was given a time that can be read, or none.
LEMMA ShownIsTimed ==
  ASSUME facade \in Facades, started \in Nat, NEW reply, Replied(reply), Shows(reply), Asks(reply, "recall")
  PROVE  Reference(started, reply.message.arguments).at \in Nat
  <1> DEFINE arguments == reply.message.arguments
  <1>1. Succeeds(reply) /\ "recall" \in Tools
    BY DEF Shows, Tools
  <1>2. Given(facade, arguments) /\ Handle("recall", arguments) = Returned(reply.result)
    BY <1>1, CallsSucceed
  <1>3. Handle("recall", arguments) = RecallTool(facade, started, arguments)
    BY DEF Handle
  <1>4. arguments.reference # Unreadable
    <2>1. SUFFICES ASSUME arguments.reference = Unreadable PROVE FALSE
      OBVIOUS
    <2>2. RecallTool(facade, started, arguments) = Raised("ValueError")
      BY <2>1 DEF RecallTool
    <2>. QED
      BY <1>2, <1>3, <2>2, ReturnedValues
  <1>5. arguments.reference \in [at : Nat, aware : BOOLEAN] \cup {None, Unreadable}
    BY <1>2 DEF Given, ArgumentShape
  <1>. QED
    BY <1>4, <1>5 DEF Reference

LEMMA RecallsShowDays ==
  ASSUME facade \in Facades, started \in Nat, NEW reply, Replied(reply), Shows(reply), Asks(reply, "recall"),
         reply.result.strategy = "temporal", reply.message.arguments.query.when \cap {"today", "yesterday"} # {}
  PROVE  LET query == reply.message.arguments.query
             time == Reference(started, reply.message.arguments).at
             yesterday == "yesterday" \in query.when
             day == IF yesterday THEN DayStart(time) - Day ELSE DayStart(time)
             corpus == Corpus(facade)
             ofDay == {i \in DOMAIN corpus : OfDay(corpus[i], day)}
             atEnd == {i \in DOMAIN corpus : corpus[i].recorded_at = day + Day}
         IN  /\ Shown(reply) \subseteq
                  {corpus[i] : i \in ofDay \cup (IF yesterday \/ time + 1 = day + Day THEN atEnd ELSE {})}
             /\ Cardinality(ofDay \cup atEnd) <= reply.result.limit =>
                  \A i \in ofDay : corpus[i].recorded_at <= time /\ corpus[i].terms \cap query.terms # {}
                                  => corpus[i] \in Shown(reply)
  <1> DEFINE query == reply.message.arguments.query
             time == Reference(started, reply.message.arguments).at
             yesterday == "yesterday" \in query.when
             day == IF yesterday THEN DayStart(time) - Day ELSE DayStart(time)
             corpus == Corpus(facade)
             ofDay == {i \in DOMAIN corpus : OfDay(corpus[i], day)}
             atEnd == {i \in DOMAIN corpus : corpus[i].recorded_at = day + Day}
             allowed == {corpus[i] : i \in ofDay \cup (IF yesterday \/ time + 1 = day + Day THEN atEnd ELSE {})}
             all == ofDay \cup atEnd
  <1>1. time \in Nat
    BY ShownIsTimed
  <1>2. PICK limit \in 1..50, strategy \in DOMAIN Policies :
          reply.result = [hits |-> Recall(corpus, query, limit, strategy, time),
                          limit |-> limit, strategy |-> strategy]
    BY ShownIsFound
  <1>3. Scored(corpus, query)
    BY ShownIsFound, QueriesAreScored
  <1> DEFINE hits == TemporalRecall(corpus, query, limit, time)
  <1>4. query.when \cap {"today", "yesterday"} # {} /\ limit \in Nat
    OBVIOUS
  <1> HIDE DEF query, time, corpus
  <1>5. strategy = "temporal"
    BY <1>2
  <1>6. Recall(corpus, query, limit, strategy, time) = hits
    BY <1>5 DEF Recall
  <1>7. reply.result.hits = hits /\ reply.result.limit = limit
    BY <1>2, <1>6
  <1>8. /\ ToSet(hits) \subseteq allowed
        /\ Cardinality(all) <= limit =>
             \A i \in ofDay : corpus[i].recorded_at <= time /\ corpus[i].terms \cap query.terms # {}
                             => corpus[i] \in ToSet(hits)
    BY <1>1, <1>3, <1>4, DaysAreShown
  <1>9. Shown(reply) = ToSet(hits)
    BY <1>7 DEF Shown
  <1> HIDE DEF hits, ofDay, atEnd, allowed, all, yesterday, day
  <1>10. /\ Shown(reply) \subseteq allowed
         /\ Cardinality(all) <= reply.result.limit =>
              \A i \in ofDay : corpus[i].recorded_at <= time /\ corpus[i].terms \cap query.terms # {}
                              => corpus[i] \in Shown(reply)
    BY <1>7, <1>8, <1>9
  <1>. QED
    BY <1>10 DEF ofDay, atEnd, allowed, all, yesterday, day, corpus, time, query

\* What a reply names is of the facade.
LEMMA UrisAreNamed ==
  ASSUME facade \in Facades, NEW reply, Replied(reply), NEW uri \in UrisIn(reply)
  PROVE  Named(facade, uri)
  <1>1. facade.pages \in Seq(PageShape) /\ facade.sessions \in Seq(SessionShape)
    BY FacadeTables
  <1>2. CASE reply.message.method = "resources/list"
    <2>1. UrisIn(reply) = ListResources(facade)
      BY <1>2, ListsSucceed DEF UrisIn, Shows, Asks
    <2>2. /\ \A page \in ToSet(facade.pages) : \E i \in DOMAIN facade.pages : page = facade.pages[i]
          /\ \A session \in ToSet(facade.sessions) : \E i \in DOMAIN facade.sessions : session = facade.sessions[i]
      BY DEF ToSet
    <2>. QED
      BY <2>1, <2>2 DEF ListResources, Named
  <1>3. CASE reply.message.method # "resources/list"
    <2>1. Shows(reply)
      BY <1>3 DEF UrisIn
    <2>2. PICK d \in Shown(reply) :
            d.kind = "session" /\ uri = [scheme |-> "session", host |-> TRUE, text |-> d.id]
      BY <1>3, <2>1 DEF UrisIn
    <2>3. d \in ToSet(Corpus(facade))
      BY <2>1, ShowsWithinLimit
    <2>4. \E i \in DOMAIN facade.sessions : d.id = facade.sessions[i].id
      BY <2>2, <2>3, CorpusOfFacade
    <2>. QED
      BY <2>2, <2>4 DEF Named
  <1>. QED
    BY <1>2, <1>3

LEMMA PathsAreOfPages ==
  ASSUME facade \in Facades, NEW reply, Replied(reply), NEW path \in PathsIn(reply)
  PROVE  \E i \in DOMAIN facade.pages : facade.pages[i].path = path
  <1> DEFINE linked == Succeeds(reply) /\ Asks(reply, "resolve_links")
             topic == Succeeds(reply) /\ reply.message.method = "resources/read" /\ "slug" \in DOMAIN reply.result
  <1>1. /\ Shows(reply) => ~linked /\ ~topic
        /\ linked => ~topic
    BY DEF Shows, Asks
  <1>2. PathsIn(reply) =
          CASE Shows(reply) -> {d.path : d \in {d \in Shown(reply) : d.kind = "page"}}
            [] linked -> {link.resolved : link \in ToSet(reply.result.links)} \ {None}
            [] topic -> {reply.result.path}
            [] OTHER -> {}
    BY DEF PathsIn
  <1>3. CASE Shows(reply)
    <2>1. PathsIn(reply) = {d.path : d \in {d \in Shown(reply) : d.kind = "page"}}
      BY <1>1, <1>2, <1>3
    <2>2. PICK d \in Shown(reply) : d.kind = "page" /\ path = d.path
      BY <2>1
    <2>3. d \in ToSet(Corpus(facade))
      BY <1>3, ShowsWithinLimit
    <2>. QED
      BY <2>2, <2>3, CorpusOfFacade
  <1>4. CASE linked
    <2>1. PathsIn(reply) = {link.resolved : link \in ToSet(reply.result.links)} \ {None}
      BY <1>1, <1>2, <1>4
    <2> DEFINE arguments == reply.message.arguments
    <2>2. "resolve_links" \in Tools
      BY DEF Tools
    <2>3. Given(facade, arguments) /\ Handle("resolve_links", arguments) = Returned(reply.result)
      BY <1>4, <2>2, CallsSucceed
    <2>4. Handle("resolve_links", arguments) = ResolveLinksTool(facade, arguments)
      BY DEF Handle
    <2>5. PICK result : LinksOf(facade, arguments.path, result) /\ ResolveLinksTool(facade, arguments) = Returned(result)
      BY <2>3, <2>4, LinksReturn, ReturnedValues
    <2>6. reply.result = result
      BY <2>3, <2>4, <2>5, ReturnedValues
    <2>7. PICK links :
            /\ result = [path |-> arguments.path, links |-> links]
            /\ \A link \in ToSet(links) : link.resolved # None =>
                 \E i \in DOMAIN facade.pages : link.resolved = facade.pages[i].path
      BY <2>5 DEF LinksOf
    <2>8. reply.result.links = links
      BY <2>6, <2>7
    <2>. QED
      BY <2>1, <2>7, <2>8
  <1>5. CASE topic
    <2>1. path = reply.result.path
      BY <1>1, <1>2, <1>5
    <2>2. reply.message.uri # None
      <3>1. SUFFICES ASSUME reply.message.uri = None PROVE FALSE
        OBVIOUS
      <3>2. HandleMessage(reply.message) = Error(-32602)
        BY <1>5, <3>1, LiteralsAreSome DEF HandleMessage
      <3>3. [code |-> -32602, result |-> None] = [code |-> reply.code, result |-> reply.result]
        BY <3>2, ReturnedValues DEF Error, Replied
      <3>4. reply.code = -32602
        BY <3>3
      <3>. QED
        BY <1>5, <3>4 DEF Succeeds
    <2>3. ReadResource(facade, reply.message.uri) = Returned(reply.result)
      BY <1>5, <2>2, ReadsSucceed
    <2>4. PICK result : ResourceOf(facade, result) /\ ReadResource(facade, reply.message.uri) = Returned(result)
      BY <2>3, ResourceReturns, ReturnedValues
    <2>5. reply.result = result
      BY <2>3, <2>4, ReturnedValues
    <2>6. \E i \in DOMAIN facade.pages : reply.result.path = facade.pages[i].path
      BY <1>5, <2>4, <2>5 DEF ResourceOf
    <2>. QED
      BY <2>1, <2>6
  <1>6. CASE ~Shows(reply) /\ ~linked /\ ~topic
    BY <1>2, <1>6
  <1>. QED
    BY <1>3, <1>4, <1>5, <1>6

LEMMA NamesAreServed ==
  ASSUME facade \in Facades, NEW reply, Replied(reply)
  PROVE  /\ \A uri : Named(facade, uri) /\ UriName(uri) = uri.text
                     /\ reply.message.method = "resources/read" /\ reply.message.uri = uri
                     => Serves(reply, uri)
         /\ \A path : /\ \E i \in DOMAIN facade.pages : facade.pages[i].path = path
                      /\ reply.message.arguments # None /\ reply.message.arguments.path = path
                      /\ Asks(reply, "get_page") \/ Asks(reply, "resolve_links")
                      => Succeeds(reply) /\ reply.result.path = path
  <1>1. ASSUME NEW uri, Named(facade, uri), UriName(uri) = uri.text,
               reply.message.method = "resources/read", reply.message.uri = uri
        PROVE  Serves(reply, uri)
    <2>1. uri # None
      BY <1>1, NamedAreUris
    <2>2. PICK result :
            /\ ReadResource(facade, uri) = Returned(result) /\ "isError" \notin DOMAIN result
            /\ uri.scheme = "topic" => <<result.slug>> = uri.text
            /\ uri.scheme = "session" => result.id = uri.text
      BY <1>1, NamedAreRead
    <2>3. reply.code = 0 /\ reply.result = result
      BY <1>1, <2>1, <2>2, ReadsSucceed
    <2>. QED
      BY <2>2, <2>3 DEF Serves, Succeeds
  <1>2. ASSUME NEW path, \E i \in DOMAIN facade.pages : facade.pages[i].path = path,
               reply.message.arguments # None, reply.message.arguments.path = path
        PROVE  Asks(reply, "get_page") \/ Asks(reply, "resolve_links")
               => Succeeds(reply) /\ reply.result.path = path
    <2> DEFINE arguments == reply.message.arguments
    <2>1. {"get_page", "resolve_links"} \subseteq Tools
      BY DEF Tools
    <2>2. CASE Asks(reply, "get_page")
      <3>1. Given(facade, arguments)
        BY <2>1, <2>2, CallsSucceed
      <3>2. Handle("get_page", arguments) = GetPageTool(facade, arguments)
        BY DEF Handle
      <3>3. PICK i \in DOMAIN facade.pages :
              facade.pages[i].path = path /\ GetPageTool(facade, arguments) = Returned(facade.pages[i])
        BY <1>2, <3>1, PageReturns
      <3>4. reply.code = 0 /\ reply.result = facade.pages[i]
        BY <2>1, <2>2, <3>2, <3>3, CallsSucceed
      <3>5. facade.pages[i] \in PageShape
        BY FacadeTables
      <3>6. "isError" \notin DOMAIN facade.pages[i]
        BY <3>5 DEF PageShape
      <3>. QED
        BY <3>3, <3>4, <3>6 DEF Succeeds
    <2>3. CASE Asks(reply, "resolve_links")
      <3>1. Given(facade, arguments)
        BY <2>1, <2>3, CallsSucceed
      <3>2. Handle("resolve_links", arguments) = ResolveLinksTool(facade, arguments)
        BY DEF Handle
      <3>3. PICK result : LinksOf(facade, path, result) /\ ResolveLinksTool(facade, arguments) = Returned(result)
        BY <1>2, <3>1, LinksReturn
      <3>4. reply.code = 0 /\ reply.result = result
        BY <2>1, <2>3, <3>2, <3>3, CallsSucceed
      <3>5. PICK links : result = [path |-> path, links |-> links]
        BY <3>3 DEF LinksOf
      <3>. QED
        BY <3>4, <3>5 DEF Succeeds
    <2>. QED
      BY <2>2, <2>3
  <1>. QED
    BY <1>1, <1>2

\* What is harmless is handled, and the reply to it can be written.
LEMMA HarmlessIsHandled ==
  ASSUME facade \in Facades, started \in Starts, NEW frame, Harmless(frame),
         frame.message \in Messages(facade)
  PROVE  HandleMessage(frame.message).ok
  <1> DEFINE message == frame.message
             arguments == message.arguments
  <1>1. \A outcome : Answers(outcome) => outcome.ok
    BY ReturnedValues DEF Answers
  <1>2. ~ReadsUnreadable(message)
    BY DEF ReadsUnreadable, Harmless
  <1>3. ~RecallEscapes(message)
    <2>1. SUFFICES ASSUME arguments # None, arguments.query # None, arguments.reference # Unreadable,
                          NEW strategy \in DOMAIN Policies,
                          strategy = "date" => arguments.query.date # None
                   PROVE  Escapes(facade, started, arguments, strategy) = None
      BY DEF RecallEscapes
    <2>2. Given(facade, arguments)
      BY <2>1, ArgumentsAreGiven
    <2>3. HarmlessArguments(arguments)
      BY <2>1 DEF Harmless, HarmlessArguments
    <2>4. started \in 7 * Day..EndOfTime - 1
      BY ServerAssumption
    <2>. QED
      BY <2>1, <2>2, <2>3, <2>4, NothingEscapes
  <1>4. Answers(HandleMessage(message))
    BY <1>2, <1>3, MessagesReturn
  <1>. QED
    BY <1>1, <1>4

LEMMA HarmlessIsEncoded ==
  ASSUME facade \in Facades, NEW frame, Harmless(frame), NEW reply, Replied(reply),
         reply.message = frame.message, reply.id # Unreadable
  PROVE  Encodes(reply)
  <1> DEFINE message == reply.message
  <1>1. /\ {message.method, message.name} \cap Surrogates = {}
        /\ message.uri # None => ({message.uri.scheme} \cup ToSet(message.uri.text)) \cap Surrogates = {}
        /\ message.arguments # None /\ message.arguments.query # None =>
             message.arguments.query.text \notin Surrogates
    BY DEF Harmless
  <1>2. CASE reply.code = -32601
    <2>1. Repeated(reply) = {message.method}
      <3>1. reply.code # 0
        BY <1>2
      <3>. QED
        BY <1>2, <3>1 DEF Repeated, Shows, Succeeds
    <2>. QED
      BY <1>1, <2>1 DEF Encodes
  <1>3. CASE reply.code = 0 /\ message.method = "resources/read"
    <2>1. message.uri # None
      <3>1. SUFFICES ASSUME message.uri = None PROVE FALSE
        OBVIOUS
      <3>2. HandleMessage(message) = Error(-32602)
        BY <1>3, <3>1, LiteralsAreSome DEF HandleMessage
      <3>3. [code |-> -32602, result |-> None] = [code |-> reply.code, result |-> reply.result]
        BY <3>2, ReturnedValues DEF Error, Replied
      <3>4. reply.code = -32602
        BY <3>3
      <3>. QED
        BY <1>3, <3>4
    <2>2. reply.code # -32601
      BY <1>3
    <2>3. Repeated(reply) = {message.uri.scheme} \cup ToSet(message.uri.text)
      BY <1>3, <2>2 DEF Repeated, Shows, Asks
    <2>. QED
      BY <1>1, <2>1, <2>3 DEF Encodes
  <1>4. CASE reply.code = 0 /\ message.method = "tools/call" /\ message.name \notin Tools
    <2>1. reply.code # -32601
      BY <1>4
    <2>2. ~Shows(reply)
      BY <1>4 DEF Shows, Asks, Tools
    <2>3. Repeated(reply) = {message.name}
      BY <1>4, <2>1, <2>2 DEF Repeated
    <2>. QED
      BY <1>1, <2>3 DEF Encodes
  <1>5. CASE Shows(reply)
    <2>1. message.arguments # None /\ message.arguments.query # None
      BY <1>5, ShownIsFound DEF Queries
    <2>2. reply.code # -32601 /\ message.method # "resources/read" /\ message.name \in Tools
      <3>1. reply.code = 0
        BY <1>5 DEF Shows, Succeeds
      <3>. QED
        BY <1>5, <3>1 DEF Shows, Asks, Tools
    <2>3. Repeated(reply) = {message.arguments.query.text}
      BY <1>5, <2>2 DEF Repeated
    <2>. QED
      BY <1>1, <2>1, <2>3 DEF Encodes
  <1>6. CASE ~(reply.code = -32601 \/ (reply.code = 0 /\ message.method = "resources/read")
                \/ (reply.code = 0 /\ message.method = "tools/call" /\ message.name \notin Tools) \/ Shows(reply))
    BY <1>6 DEF Encodes, Repeated
  <1>. QED
    BY <1>2, <1>3, <1>4, <1>5, <1>6

-----------------------------------------------------------------------------
(* The stream.                                                             *)

Frames ==
  [kind : {"request", "unwritable", "notification"}, message : Messages(facade)] \cup
  [kind : {"malformed", "eof"}, message : {None}]

\* The replies a server may give.
ReplyOn(id, message, time) ==
  [id |-> id, message |-> message, time |-> time,
   code |-> HandleMessage(message).value.code, result |-> HandleMessage(message).value.result]

Replies ==
  {reply \in {ReplyOn(id, message, time) : id \in Nat \cup {None}, message \in Messages(facade), time \in Nat} :
     Replied(reply)}

\* Frames that were read and are no longer handled.
Done == IF pending = None THEN read ELSE read - 1

StreamInv ==
  /\ facade \in Facades /\ started \in Starts /\ now \in started..MaxTime
  /\ sent \in Seq(Frames) /\ Len(sent) <= MaxFrames /\ read \in 0..Len(sent)
  /\ status \in {"serving", "ended", "failed"}

\* A request's id is its place.
IdOf(frame, place) ==
  CASE frame.kind = "request" -> place
    [] frame.kind = "unwritable" -> Unreadable
    [] frame.kind = "notification" -> None

\* What is handled is the frame that was read last.
PendingInv ==
  pending # None =>
    /\ read \in DOMAIN sent /\ sent[read].kind \in {"request", "unwritable", "notification"}
    /\ pending.id = IdOf(sent[read], read)
    /\ pending.message = sent[read].message /\ pending.time \in Nat

RepliesInv ==
  /\ replies \in Seq(Replies) /\ Len(replies) <= Done
  /\ \A k \in DOMAIN replies : replies[k].id # None => replies[k].id \in 1..Done

HarmlessRequest(i) == sent[i].kind = "request" /\ \A j \in 1..i : Harmless(sent[j])

AnswersInv ==
  \A i \in 1..Done : HarmlessRequest(i) => \E k \in DOMAIN replies : replies[k].id = i

\* A server fails for what it has read.
FailureHasCause == status = "failed" => \E j \in 1..read : ~Harmless(sent[j])

ServerInv == StreamInv /\ PendingInv /\ RepliesInv /\ InTurn /\ AnswersInv /\ FailureHasCause

\* A reply to a message is the same as long as the server lives.
LEMMA HandlingIsFixed ==
  ASSUME facade' = facade, started' = started
  PROVE  /\ \A message : HandleMessage(message)' = HandleMessage(message)
         /\ Replies' = Replies /\ Frames' = Frames
  <1>1. ASSUME NEW name \in Tools, NEW arguments
        PROVE  Handle(name, arguments)' = Handle(name, arguments)
    <2>1. CASE name = "search"
      BY <2>1 DEF Handle
    <2>2. CASE name = "recall"
      BY <2>2 DEF Handle
    <2>3. CASE name = "get_page"
      BY <2>3 DEF Handle
    <2>4. CASE name = "resolve_links"
      BY <2>4 DEF Handle
    <2>. QED
      BY <2>1, <2>2, <2>3, <2>4 DEF Tools
  <1>2. ASSUME NEW name, NEW arguments
        PROVE  CallTool(name, arguments)' = CallTool(name, arguments)
    <2>1. CASE name \notin Tools
      BY <2>1 DEF CallTool
    <2>2. CASE name \in Tools
      BY <1>1, <2>2 DEF CallTool
    <2>. QED
      BY <2>1, <2>2
  <1>3. ASSUME NEW uri
        PROVE  ReadResourceTool(uri)' = ReadResourceTool(uri)
    BY DEF ReadResourceTool
  <1>4. ASSUME NEW message
        PROVE  HandleMessage(message)' = HandleMessage(message)
    <2>1. CASE message.method = None
      BY <2>1, LiteralsAreSome DEF HandleMessage
    <2>2. CASE message.method \in {"initialize", "tools/list"}
      BY <2>2, LiteralsAreSome DEF HandleMessage
    <2>3. CASE message.method = "tools/call"
      BY <1>2, <2>3, LiteralsAreSome DEF HandleMessage
    <2>4. CASE message.method = "resources/list"
      BY <2>4, LiteralsAreSome DEF HandleMessage
    <2>5. CASE message.method = "resources/read"
      BY <1>3, <2>5, LiteralsAreSome DEF HandleMessage
    <2>6. CASE message.method \notin {None, "initialize", "tools/list", "tools/call", "resources/list", "resources/read"}
      BY <2>6 DEF HandleMessage
    <2>. QED
      BY <2>1, <2>2, <2>3, <2>4, <2>5, <2>6
  <1>5. Frames' = Frames
    BY DEF Frames
  <1>6. Replies' = Replies
    BY <1>4 DEF Replies, Replied, ReplyOn
  <1>. QED
    BY <1>4, <1>5, <1>6

\* Whatever a message is answered is one of Replies.
LEMMA RepliesAre ==
  ASSUME facade \in Facades, NEW message \in Messages(facade), HandleMessage(message).ok,
         NEW id \in Nat \cup {None}, NEW time \in Nat
  PROVE  ReplyOn(id, message, time) \in Replies
  <1> DEFINE reply == ReplyOn(id, message, time)
  <1>1. Answers(HandleMessage(message))
    BY MessagesReturn
  <1>2. PICK code \in Codes : \E result : HandleMessage(message) = Returned([code |-> code, result |-> result])
    BY <1>1 DEF Answers
  <1>3. PICK result : HandleMessage(message) = Returned([code |-> code, result |-> result])
    BY <1>2
  <1>4. HandleMessage(message).value = [code |-> code, result |-> result]
    BY <1>3 DEF Returned
  <1>5. reply.code = code /\ reply.result = result /\ reply.message = message
    BY <1>4 DEF ReplyOn
  <1>6. Replied(reply)
    BY <1>3, <1>5 DEF Replied
  <1>. QED
    BY <1>6 DEF Replies

LEMMA RepliesAreReplied ==
  ASSUME NEW k \in DOMAIN replies, replies \in Seq(Replies)
  PROVE  Replied(replies[k]) /\ replies[k].id \in Nat \cup {None}
  <1>1. replies[k] \in Replies
    BY ElementOfSeq, LenProperties
  <1>2. \A id, message, time : ReplyOn(id, message, time).id = id
    BY DEF ReplyOn
  <1>. QED
    BY <1>1, <1>2 DEF Replies

-----------------------------------------------------------------------------
(* The inductive invariant.                                                *)

LEMMA FramesAre ==
  ASSUME sent \in Seq(Frames), NEW i \in DOMAIN sent
  PROVE  /\ sent[i].kind \in {"request", "unwritable", "notification", "malformed", "eof"}
         /\ sent[i].kind \in {"request", "unwritable", "notification"} => sent[i].message \in Messages(facade)
  <1>1. sent[i] \in Frames
    BY ElementOfSeq, LenProperties
  <1>. QED
    BY <1>1 DEF Frames

LEMMA DoneIsRead ==
  ASSUME StreamInv, PendingInv
  PROVE  /\ read \in Nat /\ Len(sent) \in Nat /\ DOMAIN sent = 1..Len(sent)
         /\ Done \in Nat /\ Done <= read
         /\ pending # None => Done = read - 1 /\ read >= 1
  <1>1. Len(sent) \in Nat /\ DOMAIN sent = 1..Len(sent)
    BY LenProperties DEF StreamInv
  <1>2. read \in Nat
    BY <1>1 DEF StreamInv
  <1>. QED
    BY <1>1, <1>2 DEF Done, PendingInv

LEMMA InitInv == Init => ServerInv
  <1>1. SUFFICES ASSUME Init PROVE ServerInv
    OBVIOUS
  <1>2. started \in 0..MaxTime /\ MaxTime \in Nat /\ MaxFrames \in Nat
    BY <1>1, ServerAssumption DEF Init
  <1>3. StreamInv
    <2>1. facade \in Facades /\ started \in Starts /\ now = started /\ sent = <<>> /\ read = 0 /\ status = "serving"
      BY <1>1 DEF Init, Facades
    <2>2. sent \in Seq(Frames) /\ Len(sent) = 0
      BY <2>1
    <2>. QED
      BY <1>2, <2>1, <2>2 DEF StreamInv
  <1>4. pending = None /\ replies = <<>> /\ read = 0 /\ status = "serving"
    BY <1>1 DEF Init
  <1>5. PendingInv
    BY <1>4 DEF PendingInv
  <1>6. replies \in Seq(Replies) /\ Len(replies) = 0 /\ DOMAIN replies = {}
    BY <1>4
  <1>7. Done = 0
    BY <1>4 DEF Done
  <1>8. RepliesInv /\ InTurn
    BY <1>6, <1>7 DEF RepliesInv, InTurn
  <1>9. AnswersInv /\ FailureHasCause
    BY <1>4, <1>7 DEF AnswersInv, FailureHasCause
  <1>. QED
    BY <1>3, <1>5, <1>8, <1>9 DEF ServerInv

LEMMA SendInv == ServerInv /\ Send => ServerInv'
  <1>1. SUFFICES ASSUME ServerInv, Send PROVE ServerInv'
    OBVIOUS
  <1>2. /\ facade' = facade /\ started' = started /\ now' = now /\ read' = read
        /\ pending' = pending /\ replies' = replies /\ status' = status
    BY <1>1 DEF Send
  <1>3. StreamInv /\ PendingInv /\ RepliesInv /\ InTurn /\ AnswersInv /\ FailureHasCause
    BY <1>1 DEF ServerInv
  <1>4. PICK f \in Frames : sent' = Append(sent, f)
    <2>1. /\ \A kind \in {"request", "unwritable", "notification"}, message \in Messages(facade) : Frame(kind, message) \in Frames
          /\ \A kind \in {"malformed", "eof"} : Frame(kind, None) \in Frames
      BY DEF Frame, Frames
    <2>2. \/ \E kind \in {"request", "unwritable", "notification"}, message \in Messages(facade) :
               sent' = Append(sent, Frame(kind, message))
          \/ \E kind \in {"malformed", "eof"} : sent' = Append(sent, Frame(kind, None))
      BY <1>1 DEF Send
    <2>. QED
      BY <2>1, <2>2
  <1>5. /\ read \in Nat /\ Len(sent) \in Nat /\ DOMAIN sent = 1..Len(sent)
        /\ Done \in Nat /\ Done <= read /\ read <= Len(sent)
    BY <1>3, DoneIsRead DEF StreamInv
  <1>6. /\ sent' \in Seq(Frames) /\ Len(sent') = Len(sent) + 1
        /\ \A i \in 1..Len(sent) : sent'[i] = sent[i]
    BY <1>3, <1>4, AppendProperties DEF StreamInv
  <1>7. Replies' = Replies /\ Frames' = Frames
    BY <1>2, HandlingIsFixed
  <1>8. StreamInv'
    <2>1. Len(sent') <= MaxFrames
      BY <1>1, <1>5, <1>6, ServerAssumption DEF Send
    <2>2. read' \in 0..Len(sent')
      BY <1>2, <1>5, <1>6
    <2>3. Facades' = Facades
      BY DEF Facades
    <2>. QED
      BY <1>2, <1>3, <1>6, <1>7, <2>1, <2>2, <2>3 DEF StreamInv
  <1>9. \A i \in 1..read : i \in DOMAIN sent' /\ sent'[i] = sent[i]
    <2>1. DOMAIN sent' = 1..Len(sent) + 1
      BY <1>6, LenProperties
    <2>. QED
      BY <1>5, <1>6, <2>1
  <1>10. PendingInv'
    BY <1>2, <1>3, <1>5, <1>9, DoneIsRead DEF PendingInv
  <1>11. Done' = Done
    BY <1>2 DEF Done
  <1>12. RepliesInv' /\ InTurn'
    BY <1>2, <1>3, <1>7, <1>11 DEF RepliesInv, InTurn
  <1>13. \A i \in 1..Done : HarmlessRequest(i)' = HarmlessRequest(i)
    BY <1>5, <1>9 DEF HarmlessRequest
  <1>14. AnswersInv'
    BY <1>2, <1>3, <1>11, <1>13 DEF AnswersInv
  <1>15. FailureHasCause'
    BY <1>2, <1>3, <1>9 DEF FailureHasCause
  <1>. QED
    BY <1>8, <1>10, <1>12, <1>14, <1>15 DEF ServerInv

LEMMA TickInv == ServerInv /\ Tick => ServerInv'
  <1>1. SUFFICES ASSUME ServerInv, Tick PROVE ServerInv'
    OBVIOUS
  <1>2. /\ facade' = facade /\ started' = started /\ read' = read /\ sent' = sent
        /\ pending' = pending /\ replies' = replies /\ status' = status
        /\ now < MaxTime /\ now' = now + 1
    BY <1>1 DEF Tick
  <1>3. StreamInv /\ PendingInv /\ RepliesInv /\ InTurn /\ AnswersInv /\ FailureHasCause
    BY <1>1 DEF ServerInv
  <1>4. Replies' = Replies /\ Frames' = Frames
    BY <1>2, HandlingIsFixed
  <1>5. StreamInv'
    <2>1. started \in Nat /\ MaxTime \in Nat /\ now \in started..MaxTime
      BY <1>3, ServerAssumption DEF StreamInv
    <2>2. now' \in started..MaxTime
      BY <1>2, <2>1
    <2>3. Facades' = Facades
      BY DEF Facades
    <2>. QED
      BY <1>2, <1>3, <1>4, <2>2, <2>3 DEF StreamInv
  <1>6. Done' = Done
    BY <1>2 DEF Done
  <1>7. PendingInv' /\ RepliesInv' /\ InTurn'
    BY <1>2, <1>3, <1>4, <1>6 DEF PendingInv, RepliesInv, InTurn
  <1>8. AnswersInv' /\ FailureHasCause'
    BY <1>2, <1>3, <1>6 DEF AnswersInv, HarmlessRequest, FailureHasCause
  <1>. QED
    BY <1>5, <1>7, <1>8 DEF ServerInv

LEMMA ReceiveInv == ServerInv /\ Receive => ServerInv'
  <1>1. SUFFICES ASSUME ServerInv, Receive PROVE ServerInv'
    OBVIOUS
  <1>2. /\ facade' = facade /\ started' = started /\ now' = now /\ sent' = sent
        /\ replies' = replies /\ read' = read + 1 /\ pending = None /\ status = "serving" /\ read < Len(sent)
    BY <1>1 DEF Receive
  <1>3. StreamInv /\ PendingInv /\ RepliesInv /\ InTurn /\ AnswersInv /\ FailureHasCause
    BY <1>1 DEF ServerInv
  <1>4. Replies' = Replies /\ Frames' = Frames
    BY <1>2, HandlingIsFixed
  <1>5. /\ read \in Nat /\ Len(sent) \in Nat /\ DOMAIN sent = 1..Len(sent) /\ Done = read
    BY <1>2, <1>3, DoneIsRead DEF Done
  <1> DEFINE frame == sent[read + 1]
             handled == [id |-> IdOf(frame, read + 1),
                         message |-> frame.message, time |-> now]
  <1>6. read + 1 \in DOMAIN sent
    BY <1>2, <1>5
  <1>7. /\ frame.kind \in {"request", "unwritable", "notification", "malformed", "eof"}
        /\ frame.kind \in {"request", "unwritable", "notification"} => frame.message \in Messages(facade)
    BY <1>3, <1>6, FramesAre DEF StreamInv
  <1>8. \/ frame.kind = "eof" /\ status' = "ended" /\ pending' = None
        \/ frame.kind = "malformed" /\ status' = "failed" /\ pending' = None
        \/ frame.kind \in {"request", "unwritable", "notification"} /\ pending' = handled /\ status' = "serving"
    BY <1>1, <1>2 DEF Receive, IdOf
  <1>9. now \in Nat
    BY <1>3, ServerAssumption DEF StreamInv
  <1>10. frame.kind \in {"request", "unwritable", "notification"} => handled # None
    <2>1. SUFFICES ASSUME frame.kind \in {"request", "unwritable", "notification"} PROVE handled # None
      OBVIOUS
    <2>4. IdOf(frame, read + 1) \in Nat \cup {None, Unreadable}
      BY <1>5, <2>1 DEF IdOf
    <2>2. handled \in [id : Nat \cup {None, Unreadable}, message : Messages(facade), time : Nat]
      BY <1>7, <1>9, <2>1, <2>4
    <2>3. None \notin [id : Nat \cup {None, Unreadable}, message : Messages(facade), time : Nat]
      BY <1>3, <1>7, <2>1, MessagesAreWellFormed DEF StreamInv
    <2>. QED
      BY <2>2, <2>3
  <1>11. StreamInv'
    <2>1. Facades' = Facades
      BY DEF Facades
    <2>2. read' \in 0..Len(sent')
      BY <1>2, <1>5
    <2>3. status' \in {"serving", "ended", "failed"}
      BY <1>8
    <2>. QED
      BY <1>2, <1>3, <1>4, <2>1, <2>2, <2>3 DEF StreamInv
  <1>12. PendingInv'
    <2>1. SUFFICES ASSUME pending' # None PROVE PendingInv'
      BY DEF PendingInv
    <2>2. frame.kind \in {"request", "unwritable", "notification"} /\ pending' = handled
      BY <1>8, <2>1
    <2>3. /\ pending'.id = IdOf(frame, read + 1)
          /\ pending'.message = frame.message /\ pending'.time = now
      BY <2>2
    <2>4. read' \in DOMAIN sent' /\ sent'[read'] = frame
      BY <1>2, <1>6
    <2>. QED
      BY <1>2, <1>9, <2>2, <2>3, <2>4 DEF PendingInv
  <1>13. \/ pending' # None /\ Done' = read
         \/ pending' = None /\ Done' = read + 1 /\ frame.kind \in {"malformed", "eof"}
    <2>1. read' - 1 = read
      BY <1>2, <1>5
    <2>2. pending' # None => Done' = read
      BY <2>1 DEF Done
    <2>3. pending' = None => Done' = read + 1
      BY <1>2 DEF Done
    <2> HIDE DEF handled, frame
    <2>4. pending' # None \/ (pending' = None /\ frame.kind \in {"malformed", "eof"})
      BY <1>8, <1>10
    <2>. QED
      BY <2>2, <2>3, <2>4
  <1>14. RepliesInv'
    <2>1. Len(replies) \in Nat
      BY <1>3, LenProperties DEF RepliesInv
    <2>2. Len(replies) <= Done' /\ 1..read \subseteq 1..Done'
      BY <1>3, <1>5, <1>13, <2>1 DEF RepliesInv
    <2>. QED
      BY <1>2, <1>3, <1>4, <1>5, <2>2 DEF RepliesInv
  <1>15. InTurn'
    BY <1>2, <1>3 DEF InTurn
  <1>16. AnswersInv'
    <2>1. \A i \in 1..Done' : HarmlessRequest(i)' => i \in 1..read /\ HarmlessRequest(i)
      BY <1>2, <1>5, <1>13 DEF HarmlessRequest
    <2>. QED
      BY <1>2, <1>3, <1>5, <2>1 DEF AnswersInv
  <1>17. FailureHasCause'
    <2>1. SUFFICES ASSUME status' = "failed" PROVE \E j \in 1..read' : ~Harmless(sent'[j])
      BY DEF FailureHasCause
    <2>2. frame.kind = "malformed"
      BY <1>8, <2>1
    <2>3. ~Harmless(frame)
      BY <2>2 DEF Harmless
    <2>4. read + 1 \in 1..read' /\ sent'[read + 1] = frame
      BY <1>2, <1>5
    <2>. QED
      BY <2>3, <2>4
  <1>. QED
    BY <1>11, <1>12, <1>14, <1>15, <1>16, <1>17 DEF ServerInv

\* What is handled leaves the stream as it is; done are now all that were read.
LEMMA HandledLeaves ==
  ASSUME ServerInv, pending # None, Ignore \/ Respond
  PROVE  /\ facade' = facade /\ started' = started /\ now' = now /\ sent' = sent /\ read' = read
         /\ pending' = None /\ Replies' = Replies /\ Frames' = Frames
         /\ read \in Nat /\ read >= 1 /\ DOMAIN sent = 1..Len(sent) /\ Len(sent) \in Nat
         /\ read \in DOMAIN sent
         /\ Done = read - 1 /\ Done' = read
         /\ status' \in {"serving", "ended", "failed"} => StreamInv'
         /\ PendingInv'
         /\ facade \in Facades /\ started \in Starts
         /\ pending.message \in Messages(facade) /\ pending.message = sent[read].message
         /\ pending.id = IdOf(sent[read], read) /\ pending.time \in Nat
         /\ sent[read].kind \in {"request", "unwritable", "notification"}
         /\ \A i : HarmlessRequest(i)' = HarmlessRequest(i)
  <1>1. /\ facade' = facade /\ started' = started /\ now' = now /\ sent' = sent /\ read' = read
        /\ pending' = None
    BY DEF Ignore, Respond
  <1>2. StreamInv /\ PendingInv
    BY DEF ServerInv
  <1>3. Replies' = Replies /\ Frames' = Frames
    BY <1>1, HandlingIsFixed
  <1>4. /\ read \in Nat /\ read >= 1 /\ Len(sent) \in Nat /\ DOMAIN sent = 1..Len(sent) /\ Done = read - 1
    BY <1>2, DoneIsRead
  <1>5. Done' = read
    BY <1>1 DEF Done
  <1>6. /\ read \in DOMAIN sent /\ sent[read].kind \in {"request", "unwritable", "notification"}
        /\ pending.message = sent[read].message /\ pending.time \in Nat
        /\ pending.id = IdOf(sent[read], read)
    BY <1>2 DEF PendingInv
  <1>7. sent[read].message \in Messages(facade)
    BY <1>2, <1>6, FramesAre DEF StreamInv
  <1>8. Facades' = Facades
    BY DEF Facades
  <1>9. status' \in {"serving", "ended", "failed"} => StreamInv'
    BY <1>1, <1>2, <1>3, <1>8 DEF StreamInv
  <1>10. PendingInv'
    BY <1>1 DEF PendingInv
  <1>11. \A i : HarmlessRequest(i)' = HarmlessRequest(i)
    BY <1>1 DEF HarmlessRequest
  <1>12. facade \in Facades /\ started \in Starts
    BY <1>2 DEF StreamInv
  <1>. QED
    BY <1>1, <1>3, <1>4, <1>5, <1>6, <1>7, <1>9, <1>10, <1>11, <1>12

LEMMA IgnoreInv == ServerInv /\ Ignore => ServerInv'
  <1>1. SUFFICES ASSUME ServerInv, Ignore PROVE ServerInv'
    OBVIOUS
  <1>2. pending # None /\ Initialized /\ replies' = replies /\ status' = status
    BY <1>1 DEF Ignore
  <1>3. StreamInv /\ RepliesInv /\ InTurn /\ AnswersInv /\ FailureHasCause
    BY <1>1 DEF ServerInv
  <1>4. /\ sent' = sent /\ read' = read /\ Replies' = Replies /\ PendingInv'
        /\ read \in Nat /\ read >= 1 /\ Done = read - 1 /\ Done' = read
        /\ pending.id = IdOf(sent[read], read)
        /\ \A i : HarmlessRequest(i)' = HarmlessRequest(i)
    BY <1>1, <1>2, HandledLeaves
  <1>5. StreamInv'
    <2>1. status' \in {"serving", "ended", "failed"}
      BY <1>2, <1>3 DEF StreamInv
    <2>. QED
      BY <1>1, <1>2, <2>1, HandledLeaves
  <1>6. RepliesInv'
    <2>1. Len(replies) \in Nat
      BY <1>3, LenProperties DEF RepliesInv
    <2>2. Len(replies) <= Done' /\ 1..Done \subseteq 1..Done'
      BY <1>3, <1>4, <2>1 DEF RepliesInv
    <2>. QED
      BY <1>2, <1>3, <1>4, <2>2 DEF RepliesInv
  <1>7. InTurn'
    BY <1>2, <1>3 DEF InTurn
  <1>8. AnswersInv'
    <2>1. sent[read].kind # "request"
      BY <1>2, <1>4, NoneIsNoNumber DEF Initialized, IdOf
    <2>2. \A i \in 1..Done' : HarmlessRequest(i) => i \in 1..Done
      BY <1>4, <2>1 DEF HarmlessRequest
    <2>. QED
      BY <1>2, <1>3, <1>4, <2>2 DEF AnswersInv
  <1>9. FailureHasCause'
    BY <1>2, <1>3, <1>4 DEF FailureHasCause
  <1>. QED
    BY <1>4, <1>5, <1>6, <1>7, <1>8, <1>9 DEF ServerInv

LEMMA RespondInv == ServerInv /\ Respond => ServerInv'
  <1>1. SUFFICES ASSUME ServerInv, Respond PROVE ServerInv'
    OBVIOUS
  <1> DEFINE outcome == HandleMessage(pending.message)
             reply == ReplyOn(pending.id, pending.message, pending.time)
             written == outcome.ok /\ Encodes(reply)
  <1>2. /\ pending # None
        /\ \/ written /\ replies' = Append(replies, reply) /\ status' = status
           \/ ~written /\ status' = "failed" /\ replies' = replies
    BY <1>1 DEF Respond, Written, Reply, ReplyOn
  <1>3. StreamInv /\ RepliesInv /\ InTurn /\ AnswersInv /\ FailureHasCause
    BY <1>1 DEF ServerInv
  <1>4. /\ sent' = sent /\ read' = read /\ Replies' = Replies /\ PendingInv'
        /\ read \in Nat /\ read >= 1 /\ Done = read - 1 /\ Done' = read
        /\ pending.id = IdOf(sent[read], read)
        /\ pending.message = sent[read].message
        /\ sent[read].kind \in {"request", "unwritable", "notification"}
        /\ \A i : HarmlessRequest(i)' = HarmlessRequest(i)
    BY <1>1, <1>2, HandledLeaves
  <1>5. /\ facade \in Facades /\ started \in Starts
        /\ pending.message \in Messages(facade) /\ pending.time \in Nat
    BY <1>1, <1>2, HandledLeaves
  <1>6. StreamInv'
    <2>1. status' \in {"serving", "ended", "failed"}
      BY <1>2, <1>3 DEF StreamInv
    <2>. QED
      BY <1>1, <1>2, <2>1, HandledLeaves
  <1>7. replies \in Seq(Replies) /\ Len(replies) \in Nat /\ DOMAIN replies = 1..Len(replies)
    BY <1>3, LenProperties DEF RepliesInv
  <1>8. Len(replies) <= Done /\ \A k \in DOMAIN replies : replies[k].id # None => replies[k].id \in 1..Done
    BY <1>3 DEF RepliesInv
  <1>9. CASE ~written /\ status' = "failed" /\ replies' = replies
    <2>1. RepliesInv'
      <3>1. Len(replies) <= Done' /\ 1..Done \subseteq 1..Done'
        BY <1>4, <1>7, <1>8
      <3>. QED
        BY <1>4, <1>7, <1>8, <1>9, <3>1 DEF RepliesInv
    <2>2. ~Harmless(sent[read])
      <3>1. SUFFICES ASSUME Harmless(sent[read]) PROVE written
        BY <1>9
      <3>2. outcome.ok
        BY <1>4, <1>5, <3>1, HarmlessIsHandled
      <3>3. pending.id \in Nat \cup {None} /\ pending.id # Unreadable
        <4>1. sent[read].kind \in {"request", "notification"}
          BY <3>1 DEF Harmless
        <4>. QED
          BY <1>4, <4>1, ServerAssumption DEF IdOf
      <3>4. reply \in Replies
        BY <1>5, <3>2, <3>3, RepliesAre
      <3>5. Replied(reply) /\ reply.message = sent[read].message /\ reply.id # Unreadable
        BY <1>4, <3>3, <3>4 DEF Replies, ReplyOn
      <3>6. Encodes(reply)
        BY <1>5, <3>1, <3>5, HarmlessIsEncoded
      <3>. QED
        BY <3>2, <3>6
    <2>3. AnswersInv'
      <3>1. \A i \in 1..Done' : HarmlessRequest(i) => i \in 1..Done
        BY <1>4, <2>2 DEF HarmlessRequest
      <3>. QED
        BY <1>3, <1>4, <1>9, <3>1 DEF AnswersInv
    <2>4. FailureHasCause'
      <3>1. read \in 1..read' /\ ~Harmless(sent'[read])
        BY <1>4, <2>2
      <3>. QED
        BY <3>1 DEF FailureHasCause
    <2>5. InTurn'
      BY <1>3, <1>9 DEF InTurn
    <2>. QED
      BY <1>4, <1>6, <2>1, <2>3, <2>4, <2>5 DEF ServerInv
  <1>10. CASE written /\ replies' = Append(replies, reply) /\ status' = status
    <2> DEFINE n == Len(replies) + 1
    <2>1. pending.id = read \/ pending.id = None
      <3>1. pending.id # Unreadable
        BY <1>10 DEF Encodes, ReplyOn
      <3>. QED
        BY <1>4, <3>1 DEF IdOf
    <2>2. reply \in Replies
      BY <1>4, <1>5, <1>10, <2>1, RepliesAre
    <2>3. reply.id = pending.id
      BY DEF ReplyOn
    <2> HIDE DEF reply, outcome, written
    <2>4. /\ replies' \in Seq(Replies) /\ Len(replies') = n /\ replies'[n] = reply
          /\ \A k \in DOMAIN replies : replies'[k] = replies[k]
      BY <1>7, <1>10, <2>2, AppendProperties
    <2>5. DOMAIN replies' = 1..n /\ n \in Nat /\ n \notin DOMAIN replies
          /\ \A k \in DOMAIN replies' : k \in DOMAIN replies \/ k = n
      BY <1>7, <2>4, LenProperties
    <2>6. \A k \in DOMAIN replies : replies'[k].id # None => replies'[k].id \in 1..read - 1
      BY <1>4, <1>8, <2>4
    <2>7. replies'[n].id # None => replies'[n].id = read
      BY <2>1, <2>3, <2>4
    <2>8. RepliesInv'
      <3>1. \A k \in DOMAIN replies' : replies'[k].id # None => replies'[k].id \in 1..read
        <4>1. 1..read - 1 \subseteq 1..read /\ read \in 1..read
          BY <1>4
        <4>. QED
          BY <2>5, <2>6, <2>7, <4>1
      <3>2. Len(replies') <= read
        BY <1>4, <1>7, <1>8, <2>4
      <3>. QED
        BY <1>4, <2>4, <3>1, <3>2 DEF RepliesInv
    <2>9. InTurn'
      <3>1. SUFFICES ASSUME NEW k \in DOMAIN replies', NEW l \in DOMAIN replies', k < l,
                            replies'[k].id # None, replies'[l].id # None
                     PROVE  replies'[k].id < replies'[l].id
        BY DEF InTurn
      <3>2. k \in DOMAIN replies
        BY <2>5, <3>1
      <3>3. CASE l \in DOMAIN replies
        BY <1>3, <2>4, <3>1, <3>2, <3>3 DEF InTurn
      <3>4. CASE l = n
        <4>1. replies'[k].id \in 1..read - 1 /\ replies'[l].id = read
          BY <2>6, <2>7, <3>1, <3>2, <3>4
        <4>. QED
          BY <1>4, <4>1
      <3>. QED
        BY <2>5, <3>3, <3>4
    <2>10. AnswersInv'
      <3>1. SUFFICES ASSUME NEW i \in 1..Done', HarmlessRequest(i)
                     PROVE  \E k \in DOMAIN replies' : replies'[k].id = i
        BY <1>4 DEF AnswersInv
      <3>2. CASE i \in 1..Done
        <4>1. PICK k \in DOMAIN replies : replies[k].id = i
          BY <1>3, <3>1, <3>2 DEF AnswersInv
        <4>2. k \in DOMAIN replies'
          BY <1>7, <2>5
        <4>. QED
          BY <2>4, <4>1, <4>2
      <3>3. CASE i = read
        <4>1. replies'[n].id = read /\ n \in DOMAIN replies'
          BY <1>4, <1>7, <2>3, <2>4, <2>5, <3>1, <3>3 DEF HarmlessRequest, IdOf
        <4>. QED
          BY <3>3, <4>1
      <3>. QED
        BY <1>4, <3>2, <3>3
    <2>11. FailureHasCause'
      BY <1>3, <1>4, <1>10 DEF FailureHasCause
    <2>. QED
      BY <1>4, <1>6, <2>8, <2>9, <2>10, <2>11 DEF ServerInv
  <1>. QED
    BY <1>2, <1>9, <1>10

\* Frames are read one by one; replies are what the server answers to their messages, in
\* turn, one for each harmless request that is done; a failure has a frame as its cause.
THEOREM ServerInvariant == Spec => []ServerInv
  <1>1. Init => ServerInv
    BY InitInv
  <1>2. ServerInv /\ [Next]_vars => ServerInv'
    <2>1. ASSUME ServerInv, UNCHANGED vars
          PROVE  ServerInv'
      <3>1. /\ facade' = facade /\ started' = started /\ now' = now /\ sent' = sent /\ read' = read
            /\ pending' = pending /\ replies' = replies /\ status' = status
        BY <2>1 DEF vars
      <3>2. Replies' = Replies /\ Frames' = Frames /\ Done' = Done /\ Facades' = Facades
        BY <3>1, HandlingIsFixed DEF Done, Facades
      <3>. QED
        BY <2>1, <3>1, <3>2
        DEF ServerInv, StreamInv, PendingInv, RepliesInv, InTurn, AnswersInv, HarmlessRequest, FailureHasCause
    <2>. QED
      BY <2>1, SendInv, TickInv, ReceiveInv, IgnoreInv, RespondInv DEF Next
  <1>. QED
    BY <1>1, <1>2, PTL DEF Spec

-----------------------------------------------------------------------------
(* What follows.                                                           *)

\* The state is of its type; hits are of the corpus, and no more than asked for.
THEOREM TypeCorrect == Spec => []TypeOK
  <1>1. ServerInv => TypeOK
    <2>1. SUFFICES ASSUME ServerInv PROVE TypeOK
      OBVIOUS
    <2>2. StreamInv /\ PendingInv /\ RepliesInv
      BY <2>1 DEF ServerInv
    <2>3. /\ facade \in {Facade(wiki) : wiki \in Wikis}
          /\ started \in Starts /\ now \in started..MaxTime
          /\ Len(sent) <= MaxFrames /\ read \in 0..Len(sent)
          /\ status \in {"serving", "ended", "failed"}
      BY <2>2 DEF StreamInv, Facades
    <2>4. Len(replies) <= read
      <3>1. Len(replies) \in Nat /\ Len(replies) <= Done
        BY <2>2, LenProperties DEF RepliesInv
      <3>. QED
        BY <2>2, <3>1, DoneIsRead
    <2>5. pending = None \/ pending.message \in Messages(facade)
      BY <2>2, FramesAre DEF PendingInv, StreamInv
    <2>6. ASSUME NEW k \in DOMAIN replies
          PROVE  /\ replies[k].code \in {0, -32600, -32601, -32602}
                 /\ Shows(replies[k]) => /\ replies[k].result.limit \in 1..50
                                        /\ Len(replies[k].result.hits) <= replies[k].result.limit
                                        /\ Shown(replies[k]) \subseteq ToSet(Corpus(facade))
      <3>1. facade \in Facades /\ Replied(replies[k])
        BY <2>2, RepliesAreReplied DEF RepliesInv, StreamInv
      <3>2. replies[k].code \in {0, -32600, -32601, -32602}
        BY <3>1, ReplyCodes DEF Codes
      <3>. QED
        BY <3>1, <3>2, ShowsWithinLimit
    <2>. QED
      BY <2>3, <2>4, <2>5, <2>6 DEF TypeOK
  <1>. QED
    BY <1>1, ServerInvariant, PTL

\* What one reply names, a later request can read, and reads under that name.
THEOREM NamesAreReadable == Spec => []NamesCanBeRead
  <1>1. ServerInv => NamesCanBeRead
    <2>1. SUFFICES ASSUME ServerInv, NEW k \in DOMAIN replies, NEW l \in DOMAIN replies
                   PROVE  /\ \A uri \in UrisIn(replies[k]) :
                               /\ UriName(uri) = uri.text
                               /\ replies[l].message.method = "resources/read" /\ replies[l].message.uri = uri
                               => Serves(replies[l], uri)
                          /\ \A path \in PathsIn(replies[k]) :
                               /\ replies[l].message.arguments # None
                               /\ replies[l].message.arguments.path = path
                               /\ Asks(replies[l], "get_page") \/ Asks(replies[l], "resolve_links")
                               => Succeeds(replies[l]) /\ replies[l].result.path = path
      BY DEF NamesCanBeRead
    <2>2. facade \in Facades /\ Replied(replies[k]) /\ Replied(replies[l])
      BY <2>1, RepliesAreReplied DEF ServerInv, RepliesInv, StreamInv
    <2>3. \A uri \in UrisIn(replies[k]) : Named(facade, uri)
      BY <2>2, UrisAreNamed
    <2>4. \A path \in PathsIn(replies[k]) : \E i \in DOMAIN facade.pages : facade.pages[i].path = path
      BY <2>2, PathsAreOfPages
    <2>5. ASSUME NEW uri \in UrisIn(replies[k])
          PROVE  /\ UriName(uri) = uri.text
                 /\ replies[l].message.method = "resources/read" /\ replies[l].message.uri = uri
                 => Serves(replies[l], uri)
      BY <2>2, <2>3, NamesAreServed
    <2>6. ASSUME NEW path \in PathsIn(replies[k])
          PROVE  /\ replies[l].message.arguments # None
                 /\ replies[l].message.arguments.path = path
                 /\ Asks(replies[l], "get_page") \/ Asks(replies[l], "resolve_links")
                 => Succeeds(replies[l]) /\ replies[l].result.path = path
      BY <2>2, <2>4, NamesAreServed
    <2>. QED
      BY <2>5, <2>6
  <1>. QED
    BY <1>1, ServerInvariant, PTL

\* A document a search leaves out is no better than one of its kind that it shows, and
\* neither kind crowds out the other.
THEOREM BestIsShown == Spec => []SearchShowsTheBest
  <1>1. ServerInv => SearchShowsTheBest
    <2>1. SUFFICES ASSUME ServerInv, NEW k \in DOMAIN replies, Shows(replies[k]), Asks(replies[k], "search"),
                          NEW shown \in Shown(replies[k]), NEW d \in ToSet(Corpus(facade)),
                          Relevance(replies[k].message.arguments.query, Corpus(facade), d)
                            > Relevance(replies[k].message.arguments.query, Corpus(facade), shown)
                   PROVE  IF d.kind = shown.kind
                          THEN Score(replies[k].message.arguments.query, Corpus(facade), "topic", d)
                                 > Score(replies[k].message.arguments.query, Corpus(facade), "topic", shown)
                               => d \in Shown(replies[k])
                          ELSE replies[k].result.limit > 1 => \E e \in Shown(replies[k]) : e.kind = d.kind
      BY DEF SearchShowsTheBest
    <2>2. facade \in Facades /\ Replied(replies[k])
      BY <2>1, RepliesAreReplied DEF ServerInv, RepliesInv, StreamInv
    <2>. QED
      BY <2>1, <2>2, SearchesShowTheBest
  <1>. QED
    BY <1>1, ServerInvariant, PTL

\* What is recalled of "today" and "yesterday" is of that calendar day or of the midnight
\* that ends it, and nothing of the day is missing when there is room.
THEOREM DaysAreDates == Spec => []RelativeDaysAreDates
  <1>1. ServerInv => RelativeDaysAreDates
    <2>1. SUFFICES ASSUME ServerInv, NEW k \in DOMAIN replies, Shows(replies[k]), Asks(replies[k], "recall"),
                          replies[k].result.strategy = "temporal",
                          replies[k].message.arguments.query.when \cap {"today", "yesterday"} # {}
                   PROVE  LET reply == replies[k]
                              query == reply.message.arguments.query
                              reference == reply.message.arguments.reference
                              time == IF reference = None THEN started ELSE reference.at
                              yesterday == "yesterday" \in query.when
                              day == IF yesterday THEN DayStart(time) - Day ELSE DayStart(time)
                              corpus == Corpus(facade)
                              ofDay == {i \in DOMAIN corpus : OfDay(corpus[i], day)}
                              atEnd == {i \in DOMAIN corpus : corpus[i].recorded_at = day + Day}
                          IN  /\ Shown(reply) \subseteq
                                   {corpus[i] : i \in ofDay \cup
                                                  (IF yesterday \/ time + 1 = day + Day THEN atEnd ELSE {})}
                              /\ Cardinality(ofDay \cup atEnd) <= reply.result.limit =>
                                   \A i \in ofDay :
                                     corpus[i].recorded_at <= time /\ corpus[i].terms \cap query.terms # {}
                                     => corpus[i] \in Shown(reply)
      BY DEF RelativeDaysAreDates
    <2>2. facade \in Facades /\ Replied(replies[k])
      BY <2>1, RepliesAreReplied DEF ServerInv, RepliesInv, StreamInv
    <2>3. started \in Nat
      BY <2>1, ServerAssumption DEF ServerInv, StreamInv
    <2> DEFINE reply == replies[k]
               time == Reference(started, reply.message.arguments).at
               query == reply.message.arguments.query
               yesterday == "yesterday" \in query.when
               day == IF yesterday THEN DayStart(time) - Day ELSE DayStart(time)
               corpus == Corpus(facade)
               ofDay == {i \in DOMAIN corpus : OfDay(corpus[i], day)}
               atEnd == {i \in DOMAIN corpus : corpus[i].recorded_at = day + Day}
    <2>4. /\ Shown(reply) \subseteq
               {corpus[i] : i \in ofDay \cup (IF yesterday \/ time + 1 = day + Day THEN atEnd ELSE {})}
          /\ Cardinality(ofDay \cup atEnd) <= reply.result.limit =>
               \A i \in ofDay : corpus[i].recorded_at <= time /\ corpus[i].terms \cap query.terms # {}
                              => corpus[i] \in Shown(reply)
      BY <2>1, <2>2, <2>3, RecallsShowDays
    <2>5. time = IF reply.message.arguments.reference = None THEN started
                 ELSE reply.message.arguments.reference.at
      BY DEF Reference
    <2> HIDE DEF time
    <2>. QED
      BY <2>4, <2>5
  <1>. QED
    BY <1>1, ServerInvariant, PTL

\* Requests are answered in the order in which they were read.
THEOREM RepliesInTurn == Spec => []InTurn
  <1>1. ServerInv => InTurn
    BY DEF ServerInv
  <1>. QED
    BY <1>1, ServerInvariant, PTL

\* A server that failed had read a frame that is not harmless.
THEOREM FailuresHaveCauses == Spec => []FailureHasCause
  <1>1. ServerInv => FailureHasCause
    BY DEF ServerInv
  <1>. QED
    BY <1>1, ServerInvariant, PTL

IdsAreOnce == \A k \in DOMAIN replies : replies[k].id # None => AnsweredOnce(replies[k].id)

LEMMA InTurnIsOnce == RepliesInv /\ InTurn => IdsAreOnce
  <1>1. SUFFICES ASSUME RepliesInv, InTurn, NEW k \in DOMAIN replies, replies[k].id # None
                 PROVE  AnsweredOnce(replies[k].id)
    BY DEF IdsAreOnce
  <1> DEFINE i == replies[k].id
             answers == {l \in DOMAIN replies : replies[l].id = i}
  <1>2. DOMAIN replies \subseteq Nat
    BY <1>1, LenProperties DEF RepliesInv
  <1>3. i \in Int
    BY <1>1 DEF RepliesInv
  <1>4. answers = {k}
    <2>1. SUFFICES ASSUME NEW l \in answers PROVE l = k
      OBVIOUS
    <2>2. CASE l < k
      BY <1>1, <1>3, <2>1, <2>2 DEF InTurn
    <2>3. CASE k < l
      BY <1>1, <1>3, <2>1, <2>3 DEF InTurn
    <2>. QED
      BY <1>2, <2>1, <2>2, <2>3
  <1> HIDE DEF answers
  <1>5. Cardinality(answers) = 1
    BY <1>4, FS_Singleton
  <1>. QED
    BY <1>5 DEF AnsweredOnce, answers

\* Of the requests that were read and are not being handled, each is answered exactly
\* once if no frame up to it is one that may end the server.
DoneAreAnswered == \A i \in 1..Done : HarmlessRequest(i) => AnsweredOnce(i)

THEOREM RequestsAreAnsweredOnce == Spec => []DoneAreAnswered
  <1>1. ServerInv => DoneAreAnswered
    <2>1. SUFFICES ASSUME ServerInv, NEW i \in 1..Done, HarmlessRequest(i) PROVE AnsweredOnce(i)
      BY DEF DoneAreAnswered
    <2>2. PICK k \in DOMAIN replies : replies[k].id = i
      BY <2>1 DEF ServerInv, AnswersInv
    <2>3. i \in Int
      BY <2>1, DoneIsRead DEF ServerInv
    <2>. QED
      BY <2>1, <2>2, <2>3, InTurnIsOnce, NoneIsNoNumber DEF ServerInv, IdsAreOnce
  <1>. QED
    BY <1>1, ServerInvariant, PTL

\* An answer is final: a request that was answered once stays so.
AnswersAreFinal == [][\A i \in Nat : AnsweredOnce(i) => AnsweredOnce(i)']_vars

THEOREM AnswersStay == Spec => AnswersAreFinal
  <1>1. ServerInv /\ ServerInv' /\ [Next]_vars => [\A i \in Nat : AnsweredOnce(i) => AnsweredOnce(i)']_vars
    <2>1. SUFFICES ASSUME ServerInv, ServerInv', Next, NEW i \in Nat, AnsweredOnce(i)
                   PROVE  AnsweredOnce(i)'
      OBVIOUS
    <2>2. PICK k \in DOMAIN replies : replies[k].id = i
      <3>1. SUFFICES ASSUME {k \in DOMAIN replies : replies[k].id = i} = {} PROVE FALSE
        OBVIOUS
      <3>. QED
        BY <2>1, <3>1, FS_EmptySet DEF AnsweredOnce
    <2>3. replies' = replies \/ \E reply : replies' = Append(replies, reply)
      BY <2>1 DEF Next, Send, Tick, Receive, Ignore, Respond, Written
    <2>4. k \in DOMAIN replies' /\ replies'[k] = replies[k]
      <3>1. CASE replies' = replies
        BY <3>1
      <3>2. ASSUME NEW reply, replies' = Append(replies, reply)
            PROVE  k \in DOMAIN replies' /\ replies'[k] = replies[k]
        <4>1. replies \in Seq(Replies \cup {reply})
          <5>1. replies \in Seq(Replies)
            BY <2>1 DEF ServerInv, RepliesInv
          <5>. QED
            BY <5>1
        <4>2. /\ Append(replies, reply) \in Seq(Replies \cup {reply})
              /\ Len(Append(replies, reply)) = Len(replies) + 1
              /\ \A l \in 1..Len(replies) : Append(replies, reply)[l] = replies[l]
          BY <4>1, AppendProperties
        <4>3. DOMAIN replies = 1..Len(replies) /\ Len(replies) \in Nat
              /\ DOMAIN Append(replies, reply) = 1..Len(replies) + 1
          BY <4>1, <4>2, LenProperties
        <4>. QED
          BY <3>2, <4>2, <4>3
      <3>. QED
        BY <2>3, <3>1, <3>2
    <2>5. (RepliesInv /\ InTurn)' /\ replies'[k].id = i /\ i # None
      BY <2>1, <2>2, <2>4, NoneIsNoNumber DEF ServerInv
    <2>6. (RepliesInv /\ InTurn => IdsAreOnce)'
      BY InTurnIsOnce, PTL
    <2>. QED
      BY <2>4, <2>5, <2>6 DEF IdsAreOnce
  <1>. QED
    BY <1>1, ServerInvariant, PTL DEF Spec, AnswersAreFinal
=============================================================================
