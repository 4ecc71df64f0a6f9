------------------------ MODULE RetrievalCacheProofs ------------------------
(***************************************************************************)
(* The snapshot cache answers what was there, for any workspaces, records, *)
(* capacity and number of writes.                                          *)
(*                                                                         *)
(* Why: a write stamps what it leaves with a time no key has.  A record no *)
(* newer than an entry's key was there, as it is, when the key was made,   *)
(* and so was read by the filling that followed, however late and disturbed *)
(* it was (CacheSound).  A scan that finds a key again has stated every    *)
(* record that is as it was when the call began (Scanning), so none of     *)
(* them is newer than that key.                                            *)
(***************************************************************************)
EXTENDS RetrievalCache, WellFoundedInduction, SequenceTheorems, TLAPS

-----------------------------------------------------------------------------
(* Keys and layers.                                                        *)

Newest(key) == key[2][1]
HeldAt(key) == key[2][3]

\* What the records of a layer hold.
Held(layer) == [n \in DOMAIN layer |-> layer[n].content]

\* What a scan found them to hold; None for one that vanished under it.
Founds == UNION {[S -> Contents \cup {None}] : S \in SUBSET Names}

Counts == {Cardinality(S) : S \in SUBSET Names}
Keys == Roots \X ((0..MaxWrites) \X Counts \X Founds) \X (0..MaxWrites)
Entries == [key : Keys, snapshot : Snapshots, filled : {"undisturbed", "disturbed"}]
Calls ==
  [at : {"start", "scan", "list", "read"}, root : Roots, start : Layers,
   scan : [latest : 0..MaxWrites, held : Founds], opened : Names \cup {None},
   key : Keys \cup {None}, scanned : 0..MaxWrites, left : SUBSET Names, read : Snapshots]
Answers == [root : Roots, start : Layers, given : Snapshots, filled : Fills]

\* The type invariant, with the types TypeOK has no need to mention.
Types ==
  /\ records \in [Roots -> Layers]
  /\ changed \in [Roots -> 0..MaxWrites]
  /\ compiled \in [Roots -> 0..MaxWrites]
  /\ manifest \in [Roots -> {None, Installed, Other}]
  /\ writes \in 0..MaxWrites
  /\ calls \in 0..MaxCalls
  /\ cache \in Seq(Entries) /\ Len(cache) <= Capacity
  /\ call # None => call \in Calls /\ (call.at \in {"list", "read"} => call.key \in Keys)
  /\ was \in SUBSET (Names \X Contents)
  /\ answer # None => answer \in Answers

\* No layer is from the future.
Clock ==
  \A root \in Roots :
    /\ changed[root] <= writes
    /\ \A n \in DOMAIN records[root] : records[root][n].mtime <= writes

\* A bounded set of numbers has a greatest element, and Max finds it.
LEMMA MaxIsGreatest ==
  ASSUME NEW b \in Nat, NEW S \in SUBSET (0..b), S # {}
  PROVE  Max(S) \in S /\ \A y \in S : y <= Max(S)
  <1> DEFINE R == {ss \in Nat \X Nat : ss[1] < ss[2]}
             T == {b - y : y \in S}
  <1>1. IsWellFoundedOn(R, Nat)
    BY NatLessThanWellFounded DEF OpToRel
  <1>2. T \subseteq Nat /\ T # {}
    <2>1. \A y \in S : b - y \in Nat
      OBVIOUS
    <2>2. PICK y \in S : TRUE
      OBVIOUS
    <2>3. b - y \in T
      OBVIOUS
    <2>. QED
      BY <2>1, <2>3
  <1>3. PICK x \in T : \A y \in T : ~ (<<y, x>> \in R)
    <2> HIDE DEF R, T
    <2>. QED
      BY <1>1, <1>2, WFMin
  <1>4. \A y \in T : x <= y
    <2>1. \A y \in T : x \in Nat /\ y \in Nat /\ ~(y < x)
      BY <1>2, <1>3
    <2>. QED
      BY <2>1
  <1>5. PICK m \in S : x = b - m
    OBVIOUS
  <1>6. \A y \in S : m >= y
    <2>1. \A y \in S : x <= b - y
      BY <1>4
    <2>. QED
      BY <2>1, <1>5
  <1>7. Max(S) \in S /\ \A y \in S : Max(S) >= y
    BY <1>6 DEF Max
  <1>. QED
    BY <1>7

LEMMA LayerShape ==
  ASSUME NEW layer \in Layers
  PROVE  /\ DOMAIN layer \subseteq Names
         /\ \A n \in DOMAIN layer : layer[n] \in [content : Contents, mtime : 0..MaxWrites]
         /\ Held(layer) \in Snapshots
         /\ DOMAIN Held(layer) = DOMAIN layer
         /\ \A n \in DOMAIN layer : Held(layer)[n] = layer[n].content
  <1>1. PICK S \in SUBSET Names : layer \in [S -> [content : Contents, mtime : 0..MaxWrites]]
    BY DEF Layers
  <1>2. Held(layer) \in [S -> Contents]
    BY <1>1 DEF Held
  <1>. QED
    BY <1>1, <1>2 DEF Held, Snapshots

LEMMA LayerMade ==
  ASSUME NEW layer, NEW S \in SUBSET Names,
         layer \in [S -> [content : Contents, mtime : 0..MaxWrites]]
  PROVE  layer \in Layers
  BY DEF Layers

LEMMA MaxOfTwo ==
  ASSUME NEW b \in Nat, NEW x \in 0..b, NEW y \in 0..b
  PROVE  Max({x, y}) \in 0..b /\ x <= Max({x, y}) /\ y <= Max({x, y})
  <1>1. {x, y} \in SUBSET (0..b) /\ {x, y} # {}
    OBVIOUS
  <1>2. Max({x, y}) \in {x, y} /\ \A z \in {x, y} : z <= Max({x, y})
    BY <1>1, MaxIsGreatest
  <1>. QED
    BY <1>2

\* The key of a scan has its workspace and what the scan found.
LEMMA KeyShape ==
  ASSUME Types, call # None
  PROVE  LET key == SnapshotKey(call.root, call.scan)
         IN  key \in Keys /\ key[1] = call.root /\ HeldAt(key) = call.scan.held /\ Newest(key) = call.scan.latest
  <1>1. call.root \in Roots /\ call.scan.latest \in 0..MaxWrites /\ call.scan.held \in Founds
    BY DEF Types, Calls
  <1>2. PICK S \in SUBSET Names : call.scan.held \in [S -> Contents \cup {None}]
    BY <1>1 DEF Founds
  <1>3. Cardinality(DOMAIN call.scan.held) \in Counts
    BY <1>2 DEF Counts
  <1>4. compiled[call.root] \in 0..MaxWrites
    BY <1>1 DEF Types
  <1>. QED
    BY <1>1, <1>3, <1>4 DEF SnapshotKey, LayerKey, Keys, HeldAt, Newest

-----------------------------------------------------------------------------
(* Sequences of entries.                                                   *)

\* What a hit moves to the end is among what was there.
Moved(s, i) == Append(SubSeq(s, 1, i - 1) \o SubSeq(s, i + 1, Len(s)), s[i])

LEMMA MovedToEnd ==
  ASSUME NEW S, NEW s \in Seq(S), NEW i \in DOMAIN s
  PROVE  /\ Moved(s, i) \in Seq(S)
         /\ Len(Moved(s, i)) = Len(s)
         /\ \A j \in DOMAIN Moved(s, i) : \E k \in DOMAIN s : Moved(s, i)[j] = s[k]
  <1> DEFINE before == SubSeq(s, 1, i - 1)
             after == SubSeq(s, i + 1, Len(s))
  <1>0. Len(s) \in Nat /\ DOMAIN s = 1..Len(s) /\ i \in 1..Len(s) /\ \A k \in 1..Len(s) : s[k] \in S
    BY LenProperties, ElementOfSeq
  <1>1. /\ before \in Seq(S) /\ Len(before) = i - 1
        /\ \A k \in 1..i - 1 : before[k] = s[k]
    BY <1>0, SubSeqProperties
  <1>2. /\ after \in Seq(S) /\ Len(after) = Len(s) - i
        /\ \A k \in 1..Len(s) - i : after[k] = s[k + i]
    <2>1. \A k \in i + 1..Len(s) : s[k] \in S
      BY <1>0
    <2>2. /\ after \in Seq(S) /\ Len(after) = IF i + 1 <= Len(s) THEN Len(s) - (i + 1) + 1 ELSE 0
          /\ \A k \in 1..Len(s) - (i + 1) + 1 : after[k] = s[i + 1 + k - 1]
      BY <2>1, <1>0, SubSeqProperties
    <2>. QED
      BY <2>2, <1>0
  <1> DEFINE rest == before \o after
             r == Append(rest, s[i])
  <1>3. /\ rest \in Seq(S) /\ Len(rest) = Len(before) + Len(after)
        /\ \A k \in 1..Len(before) + Len(after) :
             rest[k] = IF k <= Len(before) THEN before[k] ELSE after[k - Len(before)]
    BY <1>1, <1>2, ConcatProperties
  <1>4. /\ r \in Seq(S) /\ Len(r) = Len(rest) + 1
        /\ \A k \in 1..Len(rest) : r[k] = rest[k]
        /\ r[Len(rest) + 1] = s[i]
    BY <1>0, <1>3, AppendProperties
  <1>5. Len(r) = Len(s)
    BY <1>0, <1>1, <1>2, <1>3, <1>4
  <1>6. \A j \in 1..Len(s) : \E k \in 1..Len(s) : r[j] = s[k]
    <2> SUFFICES ASSUME NEW j \in 1..Len(s) PROVE \E k \in 1..Len(s) : r[j] = s[k]
      OBVIOUS
    <2> HIDE DEF before, after, rest, r
    <2>0. /\ j \in Nat /\ i \in Nat /\ Len(s) \in Nat /\ 1 <= i /\ i <= Len(s)
          /\ Len(rest) = Len(s) - 1
      BY <1>0, <1>1, <1>2, <1>3
    <2>1. CASE j <= i - 1
      <3>1. j \in 1..Len(rest) /\ j \in 1..Len(before) + Len(after) /\ j <= Len(before)
        BY <2>0, <2>1, <1>1, <1>2
      <3>2. r[j] = before[j] /\ j \in 1..i - 1
        BY <3>1, <1>1, <1>3, <1>4
      <3>. QED
        BY <3>2, <1>1
    <2>2. CASE j > i - 1 /\ j < Len(s)
      <3>0. j \in 1..Len(rest) /\ j \in 1..Len(before) + Len(after) /\ ~(j <= Len(before))
        BY <2>0, <2>2, <1>1, <1>2
      <3>1. r[j] = after[j - (i - 1)]
        BY <3>0, <1>1, <1>3, <1>4
      <3>2. after[j - (i - 1)] = s[j + 1]
        BY <2>2, <1>0, <1>2
      <3>. QED
        BY <2>2, <3>1, <3>2, <1>0
    <2>3. CASE j = Len(s)
      <3>1. j = Len(rest) + 1
        BY <2>0, <2>3
      <3>2. r[j] = s[i]
        BY <3>1, <1>4
      <3>. QED
        BY <3>2, <1>0
    <2>. QED
      BY <2>0, <2>1, <2>2, <2>3
  <1>7. DOMAIN r = 1..Len(s)
    BY <1>4, <1>5, LenProperties
  <1>8. Moved(s, i) = r
    BY DEF Moved
  <1> HIDE DEF r
  <1>. QED
    BY <1>0, <1>4, <1>5, <1>6, <1>7, <1>8

\* What a filling leaves is what was there and the new entry, within the capacity.
LEMMA KeptEntries ==
  ASSUME NEW S, NEW s \in Seq(S), NEW e \in S, Len(s) <= Capacity
  PROVE  LET r == Kept(Append(s, e))
         IN  /\ r \in Seq(S) /\ Len(r) <= Capacity
             /\ \A j \in DOMAIN r : r[j] = e \/ \E k \in DOMAIN s : r[j] = s[k]
  <1> DEFINE a == Append(s, e)
  <1>0. Len(s) \in Nat /\ DOMAIN s = 1..Len(s) /\ Capacity \in Nat
    BY LenProperties, CacheAssumption
  <1>1. /\ a \in Seq(S) /\ a # <<>> /\ Len(a) = Len(s) + 1
        /\ \A k \in 1..Len(s) : a[k] = s[k]
        /\ a[Len(s) + 1] = e
    BY AppendProperties
  <1>2. \A k \in 1..Len(a) : a[k] = e \/ \E l \in DOMAIN s : a[k] = s[l]
    <2> SUFFICES ASSUME NEW k \in 1..Len(a) PROVE a[k] = e \/ \E l \in DOMAIN s : a[k] = s[l]
      OBVIOUS
    <2> HIDE DEF a
    <2>1. k = Len(s) + 1 \/ k \in 1..Len(s)
      BY <1>0, <1>1
    <2>. QED
      BY <2>1, <1>0, <1>1
  <1>3. CASE Len(a) > Capacity
    <2>1. /\ Tail(a) \in Seq(S) /\ Len(Tail(a)) = Len(a) - 1
          /\ \A i \in 1..Len(Tail(a)) : Tail(a)[i] = a[i + 1]
      BY <1>1, HeadTailProperties
    <2>2. DOMAIN Tail(a) = 1..Len(Tail(a))
      BY <2>1, LenProperties
    <2>3. Kept(a) = Tail(a)
      BY <1>3 DEF Kept
    <2> HIDE DEF a
    <2>4. \A i \in 1..Len(Tail(a)) : i + 1 \in 1..Len(a)
      BY <2>1, <1>0, <1>1
    <2>. QED
      BY <1>0, <1>1, <1>2, <2>1, <2>2, <2>3, <2>4 DEF a
  <1>4. CASE ~(Len(a) > Capacity)
    <2>1. Kept(a) = a /\ DOMAIN a = 1..Len(a)
      BY <1>4, <1>1, LenProperties DEF Kept
    <2>. QED
      BY <1>0, <1>1, <1>2, <1>4, <2>1
  <1>. QED
    BY <1>3, <1>4

-----------------------------------------------------------------------------
(* Type correctness.                                                       *)

LEMMA TypesInit == Init => Types /\ Clock
  <1> SUFFICES ASSUME Init PROVE Types /\ Clock
    OBVIOUS
  <1>1. \A root \in Roots : records[root] \in Layers /\ \A n \in DOMAIN records[root] : records[root][n].mtime = 0
    <2> SUFFICES ASSUME NEW root \in Roots
                 PROVE  records[root] \in Layers /\ \A n \in DOMAIN records[root] : records[root][n].mtime = 0
      OBVIOUS
    <2>1. PICK S \in SUBSET Names : records[root] \in [S -> [content : Contents, mtime : {0}]]
      BY DEF Init
    <2>2. 0 \in 0..MaxWrites
      BY CacheAssumption
    <2>3. records[root] \in [S -> [content : Contents, mtime : 0..MaxWrites]]
      BY <2>1, <2>2
    <2>. QED
      BY <2>1, <2>3, LayerMade
  <1>2. records \in [Roots -> Layers]
    BY <1>1 DEF Init
  <1>3. Clock
    BY <1>1 DEF Init, Clock
  <1>4. cache \in Seq(Entries) /\ Len(cache) <= Capacity
    BY CacheAssumption DEF Init
  <1>. QED
    BY <1>2, <1>3, <1>4, CacheAssumption DEF Init, Types

\* What another process may do to the workspaces while a call is under way.
DiskStep ==
  \/ \E root \in Roots, name \in Names, content \in Contents : Store(root, name, content)
  \/ \E root \in Roots, name \in Names : Prune(root, name)
  \/ \E root \in Roots, tokenizer \in {Installed, Other} : Rebuild(root, tokenizer)

\* What was written before is unchanged or gone, and layers with an old time are as old.
Later ==
  /\ writes' >= writes
  /\ \A root \in Roots :
       /\ changed'[root] <= writes => changed'[root] = changed[root] /\ records'[root] = records[root]
       /\ \A n \in DOMAIN records'[root] :
            records'[root][n].mtime <= writes =>
              n \in DOMAIN records[root] /\ records'[root][n] = records[root][n]

\* What the records of the call's workspace hold is in its history.
Seen == call # None => \A n \in DOMAIN records[call.root] : <<n, records[call.root][n].content>> \in was

\* One layer is written over with records that it had, or that are of this moment.
LEMMA LayerWritten ==
  ASSUME Types, Clock, NEW root \in Roots, NEW layer \in Layers,
         \A n \in DOMAIN layer :
           layer[n].mtime # writes + 1 => n \in DOMAIN records[root] /\ layer[n] = records[root][n],
         records' = [records EXCEPT ![root] = layer],
         changed' = [changed EXCEPT ![root] = writes + 1],
         writes < MaxWrites, writes' = writes + 1,
         was' \in SUBSET (Names \X Contents),
         UNCHANGED <<compiled, manifest, cache, call, calls, answer>>
  PROVE  Types' /\ Clock' /\ Later
  <1>0. writes \in Nat /\ MaxWrites \in Nat /\ \A r \in Roots : changed[r] \in Nat
    BY CacheAssumption DEF Types
  <1>1. \A r \in Roots : \A n \in DOMAIN records[r] : records[r][n].mtime \in Nat
    BY LayerShape, CacheAssumption DEF Types
  <1>2. records'[root] = layer /\ \A r \in Roots \ {root} : records'[r] = records[r]
    BY DEF Types
  <1>3. changed'[root] = writes + 1 /\ \A r \in Roots \ {root} : changed'[r] = changed[r]
    BY DEF Types
  <1>4. Types'
    BY <1>0 DEF Types
  <1>5. \A n \in DOMAIN layer :
          /\ layer[n].mtime <= writes + 1
          /\ layer[n].mtime <= writes => n \in DOMAIN records[root] /\ layer[n] = records[root][n]
    <2>1. ASSUME NEW n \in DOMAIN layer, layer[n].mtime # writes + 1
          PROVE  n \in DOMAIN records[root] /\ layer[n] = records[root][n] /\ layer[n].mtime <= writes + 1
      <3>1. n \in DOMAIN records[root] /\ layer[n] = records[root][n]
        BY <2>1
      <3>2. records[root][n].mtime <= writes /\ records[root][n].mtime \in Nat
        BY <3>1, <1>1 DEF Clock
      <3>. QED
        BY <3>1, <3>2, <1>0
    <2>. QED
      BY <2>1, <1>0
  <1>6. Clock'
    <2> SUFFICES ASSUME NEW r \in Roots
                 PROVE  changed'[r] <= writes' /\ \A n \in DOMAIN records'[r] : records'[r][n].mtime <= writes'
      BY DEF Clock
    <2>1. CASE r = root
      BY <2>1, <1>0, <1>2, <1>3, <1>5
    <2>2. CASE r # root
      <3>1. changed[r] <= writes + 1 /\ \A n \in DOMAIN records[r] : records[r][n].mtime <= writes + 1
        BY <1>0, <1>1 DEF Clock
      <3>. QED
        BY <2>2, <3>1, <1>2, <1>3
    <2>. QED
      BY <2>1, <2>2
  <1>7. Later
    BY <1>0, <1>2, <1>3, <1>5 DEF Later
  <1>. QED
    BY <1>4, <1>6, <1>7

LEMMA DiskStepLater ==
  ASSUME Types, Clock, DiskStep
  PROVE  Types' /\ Clock' /\ Later /\ UNCHANGED <<cache, call, calls, answer>>
  <1>0. writes \in Nat /\ MaxWrites \in Nat /\ \A root \in Roots : changed[root] \in Nat
    BY CacheAssumption DEF Types
  <1>l. \A root \in Roots : /\ DOMAIN records[root] \subseteq Names
                            /\ \A n \in DOMAIN records[root] :
                                 records[root][n] \in [content : Contents, mtime : 0..MaxWrites]
    BY LayerShape DEF Types
  <1>1. ASSUME NEW root \in Roots, NEW name \in Names, NEW content \in Contents, Store(root, name, content)
        PROVE  Types' /\ Clock' /\ Later /\ UNCHANGED <<cache, call, calls, answer>>
    <2> DEFINE S == DOMAIN records[root] \cup {name}
               layer == [n \in S |-> IF n = name THEN [content |-> content, mtime |-> writes + 1]
                                      ELSE records[root][n]]
    <2>1. /\ records' = [records EXCEPT ![root] = layer]
          /\ changed' = [changed EXCEPT ![root] = writes + 1]
          /\ writes < MaxWrites /\ writes' = writes + 1
          /\ UNCHANGED <<compiled, manifest, cache, call, calls, answer>>
      BY <1>1 DEF Store, Write
    <2>w. was' \in SUBSET (Names \X Contents)
      BY <1>1 DEF Store, Types
    <2>2. layer \in [S -> [content : Contents, mtime : 0..MaxWrites]] /\ S \in SUBSET Names
      BY <1>0, <1>l, <2>1
    <2>3. layer \in Layers
      BY <2>2, LayerMade
    <2>4. \A n \in DOMAIN layer :
            layer[n].mtime # writes + 1 => n \in DOMAIN records[root] /\ layer[n] = records[root][n]
      OBVIOUS
    <2> HIDE DEF layer
    <2>. QED
      BY <2>1, <2>3, <2>4, <2>w, LayerWritten
  <1>2. ASSUME NEW root \in Roots, NEW name \in Names, Prune(root, name)
        PROVE  Types' /\ Clock' /\ Later /\ UNCHANGED <<cache, call, calls, answer>>
    <2> DEFINE S == DOMAIN records[root] \ {name}
               layer == [n \in S |-> records[root][n]]
    <2>1. /\ records' = [records EXCEPT ![root] = layer]
          /\ changed' = [changed EXCEPT ![root] = writes + 1]
          /\ writes < MaxWrites /\ writes' = writes + 1
          /\ UNCHANGED <<compiled, manifest, cache, call, was, calls, answer>>
      BY <1>2 DEF Prune, Write
    <2>2. layer \in [S -> [content : Contents, mtime : 0..MaxWrites]] /\ S \in SUBSET Names
      BY <1>l
    <2>3. layer \in Layers
      BY <2>2, LayerMade
    <2>4. \A n \in DOMAIN layer : n \in DOMAIN records[root] /\ layer[n] = records[root][n]
      OBVIOUS
    <2>w. was' \in SUBSET (Names \X Contents)
      BY <2>1 DEF Types
    <2> HIDE DEF layer
    <2>. QED
      BY <2>1, <2>3, <2>4, <2>w, LayerWritten
  <1>3. ASSUME NEW root \in Roots, NEW tokenizer \in {Installed, Other}, Rebuild(root, tokenizer)
        PROVE  Types' /\ Clock' /\ Later /\ UNCHANGED <<cache, call, calls, answer>>
    <2>1. /\ writes < MaxWrites /\ writes' = writes + 1
          /\ compiled' = [compiled EXCEPT ![root] = writes + 1]
          /\ manifest' = [manifest EXCEPT ![root] = tokenizer]
          /\ UNCHANGED <<records, changed, cache, call, was, calls, answer>>
      BY <1>3 DEF Rebuild, Write
    <2>2. Types'
      BY <2>1, <1>0 DEF Types
    <2>3. \A r \in Roots : \A n \in DOMAIN records[r] :
            records[r][n].mtime \in 0..MaxWrites /\ records[r][n].mtime <= writes
      BY <1>l DEF Clock
    <2>4. Clock'
      <3>1. \A r \in Roots : \A n \in DOMAIN records[r] : records[r][n].mtime <= writes + 1
        BY <2>3, <1>0
      <3>2. \A r \in Roots : changed[r] <= writes + 1
        BY <1>0 DEF Clock
      <3>. QED
        BY <2>1, <3>1, <3>2 DEF Clock
    <2>5. Later
      BY <2>1, <1>0 DEF Later
    <2>. QED
      BY <2>1, <2>2, <2>4, <2>5
  <1>. QED
    BY <1>1, <1>2, <1>3 DEF DiskStep

\* What others write while a call is under way adds to its history.
LEMMA DiskStepSeen ==
  ASSUME Types, Seen, DiskStep
  PROVE  Seen' /\ was \subseteq was'
  <1>0. call' = call /\ (call # None => call.root \in Roots)
    BY DEF DiskStep, Store, Prune, Rebuild, Types, Calls
  <1>1. ASSUME NEW root \in Roots, NEW name \in Names, NEW content \in Contents, Store(root, name, content)
        PROVE  Seen' /\ was \subseteq was'
    <2>1. CASE call # None /\ call.root = root
      <3>1. was' = was \cup {<<name, content>>}
        BY <1>1, <2>1 DEF Store
      <3>2. \A n \in DOMAIN records'[root] :
              \/ records'[root][n].content = content /\ n = name
              \/ n \in DOMAIN records[root] /\ records'[root][n] = records[root][n]
        <4>1. records'[root] = [n \in DOMAIN records[root] \cup {name} |->
                                  IF n = name THEN [content |-> content, mtime |-> writes'] ELSE records[root][n]]
          BY <1>1 DEF Store, Types
        <4>. QED
          BY <4>1
      <3>. QED
        BY <1>0, <2>1, <3>1, <3>2 DEF Seen
    <2>2. CASE ~(call # None /\ call.root = root)
      <3>1. was' = was /\ (call # None => records'[call.root] = records[call.root])
        BY <1>0, <1>1, <2>2 DEF Store, Types
      <3>. QED
        BY <1>0, <3>1 DEF Seen
    <2>. QED
      BY <2>1, <2>2
  <1>2. ASSUME NEW root \in Roots, NEW name \in Names, Prune(root, name)
        PROVE  Seen' /\ was \subseteq was'
    <2>1. was' = was
      BY <1>2 DEF Prune
    <2>2. call # None => \A n \in DOMAIN records'[call.root] :
            n \in DOMAIN records[call.root] /\ records'[call.root][n] = records[call.root][n]
      BY <1>0, <1>2 DEF Prune, Types
    <2>. QED
      BY <1>0, <2>1, <2>2 DEF Seen
  <1>3. ASSUME NEW root \in Roots, NEW tokenizer \in {Installed, Other}, Rebuild(root, tokenizer)
        PROVE  Seen' /\ was \subseteq was'
    BY <1>0, <1>3 DEF Rebuild, Seen
  <1>. QED
    BY <1>1, <1>2, <1>3 DEF DiskStep

\* What the process itself does leaves every workspace as it is.
CallStep ==
  \/ \E root \in Roots : Begin(root)
  \/ ListLayer \/ Stat \/ Hash \/ Hit \/ Miss \/ List \/ Read \/ Vanished \/ Finish \/ ClearCache

\* Adding one record to what a filling read, or a scan found.
LEMMA OneMoreRead ==
  ASSUME NEW f \in Snapshots, NEW n \in Names, NEW c \in Contents
  PROVE  [m \in DOMAIN f \cup {n} |-> IF m = n THEN c ELSE f[m]] \in Snapshots
  <1>1. PICK S \in SUBSET Names : f \in [S -> Contents]
    BY DEF Snapshots
  <1>2. [m \in DOMAIN f \cup {n} |-> IF m = n THEN c ELSE f[m]] \in [S \cup {n} -> Contents]
    BY <1>1
  <1>. QED
    BY <1>2 DEF Snapshots

LEMMA OneMoreFound ==
  ASSUME NEW f \in Founds, NEW n \in Names, NEW c \in Contents \cup {None}
  PROVE  [m \in DOMAIN f \cup {n} |-> IF m = n THEN c ELSE f[m]] \in Founds
  <1>1. PICK S \in SUBSET Names : f \in [S -> Contents \cup {None}]
    BY DEF Founds
  <1>2. [m \in DOMAIN f \cup {n} |-> IF m = n THEN c ELSE f[m]] \in [S \cup {n} -> Contents \cup {None}]
    BY <1>1
  <1>. QED
    BY <1>2 DEF Founds

LEMMA NothingYet == <<>> \in Snapshots /\ <<>> \in Founds
  <1>1. {} \in SUBSET Names
    OBVIOUS
  <1>2. <<>> \in [{} -> Contents] /\ <<>> \in [{} -> Contents \cup {None}]
    OBVIOUS
  <1>. QED
    BY <1>1, <1>2 DEF Snapshots, Founds

\* What the file scanned changes in the call.
Stated(n) ==
  [call EXCEPT !.left = call.left \ {n}, !.opened = n,
               !.scan = [call.scan EXCEPT !.latest = Max({call.scan.latest, records[call.root][n].mtime})]]

Hashed(content) ==
  [call EXCEPT !.opened = None,
               !.scan = [call.scan EXCEPT !.held =
                           [m \in DOMAIN call.scan.held \cup {call.opened} |->
                              IF m = call.opened THEN content ELSE call.scan.held[m]]]]

LEMMA StatStep ==
  ASSUME Types, Stat
  PROVE  /\ call # None /\ call \in Calls /\ call.at = "scan" /\ call.opened = None
         /\ \E n \in call.left :
              \/ n \in DOMAIN records[call.root] /\ call' = Stated(n)
              \/ n \notin DOMAIN records[call.root] /\ call' = [call EXCEPT !.left = call.left \ {n}]
  <1>1. call # None /\ call \in Calls /\ call.at = "scan" /\ call.opened = None
    BY DEF Stat, Types
  <1>. QED
    BY <1>1 DEF Stat, Stated, Calls

LEMMA HashStep ==
  ASSUME Types, Hash
  PROVE  /\ call # None /\ call \in Calls /\ call.at = "scan" /\ call.opened \in Names
         /\ \/ call.opened \in DOMAIN records[call.root] /\ call' = Hashed(records[call.root][call.opened].content)
            \/ /\ call.opened \notin DOMAIN records[call.root]
               /\ call' = [call EXCEPT !.opened = None] \/ call' = Hashed(None)
  <1>1. call # None /\ call \in Calls /\ call.at = "scan" /\ call.opened # None
    BY DEF Hash, Types
  <1>2. call.opened \in Names
    BY <1>1 DEF Calls
  <1>. QED
    BY <1>1, <1>2 DEF Hash, Hashed, Calls

LEMMA CallStepTypes ==
  ASSUME Types, Clock, CallStep
  PROVE  Types' /\ Clock' /\ UNCHANGED disk
  <1>1. UNCHANGED disk
    BY DEF CallStep, Begin, ListLayer, Stat, Hash, Hit, Miss, List, Read, Vanished, Finish, ClearCache
  <1>2. Clock' /\ records' = records /\ changed' = changed /\ compiled' = compiled
               /\ manifest' = manifest /\ writes' = writes
    BY <1>1 DEF Clock, disk
  <1>0. writes \in Nat /\ MaxWrites \in Nat /\ MaxCalls \in Nat
    BY CacheAssumption DEF Types
  <1> DEFINE Cache == cache' \in Seq(Entries) /\ Len(cache') <= Capacity
             Call == call' # None => call' \in Calls /\ (call'.at \in {"list", "read"} => call'.key \in Keys)
             Was == was' \in SUBSET (Names \X Contents)
             Answered == answer' # None => answer' \in Answers
             Made == calls' \in 0..MaxCalls
  <1>3. SUFFICES Cache /\ Call /\ Was /\ Answered /\ Made
    <2> HIDE DEF Calls, Entries, Answers, Keys
    <2>. QED
      BY <1>1, <1>2 DEF Types
  <1> HIDE DEF disk
  <1>4. ASSUME NEW root \in Roots, Begin(root)  PROVE Cache /\ Call /\ Was /\ Answered /\ Made
    <2>1. records[root] \in Layers
      BY DEF Types
    <2>2. NoScan \in [latest : 0..MaxWrites, held : Founds]
      BY NothingYet, <1>0 DEF NoScan
    <2>3. call' \in Calls /\ call'.at = "start"
      BY <1>4, <2>1, <2>2, <1>0, NothingYet DEF Begin, Calls
    <2>4. calls' \in 0..MaxCalls /\ answer' = None /\ cache' = cache
      BY <1>4, <1>0 DEF Begin, Types
    <2>5. Was
      <3>1. was' = {<<n, records[root][n].content>> : n \in DOMAIN records[root]}
        BY <1>4 DEF Begin
      <3>. QED
        BY <3>1, <2>1, LayerShape
    <2>. QED
      BY <2>3, <2>4, <2>5 DEF Types
  <1>l. ASSUME ListLayer  PROVE Cache /\ Call /\ Was /\ Answered /\ Made
    <2>1. call \in Calls /\ changed[call.root] \in 0..MaxWrites
      BY <1>l DEF ListLayer, Types, Calls
    <2>2. DOMAIN records[call.root] \subseteq Names
      BY <2>1, LayerShape DEF Calls, Types
    <2>3. call' \in Calls /\ call'.at = "scan"
      BY <1>l, <2>1, <2>2 DEF ListLayer, Calls
    <2>. QED
      BY <1>l, <2>3 DEF ListLayer, Types
  <1>s. ASSUME Stat  PROVE Cache /\ Call /\ Was /\ Answered /\ Made
    <2>1. call \in Calls /\ call.at = "scan"
      BY <1>s, StatStep
    <2>2. PICK n \in call.left :
              \/ n \in DOMAIN records[call.root] /\ call' = Stated(n)
              \/ n \notin DOMAIN records[call.root] /\ call' = [call EXCEPT !.left = call.left \ {n}]
      BY <1>s, StatStep
    <2>3. call' \in Calls /\ call'.at = "scan"
      <3>1. CASE n \in DOMAIN records[call.root] /\ call' = Stated(n)
        <4>1. records[call.root][n].mtime \in 0..MaxWrites /\ call.scan.latest \in 0..MaxWrites /\ n \in Names
          BY <2>1, <3>1, LayerShape DEF Calls, Types
        <4>2. Max({call.scan.latest, records[call.root][n].mtime}) \in 0..MaxWrites
          BY <4>1, <1>0, MaxOfTwo
        <4> DEFINE scan == [call.scan EXCEPT !.latest = Max({call.scan.latest, records[call.root][n].mtime})]
        <4>3. scan \in [latest : 0..MaxWrites, held : Founds]
          BY <2>1, <4>2 DEF Calls
        <4>4. call' = [call EXCEPT !.left = call.left \ {n}, !.opened = n, !.scan = scan]
          BY <3>1 DEF Stated
        <4> HIDE DEF scan
        <4>. QED
          BY <2>1, <4>1, <4>3, <4>4 DEF Calls
      <3>2. CASE call' = [call EXCEPT !.left = call.left \ {n}]
        BY <2>1, <3>2 DEF Calls
      <3>. QED
        BY <2>2, <3>1, <3>2
    <2>. QED
      BY <1>s, <2>3 DEF Stat, Types
  <1>h. ASSUME Hash  PROVE Cache /\ Call /\ Was /\ Answered /\ Made
    <2>1. call \in Calls /\ call.at = "scan" /\ call.opened \in Names
      BY <1>h, HashStep
    <2>2. ASSUME NEW content \in Contents \cup {None}, call' = Hashed(content)
          PROVE  call' \in Calls /\ call'.at = "scan"
      <3> DEFINE held == [m \in DOMAIN call.scan.held \cup {call.opened} |->
                              IF m = call.opened THEN content ELSE call.scan.held[m]]
                 scan == [call.scan EXCEPT !.held = held]
      <3>1. held \in Founds
        <4>1. call.scan.held \in Founds
          BY <2>1 DEF Calls
        <4>. QED
          BY <2>1, <4>1, OneMoreFound
      <3> HIDE DEF held
      <3>2. scan \in [latest : 0..MaxWrites, held : Founds]
        BY <2>1, <3>1 DEF Calls
      <3>3. call' = [call EXCEPT !.opened = None, !.scan = scan]
        BY <2>2 DEF Hashed, held
      <3> HIDE DEF scan
      <3>. QED
        BY <2>1, <3>2, <3>3 DEF Calls
    <2>3. call.opened \in DOMAIN records[call.root] => records[call.root][call.opened].content \in Contents
      BY <2>1, LayerShape DEF Calls, Types
    <2>4. call' = [call EXCEPT !.opened = None] => call' \in Calls /\ call'.at = "scan"
      BY <2>1 DEF Calls
    <2>5. call' \in Calls /\ call'.at = "scan"
      BY <1>h, <2>2, <2>3, <2>4, HashStep
    <2>. QED
      BY <1>h, <2>5 DEF Hash, Types
  <1>5. ASSUME Hit  PROVE Cache /\ Call /\ Was /\ Answered /\ Made
    <2>1. PICK i \in Positions(SnapshotKey(call.root, call.scan)) :
            /\ cache' = Moved(cache, i)
            /\ Answer(cache[i].snapshot, cache[i].filled)
      BY <1>5 DEF Hit, Moved
    <2>2. i \in DOMAIN cache /\ cache[i] \in Entries
      BY ElementOfSeq DEF Positions, Types
    <2>3. cache' \in Seq(Entries) /\ Len(cache') = Len(cache)
      BY <2>1, <2>2, MovedToEnd DEF Types
    <2>4. answer' \in Answers
      BY <1>5, <2>1, <2>2 DEF Hit, Looking, Types, Answer, Answers, Calls, Entries, Fills
    <2>. QED
      BY <1>5, <2>3, <2>4 DEF Hit, Types
  <1>6. ASSUME Miss  PROVE Cache /\ Call /\ Was /\ Answered /\ Made
    <2>1. call # None /\ call \in Calls
      BY <1>6 DEF Miss, Looking, Types
    <2>2. SnapshotKey(call.root, call.scan) \in Keys
      BY <2>1, KeyShape
    <2>3. NoScan \in [latest : 0..MaxWrites, held : Founds]
      BY NothingYet, <1>0 DEF NoScan
    <2>4. call' \in Calls /\ call'.key \in Keys
      BY <1>6, <2>1, <2>2, <2>3 DEF Miss, Calls
    <2>. QED
      BY <1>6, <2>4 DEF Miss, Types
  <1>7. ASSUME List  PROVE Cache /\ Call /\ Was /\ Answered /\ Made
    <2>1. call \in Calls /\ call.key \in Keys
      BY <1>7 DEF List, Types
    <2>2. DOMAIN records[call.root] \subseteq Names
      BY <2>1, LayerShape DEF Calls, Types
    <2>3. call' \in Calls /\ call'.key \in Keys
      BY <1>7, <2>1, <2>2 DEF List, Calls
    <2>. QED
      BY <1>7, <2>3 DEF List, Types
  <1>8. ASSUME Read  PROVE Cache /\ Call /\ Was /\ Answered /\ Made
    <2>1. call \in Calls /\ call.key \in Keys
      BY <1>8 DEF Read, Types
    <2>2. PICK n \in call.left \cap DOMAIN records[call.root] :
            call' = [call EXCEPT !.left = @ \ {n},
                       !.read = [m \in DOMAIN @ \cup {n} |->
                                   IF m = n THEN records[call.root][n].content ELSE @[m]]]
      BY <1>8 DEF Read
    <2>3. n \in Names /\ records[call.root][n].content \in Contents
      BY <2>1, LayerShape DEF Calls, Types
    <2> DEFINE read == [m \in DOMAIN call.read \cup {n} |->
                          IF m = n THEN records[call.root][n].content ELSE call.read[m]]
    <2>6. read \in Snapshots
      <3>1. call.read \in Snapshots
        BY <2>1 DEF Calls
      <3>. QED
        BY <2>3, <3>1, OneMoreRead
    <2>7. call' = [call EXCEPT !.left = call.left \ {n}, !.read = read]
      BY <2>1, <2>2 DEF Calls
    <2> HIDE DEF read
    <2>8. call' \in Calls /\ call'.key \in Keys
      BY <2>1, <2>6, <2>7 DEF Calls
    <2>. QED
      BY <1>8, <2>8 DEF Read, Types
  <1>9. ASSUME Finish  PROVE Cache /\ Call /\ Was /\ Answered /\ Made
    <2>1. call \in Calls /\ call.key \in Keys
      BY <1>9 DEF Finish, Types
    <2> DEFINE e == [key |-> call.key, snapshot |-> call.read,
                     filled |-> IF Undisturbed THEN "undisturbed" ELSE "disturbed"]
    <2>2. e \in Entries
      BY <2>1 DEF Entries, Calls
    <2>3. cache' = Kept(Append(cache, e)) /\ Answer(call.read, "now")
      BY <1>9 DEF Finish
    <2> HIDE DEF e
    <2>4. cache' \in Seq(Entries) /\ Len(cache') <= Capacity
      BY <2>2, <2>3, KeptEntries DEF Types
    <2>5. answer' \in Answers
      BY <2>1, <2>3 DEF Answer, Answers, Calls, Fills
    <2>. QED
      BY <1>9, <2>4, <2>5 DEF Finish, Types
  <1>10. ASSUME Vanished  PROVE Cache /\ Call /\ Was /\ Answered /\ Made
    BY <1>10 DEF Vanished, Types
  <1>11. ASSUME ClearCache  PROVE Cache /\ Call /\ Was /\ Answered /\ Made
    <2>1. <<>> \in Seq(Entries) /\ Len(<<>>) <= Capacity
      BY CacheAssumption
    <2>. QED
      BY <1>11, <2>1 DEF ClearCache, Types
  <1>. QED
    BY <1>4, <1>l, <1>s, <1>h, <1>5, <1>6, <1>7, <1>8, <1>9, <1>10, <1>11 DEF CallStep

LEMMA TypesNext == Types /\ Clock /\ [Next]_vars => Types' /\ Clock'
  <1> SUFFICES ASSUME Types, Clock, [Next]_vars PROVE Types' /\ Clock'
    OBVIOUS
  <1>1. CASE DiskStep
    BY <1>1, DiskStepLater
  <1>2. CASE CallStep
    BY <1>2, CallStepTypes
  <1>3. CASE UNCHANGED vars
    BY <1>3 DEF vars, disk, Types, Clock
  <1>. QED
    BY <1>1, <1>2, <1>3 DEF Next, DiskStep, CallStep

LEMMA TypesImplyTypeOK == Types => TypeOK
  <1> SUFFICES ASSUME Types PROVE TypeOK
    OBVIOUS
  <1>1. \A i \in DOMAIN cache : cache[i] \in Entries
    BY ElementOfSeq DEF Types
  <1>. QED
    BY <1>1 DEF Types, TypeOK, Entries, Calls, Answers, Fills

\* Every variable keeps its type, and no more snapshots than Capacity are kept.
THEOREM TypeCorrect == Spec => []TypeOK
  <1>. QED
    BY TypesInit, TypesNext, TypesImplyTypeOK, PTL DEF Spec

-----------------------------------------------------------------------------
(* What entries and the call under way know.                               *)

\* The records no newer than the key of a snapshot are in it as they are; built
\* undisturbed, it is what the key says.
EntrySound(e) ==
  /\ Newest(e.key) <= writes
  /\ \A n \in DOMAIN records[e.key[1]] :
       records[e.key[1]][n].mtime <= Newest(e.key) =>
         n \in DOMAIN e.snapshot /\ e.snapshot[n] = records[e.key[1]][n].content
  /\ e.filled = "undisturbed" => e.snapshot = HeldAt(e.key)

CacheSound == \A i \in DOMAIN cache : EntrySound(cache[i])

\* The scan of the key: it has stated every record that is as it was, or will; what it
\* found was there; and it finds what there is while no one writes.
Scanning ==
  /\ call.scan.latest <= writes
  /\ call.scanned <= writes
  /\ \A n \in DOMAIN call.start \cap DOMAIN records[call.root] :
       records[call.root][n] = call.start[n] => n \in call.left \/ call.start[n].mtime <= call.scan.latest
  /\ \A n \in DOMAIN call.scan.held : call.scan.held[n] = None \/ <<n, call.scan.held[n]>> \in was
  /\ changed[call.root] = call.scanned =>
       /\ DOMAIN records[call.root] = DOMAIN call.scan.held \cup call.left \cup ({call.opened} \ {None})
       /\ \A n \in DOMAIN call.scan.held : call.scan.held[n] = records[call.root][n].content

\* What is read of a record, if it is not still to be read.
Has(n, content) == n \in call.left \/ (n \in DOMAIN call.read /\ call.read[n] = content)

Scanned ==
  /\ call.key[1] = call.root
  /\ Newest(call.key) <= writes
  /\ call.scanned <= writes
  /\ changed[call.root] = call.scanned => HeldAt(call.key) = Held(records[call.root])

Reading ==
  /\ \A n \in DOMAIN records[call.root] :
       records[call.root][n].mtime <= Newest(call.key) => Has(n, records[call.root][n].content)
  /\ \A n \in DOMAIN call.start \cap DOMAIN records[call.root] :
       records[call.root][n] = call.start[n] => Has(n, call.start[n].content)
  /\ changed[call.root] = call.scanned =>
       /\ DOMAIN records[call.root] = DOMAIN call.read \cup call.left
       /\ \A n \in DOMAIN call.read : call.read[n] = records[call.root][n].content
  /\ \A n \in DOMAIN call.read : <<n, call.read[n]>> \in was

CallSound ==
  call # None =>
    /\ \A n \in DOMAIN call.start : call.start[n].mtime <= writes
    /\ call.at # "read" => DOMAIN call.read = {}
    /\ call.at \in {"start"} => call.scan.latest <= writes /\ DOMAIN call.scan.held = {} /\ call.opened = None
    /\ call.at = "scan" => Scanning
    /\ call.at \in {"list", "read"} => Scanned
    /\ call.at = "read" => Reading

Sound == Types /\ Clock /\ Seen /\ CacheSound /\ CallSound

LEMMA SoundInit == Init => Sound
  <1>1. Init => cache = <<>> /\ DOMAIN cache = {} /\ call = None
    BY DEF Init
  <1>. QED
    BY <1>1, TypesInit DEF Sound, Seen, CacheSound, CallSound

\* Writes of other processes take nothing back.
LEMMA DiskStepSound ==
  ASSUME Sound, DiskStep
  PROVE  Sound'
  <1>1. Types' /\ Clock' /\ Later /\ UNCHANGED <<cache, call, calls, answer>>
    BY DiskStepLater DEF Sound
  <1>w. Seen' /\ was \subseteq was'
    BY DiskStepSeen DEF Sound
  <1>0. /\ writes \in Nat /\ writes' \in Nat /\ writes <= writes'
        /\ \A root \in Roots : changed[root] \in Nat /\ changed'[root] \in Nat
    BY <1>1, CacheAssumption DEF Sound, Types, Later
  <1>m. \A root \in Roots : \A n \in DOMAIN records'[root] : records'[root][n].mtime \in Nat
    <2>1. \A root \in Roots : records'[root] \in Layers
      BY <1>1 DEF Types
    <2>. QED
      BY <2>1, LayerShape, CacheAssumption
  <1>k. ASSUME NEW key \in Keys PROVE key[1] \in Roots /\ Newest(key) \in Nat
    BY CacheAssumption DEF Keys, Newest
  <1>2. CacheSound'
    <2> SUFFICES ASSUME NEW i \in DOMAIN cache PROVE EntrySound(cache[i])'
      BY <1>1 DEF CacheSound
    <2> DEFINE e == cache[i]
               root == e.key[1]
    <2>1. e \in Entries /\ EntrySound(e) /\ e' = e
      BY <1>1, ElementOfSeq DEF Sound, Types, CacheSound
    <2>2. root \in Roots /\ Newest(e.key) \in Nat /\ Newest(e.key) <= writes
      BY <2>1, <1>k DEF Entries, EntrySound
    <2> HIDE DEF e
    <2>3. ASSUME NEW n \in DOMAIN records'[root], records'[root][n].mtime <= Newest(e.key)
          PROVE  n \in DOMAIN e.snapshot /\ e.snapshot[n] = records'[root][n].content
      <3>1. records'[root][n].mtime <= writes
        BY <2>2, <2>3, <1>0, <1>m
      <3>2. n \in DOMAIN records[root] /\ records'[root][n] = records[root][n]
        BY <3>1, <1>1, <2>2 DEF Later
      <3>. QED
        BY <2>1, <2>3, <3>2 DEF EntrySound
    <2>4. Newest(e.key) <= writes'
      BY <2>2, <1>0
    <2>. QED
      BY <2>1, <2>3, <2>4 DEF EntrySound, e
  <1>3. CallSound'
    <2> SUFFICES ASSUME call # None
                 PROVE  /\ \A n \in DOMAIN call.start : call.start[n].mtime <= writes'
                        /\ call.at # "read" => DOMAIN call.read = {}
                        /\ call.at = "start" =>
                             call.scan.latest <= writes' /\ DOMAIN call.scan.held = {} /\ call.opened = None
                        /\ call.at = "scan" => Scanning'
                        /\ call.at \in {"list", "read"} => Scanned'
                        /\ call.at = "read" => Reading'
      BY <1>1 DEF CallSound
    <2> DEFINE root == call.root
    <2>1. call \in Calls /\ root \in Roots /\ call' = call
      BY <1>1 DEF Sound, Types, Calls
    <2>n. call.scan.latest \in Nat /\ call.scanned \in Nat
      BY <2>1, CacheAssumption DEF Calls
    <2>2. \A n \in DOMAIN call.start : call.start[n].mtime \in Nat /\ call.start[n].mtime <= writes
      BY <2>1, LayerShape, CacheAssumption DEF Sound, CallSound, Calls
    <2>3. \A n \in DOMAIN call.start : call.start[n].mtime <= writes'
      BY <2>2, <1>0
    <2>s. ASSUME call.at = "start"
          PROVE  call.scan.latest <= writes' /\ DOMAIN call.scan.held = {} /\ call.opened = None
      BY <2>s, <2>n, <1>0 DEF Sound, CallSound
    <2>u. ASSUME call.scanned <= writes, changed'[root] = call.scanned
          PROVE  changed[root] = call.scanned /\ records'[root] = records[root]
      BY <2>1, <2>u, <1>1 DEF Later
    <2>g. ASSUME NEW n \in DOMAIN call.start \cap DOMAIN records'[root], records'[root][n] = call.start[n]
          PROVE  n \in DOMAIN records[root] /\ records[root][n] = call.start[n]
      BY <2>g, <1>1, <2>1, <2>2 DEF Later
    <2>c. ASSUME call.at = "scan" PROVE Scanning'
      <3>0. Scanning
        BY <2>c DEF Sound, CallSound
      <3>1. call.scan.latest <= writes' /\ call.scanned <= writes' /\ call.scanned <= writes
        BY <3>0, <2>n, <1>0 DEF Scanning
      <3>2. \A n \in DOMAIN call.start \cap DOMAIN records'[root] :
              records'[root][n] = call.start[n] => n \in call.left \/ call.start[n].mtime <= call.scan.latest
        BY <3>0, <2>g DEF Scanning
      <3>3. \A n \in DOMAIN call.scan.held : call.scan.held[n] = None \/ <<n, call.scan.held[n]>> \in was'
        BY <3>0, <1>w DEF Scanning
      <3>4. changed'[root] = call.scanned =>
              /\ DOMAIN records'[root] = DOMAIN call.scan.held \cup call.left \cup ({call.opened} \ {None})
              /\ \A n \in DOMAIN call.scan.held : call.scan.held[n] = records'[root][n].content
        BY <3>0, <3>1, <2>u DEF Scanning
      <3>. QED
        BY <2>1, <3>1, <3>2, <3>3, <3>4 DEF Scanning
    <2>4. ASSUME call.at \in {"list", "read"}
          PROVE  Scanned /\ Newest(call.key) \in Nat /\ Newest(call.key) <= writes /\ call.scanned <= writes
      BY <2>4, <1>k DEF Sound, Types, CallSound, Scanned
    <2>6. ASSUME call.at \in {"list", "read"}  PROVE Scanned'
      <3>1. Newest(call.key) <= writes' /\ call.scanned <= writes'
        BY <2>4, <2>6, <2>n, <1>0
      <3>2. call.key[1] = call.root
        BY <2>4, <2>6 DEF Scanned
      <3>3. changed'[root] = call.scanned => HeldAt(call.key) = Held(records'[root])
        BY <2>4, <2>u, <2>6 DEF Scanned
      <3>. QED
        BY <2>1, <3>1, <3>2, <3>3 DEF Scanned
    <2>7. ASSUME call.at = "read"  PROVE Reading'
      <3>0. call.at \in {"list", "read"} /\ Reading
        BY <2>7 DEF Sound, CallSound
      <3>1. ASSUME NEW n \in DOMAIN records'[root], records'[root][n].mtime <= Newest(call.key)
            PROVE  Has(n, records'[root][n].content)
        <4>1. records'[root][n].mtime <= writes
          BY <3>0, <3>1, <2>1, <2>4, <1>0, <1>m
        <4>2. n \in DOMAIN records[root] /\ records'[root][n] = records[root][n]
          BY <4>1, <1>1, <2>1 DEF Later
        <4>. QED
          BY <3>0, <3>1, <4>2 DEF Reading
      <3>2. ASSUME NEW n \in DOMAIN call.start \cap DOMAIN records'[root], records'[root][n] = call.start[n]
            PROVE  Has(n, call.start[n].content)
        BY <3>0, <3>2, <2>g DEF Reading
      <3>3. ASSUME changed'[root] = call.scanned
            PROVE  /\ DOMAIN records'[root] = DOMAIN call.read \cup call.left
                   /\ \A n \in DOMAIN call.read : call.read[n] = records'[root][n].content
        BY <3>0, <3>3, <2>4, <2>u DEF Reading
      <3>4. \A n \in DOMAIN call.read : <<n, call.read[n]>> \in was'
        BY <3>0, <1>w DEF Reading
      <3>. QED
        BY <2>1, <3>1, <3>2, <3>3, <3>4 DEF Reading, Has
    <2>8. call.at # "read" => DOMAIN call.read = {}
      BY DEF Sound, CallSound
    <2>. QED
      BY <2>3, <2>s, <2>c, <2>6, <2>7, <2>8
  <1>. QED
    BY <1>1, <1>w, <1>2, <1>3 DEF Sound

\* An entry sound before stays so while the workspaces stay as they are.
LEMMA CacheStays ==
  ASSUME CacheSound, UNCHANGED disk,
         \A j \in DOMAIN cache' : EntrySound(cache'[j]) \/ \E k \in DOMAIN cache : cache'[j] = cache[k]
  PROVE  CacheSound'
  <1>1. records' = records /\ writes' = writes
    BY DEF disk
  <1>2. \A j \in DOMAIN cache' : EntrySound(cache'[j])
    BY DEF CacheSound
  <1>. QED
    BY <1>1, <1>2 DEF CacheSound, EntrySound

LEMMA ListLayerSound ==
  ASSUME Sound, ListLayer
  PROVE  CallSound' /\ Seen'
  <1>1. call # None /\ call \in Calls /\ call.at = "start" /\ call.root \in Roots
    BY DEF ListLayer, Sound, Types, Calls
  <1>2. records' = records /\ changed' = changed /\ writes' = writes /\ was' = was
    BY DEF ListLayer, disk
  <1>3. /\ call'.at = "scan" /\ call'.left = DOMAIN records[call.root] /\ call'.scan = call.scan
        /\ call'.scanned = changed[call.root] /\ call'.root = call.root /\ call'.start = call.start
        /\ call'.read = call.read /\ call'.opened = call.opened
    BY <1>1 DEF ListLayer, Calls
  <1>4. /\ DOMAIN call.read = {} /\ call.scan.latest <= writes /\ DOMAIN call.scan.held = {} /\ call.opened = None
        /\ \A n \in DOMAIN call.start : call.start[n].mtime <= writes
    BY <1>1 DEF Sound, CallSound
  <1>5. changed[call.root] <= writes
    BY <1>1 DEF Sound, Clock
  <1>6. Scanning'
    BY <1>2, <1>3, <1>4, <1>5 DEF Scanning
  <1>7. Seen'
    BY <1>1, <1>2, <1>3 DEF Sound, Seen
  <1>. QED
    BY <1>2, <1>3, <1>4, <1>6, <1>7 DEF CallSound

LEMMA StatSound ==
  ASSUME Sound, Stat
  PROVE  CallSound' /\ Seen'
  <1>1. call # None /\ call \in Calls /\ call.at = "scan" /\ call.opened = None /\ call.root \in Roots
    BY StatStep DEF Sound, Calls
  <1>2. records' = records /\ changed' = changed /\ writes' = writes /\ was' = was
    BY DEF Stat, disk
  <1>3. Scanning /\ DOMAIN call.read = {} /\ \A n \in DOMAIN call.start : call.start[n].mtime <= writes
    BY <1>1 DEF Sound, CallSound
  <1>t. /\ writes \in Nat /\ call.scan.latest \in Nat
        /\ \A n \in DOMAIN call.start : call.start[n].mtime \in Nat
        /\ \A n \in DOMAIN records[call.root] : records[call.root][n].mtime \in Nat
    BY <1>1, LayerShape, CacheAssumption DEF Sound, Types, Calls
  <1>4. PICK n \in call.left :
              \/ n \in DOMAIN records[call.root] /\ call' = Stated(n)
              \/ n \notin DOMAIN records[call.root] /\ call' = [call EXCEPT !.left = call.left \ {n}]
    BY StatStep DEF Sound
  <1>5. CASE n \in DOMAIN records[call.root] /\ call' = Stated(n)
    <2> DEFINE latest == Max({call.scan.latest, records[call.root][n].mtime})
    <2>1. /\ call'.at = "scan" /\ call'.left = call.left \ {n} /\ call'.opened = n
          /\ call'.scan.latest = latest /\ call'.scan.held = call.scan.held
          /\ call'.scanned = call.scanned /\ call'.root = call.root /\ call'.start = call.start
          /\ call'.read = call.read
      BY <1>1, <1>5 DEF Stated, Calls
    <2>2. records[call.root][n].mtime \in 0..writes /\ call.scan.latest \in 0..writes
      BY <1>1, <1>3, <1>t, <1>5 DEF Sound, Clock, Scanning
    <2>3. latest \in 0..writes /\ call.scan.latest <= latest /\ records[call.root][n].mtime <= latest
      BY <2>2, <1>t, MaxOfTwo
    <2> HIDE DEF latest
    <2>4. ASSUME NEW m \in DOMAIN call.start \cap DOMAIN records[call.root], records[call.root][m] = call.start[m]
          PROVE  m \in call.left \ {n} \/ call.start[m].mtime <= latest
      <3>1. m \in call.left \/ call.start[m].mtime <= call.scan.latest
        BY <1>3, <2>4 DEF Scanning
      <3>2. m = n => call.start[m].mtime <= latest
        BY <2>3, <2>4
      <3>3. call.start[m].mtime <= call.scan.latest => call.start[m].mtime <= latest
        BY <1>t, <2>3
      <3>. QED
        BY <3>1, <3>2, <3>3
    <2>5. changed[call.root] = call.scanned =>
             DOMAIN records[call.root] = DOMAIN call.scan.held \cup (call.left \ {n}) \cup ({n} \ {None})
      <3>1. n \in Names /\ None \notin Names
        BY <1>1, CacheAssumption DEF Calls
      <3>. QED
        BY <1>1, <1>3, <3>1 DEF Scanning
    <2>6. Scanning'
      BY <1>2, <1>3, <2>1, <2>3, <2>4, <2>5 DEF Scanning
    <2>7. Seen'
      BY <1>1, <1>2, <2>1 DEF Sound, Seen
    <2>. QED
      BY <1>2, <1>3, <2>1, <2>6, <2>7 DEF CallSound
  <1>6. CASE n \notin DOMAIN records[call.root] /\ call' = [call EXCEPT !.left = call.left \ {n}]
    <2>1. /\ call'.at = "scan" /\ call'.left = call.left \ {n} /\ call'.opened = None
          /\ call'.scan = call.scan
          /\ call'.scanned = call.scanned /\ call'.root = call.root /\ call'.start = call.start
          /\ call'.read = call.read
      BY <1>1, <1>6 DEF Calls
    <2>2. changed[call.root] # call.scanned
      BY <1>3, <1>6 DEF Scanning
    <2>3. Scanning'
      BY <1>2, <1>3, <1>6, <2>1, <2>2 DEF Scanning
    <2>7. Seen'
      BY <1>1, <1>2, <2>1 DEF Sound, Seen
    <2>. QED
      BY <1>2, <1>3, <2>1, <2>3, <2>7 DEF CallSound
  <1>. QED
    BY <1>4, <1>5, <1>6

LEMMA HashSound ==
  ASSUME Sound, Hash
  PROVE  CallSound' /\ Seen'
  <1>1. call # None /\ call \in Calls /\ call.at = "scan" /\ call.opened \in Names /\ call.root \in Roots
    BY HashStep DEF Sound, Calls
  <1>2. records' = records /\ changed' = changed /\ writes' = writes /\ was' = was
    BY DEF Hash, disk
  <1>3. Scanning /\ DOMAIN call.read = {} /\ \A n \in DOMAIN call.start : call.start[n].mtime <= writes
    BY <1>1 DEF Sound, CallSound
  <1>n. call.opened # None
    BY <1>1, CacheAssumption
  <1>4. ASSUME NEW content, call' = Hashed(content),
               content = None \/ <<call.opened, content>> \in was,
               changed[call.root] = call.scanned => content = records[call.root][call.opened].content
        PROVE  CallSound' /\ Seen'
    <2> DEFINE held == [m \in DOMAIN call.scan.held \cup {call.opened} |->
                              IF m = call.opened THEN content ELSE call.scan.held[m]]
    <2>1. /\ call'.at = "scan" /\ call'.left = call.left /\ call'.opened = None
          /\ call'.scan.latest = call.scan.latest /\ call'.scan.held = held
          /\ call'.scanned = call.scanned /\ call'.root = call.root /\ call'.start = call.start
          /\ call'.read = call.read
      BY <1>1, <1>4 DEF Hashed, Calls
    <2>2. /\ DOMAIN held = DOMAIN call.scan.held \cup {call.opened} /\ held[call.opened] = content
          /\ \A m \in DOMAIN call.scan.held \ {call.opened} : held[m] = call.scan.held[m]
      OBVIOUS
    <2> HIDE DEF held
    <2>3. \A m \in DOMAIN held : held[m] = None \/ <<m, held[m]>> \in was
      BY <1>3, <1>4, <2>2 DEF Scanning
    <2>4. changed[call.root] = call.scanned =>
            /\ DOMAIN records[call.root] = DOMAIN held \cup call.left
            /\ \A m \in DOMAIN held : held[m] = records[call.root][m].content
      BY <1>3, <1>4, <1>n, <2>2 DEF Scanning
    <2>5. Scanning'
      BY <1>2, <1>3, <2>1, <2>3, <2>4 DEF Scanning
    <2>7. Seen'
      BY <1>1, <1>2, <2>1 DEF Sound, Seen
    <2>. QED
      BY <1>2, <1>3, <2>1, <2>5, <2>7 DEF CallSound
  <1>5. CASE call.opened \in DOMAIN records[call.root] /\ call' = Hashed(records[call.root][call.opened].content)
    <2>1. <<call.opened, records[call.root][call.opened].content>> \in was
      BY <1>1, <1>5 DEF Sound, Seen
    <2>. QED
      BY <1>4, <1>5, <2>1
  <1>6. CASE call.opened \notin DOMAIN records[call.root]
             /\ (call' = [call EXCEPT !.opened = None] \/ call' = Hashed(None))
    <2>1. changed[call.root] # call.scanned
      BY <1>3, <1>6, <1>n DEF Scanning
    <2>2. CASE call' = Hashed(None)
      BY <1>4, <2>1, <2>2
    <2>3. CASE call' = [call EXCEPT !.opened = None]
      <3>1. /\ call'.at = "scan" /\ call'.left = call.left /\ call'.opened = None
            /\ call'.scan = call.scan
            /\ call'.scanned = call.scanned /\ call'.root = call.root /\ call'.start = call.start
            /\ call'.read = call.read
        BY <1>1, <2>3 DEF Calls
      <3>2. Scanning'
        BY <1>2, <1>3, <2>1, <3>1 DEF Scanning
      <3>3. Seen'
        BY <1>1, <1>2, <3>1 DEF Sound, Seen
      <3>. QED
        BY <1>2, <1>3, <3>1, <3>2, <3>3 DEF CallSound
    <2>. QED
      BY <1>6, <2>2, <2>3
  <1>. QED
    BY HashStep, <1>5, <1>6 DEF Sound

\* What a finished scan found, while no one writes.
LEMMA FoundAll ==
  ASSUME Sound, Looking, changed[call.root] = call.scanned
  PROVE  call.scan.held = Held(records[call.root])
  <1>1. /\ DOMAIN records[call.root] = DOMAIN call.scan.held
        /\ \A n \in DOMAIN call.scan.held : call.scan.held[n] = records[call.root][n].content
    BY DEF Looking, Sound, CallSound, Scanning
  <1>2. PICK S \in SUBSET Names : call.scan.held \in [S -> Contents \cup {None}]
    BY DEF Looking, Sound, Types, Calls, Founds
  <1>. QED
    BY <1>1, <1>2 DEF Held

LEMMA MissSound ==
  ASSUME Sound, Miss
  PROVE  CallSound' /\ Seen'
  <1>1. call # None /\ call \in Calls /\ call.at = "scan" /\ call.root \in Roots /\ Looking
    BY DEF Miss, Looking, Sound, Types, Calls
  <1>2. records' = records /\ changed' = changed /\ writes' = writes /\ was' = was
    BY DEF Miss, disk
  <1> DEFINE key == SnapshotKey(call.root, call.scan)
  <1>3. /\ call'.at = "list" /\ call'.key = key /\ call'.scanned = call.scanned
        /\ call'.root = call.root /\ call'.start = call.start /\ call'.read = call.read
    BY <1>1 DEF Miss, Calls
  <1>4. key[1] = call.root /\ HeldAt(key) = call.scan.held /\ Newest(key) = call.scan.latest
    BY <1>1, KeyShape DEF Sound
  <1> HIDE DEF key
  <1>5. call.scan.latest <= writes /\ call.scanned <= writes
    BY <1>1 DEF Sound, CallSound, Scanning
  <1>6. changed[call.root] = call.scanned => HeldAt(key) = Held(records[call.root])
    BY <1>1, <1>4, FoundAll
  <1>7. Scanned'
    BY <1>2, <1>3, <1>4, <1>5, <1>6 DEF Scanned
  <1>8. (\A n \in DOMAIN call.start : call.start[n].mtime <= writes) /\ DOMAIN call.read = {}
    BY <1>1 DEF Sound, CallSound
  <1>9. Seen'
    BY <1>1, <1>2, <1>3 DEF Sound, Seen
  <1>. QED
    BY <1>2, <1>3, <1>7, <1>8, <1>9 DEF CallSound

LEMMA ListSound ==
  ASSUME Sound, List
  PROVE  CallSound' /\ Seen'
  <1>1. call # None /\ call \in Calls /\ call.at = "list"
    BY DEF List, Sound, Types
  <1>2. records' = records /\ changed' = changed /\ writes' = writes /\ was' = was
    BY DEF List, disk
  <1>3. /\ call'.at = "read" /\ call'.left = DOMAIN records[call.root] /\ call'.key = call.key
        /\ call'.scanned = call.scanned /\ call'.root = call.root /\ call'.start = call.start
        /\ call'.read = call.read
    BY <1>1 DEF List, Calls
  <1>4. Scanned /\ DOMAIN call.read = {} /\ \A n \in DOMAIN call.start : call.start[n].mtime <= writes
    BY <1>1 DEF Sound, CallSound
  <1>5. Scanned'
    BY <1>2, <1>3, <1>4 DEF Scanned
  <1>6. Reading'
    BY <1>2, <1>3, <1>4 DEF Reading, Has
  <1>9. Seen'
    BY <1>1, <1>2, <1>3 DEF Sound, Seen
  <1>. QED
    BY <1>2, <1>3, <1>4, <1>5, <1>6, <1>9 DEF CallSound

LEMMA ReadSound ==
  ASSUME Sound, Read
  PROVE  CallSound' /\ Seen'
  <1>1. call # None /\ call \in Calls /\ call.at = "read"
    BY DEF Read, Sound, Types
  <1>2. records' = records /\ changed' = changed /\ writes' = writes /\ was' = was
    BY DEF Read, disk
  <1>3. PICK n \in call.left \cap DOMAIN records[call.root] :
          call' = [call EXCEPT !.left = @ \ {n},
                     !.read = [m \in DOMAIN @ \cup {n} |->
                                 IF m = n THEN records[call.root][n].content ELSE @[m]]]
    BY DEF Read
  <1> DEFINE content == records[call.root][n].content
             read == [m \in DOMAIN call.read \cup {n} |-> IF m = n THEN content ELSE call.read[m]]
  <1>4. /\ call'.at = "read" /\ call'.left = call.left \ {n} /\ call'.key = call.key
        /\ call'.scanned = call.scanned /\ call'.root = call.root /\ call'.start = call.start
        /\ call'.read = read
    BY <1>1, <1>3 DEF Calls
  <1>5. Scanned /\ Reading /\ \A m \in DOMAIN call.start : call.start[m].mtime <= writes
    BY <1>1 DEF Sound, CallSound
  <1>6. Scanned'
    BY <1>2, <1>4, <1>5 DEF Scanned
  <1>7. /\ DOMAIN read = DOMAIN call.read \cup {n} /\ read[n] = content
        /\ \A m \in DOMAIN call.read \ {n} : read[m] = call.read[m]
    OBVIOUS
  <1>w. <<n, content>> \in was
    BY <1>1, <1>3 DEF Sound, Seen
  <1> HIDE DEF read
  <1>8. ASSUME NEW m \in DOMAIN records[call.root], Has(m, records[call.root][m].content)
        PROVE  m \in call.left \ {n} \/ (m \in DOMAIN read /\ read[m] = records[call.root][m].content)
    BY <1>7, <1>8 DEF Has
  <1>9. Reading'
    <2>1. \A m \in DOMAIN records[call.root] :
            records[call.root][m].mtime <= Newest(call.key) =>
              m \in call.left \ {n} \/ (m \in DOMAIN read /\ read[m] = records[call.root][m].content)
      BY <1>5, <1>8 DEF Reading
    <2>2. \A m \in DOMAIN call.start \cap DOMAIN records[call.root] :
            records[call.root][m] = call.start[m] =>
              m \in call.left \ {n} \/ (m \in DOMAIN read /\ read[m] = call.start[m].content)
      <3> SUFFICES ASSUME NEW m \in DOMAIN call.start \cap DOMAIN records[call.root],
                          records[call.root][m] = call.start[m]
                   PROVE  m \in call.left \ {n} \/ (m \in DOMAIN read /\ read[m] = call.start[m].content)
        OBVIOUS
      <3>1. Has(m, records[call.root][m].content)
        BY <1>5 DEF Reading
      <3>. QED
        BY <3>1, <1>8
    <2>3. changed[call.root] = call.scanned =>
            /\ DOMAIN records[call.root] = DOMAIN read \cup (call.left \ {n})
            /\ \A m \in DOMAIN read : read[m] = records[call.root][m].content
      BY <1>3, <1>5, <1>7 DEF Reading
    <2>4. \A m \in DOMAIN read : <<m, read[m]>> \in was
      BY <1>5, <1>7, <1>w DEF Reading
    <2>. QED
      BY <1>2, <1>4, <2>1, <2>2, <2>3, <2>4 DEF Reading, Has
  <1>10. Seen'
    BY <1>1, <1>2, <1>4 DEF Sound, Seen
  <1>. QED
    BY <1>2, <1>4, <1>5, <1>6, <1>9, <1>10 DEF CallSound

\* The entry a filling leaves is sound.
LEMMA FilledSound ==
  ASSUME Sound, Finish
  PROVE  EntrySound([key |-> call.key, snapshot |-> call.read,
                     filled |-> IF Undisturbed THEN "undisturbed" ELSE "disturbed"])
  <1>1. call # None /\ call \in Calls /\ call.at = "read" /\ call.left = {}
    BY DEF Finish, Sound, Types
  <1>2. Scanned /\ Reading
    BY <1>1 DEF Sound, CallSound
  <1>3. ASSUME Undisturbed
        PROVE  call.read = Held(records[call.root])
    <2>1. /\ DOMAIN records[call.root] = DOMAIN call.read
          /\ \A n \in DOMAIN call.read : call.read[n] = records[call.root][n].content
      BY <1>1, <1>2, <1>3 DEF Reading, Undisturbed
    <2>2. PICK S \in SUBSET Names : call.read \in [S -> Contents]
      BY <1>1 DEF Calls, Snapshots
    <2>. QED
      BY <2>1, <2>2 DEF Held
  <1>4. Undisturbed => call.read = HeldAt(call.key)
    BY <1>2, <1>3 DEF Scanned, Undisturbed
  <1>. QED
    BY <1>1, <1>2, <1>3, <1>4 DEF EntrySound, Scanned, Reading, Has

LEMMA CallStepSound ==
  ASSUME Sound, CallStep
  PROVE  Sound'
  <1>1. Types' /\ Clock' /\ UNCHANGED disk
    BY CallStepTypes DEF Sound
  <1>2. CASE \E root \in Roots : Begin(root)
    <2>1. PICK root \in Roots : Begin(root)
      BY <1>2
    <2>2. /\ cache' = cache /\ call'.at = "start" /\ call'.start = records[root] /\ call'.read = <<>>
          /\ call'.root = root /\ call'.scan = NoScan /\ call'.opened = None
          /\ was' = {<<n, records[root][n].content>> : n \in DOMAIN records[root]}
      BY <2>1 DEF Begin
    <2>3. CacheSound'
      BY <2>2, <1>1, CacheStays DEF Sound
    <2>4. \A n \in DOMAIN records[root] : records[root][n].mtime <= writes
      BY DEF Sound, Clock
    <2>5. writes' = writes /\ records' = records
      BY <1>1 DEF disk
    <2>6. DOMAIN call'.read = {} /\ call'.scan.latest <= writes /\ DOMAIN call'.scan.held = {}
      <3>1. writes \in Nat
        BY CacheAssumption DEF Sound, Types
      <3>. QED
        BY <2>2, <3>1 DEF NoScan
    <2>7. CallSound'
      BY <2>2, <2>4, <2>5, <2>6 DEF CallSound
    <2>8. Seen'
      BY <2>2, <2>5 DEF Seen
    <2>. QED
      BY <1>1, <2>3, <2>7, <2>8 DEF Sound
  <1>3. CASE ListLayer \/ Stat \/ Hash \/ Miss \/ List \/ Read
    <2>1. cache' = cache
      BY <1>3 DEF ListLayer, Stat, Hash, Miss, List, Read
    <2>2. CacheSound'
      BY <2>1, <1>1, CacheStays DEF Sound
    <2>. QED
      BY <1>1, <1>3, <2>2, ListLayerSound, StatSound, HashSound, MissSound, ListSound, ReadSound DEF Sound
  <1>4. CASE Hit
    <2>1. PICK i \in Positions(SnapshotKey(call.root, call.scan)) :
            cache' = Moved(cache, i)
      BY <1>4 DEF Hit, Moved
    <2>2. i \in DOMAIN cache /\ cache \in Seq(Entries)
      BY DEF Positions, Sound, Types
    <2>3. \A j \in DOMAIN cache' : \E k \in DOMAIN cache : cache'[j] = cache[k]
      BY <2>1, <2>2, MovedToEnd
    <2>4. CacheSound'
      BY <2>3, <1>1, CacheStays DEF Sound
    <2>. QED
      BY <1>1, <1>4, <2>4 DEF Hit, Sound, CallSound, Seen
  <1>5. CASE Finish
    <2> DEFINE e == [key |-> call.key, snapshot |-> call.read,
                     filled |-> IF Undisturbed THEN "undisturbed" ELSE "disturbed"]
    <2>1. EntrySound(e)
      BY <1>5, FilledSound
    <2>2. e \in Entries
      BY <1>5 DEF Finish, Sound, Types, Calls, Entries
    <2>3. cache' = Kept(Append(cache, e)) /\ call' = None
      BY <1>5 DEF Finish
    <2> HIDE DEF e
    <2>4. \A j \in DOMAIN cache' : cache'[j] = e \/ \E k \in DOMAIN cache : cache'[j] = cache[k]
      BY <2>2, <2>3, KeptEntries DEF Sound, Types
    <2>5. CacheSound'
      BY <2>1, <2>4, <1>1, CacheStays DEF Sound
    <2>. QED
      BY <1>1, <2>3, <2>5 DEF Sound, CallSound, Seen
  <1>6. CASE Vanished \/ ClearCache
    <2>1. call' = None /\ (cache' = cache \/ cache' = <<>>)
      BY <1>6 DEF Vanished, ClearCache
    <2>2. CASE cache' = cache
      BY <2>1, <2>2, <1>1, CacheStays DEF Sound, CallSound, Seen
    <2>3. CASE cache' = <<>>
      <3>1. DOMAIN cache' = {}
        BY <2>3
      <3>2. CacheSound'
        BY <3>1 DEF CacheSound
      <3>. QED
        BY <1>1, <2>1, <3>2 DEF Sound, CallSound, Seen
    <2>. QED
      BY <2>1, <2>2, <2>3
  <1>. QED
    BY <1>2, <1>3, <1>4, <1>5, <1>6 DEF CallStep

LEMMA SoundNext == Sound /\ [Next]_vars => Sound'
  <1> SUFFICES ASSUME Sound, [Next]_vars PROVE Sound'
    OBVIOUS
  <1>1. CASE UNCHANGED vars
    BY <1>1 DEF vars, disk, Sound, Types, Clock, Seen, CacheSound, EntrySound, CallSound, Scanning,
                Scanned, Reading, Has
  <1>. QED
    BY <1>1, DiskStepSound, CallStepSound DEF Next, DiskStep, CallStep

-----------------------------------------------------------------------------
(* What a call answers.                                                    *)

\* The only steps that answer are a hit and the end of a filling.
LEMMA Answering ==
  ASSUME Sound, [Next]_vars, answer' # None, answer' # answer
  PROVE  (Hit \/ Finish) /\ records' = records
  <1>1. ~DiskStep
    BY DiskStepLater DEF Sound
  <1>2. ASSUME CallStep PROVE Hit \/ Finish
    BY <1>2 DEF CallStep, Begin, ListLayer, Stat, Hash, Miss, List, Read, Vanished, ClearCache
  <1>3. CallStep
    BY <1>1 DEF Next, DiskStep, CallStep, vars
  <1>. QED
    BY <1>2, <1>3, CallStepTypes DEF Sound, disk

\* What a hit answers: an entry filed under the key of the call's scan.
LEMMA HitAnswers ==
  ASSUME Sound, Hit
  PROVE  \E i \in DOMAIN cache :
           /\ EntrySound(cache[i]) /\ cache[i] \in Entries
           /\ cache[i].key[1] = call.root /\ Newest(cache[i].key) = call.scan.latest
           /\ HeldAt(cache[i].key) = call.scan.held
           /\ answer'.root = call.root /\ answer'.start = call.start
           /\ answer'.given = cache[i].snapshot /\ answer'.filled = cache[i].filled
  <1> DEFINE key == SnapshotKey(call.root, call.scan)
  <1>1. call # None
    BY DEF Hit, Looking
  <1>2. PICK i \in Positions(key) : Answer(cache[i].snapshot, cache[i].filled)
    BY DEF Hit
  <1>3. i \in DOMAIN cache /\ cache[i].key = key /\ EntrySound(cache[i]) /\ cache[i] \in Entries
    BY ElementOfSeq DEF Positions, Sound, CacheSound, Types
  <1>4. key[1] = call.root /\ HeldAt(key) = call.scan.held /\ Newest(key) = call.scan.latest
    BY <1>1, KeyShape DEF Sound
  <1>5. /\ answer'.root = call.root /\ answer'.start = call.start
        /\ answer'.given = cache[i].snapshot /\ answer'.filled = cache[i].filled
    BY <1>2 DEF Answer
  <1> HIDE DEF key
  <1>. QED
    BY <1>3, <1>4, <1>5

\* A query never misses what was there when it began and no one touched, whether its
\* snapshot was built, cached, or cached by a call that others disturbed.
THEOREM NothingMissed == Spec => NoRecordIsMissed
  <1> DEFINE Misses ==
        answer' # None /\ answer' # answer =>
          \A n \in DOMAIN answer'.start \cap DOMAIN records'[answer'.root] :
            records'[answer'.root][n] = answer'.start[n] =>
              n \in DOMAIN answer'.given /\ answer'.given[n] = answer'.start[n].content
  <1>1. Sound /\ [Next]_vars => Misses
    <2> SUFFICES ASSUME Sound, [Next]_vars, answer' # None, answer' # answer,
                        NEW n \in DOMAIN answer'.start \cap DOMAIN records'[answer'.root],
                        records'[answer'.root][n] = answer'.start[n]
                 PROVE  n \in DOMAIN answer'.given /\ answer'.given[n] = answer'.start[n].content
      OBVIOUS
    <2>1. (Hit \/ Finish) /\ records' = records
      BY Answering
    <2>2. CASE Hit
      <3>1. PICK i \in DOMAIN cache :
           /\ EntrySound(cache[i]) /\ cache[i] \in Entries
           /\ cache[i].key[1] = call.root /\ Newest(cache[i].key) = call.scan.latest
           /\ HeldAt(cache[i].key) = call.scan.held
           /\ answer'.root = call.root /\ answer'.start = call.start
           /\ answer'.given = cache[i].snapshot /\ answer'.filled = cache[i].filled
        BY <2>2, HitAnswers
      <3>2. call # None /\ call.at = "scan" /\ call.left = {} /\ Scanning
        BY <2>2 DEF Hit, Looking, Sound, CallSound
      <3>3. call.start[n].mtime <= call.scan.latest
        BY <2>1, <3>1, <3>2 DEF Scanning
      <3>4. n \in DOMAIN records[call.root] /\ records[call.root][n] = call.start[n]
        BY <2>1, <3>1
      <3>. QED
        BY <3>1, <3>3, <3>4 DEF EntrySound
    <2>3. CASE Finish
      <3>1. /\ call # None /\ call.at = "read" /\ call.left = {}
            /\ answer'.root = call.root /\ answer'.start = call.start /\ answer'.given = call.read
        BY <2>3 DEF Finish, Answer
      <3>2. Reading
        BY <3>1 DEF Sound, CallSound
      <3>. QED
        BY <2>1, <3>1, <3>2 DEF Reading, Has
    <2>. QED
      BY <2>1, <2>2, <2>3
  <1>2. Sound /\ [Next]_vars => [Misses]_vars
    BY <1>1
  <1> HIDE DEF Misses
  <1>3. Spec => [][Misses]_vars
    BY <1>2, SoundInit, SoundNext, PTL DEF Spec
  <1>. QED
    BY <1>3 DEF NoRecordIsMissed, Misses

\* Whatever is answered was on disk while the call ran, in spite of the steps between its
\* scan, its lookup and its reading, unless the building of its snapshot was disturbed.
THEOREM AnswersAreOfTheDisk == Spec => AnswersWereOnDisk
  <1> DEFINE There ==
        answer' # None /\ answer' # answer /\ answer'.filled # "disturbed" =>
          \A n \in DOMAIN answer'.given : <<n, answer'.given[n]>> \in was
  <1>1. Sound /\ [Next]_vars => There
    <2> SUFFICES ASSUME Sound, [Next]_vars, answer' # None, answer' # answer,
                        answer'.filled # "disturbed", NEW n \in DOMAIN answer'.given
                 PROVE  <<n, answer'.given[n]>> \in was
      OBVIOUS
    <2>1. Hit \/ Finish
      BY Answering
    <2>2. CASE Hit
      <3>1. PICK i \in DOMAIN cache :
           /\ EntrySound(cache[i]) /\ cache[i] \in Entries
           /\ cache[i].key[1] = call.root /\ Newest(cache[i].key) = call.scan.latest
           /\ HeldAt(cache[i].key) = call.scan.held
           /\ answer'.root = call.root /\ answer'.start = call.start
           /\ answer'.given = cache[i].snapshot /\ answer'.filled = cache[i].filled
        BY <2>2, HitAnswers
      <3>2. answer'.given = call.scan.held /\ answer'.given \in Snapshots
        BY <3>1 DEF EntrySound, Entries
      <3>3. answer'.given[n] # None
        BY <3>2, CacheAssumption DEF Snapshots
      <3>4. Scanning
        BY <2>2 DEF Hit, Looking, Sound, CallSound
      <3>. QED
        BY <3>2, <3>3, <3>4 DEF Scanning
    <2>3. CASE Finish
      <3>1. call # None /\ call.at = "read" /\ answer'.given = call.read
        BY <2>3 DEF Finish, Answer
      <3>. QED
        BY <3>1 DEF Sound, CallSound, Reading
    <2>. QED
      BY <2>1, <2>2, <2>3
  <1>2. Sound /\ [Next]_vars => [There]_vars
    BY <1>1
  <1> HIDE DEF There
  <1>3. Spec => [][There]_vars
    BY <1>2, SoundInit, SoundNext, PTL DEF Spec
  <1>. QED
    BY <1>3 DEF AnswersWereOnDisk, There
=============================================================================
