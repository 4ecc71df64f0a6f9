--------------------------- MODULE RetrievalCache ---------------------------
(***************************************************************************)
(* The snapshot cache of a process that queries workspaces (search.cache), *)
(* while other processes ingest, prune and rebuild them.                   *)
(*                                                                         *)
(* A call checks the tokenizer in the manifest and scans the layers, file  *)
(* by file, for the key; on a miss it reads the records again, file by     *)
(* file, to build the snapshot it stores under that key.  Pages are built  *)
(* from the records in memory, so a snapshot is what it read of the        *)
(* records.  Directories and their times are left out.                     *)
(***************************************************************************)
EXTENDS Naturals, Sequences, FiniteSetsExt

CONSTANTS
  Roots,     \* workspaces
  Names,     \* normalized records
  Contents,  \* what a record may hold
  Installed, \* tokenizer of this process
  Other,     \* tokenizer of another version
  None,      \* no call, no manifest, no answer, no content
  Capacity,  \* snapshots kept (8 in the code)
  MaxWrites, \* bound: writes of other processes
  MaxCalls   \* bound: calls of this process

ASSUME CacheAssumption ==
  /\ Capacity \in Nat \ {0} /\ MaxWrites \in Nat /\ MaxCalls \in Nat
  /\ Installed # Other /\ None \notin Roots \cup Names \cup Contents \cup {Installed, Other}

VARIABLES
  records,  \* normalized/ of each root: name -> content and mtime
  changed,  \* root -> the write that last changed its records
  compiled, \* mtime of each root's compiled/
  manifest, \* tokenizer named in each root's manifest, or None
  writes,   \* writes so far, also the clock of the file system
  cache,    \* snapshots by key, the least recently used first
  call,     \* the call in progress
  was,      \* history: what its records have held since it began
  calls,    \* calls so far
  answer    \* what the last call returned

disk == <<records, changed, compiled, manifest, writes>>
vars == <<disk, cache, call, was, calls, answer>>

-----------------------------------------------------------------------------
(* Other processes.                                                        *)

Write == writes < MaxWrites /\ writes' = writes + 1

Store(root, name, content) ==
  /\ Write
  /\ records' = [records EXCEPT ![root] =
                   [n \in DOMAIN @ \cup {name} |->
                      IF n = name THEN [content |-> content, mtime |-> writes'] ELSE @[n]]]
  /\ changed' = [changed EXCEPT ![root] = writes']
  /\ was' = IF call # None /\ call.root = root THEN was \cup {<<name, content>>} ELSE was
  /\ UNCHANGED <<compiled, manifest, cache, call, calls, answer>>

Prune(root, name) ==
  /\ Write
  /\ name \in DOMAIN records[root]
  /\ records' = [records EXCEPT ![root] = [n \in DOMAIN @ \ {name} |-> @[n]]]
  /\ changed' = [changed EXCEPT ![root] = writes']
  /\ UNCHANGED <<compiled, manifest, cache, call, was, calls, answer>>

Rebuild(root, tokenizer) ==
  /\ Write
  /\ compiled' = [compiled EXCEPT ![root] = writes']
  /\ manifest' = [manifest EXCEPT ![root] = tokenizer]
  /\ UNCHANGED <<records, changed, cache, call, was, calls, answer>>

-----------------------------------------------------------------------------
(* The key of a call.                                                      *)

NoScan == [latest |-> 0, held |-> <<>>]

\* Of the records: newest mtime, number of files, hash of their names and contents.
LayerKey(scan) == <<scan.latest, Cardinality(DOMAIN scan.held), scan.held>>

\* Mutant: the newest file tells whether anything changed.
KeyOfNewestFile(root, scan) == <<root, LayerKey(scan)[1], compiled[root]>>

\* Mutant: the workspace is left out.
KeyWithoutRoot(root, scan) == <<LayerKey(scan), compiled[root]>>

\* snapshot_cache_key; the tokenizer and the formats are those of the process.
SnapshotKey(root, scan) == <<root, LayerKey(scan), compiled[root]>>

\* _validate_runtime_manifest_retrieval_identity raises for another tokenizer.
Begin(root) ==
  /\ call = None /\ calls < MaxCalls
  /\ manifest[root] \in {None, Installed}
  /\ call' = [at |-> "start", root |-> root, start |-> records[root], scan |-> NoScan, opened |-> None,
              key |-> None, scanned |-> 0, left |-> {}, read |-> <<>>]
  /\ was' = {<<n, records[root][n].content>> : n \in DOMAIN records[root]}
  /\ calls' = calls + 1 /\ answer' = None
  /\ UNCHANGED <<disk, cache>>

\* current_layer_identity lists the files, then stats and hashes them one by one.
ListLayer ==
  /\ call # None /\ call.at = "start"
  /\ call' = [call EXCEPT !.at = "scan", !.left = DOMAIN records[call.root], !.scanned = changed[call.root]]
  /\ UNCHANGED <<disk, cache, was, calls, answer>>

\* A file that is gone is skipped.
Stat ==
  /\ call # None /\ call.at = "scan" /\ call.opened = None
  /\ \E n \in call.left :
       \/ /\ n \in DOMAIN records[call.root]
          /\ call' = [call EXCEPT !.left = @ \ {n}, !.opened = n,
                                  !.scan.latest = Max({@, records[call.root][n].mtime})]
       \/ /\ n \notin DOMAIN records[call.root]
          /\ call' = [call EXCEPT !.left = @ \ {n}]
  /\ UNCHANGED <<disk, cache, was, calls, answer>>

\* One that vanishes now is not counted, or counted without content.
Hash ==
  /\ call # None /\ call.at = "scan" /\ call.opened # None
  /\ LET n == call.opened
         With(content) == [m \in DOMAIN call.scan.held \cup {n} |->
                             IF m = n THEN content ELSE call.scan.held[m]]
     IN  \/ /\ n \in DOMAIN records[call.root]
            /\ call' = [call EXCEPT !.opened = None, !.scan.held = With(records[call.root][n].content)]
         \/ /\ n \notin DOMAIN records[call.root]
            /\ \/ call' = [call EXCEPT !.opened = None]
               \/ call' = [call EXCEPT !.opened = None, !.scan.held = With(None)]
  /\ UNCHANGED <<disk, cache, was, calls, answer>>

-----------------------------------------------------------------------------
(* The cache.                                                              *)

Positions(key) == {i \in DOMAIN cache : cache[i].key = key}

Answer(given, filled) ==
  answer' = [root |-> call.root, start |-> call.start, given |-> given, filled |-> filled]

Looking == call # None /\ call.at = "scan" /\ call.left = {} /\ call.opened = None

Hit ==
  /\ Looking
  /\ \E i \in Positions(SnapshotKey(call.root, call.scan)) :
       /\ cache' = Append(SubSeq(cache, 1, i - 1) \o SubSeq(cache, i + 1, Len(cache)), cache[i])
       /\ Answer(cache[i].snapshot, cache[i].filled)
  /\ call' = None /\ was' = {}
  /\ UNCHANGED <<disk, calls>>

Miss ==
  /\ Looking
  /\ Positions(SnapshotKey(call.root, call.scan)) = {}
  /\ call' = [call EXCEPT !.at = "list", !.key = SnapshotKey(call.root, call.scan), !.scan = NoScan]
  /\ UNCHANGED <<disk, cache, was, calls, answer>>

\* load_normalized_records lists the files, then reads them one by one.
List ==
  /\ call # None /\ call.at = "list"
  /\ call' = [call EXCEPT !.at = "read", !.left = DOMAIN records[call.root]]
  /\ UNCHANGED <<disk, cache, was, calls, answer>>

Read ==
  /\ call # None /\ call.at = "read"
  /\ \E n \in call.left \cap DOMAIN records[call.root] :
       call' = [call EXCEPT !.left = @ \ {n},
                            !.read = [m \in DOMAIN @ \cup {n} |->
                                        IF m = n THEN records[call.root][n].content ELSE @[m]]]
  /\ UNCHANGED <<disk, cache, was, calls, answer>>

\* A listed file that is gone ends the call; nothing is cached.
Vanished ==
  /\ call # None /\ call.at = "read"
  /\ call.left \ DOMAIN records[call.root] # {}
  /\ call' = None /\ was' = {}
  /\ UNCHANGED <<disk, cache, calls, answer>>

\* Mutant: one snapshot too many is kept.
KeptOneMore(entries) == IF Len(entries) > Capacity + 1 THEN Tail(entries) ELSE entries

\* lru_cache(maxsize) forgets the least recently used.
Kept(entries) == IF Len(entries) > Capacity THEN Tail(entries) ELSE entries

Undisturbed == changed[call.root] = call.scanned

Finish ==
  /\ call # None /\ call.at = "read" /\ call.left = {}
  /\ LET filled == IF Undisturbed THEN "undisturbed" ELSE "disturbed"
     IN  /\ cache' = Kept(Append(cache, [key |-> call.key, snapshot |-> call.read, filled |-> filled]))
         /\ Answer(call.read, "now")
  /\ call' = None /\ was' = {}
  /\ UNCHANGED <<disk, calls>>

\* A rebuild in this process empties the cache first.
ClearCache ==
  /\ call = None /\ cache # <<>>
  /\ cache' = <<>>
  /\ UNCHANGED <<disk, call, was, calls, answer>>

Init ==
  /\ records \in [Roots -> UNION {[S -> [content : Contents, mtime : {0}]] : S \in SUBSET Names}]
  /\ changed = [root \in Roots |-> 0] /\ compiled = [root \in Roots |-> 0]
  /\ manifest = [root \in Roots |-> None]
  /\ writes = 0 /\ cache = <<>> /\ call = None /\ was = {} /\ calls = 0 /\ answer = None

Next ==
  \/ \E root \in Roots, name \in Names, content \in Contents : Store(root, name, content)
  \/ \E root \in Roots, name \in Names : Prune(root, name)
  \/ \E root \in Roots, tokenizer \in {Installed, Other} : Rebuild(root, tokenizer)
  \/ \E root \in Roots : Begin(root)
  \/ ListLayer \/ Stat \/ Hash \/ Hit \/ Miss \/ List \/ Read \/ Vanished \/ Finish \/ ClearCache

Spec == Init /\ [][Next]_vars

-----------------------------------------------------------------------------
Layers == UNION {[S -> [content : Contents, mtime : 0..MaxWrites]] : S \in SUBSET Names}
Snapshots == UNION {[S -> Contents] : S \in SUBSET Names}
Fills == {"now", "undisturbed", "disturbed"}

TypeOK ==
  /\ \A root \in Roots : records[root] \in Layers
  /\ compiled \in [Roots -> 0..MaxWrites] /\ changed \in [Roots -> 0..MaxWrites]
  /\ manifest \in [Roots -> {None, Installed, Other}]
  /\ writes \in 0..MaxWrites /\ calls \in 0..MaxCalls
  /\ Len(cache) <= Capacity
  /\ \A i \in DOMAIN cache : cache[i].snapshot \in Snapshots /\ cache[i].filled \in Fills \ {"now"}
  /\ \/ call = None
     \/ /\ call.root \in Roots /\ call.start \in Layers /\ call.at \in {"start", "scan", "list", "read"}
        /\ call.left \subseteq Names /\ call.opened \in Names \cup {None} /\ call.read \in Snapshots
  /\ was \subseteq Names \X Contents
  /\ answer = None \/ (answer.start \in Layers /\ answer.given \in Snapshots /\ answer.filled \in Fills)

\* A query never misses what was there when it began: a record that no one touched
\* until the answer is in the answer as it is, built, cached or cached by a call
\* that others disturbed.  (A record pruned meanwhile may still be answered.)
NoRecordIsMissed ==
  [][answer' # None /\ answer' # answer =>
       \A n \in DOMAIN answer'.start \cap DOMAIN records'[answer'.root] :
         records'[answer'.root][n] = answer'.start[n] =>
           n \in DOMAIN answer'.given /\ answer'.given[n] = answer'.start[n].content]_vars

\* Nothing is answered that was not there, unless from a snapshot whose building was
\* disturbed: each record of the answer was on disk, as answered, at some moment since
\* the call began, though its scan, the lookup and its reading are steps apart.  With
\* NoRecordIsMissed: if no one wrote meanwhile, the answer is exactly the disk.
AnswersWereOnDisk ==
  [][answer' # None /\ answer' # answer /\ answer'.filled # "disturbed" =>
       \A n \in DOMAIN answer'.given : <<n, answer'.given[n]>> \in was]_vars
=============================================================================
