---------------------------- MODULE IndexManifest ----------------------------
(***************************************************************************)
(* index/manifest.json: its shapes, old and new, its two readers, and what *)
(* status and lint make of it.                                             *)
(*                                                                         *)
(* A JSON object is a record with any set of fields; Junk stands for every *)
(* value that is not of the type its place wants, None for "absent".  The  *)
(* freshness check reads the whole file (load_index_manifest); the guard   *)
(* before every search reads the retrieval identity only, and is laxer.    *)
(***************************************************************************)
EXTENDS Naturals, Sequences, FiniteSets

CONSTANTS
  Junk,         \* a JSON value of the wrong type, or a file that is not JSON
  None,         \* no such file, no such key, null
  ManifestPath, \* index/manifest.json, as the place of an issue
  LegacySpecs,  \* tokenizers old manifests name: name -> [family, version]
  LegacyDefault, LegacyRegex, LegacyNouns  \* names the old flags stand for

Tokenizer(name) ==
  [name |-> name, family |-> LegacySpecs[name].family, version |-> LegacySpecs[name].version]

ASSUME ManifestAssumption ==
  /\ Junk # None
  /\ {LegacyDefault, LegacyRegex, LegacyNouns} \subseteq DOMAIN LegacySpecs
  /\ DOMAIN LegacySpecs \subseteq STRING
  /\ LegacySpecs \in [DOMAIN LegacySpecs -> [family : STRING, version : STRING]]

-----------------------------------------------------------------------------
(* Reading.  Wherever the code raises, an operator answers None.           *)

Typed(v) == v \notin {Junk, None}
Get(object, key) == IF key \in DOMAIN object THEN object[key] ELSE None

\* An object in which every key has a value of its type.
Requires(v, keys) ==
  Typed(v) /\ keys \subseteq DOMAIN v /\ \A key \in keys : Typed(v[key])

Restricted(v, keys) == IF Requires(v, keys) THEN [key \in keys |-> v[key]] ELSE None

LayerKeys == {"latest_mtime_ns", "file_count", "content_hash"}
RetrievalKeys == {"name", "family", "version"}
LoadLayer(v) == Restricted(v, LayerKeys)
LoadRetrieval(v) == Restricted(v, RetrievalKeys)

\* str() makes text of any version an old manifest holds, whole numbers included.
AsText(version) == IF version = Junk THEN "other" ELSE version.decimal

LegacyTokenizer(tokenizer) ==
  LoadRetrieval([key \in DOMAIN tokenizer |->
                   IF key = "version" THEN AsText(tokenizer[key]) ELSE tokenizer[key]])

\* Booleans are wrapped, as a flag may hold anything: [flag |-> TRUE].
LegacyFlags(payload) ==
  LET kiwi == Get(payload, "use_kiwi_tokenizer")
      mode == Get(payload, "kiwi_lexical_candidate_mode")
  IN  IF {"use_kiwi_tokenizer", "kiwi_lexical_candidate_mode"} \cap DOMAIN payload = {} THEN None
      ELSE IF Typed(kiwi) /\ ~kiwi.flag THEN Tokenizer(LegacyRegex)
      ELSE IF Typed(mode) /\ mode.text = "nouns" THEN Tokenizer(LegacyNouns)
      ELSE Tokenizer(LegacyDefault)

\* A tokenizer object first, then a name, then the flags.
LegacyRetrieval(payload) ==
  LET content == Get(payload, "content_identity")
      tokenizer == IF Typed(content) THEN Get(content, "tokenizer") ELSE None
      name == Get(payload, "tokenizer_name")
  IN  IF Typed(tokenizer) THEN LegacyTokenizer(tokenizer)
      ELSE IF Typed(name)
           THEN IF name \in DOMAIN LegacySpecs THEN Tokenizer(name) ELSE None
      ELSE LegacyFlags(payload)

\* The formats are read as they are, and default to "1".
Format(identity, key) == IF key \in DOMAIN identity THEN identity[key] ELSE "1"

Identity(normalized, compiled, retrieval, documentFormat, indexFormat) ==
  IF \/ normalized = None \/ compiled = None \/ retrieval = None
     \/ ~Typed(documentFormat) \/ ~Typed(indexFormat) THEN None
  ELSE [normalized |-> normalized, compiled |-> compiled, retrieval |-> retrieval,
        search_document_format |-> documentFormat, lexical_index_format |-> indexFormat]

LoadIdentity(v) ==
  IF ~Typed(v) THEN None
  ELSE Identity(LoadLayer(Get(v, "normalized")), LoadLayer(Get(v, "compiled")),
                LoadRetrieval(Get(v, "retrieval")),
                Format(v, "search_document_format"), Format(v, "lexical_index_format"))

\* A new manifest must say what was indexed; an old one may leave out the counts.
LoadNew(payload) ==
  IF Requires(payload, {"compiled_paths", "counts"}) THEN LoadIdentity(Get(payload, "identity"))
  ELSE None

LoadLegacy(payload) ==
  LET content == Get(payload, "content_identity")
  IN  IF \/ ~Requires(payload, {"compiled_paths"} \cup ({"counts"} \cap DOMAIN payload))
         \/ ~Typed(content) THEN None
      ELSE Identity(LoadLayer(Get(content, "normalized")), LoadLayer(Get(content, "compiled")),
                    LegacyRetrieval(payload), "1", "1")

\* The identity of the manifest, or None if loading raises.
Load(payload) ==
  IF ~Typed(payload) THEN None
  ELSE IF "identity" \in DOMAIN payload THEN LoadNew(payload)
  ELSE LoadLegacy(payload)

\* Mutant: the guard looks for the old fields only.
GuardReadsLegacy(payload) == IF Typed(payload) THEN LegacyRetrieval(payload) ELSE None

\* load_manifest_retrieval_identity, for a file that exists.
GuardIdentity(payload) ==
  IF ~Typed(payload) THEN None
  ELSE LET identity == Get(payload, "identity")
       IN  IF Typed(identity) /\ Get(identity, "retrieval") # None
           THEN LoadRetrieval(identity["retrieval"])
           ELSE LegacyRetrieval(payload)

\* validate_manifest_retrieval_identity: no manifest is no objection.
GuardAdmits(file, retrieval) == file = None \/ GuardIdentity(file) = retrieval

-----------------------------------------------------------------------------
(* Freshness.                                                              *)

LayerReasons(layer, manifest, current) ==
  {<<layer, key>> : key \in {key \in LayerKeys : manifest[key] # current[key]}}

RetrievalReasons(manifest, current) ==
  {<<"retrieval", key>> : key \in {key \in RetrievalKeys : manifest[key] # current[key]}}

\* Mutant: only what search reads is compared.
CompiledReasons(manifest, current) ==
  LayerReasons("compiled", manifest.compiled, current.compiled)
    \cup RetrievalReasons(manifest.retrieval, current.retrieval)

Reasons(manifest, current) ==
  LayerReasons("normalized", manifest.normalized, current.normalized)
    \cup LayerReasons("compiled", manifest.compiled, current.compiled)
    \cup RetrievalReasons(manifest.retrieval, current.retrieval)
    \cup {<<key>> : key \in {key \in {"search_document_format", "lexical_index_format"} :
                               manifest[key] # current[key]}}

\* explain_index_freshness with compare_index_identity.
Freshness(file, current) ==
  IF file = None THEN [status |-> "missing", reasons |-> {<<"identity">>}]
  ELSE LET manifest == Load(file)
       IN  IF manifest = None THEN [status |-> "invalid", reasons |-> {<<"identity">>}]
           ELSE LET reasons == Reasons(manifest, current)
                IN  [status |-> IF reasons = {} THEN "current" ELSE "stale", reasons |-> reasons]

\* to_lint_issue_payload: at most one issue, with its reasons unless missing.
ManifestIssues(freshness) ==
  IF freshness.status = "current" THEN {}
  ELSE {[code |-> "L104", severity |-> "error", about |-> ManifestPath, status |-> freshness.status,
         reasons |-> IF freshness.status = "missing" THEN {} ELSE freshness.reasons]}

-----------------------------------------------------------------------------
(* What is written.                                                        *)

Indexed == "what was indexed"

NewPayload(identity) ==
  [counts |-> Indexed, compiled_paths |-> Indexed, identity |-> identity]

\* status_identity_payload: the formats are left out and a version is a number.
StatusIdentity(identity) ==
  [normalized |-> identity.normalized, compiled |-> identity.compiled,
   tokenizer |-> [identity.retrieval EXCEPT !.version = [decimal |-> @]]]

\* Manifests of older versions held that payload, and named the tokenizer in it,
\* beside it or by flags.
LegacyPayload(identity, style) ==
  LET content == StatusIdentity(identity)
      layers == [normalized |-> content.normalized, compiled |-> content.compiled]
  IN  CASE style = "object" -> [compiled_paths |-> Indexed, counts |-> Indexed, content_identity |-> content]
        [] style = "name" -> [compiled_paths |-> Indexed, content_identity |-> layers,
                              tokenizer_name |-> identity.retrieval.name]
        [] style = "flags" -> [compiled_paths |-> Indexed, content_identity |-> layers,
                               use_kiwi_tokenizer |-> [flag |-> identity.retrieval.name # LegacyRegex],
                               kiwi_lexical_candidate_mode |->
                                 [text |-> IF identity.retrieval.name = LegacyNouns
                                           THEN "nouns" ELSE "morphology"]]

\* Hand damage: one field is lost, or overwritten, at the top or in the identity.
WithField(object, key, value) ==
  IF value = None THEN [k \in DOMAIN object \ {key} |-> object[k]]
  ELSE [object EXCEPT ![key] = value]

Damaged(payload) ==
  {Junk} \cup {WithField(payload, key, v) : key \in DOMAIN payload, v \in {Junk, None}}
    \cup UNION {{[payload EXCEPT ![top] = WithField(payload[top], key, v)] :
                   key \in DOMAIN payload[top], v \in {Junk, None}} :
                top \in {k \in {"identity", "content_identity"} \cap DOMAIN payload : Typed(payload[k])}}
=============================================================================
