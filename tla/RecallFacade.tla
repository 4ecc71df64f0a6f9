---------------------------- MODULE RecallFacade ----------------------------
(***************************************************************************)
(* What the read-only facade of mcp.server answers from its pages and      *)
(* sessions.  A wiki is [pages, sessions], sequences in the order given.   *)
(* Paths, titles, ids and link targets are texts, sequences of the         *)
(* segments between slashes.                                               *)
(***************************************************************************)
EXTENDS SearchRanking, SequencesExt

CONSTANTS
  Slug(_),    \* slugify: a text without its other characters, "untitled" if none is left
  Fold(_),    \* casefold
  UriName(_), \* urlparse and unquote: the text that a URI is read as, or Unreadable
  Unreadable, \* a limit, a time or a URI that cannot be parsed, an id that cannot be written
  EndOfTime   \* the last time that can be represented

\* Texts, and what a wiki is given as.
Text == Seq(STRING)
Times == Nat \cup {None}

SessionShape == [id : Text, path : Text, title : Text, terms : SUBSET STRING, recorded_at : Times]

PageShape == [typed : BOOLEAN, path : Text, title : Text, related : Seq(Text), wikilinks : Seq(Text),
              terms : SUBSET STRING, recorded_at : Times]

WikiShape == [sessions : Seq(SessionShape), pages : Seq(PageShape)]

\* What a tool is called with, and a URI.
QueryShape == [text : STRING, terms : SUBSET STRING, when : SUBSET STRING, date : Int \cup {None}]

ArgumentShape ==
  [query : QueryShape \cup {None}, limit : Int \cup {None, Unreadable}, mode : STRING \cup {None},
   reference : [at : Nat, aware : BOOLEAN] \cup {None, Unreadable}, path : Text \cup {None}]

UriShape == [scheme : STRING, host : BOOLEAN, text : Text]

Returned(value) == [ok |-> TRUE, value |-> value]
Raised(error) == [ok |-> FALSE, value |-> error]

-----------------------------------------------------------------------------
(* The facade's tables.                                                    *)

PageSlug(page) == IF page.path # <<>> THEN Slug(<<Last(page.path)>>) ELSE Slug(page.title)

\* _compiled_page_from_input: a page given as a mapping becomes a topic.
CompiledPage(given) ==
  IF given.typed THEN given ELSE [given EXCEPT !.path = <<"compiled", "topics", PageSlug(given)>>]

Facade(wiki) == [wiki EXCEPT !.pages = [i \in DOMAIN @ |-> CompiledPage(@[i])]]

\* Each element where it comes first.
Distinct(s) ==
  LET first == {i \in DOMAIN s : \A j \in 1..i - 1 : s[j] # s[i]}
  IN  Arranged([i \in first |-> s[i]], {pair \in first \X first : pair[1] < pair[2]})

\* The later entry of a table replaces the earlier.
LastOf(entries, meant) == IF meant = {} THEN None ELSE entries[Max(meant)]

PageByPath(facade, path) ==
  LastOf(facade.pages, {i \in DOMAIN facade.pages : facade.pages[i].path = path})

\* page_by_path: paths in the order of their first page, each with its last.
PagesByPath(facade) ==
  LET paths == Distinct([i \in DOMAIN facade.pages |-> facade.pages[i].path])
  IN  [i \in DOMAIN paths |-> PageByPath(facade, paths[i])]

PageBySlug(facade, slug) ==
  LET pages == PagesByPath(facade)
  IN  LastOf(pages, {i \in DOMAIN pages : PageSlug(pages[i]) = slug})

PageByTitle(facade, text) ==
  LET pages == PagesByPath(facade)
  IN  LastOf(pages, {i \in DOMAIN pages : Fold(pages[i].title) = Fold(text)})

\* Mutant: sessions are found by their paths only.
SessionByPath(facade, key) ==
  LastOf(facade.sessions, {i \in DOMAIN facade.sessions : facade.sessions[i].path = key})

SessionByKey(facade, key) ==
  LET sessions == facade.sessions
      byId == LastOf(sessions, {i \in DOMAIN sessions : sessions[i].id = key})
  IN  IF byId # None THEN byId ELSE LastOf(sessions, {i \in DOMAIN sessions : sessions[i].path = key})

\* runtime_corpus_from_records_and_pages.
Corpus(facade) ==
  [i \in DOMAIN facade.sessions |->
     [id |-> facade.sessions[i].id, path |-> facade.sessions[i].path, kind |-> "session",
      terms |-> facade.sessions[i].terms, recorded_at |-> facade.sessions[i].recorded_at]]
  \o
  [i \in DOMAIN facade.pages |->
     [id |-> facade.pages[i].path, path |-> facade.pages[i].path, kind |-> "page",
      terms |-> facade.pages[i].terms, recorded_at |-> facade.pages[i].recorded_at]]

-----------------------------------------------------------------------------
(* Tools.                                                                  *)

\* Mutant: as many hits as one asks for.
LimitUncapped(limit) ==
  CASE limit = None -> Returned(5)
    [] limit = Unreadable -> Raised("ValueError")
    [] OTHER -> Returned(Max({limit, 1}))

\* coerce_limit.
CoerceLimit(limit) ==
  CASE limit = None -> Returned(5)
    [] limit = Unreadable -> Raised("ValueError")
    [] OTHER -> Returned(Min({Max({limit, 1}), 50}))

\* coerce_query, coerce_path: None stands for no text, or an empty one.
SearchTool(facade, arguments) ==
  LET limit == CoerceLimit(arguments.limit)
  IN  IF arguments.query = None THEN Raised("ValueError")
      ELSE IF ~limit.ok THEN limit
      ELSE Returned([hits |-> TopicalSearch(Corpus(facade), arguments.query, limit.value),
                     limit |-> limit.value, strategy |-> "topic"])

Modes == {"auto", "date", "temporal", "known_item", "topic"}

\* _normalize_recall_mode, after the tool replaced a missing mode.
NormalMode(mode) ==
  CASE mode = None -> "auto"
    [] mode = "topical" -> "topic"
    [] OTHER -> mode

Representable(window) ==
  /\ window.after # None => window.after \in 0..EndOfTime
  /\ window.before # None => window.before \in 0..EndOfTime

\* What run_authoritative_recall raises: dates out of range, and a reference time without
\* a zone as soon as it is compared with a document's.
RecallError(facade, query, strategy, reference) ==
  LET window == CASE strategy = "date" -> DateWindow(query.date)
                  [] strategy = "temporal" -> TemporalWindow(query.when, reference.at)
                  [] OTHER -> Always
  IN  CASE ~Representable(window) -> "OverflowError"
        [] /\ Representable(window) /\ strategy = "temporal" /\ window # Always
           /\ ~reference.aware /\ \E i \in DOMAIN Corpus(facade) : Corpus(facade)[i].recorded_at # None
             -> "TypeError"
        [] OTHER -> None

RecallTool(facade, started, arguments) ==
  LET limit == CoerceLimit(arguments.limit)
      mode == NormalMode(arguments.mode)
      query == arguments.query
      reference == IF arguments.reference = None THEN [at |-> started, aware |-> TRUE] ELSE arguments.reference
      strategy == Strategy(Corpus(facade), query, limit.value, mode)
      error == RecallError(facade, query, strategy, reference)
  IN  IF \/ arguments.reference = Unreadable \/ query = None \/ ~limit.ok \/ mode \notin Modes
         \/ mode = "date" /\ query.date = None
      THEN Raised("ValueError")
      ELSE IF error # None THEN Raised(error)
      ELSE Returned([hits |-> Recall(Corpus(facade), query, limit.value, strategy, reference.at),
                     limit |-> limit.value, strategy |-> strategy])

GetPageTool(facade, arguments) ==
  LET page == PageByPath(facade, arguments.path)
  IN  CASE arguments.path = None -> Raised("ValueError")
        [] arguments.path # None /\ page = None -> Raised("KeyError")
        [] OTHER -> Returned(page)

\* _resolved_link: a path, else a slug, else a title.
ResolvedLink(facade, target) ==
  LET bySlug == PageBySlug(facade, Slug(target))
      page == IF PageByPath(facade, target) # None THEN PageByPath(facade, target)
              ELSE IF bySlug # None THEN bySlug
              ELSE PageByTitle(facade, target)
  IN  [target |-> target, resolved |-> IF page = None THEN None ELSE page.path]

\* The page's related links, then the wikilinks of its body, each target once.
ResolveLinksTool(facade, arguments) ==
  LET page == GetPageTool(facade, arguments)
      targets == Distinct(page.value.related \o page.value.wikilinks)
  IN  IF ~page.ok THEN page
      ELSE Returned([path |-> arguments.path,
                     links |-> [i \in DOMAIN targets |-> ResolvedLink(facade, targets[i])]])

-----------------------------------------------------------------------------
(* Resources.  A URI is [scheme, host, text], the text as it is written    *)
(* after the scheme, with // before it (host) or without.  It is read as   *)
(* another where it has a slash after //, a '#', '?' or '%'.               *)

ListResources(facade) ==
  {[scheme |-> "graph", host |-> TRUE, text |-> <<"current">>]}
  \cup {[scheme |-> "topic", host |-> TRUE, text |-> <<PageSlug(page)>>] : page \in ToSet(facade.pages)}
  \cup {[scheme |-> "session", host |-> TRUE, text |-> session.id] : session \in ToSet(facade.sessions)}

GraphResource(facade) ==
  [nodes |-> {<<"page", page.path>> : page \in ToSet(facade.pages)}
               \cup {<<"session", session.path>> : session \in ToSet(facade.sessions)},
   edges |-> UNION {{<<page.path, target>> : target \in ToSet(page.related)} : page \in ToSet(facade.pages)}]

TopicResource(facade, key) ==
  LET page == PageBySlug(facade, key[1])
  IN  IF Len(key) # 1 \/ page = None THEN Raised("KeyError")
      ELSE Returned([slug |-> key[1], path |-> page.path, title |-> page.title])

SessionResource(facade, key) ==
  LET session == SessionByKey(facade, key)
  IN  IF session = None THEN Raised("KeyError")
      ELSE Returned([id |-> session.id, path |-> session.path, title |-> session.title])

\* urlparse raises, of any scheme, for brackets it cannot pair.
ReadResource(facade, uri) ==
  LET key == UriName(uri)
  IN  CASE key = Unreadable -> Raised("ValueError")
        [] key # Unreadable /\ uri.scheme = "graph" -> Returned(GraphResource(facade))
        [] key # Unreadable /\ uri.scheme = "topic" -> TopicResource(facade, key)
        [] key # Unreadable /\ uri.scheme = "session" -> SessionResource(facade, key)
        [] OTHER -> Raised("KeyError")
=============================================================================
