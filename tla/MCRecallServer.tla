--------------------------- MODULE MCRecallServer ---------------------------
(* Four wikis: sessions and pages of each kind, names that collide, ids    *)
(* that a URI changes, and none.                                           *)
EXTENDS RecallServer, TLC

MCRelevance(query, indexed, document) ==
  LET Rarity(t) == 1 + Cardinality(DOMAIN indexed) - Cardinality({i \in DOMAIN indexed : t \in indexed[i].terms})
  IN  MapThenSumSet(LAMBDA t : 10 * Rarity(t), query.terms \cap document.terms)

MCPathHas(path, text) == \E i \in DOMAIN path : path[i] = text

Segments ==
  <<"2026", "[s", "cache", "compiled", "concepts", "keys", "normalized", "r1", "r2", "r3", "r4", "s#1", "s%31",
    "s1", "s2", "topics", "untitled">>

MCPathBefore(p, q) ==
  LET Place(segment) == CHOOSE i \in DOMAIN Segments : Segments[i] = segment
  IN  \E i \in DOMAIN p \cap DOMAIN q :
        Place(p[i]) < Place(q[i]) /\ \A j \in 1..i - 1 : p[j] = q[j]

MCSlug(text) ==
  CASE text = <<"Cache">> -> "cache"
    [] text = <<"Keys">> -> "keys"
    [] text = <<"korean">> -> "untitled"
    [] Len(text) > 1 -> "compiled-topics-keys"
    [] OTHER -> text[1]

\* Without //, the whole text is the path; neither is changed where it has only letters.
MCUriName(uri) ==
  CASE uri.text[1] = "[s" -> IF uri.host THEN Unreadable ELSE uri.text
    [] uri.text[1] = "s#1" -> <<"s">>
    [] uri.text[1] = "s%31" -> <<"s1">>
    [] OTHER -> IF uri.host THEN <<uri.text[1]>> ELSE uri.text

MCFold(text) ==
  CASE text = <<"Cache">> -> <<"cache">>
    [] text = <<"Keys">> -> <<"keys">>
    [] OTHER -> text

-----------------------------------------------------------------------------
Session(id, file, terms, time) ==
  [id |-> id, path |-> <<"normalized", file>>, title |-> id, terms |-> terms, recorded_at |-> time]

Page(typed, path, title, related, terms, time) ==
  [typed |-> typed, path |-> path, title |-> title, related |-> related, wikilinks |-> <<<<"korean">>>>,
   terms |-> terms, recorded_at |-> time]

Mixed ==
  [sessions |-> <<Session(<<"s1">>, "r1", {"cache", "key"}, 12), Session(<<"2026", "s2">>, "r2", {"cache"}, 15)>>,
   pages |-> <<Page(TRUE, <<"compiled", "concepts", "cache">>, <<"Cache">>,
                    <<<<"Keys">>, <<"compiled", "topics", "keys">>, <<"gone">>>>, {"cache"}, 15),
               Page(FALSE, <<"notes", "keys">>, <<"Keys">>, <<<<"Cache">>>>, {"cache"}, 13),
               Page(FALSE, <<>>, <<"korean">>, <<>>, {"other"}, 14)>>]

Colliding ==
  [sessions |-> <<Session(<<"s1">>, "r1", {"cache"}, 14), Session(<<"s1">>, "r2", {"key"}, 12)>>,
   pages |-> <<Page(FALSE, <<"a", "keys">>, <<"Keys">>, <<>>, {"key"}, 14),
               Page(FALSE, <<"b", "keys">>, <<"Cache">>, <<<<"Keys">>>>, {"cache", "key"}, 13),
               Page(TRUE, <<"compiled", "concepts", "keys">>, <<"keys">>, <<<<"cache">>>>, {"key"}, 12)>>]

Odd ==
  [sessions |-> <<Session(<<"s1">>, "r1", {"cache"}, 14), Session(<<"s%31">>, "r2", {"cache"}, 13),
                  Session(<<"s#1">>, "r3", {"cache"}, 12), Session(<<"[s">>, "r4", {"key"}, 12)>>,
   pages |-> <<>>]

MCWikis == {Mixed, Colliding, Odd, [sessions |-> <<>>, pages |-> <<>>]}

-----------------------------------------------------------------------------
Query(text, terms, when, date) == [text |-> text, terms |-> terms, when |-> when, date |-> date]

Cache == Query("cache", {"cache"}, {}, None)
Both == Query("cache key", {"cache", "key"}, {}, None)
Today == Query("cache today", {"cache", "today"}, {"today"}, None)
Yesterday == Query("cache yesterday", {"cache", "yesterday"}, {"yesterday"}, None)
EitherDay == Query("cache key today or yesterday", {"cache", "key"}, {"today", "yesterday"}, None)
ThisWeek == Query("cache this week", {"cache", "week"}, {"this week"}, None)
Recent == Query("recent", {"recent"}, {"recent"}, None)
Dated == Query("1970-01-07", {"1970"}, {}, 12)
LastDay == Query("9999-12-31", {"9999"}, {}, 99)
Lone == Query("lone", {"cache"}, {}, None)

Arguments(query, limit, mode, reference, path) ==
  [query |-> query, limit |-> limit, mode |-> mode, reference |-> reference, path |-> path]

Message(method, name, arguments, uri) ==
  [method |-> method, name |-> name, arguments |-> arguments, uri |-> uri]

Plain(method) == Message(method, None, None, None)
Call(name, arguments) == Message("tools/call", name, arguments, None)
SearchFor(query, limit) == Call("search", Arguments(query, limit, None, None, None))
RecallOf(query, limit, mode, reference) == Call("recall", Arguments(query, limit, mode, reference, None))
Path(name, path) == Call(name, Arguments(None, None, None, None, path))
Read(uri) == Message("resources/read", None, None, uri)
Uri(scheme, host, text) == [scheme |-> scheme, host |-> host, text |-> text]

Names(wiki) ==
  {Plain("resources/list"), SearchFor(Cache, None), RecallOf(Both, None, None, None)}
  \cup {Read(uri) : uri \in ListResources(wiki)}
  \cup {Path(name, path) : name \in {"get_page", "resolve_links"}, path \in {page.path : page \in ToSet(wiki.pages)}}

Recalls(wiki) ==
  {SearchFor(Both, limit) : limit \in {1, 2}}
  \cup {RecallOf(query, None, None, None) : query \in {Today, Yesterday, EitherDay, ThisWeek, Recent, Dated}}
  \cup {RecallOf(Today, None, None, [at |-> 13, aware |-> TRUE])}

Edges(wiki) ==
  {Plain(method) : method \in {None, "initialize", "notifications/initialized", "tools/call", "resources/read", "lone"}}
  \cup {Call("lone", None), Read(Uri("topic", TRUE, <<"lone">>)), SearchFor(Lone, None), SearchFor(None, None)}
  \cup {SearchFor(Cache, limit) : limit \in {Unreadable, 0, 99}}
  \cup {RecallOf(Cache, 1, mode, None) : mode \in {"date", "known_item", "topical", "sideways"}}
  \cup {RecallOf(LastDay, None, None, None)}
  \cup {RecallOf(Today, None, None, reference) : reference \in {Unreadable, [at |-> 15, aware |-> FALSE]}}
  \cup {Path("edit", <<"x">>), Path("get_page", None), Path("resolve_links", <<"notes", "keys">>)}
  \cup {Read(uri) : uri \in {Uri("http", TRUE, <<"x">>), Uri("session", FALSE, <<"normalized", "r1">>),
                             Uri("topic", TRUE, <<"gone">>)}}

\* A facade gets the messages that its tables are interesting for.
MCMessages(wiki) == Names(wiki) \cup (IF wiki = Facade(Odd) THEN Edges(wiki) ELSE Recalls(wiki))
=============================================================================
