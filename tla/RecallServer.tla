---------------------------- MODULE RecallServer ----------------------------
(***************************************************************************)
(* The read-only MCP server on its stdio (mcp.server, mcp.stdio): a client *)
(* writes frames, the server reads one at a time, handles it and writes    *)
(* the reply.  Pages, sessions and the time that relative days refer to    *)
(* are those of its creation.                                              *)
(*                                                                         *)
(* A request's id is its place in the stream, or an id with a lone         *)
(* surrogate, which JSON may escape and UTF-8 cannot encode; a             *)
(* notification has none and is answered, but for one, with id null.       *)
(* Error codes are JSON-RPC's.                                             *)
(***************************************************************************)
EXTENDS RecallFacade

CONSTANTS
  Wikis,       \* what a server may be created with, its texts such as files have
  Surrogates,  \* the strings with a lone surrogate
  Messages(_), \* what a client may send to the server of a facade
  MaxFrames,   \* bound: frames sent
  Starts,      \* times at which a server may be created
  MaxTime      \* bound: the clock

MessageShape ==
  [method : STRING \cup {None}, name : STRING \cup {None}, arguments : ArgumentShape \cup {None},
   uri : UriShape \cup {None}]

Tools == {"search", "recall", "get_page", "resolve_links"}

\* A missing object of arguments is an empty one.
WellFormed(message) ==
  /\ message \in MessageShape
  /\ message.method = "tools/call" /\ message.name \in Tools => message.arguments # None
  /\ message.uri # None => UriName(message.uri) \in (Text \ {<<>>}) \cup {Unreadable}

Queries(given) ==
  {message.arguments.query : message \in {m \in Messages(given) : m.arguments # None}} \ {None}

ASSUME ServerAssumption ==
  /\ MaxFrames \in Nat /\ MaxTime \in Nat /\ EndOfTime \in Nat /\ Surrogates \subseteq STRING
  /\ Starts \subseteq (0..MaxTime) \cap (7 * Day..EndOfTime - 1)
  \* What is missing or cannot be read is no value.
  /\ \A value \in {None, Unreadable} :
       /\ value \notin Int \cup STRING \cup Text \cup PageShape \cup SessionShape
       /\ value \notin QueryShape \cup ArgumentShape \cup UriShape \cup [at : Nat, aware : BOOLEAN]
  /\ None # Unreadable
  \* Literals are strings (the provers do not know).
  /\ Tools \cup {"compiled", "topics", "graph", "current", "topic", "session"} \subseteq STRING
  /\ {"initialize", "tools/list", "tools/call", "resources/list", "resources/read"} \subseteq STRING
  \* A compiled page has a path of its own.
  /\ \A wiki \in Wikis :
       /\ wiki \in WikiShape
       /\ \A i \in DOMAIN wiki.pages :
            /\ wiki.pages[i].typed => wiki.pages[i].path # <<>>
            /\ {PageSlug(wiki.pages[i]), PageSlug(CompiledPage(wiki.pages[i]))} \subseteq STRING

\* What is given for a wiki: its messages, an order of its paths and ids, and scores, which
\* are positive for documents that have a term of the query (BM25's idf is).
ASSUME CorpusAssumption ==
  \A wiki \in Wikis :
    LET given == Facade(wiki)
        corpus == Corpus(given)
        texts == {corpus[i].path : i \in DOMAIN corpus} \cup {corpus[i].id : i \in DOMAIN corpus}
    IN  /\ \A message \in Messages(given) : WellFormed(message)
        /\ None \notin [id : Nat \cup {None, Unreadable}, message : Messages(given), time : Nat]
        /\ \A p \in texts, q \in texts, r \in texts :
             /\ ~PathBefore(p, p)
             /\ p = q \/ PathBefore(p, q) \/ PathBefore(q, p)
             /\ PathBefore(p, q) /\ PathBefore(q, r) => PathBefore(p, r)
        /\ \A query \in Queries(given), places \in SUBSET DOMAIN corpus : \A i \in places :
             LET relevance == Relevance(query, [j \in places |-> corpus[j]], corpus[i])
             IN  /\ relevance \in Nat
                 /\ query.terms \cap corpus[i].terms # {} => relevance > 0

VARIABLES
  facade,  \* pages and sessions
  started, \* the facade's reference_time
  now,     \* the clock
  sent,    \* frames of the client: a message, with or without an id, "malformed" or "eof"
  read,    \* frames read
  pending, \* the message being handled: [id, message, time]
  replies, \* replies written: [id, code, result, message, time]
  status   \* "serving", "ended", "failed"

vars == <<facade, started, now, sent, read, pending, replies, status>>

Frame(kind, message) == [kind |-> kind, message |-> message]

-----------------------------------------------------------------------------
(* ReadOnlyMCPServer.handle_message.                                       *)

Handle(name, arguments) ==
  CASE name = "search" -> SearchTool(facade, arguments)
    [] name = "recall" -> RecallTool(facade, started, arguments)
    [] name = "get_page" -> GetPageTool(facade, arguments)
    [] name = "resolve_links" -> ResolveLinksTool(facade, arguments)

Caught(errors, outcome) ==
  IF ~outcome.ok /\ outcome.value \in errors THEN Returned([isError |-> outcome.value]) ELSE outcome

\* Mutant: a bad value is not caught.
CallToolUnlessUnknown(name, arguments) ==
  IF name \notin Tools THEN Returned([isError |-> name]) ELSE Caught({"KeyError"}, Handle(name, arguments))

\* call_tool: write operations and unknown tools are errors of the tool.
CallTool(name, arguments) ==
  IF name \notin Tools THEN Returned([isError |-> name])
  ELSE Caught({"KeyError", "ValueError"}, Handle(name, arguments))

\* read_resource.
ReadResourceTool(uri) == Caught({"KeyError"}, ReadResource(facade, uri))

Success(outcome) ==
  IF outcome.ok THEN Returned([code |-> 0, result |-> outcome.value]) ELSE outcome

Error(code) == Returned([code |-> code, result |-> None])

HandleMessage(message) ==
  CASE message.method = None -> Error(-32600)
    [] message.method \in {"initialize", "tools/list"} -> Success(Returned([lists |-> message.method]))
    [] message.method = "tools/call" ->
         IF message.name = None THEN Error(-32602)
         ELSE Success(CallTool(message.name, message.arguments))
    [] message.method = "resources/list" -> Success(Returned([resources |-> ListResources(facade)]))
    [] message.method = "resources/read" ->
         IF message.uri = None THEN Error(-32602) ELSE Success(ReadResourceTool(message.uri))
    [] OTHER -> Error(-32601)

-----------------------------------------------------------------------------
(* A reply is [id, message, time, code, result].                           *)
Asks(reply, name) == reply.message.method = "tools/call" /\ reply.message.name = name

Succeeds(reply) == reply.code = 0 /\ "isError" \notin DOMAIN reply.result

Shows(reply) == Succeeds(reply) /\ (Asks(reply, "search") \/ Asks(reply, "recall"))

Shown(reply) == ToSet(reply.result.hits)

-----------------------------------------------------------------------------
(* The stream.                                                             *)

Open == \A i \in DOMAIN sent : sent[i].kind # "eof"

Send ==
  /\ Len(sent) < MaxFrames /\ Open
  /\ \/ \E kind \in {"request", "unwritable", "notification"}, message \in Messages(facade) :
          sent' = Append(sent, Frame(kind, message))
     \/ \E kind \in {"malformed", "eof"} : sent' = Append(sent, Frame(kind, None))
  /\ UNCHANGED <<facade, started, now, read, pending, replies, status>>

Tick ==
  /\ now < MaxTime
  /\ now' = now + 1
  /\ UNCHANGED <<facade, started, sent, read, pending, replies, status>>

\* read_message: a frame that is no JSON object ends the process with an error.
Receive ==
  /\ status = "serving" /\ pending = None /\ read < Len(sent)
  /\ LET frame == sent[read + 1]
     IN  \/ /\ frame.kind = "eof" /\ status' = "ended" /\ UNCHANGED pending
         \/ /\ frame.kind = "malformed" /\ status' = "failed" /\ UNCHANGED pending
         \/ /\ frame.kind \in {"request", "unwritable", "notification"}
            /\ pending' = [id |-> CASE frame.kind = "request" -> read + 1
                                    [] frame.kind = "unwritable" -> Unreadable
                                    [] frame.kind = "notification" -> None,
                           message |-> frame.message, time |-> now]
            /\ UNCHANGED status
  /\ read' = read + 1
  /\ UNCHANGED <<facade, started, now, sent, replies>>

\* A client that has completed its handshake says so and expects nothing.
Initialized == pending.id = None /\ pending.message.method = "notifications/initialized"

Ignore ==
  /\ pending # None /\ Initialized
  /\ pending' = None
  /\ UNCHANGED <<facade, started, now, sent, read, replies, status>>

\* The strings of its message that a reply repeats.  (What str makes of a KeyError is
\* escaped, and so is what a ValueError repeats.)
Repeated(reply) ==
  LET message == reply.message
  IN  CASE reply.code = -32601 -> {message.method}
        [] reply.code = 0 /\ message.method = "resources/read" -> {message.uri.scheme} \cup ToSet(message.uri.text)
        [] reply.code = 0 /\ message.method = "tools/call" /\ message.name \notin Tools -> {message.name}
        [] Shows(reply) -> {message.arguments.query.text}
        [] OTHER -> {}

\* write_message encodes a reply before it writes any of it.
Encodes(reply) == reply.id # Unreadable /\ Repeated(reply) \cap Surrogates = {}

Reply(value) ==
  [id |-> pending.id, message |-> pending.message, time |-> pending.time,
   code |-> value.code, result |-> value.result]

\* Whatever is not caught ends serve_stdio.
Written(outcome) ==
  \/ /\ outcome.ok /\ Encodes(Reply(outcome.value))
     /\ replies' = Append(replies, Reply(outcome.value))
     /\ UNCHANGED status
  \/ /\ ~(outcome.ok /\ Encodes(Reply(outcome.value)))
     /\ status' = "failed"
     /\ UNCHANGED replies

Respond ==
  /\ pending # None /\ ~Initialized
  /\ Written(HandleMessage(pending.message))
  /\ pending' = None
  /\ UNCHANGED <<facade, started, now, sent, read>>

Init ==
  /\ facade \in {Facade(wiki) : wiki \in Wikis}
  /\ started \in Starts /\ now = started
  /\ sent = <<>> /\ read = 0 /\ pending = None /\ replies = <<>> /\ status = "serving"

Next == Send \/ Tick \/ Receive \/ Ignore \/ Respond

\* What was read is handled: always Ignore or Respond.
Handled == pending # None /\ pending' = None

\* The loop of serve_stdio reads on and handles what it reads.
Spec == Init /\ [][Next]_vars /\ WF_vars(Receive) /\ WF_pending(Handled)

-----------------------------------------------------------------------------
TypeOK ==
  /\ facade \in {Facade(wiki) : wiki \in Wikis}
  /\ started \in Starts /\ now \in started..MaxTime
  /\ Len(sent) <= MaxFrames /\ read \in 0..Len(sent) /\ Len(replies) <= read
  /\ pending = None \/ pending.message \in Messages(facade)
  /\ \A k \in DOMAIN replies :
       /\ replies[k].code \in {0, -32600, -32601, -32602}
       /\ Shows(replies[k]) => /\ replies[k].result.limit \in 1..50
                              /\ Len(replies[k].result.hits) <= replies[k].result.limit
                              /\ Shown(replies[k]) \subseteq ToSet(Corpus(facade))
  /\ status \in {"serving", "ended", "failed"}

\* Frames after which the server still serves.  A reference time without a zone, a date
\* at the end or the beginning of time, a URI with unpaired brackets and a lone surrogate
\* in what a reply may repeat end it.
Harmless(frame) ==
  /\ frame.kind \in {"request", "notification"}
  /\ {frame.message.method, frame.message.name} \cap Surrogates = {}
  /\ frame.message.uri # None =>
       /\ UriName(frame.message.uri) # Unreadable
       /\ ({frame.message.uri.scheme} \cup ToSet(frame.message.uri.text)) \cap Surrogates = {}
  /\ \/ frame.message.arguments = None
     \/ /\ frame.message.arguments.reference \notin {None, Unreadable} =>
              /\ frame.message.arguments.reference.aware
              /\ frame.message.arguments.reference.at \in 7 * Day..EndOfTime - 1
        /\ frame.message.arguments.query # None =>
              /\ frame.message.arguments.query.date \in {None} \cup 0..EndOfTime - Day
              /\ frame.message.arguments.query.text \notin Surrogates

AnsweredOnce(i) == Cardinality({k \in DOMAIN replies : replies[k].id = i}) = 1

\* Requests are answered in their turn.
InTurn ==
  \A k, l \in DOMAIN replies :
    k < l /\ replies[k].id # None /\ replies[l].id # None => replies[k].id < replies[l].id

\* A request is answered exactly once, and in its turn, also with an unknown method, tool
\* or resource and with missing, mistyped or unusable arguments, if none of the frames up
\* to it is one of those that end the server: the exceptions Harmless names are the only
\* ones that escape, from a handler or from the writing of a reply.
EveryRequestIsAnswered ==
  /\ \A i \in 1..MaxFrames :
       (i \in DOMAIN sent /\ sent[i].kind = "request" /\ \A j \in 1..i : Harmless(sent[j]))
         ~> [](AnsweredOnce(i))
  /\ []InTurn

\* Names a reply gives to be read: URIs, and paths of pages.
UrisIn(reply) ==
  CASE reply.message.method = "resources/list" -> reply.result.resources
    [] Shows(reply) -> {[scheme |-> "session", host |-> TRUE, text |-> d.id] :
                          d \in {d \in Shown(reply) : d.kind = "session"}}
    [] OTHER -> {}

PathsIn(reply) ==
  CASE Shows(reply) -> {d.path : d \in {d \in Shown(reply) : d.kind = "page"}}
    [] Succeeds(reply) /\ Asks(reply, "resolve_links") ->
         {link.resolved : link \in ToSet(reply.result.links)} \ {None}
    [] Succeeds(reply) /\ reply.message.method = "resources/read" /\ "slug" \in DOMAIN reply.result ->
         {reply.result.path}
    [] OTHER -> {}

Serves(reply, uri) ==
  /\ Succeeds(reply)
  /\ uri.scheme = "topic" => <<reply.result.slug>> = uri.text
  /\ uri.scheme = "session" => reply.result.id = uri.text

\* What one reply names, a later request can read, and reads under that name: listed
\* resources, sessions and pages that were found, pages that links resolved to, though
\* tables collide.  Of URIs it speaks of those that are read as they are written: an id
\* with '/', '#', '?', '%' or a bracket is listed too, and then read as another id.
NamesCanBeRead ==
  \A k, l \in DOMAIN replies : k < l =>
    /\ \A uri \in UrisIn(replies[k]) :
         /\ UriName(uri) = uri.text
         /\ replies[l].message.method = "resources/read" /\ replies[l].message.uri = uri
         => Serves(replies[l], uri)
    /\ \A path \in PathsIn(replies[k]) :
         /\ replies[l].message.arguments # None
         /\ replies[l].message.arguments.path = path
         /\ Asks(replies[l], "get_page") \/ Asks(replies[l], "resolve_links")
         => Succeeds(replies[l]) /\ replies[l].result.path = path

\* A document that a search leaves out is no better, by relevance and by score, than one
\* of its kind that it shows; and of two kinds neither crowds out the other: the kind of
\* a document more relevant than one shown is shown too, given room for two.
SearchShowsTheBest ==
  \A k \in DOMAIN replies : Shows(replies[k]) /\ Asks(replies[k], "search") =>
    LET corpus == Corpus(facade)
        query == replies[k].message.arguments.query
        Relevant(d) == Relevance(query, corpus, d)
    IN  \A shown \in Shown(replies[k]), d \in ToSet(corpus) :
          Relevant(d) > Relevant(shown) =>
            IF d.kind = shown.kind
            THEN Score(query, corpus, "topic", d) > Score(query, corpus, "topic", shown)
                   => d \in Shown(replies[k])
            ELSE replies[k].result.limit > 1 => \E e \in Shown(replies[k]) : e.kind = d.kind

OfDay(document, day) == document.recorded_at # None /\ DayStart(document.recorded_at) = day

\* What is recalled of "today" and of "yesterday" is of that calendar day, counted from the
\* reference time given or else the server's creation, however long ago that was; and
\* nothing of that day that shares a term with the query is missing when there is room.
\* But the windows are inclusive: what is dated at the very midnight that ends the day is
\* recalled too.  Compiled pages are dated at midnight: yesterday's recall has today's.
RelativeDaysAreDates ==
  \A k \in DOMAIN replies :
    LET reply == replies[k]
        query == reply.message.arguments.query
        reference == reply.message.arguments.reference
        time == IF reference = None THEN started ELSE reference.at
        yesterday == "yesterday" \in query.when
        day == IF yesterday THEN DayStart(time) - Day ELSE DayStart(time)
        corpus == Corpus(facade)
        ofDay == {i \in DOMAIN corpus : OfDay(corpus[i], day)}
        atEnd == {i \in DOMAIN corpus : corpus[i].recorded_at = day + Day}
    IN  /\ Shows(reply) /\ Asks(reply, "recall") /\ reply.result.strategy = "temporal"
        /\ query.when \cap {"today", "yesterday"} # {}
        => /\ Shown(reply) \subseteq {corpus[i] : i \in ofDay \cup (IF yesterday \/ time + 1 = day + Day THEN atEnd ELSE {})}
           /\ Cardinality(ofDay \cup atEnd) <= reply.result.limit =>
                \A i \in ofDay : corpus[i].recorded_at <= time /\ corpus[i].terms \cap query.terms # {}
                                => corpus[i] \in Shown(reply)
=============================================================================
