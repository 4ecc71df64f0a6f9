--------------------------- MODULE CompiledPages ---------------------------
(***************************************************************************)
(* The compiler: from normalized records to the wiki pages under compiled/ *)
(* and the links between them, and the two graph checks of the linter over *)
(* what is on disk.                                                        *)
(*                                                                         *)
(* A rebuild reads the records once, builds every page in memory, links    *)
(* them back, empties compiled/ and writes the pages one by one.  Records  *)
(* come and go meanwhile: ingest, fileback and prune do not wait for it.   *)
(*                                                                         *)
(* A path is a tuple: its directory and its slug.  Bodies are left out but *)
(* for the wikilinks they carry.                                           *)
(***************************************************************************)
EXTENDS Naturals, FiniteSets, SequencesExt, PageLinks

CONSTANTS
  RecordOrder,   \* records, by the paths of their files, sorted
  SessionOrder,  \* session identifiers, sorted
  Shapes,        \* what a normalized record may hold, see RecordShape
  Titles,        \* titles of taxonomy items
  Slug,          \* slug of each title: titles in Korean all become "untitled"
  SessionSlug,   \* slug of each session identifier
  SummarySlug,   \* slug of each record's summary, from its source type, title and id:
                 \* an answer given on two days has one slug and two records
  NoSession,     \* the record belongs to no session
  MaxEdits       \* bound: records added or removed in a behaviour

ItemTypes == {"concept", "entity", "topic", "question", "project", "decision"}
ConceptTypes == {"concept", "entity", "topic"}

\* Mutant: no generator makes the pages of projects.
WithoutProjects == {"question", "decision"}
QuestionTypes == {"question", "project", "decision"}

Ids == ToSet(RecordOrder)
Sessions == ToSet(SessionOrder)

Index == <<"index", "index">>
Log == <<"log", "log">>
Overview == <<"overview", "overview">>
SummaryPath(r) == <<"summary", SummarySlug[r]>>
SessionPath(s) == <<"session", SessionSlug[s]>>
ItemPath(item) == <<item[1], Slug[item[2]]>>

Paths ==
  {Index, Log, Overview} \cup {SummaryPath(r) : r \in Ids}
    \cup {SessionPath(s) : s \in Sessions} \cup (ItemTypes \X {Slug[t] : t \in Titles})

\* The texts of a record that pages copy.  Titles and descriptions of items are
\* copied too: they are taken to hold no wikilink.
Texts == {"summary", "answer", "sections"}

\* session, taxonomy items, day, compiled paths an accepted answer rests on, and
\* wikilinks in each text of the record.
RecordShape ==
  [session : Sessions \cup {NoSession}, items : SUBSET (ItemTypes \X Titles), day : Nat,
   supporting : SUBSET Paths, quotes : [Texts -> SUBSET Paths]]

ASSUME CompilerAssumption ==
  /\ RecordOrder \in Seq(Ids) /\ IsInjective(RecordOrder)
  /\ SessionOrder \in Seq(Sessions) /\ IsInjective(SessionOrder) /\ NoSession \notin Sessions
  /\ Slug \in [Titles -> STRING] /\ SessionSlug \in [Sessions -> STRING]
  /\ SummarySlug \in [Ids -> STRING]
  /\ Shapes \subseteq RecordShape /\ \A s \in Shapes : IsFiniteSet(s.items)
  /\ MaxEdits \in Nat

VARIABLES
  corpus,  \* normalized/: record identifier -> shape
  edits,   \* changes of the corpus so far
  built,   \* the records the current rebuild read
  pages,   \* its pages in memory
  start,   \* their related paths before apply_backlinks
  cursor,  \* 0 before its first loop, then the page its second loop visits next
  written, \* the pages have been written
  disk     \* compiled/: path -> page

vars == <<corpus, edits, built, pages, start, cursor, written, disk>>
rebuildVars == <<built, pages, start, cursor, written, disk>>

-----------------------------------------------------------------------------
(* Pages.  Each generator takes the records in the order of their paths.   *)

\* The members of a set that a list names, in its order.
InOrder(order, S) ==
  LET places == {i \in DOMAIN order : order[i] \in S}
      Before(i) == {j \in places : j < i}
  IN  [k \in 1..Cardinality(places) |->
         order[CHOOSE i \in places : Cardinality(Before(i)) = k - 1]]

Contributors(records, path) ==
  {r \in DOMAIN records : path \in {ItemPath(i) : i \in records[r].items}}

SessionPaths(records, r) ==
  IF records[r].session = NoSession THEN {} ELSE {SessionPath(records[r].session)}

ItemPaths(records, r) == {ItemPath(i) : i \in records[r].items}

Days(records, rs) == {records[r].day : r \in rs}

Quotes(records, rs, texts) ==
  UNION {UNION {records[r].quotes[text] : text \in texts} : r \in rs}

PageShape ==
  [path : Paths, related : SUBSET Paths, links : SUBSET Paths, ids : SUBSET Ids,
   created : Nat, updated : Nat]

\* A page made from records rs, which are its ids; links are the wikilinks of its
\* summary and sections.
Page(records, path, rs, related, links) ==
  [path |-> path, related |-> related, links |-> links, ids |-> rs,
   created |-> IF rs = {} THEN 0 ELSE Min(Days(records, rs)),
   updated |-> IF rs = {} THEN 0 ELSE Max(Days(records, rs))]

SummaryPage(records, r) ==
  Page(records, SummaryPath(r), {r},
       {Overview} \cup SessionPaths(records, r) \cup ItemPaths(records, r),
       Quotes(records, {r}, {"summary", "sections"}))

\* What an item page copies of its records: a question, project or decision their
\* answers too.
ItemTexts(path) == IF path[1] \in QuestionTypes THEN {"summary", "answer"} ELSE {"summary"}

\* Mutant: a page that exists is replaced, not extended.
LastItemPage(records, path) ==
  LET r == Last(InOrder(RecordOrder, Contributors(records, path)))
  IN  Page(records, path, {r},
           {Overview, SummaryPath(r)} \cup ItemPaths(records, r) \cup SessionPaths(records, r)
             \cup (IF path[1] \in QuestionTypes THEN records[r].supporting ELSE {}),
           {SummaryPath(r)} \cup Quotes(records, {r}, ItemTexts(path)))

\* upsert_page: records with items of one type and slug share the page.
ItemPage(records, path) ==
  LET rs == Contributors(records, path)
  IN  Page(records, path, rs,
           {Overview} \cup (UNION {{SummaryPath(r)} \cup ItemPaths(records, r)
                                      \cup SessionPaths(records, r) : r \in rs})
             \cup (IF path[1] \in QuestionTypes
                   THEN UNION {records[r].supporting : r \in rs} ELSE {}),
           {SummaryPath(r) : r \in rs} \cup Quotes(records, rs, ItemTexts(path)))

SessionPage(records, s) ==
  LET rs == {r \in DOMAIN records : records[r].session = s}
  IN  Page(records, SessionPath(s), rs,
           {Overview} \cup UNION {{SummaryPath(r)} \cup ItemPaths(records, r) : r \in rs},
           Quotes(records, rs, {"summary"}))

\* Lists of pages, by the generator that makes them.  Each sorts its pages by path
\* and keeps the order of those that share one, the only order that matters.
GeneratedSummaries(records) ==
  LET order == InOrder(RecordOrder, DOMAIN records)
  IN  [i \in DOMAIN order |-> SummaryPage(records, order[i])]

GeneratedItems(records, types) ==
  LET paths == SetToSeq({p \in UNION {ItemPaths(records, r) : r \in DOMAIN records} : p[1] \in types})
  IN  [i \in DOMAIN paths |-> ItemPage(records, paths[i])]

GeneratedSessions(records) ==
  LET order == InOrder(SessionOrder, {records[r].session : r \in DOMAIN records})
  IN  [i \in DOMAIN order |-> SessionPage(records, order[i])]

PagePaths(ps) == {ps[i].path : i \in DOMAIN ps}

LogPage(records) == Page(records, Log, DOMAIN records, {}, {})

\* The catalog and the overview relate to the pages made before them; the catalog
\* copies their summaries.
IndexPage(records, ps) ==
  Page(records, Index, DOMAIN records, PagePaths(ps),
       PagePaths(ps) \cup {Overview, Log} \cup Quotes(records, DOMAIN records, {"summary"}))

OverviewPage(records, ps) ==
  Page(records, Overview, DOMAIN records, PagePaths(ps), {Index, Log})

ContentPages(records) ==
  GeneratedSummaries(records) \o GeneratedItems(records, ConceptTypes)
    \o GeneratedItems(records, QuestionTypes) \o GeneratedSessions(records)
    \o <<LogPage(records)>>

IndexedPages(records) ==
  ContentPages(records) \o <<IndexPage(records, ContentPages(records))>>

\* build_pages, before apply_backlinks.
GeneratedPages(records) ==
  IndexedPages(records) \o <<OverviewPage(records, IndexedPages(records))>>

PathOf(ps) == [i \in DOMAIN ps |-> ps[i].path]
Related(ps) == [i \in DOMAIN ps |-> ps[i].related]
WithRelated(ps, related) == [i \in DOMAIN ps |-> [ps[i] EXCEPT !.related = related[i]]]

Linked == cursor > Len(pages)
Idle == Linked /\ written

-----------------------------------------------------------------------------
(* The rebuild.                                                            *)

\* CompilerEngine.build_pages: the records are read, the pages generated.
BuildPages ==
  /\ Idle
  /\ built' = corpus
  /\ pages' = GeneratedPages(corpus)
  /\ start' = Related(pages')
  /\ cursor' = 0
  /\ written' = FALSE
  /\ UNCHANGED <<corpus, edits, disk>>

DropSelfLinks ==
  /\ cursor = 0
  /\ pages' = WithRelated(pages, DropSelf(PathOf(pages), Related(pages)))
  /\ cursor' = 1
  /\ UNCHANGED <<corpus, edits, built, start, written, disk>>

PropagateNext ==
  /\ cursor \in DOMAIN pages
  /\ pages' = WithRelated(pages, Propagate(PathOf(pages), Related(pages), cursor))
  /\ cursor' = cursor + 1
  /\ UNCHANGED <<corpus, edits, built, start, written, disk>>

\* Pages are written in list order: the later of two pages of one path stays.
\* Materializer has them written file by file.
WritePages ==
  /\ Linked /\ ~written
  /\ written' = TRUE
  /\ disk' = [p \in PagePaths(pages) |->
                LET i == CHOOSE i \in DOMAIN pages : pages[i].path = p /\ Owns(PathOf(pages), i)
                IN  pages[i]]
  /\ UNCHANGED <<corpus, edits, built, pages, start, cursor>>

-----------------------------------------------------------------------------
(* The rest of the system: ingest and fileback add records, prune removes  *)
(* them.  An answer cites compiled pages its author was shown.             *)

AddRecord ==
  /\ edits < MaxEdits
  /\ \E r \in Ids, s \in Shapes :
       /\ s.supporting \subseteq DOMAIN disk
       /\ corpus' = [q \in DOMAIN corpus \cup {r} |-> IF q = r THEN s ELSE corpus[q]]
  /\ edits' = edits + 1
  /\ UNCHANGED rebuildVars

RemoveRecord ==
  /\ edits < MaxEdits
  /\ \E r \in DOMAIN corpus : corpus' = [q \in DOMAIN corpus \ {r} |-> corpus[q]]
  /\ edits' = edits + 1
  /\ UNCHANGED rebuildVars

Init ==
  /\ corpus = <<>> /\ edits = 0 /\ built = <<>>
  /\ pages = <<>> /\ start = <<>> /\ cursor = 1
  /\ written = TRUE /\ disk = <<>>

Rebuild == BuildPages \/ DropSelfLinks \/ PropagateNext \/ WritePages

Next == Rebuild \/ AddRecord \/ RemoveRecord

Spec == Init /\ [][Next]_vars

-----------------------------------------------------------------------------
(* The graph checks of the linter, over compiled/ on disk.                 *)

\* extract_wikilinks of a rendered page: its sections and its Related section.
Wikilinks(p) == disk[p].links \cup disk[p].related

\* find_stale_wikilinks, error L201.
BrokenLinks ==
  UNION {{<<p, t>> : t \in Wikilinks(p) \ DOMAIN disk} : p \in DOMAIN disk}

\* find_orphaned_compiled_pages, warning L301.
Orphans ==
  {p \in DOMAIN disk \ {Overview} : \A q \in DOMAIN disk \ {p} : p \notin Wikilinks(q)}

-----------------------------------------------------------------------------
\* The variables keep their types.  A page is made from records that were read, and
\* once the first loop is over no page in memory is related to itself.
TypeOK ==
  /\ DOMAIN corpus \subseteq Ids /\ corpus \in [DOMAIN corpus -> Shapes]
  /\ edits \in 0..MaxEdits
  /\ DOMAIN built \subseteq Ids /\ built \in [DOMAIN built -> Shapes]
  /\ pages \in Seq(PageShape) /\ \A i \in DOMAIN pages : pages[i].ids \subseteq DOMAIN built
  /\ cursor # 0 => \A i \in DOMAIN pages : pages[i].path \notin pages[i].related
  /\ start \in [DOMAIN pages -> SUBSET Paths]
  /\ cursor \in 0..Len(pages) + 1
  /\ written \in BOOLEAN
  /\ DOMAIN disk \subseteq Paths /\ disk \in [DOMAIN disk -> PageShape]

\* What a rebuild leaves for the linter's graph checks: no orphan, and every broken
\* link was copied from a text of a record or cites a page whose records are gone.
LinterFindsOnlyCopiedLinks ==
  Idle => /\ Orphans = {}
          /\ \A link \in BrokenLinks :
               \E r \in DOMAIN built :
                 link[2] \in Quotes(built, {r}, Texts) \cup built[r].supporting

\* Pages on disk are related both ways, also when two of them shared a path.
RelatedIsMutual ==
  Idle => \A p, q \in DOMAIN disk : q \in disk[p].related <=> p \in disk[q].related

\* The page at path p is made from record r, among others, and spans its day.
FiledAt(r, p) ==
  p \in DOMAIN disk /\ r \in disk[p].ids /\ built[r].day \in disk[p].created..disk[p].updated

\* Every record a rebuild read is on its pages, within the days they span.  Item
\* pages lose nobody, however titles share slugs; a summary or session page may be
\* lost, but only to the page of another record or session with that very path.
RecordsAreFiled ==
  Idle => \A r \in DOMAIN built :
    /\ \A p \in ItemPaths(built, r) : FiledAt(r, p)
    /\ \/ FiledAt(r, SummaryPath(r))
       \/ \E q \in DOMAIN built \ {r} :
            SummaryPath(q) = SummaryPath(r) /\ FiledAt(q, SummaryPath(r))
    /\ \/ \A p \in SessionPaths(built, r) : FiledAt(r, p)
       \/ \E q \in DOMAIN built :
            /\ built[q].session # built[r].session
            /\ SessionPaths(built, q) = SessionPaths(built, r)
            /\ \A p \in SessionPaths(built, r) : FiledAt(q, p)

\* The loops over the pages close their links, as SymmetricLinks has it.
Links == INSTANCE SymmetricLinks
           WITH pathOf <- PathOf(pages),
                links <- IF Linked THEN Related(pages) ELSE start,
                closed <- Linked
LinksAreClosed == Links!Spec
=============================================================================
