SPECIFICATION Spec
CONSTANTS
  None = None
  Unreadable = Unreadable
  Relevance <- MCRelevance
  PathHas <- MCPathHas
  PathBefore <- MCPathBefore
  Slug <- MCSlug
  Fold <- MCFold
  UriName <- MCUriName
  Surrogates = {"lone"}
  Day = 2
  Monday = 3
  Recency = 1000
  EndOfTime = 100
  Wikis <- MCWikis
  Messages <- MCMessages
  MaxFrames = 2
  Starts = {15}
  MaxTime = 16
CHECK_DEADLOCK FALSE
INVARIANTS
  TypeOK
  NamesCanBeRead
  SearchShowsTheBest
  RelativeDaysAreDates
PROPERTIES
  EveryRequestIsAnswered
