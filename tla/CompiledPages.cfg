SPECIFICATION Spec
CONSTANTS
  RecordOrder <- MCRecordOrder
  SessionOrder <- MCSessionOrder
  Shapes <- MCShapes
  Titles <- MCTitles
  Slug <- MCSlug
  SessionSlug <- MCSessionSlug
  SummarySlug <- MCSummarySlug
  NoSession = NoSession
  MaxEdits = 4
INVARIANTS TypeOK LinterFindsOnlyCopiedLinks RelatedIsMutual RecordsAreFiled
PROPERTIES LinksAreClosed
