SPECIFICATION Spec
CONSTANTS
  Blank = blank
  Junk = junk
  NoCategory = blank
  Unparsable = unparsable
  None = none
  MaxRows = 7
  MaxErrors = 2
  RelatedLimit = 3
  IntMax = 90
  AmountMax = 60000
  TextMax = 8
  Workers = {w1, w2}
  Cases <- MCCases
INVARIANTS
  TypeOK
  StoreMatchesDatabase
  AnnouncedFileIsWhole
  
  DropsAreWarned
  LoadedAsAccepted
  RelatedIsMutual
  GraphIsClosed
  AnalyticsAgree
  RulesAreExplained
PROPERTIES
  UploadSettles
CHECK_DEADLOCK FALSE
