CONSTANTS
  Urls <- SomeUrls
  Titles <- SomeTitles
  FileName <- Files
  Sources <- TheSources
  TitleOf <- TitleAt
  Blobs <- SomeBlobs
  Pages = 3
  CONC = 3
SPECIFICATION Spec
INVARIANTS
  TypeOK
  InOnePlace
  NothingLost
  RecordsSaved
PROPERTIES
  KeepsPool
  Completes
CHECK_DEADLOCK FALSE
