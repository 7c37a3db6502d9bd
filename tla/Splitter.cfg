SPECIFICATION FairSpec
CONSTANTS
  SIZE = 4
  MaxParagraphs = 3
  MaxLength = 9
INVARIANTS
  ChunksFit
  ShortParagraphsWhole
  NothingLost
PROPERTY SplitEnds
CHECK_DEADLOCK FALSE
