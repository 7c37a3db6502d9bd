SPECIFICATION Spec
CONSTANTS
  Articles = {a1, a2}
  Requests = {r1, r2}
  Texts = {short, long}
  short = short
  long = long
  Pieces <- MCPieces
  Null = Null
  Keep = Keep
  MaxRebuilds = 4
INVARIANTS
  TypeOK
  VectorsMatch
  ChunksWhole
PROPERTY FreshRebuildExact
