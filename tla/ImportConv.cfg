\* Two importers over two sessions, one of them refused by the database.
CONSTANTS
  Importers = {r1, r2}
  Sessions = {a, b}
  Bad = {b}
  BatchSize = 2
  MaxLines = 2
  MaxFaults = 1
SPECIFICATION FairSpec
INVARIANTS
  TypeOK
  SilicaNeverAhead
  BadStaysVisible
PROPERTIES LinesArrive
