\* A file grows between its parse and its silica file.
CONSTANTS
  Importers = {r1}
  Sessions = {a}
  Bad = {}
  BatchSize = 2
  MaxLines = 2
  MaxFaults = 0
SPECIFICATION Spec
INVARIANTS
  SkippedIsImported
