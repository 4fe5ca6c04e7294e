\* Two runs of import-repo, or one of createPseudoTasks, one fault and one clean.
CONSTANTS
  a = a
  b = b
  c1 = c1
  c2 = c2
  x = x
  y = y
  r1 = r1
  r2 = r2
  Convs <- MCConvs
  SessionOf <- MCSessionOf
  Prints <- MCPrints
  Commits = {c1, c2}
  Time <- MCTime
  Diff <- MCDiff
  MaxDays = 4
  NoCommit = NoCommit
  NoTask = NoTask
  Importers = {r1, r2}
  WithPseudo = TRUE
  MaxRuns = 2
  MaxFaults = 1
  MaxCleans = 1
SPECIFICATION Spec
INVARIANTS TypeOK LinkNamesTask ForcedRunRepairs
SYMMETRY Interchangeable
CHECK_DEADLOCK FALSE
