\* One run of import-repo over any conversations.
CONSTANTS
  a = a
  b = b
  c1 = c1
  c2 = c2
  x = x
  y = y
  r1 = r1
  r2 = r2
  Convs <- MCConvs
  SessionOf <- MCSessionOf
  Prints <- MCPrints
  Commits = {c1, c2}
  Time <- MCTime
  Diff <- MCDiff
  MaxDays = 4
  NoCommit = NoCommit
  NoTask = NoTask
  Importers = {r1}
  WithPseudo = FALSE
  MaxRuns = 1
  MaxFaults = 0
  MaxCleans = 0
SPECIFICATION Spec
INVARIANT ClosestConversationWins
CHECK_DEADLOCK FALSE
