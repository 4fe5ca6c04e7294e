\* Two runs at once, then a third; imports at any time, no failure.
CONSTANTS
  Runs = {r1, r2}
  Convs <- MCTwoConvs
  Commits = {1}
  Sessions = {1, 2}
  SessionOf <- MCSessionOf
  StartTime <- MCStartTime
  Session <- MCSession
  Commit <- MCCommit
  Mainline = "main"
  NoPR = "none"
  NoNeed = NoNeed
  NoRun = NoRun
  LocalDay <- MCLocalDay
  UtcDay <- MCUtcDay
  MaxTime = 10
  MaxDay = 4
  WeekLen = 2
  MaxRuns = 3
  MaxFailures = 0
SPECIFICATION Spec
INVARIANTS
  LinksAreMutual
  RowsMatchNeeds
SYMMETRY MCRuns
CHECK_DEADLOCK FALSE
