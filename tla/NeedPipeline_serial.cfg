\* One run at a time with any dates, imports between and during the runs, one
\* failure.
CONSTANTS
  Runs = {r1}
  Convs <- MCConvs
  Commits = {1, 2}
  Sessions = {1, 2}
  SessionOf <- MCSessionOf
  StartTime <- MCStartTime
  Session <- MCSession
  Commit <- MCCommit
  Mainline = "main"
  NoPR = "none"
  NoNeed = NoNeed
  NoRun = NoRun
  LocalDay <- MCLocalDay
  UtcDay <- MCUtcDay
  MaxTime = 10
  MaxDay = 4
  WeekLen = 2
  MaxRuns = 3
  MaxFailures = 1
SPECIFICATION Spec
INVARIANTS
  TypeOK
  LinksAreMutual
  FullRunCovers
  RowsMatchNeeds
PROPERTIES
  RerunIsIdempotent
CHECK_DEADLOCK FALSE
