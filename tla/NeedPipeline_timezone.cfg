\* One run after some imports.
CONSTANTS
  Runs = {r1}
  Convs <- MCConvs
  Commits = {1, 2}
  Sessions = {1, 2}
  SessionOf <- MCSessionOf
  StartTime <- MCStartTime
  Session <- MCSession
  Commit <- MCCommit
  Mainline = "main"
  NoPR = "none"
  NoNeed = NoNeed
  NoRun = NoRun
  LocalDay <- MCLocalDay
  UtcDay <- MCUtcDay
  MaxTime = 10
  MaxDay = 4
  WeekLen = 2
  MaxRuns = 1
  MaxFailures = 0
SPECIFICATION Spec
INVARIANT RangeIsOfDates
CHECK_DEADLOCK FALSE
