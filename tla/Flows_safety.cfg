\* One change of the address of the task list; a project to create or to delete, with
\* a column of each kind, so that there are three keys.
CONSTANTS
  Items <- MCItems
  Ranges <- MCRanges
  DefaultRange <- MCDefault
  Names <- MCNames
  Sizes = {1, 2}
  DefaultSize = 2
  ServerFields = {"startTime"}
  ClientFields = {"efficiencyRatio"}
  NoValue = NoValue
  NoRequest = NoRequest
  Pending = Pending
  MaxCommits = 1
  MaxCalls = 2
  p1 = p1
  c1 = c1
  r1 = r1
  r2 = r2
  r3 = r3
  t1 = t1
  t2 = t2
  Projects = {p1, p2, p3}
  Present = {p1}
  NoProject = NoProject
  MaxJobs = 1
  Repos = {r1, r2, r3}
  Tasks = {t1, t2}
  TasksOf <- MCTasksOf
  FirstRepos <- MCFirstRepos
  FirstTasks = {t2}
  MaxSubmits = 2
  Late = {late}
  MaxHurried = 2
  Commits = {c1, c2, c3}
  Listed = {c1, c2}
  Existing = {p1}
  Members <- MCMembers
  NewProject = NewProject
  MaxPresses = 3
  Figures = {"real"}
  Values = {1, 2}
  None = None
  Columns = {"minutes_manual", "minutes_reason_manual"}
  MaxSaves = 3
  MaxRuns = 1
  NumRows = 5
  PageSize = 2
  MaxPages = 2
  Retries = 1
  MaxChanges = 2
  NoData = NoData
  Lossy = TRUE
SPECIFICATION Spec
INVARIANTS TypeOK RowsTellOutcome NoFreshGhosts SavedStays RestingIsTrue StillTableWhole
PROPERTIES RemovesWhatItNames AddsOnlyVetted ConflictsAreConfirmed
