\* One submit of a form of a project's page; no other part does anything that counts.
CONSTANTS
  Items = {1}
  Ranges = {{1}}
  DefaultRange = {1}
  Names = {{1}}
  Sizes = {1, 2}
  DefaultSize = 2
  ServerFields = {}
  ClientFields = {}
  NoValue = NoValue
  NoRequest = NoRequest
  Pending = Pending
  MaxCommits = 0
  MaxCalls = 2
  p1 = p1
  c1 = c1
  r1 = r1
  r2 = r2
  r3 = r3
  t1 = t1
  t2 = t2
  Projects = {p1, p2}
  Present = {p1}
  NoProject = NoProject
  MaxJobs = 0
  Repos = {r1, r2, r3}
  Tasks = {t1, t2}
  TasksOf <- MCTasksOf
  FirstRepos <- MCFirstRepos
  FirstTasks = {t2}
  MaxSubmits = 1
  Late = {late}
  MaxHurried = 0
  Commits = {c1, c2}
  Listed = {c1, c2}
  Existing = {p1}
  Members <- MCMembers
  NewProject = NewProject
  MaxPresses = 2
  Figures = {"real"}
  Values = {1, 2}
  None = None
  Columns = {"minutes_manual", "minutes_reason_manual"}
  MaxSaves = 0
  MaxRuns = 0
  NumRows = 5
  PageSize = 2
  MaxPages = 2
  Retries = 1
  MaxChanges = 2
  NoData = NoData
  Lossy = FALSE
SPECIFICATION Spec
PROPERTY EditKeepsTasks
