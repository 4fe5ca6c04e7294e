--------------------------------- MODULE Flows ---------------------------------
(***************************************************************************)
(* The parts of frontend-react that set requests to work one after another *)
(* and can be used meanwhile: the ticks, the dialog and the estimate of the*)
(* task list, the dialogs of the list and of the page of projects, of a    *)
(* repository and of the manual figures, and the loop that fetches all     *)
(* rows. They share no state: `flow` is the part that is looked at.        *)
(***************************************************************************)
EXTENDS Naturals, FiniteSets, Sequences

CONSTANTS
  Items, Ranges, DefaultRange, Names, Sizes, DefaultSize,  \* see TaskList
  ServerFields, ClientFields, NoValue,
  NoRequest, Pending, MaxCommits, MaxCalls,
  Projects, Present, NoProject, MaxJobs,                   \* see ProjectList
  Repos, Tasks, TasksOf, FirstRepos, FirstTasks,           \* see ProjectEditing
  MaxSubmits, MaxHurried, Late, \* of a user who waits; of one who does not
  Commits, Listed, Existing, Members, NewProject, MaxPresses,  \* see AddToProject
  Figures, Values, None, Columns, MaxSaves, MaxRuns,       \* see ManualAdjust
  NumRows, PageSize, MaxPages, Retries, MaxChanges,        \* see PagedFetch
  NoData, Lossy

ASSUME FlowsAssumption ==
  /\ IsFiniteSet(Items) /\ Items # {}
  /\ DefaultRange \in Ranges /\ Ranges \subseteq SUBSET Items
  /\ Items \in Names /\ Names \subseteq SUBSET Items
  /\ DefaultSize \in Sizes /\ Sizes \subseteq Nat \ {0}
  /\ ServerFields \cap ClientFields = {}
  /\ Present \subseteq Projects /\ Existing \subseteq Projects
  /\ {NewProject, NoProject} \cap Projects = {}
  /\ TasksOf \in [Repos -> SUBSET Tasks]
  /\ FirstRepos \in Seq(Repos) /\ FirstTasks \subseteq Tasks
  /\ Late \cap {"edit", "repo", "task", "removeTask", "removeRepo"} = {}
  /\ Listed \subseteq Commits /\ Members \in [Existing -> SUBSET Commits]
  /\ None \notin Values /\ Lossy \in BOOLEAN
  /\ NumRows \in Nat /\ PageSize \in Nat \ {0} /\ MaxPages \in Nat \ {0} /\ Retries \in Nat
  /\ MaxSubmits \in Nat /\ MaxHurried \in Nat /\ MaxPresses \in Nat
  /\ \A S \in SUBSET Projects : NoData # S
  /\ NoData \notin [repos : Seq(Repos), tasks : SUBSET Tasks]
  /\ LET Cells == [Figures -> Values \cup {None}] IN NoData \notin [auto : Cells, manual : Cells]

VARIABLES
  flow,
  url, draft, calls, loading, failed, rowsOf, commits, meant, early,
  lacking, covered, selected, addOpen, adding, estimate, estimates, \* see TaskList
  data, stale, flight,                                     \* see QueryCache
  projects, order, createOpen, creating, pendingDelete, deleting, victim, jobs,
  created, known, shows, lacks, gone, crossed,             \* see ProjectList
  repos, added, dialog, forms, submits, saved, doubt, guess, \* see ProjectEditing
  members, open, selectedProject, whitelistMode, whitelist, conflicts,
  conflictsChecked, addJob, presses, vetted, shown, overtaken, \* see AddToProject
  auto, manual, manualOpen, figures, manualJob, saves, runs, last, \* see ManualAdjust
  table, page, all, call, state, tries, changes      \* see PagedFetch

ofTasks == <<url, draft, calls, loading, failed, rowsOf, commits, meant, early,
             lacking, covered, selected, addOpen, adding, estimate, estimates>>
cache == <<data, stale, flight>>
ofList == <<projects, order, createOpen, creating, pendingDelete, deleting, victim,
            jobs, created, known, shows, lacks, gone, crossed>>
ofProject == <<repos, added, dialog, forms, submits, saved, doubt, guess>>
ofRepo == <<members, open, selectedProject, whitelistMode, whitelist, conflicts,
            conflictsChecked, addJob, presses, vetted, shown, overtaken>>
ofFigures == <<auto, manual, manualOpen, figures, manualJob, saves, runs, last>>
ofFetch == <<table, page, all, call, state, tries, changes>>
vars == <<flow, ofTasks, cache, ofList, ofProject, ofRepo, ofFigures, ofFetch>>

TaskPage == INSTANCE TaskList WITH Tasks <- Items, MaxEstimates <- 1
List     == INSTANCE ProjectList
Waiting  == INSTANCE ProjectEditing WITH job <- forms, Patient <- TRUE
Hurried  == INSTANCE ProjectEditing WITH job <- forms, Patient <- FALSE, MaxSubmits <- MaxHurried
Adding   == INSTANCE AddToProject WITH job <- addJob
OfTask    == INSTANCE ManualAdjust WITH open <- manualOpen, draft <- figures, job <- manualJob,
               Clears <- TRUE, Patient <- FALSE
OfProject == INSTANCE ManualAdjust WITH open <- manualOpen, draft <- figures, job <- manualJob,
               Clears <- FALSE, Patient <- TRUE
Fetch    == INSTANCE PagedFetch

\* The state of the parts that are not looked at.
NoTasks == /\ url = <<>> /\ draft = <<>> /\ calls = {} /\ loading = FALSE /\ failed = FALSE
           /\ rowsOf = NoRequest /\ commits = 0 /\ meant = <<>> /\ early = FALSE
           /\ lacking = FALSE /\ covered = FALSE /\ selected = {} /\ addOpen = FALSE /\ adding = <<>>
           /\ estimate = <<>> /\ estimates = 0
NoCache == data = <<>> /\ stale = {} /\ flight = <<>>
NoList == /\ projects = {} /\ order = <<>> /\ createOpen = FALSE /\ creating = List!Nothing
          /\ pendingDelete = NoProject /\ deleting = List!Nothing /\ victim = NoProject
          /\ jobs = 0 /\ created = NoProject /\ known = {} /\ shows = {} /\ lacks = {}
          /\ gone = {} /\ crossed = {}
NoPage == /\ repos = <<>> /\ added = {} /\ dialog = Waiting!NoDialog
          /\ forms = [f \in Waiting!Slots |-> Waiting!NoJob] /\ submits = 0 /\ saved = {}
          /\ doubt = FALSE /\ guess = FALSE
NoRepo == /\ members = <<>> /\ open = FALSE /\ selectedProject = NoProject
          /\ whitelistMode = FALSE /\ whitelist = {} /\ conflicts = {}
          /\ conflictsChecked = FALSE /\ addJob = Adding!NoJob /\ presses = 0
          /\ vetted = {} /\ shown = {} /\ overtaken = FALSE
NoFigures == /\ auto = <<>> /\ manual = <<>> /\ manualOpen = FALSE /\ figures = <<>>
             /\ manualJob = OfTask!NoJob /\ saves = 0 /\ runs = 0 /\ last = <<>>
NoFetch == /\ table = {} /\ page = 1 /\ all = <<>> /\ call = <<"none">> /\ state = "done"
           /\ tries = 0 /\ changes = 0

AnyUser == {"project", "project, hurried"}
OfFigures == {"figures of a task", "figures of a project"}

Init ==
  \/ /\ flow = "tasks" /\ TaskPage!Init
     /\ NoCache /\ NoList /\ NoPage /\ NoRepo /\ NoFigures /\ NoFetch
  \/ /\ flow = "projects" /\ List!Init
     /\ NoTasks /\ NoPage /\ NoRepo /\ NoFigures /\ NoFetch
  \/ /\ flow \in AnyUser /\ Waiting!Init
     /\ NoTasks /\ NoList /\ NoRepo /\ NoFigures /\ NoFetch
  \/ /\ flow = "repository" /\ Adding!Init
     /\ NoTasks /\ NoCache /\ NoList /\ NoPage /\ NoFigures /\ NoFetch
  \/ /\ flow \in OfFigures /\ OfTask!Init
     /\ NoTasks /\ NoList /\ NoPage /\ NoRepo /\ NoFetch
  \/ /\ flow = "fetch" /\ Fetch!Init
     /\ NoTasks /\ NoCache /\ NoList /\ NoPage /\ NoRepo /\ NoFigures

InTasks(A) == flow = "tasks" /\ A /\ UNCHANGED <<flow, cache, ofList, ofProject, ofRepo, ofFigures, ofFetch>>
InList(A) == flow = "projects" /\ A /\ UNCHANGED <<flow, ofTasks, ofProject, ofRepo, ofFigures, ofFetch>>
InProject(f, A) == flow \in f /\ A /\ UNCHANGED <<flow, ofTasks, ofList, ofRepo, ofFigures, ofFetch>>
InRepo(A) == flow = "repository" /\ A /\ UNCHANGED <<flow, ofTasks, cache, ofList, ofProject, ofFigures, ofFetch>>
InFigures(f, A) == flow = f /\ A /\ UNCHANGED <<flow, ofTasks, ofList, ofProject, ofRepo, ofFetch>>
InFetch(A) == flow = "fetch" /\ A /\ UNCHANGED <<flow, ofTasks, cache, ofList, ofProject, ofRepo, ofFigures>>

Next ==
  \/ InTasks(TaskPage!Next)
  \/ InList(List!Next)
  \/ InProject({"project"}, Waiting!Next)
  \/ InProject({"project, hurried"}, Hurried!Next)
  \/ InRepo(Adding!Next)
  \/ InFigures("figures of a task", OfTask!Next)
  \/ InFigures("figures of a project", OfProject!Next)
  \/ InFetch(Fetch!Next)

Spec == Init /\ [][Next]_vars

\* Every request and every fetch ends, answered or timed out; the user owes nothing.
FairSpec ==
  /\ Spec
  /\ WF_vars(InList(List!CreateStep)) /\ WF_vars(InList(List!DeleteStep))
  /\ \A k \in List!Keys : WF_vars(InList(List!FetchStep(k)))
  /\ WF_vars(InProject(AnyUser, Waiting!FetchStep))
  /\ \A f \in Waiting!Forms : /\ WF_vars(InProject(AnyUser, Waiting!BackendStep(f)))
                               /\ WF_vars(InProject(AnyUser, Waiting!JobStep(f)))
  /\ WF_vars(InRepo(Adding!Backend \/ Adding!Answers))
  /\ WF_vars(InFigures("figures of a task", OfTask!JobStep))
  /\ WF_vars(InFigures("figures of a project", OfProject!JobStep))
  /\ \A f \in OfFigures : WF_vars(InFigures(f, OfTask!FetchStep))
  /\ WF_vars(InFetch(Fetch!FetchStep))
-----------------------------------------------------------------------------

TypeOK ==
  /\ flow = "tasks" => TaskPage!TypeOK
  /\ flow = "projects" => List!TypeOK
  /\ flow = "project" => Waiting!TypeOK
  /\ flow = "project, hurried" => Hurried!TypeOK
  /\ flow = "repository" => Adding!TypeOK
  /\ flow \in OfFigures => OfTask!TypeOK
  /\ flow = "fetch" => Fetch!TypeOK

\* Once what a creation or a deletion fetches is there, the list of projects
\* shows the one and lacks the other, whichever fetches were under way before and
\* whatever is clicked meanwhile.
RowsTellOutcome == flow = "projects" => List!RowsTellOutcome

\* After a deletion no entry of another order that still holds the project
\* counts as fresh, unless its fetch was under way when the deletion returned.
NoFreshGhosts == flow = "projects" => List!NoFreshGhosts

\* Of a user who waits for the page to be at rest, the entry that is removed is
\* the one the dialog names: between the answer an index was taken from and the
\* removal the array has not moved (ProjectDetail.tsx:537). Not so when the dialog
\* was filled while, or before, a request was reported failed.
RemovesWhatItNames == [][flow = "project" => Waiting!RemovesNamed]_vars

\* A repository whose saving was confirmed, with nothing else under way until the
\* page was fetched again, stays until a removal takes its entry: no later request
\* writes back a row read, or a list shown, without it, of a user who waits or not,
\* also when requests are reported failed that the backend carries out at any time.
SavedStays == flow \in AnyUser => Hurried!SavedStays

\* What is added to a project is what the user had before him: of tasks the ticked
\* ones on the screen, not ticks on rows replaced or filtered out since; of commits,
\* when they are listed, those that were checked for being in a project already,
\* unless the selection was changed while its check was under way (TaskList.tsx:222,
\* RepoDetail.tsx:544). It is not so of a selection changed under its check (:631),
\* nor without a list, when the whole branch is added and those of the dates were
\* checked (:593).
AddsOnlyVetted ==
  [][/\ flow = "tasks" => TaskPage!AddsVisible
     /\ flow = "repository" => Adding!AddsChecked]_vars

\* A commit that the check found in a project is only added again after the user
\* has seen it on the list of conflicts of the dialog, and pressed once more.
ConflictsAreConfirmed == [][flow = "repository" => Adding!ConflictsConfirmed]_vars

\* Once a page is at rest it shows what is in the database: the project, in
\* whatever order the reloads of several forms have overtaken each other, also
\* for a user who does not wait (ProjectDetail.tsx:965), unless a request was
\* reported failed since the page was fetched; and the figures saved last, however
\* closing and opening their dialog, reloads and new runs of kbcli were interleaved,
\* of a task also that a figure was emptied.
RestingIsTrue ==
  /\ flow \in AnyUser => Hurried!RestingIsTrue
  /\ flow = "figures of a task" => OfTask!SavedIsShown
  /\ flow = "figures of a project" => OfProject!SavedIsShown

\* Of a table that does not change, all rows are fetched, once and in order, up
\* to MAX_PAGES pages, whatever was tried before (endpoints.ts:57).
StillTableWhole == flow = "fetch" => Fetch!StillTableWhole

\* The buttons of the dialogs, disabled while requests and the fetches after them
\* are under way, are given back whatever fails.
ButtonsComeBack ==
  /\ List!ButtonsComeBack
  /\ Waiting!FormsComeBack
  /\ Adding!ButtonComesBack
  /\ OfTask!ButtonComesBack

\* The loop that fetches all rows comes to an end, however the table changes.
FetchEnds == Fetch!FetchEnds

-----------------------------------------------------------------------------
(* What a comment of the code says and the code does not do.               *)

\* ProjectDetail.tsx:601: the form sends back what it does not show, or the
\* backend would empty it. That holds of the repositories, not of the tasks.
EditKeepsTasks == [][flow = "project" => Waiting!EditKept]_vars
=============================================================================
