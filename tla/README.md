# Specification of the efficiency dashboard

TLA+ models of the efficiency dashboard, the TLC runs that check them and the
proofs that TLAPS checks. Paths are relative to the repository root, which is
`src/` in `PROJECT.json`; frontend paths without `frontend-react` are relative
to `frontend-react/src`.

The dashboard collects what AI coding tools and Git report, attributes commits
to conversations ("silica"), groups sessions and commits into *needs* and shows
how much time was saved per user and week. `kbcli` (Go) imports and computes,
`backend` (Go) serves the tables over HTTP, `frontend-react` (TypeScript, React)
shows them and lets people edit projects and correct figures. All state that
survives a process is in PostgreSQL and in two directory trees: the files of the
collectors and the silica files that `kbcli` derives from them. The state of the
web interface is in the address bar, in components and in the query cache.

## 1. Inventory

| Component | State | Operations | Hard behaviour | Correct when |
|---|---|---|---|---|
| **Task queue** `kbcli/task_queue.go` | map of tasks, channel of ids (100), workers (2), contexts | Submit, Cancel, Get, List, worker, runTask, Stop | select statements with several ready cases, two locks, callbacks without a context, close of a channel under blocked senders | terminal statuses stay, no id is lost or run twice, a running callback occupies a worker, Stop and Submit return |
| **Conversation import** `kbcli/cmd_import_conv.go` | conversation and summary files, silica files, tables `sessions`, `conversations` | scan, parse, flush a batch, fall back to single sessions, write the silica file | files grow while they are read; a batch fails as a whole; a crash between commit and file; two imports at once | a silica file is never ahead of the table; every line arrives in the end; a refused record stays visible |
| **Repository import, silica** `kbcli/cmd_import_repo.go`, `silica.go` | tables `commits`, `tasks`, column `conversations.task_id` | index of fingerprints, match a commit, save tasks, link conversations, save the commit | errors that are only warned about before the commit is saved; two commits that claim one conversation | a conversation names a task that exists; a forced run repairs |
| **Pseudo-tasks** `kbcli/pseudo_task.go` | the same tables | one task per session, takes every conversation over | overwrites links and manual columns | as above |
| **Repair** `kbcli/cmd_clean.go`, `cmd_fix_task.go`, `cmd_fix_commit.go` | rows, titles and `*_manual` columns | delete what is old; fill in what is missing with a language model | table by table; long loops over rows read at the start | what is left can be repaired |
| **Efficiency pipeline** `kbcli/cmd_efficiency_v2.go`, `kbcli/internal/efficiencyv2` | tables `conversation_events`, `session_stage_metrics`, `needs`, `user_productivity_v2` | events, stage metrics, need boundary, links, actuals, weekly rows | separate transactions, date windows, overlapping runs, imports between steps, failures | a rerun changes nothing; links and actuals agree; an undisturbed run repairs what others left |
| **List pages** `pages/{tasks,commits,repos,needs,users}`, **organisation page** `pages/orgs` | the address, the fields, rows, ticks, open branches | filter, dates, order, page, size, links, reload, menu | answers out of order, time-outs after the user has gone on, fields not applied yet | the rows are those of the address; nothing set is lost; never an empty page |
| **Query cache** `api/queries.ts`, `main.tsx` | entries, freshness, fetches under way | fetch, invalidate, retry, expire | joins and replaces fetches | see its users |
| **Project list, project page** `pages/projects`, `backend/project_handler_v2.go` | projects, arrays of repositories, tasks | create, delete; add, change and remove repositories and tasks | indices taken from the screen, read-modify-write without a transaction, fetches that began before a change | what is saved stays and is shown; what the dialog names is removed |
| **Adding to a project** `pages/repos/RepoDetail.tsx` | selection, result of the check | check for conflicts, confirm, create, add | the selection changes between check and addition | only what was checked is added |
| **Manual figures** `pages/tasks/TaskDetail.tsx`, `commits/CommitDetail.tsx`, `backend/db.go` | figures computed and entered | open, enter, save | reloads under an open dialog, kbcli computes anew | what was saved is shown |
| **Fetching all rows** `api/endpoints.ts` | the loop over pages | request page after page | the table changes between pages | it ends; a still table is fetched whole |
| **Organisations** `kbcli/cmd_import_org.go`, `cmd_import_dept.go`, `backend/org_handler_v2.go`, `dept_tree_handler.go` | tables `user_org`, `dept`, `dept_user`; cache of the backend | import, projection, refresh | two writers of the same columns, three transactions | a real organisation is never replaced by a placeholder |
| **Task API, cron, import** `kbcli/cmd_serve.go`, `exec_cmd.go` | -- (uses the queue) | HTTP handlers, cron entries, the steps of `import` | failed steps are only logged | what a client is told is what happens |
| **Baselines, fusion, estimators, check, views, dashboard, detail pages, presentation, deployment** | -- or columns computed row by row | formulas, queries, cards | little | -- |

How they interact: an HTTP client, the cron (`configs/kbcli-config.yaml`
203-219) or the start-up command *submits* to the task queue; a worker calls
`executeImport`, which runs import-conv, import-repo, import-org, import-dept and
efficiency-v2 one after another; these read and write the same tables and files
as every other worker, as the CLI and as the collectors. Nothing but the
database's transactions and unique keys separates them. import-conv writes the
silica files that import-repo indexes; the pipeline reads the tables of both.
The web interface reads those tables through the backend, page by page while
they change, and writes projects and manual figures, which kbcli never touches.

`PROJECT.json` lists every component with its status and, under `hazards`, the
places where something can go wrong that a test would hardly reach.

## 2. Modules

| Module | Models | Notes |
|---|---|---|
| `TaskLifecycle` | what the task API promises about one task | abstract |
| `TaskQueue`, `TaskQueueProofs` | `kbcli/task_queue.go` | implements `TaskLifecycle` |
| `ImportConv`, `ImportConvProofs` | `kbcli/cmd_import_conv.go` | collectors are external |
| `TaskLinks`, `TaskLinksProofs` | `kbcli/cmd_import_repo.go`, `silica.go`, `pseudo_task.go`, `cmd_clean.go` | |
| `NeedPipeline`, `NeedPipelineProofs` | `kbcli/cmd_efficiency_v2.go` and the steps of `internal/efficiencyv2` | |
| `PageView` | what a page that loads from the address promises | abstract |
| `PageLoad`, `PageLoadProofs` | the effect every page loads with | implements `PageView` |
| `ListOrder` | orders, page bars, what the backend cuts out | `lib/sort.ts`, `components/ui/Pagination.tsx`, `backend/sort.go` |
| `UrlPage`, `UrlPageProofs` | a page whose state is its query string | uses `PageLoad`; parameters `Read`, `Write`, `Params` |
| `TaskList`, `CommitList`, `RepoList`, `NeedList`, `UserList` | one list page each | use `UrlPage`, `ListOrder` |
| `OrgTree` | organisation page | uses `PageLoad` |
| `Pages`, `PagesProofs` | the pages as the router shows them | composes the six pages |
| `QueryCache` | the query cache, as the hooks configure it | the library is external |
| `ProjectList`, `ProjectEditing`, `ManualAdjust` | dialogs over the cache, with the handlers of the backend | use `QueryCache` |
| `AddToProject`, `PagedFetch` | the dialog of a repository; the loop that fetches all | |
| `Flows`, `FlowsProofs` | the above and the dialogs of the task list | composes them |
| `MCNeedPipeline`, `MCTaskLinks`, `MCPages`, `MCFlows` | instances for TLC | |

A definition marked *faulty* in a comment is a plausible bug. It is in no
next-state relation; `PROJECT.json` lists it under `mutants` with the property
that finds it when it takes the place of the real definition.

### TaskQueue

`status`, `stamps` are `AsyncTask.Status` and the writes of `CompletedAt`;
`ctxDone` holds the tasks whose own context is cancelled, and a task's context
is also done when the queue's is; `taskCh` is the channel; `submit`, `wpc`,
`stop` are the program counters of a Submit call, a worker and Stop; `fn` is the
goroutine of a callback. An action is one critical section, one channel
operation or one choice of a `select`: `Register`, then `Enqueue` or `GiveUp` and
`Refuse` (the `Done` case and the recovered panic of a send on a closed channel
lead to the same code); `Cancel`; the worker's `Exit`, `Receive`, `Skip`, `Start`,
`Finish`, `ObserveDone`, `Drain`; `StopCancel`, `StopClose`, `StopReturn`. When
both cases of a select are ready either may be taken. Get and List only read.
The data races of handlers that print `task.Status` without the lock are not
modelled: nothing else sees the value.

### ImportConv

A session has one conversation file, `lines` complete lines and perhaps half of
another (`torn`), and perhaps a summary. Rows are inserted once per line, so
`table` counts them. `silica` records the size of the file and the lines the
fingerprints were made from. An importer (`pc`, `force`, `todo`, `batch`,
`pending`, `ready`) scans, parses into a batch, commits the batch or falls back
to its sessions one by one, writes the silica files of what was committed, and
goes on. The collectors may append at any time, in two writes per line. Every
statement and file may fail and the process may die, `MaxFaults` times. Sessions
in `Bad` hold a record the database always refuses. Left out: files of one
session under several dates, date windows, the contents of a conversation.

### TaskLinks

A conversation is the number of the moment it ended at, so that *later* and *in
the window of a commit* are comparisons. `stored` are the imported ones, `taskOf`
is `conversations.task_id`, `tasks` maps an id (session and commit, or the session
alone for a pseudo-task) to the conversations the row spans, `commits` is the
table. The matching is pure: `OwnerOfLine` is the index of fingerprints, `InWindow`
the window, `Matched`, `Contributors` and `Span` what `buildCommitTasks` finds. A
run of import-repo (`pc`, `forced`, `idx`, `todo`, `current`, `left`) is one action
per statement: the index and the scan, then per commit the tasks in one statement
(`SaveTasks`), the conversations in one per session (`Link`), the commit
(`SaveCommit`). Each has its failure as the code handles it: after
`SaveTasksFails` the commit is saved all the same. Between any two statements
another run, an import, `createPseudoTasks` (`SavePseudo`, `LinkPseudo`), `clean`
or a crash may come. `clean` deletes commits, then tasks, each up to a batch that
fails; it never deletes conversations (section 6). `calm` and `cleaned` are history
variables: the run that nothing has disturbed since it began, and the tasks
deleted. Left out: the dates of files, several users and repositories, and the
figures of a task or commit.

### NeedPipeline

Instants are numbers, each on a day of the database session (`LocalDay`, by which
every comparison with a date goes) and on a day in UTC (`UtcDay`, by which missing
dates and weeks are found); the two differ because no connection names a time zone
(`core/config/database.go:16`). `convs` and `commits` are what the imports have
committed; `events`, `metrics` (with `need_id`), `needs` and `rows` are the four
tables. Users, repositories, branches, instants and PR numbers are given by the
constants `Session` and `Commit`. A run has a window (`win`), a program counter and
the slice it carries from one step to the next (`local`, `links`). The steps are
`UpsertEvents`, `UpsertMetrics`, `UpsertNeeds`, `LinkMetrics` (one `UPDATE` per need),
`LinksWritten`, `UpsertActuals`, `LoadNeeds`, `WriteRows`; between any two another run
may step, an `Import` may commit, or the run may `Fail`. A missing date is taken from
the imported conversations, as `LookupEfficiencyV2ConversationDateRange` does: a run
without dates sees no commit outside them, and, ending on the last day in UTC, may see
no conversation of the newest local day (`time_zone`). The steps that read several
tables and then write (`UpsertEvents`, `UpsertNeeds`, `UpsertActuals`) are one action
each: other runs step between the steps of a run, not within one. `calm` and `done`
are history variables: the run that has had the database to itself since it started,
and what it left. Left out: the issue and file-cluster levels of the boundary chain,
the evidence in a session's payload that can replace its key
(`efficiency_v2_need_boundary.go:255-277`, `318-328`), merge commits, filters by
organisation, how a session is split into stages, and the baseline columns.

### Pages

The list pages repeat one pattern, copied from file to file: the query string is
parsed into a state, handlers write a new string, an effect loads the rows whenever
the string changes, and fields hold what is typed until "query" is pressed. `PageLoad`
is the effect: every run aborts the request before it, which is not cancelled but no
longer counts, and answers and 30-second time-outs (`End`) come in any order.
`UrlPage` is the pattern with what a page reads, writes and asks for as parameters.
Each page's module has the handlers of its file under their names and says what its
`StateFromParams`, `BuildQuery` and `BuildParams` are: that is where the pages differ,
and where the bugs are. Rows are numbers, dates and filters sets of rows that match
them; an order is the set of the pairs it puts one before the other, and a row stands
where its rank says (`InOrder`). `OrgTree` has the branches that are open, the
department chosen, and the members loaded for it. `Pages` shows one page at a time:
the router mounts a page anew whenever it is opened and unmounts the one that is left,
so nothing survives a change of page and `shown` never has to change. The task list
has one line for every message: the outcome of an addition or an estimate takes the
place of the message that the load failed (`covered`; `Cover` in `PageView`). The
filters by organisation, which no field sets, are left out.

### Flows

`Flows` holds what sets one request to work after another and can be used meanwhile.
`QueryCache` has per key the last answer, whether it is fresh, and the fetch under
way, whose answer is taken from the backend at a moment of its own (`Read`) before it
arrives (`Settle`); when the connection comes back an entry in use that is not fresh
is fetched again (`Reconnect`, which `main.tsx:15` leaves on). On it rest
`ProjectList` (one key per order; creation and deletion with the refetches after
them), `ProjectEditing` (the forms of a project, the read-modify-write of
`project_handler_v2.go` and the two statements of a save, one reload per form) and
`ManualAdjust` (figures computed and entered, the dialog, the request). A request of
the project's page that is reported failed may have been carried out, half or in full,
or move into a slot of `Late` and be carried out at any time after; `doubt` and
`guess` remember that there was one since the page was fetched, and since (or before)
the dialog was filled. `AddToProject` is the dialog of a repository, usable while its
requests are under way, with its check and confirmation (`overtaken`: the selection
was changed under a check), and `PagedFetch` the loop of `getAllNeedsV2`. The parts
share no state; `flow` is the part looked at, and some appear twice, for a user who
waits for a page to be at rest (`Patient`) and one who does not. The composition
exists so that every part is checked in one run with the type invariant and the
fairness all of them need. History variables say what a part owes: `saved`, `doubt`,
`guess`, `last`, `vetted`, `shown`, `overtaken`, `shows`, `lacks`, `gone`, and
`known`, all projects there have ever been, since the database gives no id twice.

## 3. Runs

| Run | Instance | Shows |
|---|---|---|
| `queue` | 3 Submit calls, 2 workers, 1 slot | no id lost or duplicated, refused tasks never start, a running callback holds a worker, Stop is quiet; every task ends or the queue stops, Submit and Stop return; `TaskQueue` implements `TaskLifecycle` |
| `import` | 2 importers, 2 sessions (1 refused), batches of 2, 2 lines, 1 fault | `SilicaNeverAhead`, `BadStaysVisible`, `LinesArrive` |
| `links` | 3 conversations of 2 sessions, 2 commits, 2 runs, 1 fault, 1 clean | a conversation names a task that exists (`LinkNamesTask`); a forced run nothing disturbs repairs whatever was left (`ForcedRunRepairs`) |
| `rollup_serial` | runs one after another, 3 runs, 1 failure, any dates, 3 conversations, 2 commits | a rerun changes nothing; links are mutual; a run without dates counts everything on the days it looks at; the rows of the weeks inside the window are those of the whole table of needs |
| `rollup_concurrent` | 2 runs at once and a third, 2 conversations, 1 commit | the next undisturbed run repairs what overlapping runs left |
| `pages` | 3 rows, 3 changes of the address, 2 requests under way | the pages keep the promise of `PageView`; nothing set is lost, no empty page, links lead to what is shown, rows stand in the order of the header |
| `flows` | see below; every request of a project's page and of the dialog of a repository may fail | what is saved stays and is shown, what is removed or added is what the dialog named and checked, a still table is fetched whole |
| `flows_live` | one job of each kind, every request may fail | the buttons come back, the fetch of all rows ends |
| `import_growth`, `closest_conversation`, `time_zone`, `project_tasks` | small instances | *violations*, section 6 |

**Bounds and why they are enough.** *Queue*: one slot and three Submit calls give, at
the same time, a running callback, an id in the channel and a blocked sender; a second
worker gives two callbacks at once and two receivers. *Import*: batches of two give a
full batch and a partial one with the refused session in either; two importers and two
lines let one commit an older and a shorter file after the other; one fault in every
place where the code handles an error is more than a fault-free run, and every handler
returns to the same states. *Links*: two conversations of one session, of which a
commit may match both or one, and one of another session that ends after the first
commit and writes the same line again; the two commits claim overlapping spans; two
runs interleave, or one follows what a fault, a crash, a pseudo-task or a clean has
left. *Pipeline*: two weeks of two days, three instants a day and a session eight
hours ahead of UTC, one session that spans both weeks, one on the main line with a
conversation before 08:00 and one PR on a branch give every level of the boundary
chain that is modelled, a day that differs between the zones, and every relation
between a window and a need; three runs are the least that let a narrow run damage, a
second fail or overlap, and a third repair. *Pages*: three rows and pages of two make
two pages by default and three of one row; a second range and a filter leave one and
two rows, so that a filter can empty a page; three changes of the address are a
change, another while the first is loading, and one that returns; two departments move
branches in the tree. *Flows*: three keys of the list of projects (two orders and one
sorted in the browser), a project that exists and others to come, one job at a time (a
creation and a deletion together only in `flows_live`; the theorems have no such
bound); two repositories, a third to add, two submits of a user who waits and of one
who does not, one request at a time carried out after it was given up: two submits are
the least that let one act on what the other, failed or under way, has changed; three
commits, one in the project already and one that the page does not list, three presses
of the button; one figure saved three times while kbcli computes once; five rows in
pages of two with at most two pages, so that the limit is met. `MaxRuns`, `MaxFaults`,
`MaxCommits`, `MaxCalls` and the other `Max` constants only bound the instance: apart
from type invariants only guards mention them, except `MaxDays` (the window of a
commit) and `MaxPages`, which are the code's.

`flows` and `project_tasks` presuppose that the table of tasks has all four manual
columns the handler names, as a table kept from before the models were renamed has;
`flows_live` takes the tables as AutoMigrate makes them, where every save is refused.

**Deadlock** is not checked where the system comes to rest: the task queue after
Stop, the pipeline and import-repo when their runs are over, a page without fields
when its changes are used up. `ImportConv` and `Flows` are checked for it.

**Fairness.** *Task queue*: goroutines that can run do run, a callback returns,
a Stop that has begun continues. Nobody has to call Submit, Cancel or Stop. The
callbacks are finite loops over files and rows with client timeouts; one that
hangs for ever holds its worker for ever, and the model does not deny it: it is
an assumption. *Import*: weak fairness of a run's own steps, and strong fairness
of a start with force, because the crontab (`configs/kbcli-config.yaml` 215-219)
submits one every week whatever else happens. Nothing is assumed of the
collectors: a file that for ever ends in half a line is excused, not assumed
away. *Pages, Flows*: a request ends, answered or timed out (`api/client.ts` sets
30 s, `runEstimate` 600 s); nothing is assumed of the user. *Pipeline, TaskLinks*:
no liveness is claimed.

## 4. Proofs

`TaskQueueProofs` proves, for every set of tasks and workers and every capacity
`Cap > 0`: `TypeCorrect`, `HonestOutcome`, `RefusalIsFinal`, `IdsAreConserved`
(nothing lost, nothing held twice), `PoolBoundsCallbacks`, `StopIsQuiet`, `Stamps`,
`TerminalForever`, `NoStartAfterCancel` and `Refinement`: `Spec => Lifecycle!Spec`.
The assumptions are `CapAssumption` and `NoTaskAssumption` of `TaskQueue`. None of
the properties is inductive alone: that a pending task is held somewhere needs to
know that it is held only once, and that the one who holds it is in the right place
of its code. The inductive invariant `Inv` therefore adds *where an id may be*, seen
from each of its holders (`InSubmit`, `InChannel`, `InWorker`), what each status
implies (`ByStatus`), who has stamped a task (`StampInv`) and what Stop has waited
for (`StopInv`). There is one lemma per action, with a step per conjunct the action
can disturb; two lemmas on `Append` and `Tail` carry the facts about the channel.
The refinement follows from `Inv` action by action.

`ImportConvProofs` proves, for every set of importers and sessions and every
bound: `TypeCorrect`, `SilicaFollowsCommit` (`SilicaNeverAhead`) and
`RefusedStaysVisible` (`BadStaysVisible`), under `ImportAssumption`. The
invariant adds that a session about to get its silica file has its lines in the
table and is not refused (`Committed`), that an importer which is not finalising
has nothing half-way and one that scans has room in its batch (`Phases`), and that
half a line is within the bound (`Room`).

`TaskLinksProofs` proves, for all conversations, commits, importers and bounds
under `LinksAssumption`: `TypeCorrect`, `LinksResolve` (`LinkNamesTask`) and
`RepairIsComplete` (`ForcedRunRepairs`). An id is written into the column long after
its task was saved, so the invariant adds that whoever is about to write an id holds
one that exists or was cleaned away (`Held`), and what each step of a run implies
(`Phases`). That an undisturbed forced run repairs everything rests on `Progress`:
every commit it has passed is saved, with its tasks, and every conversation of their
spans is claimed by some commit; a later commit of the same run may take a
conversation over, but only for a span that holds it too.

`NeedPipelineProofs` proves, for any conversations, commits, windows and number of
runs: `TypesAreKept`, `RunsLinkBothWays` (`LinksAreMutual`), `FullRunsCover`
(`FullRunCovers`), `RowsAreCurrent` (`RowsMatchNeeds`) and `RerunsChangeNothing`
(`RerunIsIdempotent`, an action property). Of the two maps from instants to days only
that the local one is monotone is assumed. `RowsAreCurrent` compares the rows with the
whole table of needs, of which a run reads a part: `WholeWeeksAreRead` shows that of a
week inside the window nothing is missing from that part. All but the first speak of
the end of a run that had the database to itself, so the invariant has to say what it
has reached at every step: `Progress` carries, per window, *counted*, *resolved*,
*linked* and *current* from the step that establishes each past the steps that might
lose it. While links are written one need at a time, a session either names its need
or belongs to a need still on the list; that this ends with every session linked needs
the needs of one resolution to be disjoint (`NeedsAreDisjoint`). `Rerun` is the same
for a second run with the same dates: every session has the metric it had before,
except between the step that clears the links and the one that writes its need's.
`Quiet` says that the other runs are idle meanwhile, and `Types` that what a run holds
between two transactions still refers to rows that exist, whoever else writes; nothing
is ever deleted from these tables.

`FlowsProofs` proves the invariants and the action properties of `Flows` under
`FlowsAssumption`, for any repositories, tasks, projects, commits, figures, rows and
bounds. A step of `Flows` is a step of the part looked at (`PartsStep`), so each part
has an invariant of its own.

- *Adding to a project*: `ConflictsConfirmed` (`ConflictsAreConfirmed`) and
  `OnlyVettedIsAdded` (`AddsOnlyVetted`) from `Vetting`: the result of a check on the
  screen is that of the selection on the screen, and a request under way carries the
  selection it was checked for, unless the selection was changed under the check.
  Nothing is assumed of which commits the page lists; that the property is about
  additions with a list, and not about an overtaken check, is needed (section 6): TLC
  refutes it without the antecedent of `AddsChecked`, or the one of `ListChecked`.
- *Manual figures*: the second half of `RestShowsDatabase` (`RestingIsTrue`) from
  `FigureFacts`: what was saved last is in the database and in every answer read since,
  and any older answer will be replaced before the page is at rest.
- *Project page*: `RestShowsDatabase`, `SavedReposStay` (`SavedStays`) and
  `NamedIsRemoved` (`RemovesWhatItNames`) from `PageFacts`, whatever requests fail and
  are carried out all the same. Unless a request was reported failed since the page was
  fetched, or some form has changed the database and not fetched yet, what the page
  holds, or will be answered, is the project as it is (`PageTrue`). A repository counts
  as saved only when nothing else was under way until the page was fetched; from then
  on it is in the database, in every row read, list sent and answer under way
  (`SavedKept`), so whoever writes writes it back. A user who waits has one form under
  way (`OneByOne`), so, unless a request failed while the dialog was open or before
  without a fetch since, the row it read and the index it removes by are those of the
  database (`Waits`).
- *List of projects*: `OutcomeIsTold` (`RowsTellOutcome`) and `GhostsAreStale`
  (`NoFreshGhosts`) from `ListFacts`: what the rows promise holds of the answer on its
  way already (`Promise`), and what was deleted is not in the database again (`Ids`).
- *Fetching all rows*: `TableIsFetchedWhole` (`StillTableWhole`) from `FetchFacts`:
  while nothing has changed, the rows so far are the first ones in order, as many as the
  pages asked for before hold. `Sorted` orders rows by rank, and `SortedRows` proves
  that each comes once and ascending.
- *Types*: `PartsAreTyped` (`TypeOK`). The parts above bring their types with them;
  `TaskTypes`, `ListTypes` and `AddTypes` do the rest. That a selection of commits is
  part of the list needs `Vetting`, that a project on the screen is one there has been
  needs `ListFacts`, and that the bar of the task list leads to a page there may be,
  `UrlPageProofs`.

No theorem assumes that requests do not fail (`Lossy` is any Boolean). What a failure
costs is in the properties: a page that was not fetched since a request was reported
failed may show what is no longer so (`ProjectDetail.tsx:966`).

`PageLoadProofs` proves, for any requests: the skeleton is shown exactly while the
request of the address is under way, and what follows is its answer or its failure
(`Invariance`); hence every step of `PageLoad` is a step of `PageView` or none
(`PromiseKept`, the safety half of the refinement, with `NoRequest` no request).

`UrlPageProofs` is about any page that keeps its state in the address: its parameters
are those of `UrlPage` and, of the page, the states the address may hold, the drafts,
and the rows that match a request. Its first half is about `ListOrder`: ranks in a
strict order of a finite set are the numbers below its size, each taken once
(`Ranked`), so sorting permutes the rows, in the order of their values, those without
one last; a page of rows is empty only if all that match fit on the pages before it;
and wherever the bar leads, there is such a page (`PageChosen`). The second half is
the invariant of a page, `PageInv`: the address reads as the state set last (`meant`),
the fields show its dates, what is loaded is what it asks for (`Inv` of
`PageLoadProofs`), and rows are left for its page unless it was picked on the total of
other rows (`Filled`, or `early`). `Suits` is what a page has to bring: reading the
address gives back what was written to it. A handler keeps the invariant if it writes
a new state of page 1, or one with the same rows and a page of the bar.

`PagesProofs` proves, under the assumptions of `Pages`, for any rows, dates, filters,
sizes, fields and departments: `Typed` (`TypeOK`), `InputKept` (`InputIsKept`),
`PagesFilled` (`NoEmptyPage`), `LinksLead` (`LinksLeadToWhatIsShown`), `Sorted`
(`SortedAsShown`), and `PromiseKept`: each of the six pages starts and steps as
`PageView` says. For each list page it shows that it suits `UrlPageProofs`
(`TasksSuits` and its kin) and goes through the handlers one by one. `PagesInv` adds
to `PageInv` what is special to a page: in the list of needs the fields are what was
typed (`NeedsInv`); in that of the users, whose page is no part of the address, the
number that matters is that of the rows in the dates and the keyword (`UsersInv`); the
organisation page asks for nothing until a department is chosen (`OrgsInv`).
`Messages` says what a step of the task list does to the message of a failed load,
which `PromiseKept` needs. The set of rows is finite and not empty there
(`PagesAssumption`), and `NoRequest` no request (`NoRequestAssumption`).

Only model-checked:

- all liveness (fairness is out of the prover's reach): `EveryTaskEnds`,
  `CallsReturn`, `LinesArrive`, `ButtonsComeBack`, `FetchEnds`, and that every load
  ends; hence of `KeepsPromise`, the refinement of `PageView`, only the safety half is
  proved;
- the four runs that show a disagreement, by their nature.

Every invariant and action property of the passing runs is stated by a theorem. What
no theorem says is that orders, page bars and the boundary chain are the ones the user
would want: they are checked through the properties that use them.

## 5. Not modelled

Every component has its status and reason in `PROJECT.json`. In short:

- *Baselines, fusion, estimators*: floating-point formulas and calls of a language
  model. *Views of the backend, `check`*: they only read. *Deployment, fixtures,
  utilities, type declarations, presentation*: no state of their own.
- *fix-task, fix-commit*: they write figures, titles and reasons into single rows.
  `TaskLinks` keeps no such columns.
- *Organisation imports, task API*: they would be further modules (section 7).
- *Dashboard and detail pages*: each repeats the load effect of `PageLoad` for one
  object or card and derives figures for display.
- *Library code* (react-query, gorm, PostgreSQL) is modelled by how it is used, and
  marked external.

## 6. Where code and documents disagree

Shown by runs:

- **A grown file is skipped** (`import_growth`): `generateTaskSilicaFile` reads
  the file's size after the batch was parsed and committed. A line appended in
  between is counted in the size but not imported, and incremental runs skip the
  session. It is repaired by the weekly run with force (`LinesArrive`) or when
  the session grows again.
- **The last conversation wins, not the closest** (`closest_conversation`): the
  index gives a line to the conversation that ended last of all (`silica.go:306`),
  against the comment above it, and the window of the commit is applied afterwards.
  A line written again after the commit counts as not written by AI.
- **Saving a project's name empties its tasks** (`project_tasks`):
  `ProjectDetail.tsx:606` sends back a column the backend never fills.
- **A run without dates can leave out the newest day** (`time_zone`): the range is made
  of `MIN` and `MAX` of `start_time` as days in UTC (`cmd_efficiency_v2.go:369`), and
  compared with `DATE(start_time)` in the time zone of the database session
  (`efficiency_v2_events.go:222`, `225`), Asia/Shanghai in `compose`: conversations
  before 08:00 on the newest day wait for a later run.

Met while modelling, reproducible in the models, not kept as runs:

- **Manual figures are refused**: the statement names columns AutoMigrate does not
  make (`db.go:481`), so that none of the figures is saved. `db.go:892` and
  `db.go:1006` do the same for commits and projects, and `UpdateProjectAggregates`
  (`db.go:1042`), whose error its callers only log.
- **A narrow run changes another week's row**: a need that reaches out of the window
  takes the row of the week it ends in along, which is written anew from what the
  window shows, against `user_productivity.go:22` and
  `docs/efficiency-v2/efficiency-v2-pipeline.md:136`.
- **Without a list the whole branch is added**: the check covers the commits of the
  dates shown (`RepoDetail.tsx:497`), the addition neither sends dates nor a list
  (`:593`).
- **A selection changed under its check counts as checked**: `RepoDetail.tsx:631` sets
  the result for the selection that is there by now, against `:544`.
- **A fetch fills an open dialog of figures again**: the effect of
  `TaskDetail.tsx:325` also runs when the task is fetched again, for instance because
  the connection came back, and takes what was typed. Saving then stores computed
  figures as manual ones, which hide later ones. `CommitDetail.tsx` and
  `ProjectDetail.tsx:655` do the same.
- Needs are never deleted, so a branch need keeps a session that a PR need has taken
  over (`efficiency_v2_need_boundary.go:91`); the propagation of PR numbers along a
  branch does not leave out the main line; the key of a PR need is the number without
  the repository.
- `clean` names the table `task_conversations` (`cmd_clean.go:50`), the model's is
  `conversations` (`models.go:77`): conversations are never deleted, and keep the ids
  of deleted tasks, which is why `LinkNamesTask` excuses them.
- A pseudo-task takes over the conversations of commit tasks and writes the manual
  columns and the title back to empty (`pseudo_task.go:141`); a forced import-repo
  empties the titles too.
- Weekly rows are never deleted: when the last need of a week moves to another, the row
  of the week it left stays (`RowsMatchNeeds` is about weeks that have needs).
- `TaskList.tsx:261`, `:333`: the outcome of an addition or an estimate replaces the
  message that the rows could not be loaded, and the empty table is left unexplained.
- `TaskList.tsx:329`: rows fetched after an estimate are those of the page the button
  was pressed on, not of the current one (`:326`). `TaskList.tsx:238`: the header box
  works under the skeleton, so that ticks can be left over (`:156`).
- `RepoList.tsx:157`: a column sorted in the browser loads the page again (`:7`).
  `UserList.tsx:237`: a click on a header starts the query with dates not confirmed
  (`:225`); `:71`: a user without a ratio is sorted as zero. `ProjectList.tsx:70`: an
  order shown within a minute comes from the cache (`:105`). `NeedList`: a change of
  page or order applies what was typed without going back to page 1.
- `ProjectDetail.tsx:205`: the index in a removal is that of the rows on the screen,
  and a user who does not wait can remove another repository than the dialog names
  (`:537`); `:966`: when the second half of an edit fails, or a request is given up
  after 30 s that the backend carries out, the page is not reloaded (`:965`), and a
  retry of a replacement whose removal went through removes the next repository too. A
  project's manual figure cannot be cleared.
- `project_handler_v2.go:938-957`: two edits of the repositories under way together
  both read the row before either writes it, and the first is lost. `SavedStays` says
  what is kept: repositories saved while nothing else was under way. A dialog closed
  during its request (`ProjectDetail.tsx:509-513`) is enough for one client to do it.
- `RepoDetail.tsx:587`: a retry after a failed addition creates another project.
- `endpoints.ts:80`: rows are lost or come twice when the table changes between two
  pages (`:61`).

The properties of `pages` and `flows` are stated so that they hold beside these, and
say where they stop: `RemovesWhatItNames` at a request reported failed and a user who
does not wait, `SavedStays` at edits under way together, `RestingIsTrue` at a failure
since the last fetch, `AddsOnlyVetted` at an addition without a list and an overtaken
check, `StillTableWhole` at a table that changes. One client edits a project; requests
carried out after they were given up are modelled for the project's page only.
Overlapping pipeline runs promise nothing while they overlap; what is checked is that
the next run that has the database to itself repairs what they left.

## 7. Plan

1. Done: everything in section 2.
2. Done: the proofs of all invariants and action properties the runs check, and of the
   safety half of both refinements (`TaskLifecycle` has no other half).
3. `UserOrg`: import-org, import-dept and the backend's cache: a placeholder never
   replaces a real organisation, the cache catches up.
4. `TaskApi`: handlers, cron and the steps of an import over `TaskQueue`.
5. Pure algorithms against reference definitions over small inputs: merging of
   intervals and calendar minutes (`efficiency_v2_need_aggregate.go`), splitting a
   session into stages (`efficiency_v2_stage.go`).
