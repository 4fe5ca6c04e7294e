---------------------------- MODULE ProjectEditing ----------------------------
(***************************************************************************)
(* The dialogs of a project's page (frontend-react                         *)
(* pages/projects/ProjectDetail.tsx) that change what the project consists *)
(* of: its repositories, an array the backend addresses by index, and the  *)
(* tasks added by hand beside those of its commits.                        *)
(*                                                                         *)
(* A dialog is filled from the answer on the screen and can be closed while*)
(* its requests are under way; a request closes the dialogs of its form    *)
(* once it is answered, then fetches the page again. The backend changes   *)
(* the array by reading the row and writing it back, and goes on with a    *)
(* request also when the browser has given it up (30 s, api/client.ts:7).  *)
(* One client; name, description, silica weights and the manual figures    *)
(* are left out.                                                           *)
(***************************************************************************)
EXTENDS Sequences, SequencesExt, FiniteSets

CONSTANTS
  Repos, Tasks,
  TasksOf,              \* repository -> tasks of the commits it selects
  FirstRepos, FirstTasks, \* those of the project at first
  NoData,
  Patient,              \* the user opens no dialog before the page is at rest
  Lossy,                \* requests may fail
  MaxSubmits,           \* bounds of the model: on the submits, and on the
  Late                  \*   requests the backend goes on with after they were given up

VARIABLES
  repos, added,         \* projects.repos; project_tasks
  data, stale, flight,  \* see QueryCache
  dialog,               \* the one that is open
  job,                  \* form -> its requests under way; those given up
  submits,
  saved,                \* history: repositories saved, with nothing else under way
                        \*   until the page was fetched, and not removed since
  doubt, guess          \* history: a request was reported failed since the page was
                        \*   last fetched; since the dialog was filled, or before

cache == <<data, stale, flight>>
history == <<saved, doubt, guess>>
vars == <<repos, added, cache, dialog, job, submits, history>>

detail == "detail"
Project == [repos |-> repos, tasks |-> added \cup UNION {TasksOf[r] : r \in ToSet(repos)}]
Cache == INSTANCE QueryCache WITH Keys <- {detail}, held <- [k \in {detail} |-> Project]
Shown == data[detail]

\* A form has one submit button, disabled while its job lasts.
Forms == {"edit", "repo", "task", "removeTask", "removeRepo"}
Slots == Forms \cup Late
NoDialog == [form |-> "none"]
NoJob == [step |-> "none"]
NoneLate == \A l \in Late : job[l] = NoJob
Resting == flight[detail] = Cache!Idle /\ \A f \in Forms : job[f] = NoJob

\* What the rows and buttons on the screen open.
Dialogs ==
  IF Shown = NoData THEN {}
  ELSE {[form |-> f] : f \in {"edit", "repo", "task"}}
       \cup {[form |-> f, index |-> i, repo |-> Shown.repos[i]] :
               f \in {"repo", "removeRepo"}, i \in DOMAIN Shown.repos}
       \cup {[form |-> "removeTask", task |-> t] : t \in Shown.tasks}

\* The requests a dialog makes, one after the other, for what is typed into it.
\* The form sends projects.task_ids along as the tasks, a column the backend
\* never writes.
Removal(d) == [op |-> "removeAt", index |-> d.index, names |-> d.repo]
EditModal == {<<[op |-> "update", repos |-> Shown.repos, tasks |-> {}]>>}
RepoModal(d) ==
  {(IF "index" \in DOMAIN d THEN <<Removal(d)>> ELSE <<>>) \o <<[op |-> "addRepo", repo |-> r]>> :
     r \in Repos}
DoRemoveRepo(d) == {<<Removal(d)>>}
AddTaskModal == {<<[op |-> "addTasks", tasks |-> S]>> : S \in SUBSET Tasks \ {{}}}
DoRemoveTask(d) == {<<[op |-> "removeTasks", tasks |-> {d.task}]>>}
Requests(d) ==
  CASE d.form = "edit" -> EditModal
    [] d.form = "repo" -> RepoModal(d)
    [] d.form = "removeRepo" -> DoRemoveRepo(d)
    [] d.form = "task" -> AddTaskModal
    [] d.form = "removeTask" -> DoRemoveTask(d)

-----------------------------------------------------------------------------
OpenDialog(d) ==
  /\ dialog = NoDialog
  /\ Patient => Resting
  /\ dialog' = d
  /\ guess' = IF NoneLate THEN doubt ELSE TRUE
  /\ UNCHANGED <<repos, added, cache, job, submits, saved, doubt>>

CloseDialog ==
  /\ dialog # NoDialog /\ dialog' = NoDialog
  /\ UNCHANGED <<repos, added, cache, job, submits, history>>

Submit ==
  /\ dialog # NoDialog /\ job[dialog.form] = NoJob /\ submits < MaxSubmits
  /\ \E todo \in Requests(dialog) :
       job' = [job EXCEPT ![dialog.form] = [step |-> "sent", todo |-> todo]]
  /\ submits' = submits + 1
  /\ UNCHANGED <<repos, added, cache, dialog, history>>

\* How the backend carries out a request: at once, or on the row it has read.
Now(f) == Head(job[f].todo)
Sent(f, ops) == job[f].step = "sent" /\ Now(f).op \in ops

\* Of a request given up nobody is told.
Done(f) ==
  /\ job' = [job EXCEPT ![f] = IF f \in Late THEN NoJob ELSE [step |-> "done", todo |-> job[f].todo]]
  /\ doubt' = IF f \in Late THEN TRUE ELSE doubt

ReadRow(f) ==
  /\ Sent(f, {"addRepo", "removeAt"})
  /\ Now(f).op = "removeAt" => Now(f).index \in DOMAIN repos
  /\ job' = [job EXCEPT ![f] = [step |-> "read", todo |-> job[f].todo, row |-> repos]]
  /\ UNCHANGED <<repos, added, cache, dialog, submits, history>>

AddRepo(f) ==
  /\ job[f].step = "read" /\ Now(f).op = "addRepo"
  /\ repos' = Append(job[f].row, Now(f).repo)
  /\ Done(f)
  /\ UNCHANGED <<added, cache, dialog, submits, saved, guess>>

RemoveRepoOffByOne(f) ==      \* faulty: the entry before the one asked for goes
  /\ job[f].step = "read" /\ Now(f).op = "removeAt"
  /\ repos' = RemoveAt(job[f].row, IF Now(f).index = 1 THEN 1 ELSE Now(f).index - 1)
  /\ Done(f)
  /\ saved' = saved \ {job[f].row[Now(f).index]}
  /\ UNCHANGED <<added, cache, dialog, submits, guess>>
RemoveRepo(f) ==
  /\ job[f].step = "read" /\ Now(f).op = "removeAt"
  /\ repos' = RemoveAt(job[f].row, Now(f).index)
  /\ Done(f)
  /\ saved' = saved \ {job[f].row[Now(f).index]}
  /\ UNCHANGED <<added, cache, dialog, submits, guess>>

\* The backend replaces the repositories by those sent, then the tasks.
UpdateProject(f) ==
  /\ Sent(f, {"update"})
  /\ repos' = Now(f).repos
  /\ job' = [job EXCEPT ![f] = [step |-> "updated", todo |-> job[f].todo]]
  /\ UNCHANGED <<added, cache, dialog, submits, history>>

ReplaceProjectTasks(f) ==
  /\ job[f].step = "updated"
  /\ added' = Now(f).tasks
  /\ Done(f)
  /\ UNCHANGED <<repos, cache, dialog, submits, saved, guess>>

AddTasks(f) ==
  /\ Sent(f, {"addTasks"})
  /\ added' = added \cup Now(f).tasks
  /\ Done(f)
  /\ UNCHANGED <<repos, cache, dialog, submits, saved, guess>>

\* A task of a commit is not among those that can be removed: nothing happens.
RemoveTasks(f) ==
  /\ Sent(f, {"removeTasks"})
  /\ added' = added \ Now(f).tasks
  /\ Done(f)
  /\ UNCHANGED <<repos, cache, dialog, submits, saved, guess>>

\* The backend has no entry at this index.
Refused(f) ==
  /\ Sent(f, {"removeAt"}) /\ Now(f).index \notin DOMAIN repos
  /\ job' = [job EXCEPT ![f] = NoJob]
  /\ UNCHANGED <<repos, added, cache, dialog, submits, history>>

-----------------------------------------------------------------------------
\* The next request; or the dialog of the form that is open by now closes and
\* the page is fetched again.
NextRequest(f) ==
  /\ job[f].step = "done" /\ Len(job[f].todo) > 1
  /\ job' = [job EXCEPT ![f] = [step |-> "sent", todo |-> Tail(job[f].todo)]]
  /\ UNCHANGED <<repos, added, cache, dialog, submits, history>>

Saves(f) == IF Now(f).op = "addRepo" THEN {Now(f).repo} ELSE {}

AnsweredNoReload(f) ==        \* faulty: the page on the screen is left as it is
  /\ job[f].step = "done" /\ Len(job[f].todo) = 1
  /\ dialog' = IF dialog.form = f THEN NoDialog ELSE dialog
  /\ job' = [job EXCEPT ![f] = [step |-> "reloading", saves |-> Saves(f)]]
  /\ UNCHANGED <<repos, added, cache, submits, history>>
Answered(f) ==
  /\ job[f].step = "done" /\ Len(job[f].todo) = 1
  /\ dialog' = IF dialog.form = f THEN NoDialog ELSE dialog
  /\ Cache!InvalidateAll(detail)
  /\ job' = [job EXCEPT ![f] = [step |-> "reloading", saves |-> Saves(f)]]
  /\ UNCHANGED <<repos, added, submits, history>>

\* A request is reported failed, half done or done, or the backend still goes on
\* with it. What is left to do is not done, the dialog stays as it is and the page
\* is not fetched.
RequestFails(f) ==
  /\ Lossy /\ job[f].step \in {"sent", "read", "updated", "done"}
  /\ \/ job' = [job EXCEPT ![f] = NoJob]
     \/ /\ job[f].step # "done"
        /\ \E l \in Late :
             /\ job[l] = NoJob
             /\ job' = [job EXCEPT ![f] = NoJob, ![l] = [job[f] EXCEPT !.todo = <<Now(f)>>]]
  /\ doubt' = TRUE /\ guess' = TRUE
  /\ UNCHANGED <<repos, added, cache, dialog, submits, saved>>

Reloaded(f) ==
  /\ job[f].step = "reloading" /\ flight[detail] = Cache!Idle
  /\ job' = [job EXCEPT ![f] = NoJob]
  /\ saved' = IF ~doubt /\ \A g \in Slots \ {f} : job[g] = NoJob
              THEN saved \cup (job[f].saves \cap ToSet(repos)) ELSE saved
  /\ UNCHANGED <<repos, added, cache, dialog, submits, doubt, guess>>

\* A fetch that fails for good replaces the page by its error and is left out.
FetchStep ==
  /\ \/ Cache!Read(detail) /\ doubt' = FALSE
     \/ Cache!Settle(detail) /\ UNCHANGED doubt
  /\ UNCHANGED <<repos, added, dialog, job, submits, saved, guess>>

Awaited == {detail : f \in {g \in Forms : job[g].step = "reloading"}}
TimePasses ==
  /\ Cache!Time(detail, Awaited)
  /\ UNCHANGED <<repos, added, dialog, job, submits, history>>

BackendStep(f) ==
  \/ ReadRow(f) \/ AddRepo(f) \/ RemoveRepo(f) \/ Refused(f)
  \/ UpdateProject(f) \/ ReplaceProjectTasks(f) \/ AddTasks(f) \/ RemoveTasks(f)

JobStep(f) == NextRequest(f) \/ Answered(f) \/ RequestFails(f) \/ Reloaded(f)

UserEvents == (\E d \in Dialogs : OpenDialog(d)) \/ CloseDialog \/ Submit

Next ==
  \/ UserEvents
  \/ \E f \in Slots : BackendStep(f)
  \/ \E f \in Forms : JobStep(f)
  \/ FetchStep \/ TimePasses

Init ==
  /\ repos = FirstRepos /\ added = FirstTasks
  /\ data = [k \in {detail} |-> NoData] /\ stale = {}
  /\ flight = [k \in {detail} |-> Cache!Sent]
  /\ dialog = NoDialog /\ job = [f \in Slots |-> NoJob]
  /\ submits = 0 /\ saved = {} /\ doubt = FALSE /\ guess = FALSE

Spec == Init /\ [][Next]_vars

\* Requests and fetches end; the user owes nothing.
FairSpec ==
  /\ Spec /\ WF_vars(FetchStep)
  /\ \A f \in Forms : WF_vars(BackendStep(f)) /\ WF_vars(JobStep(f))
-----------------------------------------------------------------------------

\* A form is busy with at most its own requests, and dialogs are opened from
\* rows that were on the screen.
TypeOK ==
  /\ repos \in Seq(Repos) /\ added \subseteq Tasks
  /\ data[detail] \in {NoData} \cup [repos : Seq(Repos), tasks : SUBSET Tasks]
  /\ dialog.form \in Forms \cup {"none"}
  /\ \A f \in Slots :
       /\ job[f].step \in {"none", "sent", "read", "updated", "done", "reloading"}
       /\ job[f].step \in {"sent", "read", "updated", "done"} => Len(job[f].todo) \in 1..2
       /\ job[f].step = "reloading" => job[f].saves \subseteq Repos
  /\ submits \in 0..MaxSubmits /\ saved \subseteq Repos
  /\ doubt \in BOOLEAN /\ guess \in BOOLEAN

\* Once the page is at rest it shows the project as it is in the database, in
\* whatever order the reloads of several forms have overtaken each other
\* ("must reload after the operation", ProjectDetail.tsx:965), unless a request
\* was reported failed since the page was fetched or the backend still goes on
\* with one that was.
RestingIsTrue == Resting /\ NoneLate /\ ~doubt => Shown = Project

\* The entry that goes is the one the dialog names: between the answer an index
\* was taken from and the removal the array has not moved (ProjectDetail.tsx:537),
\* unless a request was reported failed in between.
RemovesNamed ==
  \A f \in Forms :
    job[f].step = "read" /\ job'[f].step = "done" /\ Now(f).op = "removeAt" /\ ~guess
      => \E i \in DOMAIN repos : repos[i] = Now(f).names /\ repos' = RemoveAt(repos, i)

\* ... and its tasks (ProjectDetail.tsx:601, endpoints.ts:223).
EditKept == job["edit"].step = "updated" /\ job'["edit"].step = "done" => added' = added

\* A repository that was saved, with nothing else under way until the page was
\* fetched again, stays until a removal takes its entry: no later request writes
\* back a row read, or a list shown, without it, however requests overlap and fail.
SavedStays == saved \subseteq ToSet(repos)

\* A form can be submitted again after each of its jobs.
FormsComeBack == \A f \in Forms : (job[f] # NoJob) ~> (job[f] = NoJob)
=============================================================================
