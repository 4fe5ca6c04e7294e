----------------------------- MODULE AddToProject -----------------------------
(***************************************************************************)
(* The dialog that adds a repository to a project (frontend-react          *)
(* pages/repos/RepoDetail.tsx, AddRepoToProjectModal): first the commits   *)
(* are checked for being in a project already, then, if none is or the user*)
(* insists, the repository is added, with a list of commits or with all it *)
(* has. The dialog can be used, closed and opened again while its requests *)
(* are under way. Entering the fields of a new project is left out: its    *)
(* name is never empty.                                                    *)
(***************************************************************************)
EXTENDS FiniteSets, Naturals

CONSTANTS
  Commits, Listed,      \* of the branch; those the page lists, for its dates
  Projects, Existing,   \* that can exist; that do at first
  Members,              \* existing project -> commits of the branch it has
  NewProject, NoProject, \* entries of the selection
  Lossy,                \* requests may fail
  MaxPresses            \* bound of the model

VARIABLES
  members,              \* project -> its commits of the branch, in the database
  open,
  selectedProject, whitelistMode, whitelist,
  conflicts, conflictsChecked,
  job,                  \* what the button started
  presses,
  vetted, shown,        \* history: commits of the last check answered; those of
                        \*   them the user was shown to be in a project
  overtaken             \* history: the selection was changed while its check was
                        \*   under way

form == <<selectedProject, whitelistMode, whitelist>>
check == <<conflicts, conflictsChecked>>
history == <<vetted, shown, overtaken>>
vars == <<members, open, form, check, job, presses, history>>

NoJob == [step |-> "none"]
Busy == job # NoJob                         \* submitting
HasConflict == conflictsChecked /\ conflicts # {}

\* The commits the page lists are already those of its dates.
GetTargetCommitIds == IF whitelistMode THEN whitelist \cap Listed ELSE Listed

\* The request for the state of the dialog at the click; no list of commits means all.
IncludeOnly == IF whitelistMode THEN GetTargetCommitIds ELSE {}
Picked(only) == IF only = {} THEN Commits ELSE only

Checking == job.step \in {"checking", "checked"}
InProjects(ids) == {c \in ids : \E p \in DOMAIN members : c \in members[p]}
-----------------------------------------------------------------------------
ResetConflictCheck == conflicts' = {} /\ conflictsChecked' = FALSE /\ overtaken' = Checking

Open ==
  /\ ~open /\ open' = TRUE
  /\ selectedProject' = NoProject /\ whitelistMode' = FALSE /\ whitelist' = {}
  /\ ResetConflictCheck
  /\ UNCHANGED <<members, job, presses, vetted, shown>>

OnClose ==
  /\ open /\ open' = FALSE
  /\ UNCHANGED <<members, form, check, job, presses, history>>

SelectProject(p) ==
  /\ open /\ selectedProject' = p
  /\ ResetConflictCheck
  /\ UNCHANGED <<members, open, whitelistMode, whitelist, job, presses, vetted, shown>>

SetWhitelistMode ==
  /\ open /\ whitelistMode' = ~whitelistMode
  /\ ResetConflictCheck
  /\ UNCHANGED <<members, open, selectedProject, whitelist, job, presses, vetted, shown>>

ToggleWhitelistKeepsCheck(c) ==  \* faulty: the check is not taken back
  /\ open /\ whitelistMode /\ c \in Listed
  /\ whitelist' = IF c \in whitelist THEN whitelist \ {c} ELSE whitelist \cup {c}
  /\ overtaken' = Checking
  /\ UNCHANGED <<members, open, selectedProject, whitelistMode, check, job, presses, vetted, shown>>
ToggleWhitelist(c) ==
  /\ open /\ whitelistMode /\ c \in Listed
  /\ whitelist' = IF c \in whitelist THEN whitelist \ {c} ELSE whitelist \cup {c}
  /\ ResetConflictCheck
  /\ UNCHANGED <<members, open, selectedProject, whitelistMode, job, presses, vetted, shown>>

-----------------------------------------------------------------------------
\* What doAdd sends, with what the dialog held when the button was pressed.
Adding(p, only) ==
  IF p = NewProject THEN [step |-> "creating", only |-> only]
  ELSE [step |-> "adding", project |-> p, only |-> only]

Press == open /\ ~Busy /\ presses < MaxPresses /\ presses' = presses + 1
          /\ selectedProject # NoProject

HandleConfirm ==
  /\ Press /\ ~HasConflict
  /\ IF conflictsChecked THEN job' = Adding(selectedProject, IncludeOnly) /\ UNCHANGED overtaken
     ELSE /\ GetTargetCommitIds # {} /\ overtaken' = FALSE
          /\ job' = [step |-> "checking", ids |-> GetTargetCommitIds,
                     project |-> selectedProject, only |-> IncludeOnly]
  /\ UNCHANGED <<members, open, form, check, vetted, shown>>

\* "add anyway"
DoAddAnyway ==
  /\ Press /\ HasConflict
  /\ job' = Adding(selectedProject, IncludeOnly)
  /\ UNCHANGED <<members, open, form, check, history>>

CheckProjectConflicts ==
  /\ job.step = "checking"
  /\ job' = [step |-> "checked", found |-> InProjects(job.ids), ids |-> job.ids,
             project |-> job.project, only |-> job.only]
  /\ UNCHANGED <<members, open, form, check, presses, history>>

\* Conflicts stop it; without any it goes on to what it was pressed for.
CheckAnsweredGoesOn ==        \* faulty: conflicts do not stop it
  /\ job.step = "checked"
  /\ conflicts' = job.found /\ conflictsChecked' = TRUE
  /\ job' = Adding(job.project, job.only)
  /\ vetted' = job.ids /\ shown' = job.found
  /\ UNCHANGED <<members, open, form, presses, overtaken>>
CheckAnswered ==
  /\ job.step = "checked"
  /\ conflicts' = job.found /\ conflictsChecked' = TRUE
  /\ job' = IF job.found # {} THEN NoJob ELSE Adding(job.project, job.only)
  /\ vetted' = job.ids /\ shown' = job.found
  /\ UNCHANGED <<members, open, form, presses, overtaken>>

CreateProject ==
  /\ job.step = "creating"
  /\ \E p \in Projects \ DOMAIN members :
       /\ members' = [q \in DOMAIN members \cup {p} |-> IF q = p THEN {} ELSE members[q]]
       /\ job' = [step |-> "created", project |-> p, only |-> job.only]
  /\ UNCHANGED <<open, form, check, presses, history>>

ProjectCreated ==
  /\ job.step = "created"
  /\ job' = [step |-> "adding", project |-> job.project, only |-> job.only]
  /\ UNCHANGED <<members, open, form, check, presses, history>>

AddRepoToProject ==
  /\ job.step = "adding"
  /\ members' = [members EXCEPT ![job.project] = @ \cup Picked(job.only)]
  /\ job' = [job EXCEPT !.step = "added"]
  /\ UNCHANGED <<open, form, check, presses, history>>

\* The dialog closes, whichever it is by now.
AddAnswered ==
  /\ job.step = "added" /\ job' = NoJob /\ open' = FALSE
  /\ UNCHANGED <<members, form, check, presses, history>>

\* A request fails, carried out or not: the dialog stays as it is.
Fails ==
  /\ Lossy /\ Busy /\ job' = NoJob
  /\ UNCHANGED <<members, open, form, check, presses, history>>

Backend == CheckProjectConflicts \/ CreateProject \/ AddRepoToProject
Answers == CheckAnswered \/ ProjectCreated \/ AddAnswered \/ Fails

\* What the element tree of the dialog offers.
UserEvents ==
  \/ Open \/ OnClose
  \/ \E p \in Existing \cup {NewProject, NoProject} : SelectProject(p)
  \/ SetWhitelistMode
  \/ \E c \in Commits : ToggleWhitelist(c)
  \/ HandleConfirm \/ DoAddAnyway

Next == UserEvents \/ Backend \/ Answers

Init ==
  /\ members = Members /\ open = FALSE
  /\ selectedProject = NoProject /\ whitelistMode = FALSE /\ whitelist = {}
  /\ conflicts = {} /\ conflictsChecked = FALSE
  /\ job = NoJob /\ presses = 0
  /\ vetted = {} /\ shown = {} /\ overtaken = FALSE

Spec == Init /\ [][Next]_vars

\* Every request is answered or times out; the user owes nothing.
FairSpec == Spec /\ WF_vars(Backend \/ Answers)
-----------------------------------------------------------------------------

\* A project that is being added to exists, and conflicts are among the commits listed.
TypeOK ==
  /\ DOMAIN members \subseteq Projects /\ \A p \in DOMAIN members : members[p] \subseteq Commits
  /\ selectedProject \in Existing \cup {NewProject, NoProject}
  /\ whitelist \subseteq Listed /\ conflicts \subseteq Listed
  /\ job.step \in {"none", "checking", "checked", "creating", "created", "adding", "added"}
  /\ job.step \in {"created", "adding", "added"} => job.project \in DOMAIN members
  /\ presses \in 0..MaxPresses /\ overtaken \in BOOLEAN

\* An addition gets under way.
Begins == job.step \in {"none", "checked"} /\ job'.step \in {"creating", "adding"}

\* "After a change of the target or of the list conflicts have to be checked anew"
\* (RepoDetail.tsx:544): the commits on the list of an addition were checked.
ListChecked == Begins /\ job'.only # {} => Picked(job'.only) \subseteq vetted'

\* It is so of every addition with a list, however the dialog is used, closed and
\* opened while its requests are under way and fail, but for a selection changed
\* while its own check was under way, whose result is then taken for the new one
\* (:631). Without a list the whole branch is added, of which the commits of the
\* dates were checked (:593).
AddsChecked == ~overtaken => ListChecked

\* A commit that the check found in a project is only added again after the user
\* has seen it on the list of conflicts of the dialog, and pressed once more.
ConflictsConfirmed == Begins => Picked(job'.only) \cap shown' \subseteq conflicts

\* The button of the dialog comes back.
ButtonComesBack == Busy ~> ~Busy
=============================================================================
